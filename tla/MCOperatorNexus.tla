--------------------------- MODULE MCOperatorNexus ---------------------------
\* The operator variant of the node with two handlers and two sessions.
EXTENDS OperatorNexus
=============================================================================
