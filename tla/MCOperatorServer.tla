-------------------------- MODULE MCOperatorServer --------------------------
\* OperatorServer with a few requests of each kind.
EXTENDS OperatorServer
=============================================================================
