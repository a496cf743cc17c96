---------------------------- MODULE MCWebSockets ----------------------------
\* Three connections for two descriptors.
EXTENDS WebSockets
=============================================================================
