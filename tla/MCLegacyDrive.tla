---------------------------- MODULE MCLegacyDrive ----------------------------
\* The legacy stack with limits of no or one tick: once with the follow node,
\* once with the bridge alone and its actions.
EXTENDS LegacyDrive

MCSetups == {[follow |-> TRUE, actions |-> 0], [follow |-> FALSE, actions |-> 1]}
=============================================================================
