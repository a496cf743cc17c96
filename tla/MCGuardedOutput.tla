--------------------------- MODULE MCGuardedOutput ---------------------------
\* GuardedOutput with two usable times and one unusable.
EXTENDS GuardedOutput

MCTimes == {NeverSeen} \cup 0 .. 1
=============================================================================
