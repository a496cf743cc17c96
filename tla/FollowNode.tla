----------------------------- MODULE FollowNode -----------------------------
(***************************************************************************)
(* What the follow node promises to the bridge that gives it sessions: a   *)
(* velocity carries the session the node works for, a motion aims at the   *)
(* target that came with that session, and nobody moves under session 0.   *)
(***************************************************************************)
EXTENDS Naturals

CONSTANT Sessions   \* the numbers a bridge may send; 0, which ends a session, is one

VARIABLES
  session,    \* the session the node works for
  velocity    \* the last velocity it sent

Init ==
  /\ session = 0
  /\ velocity = [session |-> 0, aim |-> 0, moves |-> FALSE]

Retarget ==
  /\ session' \in Sessions
  /\ UNCHANGED velocity

Send ==
  /\ \E moves \in {FALSE, session # 0} :
       velocity' = [session |-> session, aim |-> session, moves |-> moves]
  /\ UNCHANGED session

Spec == Init /\ [][Retarget \/ Send]_<<session, velocity>>
=============================================================================
