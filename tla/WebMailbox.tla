------------------------------ MODULE WebMailbox ------------------------------
(***************************************************************************)
(* What the main loop may rely on when it asks the web worker for results  *)
(* (motion_control/RUNTIME.md, lines 26-28): it is handed a failure if one *)
(* was recorded since it last asked, whatever came after that failure, and *)
(* then the newest result if that is good and was not handed over before.  *)
(***************************************************************************)

VARIABLES
  failed,   \* a failure was recorded and not yet handed over
  good,     \* the newest result is good and was not yet handed over
  handed    \* what the last hand-over contained

vars == <<failed, good, handed>>

Init ==
  /\ failed = FALSE
  /\ good = FALSE
  /\ handed = [failed |-> FALSE, good |-> FALSE]

RecordFailure == failed' = TRUE /\ good' = FALSE /\ UNCHANGED handed

RecordGood == good' = TRUE /\ UNCHANGED <<failed, handed>>

HandOver ==
  /\ handed' = [failed |-> failed, good |-> good]
  /\ failed' = FALSE
  /\ good' = FALSE

Next == RecordFailure \/ RecordGood \/ HandOver

Spec == Init /\ [][Next]_vars
=============================================================================
