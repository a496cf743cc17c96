---------------------------- MODULE GuardedOutput ----------------------------
(***************************************************************************)
(* The guard and its sending boundary (motion_control/core.py, classes     *)
(* MotionGuard and GuardedOutput) under callers that promise nothing: any  *)
(* update, from any thread, with any time stamp - late, in the future or   *)
(* unusable - and a send that may raise.  One thread ticks; GuardedOutput  *)
(* takes no lock of its own, so updates of other threads may fall between  *)
(* the decision of a tick and the send that follows it.                    *)
(***************************************************************************)
EXTENDS MotionGuard

CONSTANT Times      \* the times callers pass; NeverSeen stands for an unusable one

ASSUME TimesAssumption == Times \subseteq Int

VARIABLES
  guard,        \* the MotionGuard
  pendingZero,  \* GuardedOutput._pending_zero
  sending,      \* what tick is about to hand to send: nothing, a release or a zero
  robot,        \* the last command that reached the wire
  sendFailed,   \* some send raised
  clean,        \* history: nothing was refused since the last successful arm
  confirmed     \* history: control was confirmed and nothing was refused since

vars == <<guard, pendingZero, sending, robot, sendFailed, clean, confirmed>>

TypeOK ==
  /\ guard \in GuardRecord
  /\ pendingZero \in BOOLEAN
  /\ sending \in {"nothing", "release", "zero"}
  /\ robot \in {"silent", "moving", "stopped"}
  /\ sendFailed \in BOOLEAN /\ clean \in BOOLEAN /\ confirmed \in BOOLEAN

Init ==
  /\ \E enabled \in BOOLEAN : guard = NewGuard(enabled)
  /\ pendingZero = FALSE
  /\ sending = "nothing"
  /\ robot = "silent"
  /\ sendFailed = FALSE /\ clean = FALSE /\ confirmed = FALSE

-----------------------------------------------------------------------------
(* Callers of the guard.  The history variables are computed from what the *)
(* caller did, not from the guard.                                         *)

History(fine) ==
  /\ clean' = (clean /\ fine)
  /\ confirmed' = (confirmed /\ fine)

Inform ==
  /\ \E good \in BOOLEAN, t \in Times :
       /\ \/ guard' = UpdateStatus(guard, good, t)
          \/ guard' = UpdateTracking(guard, good, t)
          \/ guard' = UpdateCommand(guard, good, t)
       /\ History(good /\ ValidTime(t))
  /\ UNCHANGED <<pendingZero, sending, robot, sendFailed>>

InformScan ==
  /\ \E verdict \in ScanVerdict, t \in Times, age \in -ScanFuture - 1 .. ScanTTL + 1 :
       /\ guard' = UpdateScan(guard, verdict, age, t)
       /\ History(verdict = "clear" /\ ValidTime(t) /\ age \in -ScanFuture .. ScanTTL)
  /\ UNCHANGED <<pendingZero, sending, robot, sendFailed>>

Confirm ==
  /\ \E yes \in BOOLEAN :
       /\ guard' = SetExclusiveControl(guard, yes)
       /\ confirmed' = yes
       /\ clean' = (clean /\ yes)
  /\ UNCHANGED <<pendingZero, sending, robot, sendFailed>>

ManualDisarm ==
  /\ guard' = Disarm(guard)
  /\ History(FALSE)
  /\ UNCHANGED <<pendingZero, sending, robot, sendFailed>>

RequestArm ==
  /\ \E now \in Times :
       /\ guard' = Arm(guard, now)
       /\ clean' = ArmAllowed(guard, now)
       /\ confirmed' = (confirmed /\ (ArmAllowed(guard, now) \/ ~guard.outputEnabled))
  /\ UNCHANGED <<pendingZero, sending, robot, sendFailed>>

-----------------------------------------------------------------------------
(* GuardedOutput.tick: decide, then send                                   *)

Refused(now) ==
  \/ now < 0
  \/ now < guard.lastNow
  \/ guard.outputEnabled /\ \E i \in Input : ~Fresh(guard, i, now)

Decide(now) ==
  /\ sending = "nothing"
  /\ guard' = Evaluate(guard, now)
  /\ History(~Refused(now))
  /\ \/ /\ EvaluateAllowed(guard, now)
        /\ sending' = "release"
        /\ UNCHANGED pendingZero
     \/ /\ ~EvaluateAllowed(guard, now)
        /\ sending' = IF pendingZero THEN "zero" ELSE "nothing"
        /\ pendingZero' = FALSE
  /\ UNCHANGED <<robot, sendFailed>>

MutantSendForgetsDebt ==
  /\ sending # "nothing"
  /\ robot' = IF sending = "release" THEN "moving" ELSE "stopped"
  /\ sending' = "nothing"
  /\ UNCHANGED <<pendingZero, guard, sendFailed, clean, confirmed>>

\* A release that went out leaves a zero owed.
Send ==
  /\ sending # "nothing"
  /\ robot' = IF sending = "release" THEN "moving" ELSE "stopped"
  /\ pendingZero' = (sending = "release" \/ pendingZero)
  /\ sending' = "nothing"
  /\ UNCHANGED <<guard, sendFailed, clean, confirmed>>

\* A send that raises disarms; what was owed before a release stays owed.
SendRaises ==
  /\ sending # "nothing"
  /\ sendFailed' = TRUE
  /\ guard' = Disarm(guard)
  /\ History(FALSE)
  /\ sending' = "nothing"
  /\ UNCHANGED <<pendingZero, robot>>

Tick == (\E now \in Times : Decide(now)) \/ Send \/ SendRaises

Next ==
  \/ Inform
  \/ InformScan
  \/ Confirm
  \/ ManualDisarm
  \/ RequestArm
  \/ Tick

\* The owner of the boundary keeps ticking; nobody owes the guard any input.
Spec == Init /\ [][Next]_vars /\ WF_vars(Tick)

-----------------------------------------------------------------------------
(* Properties                                                              *)

\* Nothing is released unless some arm succeeded and, since that arm, no input
\* was refused, no decision went against it, nobody disarmed and no send raised:
\* recovered data never resumes motion by itself (core.py:101-102), and a clock
\* that runs backwards is refused rather than believed.
ReleaseNeedsUnbrokenArm ==
  [][sending' = "release" /\ sending # "release" => clean']_vars

\* The guard becomes armed only if a person confirmed exclusive control after
\* the last thing that went wrong: one confirmation never covers two arms that
\* a fault separates (core.py:132).
ArmNeedsNewConfirmation ==
  [][~guard.armed /\ guard'.armed => confirmed]_vars

\* When motion has lost its permission, a zero reaches the wire, unless a send
\* raised or somebody arms again.
StopFollows ==
  (robot = "moving" /\ ~guard.armed) ~> (robot = "stopped" \/ sendFailed \/ guard.armed)
=============================================================================
