----------------------------- MODULE MotionGuard -----------------------------
(***************************************************************************)
(* The release gate of motion_control/core.py (class MotionGuard) as pure  *)
(* operators on a guard record: every method of the class is one operator  *)
(* from the guard before the call to the guard after it.  The class holds  *)
(* its lock for a whole method, so a method is one atomic operator.        *)
(*                                                                         *)
(* Times are integers (the code's monotonic seconds in some small unit).   *)
(* A reason is kept only as "this input has no standing complaint" (ok):   *)
(* the wording of a reason never changes a decision.                       *)
(***************************************************************************)
EXTENDS Integers

CONSTANTS
  StatusTTL, ScanTTL, TrackingTTL, CommandTTL,  \* core.py: 0.5, 0.5, 0.5, 0.3
  ScanFuture                                    \* core.py: 0.1

ASSUME TTLAssumption ==
  /\ StatusTTL \in Nat /\ ScanTTL \in Nat /\ TrackingTTL \in Nat /\ CommandTTL \in Nat
  /\ ScanFuture \in Nat

Input == {"status", "scan", "tracking", "command"}

TTL == [i \in Input |-> CASE i = "status"   -> StatusTTL
                          [] i = "scan"     -> ScanTTL
                          [] i = "tracking" -> TrackingTTL
                          [] i = "command"  -> CommandTTL]

NeverSeen == -1      \* _last_now is None; also stands for an unusable time

\* at[i] is when input i was last accepted, age0 the age the scan already had
\* then, lastNow the last time the guard was asked to decide.
GuardRecord ==
  [outputEnabled : BOOLEAN, armed : BOOLEAN, exclusive : BOOLEAN,
   lastNow : Int, ok : [Input -> BOOLEAN], at : [Input -> Int], age0 : Int]

NewGuard(outputEnabled) ==
  [outputEnabled |-> outputEnabled, armed |-> FALSE, exclusive |-> FALSE,
   lastNow |-> NeverSeen, ok |-> [i \in Input |-> FALSE],
   at |-> [i \in Input |-> 0], age0 |-> 0]

ValidTime(t) == t >= 0

-----------------------------------------------------------------------------
(* Inputs                                                                  *)

MutantDisarmKeepsExclusive(g) == [g EXCEPT !.armed = FALSE]

Disarm(g) == [g EXCEPT !.armed = FALSE, !.exclusive = FALSE]

Accept(g, i, t) == [g EXCEPT !.ok[i] = TRUE, !.at[i] = t]

MutantRejectKeepsArm(g, i) == [g EXCEPT !.ok[i] = FALSE, !.at[i] = 0]

\* The stamp of a refused input is never read again and is forgotten here.
Reject(g, i) == Disarm([g EXCEPT !.ok[i] = FALSE, !.at[i] = 0])

Update(g, i, good, t) ==
  IF good /\ ValidTime(t) THEN Accept(g, i, t) ELSE Reject(g, i)

UpdateStatus(g, asExpected, t) == Update(g, "status", asExpected, t)

UpdateTracking(g, valid, t) == Update(g, "tracking", valid, t)

UpdateCommand(g, finite, t) == Update(g, "command", finite, t)

ScanVerdict == {"clear", "blocked", "unusable"}

\* A usable scan that is not clear counts as a missing one.
UpdateScan(g, verdict, age, t) ==
  IF verdict = "clear" /\ age \in -ScanFuture .. ScanTTL /\ ValidTime(t)
  THEN [Accept(g, "scan", t) EXCEPT !.age0 = age]
  ELSE [Reject(g, "scan") EXCEPT !.age0 = 0]

SetExclusiveControl(g, confirmed) ==
  IF confirmed THEN [g EXCEPT !.exclusive = TRUE] ELSE Disarm(g)

-----------------------------------------------------------------------------
(* Decisions                                                               *)

Fresh(g, i, now) ==
  LET age == IF i = "scan" THEN g.age0 ELSE 0
  IN  /\ g.ok[i]
      /\ g.at[i] <= now
      /\ age + (now - g.at[i]) <= TTL[i]

Blocked(g, now) == \E i \in Input : ~Fresh(g, i, now)

ClockInvalid(g, now) == ~ValidTime(now) \/ now < g.lastNow

\* _check_clock: a usable time becomes the new lower bound, another does not.
CheckClock(g, now) ==
  IF ClockInvalid(g, now) THEN g ELSE [g EXCEPT !.lastNow = now]

ArmAllowed(g, now) ==
  /\ ~ClockInvalid(g, now)
  /\ g.outputEnabled
  /\ g.exclusive
  /\ ~Blocked(g, now)

\* A refused arm disarms, unless it was refused because output is disabled.
Arm(g, now) ==
  LET h == CheckClock(g, now) IN
  IF ArmAllowed(g, now) THEN [h EXCEPT !.armed = TRUE]
  ELSE IF ~ClockInvalid(g, now) /\ ~g.outputEnabled THEN h
  ELSE Disarm(h)

EvaluateAllowed(g, now) ==
  /\ ~ClockInvalid(g, now)
  /\ g.outputEnabled
  /\ ~Blocked(g, now)
  /\ g.armed

Evaluate(g, now) ==
  LET h == CheckClock(g, now) IN
  IF \/ ClockInvalid(g, now)
     \/ g.outputEnabled /\ Blocked(g, now)
  THEN Disarm(h) ELSE h
=============================================================================
