---------------------------- MODULE MotionRuntime ----------------------------
(***************************************************************************)
(* One process of motion_control/runtime.py from the first iteration of    *)
(* its main loop to its exit: the Controller, its GuardedOutput (core.py)  *)
(* and NavCmdSender (nav_sender.py), the callbacks that the executor runs  *)
(* inside the loop, and the clock.  The loop is one thread: pc says where  *)
(* it is, and a SIGINT (KeyboardInterrupt) may strike between any two      *)
(* steps.  Time passes before every step that reads the clock.             *)
(***************************************************************************)
EXTENDS MotionGuard

CONSTANTS
  SessionSeconds,  \* Controller(session_seconds=...): how long one arm lasts
  RunSeconds,      \* main: t_end, the process's own lifetime
  ProbeInterval,   \* OWNERSHIP_CHECK_INTERVAL
  SpinMax,         \* SPIN_BATCH_MAX: callbacks per iteration
  PacketMax,       \* telemetry events handled per poll
  MaxTime          \* bound: the clock stops here (after RunSeconds)

ASSUME RuntimeAssumption ==
  /\ SessionSeconds \in Nat \ {0} /\ RunSeconds \in Nat /\ ProbeInterval \in Nat \ {0}
  /\ SpinMax \in Nat /\ PacketMax \in Nat
  /\ MaxTime \in Nat /\ RunSeconds <= MaxTime

VARIABLES
  live,         \* --live, which is also sender.enabled
  now,          \* time.monotonic()
  pc,           \* where the main thread is
  budget,       \* callbacks or packets it may still handle in this phase
  fresh,        \* main's local `fresh'
  guard,        \* the MotionGuard
  session,      \* Controller._session_locked, _armed_once, _deadline
  pendingZero,  \* GuardedOutput._pending_zero
  sender,       \* NavCmdSender._fault and _pub, Controller.pub_confirmed
  ownership,    \* the last verdict of the ownership probe
  lastProbe,    \* main's local `last_probe'
  robot,        \* the last command published on /NAV_CMD
  interrupted   \* a SIGINT has struck

vars == <<live, now, pc, budget, fresh, guard, session, pendingZero, sender,
          ownership, lastProbe, robot, interrupted>>

Never == -1     \* no deadline yet; no probe or `fresh' worth remembering
Nothing == -1   \* no unread good result

Loop == {"spin", "telemetry", "web", "probe", "tick", "release", "published",
         "zeroTick", "zeroArm", "judge", "rest"}
Exit == {"exit", "zeroExit"}
Pc == Loop \cup Exit \cup {"closed"}

Health == {"healthy", "fatal"}

TypeOK ==
  /\ live \in BOOLEAN
  /\ now \in Nat
  /\ pc \in Pc
  /\ budget \in Nat
  /\ fresh \in Int
  /\ guard \in GuardRecord
  /\ session \in [locked : BOOLEAN, armedOnce : BOOLEAN, deadline : Int]
  /\ pendingZero \in BOOLEAN
  /\ sender \in [fault : BOOLEAN, pub : BOOLEAN, confirmed : BOOLEAN]
  /\ ownership \in Health
  /\ lastProbe \in Int
  /\ robot \in {"silent", "moving", "stopped"}
  /\ interrupted \in BOOLEAN

\* A live process has just seen a healthy graph (_wait_live_discovery); the
\* first iteration always probes because last_probe is long ago.
Init ==
  /\ live \in BOOLEAN
  /\ now = 0
  /\ pc = "spin"
  /\ budget = SpinMax
  /\ fresh = Never
  /\ guard = NewGuard(TRUE)
  /\ session = [locked |-> FALSE, armedOnce |-> FALSE, deadline |-> Never]
  /\ pendingZero = FALSE
  /\ sender = [fault |-> FALSE, pub |-> FALSE, confirmed |-> FALSE]
  /\ ownership \in IF live THEN {"healthy"} ELSE Health
  /\ lastProbe = -ProbeInterval
  /\ robot = "silent"
  /\ interrupted = FALSE

Lock(s) == [s EXCEPT !.locked = TRUE]

LockIfArmedOnce(s) == IF live /\ s.armedOnce THEN Lock(s) ELSE s

\* The graph is what the environment makes of it; the probe subtracts the
\* process's own publisher only once a send has confirmed that it exists.
Observed(graph) == IF sender.pub /\ ~sender.confirmed THEN "fatal" ELSE graph

-----------------------------------------------------------------------------
(* Callbacks run by the executor inside _spin_batch                        *)

Callback ==
  /\ pc = "spin"
  /\ budget > 0
  /\ budget' = budget - 1

OnScan ==
  /\ Callback
  /\ \E verdict \in ScanVerdict, age \in 0 .. ScanTTL :
       guard' = UpdateScan(guard, verdict, age, now)
  /\ UNCHANGED <<live, now, pc, fresh, session, pendingZero, sender, ownership,
                 lastProbe, robot, interrupted>>

OnRaw ==
  /\ Callback
  /\ \E finite \in BOOLEAN : guard' = UpdateCommand(guard, finite, now)
  /\ UNCHANGED <<live, now, pc, fresh, session, pendingZero, sender, ownership,
                 lastProbe, robot, interrupted>>

\* on_scan or on_raw raised: the guard disarms, the lock waits for the tick.
DisarmForInputError ==
  /\ Callback
  /\ guard' = Disarm(guard)
  /\ UNCHANGED <<live, now, pc, fresh, session, pendingZero, sender, ownership,
                 lastProbe, robot, interrupted>>

ArmRefused == session.locked \/ session.armedOnce \/ ~live

\* /new_chase/arm data=true.  A bad graph locks the process before any arm.
RequestArm ==
  /\ Callback
  /\ ~ArmRefused
  /\ \E graph \in Health :
       LET g == SetExclusiveControl(guard, TRUE) IN
       /\ ownership' = Observed(graph)
       /\ \/ /\ ownership' = "fatal"
             /\ session' = Lock(session)
             /\ UNCHANGED guard
          \/ /\ ownership' = "healthy"
             /\ guard' = Arm(g, now)
             /\ session' = IF ArmAllowed(g, now)
                           THEN [session EXCEPT !.armedOnce = TRUE,
                                                !.deadline = now + SessionSeconds]
                           ELSE session
  /\ UNCHANGED <<live, now, pc, fresh, pendingZero, sender, lastProbe,
                 robot, interrupted>>

\* A refused arm request only spends a callback.
RequestArmRefused ==
  /\ Callback
  /\ ArmRefused
  /\ UNCHANGED <<live, now, pc, fresh, guard, session, pendingZero, sender,
                 ownership, lastProbe, robot, interrupted>>

MutantFlushZeroAgain(g, zeroPc, donePc) ==
  /\ guard' = Evaluate(g, now)
  /\ pc' = IF robot # "silent" THEN zeroPc ELSE donePc
  /\ pendingZero' = FALSE

\* GuardedOutput.tick on a guard that was just disarmed: the zero, if owed.
FlushZero(g, zeroPc, donePc) ==
  /\ guard' = Evaluate(g, now)
  /\ pc' = IF pendingZero THEN zeroPc ELSE donePc
  /\ pendingZero' = FALSE

\* /new_chase/arm data=false: disarm, and once armed lock and flush the zero.
RequestDisarm ==
  /\ Callback
  /\ session' = LockIfArmedOnce(session)
  /\ \/ /\ live /\ session.armedOnce
        /\ FlushZero(Disarm(guard), "zeroArm", "spin")
     \/ /\ ~(live /\ session.armedOnce)
        /\ guard' = Disarm(guard)
        /\ UNCHANGED <<pc, pendingZero>>
  /\ UNCHANGED <<live, now, fresh, sender, ownership, lastProbe, robot,
                 interrupted>>

SpinDone ==
  /\ pc = "spin"
  /\ pc' = "telemetry"
  /\ budget' = PacketMax
  /\ fresh' = now
  /\ UNCHANGED <<live, now, guard, session, pendingZero, sender, ownership,
                 lastProbe, robot, interrupted>>

\* The executor itself raises, or the ROS context went down.
SpinRaises ==
  /\ pc = "spin"
  /\ pc' = "exit"
  /\ UNCHANGED <<live, now, budget, fresh, guard, session, pendingZero, sender,
                 ownership, lastProbe, robot, interrupted>>

Spin == \/ OnScan \/ OnRaw \/ DisarmForInputError
        \/ RequestArm \/ RequestArmRefused \/ RequestDisarm
        \/ SpinDone \/ SpinRaises

-----------------------------------------------------------------------------
(* Controller.poll_telemetry, consume_web and check_ownership_fatal        *)

Event ==
  /\ pc = "telemetry"
  /\ budget > 0
  /\ budget' = budget - 1

\* A status carries the time at which its packet was read, not that of the poll.
OnStatus ==
  /\ Event
  /\ \E asExpected \in BOOLEAN : guard' = UpdateStatus(guard, asExpected, now)
  /\ UNCHANGED <<live, now, pc, fresh, session, pendingZero, sender, ownership,
                 lastProbe, robot, interrupted>>

\* decode_error, recv_error, heartbeat_error or comm_fault
OnFatalEvent ==
  /\ Event
  /\ guard' = Disarm(guard)
  /\ session' = LockIfArmedOnce(session)
  /\ UNCHANGED <<live, now, pc, fresh, pendingZero, sender, ownership,
                 lastProbe, robot, interrupted>>

TelemetryDone ==
  /\ pc = "telemetry"
  /\ pc' = "web"
  /\ budget' = 0
  /\ UNCHANGED <<live, now, fresh, guard, session, pendingZero, sender,
                 ownership, lastProbe, robot, interrupted>>

\* What take_pending hands over (module WebStatusWorker): possibly a failure
\* nobody has seen, then possibly an unread good result, completed at any time
\* since the last one that was applied.
ConsumeWeb ==
  /\ pc = "web"
  /\ pc' = "probe"
  /\ \E failed \in BOOLEAN, good \in {Nothing} \cup guard.at["tracking"] .. now :
       LET g == IF failed THEN UpdateTracking(guard, FALSE, now) ELSE guard
       IN  guard' = IF good # Nothing THEN UpdateTracking(g, TRUE, good) ELSE g
  /\ UNCHANGED <<live, now, budget, fresh, session, pendingZero, sender,
                 ownership, lastProbe, robot, interrupted>>

ProbeDue == fresh - lastProbe >= ProbeInterval

CheckOwnershipFatal ==
  /\ pc = "probe"
  /\ ProbeDue
  /\ lastProbe' = fresh
  /\ \E graph \in Health : ownership' = Observed(graph)
  /\ guard' = IF ownership' = "fatal" THEN Disarm(guard) ELSE guard
  /\ session' = IF ownership' = "fatal" THEN LockIfArmedOnce(session) ELSE session
  /\ pc' = "tick"
  /\ UNCHANGED <<live, now, budget, fresh, pendingZero, sender, robot, interrupted>>

MutantSkipProbeAlways ==
  /\ pc = "probe"
  /\ pc' = "tick"
  /\ UNCHANGED <<live, now, budget, fresh, guard, session, pendingZero, sender,
                 ownership, lastProbe, robot, interrupted>>

SkipProbe ==
  /\ pc = "probe"
  /\ ~ProbeDue
  /\ pc' = "tick"
  /\ UNCHANGED <<live, now, budget, fresh, guard, session, pendingZero, sender,
                 ownership, lastProbe, robot, interrupted>>

Collect == \/ OnStatus \/ OnFatalEvent \/ TelemetryDone
           \/ ConsumeWeb \/ CheckOwnershipFatal \/ SkipProbe

-----------------------------------------------------------------------------
(* Controller.tick, GuardedOutput.tick and NavCmdSender.__call__           *)

MutantExpiredIsStrict ==
  live /\ ~session.locked /\ session.deadline # Never /\ now > session.deadline

Expired ==
  live /\ ~session.locked /\ session.deadline # Never /\ now >= session.deadline

Tick ==
  /\ pc = "tick"
  /\ LET g == IF Expired THEN Disarm(guard) ELSE guard IN
       \/ /\ EvaluateAllowed(g, now)
          /\ guard' = Evaluate(g, now)
          /\ pc' = "release"
          /\ UNCHANGED pendingZero
       \/ /\ ~EvaluateAllowed(g, now)
          /\ FlushZero(g, "zeroTick", "judge")
  /\ session' = IF Expired THEN Lock(session) ELSE session
  /\ UNCHANGED <<live, now, budget, fresh, sender, ownership, lastProbe,
                 robot, interrupted>>

\* The sender creates its publisher at the first send; a send that returns
\* confirms it.
Publish(command) ==
  /\ ~sender.fault
  /\ robot' = command
  /\ sender' = [sender EXCEPT !.pub = TRUE, !.confirmed = TRUE]

\* Creating the publisher or publishing raises and latches the fault, or the
\* fault was latched before; every way the guard is disarmed.
PublishRaises ==
  /\ \E created \in BOOLEAN :
       sender' = [sender EXCEPT !.fault = TRUE,
                                !.pub = @ \/ (created /\ ~sender.fault)]
  /\ guard' = Disarm(guard)
  /\ UNCHANGED robot

Release ==
  /\ pc = "release"
  /\ \/ Publish("moving") /\ pc' = "published" /\ UNCHANGED guard
     \/ PublishRaises /\ pc' = "judge"
  /\ UNCHANGED <<live, now, budget, fresh, session, pendingZero, ownership,
                 lastProbe, interrupted>>

MutantOweNothing ==
  /\ pc = "published"
  /\ pc' = "rest"
  /\ UNCHANGED <<live, now, budget, fresh, guard, session, sender, ownership,
                 pendingZero, lastProbe, robot, interrupted>>

\* GuardedOutput notes the owed zero only after the send has returned.
OweZero ==
  /\ pc = "published"
  /\ pendingZero' = TRUE
  /\ pc' = "rest"
  /\ UNCHANGED <<live, now, budget, fresh, guard, session, sender, ownership,
                 lastProbe, robot, interrupted>>

AfterZero == [zeroTick |-> "judge", zeroArm |-> "spin", zeroExit |-> "closed"]

SendZero ==
  /\ pc \in DOMAIN AfterZero
  /\ \/ Publish("stopped") /\ UNCHANGED guard
     \/ PublishRaises
  /\ pc' = AfterZero[pc]
  /\ UNCHANGED <<live, now, budget, fresh, session, pendingZero, ownership,
                 lastProbe, interrupted>>

MutantJudgeForgives ==
  /\ pc = "judge"
  /\ pc' = "rest"
  /\ session' = session
  /\ UNCHANGED <<live, now, budget, fresh, guard, pendingZero, sender,
                 ownership, lastProbe, robot, interrupted>>

\* The tick did not release: once armed, that ends the session.
Judge ==
  /\ pc = "judge"
  /\ session' = LockIfArmedOnce(session)
  /\ pc' = "rest"
  /\ UNCHANGED <<live, now, budget, fresh, guard, pendingZero, sender,
                 ownership, lastProbe, robot, interrupted>>

Decide == Tick \/ Release \/ OweZero \/ SendZero \/ Judge

-----------------------------------------------------------------------------
(* The end of an iteration, the clock, the worker, the signal and the exit *)

LoopAgain ==
  /\ pc = "rest"
  /\ now < RunSeconds
  /\ pc' = "spin"
  /\ budget' = SpinMax
  /\ fresh' = Never
  /\ UNCHANGED <<live, now, guard, session, pendingZero, sender, ownership,
                 lastProbe, robot, interrupted>>

\* t_end is reached, or rclpy.ok() is false.
LoopEnds ==
  /\ pc = "rest"
  /\ pc' = "exit"
  /\ fresh' = Never
  /\ UNCHANGED <<live, now, budget, guard, session, pendingZero, sender,
                 ownership, lastProbe, robot, interrupted>>

MutantShutdownClosesOnly ==
  /\ pc = "exit"
  /\ guard' = Disarm(guard)
  /\ pc' = "closed"
  /\ UNCHANGED <<live, now, budget, fresh, session, sender, ownership, pendingZero,
                 lastProbe, robot, interrupted>>

\* finally: shutdown_output, before the worker, the sender and the rest close.
ShutdownOutput ==
  /\ pc = "exit"
  /\ FlushZero(Disarm(guard), "zeroExit", "closed")
  /\ UNCHANGED <<live, now, budget, fresh, session, sender, ownership,
                 lastProbe, robot, interrupted>>

Main == Spin \/ Collect \/ Decide \/ LoopAgain \/ LoopEnds \/ ShutdownOutput

\* Bound: one SIGINT per run.  It unwinds the loop into the finally block;
\* inside that block it costs the cleanup step it strikes.
Interrupt ==
  /\ pc # "closed"
  /\ ~interrupted
  /\ interrupted' = TRUE
  /\ pc' = IF pc \in Exit THEN "closed" ELSE "exit"
  /\ UNCHANGED <<live, now, budget, fresh, guard, session, pendingZero, sender,
                 ownership, lastProbe, robot>>

\* Time passes anywhere; it is enough to let it pass before the steps that
\* read the clock: the callbacks, the packets, the worker, the tick and the loop
\* condition.
Advance ==
  /\ pc \in {"spin", "telemetry", "web", "tick", "rest"}
  /\ now < MaxTime
  /\ now' = now + 1
  /\ UNCHANGED <<live, pc, budget, fresh, guard, session, pendingZero, sender,
                 ownership, lastProbe, robot, interrupted>>

Terminated == pc = "closed" /\ UNCHANGED vars

Next == Main \/ Interrupt \/ Advance \/ Terminated

\* The process is scheduled and its clock runs: every iteration sleeps to its
\* 50 ms deadline or overran it, so endless iterations take endless time (strong
\* fairness, because Advance is offered only at some places of an iteration).
\* Nobody owes the process any input.
Fairness == WF_vars(Main) /\ SF_vars(Advance)

SafetySpec == Init /\ [][Next]_vars

Spec == SafetySpec /\ Fairness

-----------------------------------------------------------------------------
(* Properties                                                              *)

\* A release is about to be published only inside the one live window, with
\* every input fresh at the moment of the decision (RUNTIME.md section 5).
ReleasePermitted ==
  pc = "release" =>
    /\ live /\ session.armedOnce /\ ~session.locked
    /\ guard.lastNow < session.deadline
    /\ \A i \in Input : Fresh(guard, i, guard.lastNow)

\* ... and only on a healthy ownership verdict that is younger, at the start
\* of this iteration, than the probe interval (RUNTIME.md section 4).
ReleaseOwned ==
  pc = "release" => ownership = "healthy" /\ fresh - lastProbe < ProbeInterval

\* A locked session never leaves the guard armed, whichever of the seven
\* places in the Controller locked it.
LockedIsOff == session.locked => ~guard.armed

\* By the end of every tick of a live process an armed session is either still
\* armed or locked for good: a loss between two ticks is never forgiven.
LossEndsSession ==
  pc = "rest" /\ live /\ session.armedOnce => guard.armed \/ session.locked

\* A robot in motion is owed a zero, or is just getting it, until the sender
\* has failed or a SIGINT has struck.
MotionIsOwedZero ==
  robot = "moving" =>
    \/ pendingZero
    \/ pc \in {"published"} \cup DOMAIN AfterZero
    \/ sender.fault \/ interrupted

\* The process never takes its own publisher for a foreign one while it may
\* still move: the publisher is confirmed before the next probe.
SelfNeverForeign ==
  sender.pub /\ ~sender.confirmed => ~guard.armed

\* The live window is never refreshed and the guard never armed again: after
\* the first arm the deadline stands and no step turns the guard on.
WindowIsFixed ==
  [][session.armedOnce => /\ session'.deadline = session.deadline
                          /\ guard'.armed => guard.armed]_vars

\* When the window is over a moving robot gets its zero, unless the sender
\* has failed or a SIGINT struck.
ExpiryStops ==
  (robot = "moving" /\ now >= session.deadline)
    ~> (robot = "stopped" \/ sender.fault \/ interrupted)

\* Why the invariants above hold: the guard is armed only in the first and only
\* unlocked window, on a healthy graph, with a working sender and a robot that
\* has not been stopped; everything that is not a release finds it disarmed.
ArmedWindow ==
  /\ guard.outputEnabled
  /\ guard.armed => /\ session.armedOnce /\ ~session.locked /\ ~sender.fault
                    /\ ownership = "healthy" /\ robot # "stopped"
  /\ session.armedOnce => live /\ session.deadline \in Nat
  /\ ~session.armedOnce => /\ session.deadline = Never /\ robot = "silent"
                           /\ ~pendingZero /\ ~sender.fault /\ ~sender.pub
  /\ sender.pub => sender.confirmed \/ sender.fault

PhaseFacts ==
  /\ pc = "release" => /\ guard.armed
                       /\ guard.lastNow < session.deadline
                       /\ \A i \in Input : Fresh(guard, i, guard.lastNow)
  /\ pc \in {"tick", "release"} => fresh - lastProbe < ProbeInterval
  /\ pc = "published" => guard.armed /\ robot = "moving"
  /\ pc \in {"judge", "zeroTick", "zeroArm", "zeroExit"} => ~guard.armed
  /\ pc \in {"zeroTick", "zeroArm", "zeroExit"} => ~pendingZero /\ robot = "moving"
  /\ pc = "zeroArm" => session.locked
  /\ pendingZero => robot = "moving"

IndInv ==
  /\ TypeOK /\ ArmedWindow /\ PhaseFacts
  /\ LossEndsSession /\ MotionIsOwedZero

\* The process implements the live session of module LiveSession.
Permit == IF session.locked THEN "revoked"
          ELSE IF ~session.armedOnce THEN "never"
          ELSE IF guard.armed THEN "granted" ELSE "revoked"

Hand == CASE pc = "release" -> "release"
          [] pc \in DOMAIN AfterZero -> "zero"
          [] OTHER -> "nothing"

Promise == INSTANCE LiveSession WITH permit <- Permit, hand <- Hand, robot <- robot

ImplementsLiveSession == Promise!Spec
=============================================================================
