------------------------- MODULE MotionRuntimeProofs -------------------------
(***************************************************************************)
(* Proofs about MotionRuntime for every value of its constants: type       *)
(* correctness, the inductive invariant IndInv and what follows from it.   *)
(* The guard is treated through the lemmas of the first part, so that the  *)
(* step proofs never look inside its record.                               *)
(***************************************************************************)
EXTENDS MotionRuntime, TLAPS

(* What each method of the guard does to the fields the session relies on. *)

\* Every freshness limit is a natural number (core.py:33-37).
LEMMA TTLType == TTL \in [Input -> Nat]
  BY TTLAssumption DEF TTL, Input

\* disarm() clears the permission and nothing else (core.py:130-132).
LEMMA DisarmFacts ==
  ASSUME NEW g \in GuardRecord
  PROVE  /\ Disarm(g) \in GuardRecord
         /\ ~Disarm(g).armed
         /\ Disarm(g).outputEnabled = g.outputEnabled
  BY DEF Disarm, GuardRecord

\* Accepting an input changes its stamp, not the permission.
LEMMA AcceptFacts ==
  ASSUME NEW g \in GuardRecord, NEW i \in Input, NEW t \in Int
  PROVE  /\ Accept(g, i, t) \in GuardRecord
         /\ Accept(g, i, t).armed = g.armed
         /\ Accept(g, i, t).outputEnabled = g.outputEnabled
  BY DEF Accept, GuardRecord

\* Refusing an input disarms (core.py:139 and its like).
LEMMA RejectFacts ==
  ASSUME NEW g \in GuardRecord, NEW i \in Input
  PROVE  /\ Reject(g, i) \in GuardRecord
         /\ ~Reject(g, i).armed
         /\ Reject(g, i).outputEnabled = g.outputEnabled
  <1> DEFINE h == [g EXCEPT !.ok[i] = FALSE, !.at[i] = 0]
  <1>1. h \in GuardRecord /\ h.outputEnabled = g.outputEnabled
    <2>1. /\ [g.ok EXCEPT ![i] = FALSE] \in [Input -> BOOLEAN]
          /\ [g.at EXCEPT ![i] = 0] \in [Input -> Int]
      BY DEF GuardRecord
    <2>2. h = [g EXCEPT !.ok = [g.ok EXCEPT ![i] = FALSE], !.at = [g.at EXCEPT ![i] = 0]]
      BY DEF GuardRecord
    <2>3. QED
      BY <2>1, <2>2 DEF GuardRecord
  <1>2. Reject(g, i) = Disarm(h)
    BY DEF Reject
  <1> HIDE DEF h
  <1>3. QED
    BY <1>1, <1>2, DisarmFacts

\* No update arms the guard (core.py:135-180).
LEMMA UpdateFacts ==
  ASSUME NEW g \in GuardRecord, NEW i \in Input, NEW good \in BOOLEAN, NEW t \in Int
  PROVE  /\ Update(g, i, good, t) \in GuardRecord
         /\ Update(g, i, good, t).armed => g.armed
         /\ Update(g, i, good, t).outputEnabled = g.outputEnabled
  <1>1. Update(g, i, good, t) \in {Accept(g, i, t), Reject(g, i)}
    BY DEF Update
  <1>2. QED
    BY <1>1, AcceptFacts, RejectFacts

\* No scan arms the guard (core.py:146-161).
LEMMA UpdateScanFacts ==
  ASSUME NEW g \in GuardRecord, NEW verdict \in ScanVerdict, NEW age \in Int, NEW t \in Int
  PROVE  /\ UpdateScan(g, verdict, age, t) \in GuardRecord
         /\ UpdateScan(g, verdict, age, t).armed => g.armed
         /\ UpdateScan(g, verdict, age, t).outputEnabled = g.outputEnabled
  <1>1. "scan" \in Input
    BY DEF Input
  <1>2. ASSUME NEW h \in GuardRecord, NEW a \in Int
        PROVE  /\ [h EXCEPT !.age0 = a] \in GuardRecord
               /\ [h EXCEPT !.age0 = a].armed = h.armed
               /\ [h EXCEPT !.age0 = a].outputEnabled = h.outputEnabled
    BY DEF GuardRecord
  <1>3. UpdateScan(g, verdict, age, t) \in
          {[Accept(g, "scan", t) EXCEPT !.age0 = age], [Reject(g, "scan") EXCEPT !.age0 = 0]}
    BY DEF UpdateScan
  <1>4. Accept(g, "scan", t) \in GuardRecord /\ Reject(g, "scan") \in GuardRecord
    BY <1>1, AcceptFacts, RejectFacts
  <1>5. CASE UpdateScan(g, verdict, age, t) = [Accept(g, "scan", t) EXCEPT !.age0 = age]
    BY <1>1, <1>2, <1>4, <1>5, AcceptFacts
  <1>6. CASE UpdateScan(g, verdict, age, t) = [Reject(g, "scan") EXCEPT !.age0 = 0]
    BY <1>1, <1>2, <1>4, <1>6, RejectFacts
  <1>7. QED
    BY <1>3, <1>5, <1>6

\* Confirming exclusive control does not arm (core.py:195-200).
LEMMA SetExclusiveFacts ==
  ASSUME NEW g \in GuardRecord
  PROVE  /\ SetExclusiveControl(g, TRUE) \in GuardRecord
         /\ SetExclusiveControl(g, TRUE).armed = g.armed
         /\ SetExclusiveControl(g, TRUE).outputEnabled = g.outputEnabled
  BY DEF SetExclusiveControl, GuardRecord

\* arm() leaves an enabled guard armed exactly when it was allowed (core.py:229-245).
LEMMA ArmFacts ==
  ASSUME NEW g \in GuardRecord, NEW t \in Int
  PROVE  /\ Arm(g, t) \in GuardRecord
         /\ Arm(g, t).outputEnabled = g.outputEnabled
         /\ g.outputEnabled => (Arm(g, t).armed <=> ArmAllowed(g, t))
  BY DEF Arm, ArmAllowed, CheckClock, Disarm, GuardRecord

\* evaluate() never arms; when it allows, the guard stays armed and every input
\* is fresh at that time; when it does not, an enabled guard ends up disarmed
\* (core.py:247-260).
LEMMA EvaluateFacts ==
  ASSUME NEW g \in GuardRecord, NEW t \in Int
  PROVE  /\ Evaluate(g, t) \in GuardRecord
         /\ Evaluate(g, t).outputEnabled = g.outputEnabled
         /\ Evaluate(g, t).armed => g.armed
         /\ EvaluateAllowed(g, t) =>
              /\ Evaluate(g, t).armed
              /\ Evaluate(g, t).lastNow = t
              /\ \A i \in Input : Fresh(Evaluate(g, t), i, t)
         /\ g.outputEnabled /\ ~EvaluateAllowed(g, t) => ~Evaluate(g, t).armed
  <1>1. /\ Evaluate(g, t) \in GuardRecord
        /\ Evaluate(g, t).outputEnabled = g.outputEnabled
        /\ Evaluate(g, t).armed => g.armed
    BY DEF Evaluate, CheckClock, Disarm, GuardRecord
  <1>2. ASSUME EvaluateAllowed(g, t)
        PROVE  /\ Evaluate(g, t).armed
               /\ Evaluate(g, t).lastNow = t
               /\ \A i \in Input : Fresh(Evaluate(g, t), i, t)
    <2>1. Evaluate(g, t) = [g EXCEPT !.lastNow = t]
      BY <1>2 DEF Evaluate, EvaluateAllowed, CheckClock
    <2>2. \A i \in Input : Fresh(g, i, t)
      BY <1>2 DEF EvaluateAllowed, Blocked
    <2>3. QED
      BY <1>2, <2>1, <2>2 DEF EvaluateAllowed, Fresh, GuardRecord
  <1>3. g.outputEnabled /\ ~EvaluateAllowed(g, t) => ~Evaluate(g, t).armed
    BY DEF Evaluate, EvaluateAllowed, CheckClock, Disarm, GuardRecord
  <1>4. QED
    BY <1>1, <1>2, <1>3

-----------------------------------------------------------------------------
(* The inductive invariant.                                                *)

\* The session lock and its condition keep the session well typed.
LEMMA LockFacts ==
  ASSUME TypeOK
  PROVE  /\ Lock(session) = [session EXCEPT !.locked = TRUE]
         /\ LockIfArmedOnce(session).armedOnce = session.armedOnce
         /\ LockIfArmedOnce(session).deadline = session.deadline
         /\ LockIfArmedOnce(session) \in
              [locked : BOOLEAN, armedOnce : BOOLEAN, deadline : Int]
         /\ live /\ session.armedOnce => LockIfArmedOnce(session).locked
         /\ session.locked => LockIfArmedOnce(session).locked
         /\ ~(live /\ session.armedOnce) => LockIfArmedOnce(session) = session
  BY DEF Lock, LockIfArmedOnce, TypeOK

\* Opening the window keeps the session well typed and unlocked.
LEMMA OpenFacts ==
  ASSUME NEW s \in [locked : BOOLEAN, armedOnce : BOOLEAN, deadline : Int], NEW d \in Nat,
         NEW t, t = [s EXCEPT !.armedOnce = TRUE, !.deadline = d]
  PROVE  /\ t \in [locked : BOOLEAN, armedOnce : BOOLEAN, deadline : Int]
         /\ t.locked = s.locked /\ t.armedOnce /\ t.deadline \in Nat
  <1>1. t = [locked |-> s.locked, armedOnce |-> TRUE, deadline |-> d]
    OBVIOUS
  <1>2. d \in Int /\ s.locked \in BOOLEAN
    OBVIOUS
  <1>3. QED
    BY <1>1, <1>2

\* A process starts disarmed, unlocked and silent.
LEMMA InitIndInv == Init => IndInv
  <1> SUFFICES ASSUME Init PROVE IndInv
    OBVIOUS
  <1>1. NewGuard(TRUE) \in GuardRecord /\ ~NewGuard(TRUE).armed
    BY DEF NewGuard, GuardRecord, NeverSeen
  <1>2. TypeOK
    <2>1. ownership \in Health
      BY DEF Init, Health
    <2>2. pc \in Pc /\ budget \in Nat /\ fresh \in Int /\ lastProbe \in Int
      BY RuntimeAssumption DEF Init, Pc, Loop, Never
    <2>3. QED
      BY <1>1, <2>1, <2>2 DEF Init, TypeOK, Never
  <1>3. ArmedWindow
    BY <1>1 DEF Init, ArmedWindow, NewGuard, Never
  <1>4. PhaseFacts
    BY <1>1 DEF Init, PhaseFacts
  <1>5. LossEndsSession /\ MotionIsOwedZero
    BY DEF Init, LossEndsSession, MotionIsOwedZero
  <1>6. QED
    BY <1>2, <1>3, <1>4, <1>5 DEF IndInv

\* An input informs or disarms the guard and never arms it.
LEMMA InformGuard ==
  ASSUME IndInv, OnScan \/ OnRaw \/ DisarmForInputError \/ OnStatus \/ ConsumeWeb
  PROVE  /\ guard' \in GuardRecord
         /\ guard'.armed => guard.armed
         /\ guard'.outputEnabled = guard.outputEnabled
  <1>1. guard \in GuardRecord /\ now \in Int /\ fresh \in Int
    BY DEF IndInv, TypeOK
  <1>2. "status" \in Input /\ "tracking" \in Input /\ "command" \in Input
    BY DEF Input
  <1>3. CASE OnScan
    <2>1. PICK verdict \in ScanVerdict, age \in 0 .. ScanTTL :
            guard' = UpdateScan(guard, verdict, age, now)
      BY <1>3 DEF OnScan
    <2>2. age \in Int
      BY TTLAssumption
    <2>3. QED
      BY <1>1, <2>1, <2>2, UpdateScanFacts
  <1>4. CASE OnRaw
    <2>1. PICK finite \in BOOLEAN : guard' = Update(guard, "command", finite, now)
      BY <1>4 DEF OnRaw, UpdateCommand
    <2>2. QED
      BY <1>1, <1>2, <2>1, UpdateFacts
  <1>5. CASE DisarmForInputError
    BY <1>1, <1>5, DisarmFacts DEF DisarmForInputError
  <1>6. CASE OnStatus
    <2>1. PICK asExpected \in BOOLEAN : guard' = Update(guard, "status", asExpected, now)
      BY <1>6 DEF OnStatus, UpdateStatus
    <2>2. QED
      BY <1>1, <1>2, <2>1, UpdateFacts
  <1>7. CASE ConsumeWeb
    <2>1. PICK failed \in BOOLEAN, good \in {Nothing} \cup guard.at["tracking"] .. now :
            LET g == IF failed THEN Update(guard, "tracking", FALSE, now) ELSE guard
            IN  guard' = IF good # Nothing THEN Update(g, "tracking", TRUE, good) ELSE g
      BY <1>7 DEF ConsumeWeb, UpdateTracking
    <2> DEFINE g == IF failed THEN Update(guard, "tracking", FALSE, now) ELSE guard
    <2>2. /\ g \in GuardRecord
          /\ g.armed => guard.armed
          /\ g.outputEnabled = guard.outputEnabled
      BY <1>1, <1>2, UpdateFacts
    <2>3. good \in Int
      BY <1>1, <1>2 DEF GuardRecord, Nothing
    <2>4. guard' = g \/ guard' = Update(g, "tracking", TRUE, good)
      BY <2>1
    <2> HIDE DEF g
    <2>5. CASE guard' = g
      BY <2>2, <2>5
    <2>6. CASE guard' = Update(g, "tracking", TRUE, good)
      <3>1. /\ Update(g, "tracking", TRUE, good) \in GuardRecord
            /\ Update(g, "tracking", TRUE, good).armed => g.armed
            /\ Update(g, "tracking", TRUE, good).outputEnabled = g.outputEnabled
        BY <1>2, <2>2, <2>3, UpdateFacts
      <3>2. QED
        BY <2>2, <2>6, <3>1
    <2>7. QED
      BY <2>4, <2>5, <2>6
  <1>8. QED
    BY <1>3, <1>4, <1>5, <1>6, <1>7

\* Inputs that only inform or disarm the guard.
LEMMA InformStep ==
  ASSUME IndInv, OnScan \/ OnRaw \/ DisarmForInputError \/ OnStatus \/ ConsumeWeb
  PROVE  IndInv'
  <1> USE DEF IndInv
  <1>1. /\ guard' \in GuardRecord
        /\ guard'.armed => guard.armed
        /\ guard'.outputEnabled = guard.outputEnabled
    BY InformGuard
  <1>2. /\ UNCHANGED <<live, now, fresh, session, pendingZero, sender, ownership,
                       lastProbe, robot, interrupted>>
        /\ pc \in {"spin", "telemetry", "web"} /\ pc' \in {"spin", "telemetry", "probe"}
        /\ budget' \in Nat
    <2>1. CASE OnScan \/ OnRaw \/ DisarmForInputError
      BY <2>1 DEF OnScan, OnRaw, DisarmForInputError, Callback, TypeOK
    <2>2. CASE OnStatus
      BY <2>2 DEF OnStatus, Event, TypeOK
    <2>3. CASE ConsumeWeb
      BY <2>3 DEF ConsumeWeb, TypeOK
    <2>4. QED
      BY <2>1, <2>2, <2>3
  <1>3. TypeOK'
    BY <1>1, <1>2 DEF TypeOK, Pc, Loop
  <1>4. ArmedWindow'
    BY <1>1, <1>2 DEF ArmedWindow
  <1>5. PhaseFacts' /\ LossEndsSession'
    BY <1>2 DEF PhaseFacts, LossEndsSession
  <1>6. MotionIsOwedZero'
    BY <1>2 DEF MotionIsOwedZero, AfterZero
  <1>7. QED
    BY <1>3, <1>4, <1>5, <1>6

\* Steps that move the main thread or the clock and touch no other state.
LEMMA MoveStep ==
  ASSUME IndInv,
         \/ RequestArmRefused \/ SpinDone \/ SpinRaises \/ TelemetryDone
         \/ SkipProbe \/ LoopAgain \/ LoopEnds \/ Advance \/ Interrupt \/ UNCHANGED vars
  PROVE  IndInv'
  <1> USE DEF IndInv
  <1> DEFINE Moves == /\ UNCHANGED <<live, guard, session, pendingZero, sender, ownership,
                                     lastProbe, robot>>
                      /\ now' \in Nat /\ budget' \in Nat /\ fresh' \in Int
                      /\ pc' \in Pc /\ interrupted' \in BOOLEAN
                      /\ interrupted => interrupted'
             Phases == /\ pc' = "release" => pc = "release" /\ fresh' = fresh
                       /\ pc' = "tick" => \/ pc = "tick" /\ fresh' = fresh
                                          \/ ~ProbeDue /\ fresh' = fresh
                       /\ pc' \in {"published", "judge", "zeroTick", "zeroArm", "zeroExit"}
                            => pc' = pc
                       /\ pc' = "rest" => pc = "rest"
                       /\ pc \in {"published", "zeroTick", "zeroArm", "zeroExit"}
                            => pc' = pc \/ interrupted'
  <1>1. Moves /\ Phases
    <2>1. CASE RequestArmRefused
      BY <2>1 DEF RequestArmRefused, Callback, TypeOK, Pc, Loop
    <2>2. CASE SpinDone
      BY <2>2, RuntimeAssumption DEF SpinDone, TypeOK, Pc, Loop
    <2>3. CASE SpinRaises
      BY <2>3 DEF SpinRaises, TypeOK, Pc, Loop, Exit
    <2>4. CASE TelemetryDone
      BY <2>4 DEF TelemetryDone, TypeOK, Pc, Loop
    <2>5. CASE SkipProbe
      BY <2>5 DEF SkipProbe, TypeOK, Pc, Loop
    <2>6. CASE LoopAgain
      BY <2>6, RuntimeAssumption DEF LoopAgain, TypeOK, Pc, Loop, Never
    <2>7. CASE LoopEnds
      BY <2>7 DEF LoopEnds, TypeOK, Pc, Exit, Never
    <2>8. CASE Advance
      BY <2>8 DEF Advance, TypeOK
    <2>9. CASE Interrupt
      BY <2>9 DEF Interrupt, TypeOK, Pc, Exit
    <2>10. CASE UNCHANGED vars
      BY <2>10 DEF vars, TypeOK
    <2>11. QED
      BY <2>1, <2>2, <2>3, <2>4, <2>5, <2>6, <2>7, <2>8, <2>9, <2>10
  <1>2. TypeOK'
    BY <1>1 DEF TypeOK
  <1>3. ArmedWindow'
    BY <1>1 DEF ArmedWindow
  <1>4. PhaseFacts'
    <2>1. pc \in {"tick", "release"} => fresh - lastProbe < ProbeInterval
      BY DEF PhaseFacts
    <2>2. ~ProbeDue => fresh - lastProbe < ProbeInterval
      BY RuntimeAssumption DEF ProbeDue, TypeOK
    <2>3. pc' \in {"tick", "release"} =>
            fresh - lastProbe < ProbeInterval /\ fresh' = fresh /\ lastProbe' = lastProbe
      BY <1>1, <2>1, <2>2
    <2>4. pc' \in {"tick", "release"} => fresh' - lastProbe' < ProbeInterval
      BY <2>3
    <2>5. QED
      BY <1>1, <2>4 DEF PhaseFacts
  <1>5. LossEndsSession'
    BY <1>1 DEF LossEndsSession
  <1>6. MotionIsOwedZero'
    BY <1>1 DEF MotionIsOwedZero, AfterZero
  <1>7. QED
    BY <1>2, <1>3, <1>4, <1>5, <1>6

\* A process that never armed has sent nothing and owes nothing.
LEMMA NeverArmedFacts ==
  ASSUME IndInv, ~session.armedOnce
  PROVE  /\ session.deadline = Never /\ robot = "silent" /\ ~pendingZero
         /\ ~sender.fault /\ ~sender.pub /\ ~guard.armed
  BY DEF IndInv, ArmedWindow

\* The arm service: it arms only a process that never armed, on a healthy graph.
LEMMA RequestArmStep ==
  ASSUME IndInv, RequestArm
  PROVE  IndInv'
  <1> USE DEF IndInv
  <1> DEFINE g == SetExclusiveControl(guard, TRUE)
  <1>1. /\ g \in GuardRecord /\ g.armed = guard.armed /\ g.outputEnabled = guard.outputEnabled
    BY SetExclusiveFacts DEF TypeOK
  <1>2. ~session.armedOnce /\ ~session.locked /\ live /\ pc = "spin"
    BY DEF RequestArm, ArmRefused, Callback
  <1>3. /\ UNCHANGED <<live, now, pc, fresh, pendingZero, sender, lastProbe, robot, interrupted>>
        /\ budget' = budget - 1 /\ budget > 0
    BY DEF RequestArm, Callback
  <1>4. /\ ~guard.armed /\ guard.outputEnabled /\ session.deadline = Never
        /\ robot = "silent" /\ ~pendingZero /\ ~sender.fault /\ ~sender.pub
    BY <1>2, NeverArmedFacts DEF ArmedWindow
  <1>5. PhaseFacts' /\ LossEndsSession' /\ MotionIsOwedZero'
    BY <1>2, <1>3, <1>4 DEF PhaseFacts, LossEndsSession, MotionIsOwedZero
  <1>6. CASE ownership' = "fatal" /\ session' = Lock(session) /\ guard' = guard
    <2>1. /\ session' \in [locked : BOOLEAN, armedOnce : BOOLEAN, deadline : Int]
          /\ session'.armedOnce = session.armedOnce /\ session'.deadline = session.deadline
      BY <1>6 DEF Lock, TypeOK
    <2>2. TypeOK'
      BY <1>3, <1>6, <2>1 DEF TypeOK, Health
    <2>3. ArmedWindow'
      BY <1>2, <1>3, <1>4, <1>6, <2>1 DEF ArmedWindow
    <2>4. QED
      BY <1>5, <2>2, <2>3
  <1>7. CASE /\ ownership' = "healthy"
             /\ guard' = Arm(g, now)
             /\ session' = IF ArmAllowed(g, now)
                           THEN [session EXCEPT !.armedOnce = TRUE,
                                                !.deadline = now + SessionSeconds]
                           ELSE session
    <2>1. /\ guard' \in GuardRecord /\ guard'.outputEnabled
          /\ guard'.armed <=> ArmAllowed(g, now)
      <3> HIDE DEF g
      <3>1. g.outputEnabled
        BY <1>1, <1>4
      <3>2. now \in Int
        BY DEF TypeOK
      <3>3. guard' = Arm(g, now)
        BY <1>7
      <3>4. QED
        BY <1>1, <3>1, <3>2, <3>3, ArmFacts
    <2>2. now + SessionSeconds \in Nat /\ budget' \in Nat /\ ownership' \in Health
      BY <1>3, <1>7, RuntimeAssumption DEF TypeOK, Health
    <2>3. CASE ArmAllowed(g, now)
      <3>1. session' = [session EXCEPT !.armedOnce = TRUE, !.deadline = now + SessionSeconds]
        BY <1>7, <2>3
      <3>2. /\ session' \in [locked : BOOLEAN, armedOnce : BOOLEAN, deadline : Int]
            /\ session'.locked = session.locked
            /\ session'.armedOnce /\ session'.deadline \in Nat
        BY <2>2, <3>1, OpenFacts DEF TypeOK
      <3>3. TypeOK'
        BY <1>3, <2>1, <2>2, <3>2 DEF TypeOK
      <3>4. ownership' = "healthy"
        BY <1>7
      <3>5. ArmedWindow'
        BY <1>2, <1>3, <1>4, <2>1, <3>2, <3>4 DEF ArmedWindow
      <3>6. QED
        BY <1>5, <3>3, <3>5
    <2>4. CASE ~ArmAllowed(g, now)
      <3>1. session' = session /\ ~guard'.armed
        BY <1>7, <2>1, <2>4
      <3>2. TypeOK'
        BY <1>3, <2>1, <2>2, <3>1 DEF TypeOK
      <3>3. ArmedWindow'
        BY <1>2, <1>3, <1>4, <2>1, <3>1 DEF ArmedWindow
      <3>4. QED
        BY <1>5, <3>2, <3>3
    <2>5. QED
      BY <2>3, <2>4
  <1>8. QED
    BY <1>6, <1>7 DEF RequestArm

\* A guard that was just disarmed stays disarmed through an evaluation, which is
\* how the owed zero is flushed.
LEMMA FlushFacts ==
  ASSUME NEW g \in GuardRecord, NEW t \in Int
  PROVE  /\ Evaluate(Disarm(g), t) \in GuardRecord
         /\ ~Evaluate(Disarm(g), t).armed
         /\ Evaluate(Disarm(g), t).outputEnabled = g.outputEnabled
  <1> DEFINE h == Disarm(g)
  <1>1. h \in GuardRecord /\ ~h.armed /\ h.outputEnabled = g.outputEnabled
    BY DisarmFacts
  <1> HIDE DEF h
  <1>2. /\ Evaluate(h, t) \in GuardRecord
        /\ Evaluate(h, t).outputEnabled = h.outputEnabled
        /\ Evaluate(h, t).armed => h.armed
    BY <1>1, EvaluateFacts
  <1>3. QED
    BY <1>1, <1>2 DEF h

\* The arm service asked to disarm: once armed, it locks and flushes the zero.
LEMMA RequestDisarmStep ==
  ASSUME IndInv, RequestDisarm
  PROVE  IndInv'
  <1> USE DEF IndInv
  <1>1. /\ UNCHANGED <<live, now, fresh, sender, ownership, lastProbe, robot, interrupted>>
        /\ pc = "spin" /\ budget' \in Nat /\ session' = LockIfArmedOnce(session)
    BY DEF RequestDisarm, Callback, TypeOK
  <1>2. guard \in GuardRecord /\ now \in Int /\ guard.outputEnabled
    BY DEF TypeOK, ArmedWindow
  <1>3. /\ session' \in [locked : BOOLEAN, armedOnce : BOOLEAN, deadline : Int]
        /\ session'.armedOnce = session.armedOnce /\ session'.deadline = session.deadline
    BY <1>1, LockFacts
  <1>4. CASE live /\ session.armedOnce /\ FlushZero(Disarm(guard), "zeroArm", "spin")
    <2>1. guard' \in GuardRecord /\ ~guard'.armed /\ guard'.outputEnabled
      BY <1>2, <1>4, FlushFacts DEF FlushZero
    <2>2. pc' = (IF pendingZero THEN "zeroArm" ELSE "spin") /\ ~pendingZero'
      BY <1>4 DEF FlushZero
    <2>3. pendingZero' \in BOOLEAN
      BY <1>4 DEF FlushZero
    <2>4. session'.locked
      BY <1>1, <1>4, LockFacts
    <2>5. TypeOK'
      BY <1>1, <1>3, <2>1, <2>2, <2>3 DEF TypeOK, Pc, Loop
    <2>6. ArmedWindow'
      BY <1>1, <1>3, <2>1, <2>2 DEF ArmedWindow
    <2>7. PhaseFacts' /\ LossEndsSession'
      BY <1>1, <2>1, <2>2, <2>4 DEF PhaseFacts, LossEndsSession
    <2>8. MotionIsOwedZero'
      BY <1>1, <2>2 DEF MotionIsOwedZero, AfterZero
    <2>9. QED
      BY <2>5, <2>6, <2>7, <2>8
  <1>5. CASE ~(live /\ session.armedOnce) /\ guard' = Disarm(guard) /\ UNCHANGED <<pc, pendingZero>>
    <2>1. guard' \in GuardRecord /\ ~guard'.armed /\ guard'.outputEnabled
      BY <1>2, <1>5, DisarmFacts
    <2>2. pc' = pc /\ pendingZero' = pendingZero
      BY <1>5
    <2>3. TypeOK'
      BY <1>1, <1>3, <2>1, <2>2 DEF TypeOK
    <2>4. ArmedWindow'
      BY <1>1, <1>3, <2>1, <2>2 DEF ArmedWindow
    <2>5. PhaseFacts' /\ LossEndsSession'
      BY <1>1, <2>1, <2>2 DEF PhaseFacts, LossEndsSession
    <2>6. MotionIsOwedZero'
      BY <1>1, <2>2 DEF MotionIsOwedZero, AfterZero
    <2>7. QED
      BY <2>3, <2>4, <2>5, <2>6
  <1>6. QED
    BY <1>4, <1>5 DEF RequestDisarm

\* A telemetry fault disarms, and ends an armed session.
LEMMA OnFatalEventStep ==
  ASSUME IndInv, OnFatalEvent
  PROVE  IndInv'
  <1> USE DEF IndInv
  <1>1. /\ UNCHANGED <<live, now, pc, fresh, pendingZero, sender, ownership, lastProbe,
                       robot, interrupted>>
        /\ pc = "telemetry" /\ budget' \in Nat
        /\ session' = LockIfArmedOnce(session) /\ guard' = Disarm(guard)
    BY DEF OnFatalEvent, Event, TypeOK
  <1>2. /\ session' \in [locked : BOOLEAN, armedOnce : BOOLEAN, deadline : Int]
        /\ session'.armedOnce = session.armedOnce /\ session'.deadline = session.deadline
    BY <1>1, LockFacts
  <1>3. guard \in GuardRecord /\ guard.outputEnabled
    BY DEF TypeOK, ArmedWindow
  <1>4. guard' \in GuardRecord /\ ~guard'.armed /\ guard'.outputEnabled
    BY <1>1, <1>3, DisarmFacts
  <1>5. TypeOK'
    BY <1>1, <1>2, <1>4 DEF TypeOK
  <1>6. ArmedWindow'
    BY <1>1, <1>2, <1>4 DEF ArmedWindow
  <1>7. PhaseFacts' /\ LossEndsSession'
    BY <1>1 DEF PhaseFacts, LossEndsSession
  <1>8. MotionIsOwedZero'
    BY <1>1 DEF MotionIsOwedZero, AfterZero
  <1>9. QED
    BY <1>5, <1>6, <1>7, <1>8

\* A bad probe disarms and ends an armed session; a good one is young enough for
\* the tick of this iteration.
LEMMA CheckOwnershipStep ==
  ASSUME IndInv, CheckOwnershipFatal
  PROVE  IndInv'
  <1> USE DEF IndInv
  <1>1. /\ UNCHANGED <<live, now, budget, fresh, pendingZero, sender, robot, interrupted>>
        /\ pc = "probe" /\ pc' = "tick" /\ lastProbe' = fresh
        /\ guard' = (IF ownership' = "fatal" THEN Disarm(guard) ELSE guard)
        /\ session' = (IF ownership' = "fatal" THEN LockIfArmedOnce(session) ELSE session)
    BY DEF CheckOwnershipFatal
  <1>2. ownership' \in Health
    BY DEF CheckOwnershipFatal, Observed, Health
  <1>3. /\ session' \in [locked : BOOLEAN, armedOnce : BOOLEAN, deadline : Int]
        /\ session'.armedOnce = session.armedOnce /\ session'.deadline = session.deadline
        /\ ownership' # "fatal" => session' = session
    BY <1>1, LockFacts DEF TypeOK
  <1>4. guard \in GuardRecord /\ guard.outputEnabled
    BY DEF TypeOK, ArmedWindow
  <1>5. /\ guard' \in GuardRecord /\ guard'.outputEnabled
        /\ guard'.armed => guard.armed /\ ownership' = "healthy" /\ session' = session
    <2>1. CASE ownership' = "fatal"
      BY <1>1, <1>4, <2>1, DisarmFacts
    <2>2. CASE ownership' = "healthy"
      BY <1>1, <1>3, <1>4, <2>2
    <2>3. QED
      BY <1>2, <2>1, <2>2 DEF Health
  <1>6. fresh' - lastProbe' < ProbeInterval
    <2>1. fresh' = fresh /\ lastProbe' = fresh /\ fresh \in Int
      BY <1>1 DEF TypeOK
    <2>2. QED
      BY <2>1, RuntimeAssumption
  <1>7. TypeOK'
    BY <1>1, <1>2, <1>3, <1>5 DEF TypeOK, Pc, Loop
  <1>8. ArmedWindow'
    BY <1>1, <1>3, <1>5 DEF ArmedWindow
  <1>9. PhaseFacts' /\ LossEndsSession'
    BY <1>1, <1>6 DEF PhaseFacts, LossEndsSession
  <1>10. MotionIsOwedZero'
    BY <1>1 DEF MotionIsOwedZero, AfterZero
  <1>11. QED
    BY <1>7, <1>8, <1>9, <1>10

\* The tick releases only inside the window, on fresh inputs; otherwise it leaves
\* the guard disarmed and has the owed zero sent next.
LEMMA TickStep ==
  ASSUME IndInv, Tick
  PROVE  IndInv'
  <1> USE DEF IndInv
  <1> DEFINE g == IF Expired THEN Disarm(guard) ELSE guard
  <1>1. /\ UNCHANGED <<live, now, budget, fresh, sender, ownership, lastProbe, robot, interrupted>>
        /\ pc = "tick" /\ session' = (IF Expired THEN Lock(session) ELSE session)
    BY DEF Tick
  <1>2. guard \in GuardRecord /\ now \in Int /\ guard.outputEnabled
    BY DEF TypeOK, ArmedWindow
  <1>3. /\ g \in GuardRecord /\ g.outputEnabled
        /\ Expired => ~g.armed
        /\ ~Expired => g = guard
    BY <1>2, DisarmFacts
  <1>4. /\ session' \in [locked : BOOLEAN, armedOnce : BOOLEAN, deadline : Int]
        /\ session'.armedOnce = session.armedOnce /\ session'.deadline = session.deadline
        /\ ~Expired => session' = session
    BY <1>1 DEF Lock, TypeOK
  <1> HIDE DEF g
  <1>5. CASE EvaluateAllowed(g, now) /\ guard' = Evaluate(g, now) /\ pc' = "release"
             /\ UNCHANGED pendingZero
    <2>1. ~Expired /\ g = guard /\ guard.armed /\ session' = session
      BY <1>3, <1>4, <1>5 DEF EvaluateAllowed
    <2>2. live /\ session.armedOnce /\ ~session.locked /\ session.deadline \in Nat
      BY <2>1 DEF ArmedWindow
    <2>3. now < session.deadline
      BY <1>2, <2>1, <2>2 DEF Expired, Never
    <2>4. /\ guard' \in GuardRecord /\ guard'.outputEnabled = guard.outputEnabled
          /\ guard'.armed /\ guard'.lastNow = now
          /\ \A i \in Input : Fresh(guard', i, now)
      BY <1>2, <1>5, <2>1, EvaluateFacts
    <2>5. TypeOK'
      BY <1>1, <1>5, <2>1, <2>4 DEF TypeOK, Pc, Loop
    <2>6. ArmedWindow'
      <3>1. guard'.outputEnabled
        BY <1>2, <2>4
      <3>2. pendingZero' = pendingZero
        BY <1>5
      <3>3. QED
        BY <1>1, <2>1, <2>2, <3>1, <3>2 DEF ArmedWindow
    <2>7. PhaseFacts'
      <3>1. fresh' - lastProbe' < ProbeInterval
        BY <1>1 DEF PhaseFacts
      <3>2. guard'.armed /\ guard'.lastNow < session'.deadline
        BY <2>1, <2>3, <2>4
      <3>3. \A i \in Input : Fresh(guard', i, guard'.lastNow)
        BY <2>4
      <3>4. pendingZero' => robot' = "moving"
        BY <1>1, <1>5 DEF PhaseFacts
      <3>5. QED
        BY <1>5, <3>1, <3>2, <3>3, <3>4 DEF PhaseFacts
    <2>8. LossEndsSession' /\ MotionIsOwedZero'
      BY <1>1, <1>5 DEF LossEndsSession, MotionIsOwedZero, AfterZero
    <2>9. QED
      BY <2>5, <2>6, <2>7, <2>8
  <1>6. CASE ~EvaluateAllowed(g, now) /\ FlushZero(g, "zeroTick", "judge")
    <2>1. /\ pc' = (IF pendingZero THEN "zeroTick" ELSE "judge")
          /\ pendingZero' = FALSE /\ guard' = Evaluate(g, now)
      BY <1>6 DEF FlushZero
    <2>2. g \in GuardRecord /\ g.outputEnabled /\ now \in Int /\ ~EvaluateAllowed(g, now)
      BY <1>2, <1>3, <1>6
    <2>3. guard' \in GuardRecord /\ guard'.outputEnabled /\ ~guard'.armed
      BY <2>1, <2>2, EvaluateFacts
    <2>4. TypeOK'
      BY <1>1, <1>4, <2>1, <2>3 DEF TypeOK, Pc, Loop
    <2>5. ArmedWindow'
      BY <1>1, <1>4, <2>1, <2>3 DEF ArmedWindow
    <2>6. PhaseFacts' /\ LossEndsSession'
      BY <1>1, <2>1, <2>3 DEF PhaseFacts, LossEndsSession
    <2>7. MotionIsOwedZero'
      BY <1>1, <2>1 DEF MotionIsOwedZero, AfterZero
    <2>8. QED
      BY <2>4, <2>5, <2>6, <2>7
  <1>7. QED
    BY <1>5, <1>6 DEF Tick, g

\* A release either moves the robot under the armed guard, or fails, which
\* latches the fault and disarms.
LEMMA ReleaseStep ==
  ASSUME IndInv, Release
  PROVE  IndInv'
  <1> USE DEF IndInv
  <1>1. /\ UNCHANGED <<live, now, budget, fresh, session, pendingZero, ownership, lastProbe,
                       interrupted>>
        /\ pc = "release"
    BY DEF Release
  <1>2. guard \in GuardRecord /\ guard.armed /\ guard.outputEnabled /\ session.armedOnce
    BY <1>1 DEF TypeOK, PhaseFacts, ArmedWindow
  <1>3. CASE Publish("moving") /\ pc' = "published" /\ UNCHANGED guard
    <2>1. robot' = "moving" /\ ~sender.fault /\ pc' = "published" /\ guard' = guard
      BY <1>3 DEF Publish
    <2>2. /\ sender' \in [fault : BOOLEAN, pub : BOOLEAN, confirmed : BOOLEAN]
          /\ sender'.confirmed /\ ~sender'.fault
      BY <1>3 DEF Publish, TypeOK
    <2>3. TypeOK'
      BY <1>1, <2>1, <2>2 DEF TypeOK, Pc, Loop
    <2>4. ArmedWindow'
      BY <1>1, <1>2, <2>1, <2>2 DEF ArmedWindow
    <2>5. PhaseFacts' /\ LossEndsSession' /\ MotionIsOwedZero'
      BY <1>1, <1>2, <2>1 DEF PhaseFacts, LossEndsSession, MotionIsOwedZero
    <2>6. QED
      BY <2>3, <2>4, <2>5
  <1>4. CASE PublishRaises /\ pc' = "judge"
    <2>1. /\ sender' \in [fault : BOOLEAN, pub : BOOLEAN, confirmed : BOOLEAN]
          /\ sender'.fault
      BY <1>4 DEF PublishRaises, TypeOK
    <2>2. guard' \in GuardRecord /\ ~guard'.armed /\ guard'.outputEnabled
      BY <1>2, <1>4, DisarmFacts DEF PublishRaises
    <2>3. robot' = robot /\ pc' = "judge"
      BY <1>4 DEF PublishRaises
    <2>4. TypeOK'
      BY <1>1, <2>1, <2>2, <2>3 DEF TypeOK, Pc, Loop
    <2>5. ArmedWindow'
      BY <1>1, <1>2, <2>1, <2>2, <2>3 DEF ArmedWindow
    <2>6. PhaseFacts' /\ LossEndsSession' /\ MotionIsOwedZero'
      BY <1>1, <2>1, <2>2, <2>3 DEF PhaseFacts, LossEndsSession, MotionIsOwedZero
    <2>7. QED
      BY <2>4, <2>5, <2>6
  <1>5. QED
    BY <1>3, <1>4 DEF Release

\* The released motion is noted as owing a zero; the guard is still armed.
LEMMA OweZeroStep ==
  ASSUME IndInv, OweZero
  PROVE  IndInv'
  <1> USE DEF IndInv
  <1>1. /\ UNCHANGED <<live, now, budget, fresh, guard, session, sender, ownership, lastProbe,
                       robot, interrupted>>
        /\ pc = "published" /\ pc' = "rest" /\ pendingZero' = TRUE
    BY DEF OweZero
  <1>2. guard.armed /\ robot = "moving"
    BY <1>1 DEF PhaseFacts
  <1>3. TypeOK'
    BY <1>1 DEF TypeOK, Pc, Loop
  <1>4. ArmedWindow'
    BY <1>1, <1>2 DEF ArmedWindow
  <1>5. PhaseFacts' /\ LossEndsSession' /\ MotionIsOwedZero'
    BY <1>1, <1>2 DEF PhaseFacts, LossEndsSession, MotionIsOwedZero
  <1>6. QED
    BY <1>3, <1>4, <1>5

\* The zero is sent, or fails and latches the fault; the guard is already off.
LEMMA SendZeroStep ==
  ASSUME IndInv, SendZero
  PROVE  IndInv'
  <1> USE DEF IndInv
  <1>1. /\ UNCHANGED <<live, now, budget, fresh, session, pendingZero, ownership, lastProbe,
                       interrupted>>
        /\ pc \in {"zeroTick", "zeroArm", "zeroExit"} /\ pc' \in {"judge", "spin", "closed"}
    BY DEF SendZero, AfterZero
  <1>2. guard \in GuardRecord /\ ~guard.armed /\ guard.outputEnabled /\ ~pendingZero
    BY <1>1 DEF TypeOK, PhaseFacts, ArmedWindow
  <1>3. session.armedOnce
    BY <1>1 DEF PhaseFacts, ArmedWindow
  <1>4. CASE Publish("stopped") /\ UNCHANGED guard
    <2>1. robot' = "stopped" /\ ~sender.fault /\ guard' = guard
      BY <1>4 DEF Publish
    <2>2. /\ sender' \in [fault : BOOLEAN, pub : BOOLEAN, confirmed : BOOLEAN]
          /\ sender'.confirmed
      BY <1>4 DEF Publish, TypeOK
    <2>3. TypeOK'
      BY <1>1, <2>1, <2>2 DEF TypeOK, Pc, Loop
    <2>4. ArmedWindow'
      BY <1>1, <1>2, <1>3, <2>1, <2>2 DEF ArmedWindow
    <2>5. PhaseFacts' /\ LossEndsSession' /\ MotionIsOwedZero'
      BY <1>1, <1>2, <2>1 DEF PhaseFacts, LossEndsSession, MotionIsOwedZero
    <2>6. QED
      BY <2>3, <2>4, <2>5
  <1>5. CASE PublishRaises
    <2>1. /\ sender' \in [fault : BOOLEAN, pub : BOOLEAN, confirmed : BOOLEAN]
          /\ sender'.fault
      BY <1>5 DEF PublishRaises, TypeOK
    <2>2. guard' \in GuardRecord /\ ~guard'.armed /\ guard'.outputEnabled
      BY <1>2, <1>5, DisarmFacts DEF PublishRaises
    <2>3. robot' = robot
      BY <1>5 DEF PublishRaises
    <2>4. TypeOK'
      BY <1>1, <2>1, <2>2, <2>3 DEF TypeOK, Pc, Loop
    <2>5. ArmedWindow'
      BY <1>1, <1>3, <2>1, <2>2, <2>3 DEF ArmedWindow
    <2>6. PhaseFacts' /\ LossEndsSession' /\ MotionIsOwedZero'
      BY <1>1, <1>2, <2>1, <2>2, <2>3 DEF PhaseFacts, LossEndsSession, MotionIsOwedZero
    <2>7. QED
      BY <2>4, <2>5, <2>6
  <1>6. QED
    BY <1>4, <1>5 DEF SendZero

\* A tick that did not release locks an armed session.
LEMMA JudgeStep ==
  ASSUME IndInv, Judge
  PROVE  IndInv'
  <1> USE DEF IndInv
  <1>1. /\ UNCHANGED <<live, now, budget, fresh, guard, pendingZero, sender, ownership,
                       lastProbe, robot, interrupted>>
        /\ pc = "judge" /\ pc' = "rest" /\ session' = LockIfArmedOnce(session)
    BY DEF Judge
  <1>2. ~guard.armed
    BY <1>1 DEF PhaseFacts
  <1>3. /\ session' \in [locked : BOOLEAN, armedOnce : BOOLEAN, deadline : Int]
        /\ session'.armedOnce = session.armedOnce /\ session'.deadline = session.deadline
        /\ live /\ session.armedOnce => session'.locked
    BY <1>1, LockFacts
  <1>4. TypeOK'
    BY <1>1, <1>3 DEF TypeOK, Pc, Loop
  <1>5. ArmedWindow'
    BY <1>1, <1>2, <1>3 DEF ArmedWindow
  <1>6. PhaseFacts' /\ LossEndsSession'
    BY <1>1, <1>3 DEF PhaseFacts, LossEndsSession
  <1>7. MotionIsOwedZero'
    BY <1>1 DEF MotionIsOwedZero, AfterZero
  <1>8. QED
    BY <1>4, <1>5, <1>6, <1>7

\* The finally block disarms and has the owed zero sent.
LEMMA ShutdownOutputStep ==
  ASSUME IndInv, ShutdownOutput
  PROVE  IndInv'
  <1> USE DEF IndInv
  <1>1. /\ UNCHANGED <<live, now, budget, fresh, session, sender, ownership, lastProbe,
                       robot, interrupted>>
        /\ pc = "exit" /\ pc' = (IF pendingZero THEN "zeroExit" ELSE "closed")
        /\ pendingZero' = FALSE /\ guard' = Evaluate(Disarm(guard), now)
    BY DEF ShutdownOutput, FlushZero
  <1>2. guard \in GuardRecord /\ now \in Int /\ guard.outputEnabled
    BY DEF TypeOK, ArmedWindow
  <1>3. guard' \in GuardRecord /\ ~guard'.armed /\ guard'.outputEnabled
    BY <1>1, <1>2, FlushFacts
  <1>4. TypeOK'
    BY <1>1, <1>3 DEF TypeOK, Pc, Exit
  <1>5. ArmedWindow'
    BY <1>1, <1>3 DEF ArmedWindow
  <1>6. PhaseFacts' /\ LossEndsSession'
    BY <1>1, <1>3 DEF PhaseFacts, LossEndsSession
  <1>7. MotionIsOwedZero'
    BY <1>1 DEF MotionIsOwedZero, AfterZero
  <1>8. QED
    BY <1>4, <1>5, <1>6, <1>7

\* Every step preserves the inductive invariant.
LEMMA NextStep ==
  IndInv /\ [Next]_vars => IndInv'
  <1> SUFFICES ASSUME IndInv, [Next]_vars PROVE IndInv'
    OBVIOUS
  <1>1. CASE Spin
    BY <1>1, InformStep, MoveStep, RequestArmStep, RequestDisarmStep DEF Spin
  <1>2. CASE Collect
    BY <1>2, InformStep, MoveStep, OnFatalEventStep, CheckOwnershipStep DEF Collect
  <1>3. CASE Decide
    BY <1>3, TickStep, ReleaseStep, OweZeroStep, SendZeroStep, JudgeStep DEF Decide
  <1>4. CASE LoopAgain \/ LoopEnds \/ Interrupt \/ Advance \/ Terminated \/ UNCHANGED vars
    BY <1>4, MoveStep DEF Terminated
  <1>5. CASE ShutdownOutput
    BY <1>5, ShutdownOutputStep
  <1>6. QED
    BY <1>1, <1>2, <1>3, <1>4, <1>5 DEF Next, Main

\* The inductive invariant holds in every reachable state of the process, for
\* every lease length, run length, probe interval, batch size and freshness limit.
THEOREM Invariance == SafetySpec => []IndInv
  BY InitIndInv, NextStep, PTL DEF SafetySpec

\* Type correctness of the main loop's state.
THEOREM TypeCorrect == SafetySpec => []TypeOK
  <1>1. IndInv => TypeOK
    BY DEF IndInv
  <1>2. QED
    BY <1>1, Invariance, PTL

\* Controller.tick and GuardedOutput.tick release only inside the live window
\* and on inputs fresh at the moment of the decision.
THEOREM ReleaseIsPermitted == SafetySpec => []ReleasePermitted
  <1>1. IndInv => ReleasePermitted
    BY DEF IndInv, PhaseFacts, ArmedWindow, ReleasePermitted
  <1>2. QED
    BY <1>1, Invariance, PTL

\* A release follows a healthy ownership probe younger than the probe interval
\* at the start of the iteration.
THEOREM ReleaseIsOwned == SafetySpec => []ReleaseOwned
  <1>1. IndInv => ReleaseOwned
    BY DEF IndInv, PhaseFacts, ArmedWindow, ReleaseOwned
  <1>2. QED
    BY <1>1, Invariance, PTL

\* Whichever handler of the Controller locks the session, the guard is off.
THEOREM LockedMeansOff == SafetySpec => []LockedIsOff
  <1>1. IndInv => LockedIsOff
    BY DEF IndInv, ArmedWindow, LockedIsOff
  <1>2. QED
    BY <1>1, Invariance, PTL

\* At the end of an iteration an armed session is still armed or locked for good.
THEOREM LossIsNotForgiven == SafetySpec => []LossEndsSession
  <1>1. IndInv => LossEndsSession
    BY DEF IndInv
  <1>2. QED
    BY <1>1, Invariance, PTL

\* A moving robot is owed a zero unless the sender failed or a SIGINT struck.
THEOREM MotionOwesZero == SafetySpec => []MotionIsOwedZero
  <1>1. IndInv => MotionIsOwedZero
    BY DEF IndInv
  <1>2. QED
    BY <1>1, Invariance, PTL

\* While the guard is armed the process's own publisher is a confirmed one.
THEOREM OwnPublisherIsKnown == SafetySpec => []SelfNeverForeign
  <1>1. IndInv => SelfNeverForeign
    BY DEF IndInv, ArmedWindow, SelfNeverForeign
  <1>2. QED
    BY <1>1, Invariance, PTL

-----------------------------------------------------------------------------
(* What a step may never do to the session.                                *)

\* The lock and the one arm are for good, the deadline of an open window stands,
\* and no step turns the guard on again.
LEMMA SessionStep ==
  ASSUME IndInv, [Next]_vars
  PROVE  /\ session.locked => session'.locked
         /\ session.armedOnce => /\ session'.armedOnce
                                 /\ session'.deadline = session.deadline
         /\ session.armedOnce /\ guard'.armed => guard.armed
  <1> USE DEF IndInv
  <1>1. guard \in GuardRecord /\ now \in Int
    BY DEF TypeOK
  <1>2. CASE UNCHANGED <<session, guard>>
    BY <1>2
  <1>3. CASE /\ session' \in {session, Lock(session), LockIfArmedOnce(session)}
             /\ guard'.armed => guard.armed
    BY <1>3, LockFacts DEF Lock, TypeOK
  <1>4. CASE OnScan \/ OnRaw \/ DisarmForInputError \/ OnStatus \/ ConsumeWeb
    <2>1. session' = session
      BY <1>4 DEF OnScan, OnRaw, DisarmForInputError, OnStatus, ConsumeWeb
    <2>2. guard'.armed => guard.armed
      BY <1>4, InformGuard
    <2>3. QED
      BY <1>3, <2>1, <2>2
  <1>5. CASE RequestArm
    <2>1. ~session.locked /\ ~session.armedOnce
      BY <1>5 DEF RequestArm, ArmRefused
    <2>2. QED
      BY <2>1
  <1>6. CASE RequestDisarm
    <2>1. session' = LockIfArmedOnce(session)
      BY <1>6 DEF RequestDisarm
    <2>2. guard' \in {Disarm(guard), Evaluate(Disarm(guard), now)}
      BY <1>6 DEF RequestDisarm, FlushZero
    <2>3. ~guard'.armed
      BY <1>1, <2>2, FlushFacts, DisarmFacts
    <2>4. QED
      BY <1>3, <2>1, <2>3
  <1>7. CASE OnFatalEvent
    <2>1. session' = LockIfArmedOnce(session) /\ guard' = Disarm(guard)
      BY <1>7 DEF OnFatalEvent
    <2>2. ~guard'.armed
      BY <1>1, <2>1, DisarmFacts
    <2>3. QED
      BY <1>3, <2>1, <2>2
  <1>8. CASE CheckOwnershipFatal
    <2>1. session' \in {session, LockIfArmedOnce(session)}
      BY <1>8 DEF CheckOwnershipFatal
    <2>2. guard' \in {guard, Disarm(guard)}
      BY <1>8 DEF CheckOwnershipFatal
    <2>3. guard'.armed => guard.armed
      BY <1>1, <2>2, DisarmFacts
    <2>4. QED
      BY <1>3, <2>1, <2>3
  <1>9. CASE Tick
    <2> DEFINE g == IF Expired THEN Disarm(guard) ELSE guard
    <2>1. session' \in {session, Lock(session)} /\ guard' = Evaluate(g, now)
      BY <1>9 DEF Tick, FlushZero
    <2>2. /\ g \in GuardRecord
          /\ g.armed => guard.armed
      BY <1>1, DisarmFacts
    <2> HIDE DEF g
    <2>3. guard'.armed => g.armed
      BY <1>1, <2>1, <2>2, EvaluateFacts
    <2>4. QED
      BY <1>3, <2>1, <2>2, <2>3
  <1>10. CASE Release \/ SendZero
    <2>1. session' = session /\ guard' \in {guard, Disarm(guard)}
      BY <1>10 DEF Release, SendZero, PublishRaises
    <2>2. guard'.armed => guard.armed
      BY <1>1, <2>1, DisarmFacts
    <2>3. QED
      BY <1>3, <2>1, <2>2
  <1>11. CASE Judge
    BY <1>3, <1>11 DEF Judge
  <1>12. CASE ShutdownOutput
    <2>1. session' = session /\ guard' = Evaluate(Disarm(guard), now)
      BY <1>12 DEF ShutdownOutput, FlushZero
    <2>2. ~guard'.armed
      BY <1>1, <2>1, FlushFacts
    <2>3. QED
      BY <1>3, <2>1, <2>2
  <1>13. CASE \/ RequestArmRefused \/ SpinDone \/ SpinRaises \/ TelemetryDone
              \/ SkipProbe \/ OweZero \/ LoopAgain \/ LoopEnds \/ Advance
              \/ Interrupt \/ Terminated \/ UNCHANGED vars
    BY <1>2, <1>13
    DEF RequestArmRefused, SpinDone, SpinRaises, TelemetryDone, SkipProbe, OweZero,
        LoopAgain, LoopEnds, Advance, Interrupt, Terminated, vars
  <1>14. QED
    BY <1>4, <1>5, <1>6, <1>7, <1>8, <1>9, <1>10, <1>11, <1>12, <1>13
    DEF Next, Main, Spin, Collect, Decide

\* The live window of a process is opened once, is never refreshed, and inside
\* and after it the guard is never armed again.
THEOREM WindowNeverMoves == SafetySpec => WindowIsFixed
  <1>1. IndInv /\ [Next]_vars =>
          [session.armedOnce => /\ session'.deadline = session.deadline
                                /\ guard'.armed => guard.armed]_vars
    BY SessionStep
  <1>2. QED
    BY <1>1, Invariance, PTL DEF SafetySpec, WindowIsFixed

-----------------------------------------------------------------------------
(* The process implements the live session of module LiveSession.          *)

\* What is being handed to the wire, phase by phase.
LEMMA HandFacts ==
  /\ pc = "release" => Hand = "release"
  /\ pc \in {"zeroTick", "zeroArm", "zeroExit"} => Hand = "zero"
  /\ pc \notin {"release", "zeroTick", "zeroArm", "zeroExit"} => Hand = "nothing"
  BY DEF Hand, AfterZero

\* The same facts about the state after a step.
LEMMA HandNextFacts ==
  /\ pc' = "release" => Hand' = "release"
  /\ pc' \in {"zeroTick", "zeroArm", "zeroExit"} => Hand' = "zero"
  /\ pc' \notin {"release", "zeroTick", "zeroArm", "zeroExit"} => Hand' = "nothing"
  BY DEF Hand, AfterZero

\* A permission is granted once at most and revoked for good.
LEMMA PermitStep ==
  ASSUME IndInv, [Next]_vars
  PROVE  \/ Permit' = Permit
         \/ Permit' = "revoked"
         \/ Permit = "never" /\ Permit' = "granted"
  BY SessionStep DEF Permit

\* A step that changes neither what is handed over nor the robot is a grant, a
\* revocation or a stutter of the live session.
LEMMA QuietStep ==
  ASSUME IndInv, [Next]_vars, Hand' = Hand, robot' = robot
  PROVE  [Promise!Next]_(Promise!vars)
  <1>1. CASE Permit' = Permit
    BY <1>1 DEF Promise!vars
  <1>2. CASE Permit' = "revoked"
    BY <1>2 DEF Promise!Next, Promise!Revoke
  <1>3. CASE Permit = "never" /\ Permit' = "granted"
    BY <1>3 DEF Promise!Next, Promise!Grant
  <1>4. QED
    BY <1>1, <1>2, <1>3, PermitStep

\* Starting to flush an owed zero offers it and finds the permission revoked.
LEMMA FlushOffers ==
  ASSUME IndInv, pc \notin {"release", "zeroTick", "zeroArm", "zeroExit"},
         pendingZero, pc' \in {"zeroTick", "zeroArm", "zeroExit"}, robot' = robot,
         session'.armedOnce, ~guard'.armed
  PROVE  Promise!OfferZero
  <1>1. robot = "moving"
    BY DEF IndInv, PhaseFacts
  <1>2. Hand = "nothing" /\ Hand' = "zero"
    BY HandFacts, HandNextFacts
  <1>3. Permit' = "revoked"
    BY DEF Permit
  <1>4. QED
    BY <1>1, <1>2, <1>3 DEF Promise!OfferZero

\* Every step of the process is a step of the live session or a stutter.
LEMMA SimulationStep ==
  IndInv /\ IndInv' /\ [Next]_vars => [Promise!Next]_(Promise!vars)
  <1> SUFFICES ASSUME IndInv, IndInv', [Next]_vars PROVE [Promise!Next]_(Promise!vars)
    OBVIOUS
  <1> DEFINE Handing == {"release", "zeroTick", "zeroArm", "zeroExit"}
  <1>1. CASE pc \notin Handing /\ pc' \notin Handing /\ robot' = robot
    BY <1>1, HandFacts, HandNextFacts, QuietStep
  <1>2. CASE pc' = pc /\ robot' = robot
    <2>1. Hand' = Hand
      BY <1>2 DEF Hand
    <2>2. QED
      BY <1>2, <2>1, QuietStep
  <1>3. ASSUME pc \notin Handing, robot' = robot,
               pc' \in {"zeroTick", "zeroArm", "zeroExit"}, pendingZero
        PROVE  [Promise!Next]_(Promise!vars)
    <2>1. session.armedOnce
      BY <1>3 DEF IndInv, ArmedWindow
    <2>2. session'.armedOnce
      BY <2>1, SessionStep
    <2>3. ~guard'.armed
      BY <1>3 DEF IndInv, PhaseFacts
    <2>4. Promise!OfferZero
      BY <1>3, <2>2, <2>3, FlushOffers
    <2>5. QED
      BY <2>4 DEF Promise!Next
  <1>4. CASE RequestDisarm
    <2>1. pc = "spin" /\ robot' = robot
      BY <1>4 DEF RequestDisarm, Callback
    <2>2. pc' = "spin" \/ (pc' = "zeroArm" /\ pendingZero)
      BY <1>4, <2>1 DEF RequestDisarm, FlushZero
    <2>3. QED
      BY <1>1, <1>3, <2>1, <2>2
  <1>5. CASE Tick
    <2>1. pc = "tick" /\ robot' = robot
      BY <1>5 DEF Tick
    <2>2. pc' = "release" \/ pc' = "judge" \/ (pc' = "zeroTick" /\ pendingZero)
      BY <1>5 DEF Tick, FlushZero
    <2>3. CASE pc' = "release"
      <3>1. guard'.armed /\ session'.armedOnce /\ ~session'.locked /\ robot' # "stopped"
        BY <2>3 DEF IndInv, PhaseFacts, ArmedWindow
      <3>2. Permit' = "granted"
        BY <3>1 DEF Permit
      <3>3. Permit = "granted"
        <4>1. ~session.locked
          BY <3>1, SessionStep
        <4>2. session.armedOnce
          BY <1>5, <3>1 DEF Tick, Lock, IndInv, TypeOK
        <4>3. guard.armed
          BY <3>1, <4>2, SessionStep
        <4>4. QED
          BY <4>1, <4>2, <4>3 DEF Permit
      <3>4. Hand = "nothing" /\ Hand' = "release"
        BY <2>1, <2>3, HandFacts, HandNextFacts
      <3>5. Promise!OfferRelease
        BY <2>1, <3>1, <3>2, <3>3, <3>4 DEF Promise!OfferRelease
      <3>6. QED
        BY <3>5 DEF Promise!Next
    <2>4. QED
      BY <1>1, <1>3, <2>1, <2>2, <2>3
  <1>6. CASE ShutdownOutput
    <2>1. pc = "exit" /\ robot' = robot
      BY <1>6 DEF ShutdownOutput
    <2>2. pc' = "closed" \/ (pc' = "zeroExit" /\ pendingZero)
      BY <1>6 DEF ShutdownOutput, FlushZero
    <2>3. QED
      BY <1>1, <1>3, <2>1, <2>2
  <1>7. CASE Release \/ SendZero
    <2>1. /\ pc \in Handing /\ pc' \notin Handing
          /\ session' = session
      BY <1>7 DEF Release, SendZero, AfterZero
    <2>2. Hand \in {"release", "zero"} /\ Hand' = "nothing"
      BY <2>1, HandFacts, HandNextFacts
    <2>3. CASE guard' = guard /\ robot' = (IF Hand = "release" THEN "moving" ELSE "stopped")
      <3>1. Permit' = Permit
        BY <2>1, <2>3 DEF Permit
      <3>2. QED
        BY <2>2, <2>3, <3>1 DEF Promise!Next, Promise!Deliver
    <2>4. CASE guard' = Disarm(guard) /\ robot' = robot
      <3>1. ~guard'.armed
        BY <2>4, DisarmFacts DEF IndInv, TypeOK
      <3>2. Permit' \in {Permit, "revoked"}
        BY <2>1, <3>1 DEF Permit
      <3>3. QED
        BY <2>2, <2>4, <3>2 DEF Promise!Next, Promise!Drop
    <2>5. QED
      BY <1>7, <2>3, <2>4, HandFacts
      DEF Release, SendZero, Publish, PublishRaises, AfterZero
  <1>8. CASE Interrupt
    <2>1. robot' = robot /\ pc' \notin Handing /\ session' = session /\ guard' = guard
      BY <1>8 DEF Interrupt, Exit
    <2>2. CASE pc \notin Handing
      BY <1>1, <2>1, <2>2
    <2>3. CASE pc \in Handing
      <3>1. Hand \in {"release", "zero"} /\ Hand' = "nothing"
        BY <2>1, <2>3, HandFacts, HandNextFacts
      <3>2. Permit' = Permit
        BY <2>1 DEF Permit
      <3>3. QED
        BY <2>1, <3>1, <3>2 DEF Promise!Next, Promise!Drop
    <2>4. QED
      BY <2>2, <2>3
  <1>9. CASE OnScan \/ OnRaw \/ DisarmForInputError \/ RequestArm \/ RequestArmRefused
             \/ OnStatus \/ OnFatalEvent
    BY <1>2, <1>9
    DEF OnScan, OnRaw, DisarmForInputError, RequestArm, RequestArmRefused, OnStatus,
        OnFatalEvent
  <1>10. CASE Advance \/ Terminated \/ UNCHANGED vars
    BY <1>2, <1>10 DEF Advance, Terminated, vars
  <1>11. CASE SpinDone \/ SpinRaises \/ TelemetryDone \/ ConsumeWeb \/ CheckOwnershipFatal
              \/ SkipProbe \/ OweZero \/ Judge \/ LoopAgain \/ LoopEnds
    BY <1>1, <1>11
    DEF SpinDone, SpinRaises, TelemetryDone, ConsumeWeb, CheckOwnershipFatal, SkipProbe,
        OweZero, Judge, LoopAgain, LoopEnds
  <1>12. QED
    BY <1>4, <1>5, <1>6, <1>7, <1>8, <1>9, <1>10, <1>11
    DEF Next, Main, Spin, Collect, Decide

\* The process implements the live session: motion permitted once, released only
\* under the permission, and a zero offered only to a robot it set in motion.
THEOREM Refinement == SafetySpec => ImplementsLiveSession
  <1>1. Init => Promise!Init
    BY HandFacts DEF Init, Promise!Init, Permit
  <1>2. IndInv /\ IndInv' /\ [Next]_vars => [Promise!Next]_(Promise!vars)
    BY SimulationStep
  <1>3. QED
    BY <1>1, <1>2, Invariance, PTL DEF SafetySpec, ImplementsLiveSession, Promise!Spec
=============================================================================
