---------------------------- MODULE OutputProofs ----------------------------
(***************************************************************************)
(* Proofs about the last two things between a decision and the robot: the  *)
(* guard with its sending boundary (GuardedOutput), for every choice of    *)
(* lifetimes and stamps, and the two limiters (VelocityLimit), for every   *)
(* choice of limits and dead zones and raw commands of any speed.  The two *)
(* share no state; a name of VelocityLimit that GuardedOutput has too      *)
(* carries the prefix Limit.                                               *)
(***************************************************************************)
EXTENDS GuardedOutput, VelocityLimit, TLAPS

-----------------------------------------------------------------------------
(* The methods of the guard                                                *)

\* A disarm takes back the arm and the confirmation, and nothing else that counts.
LEMMA DisarmFacts ==
  ASSUME NEW g \in GuardRecord
  PROVE  /\ Disarm(g) \in GuardRecord
         /\ ~Disarm(g).armed /\ ~Disarm(g).exclusive
         /\ Disarm(g).outputEnabled = g.outputEnabled
  BY DEF Disarm, GuardRecord

\* Accepting an input touches neither the arm nor the confirmation.
LEMMA AcceptFacts ==
  ASSUME NEW g \in GuardRecord, NEW i \in Input, NEW t \in Int
  PROVE  /\ Accept(g, i, t) \in GuardRecord
         /\ Accept(g, i, t).armed = g.armed
         /\ Accept(g, i, t).exclusive = g.exclusive
         /\ Accept(g, i, t).outputEnabled = g.outputEnabled
  BY DEF Accept, GuardRecord

\* Refusing an input takes back both.
LEMMA RejectFacts ==
  ASSUME NEW g \in GuardRecord, NEW i \in Input
  PROVE  /\ Reject(g, i) \in GuardRecord
         /\ ~Reject(g, i).armed /\ ~Reject(g, i).exclusive
         /\ Reject(g, i).outputEnabled = g.outputEnabled
  <1> DEFINE h == [g EXCEPT !.ok[i] = FALSE, !.at[i] = 0]
  <1>1. [g.ok EXCEPT ![i] = FALSE] \in [Input -> BOOLEAN] /\ [g.at EXCEPT ![i] = 0] \in [Input -> Int]
    BY DEF GuardRecord
  <1>2. h = [g EXCEPT !.ok = [g.ok EXCEPT ![i] = FALSE], !.at = [g.at EXCEPT ![i] = 0]]
    BY DEF GuardRecord
  <1>3. h \in GuardRecord /\ h.outputEnabled = g.outputEnabled
    BY <1>1, <1>2 DEF GuardRecord
  <1>4. Reject(g, i) = Disarm(h)
    BY DEF Reject
  <1>5. QED
    BY <1>3, <1>4, DisarmFacts

\* What every update has in common: a good one leaves the arm and the
\* confirmation as they are, any other one takes both back.
Follows(g, h, fine) ==
  /\ h \in GuardRecord
  /\ h.outputEnabled = g.outputEnabled
  /\ fine => h.armed = g.armed /\ h.exclusive = g.exclusive
  /\ ~fine => ~h.armed /\ ~h.exclusive

LEMMA UpdateFacts ==
  ASSUME NEW g \in GuardRecord, NEW i \in Input, NEW good \in BOOLEAN, NEW t \in Int
  PROVE  Follows(g, Update(g, i, good, t), good /\ ValidTime(t))
  <1> DEFINE a == Accept(g, i, t)
             r == Reject(g, i)
             fine == good /\ ValidTime(t)
  <1>1. /\ a \in GuardRecord /\ a.armed = g.armed /\ a.exclusive = g.exclusive
        /\ a.outputEnabled = g.outputEnabled
        /\ r \in GuardRecord /\ ~r.armed /\ ~r.exclusive /\ r.outputEnabled = g.outputEnabled
    BY AcceptFacts, RejectFacts
  <1>2. Update(g, i, good, t) = IF fine THEN a ELSE r
    BY DEF Update
  <1> HIDE DEF fine, a, r
  <1>3. Follows(g, Update(g, i, good, t), fine)
    BY <1>1, <1>2 DEF Follows
  <1>4. QED
    BY <1>3 DEF fine

LEMMA UpdateScanFacts ==
  ASSUME NEW g \in GuardRecord, NEW verdict, NEW age \in Int, NEW t \in Int
  PROVE  Follows(g, UpdateScan(g, verdict, age, t),
                 verdict = "clear" /\ ValidTime(t) /\ age \in -ScanFuture .. ScanTTL)
  <1> DEFINE fine == verdict = "clear" /\ ValidTime(t) /\ age \in -ScanFuture .. ScanTTL
             a == Accept(g, "scan", t)
             r == Reject(g, "scan")
  <1>1. "scan" \in Input
    BY DEF Input
  <1>2. /\ a \in GuardRecord /\ a.armed = g.armed /\ a.exclusive = g.exclusive
        /\ a.outputEnabled = g.outputEnabled
        /\ r \in GuardRecord /\ ~r.armed /\ ~r.exclusive /\ r.outputEnabled = g.outputEnabled
    BY <1>1, AcceptFacts, RejectFacts
  <1>3. UpdateScan(g, verdict, age, t) = IF fine THEN [a EXCEPT !.age0 = age] ELSE [r EXCEPT !.age0 = 0]
    BY DEF UpdateScan
  <1> HIDE DEF fine, a, r
  <1>4. Follows(g, UpdateScan(g, verdict, age, t), fine)
    BY <1>2, <1>3 DEF Follows, GuardRecord
  <1>5. QED
    BY <1>4 DEF fine

\* A change of the confirmation never arms.
LEMMA SetExclusiveFacts ==
  ASSUME NEW g \in GuardRecord, NEW yes \in BOOLEAN
  PROVE  LET h == SetExclusiveControl(g, yes)
         IN  /\ h \in GuardRecord
             /\ h.outputEnabled = g.outputEnabled
             /\ h.exclusive = yes
             /\ h.armed = (g.armed /\ yes)
  BY DisarmFacts DEF SetExclusiveControl, GuardRecord

\* Looking at the clock moves the lower bound of the next decision and no more.
LEMMA CheckClockFacts ==
  ASSUME NEW g \in GuardRecord, NEW now \in Int
  PROVE  /\ CheckClock(g, now) \in GuardRecord
         /\ CheckClock(g, now).armed = g.armed
         /\ CheckClock(g, now).exclusive = g.exclusive
         /\ CheckClock(g, now).outputEnabled = g.outputEnabled
  BY DEF CheckClock, GuardRecord

\* An arm that is allowed finds the confirmation in place and keeps it; one that
\* is refused leaves the guard as it was only where output is disabled.
LEMMA ArmFacts ==
  ASSUME NEW g \in GuardRecord, NEW now \in Int
  PROVE  LET h == Arm(g, now)
         IN  /\ h \in GuardRecord
             /\ h.outputEnabled = g.outputEnabled
             /\ ArmAllowed(g, now) => h.armed /\ h.exclusive /\ g.exclusive /\ g.outputEnabled
             /\ ~ArmAllowed(g, now) =>
                  \/ ~h.armed /\ ~h.exclusive
                  \/ ~g.outputEnabled /\ h.armed = g.armed /\ h.exclusive = g.exclusive
  <1> DEFINE h == CheckClock(g, now)
  <1>1. /\ h \in GuardRecord /\ h.armed = g.armed /\ h.exclusive = g.exclusive
        /\ h.outputEnabled = g.outputEnabled
    BY CheckClockFacts
  <1>2. CASE ArmAllowed(g, now)
    <2>1. Arm(g, now) = [h EXCEPT !.armed = TRUE]
      BY <1>2 DEF Arm
    <2>2. g.exclusive /\ g.outputEnabled
      BY <1>2 DEF ArmAllowed
    <2> HIDE DEF h
    <2>3. QED
      BY <1>1, <1>2, <2>1, <2>2 DEF GuardRecord
  <1>3. CASE ~ArmAllowed(g, now) /\ ~ClockInvalid(g, now) /\ ~g.outputEnabled
    <2>1. Arm(g, now) = h
      BY <1>3 DEF Arm
    <2>2. QED
      BY <1>1, <1>3, <2>1
  <1>4. CASE ~ArmAllowed(g, now) /\ ~(~ClockInvalid(g, now) /\ ~g.outputEnabled)
    <2>1. Arm(g, now) = Disarm(h)
      BY <1>4 DEF Arm
    <2>2. QED
      BY <1>1, <1>4, <2>1, DisarmFacts
  <1>5. QED
    BY <1>2, <1>3, <1>4

\* A decision that goes against the guard disarms it; any other changes nothing.
LEMMA EvaluateFacts ==
  ASSUME NEW g \in GuardRecord, NEW now \in Int
  PROVE  Follows(g, Evaluate(g, now),
                 ~(ClockInvalid(g, now) \/ (g.outputEnabled /\ Blocked(g, now))))
  <1> DEFINE h == CheckClock(g, now)
             against == ClockInvalid(g, now) \/ (g.outputEnabled /\ Blocked(g, now))
  <1>1. /\ h \in GuardRecord /\ h.armed = g.armed /\ h.exclusive = g.exclusive
        /\ h.outputEnabled = g.outputEnabled
    BY CheckClockFacts
  <1>2. Evaluate(g, now) = IF against THEN Disarm(h) ELSE h
    BY DEF Evaluate
  <1> HIDE DEF h, against
  <1>3. Follows(g, Evaluate(g, now), ~against)
    BY <1>1, <1>2, DisarmFacts DEF Follows
  <1>4. QED
    BY <1>3 DEF against

-----------------------------------------------------------------------------
(* The guard and its callers                                               *)

\* What the history says of the guard: what is armed was not refused anything
\* since it was armed, and a confirmation that counts is newer than any refusal.
GuardInv ==
  /\ TypeOK
  /\ guard.armed => guard.outputEnabled
  /\ guard.armed => clean
  /\ guard.exclusive => confirmed

\* An update that follows the rule keeps the history true.
LEMMA FollowingKeeps ==
  ASSUME GuardInv, NEW fine \in BOOLEAN, Follows(guard, guard', fine), History(fine)
  PROVE  /\ guard' \in GuardRecord /\ clean' \in BOOLEAN /\ confirmed' \in BOOLEAN
         /\ guard'.armed => guard'.outputEnabled
         /\ guard'.armed => clean'
         /\ guard'.exclusive => confirmed'
         /\ ~guard.armed => ~guard'.armed
  BY DEF GuardInv, TypeOK, Follows, History

LEMMA InitGuardInv == Init => GuardInv
  <1> SUFFICES ASSUME Init PROVE GuardInv
    OBVIOUS
  <1>1. PICK enabled \in BOOLEAN : guard = NewGuard(enabled)
    BY DEF Init
  <1>2. guard \in GuardRecord /\ ~guard.armed /\ ~guard.exclusive
    BY <1>1 DEF NewGuard, GuardRecord, NeverSeen
  <1>3. QED
    BY <1>2 DEF Init, GuardInv, TypeOK

\* Every step keeps the history, and a release is decided, and an arm granted,
\* only where the history allows it.
LEMMA GuardSteps ==
  ASSUME GuardInv, [Next]_vars
  PROVE  /\ GuardInv'
         /\ sending' = "release" /\ sending # "release" => clean'
         /\ ~guard.armed /\ guard'.armed => confirmed
  <1> USE TimesAssumption
  <1>0. /\ guard \in GuardRecord
        /\ {"status", "tracking", "command"} \subseteq Input
    BY DEF GuardInv, TypeOK, Input
  <1>1. CASE Inform
    <2>1. PICK good \in BOOLEAN, t \in Times :
            /\ \/ guard' = UpdateStatus(guard, good, t)
               \/ guard' = UpdateTracking(guard, good, t)
               \/ guard' = UpdateCommand(guard, good, t)
            /\ History(good /\ ValidTime(t))
      BY <1>1 DEF Inform
    <2>2. PICK i \in Input : guard' = Update(guard, i, good, t)
      BY <1>0, <2>1 DEF UpdateStatus, UpdateTracking, UpdateCommand
    <2> DEFINE fine == good /\ ValidTime(t)
    <2>3. fine \in BOOLEAN /\ Follows(guard, guard', fine) /\ History(fine)
      BY <1>0, <2>1, <2>2, UpdateFacts DEF ValidTime
    <2> HIDE DEF fine
    <2>4. QED
      BY <1>1, <2>3, FollowingKeeps DEF Inform, GuardInv, TypeOK
  <1>2. CASE InformScan
    <2>1. PICK verdict \in ScanVerdict, t \in Times, age \in -ScanFuture - 1 .. ScanTTL + 1 :
            /\ guard' = UpdateScan(guard, verdict, age, t)
            /\ History(verdict = "clear" /\ ValidTime(t) /\ age \in -ScanFuture .. ScanTTL)
      BY <1>2 DEF InformScan
    <2> DEFINE fine == verdict = "clear" /\ ValidTime(t) /\ age \in -ScanFuture .. ScanTTL
    <2>2. age \in Int
      BY <2>1, TTLAssumption
    <2>3. fine \in BOOLEAN /\ Follows(guard, guard', fine) /\ History(fine)
      BY <1>0, <2>1, <2>2, UpdateScanFacts DEF ValidTime
    <2> HIDE DEF fine
    <2>4. QED
      BY <1>2, <2>3, FollowingKeeps DEF InformScan, GuardInv, TypeOK
  <1>3. CASE Confirm
    <2>1. PICK yes \in BOOLEAN :
            guard' = SetExclusiveControl(guard, yes) /\ confirmed' = yes /\ clean' = (clean /\ yes)
      BY <1>3 DEF Confirm
    <2>2. /\ guard' \in GuardRecord /\ guard'.outputEnabled = guard.outputEnabled
          /\ guard'.exclusive = yes /\ guard'.armed = (guard.armed /\ yes)
      BY <1>0, <2>1, SetExclusiveFacts
    <2>3. QED
      BY <1>3, <2>1, <2>2 DEF Confirm, GuardInv, TypeOK
  <1>4. CASE ManualDisarm
    <2>1. Follows(guard, guard', FALSE) /\ History(FALSE)
      BY <1>0, <1>4, DisarmFacts DEF ManualDisarm, Follows
    <2>2. QED
      BY <1>4, <2>1, FollowingKeeps DEF ManualDisarm, GuardInv, TypeOK
  <1>5. CASE RequestArm
    <2>1. PICK now \in Times :
            /\ guard' = Arm(guard, now)
            /\ clean' = ArmAllowed(guard, now)
            /\ confirmed' = (confirmed /\ (ArmAllowed(guard, now) \/ ~guard.outputEnabled))
      BY <1>5 DEF RequestArm
    <2> DEFINE allowed == ArmAllowed(guard, now)
    <2>2. /\ guard' \in GuardRecord
          /\ guard'.outputEnabled = guard.outputEnabled
          /\ allowed => guard'.armed /\ guard'.exclusive /\ guard.exclusive /\ guard.outputEnabled
          /\ ~allowed =>
               \/ ~guard'.armed /\ ~guard'.exclusive
               \/ ~guard.outputEnabled /\ guard'.armed = guard.armed /\ guard'.exclusive = guard.exclusive
      BY <1>0, <2>1, ArmFacts
    <2>3. allowed \in BOOLEAN
      BY DEF ArmAllowed
    <2> HIDE DEF allowed
    <2>4. clean' = allowed /\ confirmed' = (confirmed /\ (allowed \/ ~guard.outputEnabled))
      BY <2>1 DEF allowed
    <2>5. UNCHANGED <<pendingZero, sending, robot, sendFailed>>
      BY <1>5 DEF RequestArm
    <2>6. QED
      BY <2>2, <2>3, <2>4, <2>5 DEF GuardInv, TypeOK
  <1>6. ASSUME NEW now \in Times, Decide(now)
        PROVE  /\ GuardInv'
               /\ sending' = "release" /\ sending # "release" => clean'
               /\ ~guard.armed /\ guard'.armed => confirmed
    <2> DEFINE against == ClockInvalid(guard, now) \/ (guard.outputEnabled /\ Blocked(guard, now))
    <2>1. against = Refused(now)
      <3>1. ValidTime(now) <=> ~(now < 0)
        BY <1>6 DEF ValidTime
      <3>2. QED
        BY <3>1 DEF Refused, ClockInvalid, Blocked
    <2>2. Follows(guard, guard', ~against)
      BY <1>0, <1>6, EvaluateFacts DEF Decide
    <2>3. History(~against)
      BY <1>6, <2>1 DEF Decide
    <2>4. sending' = "release" => ~against /\ guard.armed
      BY <1>6 DEF Decide, EvaluateAllowed
    <2>5. against \in BOOLEAN
      OBVIOUS
    <2> HIDE DEF against
    <2>6. /\ guard' \in GuardRecord /\ clean' \in BOOLEAN /\ confirmed' \in BOOLEAN
          /\ guard'.armed => guard'.outputEnabled
          /\ guard'.armed => clean'
          /\ guard'.exclusive => confirmed'
          /\ ~guard.armed => ~guard'.armed
      BY <2>2, <2>3, <2>5, FollowingKeeps
    <2>7. /\ pendingZero' \in BOOLEAN /\ sending' \in {"nothing", "release", "zero"}
          /\ robot' = robot /\ sendFailed' = sendFailed
      BY <1>6 DEF Decide, GuardInv, TypeOK
    <2>8. GuardInv'
      BY <2>6, <2>7 DEF GuardInv, TypeOK
    <2>9. sending' = "release" => clean'
      BY <2>3, <2>4 DEF History, GuardInv
    <2>10. QED
      BY <2>6, <2>8, <2>9
  <1>7. CASE Send
    BY <1>7 DEF Send, GuardInv, TypeOK
  <1>8. CASE SendRaises
    <2>1. Follows(guard, guard', FALSE) /\ History(FALSE)
      BY <1>0, <1>8, DisarmFacts DEF SendRaises, Follows
    <2>2. QED
      BY <1>8, <2>1, FollowingKeeps DEF SendRaises, GuardInv, TypeOK
  <1>9. CASE UNCHANGED vars
    BY <1>9 DEF vars, GuardInv, TypeOK
  <1>10. QED
    BY <1>1, <1>2, <1>3, <1>4, <1>5, <1>6, <1>7, <1>8, <1>9 DEF Next, Tick

LEMMA GuardAlways == Spec => []GuardInv
  <1>1. GuardInv /\ [Next]_vars => GuardInv'
    BY GuardSteps
  <1>2. QED
    BY <1>1, InitGuardInv, PTL DEF Spec

\* Whatever callers report and whenever, the guard stays a guard.
THEOREM GuardTypeCorrect == Spec => []TypeOK
  <1>1. GuardInv => TypeOK
    BY DEF GuardInv
  <1>2. QED
    BY <1>1, GuardAlways, PTL

\* Nothing is released unless nothing went wrong since the last successful arm.
THEOREM UnbrokenArm == Spec => ReleaseNeedsUnbrokenArm
  <1>1. GuardInv /\ [Next]_vars => [sending' = "release" /\ sending # "release" => clean']_vars
    BY GuardSteps
  <1>2. QED
    BY <1>1, GuardAlways, PTL DEF Spec, ReleaseNeedsUnbrokenArm

\* One confirmation of exclusive control never covers two arms with a fault between.
THEOREM NewConfirmation == Spec => ArmNeedsNewConfirmation
  <1>1. GuardInv /\ [Next]_vars => [~guard.armed /\ guard'.armed => confirmed]_vars
    BY GuardSteps
  <1>2. QED
    BY <1>1, GuardAlways, PTL DEF Spec, ArmNeedsNewConfirmation

\* A robot that was told to move is owed a zero, or is about to get it; only a
\* send that raised may have lost it.
MotionOwesZero == robot = "moving" => pendingZero \/ sending = "zero" \/ sendFailed

\* The safety half of StopFollows: whatever disarms the guard, and whenever, the
\* debt of a zero is not forgotten between a decision and the send after it.
THEOREM ZeroStaysOwed == Spec => []MotionOwesZero
  <1>1. Init => MotionOwesZero
    BY DEF Init, MotionOwesZero
  <1>2. GuardInv /\ MotionOwesZero /\ [Next]_vars => MotionOwesZero'
    <2> SUFFICES ASSUME GuardInv, MotionOwesZero, [Next]_vars PROVE MotionOwesZero'
      OBVIOUS
    <2>1. CASE Inform \/ InformScan \/ Confirm \/ ManualDisarm \/ RequestArm
      BY <2>1 DEF Inform, InformScan, Confirm, ManualDisarm, RequestArm, MotionOwesZero
    <2>2. ASSUME NEW now \in Times, Decide(now) PROVE MotionOwesZero'
      BY <2>2 DEF Decide, MotionOwesZero
    <2>3. CASE Send
      BY <2>3 DEF Send, MotionOwesZero, GuardInv, TypeOK
    <2>4. CASE SendRaises
      BY <2>4 DEF SendRaises, MotionOwesZero
    <2>5. CASE UNCHANGED vars
      BY <2>5 DEF vars, MotionOwesZero
    <2>6. QED
      BY <2>1, <2>2, <2>3, <2>4, <2>5 DEF Next, Tick
  <1>3. QED
    BY <1>1, <1>2, GuardAlways, PTL DEF Spec

-----------------------------------------------------------------------------
(* The two limiters                                                        *)

InRange(v) ==
  /\ v.x = 0 \/ v.x \in XDeadzone .. MaxVx
  /\ v.y = 0
  /\ v.yaw = 0 \/ Magnitude(v.yaw) \in YawDeadzone .. MaxYaw

\* Clamping yields a number between the bounds, and the number itself there.
LEMMA ClampFacts ==
  ASSUME NEW v \in Int, NEW lo \in Int, NEW hi \in Int, lo <= hi
  PROVE  /\ Clamp(v, lo, hi) \in lo .. hi
         /\ Clamp(v, lo, hi) = v \/ v \notin lo .. hi
         /\ v >= 0 /\ lo <= 0 => Clamp(v, lo, hi) <= v
  BY DEF Clamp

\* The dead zone keeps a number or drops it.
LEMMA EffectiveFacts ==
  ASSUME NEW v \in Int, NEW d \in Nat
  PROVE  /\ Effective(v, d) \in Int
         /\ Effective(v, d) = 0 \/ (Effective(v, d) = v /\ Magnitude(v) >= d)
         /\ Effective(Effective(v, d), d) = Effective(v, d)
  BY DEF Effective, Magnitude

\* core._limit produces a velocity in the effective range of the gait.
LEMMA LimitFacts ==
  ASSUME NEW v \in Velocity
  PROVE  Limit(v) \in Velocity /\ InRange(Limit(v))
  <1>1. v.x \in Int /\ v.yaw \in Int
    BY DEF Velocity
  <1> DEFINE cx == Clamp(v.x, 0, MaxVx)
             cw == Clamp(v.yaw, -MaxYaw, MaxYaw)
  <1>2. cx \in 0 .. MaxVx /\ cw \in -MaxYaw .. MaxYaw
    BY <1>1, LimitAssumption DEF Clamp
  <1>3. Limit(v) = [x |-> Effective(cx, XDeadzone), y |-> 0, yaw |-> Effective(cw, YawDeadzone)]
    BY DEF Limit
  <1> HIDE DEF cx, cw
  <1>4. /\ Effective(cx, XDeadzone) = 0 \/ Effective(cx, XDeadzone) \in XDeadzone .. MaxVx
        /\ Effective(cx, XDeadzone) \in Int
    BY <1>2, LimitAssumption DEF Effective, Magnitude
  <1>5. /\ \/ Effective(cw, YawDeadzone) = 0
           \/ Magnitude(Effective(cw, YawDeadzone)) \in YawDeadzone .. MaxYaw
        /\ Effective(cw, YawDeadzone) \in Int
    BY <1>2, LimitAssumption DEF Effective, Magnitude
  <1>6. QED
    BY <1>3, <1>4, <1>5 DEF Velocity, InRange

\* On a velocity in range nav_sender._limit changes nothing.
LEMMA SenderKeeps ==
  ASSUME NEW v \in Velocity, InRange(v)
  PROVE  SenderLimit(v.x, v.yaw) = v
  <1> DEFINE x == v.x
             w == v.yaw
  <1>1. /\ x \in Int /\ w \in Int /\ v = [x |-> x, y |-> 0, yaw |-> w]
        /\ x = 0 \/ x \in XDeadzone .. MaxVx
        /\ w = 0 \/ Magnitude(w) \in YawDeadzone .. MaxYaw
    BY DEF Velocity, InRange
  <1> HIDE DEF x, w
  <1>2. SenderLimit(x, w) = [x |-> x, y |-> 0, yaw |-> w]
    BY <1>1, LimitAssumption DEF SenderLimit, Magnitude
  <1>3. QED
    BY <1>1, <1>2 DEF x, w

\* The two limiters, which share no code, agree on everything that is released.
THEOREM LimitersAgree ==
  \A v \in Velocity : SenderLimit(Limit(v).x, Limit(v).yaw) = Limit(v)
  BY LimitFacts, SenderKeeps

LimitInv ==
  /\ LimitTypeOK
  /\ InRange(released) /\ InRange(wire)
  /\ WireIsReleased

\* Nothing but zeros and effective, bounded, forward velocities is published.
LEMMA LimitInductive ==
  /\ LimitInit => LimitInv
  /\ LimitInv /\ [LimitNext]_limitVars => LimitInv'
  <1>1. Zero \in Velocity /\ InRange(Zero)
    BY DEF Zero, Velocity, InRange
  <1>2. LimitInit => LimitInv
    BY <1>1 DEF LimitInit, LimitInv, LimitTypeOK, WireIsReleased
  <1>3. ASSUME LimitInv, [LimitNext]_limitVars PROVE LimitInv'
    <2>1. CASE NewCommand
      <3>1. command' \in Velocity
        BY <2>1, LimitAssumption DEF NewCommand, Velocity
      <3>2. released' = released /\ wire' = wire
        BY <2>1 DEF NewCommand
      <3>3. QED
        BY <1>3, <3>1, <3>2 DEF LimitInv, LimitTypeOK, WireIsReleased, InRange
    <2>2. CASE ReleaseCommand
      <3>1. released' = Limit(command) /\ command' = command /\ command \in Velocity
        BY <1>3, <2>2 DEF ReleaseCommand, LimitInv, LimitTypeOK
      <3>2. released' \in Velocity /\ InRange(released')
        BY <3>1, LimitFacts
      <3>3. wire' = released'
        BY <2>2, <3>2, SenderKeeps DEF ReleaseCommand
      <3>4. QED
        BY <1>3, <3>1, <3>2, <3>3 DEF LimitInv, LimitTypeOK, WireIsReleased, InRange
    <2>3. CASE SendZero
      <3>1. released' = released /\ command' = command
        BY <2>3 DEF SendZero
      <3>2. wire' = Zero
        <4>1. SenderLimit(Zero.x, Zero.yaw) = Zero
          BY <1>1, SenderKeeps
        <4>2. Zero.x = 0 /\ Zero.yaw = 0
          BY DEF Zero
        <4>3. QED
          BY <2>3, <4>1, <4>2 DEF SendZero
      <3>3. QED
        BY <1>1, <1>3, <3>1, <3>2 DEF LimitInv, LimitTypeOK, WireIsReleased, InRange
    <2>4. CASE UNCHANGED limitVars
      BY <1>3, <2>4 DEF LimitInv, LimitTypeOK, WireIsReleased, InRange, limitVars
    <2>5. QED
      BY <1>3, <2>1, <2>2, <2>3, <2>4 DEF LimitNext
  <1>4. QED
    BY <1>2, <1>3

\* The limiters turn velocities into velocities, whatever the raw command.
THEOREM LimitTypeCorrect == LimitSpec => []LimitTypeOK
  <1>1. LimitInv => LimitTypeOK
    BY DEF LimitInv
  <1>2. QED
    BY <1>1, LimitInductive, PTL DEF LimitSpec

\* Whatever is asked for, /NAV_CMD carries only zeros and effective forward or
\* turning speeds within the limits.
THEOREM RangeHolds == LimitSpec => []WireInRange
  <1>1. LimitInv => WireInRange
    BY DEF LimitInv, InRange, WireInRange
  <1>2. QED
    BY <1>1, LimitInductive, PTL DEF LimitSpec

\* What a decision reports as released is what was published, or a zero was.
THEOREM ReportIsHonest == LimitSpec => []WireIsReleased
  <1>1. LimitInv => WireIsReleased
    BY DEF LimitInv
  <1>2. QED
    BY <1>1, LimitInductive, PTL DEF LimitSpec
=============================================================================
