--------------------------- MODULE OperatorProofs ---------------------------
(***************************************************************************)
(* Proofs about the operator's way to the robot: the bridge with its lease *)
(* and its gate (OperatorBridge), for every set of clients, every choice   *)
(* of timeouts and every way of starting the bridge, and the gateway in    *)
(* front of it (OperatorServer), for every set of requests and all waiting *)
(* times.  The two modules share no state.                                 *)
(***************************************************************************)
EXTENDS OperatorBridge, OperatorServer, TLAPS

GateRecord == OperatorGuardRecord(Motion)

-----------------------------------------------------------------------------
(* What the methods of the gate may do to its arm and its latched command  *)

Kept(g, h) == h.armed = g.armed /\ h.command = g.command /\ h.commandAt = g.commandAt

Dropped(h) == ~h.armed /\ h.command = Zero

\* A disarm drops the latched command.
LEMMA DisarmFacts ==
  ASSUME NEW g \in GateRecord
  PROVE  Disarm(g) \in GateRecord /\ Dropped(Disarm(g))
  <1>1. {} \in SUBSET Motion /\ -1 \in Int
    OBVIOUS
  <1>2. g \in [armed : BOOLEAN, selected : BOOLEAN, fit : BOOLEAN, statusAt : Int,
               scanClear : BOOLEAN, scanAt : Int, streak : 0 .. StopHits,
               command : SUBSET Motion, commandAt : Int]
    BY DEF GateRecord, OperatorGuardRecord
  <1>3. Disarm(g) = [g EXCEPT !.armed = FALSE, !.command = {}, !.commandAt = -1]
    BY DEF Disarm, Zero, Never
  <1>4. Disarm(g) \in [armed : BOOLEAN, selected : BOOLEAN, fit : BOOLEAN, statusAt : Int,
                       scanClear : BOOLEAN, scanAt : Int, streak : 0 .. StopHits,
                       command : SUBSET Motion, commandAt : Int]
    BY <1>1, <1>2, <1>3
  <1>5. Disarm(g).armed = FALSE /\ Disarm(g).command = {}
    BY <1>2, <1>3
  <1>6. QED
    BY <1>4, <1>5 DEF GateRecord, OperatorGuardRecord, Dropped, Zero

\* A status, whatever it says, never arms and latches nothing.
LEMMA UpdateStatusFacts ==
  ASSUME NEW g \in GateRecord, NEW s \in Status, NEW t \in Int
  PROVE  LET h == UpdateStatus(g, s, t)
         IN  h \in GateRecord /\ (Kept(g, h) \/ Dropped(h))
  <1> DEFINE h == [g EXCEPT !.selected = s.selected, !.fit = s.fit,
                            !.statusAt = IF s.complete THEN t ELSE @]
  <1>1. s.selected \in BOOLEAN /\ s.fit \in BOOLEAN /\ s.complete \in BOOLEAN
    <2>1. CASE s = [complete |-> FALSE, selected |-> FALSE, fit |-> FALSE]
      BY <2>1
    <2>2. CASE s \in [complete : {TRUE}, selected : BOOLEAN, fit : BOOLEAN]
      BY <2>2
    <2>3. QED
      BY <2>1, <2>2 DEF Status
  <1>2. h \in GateRecord /\ Kept(g, h)
    BY <1>1 DEF GateRecord, OperatorGuardRecord, Kept
  <1>3. UpdateStatus(g, s, t) = IF s.fit THEN h ELSE Disarm(h)
    BY DEF UpdateStatus
  <1> HIDE DEF h
  <1>4. QED
    BY <1>2, <1>3, DisarmFacts

\* Nor does a scan.
LEMMA UpdateScanFacts ==
  ASSUME NEW g \in GateRecord, NEW valid \in BOOLEAN, NEW clear \in BOOLEAN, NEW t \in Int
  PROVE  LET h == UpdateScan(g, valid, clear, t)
         IN  h \in GateRecord /\ (Kept(g, h) \/ Dropped(h))
  <1> DEFINE hit == valid /\ ~clear
             streak == IF ~hit THEN 0 ELSE IF g.streak < StopHits THEN g.streak + 1 ELSE StopHits
             h == [g EXCEPT !.scanClear = valid /\ clear,
                            !.scanAt = IF valid THEN t ELSE @,
                            !.streak = streak]
             fine == (valid /\ clear) \/ (hit /\ streak < StopHits)
  <1>1. streak \in 0 .. StopHits
    BY OperatorGuardAssumption DEF GateRecord, OperatorGuardRecord
  <1>2. UpdateScan(g, valid, clear, t) = IF fine THEN h ELSE Disarm(h)
    BY DEF UpdateScan
  <1> HIDE DEF streak, fine
  <1>3. h \in GateRecord /\ Kept(g, h)
    BY <1>1 DEF GateRecord, OperatorGuardRecord, Kept
  <1> HIDE DEF h
  <1>4. QED
    BY <1>2, <1>3, DisarmFacts

\* A command is latched only while armed; its time is noted anyway.
LEMMA UpdateCommandFacts ==
  ASSUME NEW g \in GateRecord, NEW velocity \in SUBSET Motion, NEW t \in Int
  PROVE  LET h == UpdateCommand(g, velocity, t)
         IN  /\ h \in GateRecord
             /\ h.armed = g.armed
             /\ g.armed => h.command = velocity
             /\ ~g.armed => h.command = g.command
             /\ h.commandAt = t
  BY DEF UpdateCommand, GateRecord, OperatorGuardRecord

\* An arm that is granted starts from a standstill; one that is refused disarms.
LEMMA ArmFacts ==
  ASSUME NEW g \in GateRecord, NEW need \in BOOLEAN, NEW t \in Int
  PROVE  Arm(g, need, t) \in GateRecord /\ Arm(g, need, t).command = Zero
  <1>1. CASE ArmProblem(g, need, t)
    BY <1>1, DisarmFacts DEF Arm, Dropped
  <1>2. CASE ~ArmProblem(g, need, t)
    BY <1>2 DEF Arm, GateRecord, OperatorGuardRecord, Zero
  <1>3. QED
    BY <1>1, <1>2

\* What passes passes unchanged and in time; everything else disarms.
LEMMA OutputFacts ==
  ASSUME NEW g \in GateRecord, NEW t \in Int
  PROVE  LET h == Output(g, t)
         IN  /\ h \in GateRecord
             /\ Kept(g, h) \/ Dropped(h)
             /\ h.armed => g.armed /\ h.command = g.command /\ t - g.commandAt <= CommandTimeout
  <1>1. CASE g.armed /\ OutputProblem(g, t)
    BY <1>1, DisarmFacts DEF Output, Dropped
  <1>2. CASE ~(g.armed /\ OutputProblem(g, t))
    <2>1. Output(g, t) = g
      BY <1>2 DEF Output
    <2>2. g.armed => t - g.commandAt <= CommandTimeout
      BY <1>2, OperatorGuardAssumption
      DEF OutputProblem, CommandProblem, Stale, GateRecord, OperatorGuardRecord
    <2>3. QED
      BY <2>1, <2>2 DEF Kept
  <1>3. QED
    BY <1>1, <1>2

-----------------------------------------------------------------------------
(* What the operations of the lease may do to the pair of lease and gate   *)

Pairs == [control : Control, guard : GateRecord]

SameLease(p, q) ==
  /\ q.control.preview = p.control.preview
  /\ q.control.owner = p.control.owner
  /\ q.control.mode = p.control.mode
  /\ q.control.session = p.control.session

SameInput(p, q) == q.control.lastInput = p.control.lastInput

\* The lease allows driving at time t.
Lives(p, t) ==
  /\ p.control.owner # Nobody
  /\ t - p.control.lastInput <= LeaseTimeout
  /\ p.control.preview \/ p.guard.armed

\* What is latched belongs to the lease, and in direct mode it had waited in the
\* queue for no longer than its expiry when it was latched.
Fits(p) ==
  \A m \in p.guard.command :
    /\ m.by = p.control.owner
    /\ m.session = p.control.session
    /\ p.control.mode # "follow" => p.guard.commandAt - m.at <= DrainExpiry

\* Nothing is latched in a gate that is not armed.
Still(p) == ~p.guard.armed => p.guard.command = Zero

\* With the gateway only a live lease arms.
ArmedByLease(p) == p.guard.armed => p.control.owner # Nobody /\ ~p.control.preview

\* The ways in which an operation changes a pair
Rests(p, q) == SameLease(p, q) /\ SameInput(p, q) /\ Kept(p.guard, q.guard)

Loses(p, q) == SameLease(p, q) /\ SameInput(p, q) /\ Dropped(q.guard)

Calms(p, q) ==
  /\ SameLease(p, q) /\ SameInput(p, q)
  /\ q.guard.armed = p.guard.armed
  /\ q.guard.command = Zero

Ends(p, q) ==
  /\ q.control.preview = p.control.preview
  /\ q.control.session = p.control.session
  /\ q.control.owner = Nobody
  /\ Dropped(q.guard)

Starts(p, q, t) ==
  /\ ~Lives(p, t)
  /\ q.control.preview = p.control.preview
  /\ q.control.session = p.control.session + 1
  /\ q.control.owner \in Clients
  /\ q.control.lastInput = t
  /\ q.guard.armed = ~q.control.preview
  /\ q.guard.command = Zero

Drives(p, q, t) ==
  /\ Lives(p, t)
  /\ SameLease(p, q)
  /\ q.control.lastInput \in {p.control.lastInput, t}
  /\ q.guard.armed = p.guard.armed
  /\ Kept(p.guard, q.guard) \/ (q.guard.armed /\ Fits(q))

\* Stopping ends the lease and disarms.
LEMMA StopControlFacts ==
  ASSUME NEW p \in Pairs
  PROVE  LET q == StopControl(p)
         IN  /\ q \in Pairs
             /\ Ends(p, q)
             /\ q.control.sequences = p.control.sequences
             /\ q.guard = Disarm(p.guard)
  <1>1. p.control \in Control /\ p.guard \in GateRecord
    BY DEF Pairs
  <1> DEFINE c == [p.control EXCEPT !.owner = Nobody, !.mode = "stopped"]
  <1>2. /\ c \in Control /\ c.preview = p.control.preview /\ c.session = p.control.session
        /\ c.owner = Nobody /\ c.sequences = p.control.sequences
    BY <1>1 DEF Control, Source
  <1>3. StopControl(p) = [control |-> c, guard |-> Disarm(p.guard)]
    BY DEF StopControl, Pair
  <1> HIDE DEF c
  <1>4. QED
    BY <1>1, <1>2, <1>3, DisarmFacts DEF Pairs, Ends

\* The look at the lease leaves a living one alone and ends any other.
LEMMA ControlTickFacts ==
  ASSUME NEW p \in Pairs, NEW t \in Int
  PROVE  LET q == ControlTick(p, t)
         IN  /\ q \in Pairs
             /\ q.control.sequences = p.control.sequences
             /\ \/ q = p /\ (p.control.owner # Nobody => Lives(p, t))
                \/ /\ Ends(p, q)
                   /\ q.guard = Disarm(p.guard)
                   /\ ~Lives(p, t) \/ (p.control.preview /\ ScanProblem(p.guard, t))
  <1>1. p.control.lastInput \in Int /\ LeaseTimeout \in Int
    BY ControlAssumption DEF Pairs, Control
  <1>2. CASE LeaseEnded(p, t)
    <2>1. ~Lives(p, t) \/ (p.control.preview /\ ScanProblem(p.guard, t))
      BY <1>1, <1>2 DEF LeaseEnded, Lives
    <2>2. QED
      BY <1>2, <2>1, StopControlFacts DEF ControlTick
  <1>3. CASE ~LeaseEnded(p, t)
    <2>1. p.control.owner # Nobody => Lives(p, t)
      BY <1>1, <1>3 DEF LeaseEnded, Lives
    <2>2. QED
      BY <1>3, <2>1 DEF ControlTick
  <1>4. QED
    BY <1>2, <1>3

Asking == [client : Clients, seq : Nat, op : Op, received : Nat]

\* A request's number is noted before anything else, and nothing else is.
LEMMA NotedFacts ==
  ASSUME NEW p \in Pairs, NEW r \in Asking
  PROVE  LET q == Pair(Noted(p.control, r), p.guard)
         IN  q \in Pairs /\ Rests(p, q) /\ q.guard = p.guard
  <1>1. CASE Full(p.control, r.client)
    BY <1>1 DEF Noted, Pair, Pairs, Rests, SameLease, SameInput, Kept
  <1>2. CASE ~Full(p.control, r.client)
    <2> DEFINE c == Noted(p.control, r)
    <2>1. c = [p.control EXCEPT !.sequences = [p.control.sequences EXCEPT ![r.client] = r.seq]]
      BY <1>2 DEF Noted, Pairs, Control
    <2>2. [p.control.sequences EXCEPT ![r.client] = r.seq] \in [Clients -> Int]
      BY DEF Pairs, Control, Asking
    <2>3. /\ c \in Control /\ c.preview = p.control.preview /\ c.session = p.control.session
          /\ c.owner = p.control.owner /\ c.mode = p.control.mode
          /\ c.lastInput = p.control.lastInput
      BY <2>1, <2>2 DEF Pairs, Control
    <2>4. Pair(Noted(p.control, r), p.guard) = [control |-> c, guard |-> p.guard]
      BY DEF Pair
    <2> HIDE DEF c
    <2>5. QED
      BY <2>3, <2>4 DEF Pairs, Rests, SameLease, SameInput, Kept
  <1>3. QED
    BY <1>1, <1>2

\* A start is granted to a client, under a new number and from a standstill, or
\* the gate stays disarmed.
LEMMA StartControlFacts ==
  ASSUME NEW p \in Pairs, NEW r \in Asking, NEW t \in Int, r.op \in Start,
         Still(p), ArmedByLease(p), p.control.owner = Nobody
  PROVE  LET q == StartControl(p, r, t)
         IN  /\ q \in Pairs
             /\ \/ Starts(p, q, t) /\ q.control.owner = r.client
                \/ q.control = p.control /\ Dropped(q.guard)
  <1> DEFINE armed == IF p.control.preview THEN p.guard ELSE Arm(p.guard, FALSE, t)
             after == [p.control EXCEPT !.owner = r.client, !.mode = r.op,
                                        !.session = @ + 1, !.lastInput = t]
  <1>1. /\ p.control \in Control /\ p.guard \in GateRecord
        /\ ~p.guard.armed /\ p.guard.command = Zero /\ ~Lives(p, t)
    BY DEF Pairs, Still, ArmedByLease, Lives
  <1>2. /\ after \in Control /\ after.preview = p.control.preview /\ after.session = p.control.session + 1
        /\ after.owner = r.client /\ after.lastInput = t
    <2>1. /\ r.client \in Source /\ r.op \in {"stopped"} \cup Start
          /\ p.control.session + 1 \in Nat /\ t \in Int
      BY <1>1 DEF Control, Source, Asking
    <2>2. after = [p.control EXCEPT !.owner = r.client, !.mode = r.op,
                                    !.session = p.control.session + 1, !.lastInput = t]
      BY <1>1 DEF Control
    <2>3. QED
      BY <1>1, <2>1, <2>2 DEF Control
  <1>3. /\ armed \in GateRecord /\ armed.command = Zero
        /\ p.control.preview => ~armed.armed
    BY <1>1, ArmFacts
  <1>4. StartControl(p, r, t) = IF p.control.preview \/ armed.armed THEN [control |-> after, guard |-> armed]
                                ELSE [control |-> p.control, guard |-> armed]
    BY DEF StartControl, Pair
  <1>5. r.client \in Clients /\ p.control.preview \in BOOLEAN /\ armed.armed \in BOOLEAN
    BY <1>1, <1>3 DEF Asking, Control, GateRecord, OperatorGuardRecord
  <1> HIDE DEF armed, after
  <1>6. CASE p.control.preview \/ armed.armed
    <2>1. StartControl(p, r, t) = [control |-> after, guard |-> armed]
      BY <1>4, <1>6
    <2>2. QED
      BY <1>1, <1>2, <1>3, <1>5, <1>6, <2>1 DEF Starts, Pairs
  <1>7. CASE ~(p.control.preview \/ armed.armed)
    <2>1. StartControl(p, r, t) = [control |-> p.control, guard |-> armed]
      BY <1>4, <1>7
    <2>2. QED
      BY <1>1, <1>3, <1>7, <2>1 DEF Pairs, Dropped
  <1>8. QED
    BY <1>6, <1>7

\* The owner's heartbeat and velocities keep the lease alive; a velocity is latched
\* under the owner's name and session.
LEMMA KeepAliveFacts ==
  ASSUME NEW p \in Pairs, NEW r \in Asking, NEW t \in Int,
         Still(p), Lives(p, t), MayDrive(p, r), t - r.received <= DrainExpiry
  PROVE  LET q == KeepAlive(p, r, t)
         IN  q \in Pairs /\ Drives(p, q, t) /\ q.control.sequences = p.control.sequences
  <1> DEFINE latches == r.op \in Steer /\ ~p.control.preview
             gate == IF latches THEN UpdateCommand(p.guard, Asked(p, r), t) ELSE p.guard
             after == [p.control EXCEPT !.lastInput = t]
  <1>1. p.control \in Control /\ p.guard \in GateRecord
    BY DEF Pairs
  <1>2. /\ after \in Control /\ after.preview = p.control.preview /\ after.session = p.control.session
        /\ after.owner = p.control.owner /\ after.mode = p.control.mode /\ after.lastInput = t
        /\ after.sequences = p.control.sequences
    BY <1>1 DEF Control
  <1>3. Asked(p, r) \in SUBSET Motion
    BY <1>1 DEF Asked, Motions, Motion, Source, Asking, Control, Zero
  <1>4. \A m \in Asked(p, r) : m.by = r.client /\ m.session = p.control.session /\ m.at = r.received
    BY DEF Asked, Motions, Zero
  <1>5. gate \in GateRecord /\ gate.armed = p.guard.armed
    BY <1>1, <1>3, UpdateCommandFacts
  <1>6. CASE latches
    <2>1. gate.armed /\ gate.command = Asked(p, r) /\ gate.commandAt = t
      BY <1>1, <1>3, <1>6, UpdateCommandFacts DEF Lives
    <2>2. p.control.owner = r.client
      BY DEF MayDrive
    <2> DEFINE q == [control |-> after, guard |-> gate]
    <2>3. KeepAlive(p, r, t) = q
      BY <1>6 DEF KeepAlive, Pair
    <2> HIDE DEF gate, after, latches
    <2>4. Fits(q)
      BY <1>2, <1>4, <2>1, <2>2 DEF Fits
    <2>5. q \in Pairs /\ Drives(p, q, t) /\ q.control.sequences = p.control.sequences
      BY <1>1, <1>2, <1>5, <2>1, <2>4 DEF Pairs, Drives, SameLease
    <2>6. QED
      BY <2>3, <2>5
  <1>7. CASE ~latches
    <2>1. KeepAlive(p, r, t) = [control |-> after, guard |-> p.guard]
      BY <1>7 DEF KeepAlive, Pair
    <2> HIDE DEF after
    <2>2. QED
      BY <1>1, <1>2, <2>1 DEF Pairs, Drives, SameLease, Kept
  <1>8. QED
    BY <1>6, <1>7

\* What a request may do to the pair, its number apart.
Changes(p, q, t) == Rests(p, q) \/ Loses(p, q) \/ Ends(p, q) \/ Starts(p, q, t) \/ Drives(p, q, t)

\* A request is served as if the lease had been looked at just before: it can end
\* a lease, start one where none lives, or drive one that lives.
LEMMA HandleFacts ==
  ASSUME NEW p0 \in Pairs, NEW r \in Asking, NEW t \in Int,
         Still(p0), ArmedByLease(p0), t - r.received <= DrainExpiry
  PROVE  LET q == Handle(p0, r, t)
         IN  q \in Pairs /\ Changes(p0, q, t)
  <1> DEFINE p == ControlTick(p0, t)
             q == Pair(Noted(p.control, r), p.guard)
             old == Replayed(p.control, r)
  <1>1. /\ p \in Pairs
        /\ \/ p = p0 /\ (p0.control.owner # Nobody => Lives(p0, t))
           \/ /\ Ends(p0, p)
              /\ p.guard = Disarm(p0.guard)
              /\ ~Lives(p0, t) \/ (p0.control.preview /\ ScanProblem(p0.guard, t))
    BY ControlTickFacts
  <1>2. Still(p) /\ ArmedByLease(p) /\ (p.control.owner # Nobody => p = p0 /\ Lives(p, t))
    BY <1>1 DEF Still, ArmedByLease, Ends, Dropped
  <1>3. /\ Handle(p0, r, t) = CASE old -> p
                             [] ~old /\ r.op = "stop" -> StopControl(q)
                             [] ~old /\ r.op \in Start /\ MayStart(p, r, t) -> StartControl(q, r, t)
                             [] ~old /\ r.op \in Steer \cup {"heartbeat"} /\ MayDrive(p, r)
                                  -> KeepAlive(q, r, t)
                             [] OTHER -> q
    BY DEF Handle
  <1> HIDE DEF p
  <1>4. q \in Pairs /\ Rests(p, q) /\ q.guard = p.guard
    BY <1>1, NotedFacts
  <1> HIDE DEF q, old
  <1>5. Rests(p0, p) \/ Ends(p0, p)
    BY <1>1 DEF Rests, SameLease, SameInput, Kept
  <1>6. Rests(p0, q) \/ Ends(p0, q)
    BY <1>4, <1>5 DEF Rests, Ends, SameLease, SameInput, Kept, Dropped
  <1>7. Still(q) /\ ArmedByLease(q) /\ (p.control.owner # Nobody => Lives(q, t))
    BY <1>2, <1>4 DEF Still, ArmedByLease, Lives, Rests, SameLease, SameInput, Kept
  <1>8. CASE old
    BY <1>1, <1>3, <1>5, <1>8 DEF Changes
  <1>9. CASE ~old /\ r.op = "stop"
    <2>1. Handle(p0, r, t) = StopControl(q)
      BY <1>3, <1>9 DEF Start, Steer
    <2>2. StopControl(q) \in Pairs /\ Ends(q, StopControl(q))
      BY <1>4, StopControlFacts
    <2>3. Ends(p0, StopControl(q))
      BY <1>6, <2>2 DEF Rests, Ends, SameLease
    <2>4. QED
      BY <2>1, <2>2, <2>3 DEF Changes
  <1>10. CASE ~old /\ r.op \in Start /\ MayStart(p, r, t)
    <2>1. Handle(p0, r, t) = StartControl(q, r, t)
      BY <1>3, <1>10 DEF Start, Steer
    <2> DEFINE h == StartControl(q, r, t)
    <2>2. q.control.owner = Nobody
      BY <1>4, <1>10 DEF MayStart, Rests, SameLease
    <2>3. h \in Pairs /\ (Starts(q, h, t) \/ (h.control = q.control /\ Dropped(h.guard)))
      BY <1>4, <1>7, <1>10, <2>2, StartControlFacts
    <2> HIDE DEF h
    <2>4. CASE h.control = q.control /\ Dropped(h.guard)
      <3>1. Loses(p0, h) \/ Ends(p0, h)
        BY <1>6, <2>4 DEF Rests, Loses, Ends, SameLease, SameInput
      <3>2. QED
        BY <2>1, <2>3, <3>1 DEF Changes, h
    <2>5. CASE Starts(q, h, t)
      <3>1. CASE Rests(p0, q)
        <4>1. Starts(p0, h, t)
          BY <2>5, <3>1 DEF Rests, Starts, SameLease, SameInput, Lives, Kept
        <4>2. QED
          BY <2>1, <2>3, <4>1 DEF Changes, h
      <3>2. CASE Ends(p0, q) /\ ~Rests(p0, q)
        <4>1. Ends(p0, p) /\ p # p0
          BY <1>4, <1>5, <3>2 DEF Rests, SameLease, SameInput, Kept
        <4>2. p0.control.preview => ~ScanProblem(Disarm(p0.guard), t)
          BY <1>1, <1>10, <4>1 DEF MayStart, Ends
        <4>3. ScanProblem(Disarm(p0.guard), t) = ScanProblem(p0.guard, t)
          BY DEF ScanProblem, Disarm, Pairs, GateRecord, OperatorGuardRecord
        <4>4. ~Lives(p0, t)
          BY <1>1, <4>1, <4>2, <4>3
        <4>5. Starts(p0, h, t)
          BY <2>5, <3>2, <4>4 DEF Ends, Starts
        <4>6. QED
          BY <2>1, <2>3, <4>5 DEF Changes, h
      <3>3. QED
        BY <1>6, <3>1, <3>2
    <2>6. QED
      BY <2>3, <2>4, <2>5
  <1>11. CASE ~old /\ r.op \in Steer \cup {"heartbeat"} /\ MayDrive(p, r)
    <2>1. Handle(p0, r, t) = KeepAlive(q, r, t)
      BY <1>3, <1>11 DEF Steer, Start
    <2>2. p.control.owner # Nobody
      BY <1>11, ControlAssumption DEF MayDrive, Asking
    <2>3. MayDrive(q, r)
      BY <1>4, <1>11 DEF MayDrive, Rests, SameLease
    <2>4. KeepAlive(q, r, t) \in Pairs /\ Drives(q, KeepAlive(q, r, t), t)
      BY <1>4, <1>7, <2>2, <2>3, KeepAliveFacts
    <2>5. Rests(p0, q)
      BY <1>2, <1>4, <2>2
    <2>6. Drives(p0, KeepAlive(q, r, t), t)
      BY <2>4, <2>5 DEF Drives, Rests, SameLease, SameInput, Kept, Lives
    <2>7. QED
      BY <2>1, <2>4, <2>6 DEF Changes
  <1>12. CASE /\ ~old /\ r.op # "stop"
              /\ ~(r.op \in Start /\ MayStart(p, r, t))
              /\ ~(r.op \in Steer \cup {"heartbeat"} /\ MayDrive(p, r))
    <2>1. Handle(p0, r, t) = q
      BY <1>3, <1>12
    <2>2. QED
      BY <1>4, <1>6, <2>1 DEF Changes
  <1>13. QED
    BY <1>8, <1>9, <1>10, <1>11, <1>12

\* The number of a request is noted unless it is old or there is no room for it,
\* and only a start whose number is new gives a new session, to its client.
LEMMA HandleNumbers ==
  ASSUME NEW p0 \in Pairs, NEW r \in Asking, NEW t \in Int
  PROVE  LET q == Handle(p0, r, t)
         IN  /\ q.control.sequences =
                  IF Replayed(p0.control, r) \/ Full(p0.control, r.client) THEN p0.control.sequences
                  ELSE [p0.control.sequences EXCEPT ![r.client] = r.seq]
             /\ q.control.session # p0.control.session =>
                  /\ ~Replayed(p0.control, r) /\ ~Full(p0.control, r.client)
                  /\ q.control.owner = r.client
  <1> DEFINE p == ControlTick(p0, t)
             q == Pair(Noted(p.control, r), p.guard)
             old == Replayed(p.control, r)
             numbers == IF old \/ Full(p.control, r.client) THEN p.control.sequences
                        ELSE [p.control.sequences EXCEPT ![r.client] = r.seq]
  <1>1. /\ p \in Pairs /\ p.control.sequences = p0.control.sequences
        /\ p.control.session = p0.control.session
    BY ControlTickFacts DEF Ends
  <1>2. /\ old = Replayed(p0.control, r)
        /\ Full(p.control, r.client) = Full(p0.control, r.client)
    BY <1>1 DEF Replayed, Full
  <1>3. Handle(p0, r, t) = CASE old -> p
                          [] ~old /\ r.op = "stop" -> StopControl(q)
                          [] ~old /\ r.op \in Start /\ MayStart(p, r, t) -> StartControl(q, r, t)
                          [] ~old /\ r.op \in Steer \cup {"heartbeat"} /\ MayDrive(p, r)
                               -> KeepAlive(q, r, t)
                          [] OTHER -> q
    BY DEF Handle
  <1>4. old \in BOOLEAN /\ Full(p.control, r.client) \in BOOLEAN
    BY DEF Replayed, Full
  <1> HIDE DEF p
  <1>5. q \in Pairs /\ q.control.session = p.control.session
    BY <1>1, NotedFacts DEF Rests, SameLease
  <1>6. ~old => q.control.sequences = numbers
    BY <1>1 DEF Noted, Pair, Pairs, Control
  <1> HIDE DEF q, old
  <1>7. CASE old
    BY <1>1, <1>2, <1>3, <1>7
  <1>8. CASE ~old /\ r.op = "stop"
    <2>1. Handle(p0, r, t) = StopControl(q)
      BY <1>3, <1>8 DEF Start, Steer
    <2>2. QED
      BY <1>1, <1>2, <1>5, <1>6, <1>8, <2>1, StopControlFacts DEF Ends
  <1>9. CASE ~old /\ r.op \in Start /\ MayStart(p, r, t)
    <2>1. Handle(p0, r, t) = StartControl(q, r, t)
      BY <1>3, <1>9 DEF Start, Steer
    <2>2. ~Full(p.control, r.client)
      BY <1>9 DEF old, Replayed, Start
    <2>3. /\ StartControl(q, r, t).control.sequences = q.control.sequences
          /\ \/ StartControl(q, r, t).control.session = q.control.session
             \/ StartControl(q, r, t).control.owner = r.client
      BY <1>5 DEF StartControl, Pair, Pairs, Control
    <2>4. QED
      BY <1>1, <1>2, <1>5, <1>6, <1>9, <2>1, <2>2, <2>3
  <1>10. CASE ~old /\ r.op \in Steer \cup {"heartbeat"} /\ MayDrive(p, r)
    <2>1. Handle(p0, r, t) = KeepAlive(q, r, t)
      BY <1>3, <1>10 DEF Steer, Start
    <2>2. /\ KeepAlive(q, r, t).control.sequences = q.control.sequences
          /\ KeepAlive(q, r, t).control.session = q.control.session
      BY <1>5 DEF KeepAlive, Pair, Pairs, Control
    <2>3. QED
      BY <1>1, <1>2, <1>5, <1>6, <1>10, <2>1, <2>2
  <1>11. CASE /\ ~old /\ r.op # "stop"
              /\ ~(r.op \in Start /\ MayStart(p, r, t))
              /\ ~(r.op \in Steer \cup {"heartbeat"} /\ MayDrive(p, r))
    BY <1>1, <1>2, <1>3, <1>5, <1>6, <1>11
  <1>12. QED
    BY <1>7, <1>8, <1>9, <1>10, <1>11

\* A velocity of the follow node is latched under a living lease or not at all.
LEMMA FollowCommandFacts ==
  ASSUME NEW p0 \in Pairs, NEW velocity \in SUBSET Motion, NEW t \in Int,
         Still(p0), ArmedByLease(p0), p0.control.mode = "follow",
         \A m \in velocity : m.by = p0.control.owner /\ m.session = p0.control.session
  PROVE  LET q == FollowCommand(p0, velocity, t)
         IN  /\ q \in Pairs
             /\ Rests(p0, q) \/ Ends(p0, q) \/ Drives(p0, q, t)
             /\ q.control.sequences = p0.control.sequences
  <1> DEFINE p == ControlTick(p0, t)
             drives == p.control.owner # Nobody /\ p.control.mode = "follow" /\ ~p.control.preview
  <1>1. /\ p \in Pairs /\ p.control.sequences = p0.control.sequences
        /\ (p = p0 /\ (p0.control.owner # Nobody => Lives(p0, t))) \/ Ends(p0, p)
    BY ControlTickFacts
  <1>2. CASE drives
    <2>1. p = p0 /\ Lives(p0, t) /\ p0.guard.armed
      BY <1>1, <1>2 DEF Ends, Lives
    <2> DEFINE gate == UpdateCommand(p0.guard, velocity, t)
               q == [control |-> p0.control, guard |-> gate]
    <2>2. FollowCommand(p0, velocity, t) = q
      BY <1>2, <2>1 DEF FollowCommand, Pair
    <2>3. gate \in GateRecord /\ gate.armed /\ gate.command = velocity
      BY <2>1, UpdateCommandFacts DEF Pairs
    <2> HIDE DEF gate
    <2>4. Fits(q)
      BY <2>3 DEF Fits
    <2>5. q \in Pairs /\ Drives(p0, q, t) /\ q.control.sequences = p0.control.sequences
      BY <2>1, <2>3, <2>4 DEF Pairs, Drives, SameLease
    <2>6. QED
      BY <2>2, <2>5
  <1>3. CASE ~drives
    <2>1. FollowCommand(p0, velocity, t) = p
      BY <1>3 DEF FollowCommand
    <2>2. QED
      BY <1>1, <2>1 DEF Rests, SameLease, SameInput, Kept
  <1>4. QED
    BY <1>2, <1>3

-----------------------------------------------------------------------------
(* The bridge                                                              *)

Here == Pair(control, guard)

\* What is latched belongs to the lease and nothing is latched in a gate that is
\* not armed; with the gateway only a lease arms, without it nobody has one.
BridgeInv ==
  /\ TypeOK
  /\ Still(Here)
  /\ Fits(Here)
  /\ setup.gateway => ArmedByLease(Here)
  /\ ~setup.gateway => control.owner = Nobody

\* A callback of the gateway-less bridge: the gate alone, for nobody's lease.
Raws(p, q) == q.control = p.control /\ Still(q) /\ Fits(q)

\* What one step does to the lease and the gate, and when it may do so.
Moved ==
  \/ /\ now' = now
     /\ \/ Rests(Here, Here') \/ Loses(Here, Here') \/ Calms(Here, Here')
        \/ setup.gateway /\ (Ends(Here, Here') \/ Starts(Here, Here', now) \/ Drives(Here, Here', now))
        \/ ~setup.gateway /\ Raws(Here, Here')
  \/ now' = now + 1 /\ control' = control /\ guard' = guard

LEMMA HereFacts ==
  /\ Here.control = control /\ Here.guard = guard
  /\ Here'.control = control' /\ Here'.guard = guard'
  /\ TypeOK => Here \in Pairs
  BY DEF Here, Pair, Pairs, TypeOK, GateRecord

\* Only the gate changes, and only by losing its arm or in its readings.
LEMMA GateOnly ==
  ASSUME TypeOK, control' = control, now' = now,
         guard' \in GateRecord, Kept(guard, guard') \/ Dropped(guard')
  PROVE  Here' \in Pairs /\ Moved
  <1>1. Here' \in Pairs
    BY HereFacts DEF Here, Pair, Pairs, TypeOK
  <1>2. Rests(Here, Here') \/ Loses(Here, Here')
    BY HereFacts DEF Rests, Loses, SameLease, SameInput
  <1>3. QED
    BY <1>1, <1>2 DEF Moved

\* Neither the lease nor the gate changes.
LEMMA NothingHere ==
  ASSUME TypeOK, UNCHANGED <<now, control, guard>>
  PROVE  Here' \in Pairs /\ Moved
  BY GateOnly DEF TypeOK, GateRecord, Kept

\* With the gateway, a change of the pair that an operation of the lease allows
LEMMA LeaseMoves ==
  ASSUME TypeOK, setup.gateway, now' = now, NEW q \in Pairs,
         control' = q.control, guard' = q.guard,
         Changes(Here, q, now)
  PROVE  Here' \in Pairs /\ Moved
  <1>1. Here' = q
    BY DEF Here, Pair, Pairs
  <1>2. QED
    BY <1>1 DEF Changes, Moved

LEMMA CallbackMoves ==
  ASSUME BridgeInv, Callbacks
  PROVE  Here' \in Pairs /\ Moved
  <1>1. /\ TypeOK /\ guard \in GateRecord /\ control \in Control /\ now \in Int /\ now \in Nat
        /\ Here \in Pairs /\ Here.control = control /\ Here.guard = guard
    BY HereFacts DEF BridgeInv, TypeOK, GateRecord
  <1>2. CASE OnScan
    <2>1. PICK valid \in BOOLEAN, clear \in BOOLEAN : guard' = UpdateScan(guard, valid, clear, now)
      BY <1>2 DEF OnScan
    <2>2. control' = control /\ now' = now
      BY <1>2 DEF OnScan, Callback
    <2>3. QED
      BY <1>1, <2>1, <2>2, UpdateScanFacts, GateOnly
  <1>3. CASE OnRaw
    <2>1. control' = control /\ now' = now /\ ~setup.gateway
      BY <1>3 DEF OnRaw, Callback
    <2>2. CASE guard' = Disarm(guard)
      BY <1>1, <2>1, <2>2, DisarmFacts, GateOnly
    <2>3. CASE guard' # Disarm(guard)
      <3>1. PICK velocity \in {Zero, Motions(Nobody, control.session, now)} :
              guard' = UpdateCommand(guard, velocity, now)
        BY <1>3, <2>3 DEF OnRaw
      <3>2. velocity \in SUBSET Motion
        BY <1>1 DEF Zero, Motions, Motion, Source, Control
      <3>3. /\ guard' \in GateRecord /\ guard'.armed = guard.armed /\ guard'.commandAt = now
            /\ guard.armed => guard'.command = velocity
            /\ ~guard.armed => guard'.command = guard.command
        BY <1>1, <3>1, <3>2, UpdateCommandFacts
      <3>4. Still(Here')
        BY <1>1, <3>3, HereFacts DEF BridgeInv, Still
      <3>5. \A m \in guard'.command :
              m.by = Nobody /\ m.session = control.session /\ m.at = now
        BY <1>1, <3>1, <3>3 DEF BridgeInv, Still, Zero, Motions
      <3>6. Fits(Here')
        BY <1>1, <2>1, <3>3, <3>5, HereFacts, BridgeAssumption DEF BridgeInv, Fits
      <3>7. Here' \in Pairs /\ Raws(Here, Here')
        BY <1>1, <2>1, <3>3, <3>4, <3>6, HereFacts DEF Raws, Here, Pair, Pairs
      <3>8. QED
        BY <2>1, <3>7 DEF Moved
    <2>4. QED
      BY <2>2, <2>3
  <1>4. CASE OnArm
    <2>1. control' = control /\ now' = now /\ ~setup.gateway /\ guard' = Arm(guard, TRUE, now)
      BY <1>4 DEF OnArm, Callback
    <2>2. guard' \in GateRecord /\ guard'.command = Zero
      BY <1>1, <2>1, ArmFacts
    <2>3. Here' \in Pairs /\ Raws(Here, Here')
      BY <1>1, <2>1, <2>2, HereFacts DEF Raws, Still, Fits, Zero, Here, Pair, Pairs
    <2>4. QED
      BY <2>1, <2>3 DEF Moved
  <1>5. CASE OnDisarm
    <2> DEFINE p == StopControl(Here)
    <2>1. /\ now' = now /\ guard' = p.guard
          /\ control' = IF setup.gateway THEN p.control ELSE control
      BY <1>5 DEF OnDisarm, Callback, Here
    <2>2. p \in Pairs /\ Ends(Here, p) /\ p.guard = Disarm(guard)
      BY <1>1, StopControlFacts
    <2> HIDE DEF p
    <2>3. CASE setup.gateway
      BY <1>1, <2>1, <2>2, <2>3, LeaseMoves DEF Changes
    <2>4. CASE ~setup.gateway
      BY <1>1, <2>1, <2>2, <2>4, DisarmFacts, GateOnly
    <2>5. QED
      BY <2>3, <2>4
  <1>6. CASE OnMockStatus
    <2>1. control' = control /\ now' = now
      BY <1>6 DEF OnMockStatus, Callback
    <2>2. CASE guard' = Disarm(guard)
      BY <1>1, <2>1, <2>2, DisarmFacts, GateOnly
    <2>3. CASE guard' # Disarm(guard)
      <3>1. PICK s \in Status : guard' = UpdateStatus(guard, s, now)
        BY <1>6, <2>3 DEF OnMockStatus
      <3>2. QED
        BY <1>1, <2>1, <3>1, UpdateStatusFacts, GateOnly
    <2>4. QED
      BY <2>2, <2>3
  <1>7. CASE OnTagged
    <2>1. now' = now
      BY <1>7 DEF OnTagged
    <2>2. CASE ~Tagged
      BY <1>1, <1>7, <2>1, <2>2, NothingHere DEF OnTagged
    <2>3. CASE Tagged
      <3> DEFINE velocity == IF velocityTopic.moves
                             THEN Motions(control.owner, velocityTopic.session, now) ELSE Zero
                 q == FollowCommand(Here, velocity, now)
      <3>1. control' = q.control /\ guard' = q.guard
        BY <1>7, <2>3 DEF OnTagged, Here
      <3>2. setup.gateway /\ control.mode = "follow" /\ velocityTopic.session = control.session
        BY <2>3 DEF Tagged
      <3>3. velocity \in SUBSET Motion
        BY <1>1, <3>2 DEF Zero, Motions, Motion, Source, Control
      <3>4. \A m \in velocity : m.by = control.owner /\ m.session = control.session
        BY <3>2 DEF Zero, Motions
      <3> HIDE DEF velocity
      <3>5. Still(Here) /\ ArmedByLease(Here)
        BY <3>2 DEF BridgeInv
      <3>6. q \in Pairs /\ Changes(Here, q, now)
        BY <1>1, <3>2, <3>3, <3>4, <3>5, FollowCommandFacts DEF Changes
      <3> HIDE DEF q
      <3>7. QED
        BY <1>1, <2>1, <3>1, <3>2, <3>6, LeaseMoves
    <2>4. QED
      BY <2>2, <2>3
  <1>8. QED
    BY <1>2, <1>3, <1>4, <1>5, <1>6, <1>7 DEF Callbacks

\* A request that a drain may find
LEMMA RequestFacts ==
  ASSUME TypeOK, NEW r \in Requests
  PROVE  /\ r \in Asking /\ r.client \in Clients /\ r.seq \in Nat /\ r.seq >= 1
         /\ r.received \in Nat /\ r.received <= now
  <1>1. PICK c \in Clients : r \in [client : {c}, seq : 1 .. setup.numbers[c], op : Op, received : 0 .. now]
    BY DEF Requests
  <1>2. setup.numbers[c] \in Nat /\ now \in Nat
    BY BridgeAssumption DEF TypeOK, Setup
  <1>3. r = [client |-> r.client, seq |-> r.seq, op |-> r.op, received |-> r.received]
    BY <1>1
  <1>4. r.client = c /\ r.seq \in 1 .. setup.numbers[c] /\ r.op \in Op /\ r.received \in 0 .. now
    BY <1>1
  <1>5. r.client \in Clients /\ r.seq \in Nat /\ r.seq >= 1 /\ r.received \in Nat /\ r.received <= now
    BY <1>2, <1>4
  <1>6. QED
    BY <1>3, <1>4, <1>5 DEF Asking

LEMMA DrainMoves ==
  ASSUME BridgeInv, setup.gateway, DrainRequest
  PROVE  Here' \in Pairs /\ Moved
  <1>1. /\ TypeOK /\ now \in Int /\ Here \in Pairs
        /\ Here.control = control /\ Here.guard = guard
        /\ Still(Here) /\ ArmedByLease(Here)
    BY HereFacts DEF BridgeInv, TypeOK
  <1>2. PICK r \in Requests :
          LET p == IF Expired(r) THEN Here ELSE Handle(Here, r, now)
          IN  control' = p.control /\ guard' = p.guard
    BY DEF DrainRequest, Here
  <1>3. now' = now
    BY DEF DrainRequest
  <1>4. CASE Expired(r)
    BY <1>1, <1>2, <1>3, <1>4, NothingHere
  <1>5. CASE ~Expired(r)
    <2>1. r \in Asking /\ now - r.received <= DrainExpiry
      BY <1>1, <1>5, RequestFacts, BridgeAssumption DEF Expired
    <2> DEFINE q == Handle(Here, r, now)
    <2>2. q \in Pairs /\ Changes(Here, q, now)
      BY <1>1, <2>1, HandleFacts
    <2>3. control' = q.control /\ guard' = q.guard
      BY <1>2, <1>5
    <2> HIDE DEF q
    <2>4. QED
      BY <1>1, <1>3, <2>2, <2>3, LeaseMoves
  <1>6. QED
    BY <1>4, <1>5

LEMMA SyncMoves ==
  ASSUME BridgeInv, setup.gateway, SyncFollow
  PROVE  Here' \in Pairs /\ Moved
  <1>1. /\ TypeOK /\ now \in Int /\ Here \in Pairs /\ guard \in GateRecord
        /\ Here.control = control /\ Here.guard = guard /\ Still(Here)
    BY HereFacts DEF BridgeInv, TypeOK, GateRecord
  <1>2. now' = now
    BY DEF SyncFollow
  <1>3. CASE ~(FollowKey # 0 /\ ~FollowNow.ready)
    BY <1>1, <1>2, <1>3, NothingHere DEF SyncFollow
  <1>4. CASE FollowKey # 0 /\ ~FollowNow.ready
    <2> DEFINE gate == UpdateCommand(guard, Zero, now)
               p == Pair(control, gate)
               q == IF now - FollowNow.started > AckTimeout THEN StopControl(p) ELSE p
    <2>1. control' = q.control /\ guard' = q.guard
      BY <1>4 DEF SyncFollow
    <2>2. Zero \in SUBSET Motion
      BY DEF Zero
    <2>3. gate \in GateRecord /\ gate.armed = guard.armed /\ gate.command = Zero
      BY <1>1, <2>2, UpdateCommandFacts DEF Still
    <2> HIDE DEF gate
    <2>4. p \in Pairs /\ Calms(Here, p)
      BY <1>1, <2>3 DEF Pairs, Pair, Calms, SameLease, SameInput
    <2> HIDE DEF p
    <2>5. CASE now - FollowNow.started > AckTimeout
      <3>1. q = StopControl(p)
        BY <2>5
      <3>2. q \in Pairs /\ Ends(p, q)
        BY <2>4, <3>1, StopControlFacts
      <3> HIDE DEF q
      <3>3. Ends(Here, q)
        BY <2>4, <3>2 DEF Ends, Calms, SameLease
      <3>4. QED
        BY <1>1, <1>2, <2>1, <3>2, <3>3, LeaseMoves DEF Changes
    <2>6. CASE ~(now - FollowNow.started > AckTimeout)
      <3>1. Here' = p
        BY <2>1, <2>4, <2>6 DEF Here, Pair, Pairs
      <3>2. QED
        BY <1>2, <2>4, <3>1 DEF Moved
    <2>7. QED
      BY <2>5, <2>6
  <1>5. QED
    BY <1>3, <1>4

\* The executor drains and follows only with the gateway.
PcInv == pc \in {"drain", "sync"} => setup.gateway

LEMMA TickMoves ==
  ASSUME BridgeInv, PcInv, Tick
  PROVE  Here' \in Pairs /\ Moved
  <1>1. /\ TypeOK /\ now \in Int /\ Here \in Pairs /\ guard \in GateRecord
        /\ Here.control = control /\ Here.guard = guard
    BY HereFacts DEF BridgeInv, TypeOK, GateRecord
  <1>2. CASE StartTick \/ ReceiveDone \/ DrainDone
    BY <1>1, <1>2, NothingHere DEF StartTick, ReceiveDone, DrainDone
  <1>3. CASE Receive
    <2>1. control' = control /\ now' = now
      BY <1>3 DEF Receive
    <2>2. CASE guard' = Disarm(guard)
      BY <1>1, <2>1, <2>2, DisarmFacts, GateOnly
    <2>3. CASE guard' # Disarm(guard)
      <3>1. PICK s \in Status : guard' = UpdateStatus(guard, s, now)
        BY <1>3, <2>3 DEF Receive
      <3>2. QED
        BY <1>1, <2>1, <3>1, UpdateStatusFacts, GateOnly
    <2>4. QED
      BY <2>2, <2>3
  <1>4. CASE SocketFails
    BY <1>1, <1>4, DisarmFacts, GateOnly DEF SocketFails
  <1>5. CASE CheckLease
    <2>1. now' = now
      BY <1>5 DEF CheckLease
    <2>2. CASE ~setup.gateway
      BY <1>1, <1>5, <2>1, <2>2, NothingHere DEF CheckLease
    <2>3. CASE setup.gateway
      <3> DEFINE q == ControlTick(Here, now)
      <3>1. control' = q.control /\ guard' = q.guard
        BY <1>5, <2>3 DEF CheckLease, Here
      <3>2. q \in Pairs /\ Changes(Here, q, now)
        BY <1>1, ControlTickFacts DEF Changes, Rests, SameLease, SameInput, Kept
      <3> HIDE DEF q
      <3>3. QED
        BY <1>1, <2>1, <2>3, <3>1, <3>2, LeaseMoves
    <2>4. QED
      BY <2>2, <2>3
  <1>6. CASE DrainRequest
    BY <1>6, DrainMoves DEF PcInv, DrainRequest
  <1>7. CASE SyncFollow
    BY <1>7, SyncMoves DEF PcInv, SyncFollow, Goto
  <1>8. CASE OutputPreview \/ SendPacket
    <2>1. control' = control /\ now' = now /\ guard' = Output(guard, now)
      BY <1>8 DEF OutputPreview, SendPacket
    <2>2. QED
      BY <1>1, <2>1, OutputFacts, GateOnly
  <1>9. QED
    BY <1>2, <1>3, <1>4, <1>5, <1>6, <1>7, <1>8 DEF Tick

LEMMA StepMoves ==
  ASSUME BridgeInv, PcInv, [Next]_vars
  PROVE  Here' \in Pairs /\ Moved
  <1>1. /\ TypeOK /\ now \in Nat /\ Here \in Pairs /\ guard \in GateRecord
        /\ Here.control = control /\ Here.guard = guard
    BY HereFacts DEF BridgeInv, TypeOK, GateRecord
  <1>2. CASE Callbacks
    BY <1>2, CallbackMoves
  <1>3. CASE Tick
    BY <1>3, TickMoves
  <1>4. CASE Close
    <2> DEFINE q == StopControl(Here)
    <2>1. now' = now
      BY <1>4 DEF Close
    <2>2. CASE ~setup.gateway
      BY <1>1, <1>4, <2>1, <2>2, NothingHere DEF Close
    <2>3. CASE setup.gateway
      <3>1. control' = q.control /\ guard' = q.guard
        BY <1>4, <2>3 DEF Close, Here
      <3>2. q \in Pairs /\ Changes(Here, q, now)
        BY <1>1, StopControlFacts DEF Changes
      <3> HIDE DEF q
      <3>3. QED
        BY <1>1, <2>1, <2>3, <3>1, <3>2, LeaseMoves
    <2>4. QED
      BY <2>2, <2>3
  <1>5. CASE Interrupt
    BY <1>1, <1>5, NothingHere DEF Interrupt
  <1>6. CASE NodeTarget \/ TargetLost \/ NodeVelocity
    BY <1>1, <1>6, NothingHere DEF NodeTarget, TargetLost, NodeVelocity, NodeStep
  <1>7. CASE Advance
    <2>1. now' = now + 1 /\ control' = control /\ guard' = guard
      BY <1>7 DEF Advance
    <2>2. Here' = Here
      BY <2>1 DEF Here, Pair
    <2>3. QED
      BY <1>1, <2>1, <2>2 DEF Moved
  <1>8. CASE UNCHANGED vars
    BY <1>1, <1>8, NothingHere DEF vars
  <1>9. QED
    BY <1>2, <1>3, <1>4, <1>5, <1>6, <1>7, <1>8 DEF Next

\* Each way of changing the pair keeps what holds of it.
LEMMA MovedKeeps ==
  ASSUME BridgeInv, setup' = setup, Here' \in Pairs, Moved
  PROVE  /\ Still(Here)' /\ Fits(Here)'
         /\ setup'.gateway => ArmedByLease(Here)'
         /\ ~setup'.gateway => control'.owner = Nobody
  <1> DEFINE p == Here
             q == Here'
  <1>1. /\ p \in Pairs /\ Still(p) /\ Fits(p)
        /\ setup.gateway => ArmedByLease(p)
        /\ ~setup.gateway => p.control.owner = Nobody
        /\ q \in Pairs /\ q.control = control'
    BY HereFacts DEF BridgeInv
  <1>2. Moved <=>
          \/ /\ now' = now
             /\ \/ Rests(p, q) \/ Loses(p, q) \/ Calms(p, q)
                \/ setup.gateway /\ (Ends(p, q) \/ Starts(p, q, now) \/ Drives(p, q, now))
                \/ ~setup.gateway /\ Raws(p, q)
          \/ now' = now + 1 /\ control' = control /\ guard' = guard
    BY DEF Moved
  <1>3. control' = control /\ guard' = guard => q = p
    BY DEF Here, Pair
  <1>4. SUFFICES /\ Still(q) /\ Fits(q)
                 /\ setup.gateway => ArmedByLease(q)
                 /\ ~setup.gateway => q.control.owner = Nobody
    BY <1>1 DEF Still, Fits, ArmedByLease
  <1> HIDE DEF p, q
  <1>5. CASE Rests(p, q)
    BY <1>1, <1>5 DEF Rests, SameLease, Kept, Still, Fits, ArmedByLease
  <1>6. CASE Loses(p, q)
    BY <1>1, <1>6 DEF Loses, SameLease, Dropped, Zero, Still, Fits, ArmedByLease
  <1>7. CASE Calms(p, q)
    BY <1>1, <1>7 DEF Calms, SameLease, Zero, Still, Fits, ArmedByLease
  <1>8. CASE setup.gateway /\ Ends(p, q)
    BY <1>8 DEF Ends, Dropped, Zero, Still, Fits, ArmedByLease
  <1>9. CASE setup.gateway /\ Starts(p, q, now)
    BY <1>9, ControlAssumption DEF Starts, Zero, Still, Fits, ArmedByLease
  <1>10. CASE setup.gateway /\ Drives(p, q, now)
    <2>1. Still(q) /\ ArmedByLease(q)
      BY <1>1, <1>10 DEF Drives, SameLease, Kept, Still, ArmedByLease
    <2>2. Fits(q)
      BY <1>1, <1>10 DEF Drives, SameLease, Kept, Fits
    <2>3. QED
      BY <1>10, <2>1, <2>2
  <1>11. CASE ~setup.gateway /\ Raws(p, q)
    BY <1>1, <1>11 DEF Raws
  <1>12. CASE q = p
    BY <1>1, <1>12
  <1>13. QED
    BY <1>2, <1>3, <1>5, <1>6, <1>7, <1>8, <1>9, <1>10, <1>11, <1>12

LEMMA TypesKept ==
  ASSUME TypeOK, Here' \in Pairs, [Next]_vars
  PROVE  TypeOK' /\ setup' = setup
  <1>1. guard' \in OperatorGuardRecord(Motion) /\ control' \in Control
    BY HereFacts DEF Pairs, GateRecord
  <1>2. control.session \in Nat
    BY DEF TypeOK, Control
  <1>3. FollowNow \in [key : Nat, ready : BOOLEAN, started : Int] /\ FollowKey \in Nat
    BY <1>2 DEF FollowNow, FollowKey, TypeOK
  <1>4. CASE Callbacks
    <2>1. CASE OnTagged
      <3>1. follow' \in [key : Nat, ready : BOOLEAN, started : Int]
        BY <2>1 DEF OnTagged, TypeOK
      <3>2. QED
        BY <1>1, <2>1, <3>1 DEF OnTagged, TypeOK, NoVelocity, Empty
    <2>2. CASE OnScan \/ OnRaw \/ OnArm \/ OnDisarm \/ OnMockStatus
      BY <1>1, <2>2 DEF OnScan, OnRaw, OnArm, OnDisarm, OnMockStatus, Callback, topics, TypeOK
    <2>3. QED
      BY <1>4, <2>1, <2>2 DEF Callbacks
  <1>5. CASE Tick
    <2>1. CASE StartTick \/ Receive \/ ReceiveDone \/ SocketFails
      BY <1>1, <2>1 DEF StartTick, Receive, ReceiveDone, SocketFails, Goto, topics, TypeOK, Pc
    <2>2. CASE CheckLease \/ DrainDone
      BY <1>1, <2>2, BridgeAssumption DEF CheckLease, DrainDone, Goto, topics, TypeOK, Pc
    <2>3. CASE DrainRequest
      <3>1. PICK r \in Requests :
              stopped' = stopped \/ stopped' = [stopped EXCEPT ![r.client] = r.seq]
        BY <2>3 DEF DrainRequest
      <3>2. r.client \in Clients /\ r.seq \in Nat
        BY RequestFacts
      <3>3. stopped' \in [Clients -> Nat]
        BY <3>1, <3>2 DEF TypeOK
      <3>4. drained' \in 0 .. DrainMax
        BY <2>3, BridgeAssumption DEF DrainRequest, TypeOK
      <3>5. QED
        BY <1>1, <2>3, <3>3, <3>4 DEF DrainRequest, topics, TypeOK
    <2>4. CASE SyncFollow
      BY <1>1, <1>3, <2>4 DEF SyncFollow, Goto, TypeOK, Pc
    <2>5. CASE OutputPreview \/ SendPacket
      BY <1>1, <2>5 DEF OutputPreview, SendPacket, Goto, topics, TypeOK, Pc
    <2>6. QED
      BY <1>5, <2>1, <2>2, <2>3, <2>4, <2>5 DEF Tick
  <1>6. CASE Interrupt \/ Close
    BY <1>1, <1>6 DEF Interrupt, Close, Goto, topics, TypeOK, Pc
  <1>7. CASE NodeTarget \/ TargetLost \/ NodeVelocity
    BY <1>1, <1>7 DEF NodeTarget, TargetLost, NodeVelocity, NodeStep, TypeOK, Empty
  <1>8. CASE Advance
    BY <1>1, <1>8 DEF Advance, topics, TypeOK
  <1>9. CASE UNCHANGED vars
    BY <1>9 DEF vars, TypeOK
  <1>10. QED
    BY <1>4, <1>5, <1>6, <1>7, <1>8, <1>9 DEF Next

LEMMA PcKept ==
  ASSUME PcInv, [Next]_vars, setup' = setup
  PROVE  PcInv'
  <1>1. CASE Callbacks
    BY <1>1 DEF PcInv, Callbacks, OnScan, OnRaw, OnArm, OnDisarm, OnMockStatus, OnTagged, Callback
  <1>2. CASE Tick
    BY <1>2 DEF PcInv, Tick, StartTick, Receive, ReceiveDone, SocketFails, CheckLease, DrainRequest,
                DrainDone, SyncFollow, OutputPreview, SendPacket, Goto
  <1>3. CASE Interrupt \/ Close
    BY <1>3 DEF PcInv, Interrupt, Close, Goto
  <1>4. CASE NodeTarget \/ TargetLost \/ NodeVelocity \/ Advance \/ UNCHANGED vars
    BY <1>4 DEF PcInv, NodeTarget, TargetLost, NodeVelocity, NodeStep, Advance, vars
  <1>5. QED
    BY <1>1, <1>2, <1>3, <1>4 DEF Next

LEMMA InitBridgeInv == Init => BridgeInv /\ PcInv
  <1> SUFFICES ASSUME Init PROVE BridgeInv /\ PcInv
    OBVIOUS
  <1>1. setup \in Setups /\ setup.dryRun \in BOOLEAN
    BY BridgeAssumption DEF Init, Setup
  <1>2. control \in Control /\ control.owner = Nobody
    BY <1>1 DEF Init, NewControl, Control, Source, Never
  <1>3. /\ guard \in OperatorGuardRecord(Motion)
        /\ ~guard.armed /\ guard.command = {}
    BY OperatorGuardAssumption DEF Init, NewOperatorGuard, OperatorGuardRecord, Never, Zero
  <1>4. TypeOK
    BY <1>2, <1>3, BridgeAssumption DEF Init, TypeOK, Pc, NoVelocity, Empty, Never
  <1>5. Still(Here) /\ Fits(Here) /\ ArmedByLease(Here)
    BY <1>3, HereFacts DEF Still, Fits, ArmedByLease, Zero
  <1>6. QED
    BY <1>2, <1>4, <1>5 DEF BridgeInv, PcInv, Init

LEMMA BridgeSteps ==
  ASSUME BridgeInv, PcInv, [Next]_vars
  PROVE  BridgeInv' /\ PcInv' /\ Moved /\ Here' \in Pairs
  <1>1. Here' \in Pairs /\ Moved
    BY StepMoves
  <1>2. TypeOK' /\ setup' = setup
    BY <1>1, TypesKept DEF BridgeInv
  <1>3. PcInv'
    BY <1>2, PcKept
  <1>4. QED
    BY <1>1, <1>2, <1>3, MovedKeeps DEF BridgeInv

LEMMA BridgeAlways == SafetySpec => [](BridgeInv /\ PcInv)
  <1>1. BridgeInv /\ PcInv /\ [Next]_vars => (BridgeInv /\ PcInv)'
    BY BridgeSteps
  <1>2. QED
    BY <1>1, InitBridgeInv, PTL DEF SafetySpec

\* Whatever arrives, and in whatever order, the bridge's records stay well formed.
THEOREM BridgeTypeCorrect == Spec => []TypeOK
  <1>1. BridgeInv => TypeOK
    BY DEF BridgeInv
  <1>2. QED
    BY <1>1, BridgeAlways, PTL DEF Spec

\* What is latched was asked for under the current session, by its owner or by the
\* follow node for its target.
THEOREM MotionOwned == Spec => []MotionIsOwned
  <1>1. BridgeInv => MotionIsOwned
    BY HereFacts DEF BridgeInv, Fits, MotionIsOwned
  <1>2. QED
    BY <1>1, BridgeAlways, PTL DEF Spec

\* A packet that moves the robot in direct mode carries a motion that was recent
\* when it was latched and whose latching is recent now.
LEMMA FreshStep ==
  ASSUME BridgeInv, [Next]_vars,
         pc = "send", pc' = "idle", guard'.armed, control.mode # "follow",
         NEW m \in guard.command
  PROVE  now - m.at <= CommandTimeout + DrainExpiry
  <1>1. /\ TypeOK /\ now \in Int /\ guard \in GateRecord
        /\ Here.control = control /\ Here.guard = guard
    BY HereFacts DEF BridgeInv, TypeOK, GateRecord
  <1>2. SendPacket \/ SocketFails
    <2>1. ~Callbacks
      BY DEF Callbacks, OnScan, OnRaw, OnArm, OnDisarm, OnMockStatus, OnTagged, Callback
    <2>2. ~(Interrupt \/ Close \/ NodeTarget \/ TargetLost \/ NodeVelocity \/ Advance \/ UNCHANGED vars)
      BY DEF Interrupt, Close, NodeTarget, TargetLost, NodeVelocity, NodeStep, Advance, vars, Goto
    <2>3. ~(StartTick \/ Receive \/ ReceiveDone \/ CheckLease \/ DrainRequest \/ DrainDone
              \/ SyncFollow \/ OutputPreview)
      BY DEF StartTick, Receive, ReceiveDone, CheckLease, DrainRequest, DrainDone, SyncFollow,
             OutputPreview, Goto
    <2>4. QED
      BY <2>1, <2>2, <2>3 DEF Next, Tick
  <1>3. CASE SocketFails
    <2>1. ~guard'.armed
      BY <1>1, <1>3, DisarmFacts DEF SocketFails, Dropped
    <2>2. QED
      BY <2>1
  <1>4. CASE SendPacket
    <2>1. guard' = Output(guard, now)
      BY <1>4 DEF SendPacket
    <2>2. now - guard.commandAt <= CommandTimeout
      BY <1>1, <2>1, OutputFacts
    <2>3. guard.commandAt - m.at <= DrainExpiry
      BY <1>1 DEF BridgeInv, Fits
    <2>4. m.at \in Int /\ guard.commandAt \in Int
      BY <1>1 DEF GateRecord, OperatorGuardRecord, Motion
    <2>5. QED
      BY <1>1, <2>2, <2>3, <2>4, OperatorGuardAssumption, BridgeAssumption
  <1>5. QED
    BY <1>2, <1>3, <1>4

\* No heartbeat keeps an old motion alive.
THEOREM MotionFresh == Spec => MotionIsFresh
  <1>1. BridgeInv /\ [Next]_vars =>
          [ pc = "send" /\ pc' = "idle" /\ guard'.armed /\ control.mode # "follow"
              => \A m \in guard.command : now - m.at <= CommandTimeout + DrainExpiry ]_vars
    BY FreshStep
  <1>2. QED
    BY <1>1, BridgeAlways, PTL DEF Spec, SafetySpec, MotionIsFresh

-----------------------------------------------------------------------------
(* The refinement                                                          *)

\* Each way of changing the pair is a step of the abstract lease, or none.
LEMMA LeaseSteps ==
  ASSUME BridgeInv, BridgeInv', setup' = setup, Here' \in Pairs, Moved
  PROVE  [Lease!Next]_(Lease!vars)
  <1> DEFINE p == Here
             q == Here'
             driving == guard.command # Zero /\ setup.gateway
  <1>1. /\ p \in Pairs /\ Still(p)
        /\ setup.gateway => ArmedByLease(p)
        /\ ~setup.gateway => p.control.owner = Nobody
        /\ q \in Pairs /\ Still(q)
        /\ setup.gateway => ArmedByLease(q)
        /\ ~setup.gateway => q.control.owner = Nobody
    BY HereFacts DEF BridgeInv, Still, ArmedByLease
  <1>2. /\ p.control = control /\ q.control = control' /\ p.guard = guard /\ q.guard = guard'
        /\ now \in Nat /\ now' \in Nat
    BY HereFacts DEF BridgeInv, TypeOK
  <1>3. Alive = Lives(p, now) /\ Alive' = Lives(q, now')
    BY <1>2 DEF Alive, Lives
  <1>4. driving = (p.guard.command # Zero /\ setup.gateway)
        /\ driving' = (q.guard.command # Zero /\ setup.gateway)
    BY <1>2
  <1>5. Moved <=>
          \/ /\ now' = now
             /\ \/ Rests(p, q) \/ Loses(p, q) \/ Calms(p, q)
                \/ setup.gateway /\ (Ends(p, q) \/ Starts(p, q, now) \/ Drives(p, q, now))
                \/ ~setup.gateway /\ Raws(p, q)
          \/ now' = now + 1 /\ control' = control /\ guard' = guard
    BY DEF Moved
  <1>6. control' = control /\ guard' = guard => q = p
    BY DEF Here, Pair
  <1>7. SUFFICES
          \/ ~Alive /\ control'.owner \in Clients /\ control'.session = control.session + 1
               /\ Alive' = TRUE /\ driving' = FALSE
          \/ Alive /\ driving' \in BOOLEAN /\ control'.owner = control.owner
               /\ control'.session = control.session /\ Alive' = Alive
          \/ Alive' = FALSE /\ driving' \in {driving, FALSE} /\ control'.owner = control.owner
               /\ control'.session = control.session
          \/ control'.owner = Nobody /\ Alive' = FALSE /\ driving' = FALSE
               /\ control'.session = control.session
          \/ control'.owner = control.owner /\ control'.session = control.session
               /\ Alive' = Alive /\ driving' = driving
    BY DEF Lease!Next, Lease!Take, Lease!Drive, Lease!Lapse, Lease!Release, Lease!vars
  <1>8. Alive \in BOOLEAN /\ Alive' \in BOOLEAN /\ driving \in BOOLEAN /\ driving' \in BOOLEAN
    BY DEF Alive
  <1>9. control \in Control /\ control' \in Control /\ control.lastInput \in Int
    BY DEF BridgeInv, TypeOK, Control
  <1> HIDE DEF p, q, driving
  <1>10. CASE now' = now /\ Rests(p, q)
    <2>1. Lives(p, now) = Lives(q, now)
      BY <1>10 DEF Rests, SameLease, SameInput, Kept, Lives
    <2>2. QED
      BY <1>2, <1>3, <1>4, <1>10, <2>1 DEF Rests, SameLease, Kept
  <1>11. CASE now' = now /\ Loses(p, q)
    <2>1. /\ control'.owner = control.owner /\ control'.session = control.session
          /\ driving' = FALSE
      BY <1>2, <1>4, <1>11 DEF Loses, SameLease, Dropped
    <2>2. CASE control.preview
      <3>1. driving = FALSE
        BY <1>1, <1>2, <1>4, <2>2 DEF ArmedByLease, Still
      <3>2. Lives(q, now) = Lives(p, now)
        BY <1>2, <1>11, <2>2 DEF Loses, SameLease, SameInput, Lives
      <3>3. QED
        BY <1>3, <1>11, <2>1, <3>1, <3>2
    <2>3. CASE ~control.preview
      <3>1. Alive' = FALSE
        BY <1>2, <1>3, <1>11, <2>3 DEF Loses, SameLease, Dropped, Lives
      <3>2. QED
        BY <2>1, <3>1
    <2>4. QED
      BY <2>2, <2>3
  <1>12. CASE now' = now /\ Calms(p, q)
    <2>1. /\ control'.owner = control.owner /\ control'.session = control.session
          /\ driving' = FALSE
      BY <1>2, <1>4, <1>12 DEF Calms, SameLease
    <2>2. Alive' = Alive
      BY <1>3, <1>12 DEF Calms, SameLease, SameInput, Lives
    <2>3. QED
      BY <1>8, <2>1, <2>2
  <1>13. CASE now' = now /\ setup.gateway /\ Ends(p, q)
    BY <1>2, <1>3, <1>4, <1>13 DEF Ends, Dropped, Lives
  <1>14. CASE now' = now /\ setup.gateway /\ Starts(p, q, now)
    <2>1. q.control.owner # Nobody /\ (q.control.preview \/ q.guard.armed)
      BY <1>14, ControlAssumption DEF Starts
    <2>2. now - q.control.lastInput <= LeaseTimeout
      <3>1. q.control.lastInput = now
        BY <1>14 DEF Starts
      <3>2. QED
        BY <1>2, <3>1, ControlAssumption
    <2>3. ~Alive /\ Alive'
      BY <1>3, <1>14, <2>1, <2>2 DEF Starts, Lives
    <2>4. ~driving'
      BY <1>4, <1>14 DEF Starts
    <2>5. control'.owner \in Clients /\ control'.session = control.session + 1
      BY <1>2, <1>14 DEF Starts
    <2>6. QED
      BY <1>8, <2>3, <2>4, <2>5
  <1>15. CASE now' = now /\ setup.gateway /\ Drives(p, q, now)
    <2>1. Lives(q, now)
      BY <1>2, <1>15, ControlAssumption DEF Drives, SameLease, Lives
    <2>2. QED
      BY <1>2, <1>3, <1>8, <1>15, <2>1 DEF Drives, SameLease
  <1>16. CASE now' = now /\ ~setup.gateway /\ Raws(p, q)
    BY <1>1, <1>2, <1>3, <1>4, <1>16 DEF Raws, Lives
  <1>17. CASE now' = now + 1 /\ q = p
    <2>1. control' = control /\ driving' = driving
      BY <1>2, <1>4, <1>17
    <2>2. ASSUME Alive' PROVE Alive
      <3>1. Lives(p, now')
        BY <1>3, <1>17, <2>2
      <3>2. now' - control.lastInput <= LeaseTimeout
        BY <1>2, <3>1 DEF Lives
      <3>3. now - control.lastInput <= LeaseTimeout
        BY <1>2, <1>9, <1>17, <3>2, ControlAssumption
      <3>4. Lives(p, now)
        BY <1>2, <3>1, <3>3 DEF Lives
      <3>5. QED
        BY <1>3, <3>4
    <2>3. QED
      BY <1>8, <2>1, <2>2
  <1>18. QED
    BY <1>5, <1>6, <1>10, <1>11, <1>12, <1>13, <1>14, <1>15, <1>16, <1>17

\* The bridge keeps the promises of the abstract lease: a lapsed lease stays lapsed,
\* only a start gives a new one, and no motion is inherited.
THEOREM LeaseRefined == Spec => ImplementsDriverLease
  <1>1. Init => Lease!Init
    <2> SUFFICES ASSUME Init PROVE Lease!Init
      OBVIOUS
    <2>1. control.owner = Nobody /\ control.session = 1
      BY DEF Init, NewControl
    <2>2. guard.command = Zero
      BY DEF Init, NewOperatorGuard
    <2>3. QED
      BY <2>1, <2>2 DEF Lease!Init, Alive
  <1>2. BridgeInv /\ PcInv /\ [Next]_vars => [Lease!Next]_(Lease!vars)
    <2> SUFFICES ASSUME BridgeInv, PcInv, [Next]_vars PROVE [Lease!Next]_(Lease!vars)
      OBVIOUS
    <2>1. BridgeInv' /\ Moved /\ Here' \in Pairs
      BY BridgeSteps
    <2>2. setup' = setup
      BY <2>1, TypesKept DEF BridgeInv
    <2>3. QED
      BY <2>1, <2>2, LeaseSteps
  <1>3. QED
    BY <1>1, <1>2, BridgeAlways, PTL DEF Spec, SafetySpec, ImplementsDriverLease, Lease!Spec

-----------------------------------------------------------------------------
(* Numbers and stops                                                       *)

\* A stop that was obeyed is covered by the number noted for its client, or its
\* client has no place in the table and cannot start at all.
StopInv ==
  \A c \in Clients :
    stopped[c] = 0 \/ stopped[c] <= control.sequences[c] \/ Full(control, c)

\* Whether there is room depends on the numbers alone.
LEMMA FullByNumbers ==
  ASSUME control'.sequences = control.sequences, NEW c
  PROVE  Full(control', c) = Full(control, c)
  BY DEF Full

\* Only the drain takes numbers and gives sessions.
LEMMA OtherSteps ==
  ASSUME BridgeInv, Next, ~DrainRequest
  PROVE  /\ control'.sequences = control.sequences
         /\ control'.session = control.session
         /\ stopped' = stopped
  <1>1. /\ TypeOK /\ now \in Int /\ Here \in Pairs
        /\ Here.control = control /\ Here.guard = guard
    BY HereFacts DEF BridgeInv, TypeOK
  <1>2. StopControl(Here).control.sequences = control.sequences
        /\ StopControl(Here).control.session = control.session
    BY <1>1, StopControlFacts DEF Ends
  <1>3. ControlTick(Here, now).control.sequences = control.sequences
        /\ ControlTick(Here, now).control.session = control.session
    BY <1>1, ControlTickFacts DEF Ends
  <1>4. CASE control' = control /\ stopped' = stopped
    BY <1>4
  <1>5. CASE OnScan \/ OnRaw \/ OnArm \/ OnMockStatus
    BY <1>4, <1>5 DEF OnScan, OnRaw, OnArm, OnMockStatus, Callback
  <1>6. CASE OnDisarm
    BY <1>2, <1>6 DEF OnDisarm, Callback, Here
  <1>7. CASE OnTagged
    <2> DEFINE velocity == IF velocityTopic.moves
                           THEN Motions(control.owner, velocityTopic.session, now) ELSE Zero
    <2>1. stopped' = stopped
      BY <1>7 DEF OnTagged
    <2>2. control' = control \/ control' = FollowCommand(Here, velocity, now).control
      BY <1>7 DEF OnTagged, Here
    <2> HIDE DEF velocity
    <2>3. \/ FollowCommand(Here, velocity, now).control = ControlTick(Here, now).control
      BY DEF FollowCommand, Pair
    <2>4. QED
      BY <1>3, <2>1, <2>2, <2>3
  <1>8. CASE StartTick \/ Receive \/ ReceiveDone \/ SocketFails \/ DrainDone \/ OutputPreview \/ SendPacket
    BY <1>4, <1>8 DEF StartTick, Receive, ReceiveDone, SocketFails, DrainDone, OutputPreview, SendPacket
  <1>9. CASE CheckLease
    BY <1>3, <1>9 DEF CheckLease, Here
  <1>10. CASE SyncFollow
    <2> DEFINE p == Pair(control, UpdateCommand(guard, Zero, now))
    <2>1. /\ stopped' = stopped
          /\ control' = control \/ control' = p.control \/ control' = StopControl(p).control
      BY <1>10 DEF SyncFollow
    <2>2. p.control = control
      BY DEF Pair
    <2>3. StopControl(p).control = [control EXCEPT !.owner = Nobody, !.mode = "stopped"]
      BY <2>2 DEF StopControl, Pair
    <2> HIDE DEF p
    <2>4. /\ StopControl(p).control.sequences = control.sequences
          /\ StopControl(p).control.session = control.session
      BY <1>1, <2>3 DEF TypeOK, Control
    <2>5. QED
      BY <2>1, <2>2, <2>4
  <1>11. CASE Close
    BY <1>2, <1>11 DEF Close, Here
  <1>12. CASE Interrupt \/ NodeTarget \/ TargetLost \/ NodeVelocity \/ Advance
    BY <1>4, <1>12 DEF Interrupt, NodeTarget, TargetLost, NodeVelocity, NodeStep, Advance
  <1>13. QED
    BY <1>5, <1>6, <1>7, <1>8, <1>9, <1>10, <1>11, <1>12 DEF Next, Callbacks, Tick

LEMMA DrainStops ==
  ASSUME BridgeInv, StopInv, DrainRequest
  PROVE  /\ StopInv'
         /\ control'.session # control.session
              => control'.sequences[control'.owner] > stopped[control'.owner]
  <1>1. /\ TypeOK /\ now \in Int /\ Here \in Pairs
        /\ Here.control = control /\ Here.guard = guard
    BY HereFacts DEF BridgeInv, TypeOK
  <1>2. PICK r \in Requests :
          LET p == IF Expired(r) THEN Here ELSE Handle(Here, r, now)
              obeyed == ~Expired(r) /\ r.op = "stop" /\ ~Replayed(control, r)
          IN  /\ control' = p.control
              /\ stopped' = IF obeyed /\ r.seq > stopped[r.client]
                            THEN [stopped EXCEPT ![r.client] = r.seq] ELSE stopped
    BY DEF DrainRequest, Here
  <1>3. CASE Expired(r)
    <2>1. control' = control /\ stopped' = stopped
      BY <1>1, <1>2, <1>3
    <2>2. QED
      BY <2>1 DEF StopInv
  <1>4. CASE ~Expired(r)
    <2>1. r \in Asking /\ r.client \in Clients /\ r.seq \in Nat /\ r.seq >= 1
      BY <1>1, RequestFacts
    <2> DEFINE old == Replayed(control, r)
               full == Full(control, r.client)
               numbers == control.sequences
    <2>2. /\ control'.sequences = IF old \/ full THEN numbers ELSE [numbers EXCEPT ![r.client] = r.seq]
          /\ control'.session # control.session => ~old /\ ~full /\ control'.owner = r.client
      BY <1>1, <1>2, <1>4, <2>1, HandleNumbers
    <2>3. stopped' = IF r.op = "stop" /\ ~old /\ r.seq > stopped[r.client]
                     THEN [stopped EXCEPT ![r.client] = r.seq] ELSE stopped
      BY <1>2, <1>4
    <2>4. numbers \in [Clients -> Int] /\ stopped \in [Clients -> Nat]
      BY <1>1 DEF TypeOK, Control
    <2>5. ~old => r.seq > numbers[r.client]
      BY <2>1, <2>4 DEF Replayed
    <2>6. old /\ r.op = "stop" => r.seq <= numbers[r.client]
      BY DEF Replayed
    <2>7. ASSUME NEW c \in Clients, Full(control, c), c # r.client \/ old \/ full
          PROVE  Full(control', c)
      <3>1. CASE old \/ full
        BY <2>2, <2>7, <3>1 DEF Full
      <3>2. CASE ~(old \/ full)
        <4>1. numbers[c] = Never /\ Cardinality({d \in Clients : numbers[d] # Never}) >= Capacity
          BY <2>7 DEF Full
        <4>2. numbers[r.client] # Never
          BY <3>2, <4>1 DEF Full
        <4>3. control'.sequences = [numbers EXCEPT ![r.client] = r.seq] /\ r.seq # Never
          BY <2>1, <2>2, <3>2 DEF Never
        <4>4. control'.sequences[c] = Never
          BY <2>4, <2>7, <3>2, <4>1, <4>3
        <4>5. \A d \in Clients : control'.sequences[d] # Never <=> numbers[d] # Never
          BY <2>1, <2>4, <4>2, <4>3
        <4>6. {d \in Clients : control'.sequences[d] # Never} = {d \in Clients : numbers[d] # Never}
          BY <4>5
        <4>7. QED
          BY <4>1, <4>4, <4>6 DEF Full
      <3>3. QED
        BY <3>1, <3>2
    <2>8. /\ \A c \in Clients : c # r.client => control'.sequences[c] = numbers[c] /\ stopped'[c] = stopped[c]
          /\ ~old /\ ~full => control'.sequences[r.client] = r.seq
          /\ old \/ full => control'.sequences[r.client] = numbers[r.client]
      BY <2>1, <2>2, <2>3, <2>4
    <2>9. /\ r.op = "stop" /\ ~old /\ r.seq > stopped[r.client] => stopped'[r.client] = r.seq
          /\ ~(r.op = "stop" /\ ~old /\ r.seq > stopped[r.client]) => stopped'[r.client] = stopped[r.client]
      BY <2>1, <2>3, <2>4
    <2> HIDE DEF old, full, numbers
    <2>10. ASSUME NEW c \in Clients
           PROVE  stopped'[c] = 0 \/ stopped'[c] <= control'.sequences[c] \/ Full(control', c)
      <3>1. stopped[c] = 0 \/ stopped[c] <= numbers[c] \/ Full(control, c)
        BY DEF StopInv, numbers
      <3>2. CASE c # r.client
        BY <2>7, <2>8, <3>1, <3>2
      <3>3. CASE c = r.client /\ full
        BY <2>7, <3>3 DEF full
      <3>4. CASE c = r.client /\ ~full /\ old
        <4>1. stopped'[c] = stopped[c] /\ control'.sequences[c] = numbers[c]
          BY <2>8, <2>9, <3>4
        <4>2. QED
          BY <2>7, <3>1, <3>4, <4>1
      <3>5. CASE c = r.client /\ ~full /\ ~old
        <4>1. control'.sequences[c] = r.seq /\ r.seq > numbers[c]
          BY <2>5, <2>8, <3>5
        <4>2. ~Full(control, c)
          BY <3>5 DEF full
        <4>3. stopped'[c] = r.seq \/ stopped'[c] = stopped[c]
          BY <2>9, <3>5
        <4>4. stopped[c] \in Nat /\ numbers[c] \in Int
          BY <2>4
        <4>5. QED
          BY <2>1, <3>1, <4>1, <4>2, <4>3, <4>4
      <3>6. QED
        BY <3>2, <3>3, <3>4, <3>5
    <2>11. ASSUME control'.session # control.session
           PROVE  control'.sequences[control'.owner] > stopped[control'.owner]
      <3>1. ~old /\ ~full /\ control'.owner = r.client
        BY <2>2, <2>11 DEF old, full
      <3>2. stopped[r.client] = 0 \/ stopped[r.client] <= numbers[r.client]
        BY <2>1, <3>1 DEF StopInv, full, numbers
      <3>3. control'.sequences[r.client] = r.seq /\ r.seq > numbers[r.client]
        BY <2>5, <2>8, <3>1
      <3>4. stopped[r.client] \in Nat /\ numbers[r.client] \in Int
        BY <2>1, <2>4
      <3>5. QED
        BY <2>1, <3>1, <3>2, <3>3, <3>4
    <2>12. QED
      BY <2>10, <2>11 DEF StopInv
  <1>5. QED
    BY <1>3, <1>4

LEMMA StopSteps ==
  ASSUME BridgeInv, StopInv, [Next]_vars
  PROVE  /\ StopInv'
         /\ control'.session # control.session
              => control'.sequences[control'.owner] > stopped[control'.owner]
  <1>1. CASE DrainRequest
    BY <1>1, DrainStops
  <1>2. CASE Next /\ ~DrainRequest
    <2>1. /\ control'.sequences = control.sequences /\ control'.session = control.session
          /\ stopped' = stopped
      BY <1>2, OtherSteps
    <2>2. StopInv'
      BY <2>1, FullByNumbers DEF StopInv
    <2>3. QED
      BY <2>1, <2>2
  <1>3. CASE UNCHANGED vars
    BY <1>3 DEF vars, StopInv
  <1>4. QED
    BY <1>1, <1>2, <1>3

\* A stop is final for whatever its client asked for before it.
THEOREM StopFinal == Spec => StopIsFinal
  <1>1. Init => StopInv
    BY DEF Init, StopInv
  <1>2. BridgeInv /\ PcInv /\ StopInv /\ [Next]_vars => StopInv'
    BY StopSteps
  <1>3. BridgeInv /\ StopInv /\ [Next]_vars =>
          [ control'.session # control.session
              => control'.sequences[control'.owner] > stopped[control'.owner] ]_vars
    BY StopSteps
  <1>4. QED
    BY <1>1, <1>2, <1>3, BridgeAlways, PTL DEF Spec, SafetySpec, StopIsFinal

-----------------------------------------------------------------------------
(* The gateway's queue                                                     *)

Wait(r) == IF r \in Web THEN WebWait ELSE AndroidWait

\* The executor has taken r from the queue and is not done with it.
Served(r) == executor.at \in {"check", "handle", "put"} /\ executor.request = r

Queued(r) == (\E i \in DOMAIN commands : commands[i] = r) \/ Served(r)

\* r is being carried out, or was and its answer is not put yet.
Working(r) ==
  /\ InDrain(r)
  /\ executor.at = "put" => effect[r] = "done" /\ answer[r] = "none"

\* What holds of one request: one that is being carried out has not waited longer
\* than the expiry and the time it takes; one that was carried out has its answer,
\* or is about to get it; one that was given up waited long enough, or was never
\* let in; one that has not been sent has not been let in either.
RequestInv(r) ==
  /\ Working(r) => age[r] <= Expiry + spent[r]
  /\ running /\ effect[r] = "done" /\ answer[r] = "none" => executor.at = "put" /\ executor.request = r
  /\ client[r] \in {"busy", "lost"} => age[r] >= Wait(r) \/ (~Queued(r) /\ effect[r] = "none")
  /\ client[r] \in {"new", "buffered"} => ~Queued(r) /\ effect[r] = "none"
  /\ running /\ client[r] \in {"busy", "lost"} /\ effect[r] = "done" => spent[r] >= Margin(r)

\* A drain goes on only while the gateway runs.
ServerInv ==
  /\ ServerTypeOK
  /\ executor.at # "idle" => running
  /\ \A r \in ServerRequests : RequestInv(r)

\* The limits are numbers that a time may be compared with.
LEMMA LimitFacts ==
  ASSUME NEW r \in ServerRequests
  PROVE  /\ Wait(r) \in Times /\ Expiry \in Nat /\ WebWait \in Nat
         /\ Margin(r) = Wait(r) - Expiry
  BY ServerAssumption DEF Wait, Times, Margin

\* One more unit of time, up to the longest wait
LEMMA LaterFacts ==
  ASSUME NEW m \in Times, NEW n \in Times
  PROVE  /\ Later(m) \in Times /\ Later(m) >= m
         /\ m <= Expiry + n => Later(m) <= Expiry + Later(n)
  BY ServerAssumption DEF Times, Later

LEMMA InitServerInv == ServerInit => ServerInv
  <1> SUFFICES ASSUME ServerInit PROVE ServerInv
    OBVIOUS
  <1>1. 0 \in Times /\ 0 \in 0 .. ServerDrainMax /\ 0 <= QueueMax
    BY ServerAssumption DEF Times
  <1>2. commands \in Seq(ServerRequests) /\ Len(commands) = 0
    BY DEF ServerInit
  <1>3. /\ client \in [ServerRequests -> Client] /\ age \in [ServerRequests -> Times]
        /\ spent \in [ServerRequests -> Times]
    BY <1>1 DEF ServerInit, Client
  <1>4. ServerTypeOK
    BY <1>1, <1>2, <1>3 DEF ServerInit, ServerTypeOK
  <1>5. \A r \in ServerRequests : RequestInv(r)
    BY DEF RequestInv, ServerInit, Working, InDrain, Queued, Served, Idle
  <1>6. QED
    BY <1>4, <1>5 DEF ServerInv, ServerInit, Idle

\* The executor is in one of its five places.
LEMMA ExecutorFacts ==
  ASSUME ServerTypeOK
  PROVE  /\ executor.at \in {"idle", "get", "check", "handle", "put"}
         /\ executor.at \in {"check", "handle", "put"} => executor.request \in ServerRequests
         /\ executor.at = "put" => executor.result \in {"ok", "refused"}
  BY DEF ServerTypeOK, Idle, Get

\* Whether a request is served depends on the executor alone.
LEMMA SameExecutor ==
  ASSUME executor' = executor, NEW r
  PROVE  Served(r)' = Served(r) /\ InDrain(r)' = InDrain(r)
  BY DEF Served, InDrain

\* Who is in a queue, after one more was let in or the first was taken out
LEMMA QueueGrows ==
  ASSUME NEW S, NEW s \in Seq(S), NEW q \in S
  PROVE  /\ Append(s, q) \in Seq(S) /\ Len(Append(s, q)) = Len(s) + 1
         /\ \A r : (\E i \in DOMAIN Append(s, q) : Append(s, q)[i] = r)
                     <=> (\E i \in DOMAIN s : s[i] = r) \/ r = q
  <1> DEFINE t == Append(s, q)
  <1>1. t \in Seq(S) /\ Len(t) = Len(s) + 1
    OBVIOUS
  <1>2. /\ DOMAIN s = 1 .. Len(s) /\ DOMAIN t = 1 .. Len(s) + 1 /\ Len(s) \in Nat
        /\ \A i \in 1 .. Len(s) : t[i] = s[i]
        /\ t[Len(s) + 1] = q
    OBVIOUS
  <1> HIDE DEF t
  <1>3. \A r : (\E i \in DOMAIN t : t[i] = r) <=> (\E i \in DOMAIN s : s[i] = r) \/ r = q
    BY <1>2
  <1>4. QED
    BY <1>1, <1>3 DEF t

LEMMA QueueShrinks ==
  ASSUME NEW S, NEW s \in Seq(S), s # <<>>
  PROVE  /\ Head(s) \in S /\ Tail(s) \in Seq(S) /\ Len(Tail(s)) = Len(s) - 1
         /\ \A r : (\E i \in DOMAIN Tail(s) : Tail(s)[i] = r) => (\E i \in DOMAIN s : s[i] = r)
         /\ \E i \in DOMAIN s : s[i] = Head(s)
  <1> DEFINE t == Tail(s)
  <1>1. Head(s) \in S /\ t \in Seq(S) /\ Len(t) = Len(s) - 1
    OBVIOUS
  <1>2. /\ DOMAIN s = 1 .. Len(s) /\ DOMAIN t = 1 .. Len(s) - 1 /\ Len(s) \in Nat /\ Len(s) > 0
        /\ \A i \in 1 .. Len(s) - 1 : t[i] = s[i + 1]
        /\ Head(s) = s[1]
    OBVIOUS
  <1> HIDE DEF t
  <1>3. /\ \A r : (\E i \in DOMAIN t : t[i] = r) => (\E i \in DOMAIN s : s[i] = r)
        /\ \E i \in DOMAIN s : s[i] = Head(s)
    <2>1. \A i \in DOMAIN t : i + 1 \in DOMAIN s /\ t[i] = s[i + 1]
      BY <1>2
    <2>2. 1 \in DOMAIN s
      BY <1>2
    <2>3. QED
      BY <1>2, <2>1, <2>2
  <1>4. QED
    BY <1>1, <1>3 DEF t

\* Letting a request in, or turning it away
LEMMA PutSteps ==
  ASSUME ServerInv, NEW q \in ServerRequests, client[q] \in {"new", "buffered"},
         PutNowait(q), UNCHANGED <<drain, running, ended, spent>>
  PROVE  ServerInv'
  <1>1. /\ ServerTypeOK /\ client \in [ServerRequests -> Client] /\ age \in [ServerRequests -> Times]
        /\ commands \in Seq(ServerRequests) /\ Len(commands) <= QueueMax /\ QueueMax \in Nat
        /\ executor' = executor /\ answer' = answer /\ effect' = effect /\ taken' = taken
        /\ running' = running /\ ended' = ended /\ spent' = spent
    BY ServerAssumption DEF ServerInv, ServerTypeOK, drain
  <1>2. RequestInv(q) /\ ~Queued(q) /\ effect[q] = "none" /\ ~InDrain(q)
    BY DEF ServerInv, RequestInv, Queued, Served, InDrain
  <1>3. CASE Len(commands) < QueueMax
    <2>1. /\ commands' = Append(commands, q)
          /\ age' = [age EXCEPT ![q] = 0] /\ client' = [client EXCEPT ![q] = "waiting"]
      BY <1>3 DEF PutNowait
    <2>2. /\ commands' \in Seq(ServerRequests) /\ Len(commands') <= QueueMax
          /\ \A r : (\E i \in DOMAIN commands' : commands'[i] = r)
                      <=> (\E i \in DOMAIN commands : commands[i] = r) \/ r = q
      <3>1. Len(commands) \in Nat /\ commands' = Append(commands, q)
        BY <1>1, <2>1
      <3>2. QED
        BY <1>1, <1>3, <3>1, QueueGrows
    <2>3. 0 \in Times
      BY ServerAssumption DEF Times
    <2>4. ServerTypeOK'
      BY <1>1, <2>1, <2>2, <2>3 DEF ServerTypeOK, Client
    <2>5. ASSUME NEW r \in ServerRequests PROVE RequestInv(r)'
      <3>1. RequestInv(r)
        BY DEF ServerInv
      <3>2. CASE r = q
        BY <1>1, <1>2, <2>1, <3>2, SameExecutor DEF RequestInv, Working
      <3>3. CASE r # q
        <4>1. client'[r] = client[r] /\ age'[r] = age[r] /\ Queued(r)' = Queued(r)
          BY <1>1, <2>1, <2>2, <3>3, SameExecutor DEF Queued
        <4>2. QED
          BY <1>1, <3>1, <4>1, SameExecutor DEF RequestInv, Working
      <3>4. QED
        BY <3>2, <3>3
    <2>6. QED
      BY <1>1, <2>4, <2>5 DEF ServerInv
  <1>4. CASE ~(Len(commands) < QueueMax)
    <2>1. /\ commands' = commands /\ age' = age
          /\ client' = [client EXCEPT ![q] = IF q \in Web THEN "busy" ELSE "lost"]
      BY <1>4 DEF PutNowait
    <2>2. ServerTypeOK'
      BY <1>1, <2>1 DEF ServerTypeOK, Client
    <2>3. ASSUME NEW r \in ServerRequests PROVE RequestInv(r)'
      <3>1. RequestInv(r) /\ Queued(r)' = Queued(r)
        BY <1>1, <2>1, SameExecutor DEF ServerInv, Queued
      <3>2. CASE r = q
        <4>1. client'[q] \in {"busy", "lost"}
          BY <1>1, <2>1
        <4>2. QED
          BY <1>1, <1>2, <2>1, <3>1, <3>2, <4>1, SameExecutor DEF RequestInv, Working
      <3>3. CASE r # q
        <4>1. client'[r] = client[r]
          BY <1>1, <2>1, <3>3
        <4>2. QED
          BY <1>1, <2>1, <3>1, <4>1, SameExecutor DEF RequestInv, Working
      <3>4. QED
        BY <3>2, <3>3
    <2>4. QED
      BY <1>1, <2>2, <2>3 DEF ServerInv
  <1>5. QED
    BY <1>3, <1>4

\* A thread that only learns something: what it learns is right for its request.
LEMMA ToldSteps ==
  ASSUME ServerInv, NEW q \in ServerRequests, NEW told \in Client,
         client' = [client EXCEPT ![q] = told],
         told # "new",
         told = "buffered" => client[q] = "new",
         told \in {"busy", "lost"} =>
           client[q] = "waiting" /\ answer[q] = "none" /\ WaitOver(q),
         UNCHANGED <<age, commands, drain, running, ended, spent>>
  PROVE  ServerInv'
  <1>1. /\ ServerTypeOK /\ client \in [ServerRequests -> Client]
        /\ executor' = executor /\ answer' = answer /\ effect' = effect /\ taken' = taken
        /\ running' = running /\ ended' = ended /\ spent' = spent /\ age' = age /\ commands' = commands
    BY DEF ServerInv, ServerTypeOK, drain
  <1>2. ServerTypeOK'
    BY <1>1 DEF ServerTypeOK
  <1>3. ASSUME NEW r \in ServerRequests PROVE RequestInv(r)'
    <2>1. RequestInv(r) /\ Queued(r)' = Queued(r) /\ InDrain(r)' = InDrain(r)
      BY <1>1, SameExecutor DEF ServerInv, Queued
    <2>2. CASE r # q \/ told \notin {"busy", "lost"}
      <3>1. \/ client'[r] = client[r]
            \/ client'[r] \notin {"new", "buffered", "busy", "lost"}
            \/ client'[r] = "buffered" /\ client[r] = "new"
        BY <1>1, <2>2
      <3>2. QED
        BY <1>1, <2>1, <3>1 DEF RequestInv, Working
    <2>3. CASE r = q /\ told \in {"busy", "lost"}
      <3>1. age[q] >= Wait(q) /\ client'[q] = told
        BY <1>1, <2>3 DEF WaitOver, Wait
      <3>2. running /\ effect[q] = "done" => Working(q)
        BY <2>1, <2>3 DEF RequestInv, InDrain, Working
      <3>3. running /\ effect[q] = "done" => spent[q] >= Margin(q)
        <4>1. age[q] \in Int /\ spent[q] \in Int /\ Wait(q) \in Int /\ Expiry \in Int
              /\ Margin(q) = Wait(q) - Expiry
          BY <1>1, LimitFacts DEF ServerTypeOK, Times
        <4>2. Working(q) => age[q] <= Expiry + spent[q]
          BY <2>1, <2>3 DEF RequestInv
        <4>3. QED
          BY <3>1, <3>2, <4>1, <4>2
      <3>4. QED
        BY <1>1, <2>1, <2>3, <3>1, <3>3 DEF RequestInv, Working
    <2>4. QED
      BY <2>2, <2>3
  <1>4. QED
    BY <1>1, <1>2, <1>3 DEF ServerInv

\* Taking the next request, or none
LEMMA GetSteps ==
  ASSUME ServerInv, StartDrain \/ GetNowait
  PROVE  ServerInv'
  <1>1. /\ ServerTypeOK /\ commands \in Seq(ServerRequests) /\ Len(commands) <= QueueMax
        /\ client' = client /\ age' = age /\ answer' = answer /\ effect' = effect
        /\ running' = running /\ ended' = ended /\ spent' = spent
        /\ QueueMax \in Nat /\ ServerDrainMax \in Nat
        /\ running
    BY ServerAssumption DEF ServerInv, ServerTypeOK, StartDrain, GetNowait, threads, Get
  <1>2. executor \in {Idle, Get} /\ (\A r : ~Served(r) /\ ~InDrain(r))
    BY DEF StartDrain, GetNowait, Idle, Get, Served, InDrain
  <1>3. CASE executor' \in {Idle, Get} /\ commands' = commands
    <2>1. taken' \in 0 .. ServerDrainMax
      BY <1>1 DEF StartDrain, GetNowait, ServerTypeOK
    <2>2. ServerTypeOK'
      BY <1>1, <1>3, <2>1 DEF ServerTypeOK
    <2>3. \A r : ~Served(r)' /\ ~InDrain(r)'
      BY <1>3 DEF Idle, Get, Served, InDrain
    <2>4. ASSUME NEW r \in ServerRequests PROVE RequestInv(r)'
      <3>1. RequestInv(r) /\ Queued(r)' = Queued(r) /\ executor.at # "put"
        BY <1>2, <1>3, <2>3 DEF ServerInv, Queued, Idle, Get
      <3>2. QED
        BY <1>1, <2>3, <3>1 DEF RequestInv, Working
    <2>5. QED
      BY <1>1, <2>2, <2>4 DEF ServerInv
  <1>4. CASE ~(executor' \in {Idle, Get} /\ commands' = commands)
    <2>1. /\ commands # <<>> /\ taken # ServerDrainMax
          /\ executor' = [at |-> "check", request |-> Head(commands)]
          /\ commands' = Tail(commands) /\ taken' = taken + 1
      BY <1>4 DEF StartDrain, GetNowait
    <2>2. /\ Head(commands) \in ServerRequests
          /\ commands' \in Seq(ServerRequests) /\ Len(commands') <= QueueMax
          /\ \A r : (\E i \in DOMAIN commands' : commands'[i] = r)
                      => (\E i \in DOMAIN commands : commands[i] = r)
          /\ \E i \in DOMAIN commands : commands[i] = Head(commands)
      <3>1. Len(commands) \in Nat
        BY <1>1
      <3>2. QED
        BY <1>1, <2>1, <3>1, QueueShrinks
    <2>3. ServerTypeOK'
      BY <1>1, <2>1, <2>2 DEF ServerTypeOK
    <2>4. ASSUME NEW r \in ServerRequests PROVE RequestInv(r)'
      <3>1. RequestInv(r) /\ executor.at # "put"
        BY <1>2 DEF ServerInv, Idle, Get
      <3>2. Queued(r)' => Queued(r)
        BY <2>1, <2>2 DEF Queued, Served
      <3>3. ~InDrain(r)'
        BY <2>1 DEF InDrain
      <3>4. QED
        BY <1>1, <3>1, <3>2, <3>3 DEF RequestInv, Working
    <2>5. QED
      BY <1>1, <2>3, <2>4 DEF ServerInv
  <1>5. QED
    BY <1>3, <1>4

\* The look at the age of a request begins the time that is spent on it.
LEMMA CheckSteps ==
  ASSUME ServerInv, CheckExpiry
  PROVE  ServerInv'
  <1> DEFINE q == executor.request
  <1>1. /\ ServerTypeOK /\ executor.at = "check" /\ q \in ServerRequests
        /\ client' = client /\ age' = age /\ answer' = answer /\ effect' = effect
        /\ running' = running /\ ended' = ended /\ spent' = spent /\ commands' = commands /\ taken' = taken
    BY ExecutorFacts DEF ServerInv, CheckExpiry, threads
  <1>2. /\ executor'.at \in {"handle", "put"} /\ executor'.request = q
        /\ executor' \in [at : {"check", "handle"}, request : ServerRequests]
                           \cup [at : {"put"}, request : ServerRequests, result : {"ok", "refused"}]
        /\ executor'.at = "handle" => ~ServerExpired(q)
    BY <1>1 DEF CheckExpiry
  <1>3. ServerTypeOK' /\ running
    BY <1>1, <1>2 DEF ServerTypeOK, ServerInv
  <1> HIDE DEF q
  <1>4. ASSUME NEW r \in ServerRequests PROVE RequestInv(r)'
    <2>1. RequestInv(r) /\ (effect[r] = "done" => answer[r] # "none")
      BY <1>1, <1>3 DEF ServerInv, RequestInv
    <2>2. Queued(r)' <=> Queued(r)
      BY <1>1, <1>2 DEF Queued, Served, q
    <2>3. Working(r)' => ~ServerExpired(r)
      BY <1>1, <1>2, <2>1 DEF Working, InDrain
    <2>4. Working(r)' => age[r] <= Expiry + spent[r]
      BY <1>1, <2>3, LimitFacts DEF ServerExpired, ServerTypeOK, Times
    <2>5. QED
      BY <1>1, <2>1, <2>2, <2>4 DEF RequestInv
  <1>5. QED
    BY <1>1, <1>3, <1>4 DEF ServerInv

\* What is carried out although it was given up takes longer than the margin.
LEMMA HandleSteps ==
  ASSUME ServerInv, HandleRequest
  PROVE  ServerInv'
  <1> DEFINE q == executor.request
  <1>1. /\ ServerTypeOK /\ executor.at = "handle" /\ q \in ServerRequests /\ running
        /\ client' = client /\ age' = age /\ answer' = answer
        /\ running' = running /\ ended' = ended /\ spent' = spent /\ commands' = commands /\ taken' = taken
    BY ExecutorFacts DEF ServerInv, HandleRequest, threads
  <1>2. PICK result \in {"ok", "refused"} :
          /\ executor' = [at |-> "put", request |-> q, result |-> result]
          /\ effect' = IF result = "ok" THEN [effect EXCEPT ![q] = "done"] ELSE effect
    BY DEF HandleRequest
  <1>3. ServerTypeOK'
    BY <1>1, <1>2 DEF ServerTypeOK
  <1>4. Queued(q) /\ Working(q)
    BY <1>1 DEF Queued, Served, Working, InDrain
  <1> HIDE DEF q
  <1>5. ASSUME NEW r \in ServerRequests PROVE RequestInv(r)'
    <2>1. RequestInv(r) /\ (effect[r] = "done" => answer[r] # "none")
      BY <1>1 DEF ServerInv, RequestInv
    <2>2. Queued(r)' <=> Queued(r)
      BY <1>1, <1>2 DEF Queued, Served, q
    <2>3. CASE r # q
      <3>1. effect'[r] = effect[r] /\ ~Working(r)'
        BY <1>1, <1>2, <2>3 DEF ServerTypeOK, Working, InDrain
      <3>2. QED
        BY <1>1, <2>1, <2>2, <3>1 DEF RequestInv
    <2>4. CASE r = q
      <3>1. age[q] <= Expiry + spent[q] /\ client[q] \notin {"new", "buffered"}
        BY <1>4, <2>1, <2>4 DEF RequestInv
      <3>2. client[q] \in {"busy", "lost"} => age[q] >= Wait(q)
        BY <1>4, <2>1, <2>4 DEF RequestInv
      <3>3. client[q] \in {"busy", "lost"} => spent[q] >= Margin(q)
        <4>1. age[q] \in Int /\ spent[q] \in Int /\ Wait(q) \in Int /\ Expiry \in Int
              /\ Margin(q) = Wait(q) - Expiry
          BY <1>1, LimitFacts DEF ServerTypeOK, Times
        <4>2. QED
          BY <3>1, <3>2, <4>1
      <3>4. executor'.at = "put" /\ executor'.request = q
        BY <1>2
      <3>5. QED
        BY <1>1, <2>4, <3>1, <3>2, <3>3, <3>4 DEF RequestInv
    <2>5. QED
      BY <2>3, <2>4
  <1>6. QED
    BY <1>1, <1>3, <1>5 DEF ServerInv

LEMMA AnswerSteps ==
  ASSUME ServerInv, PutAnswer
  PROVE  ServerInv'
  <1> DEFINE q == executor.request
  <1>1. /\ ServerTypeOK /\ executor.at = "put" /\ q \in ServerRequests /\ running
        /\ executor.result \in {"ok", "refused"}
        /\ executor' = Get /\ answer' = [answer EXCEPT ![q] = executor.result]
        /\ client' = client /\ age' = age /\ effect' = effect
        /\ running' = running /\ ended' = ended /\ spent' = spent /\ commands' = commands /\ taken' = taken
    BY ExecutorFacts DEF ServerInv, PutAnswer, threads
  <1>2. ServerTypeOK'
    BY <1>1 DEF ServerTypeOK
  <1> HIDE DEF q
  <1>3. ASSUME NEW r \in ServerRequests PROVE RequestInv(r)'
    <2>1. RequestInv(r)
      BY DEF ServerInv
    <2>2. (Queued(r)' => Queued(r)) /\ ~Working(r)'
      BY <1>1 DEF Queued, Served, Working, InDrain, Get
    <2>3. answer'[r] = answer[r] \/ answer'[r] # "none"
      BY <1>1 DEF ServerTypeOK
    <2>4. answer'[r] = "none" => r # q
      BY <1>1 DEF ServerTypeOK
    <2>5. answer'[r] = "none" => effect[r] # "done"
      BY <1>1, <2>1, <2>3, <2>4 DEF RequestInv, q
    <2>6. QED
      BY <1>1, <2>1, <2>2, <2>5 DEF RequestInv
  <1>4. QED
    BY <1>1, <1>2, <1>3 DEF ServerInv

LEMMA CloseSteps ==
  ASSUME ServerInv, ServerClose
  PROVE  ServerInv'
  <1>1. /\ ServerTypeOK /\ executor' = Idle /\ running' = FALSE /\ ended' = ended
        /\ client' = client /\ age' = age /\ answer' = answer /\ effect' = effect
        /\ spent' = spent /\ commands' = commands /\ taken' = taken
    BY DEF ServerInv, ServerClose, threads
  <1>2. ServerTypeOK'
    BY <1>1 DEF ServerTypeOK
  <1>3. ASSUME NEW r \in ServerRequests PROVE RequestInv(r)'
    <2>1. (Queued(r)' => Queued(r)) /\ ~Working(r)' /\ RequestInv(r)
      BY <1>1 DEF ServerInv, Queued, Served, Working, InDrain, Idle
    <2>2. QED
      BY <1>1, <2>1 DEF RequestInv
  <1>4. QED
    BY <1>1, <1>2, <1>3 DEF ServerInv, Idle

\* The end of the process changes nothing else.
LEMMA ExitSteps ==
  ASSUME ServerInv, ServerExit
  PROVE  ServerInv'
  <1>1. /\ ServerTypeOK /\ ended' = TRUE
        /\ client' = client /\ age' = age /\ answer' = answer /\ effect' = effect
        /\ executor' = executor /\ running' = running /\ spent' = spent
        /\ commands' = commands /\ taken' = taken
    BY DEF ServerInv, ServerExit, threads, drain
  <1>2. ServerTypeOK'
    BY <1>1 DEF ServerTypeOK
  <1>3. \A r \in ServerRequests : RequestInv(r)'
    BY <1>1 DEF ServerInv, RequestInv, Working, InDrain, Queued, Served
  <1>4. QED
    BY <1>1, <1>2, <1>3 DEF ServerInv

\* Time goes on for whoever waits, and for the work on a request at the same pace.
LEMMA TimeSteps ==
  ASSUME ServerInv, ServerAdvance
  PROVE  ServerInv'
  <1>1. /\ ServerTypeOK
        /\ age' = [r \in ServerRequests |-> IF InGateway(r) THEN Later(age[r]) ELSE age[r]]
        /\ spent' = [r \in ServerRequests |-> IF InDrain(r) THEN Later(spent[r]) ELSE spent[r]]
        /\ client' = client /\ answer' = answer /\ effect' = effect /\ executor' = executor
        /\ running' = running /\ ended' = ended /\ commands' = commands /\ taken' = taken
    BY DEF ServerInv, ServerAdvance, drain
  <1>2. ASSUME NEW r \in ServerRequests
        PROVE  /\ age[r] \in Times /\ spent[r] \in Times
               /\ age'[r] \in {age[r], Later(age[r])} /\ spent'[r] \in {spent[r], Later(spent[r])}
               /\ InDrain(r) => spent'[r] = Later(spent[r])
    BY <1>1 DEF ServerTypeOK
  <1>3. age' \in [ServerRequests -> Times] /\ spent' \in [ServerRequests -> Times]
    BY <1>1, <1>2, LaterFacts
  <1>4. ServerTypeOK'
    BY <1>1, <1>3 DEF ServerTypeOK
  <1>5. ASSUME NEW r \in ServerRequests PROVE RequestInv(r)'
    <2>1. RequestInv(r) /\ Queued(r)' = Queued(r) /\ Working(r)' = Working(r)
      BY <1>1, SameExecutor DEF ServerInv, Queued, Working
    <2>2. /\ age[r] \in Int /\ age'[r] \in Int /\ spent[r] \in Int /\ spent'[r] \in Int
          /\ Wait(r) \in Int /\ Margin(r) \in Int /\ Expiry \in Int
      BY <1>2, <1>3, LimitFacts DEF Times
    <2>3. age'[r] >= age[r] /\ spent'[r] >= spent[r]
      BY <1>2, <2>2, LaterFacts
    <2>4. Working(r) => age'[r] <= Expiry + spent'[r]
      <3>1. Working(r) => /\ age[r] <= Expiry + spent[r]
                          /\ spent'[r] = Later(spent[r])
        BY <1>2, <2>1 DEF RequestInv, Working
      <3>2. age[r] <= Expiry + spent[r] => Later(age[r]) <= Expiry + Later(spent[r])
        BY <1>2, LaterFacts
      <3>3. Later(age[r]) \in Int /\ Later(age[r]) >= age[r]
        BY <1>2, LaterFacts DEF Times
      <3>4. QED
        BY <1>2, <2>2, <3>1, <3>2, <3>3
    <2>5. age[r] >= Wait(r) => age'[r] >= Wait(r)
      BY <2>2, <2>3
    <2>6. spent[r] >= Margin(r) => spent'[r] >= Margin(r)
      BY <2>2, <2>3
    <2>7. QED
      BY <1>1, <2>1, <2>4, <2>5, <2>6 DEF RequestInv
  <1>6. QED
    BY <1>1, <1>4, <1>5 DEF ServerInv

LEMMA ThreadSteps ==
  ASSUME ServerInv, NEW q \in ServerRequests, Thread(q)
  PROVE  ServerInv'
  <1>1. /\ client \in [ServerRequests -> Client]
        /\ answer[q] \in {"none", "ok", "refused"}
    BY DEF ServerInv, ServerTypeOK
  <1>2. CASE Post(q)
    BY <1>2, PutSteps DEF Post
  <1>3. CASE ReadDatagram(q)
    BY <1>3, PutSteps DEF ReadDatagram
  <1>4. CASE Datagram(q)
    BY <1>4, ToldSteps DEF Datagram, Client
  <1>5. CASE GetAnswer(q)
    <2>1. answer[q] \in Client /\ answer[q] \notin {"new", "buffered", "busy", "lost"}
      BY <1>1, <1>5 DEF GetAnswer, Client
    <2>2. QED
      BY <1>5, <2>1, ToldSteps DEF GetAnswer
  <1>6. CASE GiveUp(q)
    <2> DEFINE told == IF q \in Web THEN "busy" ELSE "lost"
    <2>1. told \in Client /\ told \in {"busy", "lost"}
      BY DEF Client
    <2>2. /\ client' = [client EXCEPT ![q] = told]
          /\ client[q] = "waiting" /\ answer[q] = "none" /\ WaitOver(q)
          /\ UNCHANGED <<age, commands, drain, running, ended, spent>>
      BY <1>6 DEF GiveUp
    <2> HIDE DEF told
    <2>3. QED
      BY <2>1, <2>2, ToldSteps
  <1>7. QED
    BY <1>2, <1>3, <1>4, <1>5, <1>6 DEF Thread

LEMMA ServerSteps == ServerInv /\ [ServerNext]_serverVars => ServerInv'
  <1> SUFFICES ASSUME ServerInv, [ServerNext]_serverVars PROVE ServerInv'
    OBVIOUS
  <1>1. CASE \E q \in ServerRequests : Thread(q)
    BY <1>1, ThreadSteps
  <1>2. CASE Drain
    BY <1>2, GetSteps, CheckSteps, HandleSteps, AnswerSteps DEF Drain
  <1>3. CASE ServerClose
    BY <1>3, CloseSteps
  <1>4. CASE ServerAdvance
    BY <1>4, TimeSteps
  <1>5. CASE UNCHANGED serverVars
    <2>1. ServerTypeOK' /\ (executor'.at # "idle" => running')
      BY <1>5 DEF serverVars, ServerInv, ServerTypeOK
    <2>2. \A r \in ServerRequests : RequestInv(r)'
      BY <1>5 DEF serverVars, ServerInv, RequestInv, Working, InDrain, Queued, Served
    <2>3. QED
      BY <2>1, <2>2 DEF ServerInv
  <1>6. CASE ServerExit
    BY <1>6, ExitSteps
  <1>7. QED
    BY <1>1, <1>2, <1>3, <1>4, <1>5, <1>6 DEF ServerNext

LEMMA ServerAlways == ServerSafetySpec => []ServerInv
  BY InitServerInv, ServerSteps, PTL DEF ServerSafetySpec

\* Whatever threads and drain do in turn, the gateway's records stay well formed
\* and its queue within its limit.
THEOREM ServerTypeCorrect == ServerSpec => []ServerTypeOK
  <1>1. ServerInv => ServerTypeOK
    BY DEF ServerInv
  <1>2. QED
    BY <1>1, ServerAlways, PTL DEF ServerSpec

\* While the gateway runs, a request that its client has given up is carried out
\* only if that took longer than the margin between the waiting time and the expiry.
THEOREM SlowGhost == ServerSpec => []GhostIsSlow
  <1>1. ServerInv => GhostIsSlow
    BY DEF ServerInv, RequestInv, GhostIsSlow
  <1>2. QED
    BY <1>1, ServerAlways, PTL DEF ServerSpec

-----------------------------------------------------------------------------
(* What happens to a request                                               *)

Waits(r) == \E i \in DOMAIN commands : commands[i] = r

\* No request is in the gateway twice: not in the queue, not in the queue and with
\* the executor, and not again after it was carried out or answered.
OnceInv ==
  /\ \A i, j \in DOMAIN commands : commands[i] = commands[j] => i = j
  /\ \A r \in ServerRequests :
       /\ Served(r) => ~Waits(r)
       /\ effect[r] = "done" => ~Waits(r) /\ ~(executor.at \in {"check", "handle"} /\ executor.request = r)
       /\ answer[r] # "none" => ~Waits(r) /\ ~Served(r)
       /\ client[r] \in {"new", "buffered"} => answer[r] = "none"

\* A request whose client waits without an answer is on its way to one.
WaitInv == running => \A r \in ServerRequests :
  client[r] = "waiting" /\ answer[r] = "none" => Waits(r) \/ Served(r)

\* No request is carried out twice.
HandledOnce == executor.at = "handle" => effect[executor.request] = "none"

\* Who is in the queue, after a request was let in or taken out
LEMMA AppendFacts ==
  ASSUME NEW s \in Seq(ServerRequests), NEW q \in ServerRequests,
         \A i \in DOMAIN s : s[i] # q,
         \A i, j \in DOMAIN s : s[i] = s[j] => i = j
  PROVE  LET t == Append(s, q)
         IN  /\ \A i, j \in DOMAIN t : t[i] = t[j] => i = j
             /\ \A r : (\E i \in DOMAIN t : t[i] = r) <=> (\E i \in DOMAIN s : s[i] = r) \/ r = q
  <1> DEFINE t == Append(s, q)
  <1>1. /\ DOMAIN s = 1 .. Len(s) /\ DOMAIN t = 1 .. Len(s) + 1 /\ Len(s) \in Nat
        /\ \A i \in 1 .. Len(s) : t[i] = s[i]
        /\ t[Len(s) + 1] = q
    OBVIOUS
  <1> HIDE DEF t
  <1>2. QED
    BY <1>1 DEF t

LEMMA TailFacts ==
  ASSUME NEW s \in Seq(ServerRequests), s # <<>>,
         \A i, j \in DOMAIN s : s[i] = s[j] => i = j
  PROVE  LET t == Tail(s)
         IN  /\ \A i, j \in DOMAIN t : t[i] = t[j] => i = j
             /\ \A r : (\E i \in DOMAIN s : s[i] = r) <=> (\E i \in DOMAIN t : t[i] = r) \/ r = Head(s)
             /\ \A i \in DOMAIN t : t[i] # Head(s)
  <1> DEFINE t == Tail(s)
  <1>1. /\ DOMAIN s = 1 .. Len(s) /\ DOMAIN t = 1 .. Len(s) - 1 /\ Len(s) \in Nat /\ Len(s) > 0
        /\ \A i \in 1 .. Len(s) - 1 : t[i] = s[i + 1]
        /\ Head(s) = s[1]
    OBVIOUS
  <1> HIDE DEF t
  <1>2. \A i, j \in DOMAIN t : t[i] = t[j] => i = j
    BY <1>1
  <1>3. \A i \in DOMAIN t : t[i] # Head(s)
    BY <1>1
  <1>4. ASSUME NEW r, NEW i \in DOMAIN s, s[i] = r
        PROVE  (\E j \in DOMAIN t : t[j] = r) \/ r = Head(s)
    <2>1. i = 1 \/ (i - 1 \in DOMAIN t /\ t[i - 1] = r)
      BY <1>1, <1>4
    <2>2. QED
      BY <1>1, <1>4, <2>1
  <1>5. ASSUME NEW r, NEW j \in DOMAIN t, t[j] = r
        PROVE  \E i \in DOMAIN s : s[i] = r
    BY <1>1, <1>5
  <1>6. \E i \in DOMAIN s : s[i] = Head(s)
    BY <1>1
  <1>7. QED
    BY <1>2, <1>3, <1>4, <1>5, <1>6 DEF t

LEMMA OnceSteps ==
  ASSUME ServerInv, OnceInv, [ServerNext]_serverVars
  PROVE  OnceInv'
  <1>1. /\ ServerTypeOK /\ commands \in Seq(ServerRequests)
        /\ client \in [ServerRequests -> Client]
        /\ answer \in [ServerRequests -> {"none", "ok", "refused"}]
        /\ effect \in [ServerRequests -> {"none", "done"}]
    BY DEF ServerInv, ServerTypeOK
  <1>2. ASSUME NEW q \in ServerRequests, client[q] \in {"new", "buffered"},
               PutNowait(q), UNCHANGED <<drain, running, ended, spent>>
        PROVE  OnceInv'
    <2>1. executor' = executor /\ answer' = answer /\ effect' = effect
      BY <1>2 DEF drain
    <2>2. ~Waits(q) /\ ~Served(q) /\ effect[q] = "none" /\ answer[q] = "none"
      BY <1>2 DEF ServerInv, RequestInv, Queued, Waits, OnceInv
    <2>3. \A r \in ServerRequests : client'[r] \in {"new", "buffered"} => client[r] \in {"new", "buffered"}
      BY <1>1, <1>2 DEF PutNowait
    <2>4. CASE commands' = commands
      BY <2>1, <2>3, <2>4, SameExecutor DEF OnceInv, Waits
    <2>5. CASE commands' # commands
      <3>1. commands' = Append(commands, q)
        BY <1>2, <2>5 DEF PutNowait
      <3>2. /\ \A i, j \in DOMAIN commands' : commands'[i] = commands'[j] => i = j
            /\ \A r : Waits(r)' <=> Waits(r) \/ r = q
        BY <1>1, <2>2, <3>1, AppendFacts DEF OnceInv, Waits
      <3>3. /\ executor.at \in {"check", "handle"} /\ executor.request = q => Served(q)
            /\ ~Served(q)
        BY <2>2 DEF Served
      <3>4. QED
        BY <2>1, <2>2, <2>3, <3>2, <3>3, SameExecutor DEF OnceInv
    <2>6. QED
      BY <2>4, <2>5
  <1>3. CASE \E q \in ServerRequests : Thread(q)
    <2>1. PICK q \in ServerRequests : Thread(q)
      BY <1>3
    <2>2. CASE Post(q) \/ ReadDatagram(q)
      BY <1>2, <2>2 DEF Post, ReadDatagram
    <2>3. CASE Datagram(q) \/ GetAnswer(q) \/ GiveUp(q)
      <3>1. commands' = commands /\ executor' = executor /\ answer' = answer /\ effect' = effect
        BY <2>3 DEF Datagram, GetAnswer, GiveUp, drain
      <3>2. \A r \in ServerRequests : client'[r] \in {"new", "buffered"} => client[r] \in {"new", "buffered"}
        BY <1>1, <2>3 DEF Datagram, GetAnswer, GiveUp
      <3>3. QED
        BY <3>1, <3>2, SameExecutor DEF OnceInv, Waits
    <2>4. QED
      BY <2>1, <2>2, <2>3 DEF Thread
  <1>4. CASE StartDrain
    <2>1. /\ commands' = commands /\ answer' = answer /\ effect' = effect /\ client' = client
          /\ executor' = Get
      BY <1>4 DEF StartDrain, threads
    <2>2. \A r : ~Served(r)' /\ Waits(r)' = Waits(r) /\ executor'.at \notin {"check", "handle"}
      BY <2>1 DEF Served, Get, Waits
    <2>3. QED
      BY <2>1, <2>2 DEF OnceInv
  <1>5. CASE GetNowait
    <2>1. answer' = answer /\ effect' = effect /\ client' = client
      BY <1>5 DEF GetNowait, threads
    <2>2. CASE executor' = Idle /\ commands' = commands
      <3>1. \A r : ~Served(r)' /\ Waits(r)' = Waits(r) /\ executor'.at \notin {"check", "handle"}
        BY <2>2 DEF Served, Idle, Waits
      <3>2. QED
        BY <2>1, <2>2, <3>1 DEF OnceInv
    <2>3. CASE ~(executor' = Idle /\ commands' = commands)
      <3>1. PICK first : first = Head(commands)
        OBVIOUS
      <3>2. /\ commands # <<>> /\ commands' = Tail(commands)
            /\ executor' = [at |-> "check", request |-> first]
        BY <1>5, <2>3, <3>1 DEF GetNowait
      <3>3. /\ \A i, j \in DOMAIN commands' : commands'[i] = commands'[j] => i = j
            /\ \A r : Waits(r) <=> Waits(r)' \/ r = first
            /\ ~Waits(first)'
        <4>1. \A i, j \in DOMAIN commands : commands[i] = commands[j] => i = j
          BY DEF OnceInv
        <4>2. /\ \A i, j \in DOMAIN Tail(commands) : Tail(commands)[i] = Tail(commands)[j] => i = j
              /\ \A r : (\E i \in DOMAIN commands : commands[i] = r)
                       <=> (\E i \in DOMAIN Tail(commands) : Tail(commands)[i] = r) \/ r = Head(commands)
              /\ \A i \in DOMAIN Tail(commands) : Tail(commands)[i] # Head(commands)
          BY <1>1, <3>2, <4>1, TailFacts
        <4>3. \A r : Waits(r)' <=> \E i \in DOMAIN Tail(commands) : Tail(commands)[i] = r
          BY <3>2 DEF Waits
        <4>4. \A r : Waits(r) <=> Waits(r)' \/ r = first
          BY <3>1, <4>2, <4>3, Zenon DEF Waits
        <4>5. ~Waits(first)'
          BY <3>1, <4>2, <4>3, Zenon
        <4>6. QED
          BY <3>2, <4>2, <4>4, <4>5, Zenon
      <3>4. \A r : Served(r)' <=> r = first
        BY <3>2 DEF Served
      <3>5. executor'.at = "check" /\ executor'.request = first
        BY <3>2
      <3>6. QED
        BY <2>1, <3>3, <3>4, <3>5 DEF OnceInv
    <2>4. QED
      BY <2>2, <2>3
  <1>6. CASE CheckExpiry
    <2>1. /\ commands' = commands /\ answer' = answer /\ effect' = effect /\ client' = client
          /\ executor.at = "check"
      BY <1>6 DEF CheckExpiry, threads
    <2>2. executor'.at \in {"handle", "put"} /\ executor'.request = executor.request
      BY <1>6 DEF CheckExpiry
    <2>3. \A r : (Served(r)' <=> Served(r)) /\ (Waits(r)' <=> Waits(r))
      BY <2>1, <2>2 DEF Served, Waits
    <2>4. QED
      BY <2>1, <2>2, <2>3 DEF OnceInv
  <1>7. CASE HandleRequest
    <2>1. /\ commands' = commands /\ answer' = answer /\ client' = client
          /\ executor.at = "handle"
          /\ executor'.at = "put" /\ executor'.request = executor.request
          /\ \A r \in ServerRequests : effect'[r] = "done" => effect[r] = "done" \/ r = executor.request
      BY <1>1, <1>7 DEF HandleRequest, threads
    <2>2. \A r : (Served(r)' <=> Served(r)) /\ (Waits(r)' <=> Waits(r))
      BY <2>1 DEF Served, Waits
    <2>3. Served(executor.request)
      BY <2>1 DEF Served
    <2>4. QED
      BY <2>1, <2>2, <2>3 DEF OnceInv
  <1>8. CASE PutAnswer
    <2>1. /\ commands' = commands /\ effect' = effect /\ client' = client
          /\ executor.at = "put" /\ executor' = Get
          /\ \A r \in ServerRequests : answer'[r] # "none" => answer[r] # "none" \/ r = executor.request
          /\ \A r \in ServerRequests : r # executor.request => answer'[r] = answer[r]
      BY <1>1, <1>8 DEF PutAnswer, threads
    <2>2. \A r : ~Served(r)' /\ (Waits(r)' <=> Waits(r)) /\ executor'.at \notin {"check", "handle"}
      BY <2>1 DEF Served, Waits, Get
    <2>3. Served(executor.request)
      BY <2>1 DEF Served
    <2>4. \A r \in ServerRequests : client[r] \in {"new", "buffered"} => r # executor.request
      BY <2>3 DEF ServerInv, RequestInv, Queued
    <2>5. QED
      BY <2>1, <2>2, <2>3, <2>4 DEF OnceInv
  <1>9. CASE ServerClose
    <2>1. /\ commands' = commands /\ answer' = answer /\ effect' = effect /\ client' = client
          /\ executor' = Idle
      BY <1>9 DEF ServerClose, threads
    <2>2. \A r : ~Served(r)' /\ (Waits(r)' <=> Waits(r)) /\ executor'.at \notin {"check", "handle"}
      BY <2>1 DEF Served, Idle, Waits
    <2>3. QED
      BY <2>1, <2>2 DEF OnceInv
  <1>10. CASE ServerAdvance \/ ServerExit \/ UNCHANGED serverVars
    <2>1. /\ commands' = commands /\ executor' = executor /\ answer' = answer /\ effect' = effect
          /\ client' = client
      BY <1>10 DEF ServerAdvance, ServerExit, threads, drain, serverVars
    <2>2. QED
      BY <2>1, SameExecutor DEF OnceInv, Waits
  <1>11. QED
    BY <1>3, <1>4, <1>5, <1>6, <1>7, <1>8, <1>9, <1>10 DEF ServerNext, Drain

\* A step that leaves the queue and the executor's request, and puts no client in
\* wait, leaves every waiting client where it was.
LEMMA WaitSteps ==
  ASSUME ServerInv, OnceInv, WaitInv, [ServerNext]_serverVars
  PROVE  WaitInv'
  <1>1. /\ commands \in Seq(ServerRequests)
        /\ client \in [ServerRequests -> Client]
        /\ answer \in [ServerRequests -> {"none", "ok", "refused"}]
    BY DEF ServerInv, ServerTypeOK
  <1>2. ASSUME NEW q \in ServerRequests, client[q] \in {"new", "buffered"},
               PutNowait(q), UNCHANGED <<drain, running, ended, spent>>
        PROVE  WaitInv'
    <2>1. executor' = executor /\ answer' = answer /\ running' = running
      BY <1>2 DEF drain
    <2>2. \A r \in ServerRequests : client'[r] = "waiting" =>
            client[r] = "waiting" \/ (r = q /\ commands' = Append(commands, q))
      BY <1>1, <1>2 DEF PutNowait
    <2>3. CASE commands' = commands
      <3>1. \A r \in ServerRequests : client'[r] = "waiting" => client[r] = "waiting"
        BY <1>1, <1>2, <2>3 DEF PutNowait
      <3>2. QED
        BY <2>1, <2>3, <3>1, SameExecutor DEF WaitInv, Waits
    <2>4. CASE commands' # commands
      <3>1. commands' = Append(commands, q)
        BY <1>2, <2>4 DEF PutNowait
      <3>2. \A i \in DOMAIN commands : commands[i] # q
        BY <1>2 DEF ServerInv, RequestInv, Queued
      <3>3. \A i, j \in DOMAIN commands : commands[i] = commands[j] => i = j
        BY DEF OnceInv
      <3>4. \A r : Waits(r)' <=> Waits(r) \/ r = q
        BY <1>1, <3>1, <3>2, <3>3, AppendFacts DEF Waits
      <3>5. QED
        BY <2>1, <2>2, <3>4, SameExecutor DEF WaitInv
    <2>5. QED
      BY <2>3, <2>4
  <1>3. CASE \E q \in ServerRequests : Thread(q)
    <2>1. PICK q \in ServerRequests : Thread(q)
      BY <1>3
    <2>2. CASE Post(q) \/ ReadDatagram(q)
      BY <1>2, <2>2 DEF Post, ReadDatagram
    <2>3. CASE Datagram(q) \/ GetAnswer(q) \/ GiveUp(q)
      <3>1. commands' = commands /\ executor' = executor /\ answer' = answer /\ running' = running
        BY <2>3 DEF Datagram, GetAnswer, GiveUp, drain
      <3>2. \A r \in ServerRequests : client'[r] = "waiting" => client[r] = "waiting"
        BY <1>1, <2>3 DEF Datagram, GetAnswer, GiveUp
      <3>3. QED
        BY <3>1, <3>2, SameExecutor DEF WaitInv, Waits
    <2>4. QED
      BY <2>1, <2>2, <2>3 DEF Thread
  <1>4. CASE StartDrain
    <2>1. commands' = commands /\ answer' = answer /\ client' = client /\ running' = running
      BY <1>4 DEF StartDrain, threads
    <2>2. \A r : ~Served(r)
      BY <1>4 DEF StartDrain, Idle, Served
    <2>3. QED
      BY <2>1, <2>2 DEF WaitInv, Waits
  <1>5. CASE GetNowait
    <2>1. answer' = answer /\ client' = client /\ running' = running
      BY <1>5 DEF GetNowait, threads
    <2>2. \A r : ~Served(r)
      BY <1>5 DEF GetNowait, Get, Served
    <2>3. CASE executor' = Idle /\ commands' = commands
      BY <2>1, <2>2, <2>3 DEF WaitInv, Waits
    <2>4. CASE ~(executor' = Idle /\ commands' = commands)
      <3>1. PICK first : first = Head(commands)
        OBVIOUS
      <3>2. /\ commands # <<>> /\ commands' = Tail(commands)
            /\ executor' = [at |-> "check", request |-> first]
        BY <1>5, <2>4, <3>1 DEF GetNowait
      <3>3. \A i, j \in DOMAIN commands : commands[i] = commands[j] => i = j
        BY DEF OnceInv
      <3>4. \A r : (\E i \in DOMAIN commands : commands[i] = r)
                <=> (\E i \in DOMAIN Tail(commands) : Tail(commands)[i] = r) \/ r = Head(commands)
        BY <1>1, <3>2, <3>3, TailFacts
      <3>5. \A r : Waits(r)' <=> \E i \in DOMAIN Tail(commands) : Tail(commands)[i] = r
        BY <3>2 DEF Waits
      <3>6. \A r : Waits(r) => Waits(r)' \/ r = first
        BY <3>1, <3>4, <3>5, Zenon DEF Waits
      <3>7. Served(first)'
        BY <3>2 DEF Served
      <3>8. QED
        BY <2>1, <2>2, <3>6, <3>7 DEF WaitInv
    <2>5. QED
      BY <2>3, <2>4
  <1>6. CASE CheckExpiry \/ HandleRequest
    <2>1. commands' = commands /\ answer' = answer /\ client' = client /\ running' = running
      BY <1>6 DEF CheckExpiry, HandleRequest, threads
    <2>2. executor'.at \in {"check", "handle", "put"} /\ executor'.request = executor.request
      BY <1>6 DEF CheckExpiry, HandleRequest
    <2>3. \A r : Served(r) => Served(r)'
      BY <2>2 DEF Served
    <2>4. QED
      BY <2>1, <2>3 DEF WaitInv, Waits
  <1>7. CASE PutAnswer
    <2>1. /\ commands' = commands /\ client' = client /\ running' = running
          /\ executor.at = "put"
          /\ \A r \in ServerRequests : r # executor.request => answer'[r] = answer[r]
      BY <1>1, <1>7 DEF PutAnswer, threads
    <2>2. executor.request \in ServerRequests => answer'[executor.request] # "none"
      <3>1. executor.result \in {"ok", "refused"}
        BY <2>1 DEF ServerInv, ServerTypeOK, Idle, Get
      <3>2. QED
        BY <1>1, <1>7, <3>1 DEF PutAnswer
    <2>3. \A r \in ServerRequests : answer'[r] = "none" => answer[r] = "none" /\ ~Served(r)
      BY <2>1, <2>2 DEF Served
    <2>4. QED
      BY <2>1, <2>3 DEF WaitInv, Waits
  <1>8. CASE ServerClose
    BY <1>8 DEF ServerClose, WaitInv
  <1>9. CASE ServerAdvance \/ ServerExit \/ UNCHANGED serverVars
    <2>1. /\ commands' = commands /\ executor' = executor /\ answer' = answer
          /\ client' = client /\ running' = running
      BY <1>9 DEF ServerAdvance, ServerExit, threads, drain, serverVars
    <2>2. QED
      BY <2>1, SameExecutor DEF WaitInv, Waits
  <1>10. QED
    BY <1>3, <1>4, <1>5, <1>6, <1>7, <1>8, <1>9 DEF ServerNext, Drain

LEMMA RequestsAlways == ServerSafetySpec => [](OnceInv /\ WaitInv)
  <1>1. ServerInit => OnceInv /\ WaitInv
    BY DEF ServerInit, OnceInv, WaitInv, Waits, Served, Idle
  <1>2. ServerInv /\ OnceInv /\ WaitInv /\ [ServerNext]_serverVars => (OnceInv /\ WaitInv)'
    BY OnceSteps, WaitSteps
  <1>3. QED
    BY <1>1, <1>2, ServerAlways, PTL DEF ServerSafetySpec

\* drain() carries no request out twice, whatever its client does and however
\* often the drain is interrupted by its limit of requests.
THEOREM ServedOnce == ServerSpec => []HandledOnce
  <1>1. ServerInv /\ OnceInv => HandledOnce
    <2>1. SUFFICES ASSUME ServerInv, OnceInv, executor.at = "handle"
                   PROVE  effect[executor.request] = "none"
      BY DEF HandledOnce
    <2>2. executor.request \in ServerRequests
      BY <2>1 DEF ServerInv, ServerTypeOK, Idle, Get
    <2>3. effect[executor.request] \in {"none", "done"}
      BY <2>1, <2>2 DEF ServerInv, ServerTypeOK
    <2>4. QED
      BY <2>1, <2>2, <2>3 DEF OnceInv
  <1>2. QED
    BY <1>1, ServerAlways, RequestsAlways, PTL DEF ServerSpec

\* As long as the gateway runs, the request of a client that waits without an answer
\* is in the queue or with the executor: put_nowait, drain and the answer's put
\* drop none.  (What the client is told in the end is EveryPostIsAnswered's.)
THEOREM NobodyIsLost == ServerSpec => []WaitInv
  <1>1. QED
    BY RequestsAlways, PTL DEF ServerSpec
=============================================================================
