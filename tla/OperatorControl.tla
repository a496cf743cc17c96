--------------------------- MODULE OperatorControl ---------------------------
(***************************************************************************)
(* The operator lease of m20_adapter/operator_control.py (class            *)
(* OperatorControl) as operators on a pair: the lease and the gate it      *)
(* arms.  A request names its client, the client's number for it and what  *)
(* it asks for; the payload is kept only as far as it decides anything.    *)
(***************************************************************************)
EXTENDS OperatorGuard, FiniteSets

CONSTANTS
  Clients, Nobody,
  LeaseTimeout,     \* lease_timeout = 0.6
  Capacity          \* 128 entries in `sequences'

ASSUME ControlAssumption ==
  /\ Nobody \notin Clients
  /\ LeaseTimeout \in Nat /\ Capacity \in Nat

Source == Clients \cup {Nobody}

\* A motion carries who asked for it, under which session and when.
Motion == [by : Source, session : Nat, at : Nat]

Motions(client, session, at) == {[by |-> client, session |-> session, at |-> at]}

\* "bad" stands for an action, an unknown operation or a malformed payload.
Op == {"direct", "follow", "zero", "move", "heartbeat", "stop", "bad"}

Start == {"direct", "follow"}     \* op = start, by its mode

Steer == {"zero", "move"}         \* op = velocity, by its value

Control == [preview : BOOLEAN, owner : Source, mode : {"stopped"} \cup Start,
            lastInput : Int, session : Nat, sequences : [Clients -> Int]]

NewControl(preview) ==
  [preview |-> preview, owner |-> Nobody, mode |-> "stopped", lastInput |-> Never,
   session |-> 1, sequences |-> [c \in Clients |-> Never]]

Pair(control, guard) == [control |-> control, guard |-> guard]

-----------------------------------------------------------------------------
StopControl(p) ==
  Pair([p.control EXCEPT !.owner = Nobody, !.mode = "stopped"], Disarm(p.guard))

LeaseEnded(p, now) ==
  /\ p.control.owner # Nobody
  /\ \/ now - p.control.lastInput > LeaseTimeout
     \/ IF p.control.preview THEN ScanProblem(p.guard, now) ELSE ~p.guard.armed

MutantControlTick(p, now) == p

ControlTick(p, now) == IF LeaseEnded(p, now) THEN StopControl(p) ELSE p

-----------------------------------------------------------------------------
(* handle(): `known' is the lease after tick() and after the request's     *)
(* number was noted, which happens before anything else can refuse it.     *)

Full(control, c) ==
  /\ control.sequences[c] = Never
  /\ Cardinality({d \in Clients : control.sequences[d] # Never}) >= Capacity

MutantReplayed(control, r) == Full(control, r.client) /\ r.op # "stop"

\* Refused without a trace: no room for a new client, or an old number.
Replayed(control, r) ==
  \/ Full(control, r.client) /\ r.op # "stop"
  \/ r.seq <= control.sequences[r.client]

Noted(control, r) ==
  IF Full(control, r.client) THEN control
  ELSE [control EXCEPT !.sequences[r.client] = r.seq]

MayStart(p, r, now) ==
  /\ p.control.owner = Nobody
  /\ p.control.preview => ~ScanProblem(p.guard, now)

\* start: a live gate that cannot be armed refuses (and is disarmed).
StartControl(p, r, now) ==
  LET armed == IF p.control.preview THEN p.guard ELSE Arm(p.guard, FALSE, now)
      taken == [p.control EXCEPT !.owner = r.client, !.mode = r.op,
                                 !.session = @ + 1, !.lastInput = now]
  IN  IF p.control.preview \/ armed.armed THEN Pair(taken, armed) ELSE Pair(p.control, armed)

Asked(p, r) ==
  IF r.op = "move" THEN Motions(r.client, p.control.session, r.received) ELSE Zero

MutantKeepAlive(p, r, now) ==
  LET velocity == IF r.op \in Steer THEN Asked(p, r) ELSE p.guard.command
      guard == IF p.control.preview THEN p.guard ELSE UpdateCommand(p.guard, velocity, now)
  IN  Pair([p.control EXCEPT !.lastInput = now], guard)

\* heartbeat, velocity: only a velocity refreshes the command of a live gate.
KeepAlive(p, r, now) ==
  LET guard == IF r.op \in Steer /\ ~p.control.preview THEN UpdateCommand(p.guard, Asked(p, r), now)
               ELSE p.guard
  IN  Pair([p.control EXCEPT !.lastInput = now], guard)

MayDrive(p, r) ==
  /\ p.control.owner = r.client
  /\ r.op \in Steer => p.control.mode = "direct"

Handle(p0, r, now) ==
  LET p == ControlTick(p0, now)
      q == Pair(Noted(p.control, r), p.guard)
  IN  CASE Replayed(p.control, r) -> p
        [] ~Replayed(p.control, r) /\ r.op = "stop" -> StopControl(q)
        [] ~Replayed(p.control, r) /\ r.op \in Start /\ MayStart(p, r, now)
             -> StartControl(q, r, now)
        [] ~Replayed(p.control, r) /\ r.op \in Steer \cup {"heartbeat"} /\ MayDrive(p, r)
             -> KeepAlive(q, r, now)
        [] OTHER -> q

\* follow_command(), for a velocity of the current session.
FollowCommand(p0, velocity, now) ==
  LET p == ControlTick(p0, now) IN
  IF p.control.owner # Nobody /\ p.control.mode = "follow" /\ ~p.control.preview
  THEN Pair(p.control, UpdateCommand(p.guard, velocity, now)) ELSE p
=============================================================================
