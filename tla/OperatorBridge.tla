---------------------------- MODULE OperatorBridge ----------------------------
(***************************************************************************)
(* The operator's way to the robot: the requests that the gateway hands    *)
(* over, the bridge's single-threaded executor with its callbacks and its  *)
(* 20 Hz tick (m20_adapter/bridge.py), the lease and the gate it owns      *)
(* (OperatorControl, OperatorGuard), and the follow node                   *)
(* (src/robot_nexus.cpp) behind two topics of depth one.                   *)
(*                                                                         *)
(* A tick is taken apart where the clock or a signal may come in between;  *)
(* pc says where it is.  The network may lose, repeat, delay and reorder   *)
(* what clients send, so a drain may meet any request at any time; the     *)
(* queue itself is module OperatorServer's.  The follow node's steps       *)
(* commute with those of a tick and are taken between ticks.               *)
(***************************************************************************)
EXTENDS OperatorControl

CONSTANTS
  Setups,         \* how the bridge may be started, with the bounds of each way
  AckTimeout,     \* sync_follow: 1.0
  DrainExpiry,    \* drain: 0.25
  DrainMax        \* requests per drain: 32

\* gateway is enable_operator, dryRun is dry_run, node says that robot_nexus runs.
\* Bounds: a client has numbers[c] numbers for its requests, and the clock stops
\* at until.
Setup == [gateway : BOOLEAN, dryRun : BOOLEAN, node : BOOLEAN,
          numbers : [Clients -> Nat], until : Nat]

ASSUME BridgeAssumption ==
  /\ Setups \subseteq Setup
  /\ AckTimeout \in Nat /\ DrainExpiry \in Nat /\ DrainMax \in Nat \ {0}

VARIABLES
  setup,          \* how this bridge was started
  now,            \* time.monotonic()
  pc,             \* where the executor is
  guard,          \* Bridge.guard
  control,        \* Bridge.operator
  drained,        \* requests taken by this drain
  follow,         \* Bridge.follow_key, follow_ready, follow_started
  node,           \* the session the follow node works for (operator_session_)
  targetTopic,    \* /robot_nexus/operator_target
  velocityTopic,  \* /robot_nexus/operator_velocity
  wire,           \* the last velocity packet the robot got
  stopped         \* for the properties: the newest stop obeyed, per client

vars == <<setup, now, pc, guard, control, drained, follow, node, targetTopic, velocityTopic,
          wire, stopped>>

Empty == -1     \* no message in a topic

Pc == {"idle", "receive", "control", "drain", "sync", "output", "send", "closing", "closed"}

\* What a drain may find in the queue: anything that a client may have sent.
Requests ==
  UNION {[client : {c}, seq : 1 .. setup.numbers[c], op : Op, received : 0 .. now] : c \in Clients}

TypeOK ==
  /\ setup \in Setups
  /\ now \in Nat
  /\ pc \in Pc
  /\ guard \in OperatorGuardRecord(Motion)
  /\ control \in Control
  /\ drained \in 0 .. DrainMax
  /\ follow \in [key : Nat, ready : BOOLEAN, started : Int]
  /\ node \in Nat
  /\ targetTopic \in Nat \cup {Empty}
  /\ velocityTopic \in [session : Nat \cup {Empty}, moves : BOOLEAN]
  /\ wire \in {"silent", "zero", "move"}
  /\ stopped \in [Clients -> Nat]

NoVelocity == [session |-> Empty, moves |-> FALSE]

\* The follow node may have outlived an earlier bridge, whose session differs.
Init ==
  /\ setup \in Setups
  /\ now = 0
  /\ pc = "idle"
  /\ guard = NewOperatorGuard
  /\ control = NewControl(setup.dryRun)
  /\ drained = 0
  /\ follow = [key |-> 0, ready |-> FALSE, started |-> Never]
  /\ node \in IF setup.node THEN {0, 1} ELSE {0}
  /\ targetTopic = Empty
  /\ velocityTopic = NoVelocity
  /\ wire = "silent"
  /\ stopped = [c \in Clients |-> 0]

topics == <<node, targetTopic, velocityTopic>>

-----------------------------------------------------------------------------
(* Callbacks of the executor                                               *)

Callback == pc = "idle" /\ UNCHANGED <<setup, now, pc, drained, follow, wire, stopped>>

OnScan ==
  /\ Callback
  /\ \E valid, clear \in BOOLEAN : guard' = UpdateScan(guard, valid, clear, now)
  /\ UNCHANGED <<control, topics>>

\* /m20/cmd_vel_raw drives only without the gateway; a non-finite one disarms.
OnRaw ==
  /\ Callback
  /\ ~setup.gateway
  /\ \/ \E velocity \in {Zero, Motions(Nobody, control.session, now)} :
          guard' = UpdateCommand(guard, velocity, now)
     \/ guard' = Disarm(guard)
  /\ UNCHANGED <<control, topics>>

\* /m20/arm: with the gateway it can only stop.
OnArm ==
  /\ Callback
  /\ ~setup.gateway
  /\ guard' = Arm(guard, TRUE, now)
  /\ UNCHANGED <<control, topics>>

OnDisarm ==
  /\ Callback
  /\ LET p == StopControl(Pair(control, guard)) IN
       /\ control' = IF setup.gateway THEN p.control ELSE control
       /\ guard' = p.guard
  /\ UNCHANGED topics

\* A dry run takes its status from a topic instead of the robot.
OnMockStatus ==
  /\ Callback
  /\ setup.dryRun
  /\ \/ \E s \in Status : guard' = UpdateStatus(guard, s, now)
     \/ guard' = Disarm(guard)
  /\ UNCHANGED <<control, topics>>

MutantTagged ==
  setup.gateway /\ control.mode = "follow"

\* tagged_command: only a velocity of the current session counts.
Tagged == setup.gateway /\ control.mode = "follow" /\ velocityTopic.session = control.session

\* The velocity carries the session that the node computed it for.
OnTagged ==
  /\ pc = "idle"
  /\ velocityTopic # NoVelocity
  /\ velocityTopic' = NoVelocity
  /\ IF Tagged
     THEN LET velocity == IF velocityTopic.moves
                          THEN Motions(control.owner, velocityTopic.session, now) ELSE Zero
              p == FollowCommand(Pair(control, guard), velocity, now)
          IN  /\ control' = p.control
              /\ guard' = p.guard
              /\ follow' = [follow EXCEPT !.ready = TRUE]
     ELSE UNCHANGED <<control, guard, follow>>
  /\ UNCHANGED <<setup, now, pc, drained, node, targetTopic, wire, stopped>>

\* A tagged velocity that is not finite raises out of the callback and ends
\* the process, as a SIGINT does; Bridge.close follows in either case.
Interrupt ==
  /\ pc \notin {"closing", "closed"}
  /\ pc' = "closing"
  /\ UNCHANGED <<setup, now, guard, control, drained, follow, topics, wire, stopped>>

Callbacks == OnScan \/ OnRaw \/ OnArm \/ OnDisarm \/ OnMockStatus \/ OnTagged

-----------------------------------------------------------------------------
(* The tick                                                                *)

Goto(here, next) == pc = here /\ pc' = next

\* The status queries of the tick and its heartbeat, if the socket is there.
StartTick ==
  /\ Goto("idle", IF setup.dryRun THEN "control" ELSE "receive")
  /\ UNCHANGED <<setup, now, guard, control, drained, follow, topics, wire, stopped>>

\* A status, or an answer with an ErrorCode
Receive ==
  /\ pc = "receive"
  /\ \/ \E s \in Status : guard' = UpdateStatus(guard, s, now)
     \/ guard' = Disarm(guard)
  /\ UNCHANGED <<setup, now, pc, control, drained, follow, topics, wire, stopped>>

ReceiveDone ==
  /\ Goto("receive", "control")
  /\ UNCHANGED <<setup, now, guard, control, drained, follow, topics, wire, stopped>>

\* The tick's own handler: an OSError disarms and skips the rest of the tick.
SocketFails ==
  /\ pc \in {"receive", "send"} /\ pc' = "idle"
  /\ guard' = Disarm(guard)
  /\ UNCHANGED <<setup, now, control, drained, follow, topics, wire, stopped>>

CheckLease ==
  /\ Goto("control", IF setup.gateway THEN "drain" ELSE "output")
  /\ drained' = 0
  /\ LET p == ControlTick(Pair(control, guard), now) IN
       /\ control' = IF setup.gateway THEN p.control ELSE control
       /\ guard' = IF setup.gateway THEN p.guard ELSE guard
  /\ UNCHANGED <<setup, now, follow, topics, wire, stopped>>

Expired(r) == now - r.received > DrainExpiry

\* drain: one request of the queue, refused if it has waited too long.
DrainRequest ==
  /\ pc = "drain"
  /\ drained < DrainMax
  /\ \E r \in Requests :
       LET p == IF Expired(r) THEN Pair(control, guard)
                ELSE Handle(Pair(control, guard), r, now)
           obeyed == ~Expired(r) /\ r.op = "stop" /\ ~Replayed(control, r)
       IN  /\ control' = p.control
           /\ guard' = p.guard
           /\ stopped' = IF obeyed /\ r.seq > stopped[r.client]
                         THEN [stopped EXCEPT ![r.client] = r.seq] ELSE stopped
  /\ drained' = drained + 1
  /\ UNCHANGED <<setup, now, pc, follow, topics, wire>>

DrainDone ==
  /\ Goto("drain", "sync")
  /\ drained' = 0
  /\ UNCHANGED <<setup, now, guard, control, follow, topics, wire, stopped>>

FollowKey == IF control.mode = "follow" THEN control.session ELSE 0

FollowNow ==
  IF FollowKey = follow.key THEN follow
  ELSE [key |-> FollowKey, ready |-> FALSE, started |-> now]

MutantSyncFollow ==
  /\ Goto("sync", "output")
  /\ follow' = FollowNow
  /\ targetTopic' = IF FollowKey # follow.key THEN FollowKey ELSE targetTopic
  /\ guard' = IF FollowKey # 0 /\ ~FollowNow.ready THEN UpdateCommand(guard, Zero, now) ELSE guard
  /\ UNCHANGED <<setup, now, control, drained, node, velocityTopic, wire, stopped>>

\* sync_follow: tell the follow node its session, keep a zero command alive until
\* it answers, and give up when it does not.
SyncFollow ==
  /\ Goto("sync", "output")
  /\ follow' = FollowNow
  /\ targetTopic' = IF FollowKey # follow.key THEN FollowKey ELSE targetTopic
  /\ IF FollowKey # 0 /\ ~FollowNow.ready
     THEN LET p == Pair(control, UpdateCommand(guard, Zero, now))
              q == IF now - FollowNow.started > AckTimeout THEN StopControl(p) ELSE p
          IN  control' = q.control /\ guard' = q.guard
     ELSE UNCHANGED <<control, guard>>
  /\ UNCHANGED <<setup, now, drained, node, velocityTopic, wire, stopped>>

MutantOutputPreview ==
  /\ guard' = Output(guard, now)
  /\ Goto("output", IF ~setup.dryRun /\ guard'.armed THEN "send" ELSE "idle")
  /\ UNCHANGED <<setup, now, control, drained, follow, topics, wire, stopped>>

\* output() is evaluated for the preview topic, and a packet is sent only if a
\* usage mode has selected its sub-command.
OutputPreview ==
  /\ Goto("output", IF ~setup.dryRun /\ guard.selected THEN "send" ELSE "idle")
  /\ guard' = Output(guard, now)
  /\ UNCHANGED <<setup, now, control, drained, follow, topics, wire, stopped>>

\* wire_items() evaluates output() again.
SendPacket ==
  /\ Goto("send", "idle")
  /\ guard' = Output(guard, now)
  /\ wire' = IF Passed(guard, now) = Zero THEN "zero" ELSE "move"
  /\ UNCHANGED <<setup, now, control, drained, follow, topics, stopped>>

Tick == \/ StartTick \/ Receive \/ ReceiveDone \/ SocketFails
        \/ CheckLease \/ DrainRequest \/ DrainDone
        \/ SyncFollow \/ OutputPreview \/ SendPacket

-----------------------------------------------------------------------------
(* The follow node, the end of the process and the clock                   *)

NodeStep ==
  pc = "idle" /\ UNCHANGED <<setup, now, pc, guard, control, drained, follow, wire, stopped>>

\* A target message replaces the session; depth one keeps only the newest.
NodeTarget ==
  /\ NodeStep
  /\ setup.node
  /\ targetTopic # Empty
  /\ node' = targetTopic
  /\ targetTopic' = Empty
  /\ UNCHANGED velocityTopic

TargetLost ==
  /\ NodeStep
  /\ targetTopic # Empty
  /\ targetTopic' = Empty
  /\ UNCHANGED <<node, velocityTopic>>

\* Every scan publishes a velocity under the node's session.
NodeVelocity ==
  /\ NodeStep
  /\ setup.node
  /\ \E moves \in BOOLEAN : velocityTopic' = [session |-> node, moves |-> moves]
  /\ UNCHANGED <<node, targetTopic>>

\* Bridge.close: stop, then a last zero if the socket still works.
Close ==
  /\ Goto("closing", "closed")
  /\ LET p == StopControl(Pair(control, guard)) IN
       /\ control' = IF setup.gateway THEN p.control ELSE control
       /\ guard' = IF setup.gateway THEN p.guard ELSE guard
  /\ wire' \in IF setup.dryRun THEN {wire} ELSE {wire, "zero"}
  /\ UNCHANGED <<setup, now, drained, follow, topics, stopped>>

Advance ==
  /\ pc # "closed"
  /\ now < setup.until
  /\ now' = now + 1
  /\ UNCHANGED <<setup, pc, guard, control, drained, follow, topics, wire, stopped>>

Next == \/ Callbacks \/ Interrupt \/ Tick \/ Close
        \/ NodeTarget \/ TargetLost \/ NodeVelocity \/ Advance

\* The timer fires, a tick that has begun goes on whatever else wants to run, and
\* the socket does not fail for good.
Fairness == /\ SF_vars(StartTick) /\ SF_vars(ReceiveDone) /\ SF_vars(SendPacket)
            /\ WF_vars(CheckLease \/ DrainDone \/ SyncFollow \/ OutputPreview)
            /\ WF_vars(Close)

SafetySpec == Init /\ [][Next]_vars

Spec == SafetySpec /\ Fairness

-----------------------------------------------------------------------------
(* Properties                                                              *)

\* The motion that is latched was asked for by the owner, or by the follow node
\* for the target of the owner's current session, and not for an earlier one.
MotionIsOwned ==
  setup.gateway => \A m \in guard.command : m.by = control.owner /\ m.session = control.session

\* A stop is final for everything its client asked for before it: no late or
\* repeated start brings the lease back.
StopIsFinal ==
  [][ control'.session # control.session
        => control'.sequences[control'.owner] > stopped[control'.owner] ]_vars

\* A packet that moves the robot goes back, in direct mode, to a request that the
\* gateway received within the command timeout and the expiry of the queue: a
\* heartbeat alone does not keep the robot moving.
MotionIsFresh ==
  [][ pc = "send" /\ pc' = "idle" /\ guard'.armed /\ control.mode # "follow"
        => \A m \in guard.command : now - m.at <= CommandTimeout + DrainExpiry ]_vars

\* A motion that has lost its permission is followed by a zero, as long as a
\* sub-command is known to send it with.
MotionIsStopped ==
  (wire = "move" /\ ~guard.armed)
    ~> (wire = "zero" \/ guard.armed \/ ~guard.selected \/ pc = "closed")

\* A follow session that the follow node does not answer in time is given up.
UnansweredFollowEnds ==
  (follow.key # 0 /\ ~follow.ready /\ now - follow.started > AckTimeout)
    ~> (follow.key # control.session \/ control.mode # "follow" \/ follow.ready
          \/ pc = "closed")

\* README.md:350 of jie_deamon_operator: whatever condition of the gate fails, a
\* zero is sent.  (Refuted: a status that selects no sub-command leaves nothing
\* to send the zero with.)
EveryFailureStops ==
  (wire = "move" /\ ~guard.armed) ~> (wire = "zero" \/ guard.armed \/ pc = "closed")

\* The stack implements the lease of module DriverLease.  In a preview a scan that
\* is bad and good again before anyone looks is forgiven, so it is not counted.
Alive == /\ control.owner # Nobody
         /\ now - control.lastInput <= LeaseTimeout
         /\ control.preview \/ guard.armed

Lease == INSTANCE DriverLease WITH
  holder <- control.owner,
  term <- control.session,
  alive <- Alive,
  driving <- guard.command # Zero /\ setup.gateway

ImplementsDriverLease == Lease!Spec
=============================================================================
