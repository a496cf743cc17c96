---------------------------- MODULE OperatorNexus ----------------------------
(***************************************************************************)
(* The operator variant of the C++ node (src/jie_deamon_operator).  It is  *)
(* started in one of two ways.  Behind the bridge (m20.launch.py) it has   *)
(* operator_control and no web, so everything happens on the executor.     *)
(* Standalone (the node's defaults) HTTP, WebSocket and Android threads -  *)
(* the handlers - share its state, and no store of theirs looks at what    *)
(* the executor is about to do.                                            *)
(*                                                                         *)
(* A target is abstracted to its origin: the session that sent it, or      *)
(* Other for a target that no session sent.                                *)
(***************************************************************************)
EXTENDS Integers

CONSTANTS
  Handlers,       \* the web and Android threads of the standalone node
  Sessions,       \* session numbers of the bridge, with 0
  DirectTimeout   \* direct_timeout, in ticks

ASSUME NexusAssumption ==
  /\ Sessions \subseteq Nat /\ 0 \in Sessions
  /\ DirectTimeout \in Nat

Other == -1

VARIABLES
  setup,                    \* "operator" or "standalone"
  target, session,          \* target_x/y, operator_session_
  moving, active, mode,     \* is_moving_enabled, active, control_mode
  direct,                   \* direct_vx/vy/wz and direct_received
  node, handler,            \* what the executor and each thread are about to do
  cmdVel, tagged,           \* the last messages on /cmd_vel and ~/operator_velocity
  reading,                  \* every WebSocket client empties its socket
  commanded, enabled, inFlight   \* history, see the properties

flags == <<moving, active, mode>>
shared == <<target, session, flags, direct>>
history == <<commanded, enabled, inFlight>>
vars == <<setup, shared, node, handler, cmdVel, tagged, reading, history>>

Mode == {"DIRECT", "FOLLOW", "NAV"}
Velocity == {"zero", "follow", "direct"}

Callback ==
  [at : {"idle", "target", "store", "mode", "direct", "again", "first", "second",
         "publish", "broadcast"},
   timer : BOOLEAN, match : BOOLEAN, aim : Sessions \cup {Other}, mode : Mode, out : Velocity]

Idle == [at |-> "idle", timer |-> FALSE, match |-> FALSE, aim |-> 0,
         mode |-> "FOLLOW", out |-> "zero"]

TypeOK ==
  /\ setup \in {"operator", "standalone"}
  /\ target \in Sessions \cup {Other} /\ session \in Sessions
  /\ moving \in BOOLEAN /\ active \in BOOLEAN /\ mode \in Mode
  /\ direct \in [moves : BOOLEAN, age : 0 .. DirectTimeout + 1]
  /\ node \in Callback
  /\ handler \in [Handlers -> {"idle", "switch", "direct"}]
  /\ cmdVel \in Velocity
  /\ tagged \in [session : Sessions, aim : Sessions \cup {Other}, moves : BOOLEAN]
  /\ reading \in BOOLEAN
  /\ commanded \in BOOLEAN /\ enabled \in BOOLEAN /\ inFlight \in BOOLEAN

Init ==
  /\ setup \in {"operator", "standalone"}
  /\ target = Other /\ session = 0
  /\ moving = FALSE /\ mode = "FOLLOW"
  /\ active \in BOOLEAN
  /\ direct = [moves |-> FALSE, age |-> DirectTimeout + 1]
  /\ node = Idle
  /\ handler = [h \in Handlers |-> "idle"]
  /\ cmdVel = "zero"
  /\ tagged = [session |-> 0, aim |-> 0, moves |-> FALSE]
  /\ reading = TRUE
  /\ commanded = FALSE /\ enabled = FALSE /\ inFlight = FALSE

Goto(step) == node' = [node EXCEPT !.at = step]

NoCmd == [moves |-> FALSE, age |-> 0]

-----------------------------------------------------------------------------
(* The scan callback (processScan)                                         *)

ScanActive ==
  /\ node.at = "idle" /\ active
  /\ Goto("target")
  /\ UNCHANGED <<setup, shared, handler, cmdVel, tagged, reading, history>>

\* The target of this frame; a scan without ranges ends the callback.
ScanTarget ==
  /\ node.at = "target"
  /\ \/ \E match \in BOOLEAN :
          node' = [node EXCEPT !.at = IF match THEN "store" ELSE "mode",
                               !.match = match, !.aim = target]
     \/ node' = Idle
  /\ UNCHANGED <<setup, shared, handler, cmdVel, tagged, reading, history>>

\* The centroid replaces the target, whoever set it meanwhile.
StoreCentroid ==
  /\ node.at = "store"
  /\ target' = node.aim
  /\ Goto("mode")
  /\ UNCHANGED <<setup, session, flags, direct, handler, cmdVel, tagged, reading, history>>

LoadMode ==
  /\ node.at = "mode"
  /\ node' = [node EXCEPT !.mode = mode,
                          !.at = IF mode = "DIRECT" THEN "direct"
                                 ELSE IF mode = "FOLLOW" /\ node.match THEN "again"
                                 ELSE "first"]
  /\ UNCHANGED <<setup, shared, handler, cmdVel, tagged, reading, history>>

MutantReadDirect ==
  /\ node.at = "direct"
  /\ node' = [node EXCEPT !.at = IF node.timer THEN "publish" ELSE "first",
                          !.out = IF direct.moves THEN "direct" ELSE "zero"]
  /\ UNCHANGED <<setup, shared, handler, cmdVel, tagged, reading, history>>

\* getDirectCmd: a command older than direct_timeout reads as zero.
ReadDirect ==
  /\ node.at = "direct"
  /\ node' = [node EXCEPT !.at = IF node.timer THEN "publish" ELSE "first",
                          !.out = IF direct.moves /\ direct.age <= DirectTimeout
                                  THEN "direct" ELSE "zero"]
  /\ UNCHANGED <<setup, shared, handler, cmdVel, tagged, reading, history>>

\* The target is read again for the velocity, which an obstacle may make zero.
FollowVelocity ==
  /\ node.at = "again"
  /\ \E out \in {"zero", "follow"} :
       node' = [node EXCEPT !.at = "first", !.aim = target, !.out = out]
  /\ UNCHANGED <<setup, shared, handler, cmdVel, tagged, reading, history>>

\* publishVelocity loads the switch twice; a direct mode passes without it.
Gate ==
  /\ node.at = "first"
  /\ node' = IF moving /\ node.mode # "DIRECT" THEN [node EXCEPT !.at = "second"]
             ELSE [node EXCEPT !.at = "publish",
                               !.out = IF node.mode = "DIRECT" THEN @ ELSE "zero"]
  /\ UNCHANGED <<setup, shared, handler, cmdVel, tagged, reading, history>>

GateAgain ==
  /\ node.at = "second"
  /\ node' = [node EXCEPT !.at = "publish", !.out = IF moving THEN @ ELSE "zero"]
  /\ UNCHANGED <<setup, shared, handler, cmdVel, tagged, reading, history>>

\* vel_cb: behind the bridge the velocity is sent again with its session.
Publish ==
  /\ node.at = "publish"
  /\ cmdVel' = node.out
  /\ tagged' = IF setup = "operator"
               THEN [session |-> session,
                     moves |-> node.out # "zero",
                     aim |-> IF node.out = "follow" THEN node.aim ELSE session]
               ELSE tagged
  /\ IF node.timer
     THEN node' = Idle /\ UNCHANGED inFlight
     ELSE Goto("broadcast") /\ inFlight' = FALSE
  /\ UNCHANGED <<setup, shared, handler, reading, commanded, enabled>>

\* broadcastData blocks on a client that does not read.
Broadcast ==
  /\ node.at = "broadcast" /\ reading
  /\ node' = Idle
  /\ UNCHANGED <<setup, shared, handler, cmdVel, tagged, reading, history>>

-----------------------------------------------------------------------------
(* The other callbacks of the executor                                     *)

Quiet == UNCHANGED <<setup, handler, cmdVel, tagged, reading>>

\* timerCallback, every 100 ms.
DirectTimer ==
  /\ node.at = "idle" /\ mode = "DIRECT"
  /\ node' = [Idle EXCEPT !.at = "direct", !.timer = TRUE, !.mode = "DIRECT"]
  /\ UNCHANGED <<shared, history>> /\ Quiet

\* ~/operator_target: a session with its target, or session 0.
OperatorTarget ==
  /\ setup = "operator" /\ node.at = "idle"
  /\ \E s \in Sessions :
       /\ session' = s
       /\ moving' = (s # 0)
       /\ direct' = NoCmd
       /\ IF s # 0 THEN mode' = "FOLLOW" /\ active' = TRUE /\ target' = s
          ELSE UNCHANGED <<target, mode, active>>
  /\ UNCHANGED <<node, history>> /\ Quiet

MutantSetMoving ==
  /\ node.at = "idle"
  /\ \E on \in {FALSE, setup = "standalone"} :
       /\ moving' = on /\ enabled' = on /\ inFlight' = FALSE
  /\ commanded' = FALSE
  /\ UNCHANGED <<target, session, active, mode, direct, node>> /\ Quiet

\* ~/set_moving: behind the bridge it can only stop.
SetMoving ==
  /\ node.at = "idle"
  /\ \E on \in {FALSE, setup = "standalone"} :
       /\ moving' = on /\ enabled' = on /\ inFlight' = FALSE
  /\ direct' = NoCmd
  /\ commanded' = FALSE
  /\ UNCHANGED <<target, session, active, mode, node>> /\ Quiet

MutantTarget ==
  /\ node.at = "idle"
  /\ target' = Other
  /\ UNCHANGED <<session, flags, direct, node, history>> /\ Quiet

\* ~/target: ignored behind the bridge.
Target ==
  /\ setup = "standalone" /\ node.at = "idle"
  /\ target' = Other
  /\ UNCHANGED <<session, flags, direct, node, history>> /\ Quiet

-----------------------------------------------------------------------------
(* The handlers of the standalone node                                     *)

Handles(h, from) == setup = "standalone" /\ handler[h] = from

Becomes(h, to) == handler' = [handler EXCEPT ![h] = to]

Unseen == UNCHANGED <<setup, session, node, cmdVel, tagged, reading>>

WebTarget(h) ==
  /\ Handles(h, "idle")
  /\ target' = Other
  /\ UNCHANGED <<flags, direct, handler, history>> /\ Unseen

\* A frame that is being computed may have loaded the switch before it went off.
Off == enabled' = FALSE /\ inFlight' = (node.at # "idle" /\ (enabled \/ inFlight))

WebMoving(h) ==
  /\ Handles(h, "idle")
  /\ \/ moving' = TRUE /\ enabled' = TRUE /\ UNCHANGED inFlight
     \/ moving' = FALSE /\ Off
  /\ UNCHANGED <<target, active, mode, direct, handler, commanded>> /\ Unseen

WebActive(h) ==
  /\ Handles(h, "idle")
  /\ active' \in BOOLEAN
  /\ UNCHANGED <<target, moving, mode, direct, handler, history>> /\ Unseen

\* switch_mode stores the mode; for FOLLOW the switch follows in a second step.
SwitchMode(h) ==
  /\ Handles(h, "idle")
  /\ \E m \in Mode :
       /\ mode' = m
       /\ Becomes(h, IF m = "FOLLOW" THEN "switch" ELSE "idle")
  /\ UNCHANGED <<target, moving, active, direct, history>> /\ Unseen

MutantSwitchKeepsMoving(h) ==
  /\ Handles(h, "switch")
  /\ Off
  /\ Becomes(h, "idle")
  /\ UNCHANGED <<target, moving, active, mode, direct, commanded>> /\ Unseen

SwitchDisables(h) ==
  /\ Handles(h, "switch")
  /\ moving' = FALSE
  /\ Off
  /\ Becomes(h, "idle")
  /\ UNCHANGED <<target, active, mode, direct, commanded>> /\ Unseen

\* processDirectCmd: the command first, then the mode.
DirectCmd(h) ==
  /\ Handles(h, "idle")
  /\ \E moves \in BOOLEAN : direct' = [moves |-> moves, age |-> 0]
  /\ commanded' = TRUE
  /\ Becomes(h, "direct")
  /\ UNCHANGED <<target, flags, enabled, inFlight>> /\ Unseen

DirectMode(h) ==
  /\ Handles(h, "direct")
  /\ mode' = "DIRECT"
  /\ Becomes(h, "idle")
  /\ UNCHANGED <<target, moving, active, direct, history>> /\ Unseen

-----------------------------------------------------------------------------
Tick ==
  /\ direct.age <= DirectTimeout
  /\ direct' = [direct EXCEPT !.age = @ + 1]
  /\ UNCHANGED <<setup, target, session, flags, node, handler, cmdVel, tagged,
                 reading, history>>

ClientStalls ==
  /\ setup = "standalone"
  /\ reading' = ~reading
  /\ UNCHANGED <<setup, shared, node, handler, cmdVel, tagged, history>>

Proceed ==
  \/ ScanTarget \/ StoreCentroid \/ LoadMode \/ ReadDirect \/ FollowVelocity
  \/ Gate \/ GateAgain \/ Publish \/ Broadcast

Finish(h) == SwitchDisables(h) \/ DirectMode(h)

Next ==
  \/ ScanActive \/ Proceed
  \/ DirectTimer \/ OperatorTarget \/ SetMoving \/ Target
  \/ \E h \in Handlers :
       \/ Finish(h)
       \/ WebTarget(h) \/ WebMoving(h) \/ WebActive(h) \/ SwitchMode(h)
       \/ DirectCmd(h)
  \/ Tick \/ ClientStalls

\* A callback goes on, a due timer is taken before the next scan, a handler that
\* began finishes and time goes on.
Fairness ==
  /\ WF_vars(Proceed)
  /\ SF_vars(DirectTimer)
  /\ \A h \in Handlers : WF_vars(Finish(h))
  /\ WF_vars(Tick)

Spec == Init /\ [][Next]_vars /\ Fairness

-----------------------------------------------------------------------------
(* Properties                                                              *)

\* Behind the bridge the node keeps its promise: what it sends under a session
\* moves towards that session's target and not at all without a session.
Promise == INSTANCE FollowNode WITH velocity <- tagged
ImplementsFollowNode == Promise!Spec

Publishes(velocity) == node.at = "publish" /\ node'.at # "publish" /\ node.out = velocity

\* After ~/set_moving, on or off, a direct command given before it moves no more.
DirectIsCancelled == [][Publishes("direct") => commanded]_vars

\* After the switch went off - a request to stop, a change to FOLLOW - a follow
\* motion needs somebody to switch it on again; only the frame that was being
\* computed may still move.
FollowNeedsEnable ==
  [][setup = "standalone" /\ Publishes("follow") => enabled \/ inFlight]_vars

\* The robot driven by direct commands stops when they stop, even if no scan
\* comes any more, unless a mode without its own timer takes over.
DirectIsStopped ==
  (cmdVel = "direct" /\ direct.age > DirectTimeout)
    ~> (cmdVel # "direct" \/ direct.age <= DirectTimeout \/ mode # "DIRECT" \/ ~reading)

\* Why the promise and the action properties hold.  What the executor knows of the
\* velocity in its hands: there is none before the mode was loaded, and a direct
\* one was commanded and not cancelled since.
Undecided == {"idle", "target", "store", "mode", "direct", "again"}

VelocityIsKnown ==
  /\ node.at \in Undecided => node.out = "zero"
  /\ node.at = "again" \/ node.out = "follow" => node.mode = "FOLLOW"
  /\ node.out = "direct" => commanded
  /\ direct.moves => commanded

\* Behind the bridge everything runs on the executor, so nothing moves under it.
BridgeIsAlone ==
  setup = "operator" =>
    /\ ~commanded
    /\ session # 0 => target = session
    /\ moving => session # 0
    /\ node.at = "store" \/ node.out = "follow" => node.aim = target
    /\ node.at = "publish" /\ node.out = "follow" => moving

\* Standalone the handlers move the switch, and the history with it.
SwitchIsKnown ==
  setup = "standalone" =>
    /\ session = 0
    /\ moving => enabled
    /\ node.at = "publish" /\ node.out = "follow" => enabled \/ inFlight

IndInv == TypeOK /\ VelocityIsKnown /\ BridgeIsAlone /\ SwitchIsKnown
=============================================================================
