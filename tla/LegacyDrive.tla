----------------------------- MODULE LegacyDrive -----------------------------
(***************************************************************************)
(* The legacy M20 stack, two processes: the follow node (follow_node.cpp,  *)
(* follow_controller.cpp) turns point clouds into commands on a topic, the *)
(* UDP bridge (m20_udp_bridge_node.cpp) turns them into axis frames while  *)
(* it is armed, and carries out posture actions.  The bridge's receiving   *)
(* thread merges status datagrams at any time; its executor decides about  *)
(* a frame under the lock and sends it after the lock is released.         *)
(*                                                                         *)
(* A velocity is abstracted to whether it moves, times to ages that stop   *)
(* counting once they exceed their limit.  motion_output_enabled is on:    *)
(* without it the bridge sends heartbeats only.                            *)
(***************************************************************************)
EXTENDS Integers, Sequences

CONSTANTS
  CloudTimeout, CmdTimeout, StatusTimeout,   \* 350, 250 and 1200 ms, in ticks
  ActionRetry, ActionTimeout, LieDownDelay,  \* 500 ms, 15 s and 500 ms
  Depth,          \* messages the command topic keeps
  Zeros,          \* frames the destructor sends
  Setups          \* bounds: with the follow node, or with commands from
                  \* elsewhere; how many requests on the action topic

ASSUME LegacyAssumption ==
  /\ {CloudTimeout, CmdTimeout, StatusTimeout, ActionRetry, ActionTimeout, LieDownDelay} \subseteq Nat
  /\ Depth \in Nat \ {0} /\ Zeros \in Nat
  /\ Setups \subseteq [follow : BOOLEAN, actions : Nat]

VARIABLES
  setup,       \* how the stack was started
  follow,      \* the follow node: running, enabled, its last result, age of its last cloud
  topic,       \* /m20_follow/cmd_vel, oldest first
  armed,       \* armed_
  command,     \* last_command_ and the age of last_command_time_
  status,      \* robot_status_, merged from datagrams
  statusAge,   \* age of last_status_time_
  action,      \* pending_action_, age of its start and of its last frame
  sending,     \* the axis frame decided but not sent
  phase, left, \* "run", "closing" or "closed"; the frames left to the destructor
  wire,        \* the last axis frame that reached the robot
  requests, posture, outdated, lost   \* bound and history, see the properties

bridge == <<armed, command, action>>
view == <<status, statusAge>>
history == <<requests, posture, outdated, lost>>
process == <<phase, left>>
vars == <<setup, follow, topic, bridge, view, sending, process, wire, history>>

Posture == {"rl", "stand", "soft", "lie"}              \* 17, 1, 2 and 4
Action == {"standup", "liedown", "soft_stop", "gait"}  \* gait: flat or stair

\* usage and safe say whether ControlUsageMode and HES, Charge, Direction allow motion.
Status == [usage : BOOLEAN, state : Posture, safe : BOOLEAN]

TypeOK ==
  /\ setup \in Setups
  /\ follow \in [running : BOOLEAN, enabled : BOOLEAN, moves : BOOLEAN, age : 0 .. CloudTimeout + 1]
  /\ topic \in Seq(BOOLEAN) /\ Len(topic) <= Depth
  /\ armed \in BOOLEAN
  /\ command \in [moves : BOOLEAN, age : 0 .. CmdTimeout + 1]
  /\ status \in Status
  /\ statusAge \in 0 .. StatusTimeout + 1
  /\ action \in [kind : Action \cup {"none"}, age : 0 .. ActionTimeout + 1, sent : 0 .. ActionRetry]
  /\ sending \in {"none", "zero", "move"}
  /\ phase \in {"run", "closing", "closed"} /\ left \in 0 .. Zeros
  /\ wire \in {"zero", "move"}
  /\ requests \in 0 .. setup.actions /\ posture \in BOOLEAN /\ outdated \in BOOLEAN
  /\ lost \in 0 .. Zeros

NoAction == [kind |-> "none", age |-> 0, sent |-> ActionRetry]

Init ==
  /\ setup \in Setups
  /\ \E on \in BOOLEAN :
       follow = [running |-> setup.follow, enabled |-> on /\ setup.follow,
                 moves |-> FALSE, age |-> CloudTimeout + 1]
  /\ topic = <<>>
  /\ armed \in BOOLEAN                      \* arm_on_start
  /\ command = [moves |-> FALSE, age |-> CmdTimeout + 1]
  /\ status = [usage |-> FALSE, state |-> "lie", safe |-> FALSE]
  /\ statusAge = StatusTimeout + 1
  /\ action = NoAction
  /\ sending = "none" /\ phase = "run" /\ left = Zeros /\ wire = "zero"
  /\ requests = 0 /\ posture = FALSE /\ outdated = FALSE /\ lost = 0

-----------------------------------------------------------------------------
(* The follow node                                                         *)

\* Once the bridge's executor has stopped, nothing else is looked at any more.
Others ==
  phase = "run" /\ UNCHANGED <<setup, bridge, view, sending, process, wire, history>>

\* processPointCloud: no target, an obstacle in the emergency distance or a target
\* in every dead zone give no motion.
ProcessPointCloud ==
  /\ follow.running
  /\ \E moves \in {FALSE, follow.enabled} : follow' = [follow EXCEPT !.moves = moves, !.age = 0]
  /\ UNCHANGED topic /\ Others

TargetCallback ==
  /\ follow.running
  /\ follow' = [follow EXCEPT !.moves = FALSE]
  /\ UNCHANGED topic /\ Others

EnableCallback ==
  /\ follow.running
  /\ \E on \in BOOLEAN : follow' = [follow EXCEPT !.enabled = on, !.moves = @ /\ on]
  /\ UNCHANGED topic /\ Others

Fresh == follow.age <= CloudTimeout

Output(moves) ==
  topic' = Append(IF Len(topic) = Depth THEN Tail(topic) ELSE topic, moves)

\* outputTimer: an old cloud resets the controller.
OutputTimer ==
  /\ follow.running
  /\ Output(follow.enabled /\ Fresh /\ follow.moves)
  /\ follow' = [follow EXCEPT !.moves = @ /\ Fresh]
  /\ Others

\* Without the follow node somebody else publishes commands.
OtherCommand ==
  /\ ~setup.follow
  /\ \E moves \in BOOLEAN : Output(moves)
  /\ UNCHANGED follow /\ Others

FollowDies ==
  /\ follow.running
  /\ follow' = [follow EXCEPT !.running = FALSE, !.enabled = FALSE, !.moves = FALSE]
  /\ UNCHANGED topic /\ Others

-----------------------------------------------------------------------------
(* The bridge's receiving thread                                           *)

StatusFresh == statusAge <= StatusTimeout

StatusAllowsMotion == status.usage /\ status.state = "rl" /\ status.safe

Fit == StatusFresh /\ StatusAllowsMotion

\* A datagram carries some of the fields and keeps the others, so that any mixture
\* of old and new values may result; whatever it carries, it renews the time.
ReceiveStatus ==
  /\ phase = "run"
  /\ status' \in Status
  /\ statusAge' = 0
  /\ outdated' = (outdated \/ (sending = "move" /\ ~StatusAllowsMotion'))
  /\ UNCHANGED <<setup, follow, topic, bridge, sending, process, wire, requests, posture, lost>>

-----------------------------------------------------------------------------
(* The bridge's executor                                                   *)

Runs == phase = "run" /\ sending = "none" /\ UNCHANGED <<setup, follow, view, process>>

CmdCallback ==
  /\ Runs /\ topic # <<>>
  /\ command' = [moves |-> Head(topic), age |-> 0]
  /\ topic' = Tail(topic)
  /\ UNCHANGED <<armed, action, sending, wire, history>>

\* /m20/arm with false, or with true and refused.
Refuse ==
  /\ armed' = FALSE
  /\ command' = [command EXCEPT !.moves = FALSE]
  /\ UNCHANGED posture

Accept ==
  /\ armed' = TRUE
  /\ posture' = FALSE
  /\ UNCHANGED command

MutantArmCallback ==
  /\ Runs
  /\ \/ Refuse
     \/ Fit /\ Accept
  /\ UNCHANGED <<topic, action, sending, wire, requests, outdated, lost>>

ArmCallback ==
  /\ Runs
  /\ \/ Refuse
     \/ action.kind = "none" /\ Fit /\ Accept
  /\ UNCHANGED <<topic, action, sending, wire, requests, outdated, lost>>

\* A new action replaces a pending one, and disarms.
ActionCallback ==
  /\ Runs /\ requests < setup.actions
  /\ requests' = requests + 1
  /\ armed' = FALSE
  /\ \E kind \in Action : action' = [kind |-> kind, age |-> 0, sent |-> ActionRetry]
  /\ UNCHANGED <<topic, command, sending, wire, posture, outdated, lost>>

\* "disarm" also drops a pending action.
DisarmAction ==
  /\ Runs
  /\ armed' = FALSE
  /\ action' = NoAction
  /\ UNCHANGED <<topic, command, sending, wire, history>>

Confirmed ==
  CASE action.kind = "standup" -> status.usage /\ status.state = "rl"
    [] action.kind = "liedown" -> status.state = "lie"
    [] action.kind = "soft_stop" -> status.state = "soft"
    [] OTHER -> status.state = "rl"    \* and Gait is the one asked for

\* Whether there is a frame to send: a gait waits for RL control, lying down waits
\* for the motion to have stopped.
HasFrame ==
  /\ action.kind = "gait" => status.state = "rl"
  /\ action.kind = "liedown" => action.age >= LieDownDelay

MutantProcessAction ==
  \/ action.kind = "none" /\ UNCHANGED <<action, posture>>
  \/ action.kind # "none" /\ action.age > ActionTimeout /\ action' = NoAction /\ UNCHANGED posture
  \/ /\ action.kind # "none" /\ action.age <= ActionTimeout
     /\ IF action.sent < ActionRetry \/ ~StatusFresh THEN UNCHANGED <<action, posture>>
        ELSE \/ Confirmed /\ action' = NoAction /\ UNCHANGED posture
             \/ (Confirmed => action.kind = "gait") /\ \E sent \in {FALSE, HasFrame} :
               /\ action' = IF sent THEN [action EXCEPT !.sent = 0, !.age = 0] ELSE action
               /\ posture' = (posture \/ sent)

\* processPendingAction: give up, wait, finish, or send the next frame, which the
\* socket may refuse.
ProcessPendingAction ==
  \/ action.kind = "none" /\ UNCHANGED <<action, posture>>
  \/ action.kind # "none" /\ action.age > ActionTimeout /\ action' = NoAction /\ UNCHANGED posture
  \/ /\ action.kind # "none" /\ action.age <= ActionTimeout
     /\ IF action.sent < ActionRetry \/ ~StatusFresh THEN UNCHANGED <<action, posture>>
        ELSE \/ Confirmed /\ action' = NoAction /\ UNCHANGED posture
             \/ (Confirmed => action.kind = "gait") /\ \E sent \in {FALSE, HasFrame} :
               /\ action' = IF sent THEN [action EXCEPT !.sent = 0] ELSE action
               /\ posture' = (posture \/ sent)

MutantPermitted == armed /\ action'.kind = "none" /\ Fit

MutantPermittedUnfit == armed /\ action'.kind = "none" /\ command.age <= CmdTimeout /\ StatusFresh

\* What commandTimer asks before it passes the last command on.
Permitted == armed /\ action'.kind = "none" /\ command.age <= CmdTimeout /\ Fit

\* commandTimer, under the lock.
Decide ==
  /\ Runs
  /\ ProcessPendingAction
  /\ sending' = IF Permitted /\ command.moves THEN "move" ELSE "zero"
  /\ UNCHANGED <<topic, armed, command, wire, requests, outdated, lost>>

\* Its frame, after the lock: it reaches the robot or is lost.
Send(arrives) ==
  /\ sending # "none"
  /\ sending' = "none"
  /\ wire' = IF arrives THEN sending ELSE wire
  /\ outdated' = FALSE
  /\ UNCHANGED <<setup, follow, topic, bridge, view, process, requests, posture, lost>>

MutantShutdown ==
  /\ phase = "run" /\ sending = "none"
  /\ phase' = IF armed THEN "closing" ELSE "closed"
  /\ armed' = FALSE
  /\ UNCHANGED <<setup, follow, topic, command, action, view, sending, left, wire, history>>

\* The destructor, once the executor has stopped.
Shutdown ==
  /\ phase = "run" /\ sending = "none"
  /\ phase' = "closing"
  /\ armed' = FALSE
  /\ UNCHANGED <<setup, follow, topic, command, action, view, sending, left, wire, history>>

SendZero ==
  /\ phase = "closing" /\ left > 0
  /\ left' = left - 1
  /\ \E arrives \in BOOLEAN :
       /\ wire' = IF arrives THEN "zero" ELSE wire
       /\ lost' = IF arrives THEN lost ELSE lost + 1
  /\ UNCHANGED <<setup, follow, topic, bridge, view, sending, phase, requests, posture, outdated>>

\* The receiving thread is joined and the socket closed.
Closed ==
  /\ phase = "closing" /\ left = 0
  /\ phase' = "closed"
  /\ UNCHANGED <<setup, follow, topic, bridge, view, sending, left, wire, history>>

-----------------------------------------------------------------------------
Older(age, limit) == IF age > limit THEN age ELSE age + 1

Tick ==
  /\ phase = "run"
  /\ follow' = IF follow.running THEN [follow EXCEPT !.age = Older(@, CloudTimeout)]
               ELSE follow
  /\ command' = [command EXCEPT !.age = Older(@, CmdTimeout)]
  /\ statusAge' = Older(statusAge, StatusTimeout)
  /\ action' = IF action.kind = "none" THEN action
               ELSE [action EXCEPT !.age = Older(@, ActionTimeout),
                                   !.sent = Older(@, ActionRetry - 1)]
  /\ UNCHANGED <<setup, topic, armed, status, sending, process, wire, history>>

Next ==
  \/ ProcessPointCloud \/ OtherCommand \/ TargetCallback \/ EnableCallback \/ OutputTimer \/ FollowDies
  \/ ReceiveStatus
  \/ CmdCallback \/ ArmCallback \/ ActionCallback \/ DisarmAction \/ Decide
  \/ \E arrives \in BOOLEAN : Send(arrives)
  \/ Shutdown \/ SendZero \/ Closed
  \/ Tick

\* Timers that are due are served, messages are taken, time goes on, and of the
\* frames that are sent again and again some arrive.
Fairness ==
  /\ WF_vars(OutputTimer) /\ WF_vars(CmdCallback) /\ WF_vars(Decide)
  /\ SF_vars(Send(TRUE)) /\ WF_vars(\E arrives \in BOOLEAN : Send(arrives))
  /\ WF_vars(SendZero) /\ WF_vars(Closed)
  /\ WF_vars(Tick)

Spec == Init /\ [][Next]_vars /\ Fairness

-----------------------------------------------------------------------------
(* Properties                                                              *)

Moves == sending = "move" /\ sending' = "none"

\* Once a posture frame was sent, no axis frame moves the robot before it is armed
\* again, with the action finished and the robot reported ready.
PostureEndsMotion == [][Moves => ~posture]_vars

\* A moving frame follows a status that allows motion; only the frame that was
\* decided before the datagram that forbids it may still leave.
UnfitForOneFrame == [][Moves => StatusAllowsMotion \/ outdated]_vars

Stopped == wire = "zero" \/ phase = "closed"

\* The robot stops when following is disabled or the follow node dies (which then
\* counts as disabled), when the clouds stop and when the status turns bad or old.
MotionIsStopped ==
  /\ (setup.follow /\ ~follow.enabled) ~> (Stopped \/ follow.enabled)
  /\ (setup.follow /\ ~Fresh) ~> (Stopped \/ Fresh)
  /\ ~Fit ~> (Stopped \/ Fit)

\* An action that the robot never confirms is given up.
ActionEnds == (action.kind # "none") ~> (action.kind = "none" \/ phase # "run")

\* The process leaves a moving robot only if every one of its last frames was lost.
ExitIsStopped == phase = "closed" => (wire = "zero" \/ lost = Zeros)

-----------------------------------------------------------------------------
(* The inductive invariant behind the safety properties; its parts hold     *)
(* between any two steps.                                                   *)

\* Neither a pending action nor a posture already asked for leaves the bridge armed.
ActionDisarms == action.kind # "none" \/ posture => ~armed

\* A moving frame on its way belongs to a running, armed bridge.
FrameIsArmed ==
  sending = "move" => armed /\ (StatusAllowsMotion \/ outdated)

\* Each frame of the destructor is still to be sent, has arrived, or is lost, and
\* as long as the robot moves none has arrived.
ZerosAgree ==
  /\ phase # "run" => sending = "none"
  /\ phase = "run" => left = Zeros /\ lost = 0
  /\ phase = "closed" => left = 0
  /\ lost + left <= Zeros
  /\ wire = "move" => lost + left = Zeros

IndInv == TypeOK /\ ActionDisarms /\ FrameIsArmed /\ ZerosAgree
=============================================================================
