# Verification of the follow-and-move stack

TLA+ models, TLC model checks and TLAPS proofs for the program in `src/`: a quadruped robot that
follows a person. Nothing here runs on the robot; every module says which code it stands for.

## 1. The system

| Part | Code | State it keeps | Operations |
|---|---|---|---|
| Motion guard and sending boundary | `motion_control/core.py` | armed, exclusive control, last decision time, four inputs with their stamps; an owed zero | `update_*`, `set_exclusive_control`, `disarm`, `arm`, `evaluate`; `GuardedOutput.tick` |
| NAV_CMD sender | `motion_control/nav_sender.py` | lazy publisher, latched fault | `__call__`, `close` |
| Runtime process | `motion_control/runtime.py` | session lock, armed-once, deadline, ownership verdict, loop position | callbacks for scans, raw commands and the arm service; telemetry, web, probe, tick; exit |
| Web status worker | `motion_control/runtime.py` | newest result, unread failure, sequence number, stop event | fetch, store, `take_pending`, `stop` |
| Telemetry client | `motion_control/telemetry.py` | heartbeat sequence and time | `send_heartbeat`, `poll`, `close` |
| Input parsers | `motion_control/inputs.py` | none | `check_scan`, `parse_web_status` |
| Preview node | `src/jie_deamon` (C++) | `SharedState`: target, generation, selection, moving switch, last scan; the set of WebSocket descriptors | scan callback, watchdog, HTTP and WebSocket handlers; accept loop, connection threads, broadcast, stop |
| Command preview | `src/jie_deamon/scripts/nav_cmd_preview.py` | last command and its age | callbacks and a timer |
| Operator guard | `src/jie_deamon_operator/m20_adapter/core.py` | armed, status, scan verdict, command, each with its time | `update_status`, `update_scan`, `update_command`, `arm`, `output` |
| Operator lease, gateway, bridge | `m20_adapter/operator_control.py`, `operator_server.py`, `bridge.py` | owner, mode, session, sequence numbers; request queue; follow handshake | `handle`, `tick`, `drain`, `sync_follow`, callbacks, `close` |
| Operator-side node | `src/jie_deamon_operator/src/robot_nexus.cpp` and its headers | session, target, moving switch, mode, direct command | target, switch and scan callbacks, direct control timer; web and Android handlers when it runs standalone |
| Legacy follow node and UDP bridge | `src/jie_deamon_operator/legacy/m20_follow_control` | last result and cloud time; armed, last command, merged status, pending action, each with its time | cloud, target, enable, output timer; receive loop, command, arm, action, command timer, destructor |
| Cloud exporter | `tools/drdds_cloud_export.cpp` | counters, stopping flag, publisher pointer, exit code | cloud callback, run loop, shutdown, unwinding |
| Front ends, web pages, launch files, probes, vendored `httplib.h` | various | - | - |

How they interact. The preview node tracks a person in laser scans and publishes raw speeds on
`/new_chase/cmd_vel_raw`; it serves its status over HTTP. The runtime process reads the raw speeds, the
scans, that status (through the worker thread) and the robot's own telemetry (UDP), feeds all four into
the motion guard and, every 50 ms, lets `GuardedOutput` decide and send on `/NAV_CMD`. A person arms it
once per process through a ROS service. The operator stack is a separate way to the robot: a phone or an
Android app asks the gateway's threads, a queue takes the requests to the single-threaded bridge, the lease
decides who drives, and the bridge sends UDP packets chosen by the robot's usage mode. The operator-side node works
for that bridge: it gets a target with a session number and answers with velocities that carry the number. The legacy
stack is a third way: a follow node publishes commands, a UDP bridge turns them into axis frames while it is armed. The
exporter only copies point clouds from the vendor's transport to the network.

### Hard behaviours

* **Interleaving**: the worker thread stores while the main loop applies what it took; the guard is updated
  between a decision and its send; a SIGINT strikes anywhere; gateway threads queue requests while the bridge
  runs and give up waiting before it answers.
* **Time**: every permission is a difference of clock readings (freshness limits, the live window, the probe
  interval, the operator's lease), and the reading and its use are different steps.
* **Flags without a lock**: the C++ nodes share atomics between the executor and web threads; a decision loads them one
  by one, and a handler stores them one by one, while the other runs.
* **Descriptors**: a connection's number is closed by whoever notices first, and given to the next connection.
* **Partial failure**: a send that raises while a zero is owed, a publisher that cannot be created, an SDK call that
  throws in the middle of a shutdown, a cleanup step that fails.
* **Protocols**: one arm per process, a new confirmation per arm, replayed or late requests, acknowledgements
  of a follow session.
* **Liveness**: floods of callbacks must not delay the deadline; a motion must be followed by a zero.

`PROJECT.json` lists each of these at its line, with the properties that cover it.

### What makes each part correct

* *Motion guard, sending boundary*: nothing is released without an arm that no fault has interrupted since; a
  release rests on fresh inputs; a motion is followed by exactly one zero.
* *Runtime process*: one live window per process, never refreshed; a loss between two ticks is never forgiven; a
  release relies on a recent ownership verdict; the process ends and stops the robot.
* *Web status worker*: a failure is never hidden by a later good result; a result is taken once.
* *Velocity limiters*: the wire carries only standing still or effective speeds; both limiters agree.
* *Operator lease and gate*: one driver at a time, armed only under a lease; a lapsed lease is never revived; a stop
  is final; a motion belongs to the current session and is recent.
* *Operator server*: every waiting client is answered, truthfully, and in time, as long as the process lives.
* *Telemetry client*: heartbeats at their interval whatever the traffic; a packet budget per poll.
* *Preview node*: a frame of an old target never overwrites a newer selection; after a loss or a new selection nothing
  moves without a new confirmation; a motion that lost its permission is withdrawn. Its WebSocket threads keep to their
  own connections, leak no descriptor and end, unless a peer keeps them in a call that has no timeout.
* *Operator-side node*: what it sends under a session moves towards that session's target; a direct command ends with
  its sender; a switch-off lasts until somebody switches on.
* *Legacy stack*: the robot stops when commands, clouds or statuses stop or turn bad; posture and motion do not mix; an
  action ends; the exit leaves the robot standing.
* *Cloud exporter*: no callback meets a publisher that is gone; the summary is final; the exit code tells the truth about
  what was queued.

## 2. Modules

| Module | Stands for | Kind |
|---|---|---|
| `MotionGuard` | `motion_control/core.py`, class `MotionGuard` | one operator per method on a record |
| `GuardedOutput` | the same guard behind `GuardedOutput`, with callers on other threads | state machine |
| `LiveSession` | what a live session promises: a permission that is granted once and revoked once | abstract specification |
| `MotionRuntime` | one process of `motion_control/runtime.py`, from its first loop iteration to its exit | state machine |
| `MotionRuntimeProofs` | theorems about `MotionRuntime` | proofs |
| `WebMailbox` | what the worker and its consumer promise each other | abstract specification |
| `WebStatusWorker` | the worker thread, its two slots, the consumer | state machine |
| `WebStatusWorkerProofs` | theorems about `WebStatusWorker` | proofs |
| `VelocityLimit` | `_limit` of `core.py`, then the limiter of `nav_sender.py` | functions and a small state machine |
| `OutputProofs` | theorems about `GuardedOutput` and `VelocityLimit` | proofs |
| `OperatorGuard` | `m20_adapter/core.py`, class `Guard` | one operator per method on a record |
| `OperatorControl` | `m20_adapter/operator_control.py` | operators on the pair of lease and gate |
| `DriverLease` | what the operator stack promises about who drives | abstract specification |
| `OperatorBridge` | `m20_adapter/bridge.py`: callbacks, tick, follow handshake, close; the follow node's two topics | state machine |
| `OperatorServer` | `m20_adapter/operator_server.py`: web threads, the Android thread, queue, drain | state machine |
| `OperatorProofs` | theorems about `OperatorBridge`, with its lease and gate, and `OperatorServer` | proofs |
| `PreviewNexus` | `src/jie_deamon`: `SharedState`, tracker control, watchdog, handlers that write flags | state machine |
| `WebSockets` | `src/jie_deamon/src/web_comm.cpp`: accept loop, connection threads, broadcast, stop | state machine |
| `PreviewProofs` | theorems about `PreviewNexus` and `WebSockets` | proofs |
| `FollowNode` | what the operator-side node promises its bridge | abstract specification |
| `OperatorNexus` | `src/jie_deamon_operator`: `robot_nexus.cpp`, tracker control, `direct_control.hpp`, the handlers of `web_comm.cpp` and `android_comm.cpp` | state machine |
| `OperatorNexusProofs` | theorems about `OperatorNexus` | proofs |
| `LegacyDrive` | `legacy/m20_follow_control`: follow node and UDP bridge | state machine |
| `LegacyDriveProofs` | theorems about `LegacyDrive` | proofs |
| `CloudExport` | `tools/drdds_cloud_export.cpp` | state machine |
| `CloudExportProofs` | theorems about `CloudExport` | proofs |
| `MC*` | instances for TLC: sets of speeds and times, symmetry | instances |

`MotionRuntime` and `GuardedOutput` share `MotionGuard`; `OperatorBridge` is built on `OperatorControl`, which is
built on `OperatorGuard`. `OperatorNexus` implements `FollowNode`, which is what `OperatorBridge` assumes of the node at the other end of
its two topics (`NodeTarget`, `NodeVelocity`). `Mutant...` definitions are plausible bugs: each replaces the definition it is named
after to show that a property notices. Three proof modules extend two state machines that have no variable in common;
where both would use a name, the smaller one's carries a prefix (`LimitSpec`, `ServerSpec`, `SocketSpec`).

### Correspondence and abstractions

* **Time** is a natural number and a stamp is the value of the clock at the reading. A clock step may come before
  every step of the code that reads the clock. A timeout of 0 means "in the same unit".
* **`MotionRuntime`**: `pc` is the place in `main`'s loop: `spin` (callbacks of `_spin_batch`, at most `SpinMax`),
  `telemetry`, `web`, `probe`, `tick` (the decision), `release` (the send), `published` (sent, the owed zero not
  noted yet), `zeroTick`/`zeroArm`/`zeroExit` (a zero is being flushed, by the tick, by a disarm request, by the exit),
  `judge` (`_judge_tick`), `rest`. A SIGINT strikes between two of these steps; inside the exit's guarded
  steps it only costs the step it strikes. Telemetry events are applied in the order of their poll with the
  time of reading. A request to arm probes the graph itself and does not refresh `last_probe`. The process's own
  publisher counts as foreign until a send has confirmed it. Starting up (discovery, sockets, `--live` checks) and
  releasing resources are not modelled.
* **`MotionGuard`**: an input is a stamp and a verdict; the geometry of a scan and the fields of a status are
  reduced to the verdict that the code derives from them. Reasons, logs and diagnoses are left out.
* **`VelocityLimit`**: speeds are integers in the unit of the smallest difference that matters; rounding of floats is
  not modelled. Infinite and NaN speeds are refused before the limiters and are `MotionGuard`'s.
* **`WebStatusWorker`**: a result is a sequence number and whether it is valid. The worker's lock makes `Store` and
  `TakePending` atomic; applying what was taken is a later step.
* **`OperatorGuard`, `OperatorControl`**: a velocity is a set, empty for one that the quantizer makes zero, else the
  motion with who asked for it, under which session, when. A status is complete or not, selects a sub-command or not,
  is fit or not.
* **`OperatorBridge`**: `setup`, chosen in `Init` and never changed, is how the bridge was started: with the gateway or
  not, as a dry run or not, with a follow node or not; it also carries the bounds of the run. A drain may meet any request of any client, with any number, at any age, which covers loss,
  delay, repetition and reordering; the queue is `OperatorServer`'s. The follow node's steps commute with those of a
  tick and are taken between ticks. The session number starts at 1 instead of a random number; a follow node that
  outlived an earlier bridge may know a session that the new bridge has yet to give out. In a preview, where the
  gate is never armed, a scan that is bad and good again between two looks is forgiven, so the refinement
  mapping counts a preview's lease as alive whatever the gate says.
* **`OperatorServer`**: ages instead of stamps, told apart up to the longest wait; a request is carried out or
  refused, what it does is `OperatorControl`'s. `ServerClose` ends the loops; `ServerExit` ends the process and with it the
  threads that still wait, which are daemons. Tokens, origins and JSON are left out: only requests that pass them
  reach the queue.

* **`PreviewNexus`**: one action per lock region or atomic access of `processScan`, `stopPreview`, `watchdogCallback` and
  the handlers. `node` is the callback that the single-threaded executor is in, `handler` what each web thread is about
  to do, `holder` the owner of `target_mutex`. A position is its origin: the number of the selection it was tracked from.
  Which points match and whether the velocity is zero is a choice. The executor's broadcast waits for clients that do
  not read (`reading`). `quiet` counts the ticks since the last good scan. Clearing after a centroid or a velocity that
  is not finite is left out: the points that reach it are finite.
* **`WebSockets`**: the kernel's table of descriptors gives the lowest free number to a new connection; `Close` closes a
  number whatever it denotes by now. A connection is closed with its last reference: a number, or a call that is
  blocked on it (`Held`), which a `close` of the number does not wake. `receiving` is the connection that a thread's `recv`
  waits for: the request of the handshake, or, at `frame`, the rest of a frame that has begun; `running_` is tested between
  two frames only. A send to a peer that left may still succeed. `stalled` is the connection whose full buffer holds the
  broadcast and its mutex. What the messages say is left out.
* **`OperatorNexus`**: `setup` is how the node was started: behind the bridge (`m20.launch.py`: no web, no Android) or
  standalone. As in `PreviewNexus` the callback's loads are separate steps; the target is read again for the velocity and
  the switch is loaded twice (`Gate`, `GateAgain`), as in the code. The Android handlers are the same operations as the
  web's.
* **`LegacyDrive`**: a velocity moves or not; times are ages that stop counting beyond their limit. A status datagram may
  carry any of its fields, so any mixture of old and new values may result. The decision about a frame and its send are
  two steps because the lock is released in between. A command that waited in the topic is stamped when it is read.
* **`CloudExport`**: `main` is a program counter; `callback` past `enter` holds `g_cb_mutex`. Any SDK call may throw, the final
  `Delete` inside the `try` included, which the failure path then repeats. The vendor's destructors wait for a running callback and stop the worker, as the code's comments rely on.

## 3. Runs

| Run | Question | Bounds | Distinct states |
|---|---|---|---|
| `guarded_output` | Does the guard release only under an unbroken and newly confirmed arm, and does a zero follow every motion? | stamps and clock readings in a set that runs backwards too, limits 0 and 1 | 15 711 |
| `motion_runtime` | Is the live window kept on every interleaving of callbacks, packets, results, probes, failures and SIGINT, and does a robot in motion get its zero at the end of it? Does the process implement `LiveSession`? | clock up to 2, window 2, two callbacks and one packet per iteration | 692 608 |
| `web_worker` | Does any good result overtake a failure? Are the slots a mailbox? | four results: a failure, a good one, a second failure, a second good one | 5 073 |
| `velocity_limit` | Is what a decision reports what the wire carries? | speeds from below to above every limit and dead zone | 11 776 |
| `operator_bridge` | Who may drive, how old may the request behind a moving packet be, can a velocity of another session be latched, is a motion stopped, an unanswered session given up? Does the stack implement `DriverLease`? | six ways to start the bridge (`MCSetups`), up to three numbers per client, clock up to 2, room for one client of two, drain of 1 | 724 321 |
| `operator_failure` | Does every failure of the gate lead to a zero? (refuted) | no clock step needed | - |
| `operator_server` | Is everybody answered while the process lives, and what happens to a request that was given up? | one web request, two datagrams, queue of 2, drain of 1 | 440 683 |
| `preview_nexus` | Can an old frame, a race of two handlers or a stalled client move the robot without a confirmation, or keep it moving? | two web threads, two selections, a scan limit of 1 | 96 388 |
| `web_sockets` | What do threads know about a number that others may close? Does everything end, and who can prevent it? | three connections, accepted in the order they wait, two descriptors | 123 264 |
| `operator_nexus` | Does the node keep its promise to the bridge, and what survives a switch-off standalone? | two handlers, two sessions, a direct command of one tick | 337 716 |
| `legacy_drive` | Does the robot stop, do posture and motion mix, is the exit safe? | limits of no or one tick, a topic of depth 1, two final frames, one action request | 227 146 |
| `cloud_export` | Does a callback meet a dead publisher, is the summary true? | three clouds, two ticks, bounded and continuous | 9 830 |

Why the bounds are enough to meet the interesting cases: every limit is smaller than the clock's bound, so each
permission both holds and lapses; in `motion_runtime` the window outlives the command limit, so a loss inside the window
and the end of the window are different events. `MCSetups` gives each way to start the bridge the bounds it needs: one
client with three numbers can start, move and send a heartbeat while the lease outlives the command, so that a
heartbeat could keep an old velocity alive; one client whose lease lapses; two clients, of whom one may interfere with a
live session and meets a full table; the follow node with two sessions and one of an earlier bridge; a preview whose
client comes back late; and the bridge without the gateway. In `operator_server` the three requests meet a full queue, a
drain that ends at its limit and a waiting time that differs between web and Android. In `preview_nexus` two
handlers race each other and the executor, and the second selection meets frames, enables and clears of the first. In
`web_sockets` the third connection must use a number again, so a second close of it hits a stranger. In `legacy_drive` a
limit of 0 means "in the same unit"; the action outlives its retry and its delay, a command waits in the topic while
its sender dies, and one of the two last frames may be lost or both. In `cloud_export` the third cloud can arrive at any
step of the shutdown after two were counted.

Deadlock is checked in every run but `operator_bridge`, `operator_failure`, `operator_server`, `web_sockets`,
`legacy_drive` and `cloud_export`, whose systems stop: a closed bridge, a stopped server whose clients are gone, an ended
process.

Every property has a mutant in `PROJECT.json`: a plausible bug of one definition that makes the run fail.

### Fairness

* `GuardedOutput`: weak fairness of the tick, which a 20 Hz loop calls.
* `MotionRuntime`: weak fairness of the main thread (a single thread that the operating system schedules) and strong
  fairness of the clock, which moves on in reality whatever the thread does; callbacks, packets, failures and signals
  are not fair.
* `OperatorBridge`: strong fairness of starting a tick (the timer is served among the executor's callbacks), of leaving
  the receive loop and of a send that succeeds (the socket does not fail for good), weak fairness of the rest of the
  tick. Nothing is assumed of clients, of the follow node, of robot statuses or of the clock.
* `OperatorServer`: weak fairness of each waiting thread and of the clock until the process ends. Nothing is assumed of the
  drain: the executor may hang in a callback.
* `PreviewNexus`: weak fairness of the steps of a callback and of a handler that began, strong fairness of the watchdog
  timer (the executor takes a timer that is due before the next scan). Nobody owes scans, requests or that a client
  reads.
* `WebSockets`: weak fairness of what a thread can do by itself (`ThreadStep`), of the second half of `stop` and of a blocked
  send whose peer has left. A peer owes nothing: neither a request, nor the rest of a frame, nor that it reads or leaves.
* `OperatorNexus`: as `PreviewNexus`, with the direct control timer in place of the watchdog, and weak fairness of time.
* `LegacyDrive`: weak fairness of the timers, of taking a command, of time and of the destructor's steps; strong fairness
  of a frame that arrives: of frames that are sent again and again, some get through.
* `WebStatusWorker`, `VelocityLimit`, `CloudExport`: none; their properties are about what never happens.

## 4. Findings

`operator_failure` shows a disagreement between code and documentation: a status that selects no sub-command disarms the
gate but leaves nothing to send the zero with; `README.md:350` of the operator package promises a zero. `MotionIsStopped`
is what remains true.

What else modelling showed; each is part of a model, and the properties that hold are stated around it:

* *A SIGINT between the send of a released velocity and the note of the owed zero* (`core.py:288-292`) makes the orderly
  exit skip the zero. `MotionIsOwedZero`, and its proof, name this exception.
* *`stop_hits_required` above 1 has no effect on a live bridge*: the noisy frame overwrites the verdict that the next
  `output()` reads (`m20_adapter/core.py:253`). The error is on the safe side.
* *Preview, a lost old target clears a newer selection*: `processScan` tests the selection and clears it in two steps
  (`lidar_tracker.hpp:321-322`). The robot stops; the person has to select again.
* *Preview, the enable is tested for one target and stored for another* (`web_comm.cpp:73-79`) when a selection comes in
  between. `NewTargetNeedsEnable` counts that store as the confirmation of the new target.
* *Preview, a client that stops reading stops the watchdog*: the broadcast's send blocks the executor
  (`web_comm.cpp:360`). Hence the exception in `MotionIsWithdrawn`; `nav_cmd_preview` and the runtime's own limits do not
  depend on this node's zeros.
* *Preview, a descriptor may be closed twice* (`web_comm.cpp:219`, `361`, `106`): the second close may hit a connection that
  has got the number meanwhile. `ThreadsKeepToTheirOwn` holds until the first such close, `GoneIsClosed` always.
* *Preview, `stop` does not end every connection thread*: `recvWebSocketMessage` (`web_comm.cpp:310-344`) reads without a
  timeout, and closing the number does not wake a `recv` that is in progress. A peer that begins a frame and stays silent
  keeps its detached thread until the process ends. `ServiceEnds` names this exception and the one of the stalled broadcast.
* *Operator server, the end of the process*: `close` waits two seconds at most for the two loops and not for the threads of
  the requests, which are daemons; a web client may be left without an answer. `EveryPostIsAnswered` ends there.
* *Operator-side node, standalone*: a frame's centroid overwrites a target that was set while the frame was computed; this
  variant has no generation counter. Behind the bridge everything runs on one thread and the promise holds.
* *Legacy bridge*: a datagram with a single field renews the age of the whole status; a bad status stops the motion but
  does not disarm; `disarm` drops a pending soft stop; a command that waited in the topic counts as new when it is read.

## 5. Proofs

All theorems hold for every value of the constants under the assumptions named in the modules that declare them
(`TTLAssumption`, `RuntimeAssumption`, `LimitAssumption`, `ServerAssumption`, ...): limits, budgets and timeouts are naturals,
windows, intervals and capacities positive where the code needs them so, and sets that must not meet do not. The bounds of
the runs (how many numbers, sessions, results, clients, clock steps) are arbitrary in the proofs.

**`MotionRuntimeProofs`**. The safety properties are not inductive by themselves: whether `release` is a legal place
depends on why the guard is armed there. The inductive invariant `IndInv` is the conjunction of

* `TypeOK`;
* `ArmedWindow`: what an armed guard implies (armed once, not locked, a working sender, a healthy verdict, a robot that has
  not been stopped) and what a process that was never armed has not done;
* `PhaseFacts`: what each place of the loop knows: at `release` the decision has just been made on fresh inputs inside
  the window; at `published` the guard is still armed; wherever a zero is on its way the guard is off;
* `LossEndsSession` and `MotionIsOwedZero` themselves.

`InitIndInv` and `NextStep` show it inductive, with one lemma per action or family of actions (`InformStep` for everything
that only informs the guard, `MoveStep` for steps that only move `pc`, `RequestArmStep`, `TickStep`, `ReleaseStep`, ...), over
lemmas on the guard's operators (`ArmFacts`, `EvaluateFacts`, ...). From it follow `TypeCorrect`, `ReleaseIsPermitted`,
`ReleaseIsOwned`, `LockedMeansOff`, `LossIsNotForgiven`, `MotionOwesZero`, `OwnPublisherIsKnown`; the action property
`WindowNeverMoves`; and `Refinement`: under `Permit`, `Hand` every step is a step of `LiveSession` or a stutter.

**`OutputProofs`**. `GuardInv` relates the guard to its history, which the properties of `GuardedOutput` speak of: an armed
guard has its output enabled and was not refused anything since it was armed, and a confirmation that counts is newer than
every refusal. `Follows` says once what any method may do to the guard, one lemma per method shows that it does, and
`FollowingKeeps` that `GuardInv` survives it; stamps and clock readings are arbitrary integers. Hence `UnbrokenArm` and
`NewConfirmation`. `ZeroStaysOwed` is the safety half of `StopFollows`: whatever the callers on other threads do between a
decision and its send, a robot that was told to move is owed a zero or is about to get it, but for a send that raised. For
`VelocityLimit`, `LimitersAgree` shows that the sender's limiter leaves what the first limiter has passed as it is. With
the invariant `LimitInv` this gives `RangeHolds` and `ReportIsHonest` for every set of raw speeds.

**`OperatorProofs`**, `OperatorBridge`. Lease and gate change only together, in the pair that `OperatorControl`'s operators take
and return, so the proof says in a few relations on pairs what any operation may do: `Rests` (nothing that matters),
`Loses` (the gate disarms), `Calms` (a latched motion becomes zero), `Ends`, `Starts` and `Drives` (the lease is ended, given,
used), `Raws` (the bridge without the gateway). One lemma per operator puts it into such a relation, `StepMoves` every
step of the bridge. `BridgeInv` (nothing is latched in a gate that is not armed, what is latched belongs to the lease, with
the gateway only a lease arms, without it nobody has one) survives each relation. `MotionOwned` and the refinement
`LeaseRefined` follow from the relations, not from the actions one by one; `MotionFresh` adds what `output()` lets pass. `StopFinal` is about numbers
instead: `StopInv` says that a stop that was obeyed is covered by the number noted for its client - or that its client has
no place in the table, which is full, and so cannot start; without this second case it is not inductive.

**`OperatorProofs`**, `OperatorServer` (`ServerAssumption`). `RequestInv` says of each request that one being carried out is not
older than the expiry and the time it takes, that one carried out has its answer, is about to get it or was cut off by
`close`, and that one given up has waited its time or will not be carried out; `SlowGhost` is the arithmetic that follows.
`OnceInv` (no request is in the queue twice, in the queue and with the executor, or in either after it was carried out or
answered) gives `ServedOnce`; `WaitInv` says that no request of a waiting client falls out of the gateway between
`put_nowait` and its answer (`NobodyIsLost`).

In the proof modules below the inductive invariant stands at the end of the component's own module, as `IndInv`
(`SocketInv` in `WebSockets`) with named parts; `InitIndInv` and one lemma per action (or per process) show it inductive, `Inductive` concludes.

**`WebStatusWorkerProofs`**. `NoFailureOvertaken` speaks of what was applied and not of what is still in the slots, so three
parts are added: `SlotsAgree` (the newest result and the newest failure not yet taken, and when they are the same),
`ItemsOrdered` (what was taken is applied in the order of its numbers, of two results the failure first) and
`FailuresCovered` (every stored failure has been applied, is applied next, or waits in its slot - or a newer one does).
`MailboxIsImplemented` maps both slots to the abstract mailbox, step by step. The bound on the number of
results is arbitrary in the proofs.

**`PreviewProofs`**, `PreviewNexus` (`PreviewAssumption`). `MutexHeld` says who is inside a critical section, `SnapshotIsOne` that a frame is
judged by the one generation it was taken with, `MotionIsEarned` what the node knows at each place of the scan callback: a
velocity other than zero exists only after target, activity and switch were read, and belongs to a target that was confirmed
or replaced since. These with `TypeOK` make `TargetIsNewest` inductive, and give the three properties of published motion.

**`PreviewProofs`**, `WebSockets` (`SocketAssumption`). `ThreadsKeepToTheirOwn` is almost inductive: two threads at work cannot share a
descriptor because the kernel's table is a function. `WaitingIsUnserved` adds that a connection in the backlog has no thread
yet, so that the number it is given belongs to nobody at work; `ReadingIsInRecv` that a thread is blocked only where it calls
`recv`.
`ThreadsKeepToTheirOwn` ends with the first descriptor that is closed under its thread. `NothingLeaks`, proved as
`NoDescriptorLeaks`, does not: however numbers are used again and closed twice, a number in use belongs to a thread that has
yet to close it, and a connection that is not closed has such a number or a call that is blocked on it. It is the safety
half of `GoneIsClosed`.

**`OperatorNexusProofs`** (`NexusAssumption`). `VelocityIsKnown` (there is no velocity before the mode was loaded, a direct one was
commanded and not cancelled), `BridgeIsAlone` (behind the bridge target, session and switch change only on
the executor, so that they agree) and `SwitchIsKnown` (standalone the switch agrees with its history).
`PromiseIsKept` is the refinement of `FollowNode`, which `OperatorBridge` assumes.

**`LegacyDriveProofs`** (`LegacyAssumption`). `ActionDisarms` (neither a pending action nor a posture asked for leaves the bridge
armed), `FrameIsArmed` (a moving frame between decision and sending belongs to an armed bridge whose status allowed it),
`ZerosAgree` (each of the destructor's frames is to be sent, has arrived or is lost). The limits, the depth of the topic, the
number of last frames and of requests are arbitrary, which the runs with limits of no or one tick cannot show.

**`CloudExportProofs`** (`ExportAssumption`). `ScopesNest` (who is inside `on_cloud` has a subscriber, which has a publisher until
the fence), `FenceHolds` (what has passed the fence finds no callback counting or writing, and what failed exits with 3), `CountsAgree` (every counted
cloud was queued or failed, but for the one in hand).

Some theorems state properties no run repeats because their proofs cover every instance: the `TypeCorrect`s,
`LockedMeansOff`, `OwnPublisherIsKnown`, `WindowNeverMoves`, `RangeHolds`, `ZeroStaysOwed`, `ServedOnce`, `NobodyIsLost`,
`NoDescriptorLeaks`.

Every invariant, action property and refinement that a passing run checks is also a theorem. Only model-checked are the
liveness properties, because fairness and ENABLED are outside the prover's reach: `StopFollows`, `ExpiryStops`, both
`MotionIsStopped`, `UnansweredFollowEnds`, `EveryPostIsAnswered`, `MotionIsWithdrawn`, `GoneIsClosed`, `ServiceEnds`,
`DirectIsStopped`, `ActionEnds`. Of three of them the safety half (nothing that is owed is forgotten) is proved:
`ZeroStaysOwed`, `MotionOwesZero`, `NoDescriptorLeaks`. The violation that `operator_failure` shows is
TLC's. No module uses a RECURSIVE operator.

## 6. Plan

In this order; what is above the line is done.

1. `MotionGuard`, `GuardedOutput`, `LiveSession`, `MotionRuntime`: the way of a command to the robot. Proofs of its safety.
2. `WebMailbox`, `WebStatusWorker`; `VelocityLimit` and its proofs.
3. `OperatorGuard`, `OperatorControl`, `DriverLease`, `OperatorBridge`, `OperatorServer`.
4. `PreviewNexus`, `WebSockets`: the preview node's shared flags and its connections.
5. `FollowNode`, `OperatorNexus`: the operator-side node and its promise to the bridge.
6. `LegacyDrive`; `CloudExport`.
7. Proofs: the safety properties and refinements of `WebStatusWorker`, `PreviewNexus`, `WebSockets`, `OperatorNexus`,
   `LegacyDrive` and `CloudExport`.

8. Proofs: the safety properties of `GuardedOutput`, of `OperatorBridge` with its refinement of `DriverLease`, and of
   `OperatorServer`; that no request and no descriptor is lost.

---

9. Startup and cleanup of the runtime's `main`: the discovery wait, the order of the cleanup steps and the exit code.
10. `motion_control/telemetry.py` by itself (heartbeat spacing, packet budget), composed with the runtime's poll.
11. Proofs: the safety halves of the other liveness properties, as facts about what a finished tick leaves behind.

## 7. Not modelled

* `motion_control/telemetry.py` beyond the events it hands to the runtime, and the runtime's startup and cleanup: planned.
* `nav_cmd_preview.py`: publishes, for inspection only, what a command would look like; no part acts on its topic. Its
  work is one freshness test and one limiter like those of `VelocityLimit`.
* The tracking mathematics (clustering, the Kalman filter, potential fields, velocities of the followers): real-valued
  functions, out of TLC's reach; the models choose their outcome instead.
* Wire codecs, web pages, launch files, probes, tests, the keyboard node: layouts, drawing, descriptions, tools.
* The action relay of the operator-side node with its delayed `passive`: the launch of the operator stack switches it off.
* `web_server.hpp`, in both packages: no source file includes it.
* `httplib.h`, in both packages: vendored. Its two copies are 27 948 of the 35 763 lines of C and C++ in the repository, so
  the share of C++ lines that models can stand for is small by nature; about a half of the rest is geometry, drawing,
  parameters, codecs, dead code and tools. The largest part of the modelled system is Python.
