---------------------------- MODULE PreviewNexus ----------------------------
(***************************************************************************)
(* The C++ preview node (src/jie_deamon with m20_preview on): the shared   *)
(* state, the tracker, the watchdog and the web handlers.  rclcpp::spin    *)
(* runs the scan callback and the watchdog timer on one thread, here the   *)
(* node; every HTTP request and every WebSocket client has a thread of its *)
(* own, here a handler.  target_mutex orders the operations on the target, *)
(* but the flags are atomics that others load and store without it, one at *)
(* a time: between any two of these steps another thread may run.          *)
(*                                                                         *)
(* A position is abstracted to its origin: the number of the selection it  *)
(* was tracked from (0 is the default target of the start).                *)
(***************************************************************************)
EXTENDS Integers

CONSTANTS
  Handlers,   \* the web threads
  Limit,      \* scan_stale_max, in ticks
  MaxGen      \* bound: how many targets are selected

ASSUME PreviewAssumption ==
  /\ Limit \in Nat /\ MaxGen \in Nat
  /\ "node" \notin Handlers /\ "free" \notin Handlers

Zero == -1     \* a velocity of zero; any other velocity is named by its target
NoScan == -1   \* last_valid_scan_ns_ = 0

VARIABLES
  target, generation,   \* SharedState: target_x/y, target_generation
  selected, tracked,    \* target_selected, tracking_valid
  moving, active,       \* is_moving_enabled, active
  holder,               \* who holds target_mutex
  quiet,                \* ticks since the last valid scan
  node,                 \* the callback the executor is in
  handler,              \* what each web thread is about to do
  raw,                  \* the last velocity published
  reading,              \* every WebSocket client empties its socket
  chosen, confirmed, fresh   \* history, see the properties

shared == <<target, generation, selected, tracked, moving, active, holder>>
history == <<chosen, confirmed, fresh>>
vars == <<shared, quiet, node, handler, raw, reading, history>>

NodeStep == {"idle", "write", "update", "active", "selected", "moving", "lost",
             "watch", "clear", "clearing", "publish", "broadcast"}

\* A callback: the snapshot its frame was judged by, whether points matched, the
\* velocity to publish, the step after a clear, and whether the watchdog is fed.
Callback == [at : NodeStep, aim : 0 .. MaxGen, gen : 0 .. MaxGen, match : BOOLEAN,
             out : {Zero} \cup 0 .. MaxGen, next : {"publish", "broadcast"},
             feeds : BOOLEAN, stale : BOOLEAN, zero : BOOLEAN]

Idle == [at |-> "idle", aim |-> 0, gen |-> 0, match |-> FALSE, out |-> Zero,
         next |-> "publish", feeds |-> FALSE, stale |-> FALSE, zero |-> FALSE]

TypeOK ==
  /\ target \in 0 .. MaxGen /\ generation \in 0 .. MaxGen
  /\ selected \in BOOLEAN /\ tracked \in BOOLEAN
  /\ moving \in BOOLEAN /\ active \in BOOLEAN
  /\ holder \in Handlers \cup {"node", "free"}
  /\ quiet \in NoScan .. Limit + 1
  /\ node \in Callback
  /\ handler \in [Handlers -> {"idle", "select", "enable"}]
  /\ raw \in {Zero} \cup 0 .. MaxGen
  /\ reading \in BOOLEAN
  /\ chosen \in BOOLEAN /\ confirmed \in BOOLEAN /\ fresh \in BOOLEAN

Init ==
  /\ target = 0 /\ generation = 0
  /\ selected = FALSE /\ tracked = FALSE /\ moving = FALSE /\ active = FALSE
  /\ holder = "free"
  /\ quiet = NoScan
  /\ node = Idle
  /\ handler = [h \in Handlers |-> "idle"]
  /\ raw = Zero
  /\ reading = TRUE
  /\ chosen = FALSE /\ confirmed = FALSE /\ fresh = TRUE

Stale == quiet > Limit

Goto(step) == node' = [node EXCEPT !.at = step]

-----------------------------------------------------------------------------
(* The scan callback                                                       *)

\* stopPreview: a frame that is too old, from the future or from another sensor.
StopPreview ==
  /\ node.at = "idle"
  /\ node' = [Idle EXCEPT !.at = "clear"]
  /\ UNCHANGED <<shared, quiet, handler, raw, reading, history>>

\* invalidatePreviewScan: a frame without usable metadata or without a point.
InvalidateScan ==
  /\ node.at = "idle"
  /\ node' = [Idle EXCEPT !.at = "clear"]
  /\ UNCHANGED <<shared, quiet, handler, raw, reading, history>>

\* getTargetWithGen, and the points that are counted around that target.
TakeFrame ==
  /\ node.at = "idle" /\ holder = "free"
  /\ \E match \in BOOLEAN :
       node' = [Idle EXCEPT !.at = IF match THEN "write" ELSE "active",
                            !.aim = target, !.gen = generation,
                            !.match = match, !.feeds = TRUE]
  /\ UNCHANGED <<shared, quiet, handler, raw, reading, history>>

\* Only a selected target is tracked.
WriteBack ==
  /\ node.at = "write"
  /\ Goto(IF selected THEN "update" ELSE "active")
  /\ UNCHANGED <<shared, quiet, handler, raw, reading, history>>

MutantUpdateAlways ==
  /\ node.at = "update" /\ holder = "free"
  /\ target' = node.aim /\ tracked' = TRUE
  /\ Goto("active")
  /\ UNCHANGED <<generation, selected, moving, active, holder,
                 quiet, handler, raw, reading, history>>

\* updateTrackedTarget: refused when a newer target was selected meanwhile.
UpdateTrackedTarget ==
  /\ node.at = "update" /\ holder = "free"
  /\ IF generation = node.gen
     THEN target' = node.aim /\ tracked' = TRUE
     ELSE UNCHANGED <<target, tracked>>
  /\ Goto("active")
  /\ UNCHANGED <<generation, selected, moving, active, holder,
                 quiet, handler, raw, reading, history>>

\* may_move: three atomic loads in this order, the first FALSE ends it.
LoadActive ==
  /\ node.at = "active"
  /\ Goto(IF active THEN "selected" ELSE "lost")
  /\ UNCHANGED <<shared, quiet, handler, raw, reading, history>>

LoadSelected ==
  /\ node.at = "selected"
  /\ Goto(IF selected THEN "moving" ELSE "lost")
  /\ UNCHANGED <<shared, quiet, handler, raw, reading, history>>

\* The velocity for the target of the snapshot may still be zero: an obstacle
\* in the emergency zone, or the target in every dead zone.
LoadMoving ==
  /\ node.at = "moving"
  /\ \E out \in IF moving /\ node.match THEN {Zero, node.aim} ELSE {Zero} :
       node' = [node EXCEPT !.at = "lost", !.out = out]
  /\ UNCHANGED <<shared, quiet, handler, raw, reading, history>>

\* A selected target without a point is lost.
JudgeLoss ==
  /\ node.at = "lost"
  /\ Goto(IF ~node.match /\ selected THEN "clear" ELSE "publish")
  /\ UNCHANGED <<shared, quiet, handler, raw, reading, history>>

MutantClearKeepsSelection ==
  /\ node.at = "clear" /\ holder = "free"
  /\ holder' = "node"
  /\ tracked' = FALSE
  /\ chosen' = FALSE
  /\ Goto("clearing")
  /\ UNCHANGED <<target, generation, selected, moving, active, quiet, handler, raw,
                 reading, confirmed, fresh>>

\* clearTracking, whose stores others may see one by one.
ClearTracking ==
  /\ node.at = "clear" /\ holder = "free"
  /\ holder' = "node"
  /\ selected' = FALSE /\ tracked' = FALSE
  /\ chosen' = FALSE
  /\ Goto("clearing")
  /\ UNCHANGED <<target, generation, moving, active, quiet, handler, raw, reading,
                 confirmed, fresh>>

ClearMoving ==
  /\ node.at = "clearing"
  /\ holder' = "free"
  /\ moving' = FALSE
  /\ Goto(node.next)
  /\ UNCHANGED <<target, generation, selected, tracked, active, quiet, handler, raw,
                 reading, history>>

Publish ==
  /\ node.at = "publish"
  /\ raw' = node.out
  /\ fresh' = FALSE
  /\ Goto("broadcast")
  /\ UNCHANGED <<shared, quiet, handler, reading, chosen, confirmed>>

\* broadcastData sends to every client with a blocking send; a client that no
\* longer reads holds the executor.  A good frame then feeds the watchdog.
Broadcast ==
  /\ node.at = "broadcast" /\ reading
  /\ quiet' = IF node.feeds THEN 0 ELSE quiet
  /\ node' = Idle
  /\ UNCHANGED <<shared, handler, raw, reading, history>>

-----------------------------------------------------------------------------
(* The watchdog, every 100 ms                                              *)

WatchdogCallback ==
  /\ node.at = "idle"
  /\ node' = [Idle EXCEPT !.at = "watch", !.stale = Stale, !.next = "broadcast",
                          !.zero = Stale \/ quiet = NoScan \/ ~active]
  /\ UNCHANGED <<shared, quiet, handler, raw, reading, history>>

MutantWatchdogOnlyStale ==
  /\ node.at = "watch"
  /\ raw' = IF node.stale THEN Zero ELSE raw
  /\ node' = IF node.stale THEN [node EXCEPT !.at = "clear"] ELSE Idle
  /\ UNCHANGED <<shared, quiet, handler, reading, history>>

\* The last load, the zero and, after too long without a scan, the clear.
WatchdogActs ==
  /\ node.at = "watch"
  /\ raw' = IF node.zero \/ ~moving THEN Zero ELSE raw
  /\ node' = IF node.stale THEN [node EXCEPT !.at = "clear"] ELSE Idle
  /\ UNCHANGED <<shared, quiet, handler, reading, history>>

-----------------------------------------------------------------------------
(* The web handlers                                                        *)

\* selectTarget: position and selection first, then the rest, under the mutex.
SelectTarget(h) ==
  /\ handler[h] = "idle" /\ holder = "free"
  /\ generation < MaxGen
  /\ holder' = h
  /\ target' = generation + 1
  /\ selected' = TRUE /\ tracked' = FALSE
  /\ chosen' = TRUE
  /\ handler' = [handler EXCEPT ![h] = "select"]
  /\ UNCHANGED <<generation, moving, active, quiet, node, raw, reading, confirmed, fresh>>

MutantSelectKeepsMoving(h) ==
  /\ handler[h] = "select"
  /\ generation' = generation + 1
  /\ holder' = "free"
  /\ confirmed' = FALSE /\ fresh' = TRUE
  /\ handler' = [handler EXCEPT ![h] = "idle"]
  /\ UNCHANGED <<target, selected, tracked, moving, active, quiet, node, raw, reading, chosen>>

SelectDisables(h) ==
  /\ handler[h] = "select"
  /\ moving' = FALSE
  /\ generation' = generation + 1
  /\ holder' = "free"
  /\ confirmed' = FALSE /\ fresh' = TRUE
  /\ handler' = [handler EXCEPT ![h] = "idle"]
  /\ UNCHANGED <<target, selected, tracked, active, quiet, node, raw, reading, chosen>>

\* set_moving with true: refused without a target, else stored in a second step.
CheckEnable(h) ==
  /\ handler[h] = "idle" /\ selected
  /\ handler' = [handler EXCEPT ![h] = "enable"]
  /\ UNCHANGED <<shared, quiet, node, raw, reading, history>>

StoreEnable(h) ==
  /\ handler[h] = "enable"
  /\ moving' = TRUE
  /\ confirmed' = TRUE
  /\ handler' = [handler EXCEPT ![h] = "idle"]
  /\ UNCHANGED <<target, generation, selected, tracked, active, holder,
                 quiet, node, raw, reading, chosen, fresh>>

\* set_moving with false, and switch_mode, which a preview accepts to FOLLOW only.
Disable(h) ==
  /\ handler[h] = "idle"
  /\ moving' = FALSE
  /\ UNCHANGED <<target, generation, selected, tracked, active, holder,
                 quiet, node, handler, raw, reading, history>>

SetActive(h) ==
  /\ handler[h] = "idle"
  /\ active' \in BOOLEAN
  /\ UNCHANGED <<target, generation, selected, tracked, moving, holder,
                 quiet, node, handler, raw, reading, history>>

-----------------------------------------------------------------------------
Tick ==
  /\ quiet \in 0 .. Limit
  /\ quiet' = quiet + 1
  /\ UNCHANGED <<shared, node, handler, raw, reading, history>>

ClientStalls ==
  /\ reading' = ~reading
  /\ UNCHANGED <<shared, quiet, node, handler, raw, history>>

\* What a callback does once it runs, and what a handler does once it began.
Proceed ==
  \/ WriteBack \/ UpdateTrackedTarget
  \/ LoadActive \/ LoadSelected \/ LoadMoving
  \/ JudgeLoss \/ ClearTracking \/ ClearMoving \/ Publish \/ Broadcast
  \/ WatchdogActs

Finish(h) == SelectDisables(h) \/ StoreEnable(h)

Next ==
  \/ StopPreview \/ InvalidateScan \/ TakeFrame
  \/ WatchdogCallback
  \/ Proceed
  \/ \E h \in Handlers :
       \/ Finish(h)
       \/ SelectTarget(h) \/ CheckEnable(h) \/ Disable(h) \/ SetActive(h)
  \/ Tick \/ ClientStalls

\* A callback that runs goes on, a handler that began finishes, and the executor
\* takes a timer that is due before the next scan: a flood of scans does not
\* starve the watchdog.  Nobody owes the node scans, requests or reading clients.
Fairness ==
  /\ WF_vars(Proceed)
  /\ SF_vars(WatchdogCallback)
  /\ \A h \in Handlers : WF_vars(Finish(h))

Spec == Init /\ [][Next]_vars /\ Fairness

-----------------------------------------------------------------------------
(* Properties                                                              *)

\* The target is always one tracked from the newest selection: a frame that was
\* taken before a person selected another target never writes its centroid over
\* the new one (common_types.hpp, updateTrackedTarget).
TargetIsNewest == holder \notin Handlers => target = generation

Moves == node.at = "publish" /\ node'.at = "broadcast" /\ node.out # Zero

\* After a target was given up - lost, stale or refused frames - no motion is
\* published until somebody selects a target again.
LostStaysLost == [][Moves => chosen]_vars

\* A motion towards the newest target was enabled after that target was selected.
NewTargetNeedsEnable == [][Moves /\ node.aim = generation => confirmed]_vars

\* A motion towards an older target is published by at most the one frame that
\* was being computed when the newer one was selected.
OldTargetForOneFrame == [][Moves /\ node.aim < generation => fresh]_vars

\* A robot in motion that stays disabled, inactive or without scans is told to
\* stop, unless a client that does not read holds the node.  (One statement for
\* each reason: the flags are loaded one by one, and somebody who flips two of
\* them against each other at every callback may hide from the watchdog.)
MotionIsWithdrawn ==
  /\ (raw # Zero /\ ~moving) ~> (raw = Zero \/ moving \/ ~reading)
  /\ (raw # Zero /\ ~active) ~> (raw = Zero \/ active \/ ~reading)
  /\ (raw # Zero /\ Stale) ~> (raw = Zero \/ ~Stale \/ ~reading)

\* Why the invariants and the action properties above hold.  The mutex: a handler
\* is inside selectTarget, or the node inside clearTracking, exactly while it is
\* the holder, and a selection in progress is one ahead of the generation.
MutexHeld ==
  /\ \A h \in Handlers : handler[h] = "select" <=> holder = h
  /\ node.at = "clearing" <=> holder = "node"
  /\ holder \in Handlers => generation < MaxGen /\ target = generation + 1

\* A frame is judged by one snapshot, and the generation only grows past it.
SnapshotIsOne ==
  /\ node.aim = node.gen
  /\ node.gen <= generation

\* A motion was computed while the target was selected and enabled; nobody but
\* the node itself, which is past its clear, can give that target up.
Computing == {"write", "update", "active", "selected", "moving", "lost"}

MotionIsEarned ==
  /\ chosen = selected
  /\ moving => confirmed
  /\ node.at = "moving" => selected
  /\ node.out # Zero => /\ node.at \in {"lost", "publish", "broadcast"}
                        /\ node.match
                        /\ selected
                        /\ node.aim = generation => confirmed
  /\ (node.at \in Computing \/ (node.at = "publish" /\ node.out # Zero))
       => (node.aim < generation => fresh)

IndInv == TypeOK /\ MutexHeld /\ SnapshotIsOne /\ MotionIsEarned /\ TargetIsNewest
=============================================================================
