---------------------------- MODULE PreviewProofs ----------------------------
(***************************************************************************)
(* Proofs about the two halves of the preview node.  Of PreviewNexus, for  *)
(* every set of web threads and every number of selections: its type       *)
(* correctness, the inductive invariant IndInv and what follows from it    *)
(* for the target and for the published motion.  Its steps fall into four  *)
(* kinds: a callback begins or ends, a callback goes on, the node writes   *)
(* the shared state, and everybody else's steps.  Of WebSockets, for any   *)
(* connections and any number of descriptors: as long as only the thread   *)
(* that serves a connection closes it, no number is ever mistaken for      *)
(* another connection's.                                                   *)
(***************************************************************************)
EXTENDS PreviewNexus, WebSockets, TLAPS

-----------------------------------------------------------------------------
(* PreviewNexus: the shared state                                          *)

\* What a callback record holds.
LEMMA CallbackFields ==
  ASSUME NEW c \in Callback
  PROVE  /\ c.at \in NodeStep
         /\ c.aim \in 0 .. MaxGen /\ c.gen \in 0 .. MaxGen
         /\ c.match \in BOOLEAN
         /\ c.out \in {Zero} \cup 0 .. MaxGen
         /\ c.next \in {"publish", "broadcast"}
         /\ c.stale \in BOOLEAN
  BY DEF Callback

\* Going on to another step keeps what the frame was judged by.
LEMMA MoveOn ==
  ASSUME NEW c \in Callback, NEW step \in NodeStep
  PROVE  LET d == [c EXCEPT !.at = step] IN
         /\ d \in Callback
         /\ d.at = step /\ d.aim = c.aim /\ d.gen = c.gen
         /\ d.match = c.match /\ d.out = c.out /\ d.next = c.next
  BY DEF Callback

\* Between two callbacks the executor holds neither a snapshot nor a velocity.
LEMMA IdleFields ==
  /\ Idle \in Callback
  /\ Idle.at = "idle" /\ Idle.aim = 0 /\ Idle.gen = 0
  /\ Idle.match = FALSE /\ Idle.out = Zero
  BY PreviewAssumption DEF Idle, Callback, NodeStep, Zero

\* The callback's step moves, its frame stays.
SameFrame ==
  /\ node' \in Callback
  /\ node'.aim = node.aim /\ node'.gen = node.gen /\ node'.match = node.match
  /\ node'.out = node.out /\ node'.next = node.next

-----------------------------------------------------------------------------
\* The node starts with nothing selected and a free mutex.
LEMMA InitIndInv == Init => IndInv
  <1> SUFFICES ASSUME Init PROVE IndInv
    OBVIOUS
  <1>1. /\ node \in Callback /\ node.at = "idle" /\ node.aim = 0 /\ node.gen = 0
        /\ node.match = FALSE /\ node.out = Zero
    BY IdleFields DEF Init
  <1>2. TypeOK
    <2>1. handler \in [Handlers -> {"idle", "select", "enable"}]
      BY DEF Init
    <2>2. quiet \in NoScan .. Limit + 1 /\ 0 \in 0 .. MaxGen
      BY PreviewAssumption DEF Init, NoScan
    <2>3. QED
      BY <1>1, <2>1, <2>2 DEF Init, TypeOK
  <1>3. MutexHeld
    BY <1>1, PreviewAssumption DEF Init, MutexHeld
  <1>4. SnapshotIsOne /\ TargetIsNewest
    BY <1>1 DEF Init, SnapshotIsOne, TargetIsNewest
  <1>5. MotionIsEarned
    BY <1>1 DEF Init, MotionIsEarned
  <1>6. QED
    BY <1>2, <1>3, <1>4, <1>5 DEF IndInv

-----------------------------------------------------------------------------
(* Callbacks begin, go on and end                                          *)

\* A callback that begins or ends carries no velocity, and a frame that is to be
\* computed was just taken from the newest target.
LEMMA CallbackChanges ==
  ASSUME IndInv,
         UNCHANGED <<shared, handler, reading, history>>,
         quiet' \in NoScan .. Limit + 1, raw' \in {Zero} \cup 0 .. MaxGen,
         node.at # "clearing",
         node' \in Callback,
         node'.at \notin {"clearing", "moving"},
         node'.out = Zero,
         node'.aim = node'.gen, node'.gen <= generation,
         node'.at \in Computing => node'.aim = generation
  PROVE  IndInv'
  <1>1. TypeOK'
    BY DEF IndInv, TypeOK, shared, history
  <1>2. MutexHeld'
    BY DEF IndInv, MutexHeld, shared
  <1>3. SnapshotIsOne' /\ TargetIsNewest'
    BY DEF IndInv, SnapshotIsOne, TargetIsNewest, shared
  <1>4. MotionIsEarned'
    <2>1. node'.aim \in Int /\ generation \in Int
      BY CallbackFields, PreviewAssumption DEF IndInv, TypeOK
    <2>2. QED
      BY <2>1 DEF IndInv, MotionIsEarned, shared, history
  <1>5. QED
    BY <1>1, <1>2, <1>3, <1>4 DEF IndInv

\* A refused frame (robot_nexus.cpp, stopPreview and invalidatePreviewScan).
LEMMA RefusedFrame == IndInv /\ (StopPreview \/ InvalidateScan) => IndInv'
  <1> SUFFICES ASSUME IndInv, StopPreview \/ InvalidateScan PROVE IndInv'
    OBVIOUS
  <1>1. node' = [Idle EXCEPT !.at = "clear"] /\ "clear" \in NodeStep
    BY DEF StopPreview, InvalidateScan, NodeStep
  <1>2. /\ node' \in Callback /\ node'.at = "clear" /\ node'.aim = 0
        /\ node'.gen = 0 /\ node'.out = Zero
    BY <1>1, IdleFields, MoveOn
  <1>3. /\ UNCHANGED <<shared, quiet, handler, raw, reading, history>>
        /\ node.at = "idle"
    BY DEF StopPreview, InvalidateScan
  <1>4. generation >= 0 /\ quiet \in NoScan .. Limit + 1 /\ raw \in {Zero} \cup 0 .. MaxGen
    BY PreviewAssumption DEF IndInv, TypeOK
  <1>5. QED
    BY <1>2, <1>3, <1>4, CallbackChanges DEF Computing

\* A frame is taken: the target of the snapshot is the newest one, because no
\* handler is inside selectTarget (getTargetWithGen under the mutex).
LEMMA TakenFrame == IndInv /\ TakeFrame => IndInv'
  <1> SUFFICES ASSUME IndInv, TakeFrame PROVE IndInv'
    OBVIOUS
  <1>1. PICK match \in BOOLEAN :
          node' = [Idle EXCEPT !.at = IF match THEN "write" ELSE "active",
                               !.aim = target, !.gen = generation,
                               !.match = match, !.feeds = TRUE]
    BY DEF TakeFrame
  <1>2. /\ target \in 0 .. MaxGen /\ generation \in 0 .. MaxGen
        /\ target = generation
        /\ quiet \in NoScan .. Limit + 1 /\ raw \in {Zero} \cup 0 .. MaxGen
    BY PreviewAssumption DEF IndInv, TypeOK, TakeFrame, TargetIsNewest
  <1>3. /\ node' \in Callback /\ node'.at \in {"write", "active"}
        /\ node'.aim = generation /\ node'.gen = generation /\ node'.out = Zero
    BY <1>1, <1>2 DEF Idle, Callback, NodeStep, Zero
  <1>4. /\ UNCHANGED <<shared, quiet, handler, raw, reading, history>>
        /\ node.at = "idle"
    BY DEF TakeFrame
  <1>5. generation <= generation
    BY <1>2, PreviewAssumption
  <1>6. QED
    BY <1>2, <1>3, <1>4, <1>5, CallbackChanges

\* The watchdog timer fires.
LEMMA WatchdogBegins == IndInv /\ WatchdogCallback => IndInv'
  <1> SUFFICES ASSUME IndInv, WatchdogCallback PROVE IndInv'
    OBVIOUS
  <1>1. /\ generation >= 0 /\ active \in BOOLEAN
        /\ quiet \in NoScan .. Limit + 1 /\ raw \in {Zero} \cup 0 .. MaxGen
    BY PreviewAssumption DEF IndInv, TypeOK
  <1>2. /\ node' \in Callback /\ node'.at = "watch"
        /\ node'.aim = 0 /\ node'.gen = 0 /\ node'.out = Zero
    <2>1. ASSUME NEW stale \in BOOLEAN, NEW zero \in BOOLEAN
          PROVE  LET d == [Idle EXCEPT !.at = "watch", !.stale = stale,
                                       !.next = "broadcast", !.zero = zero] IN
                 /\ d \in Callback /\ d.at = "watch"
                 /\ d.aim = 0 /\ d.gen = 0 /\ d.out = Zero
      BY IdleFields DEF Callback, NodeStep
    <2>2. Stale \in BOOLEAN /\ (Stale \/ quiet = NoScan \/ ~active) \in BOOLEAN
      BY DEF Stale
    <2>3. QED
      BY <2>1, <2>2 DEF WatchdogCallback
  <1>3. /\ UNCHANGED <<shared, quiet, handler, raw, reading, history>>
        /\ node.at = "idle"
    BY DEF WatchdogCallback
  <1>4. QED
    BY <1>1, <1>2, <1>3, CallbackChanges DEF Computing

\* The watchdog publishes its zero and goes on to clear, or ends.
LEMMA WatchdogEnds == IndInv /\ WatchdogActs => IndInv'
  <1> SUFFICES ASSUME IndInv, WatchdogActs PROVE IndInv'
    OBVIOUS
  <1>1. /\ node \in Callback /\ generation \in Int /\ generation >= 0
        /\ quiet \in NoScan .. Limit + 1 /\ raw \in {Zero} \cup 0 .. MaxGen
    BY PreviewAssumption DEF IndInv, TypeOK
  <1>2. node.at = "watch" /\ UNCHANGED <<shared, quiet, handler, reading, history>>
    BY DEF WatchdogActs
  <1>3. node.out = Zero /\ node.aim = node.gen /\ node.gen <= generation
    BY <1>2 DEF IndInv, MotionIsEarned, SnapshotIsOne
  <1>4. /\ node' \in Callback /\ node'.at \in {"clear", "idle"}
        /\ node'.aim = node'.gen /\ node'.gen <= generation /\ node'.out = Zero
    <2>1. "clear" \in NodeStep
      BY DEF NodeStep
    <2>2. CASE node' = [node EXCEPT !.at = "clear"]
      BY <1>1, <1>3, <2>1, <2>2, MoveOn
    <2>3. CASE node' = Idle
      BY <1>1, <2>3, IdleFields
    <2>4. QED
      BY <2>2, <2>3 DEF WatchdogActs
  <1>5. raw' \in {Zero} \cup 0 .. MaxGen
    BY <1>1 DEF WatchdogActs
  <1>6. QED
    BY <1>1, <1>2, <1>4, <1>5, CallbackChanges DEF Computing

\* The frame was broadcast and the watchdog fed.
LEMMA CallbackEnds == IndInv /\ Broadcast => IndInv'
  <1> SUFFICES ASSUME IndInv, Broadcast PROVE IndInv'
    OBVIOUS
  <1>1. /\ generation >= 0
        /\ quiet \in NoScan .. Limit + 1 /\ raw \in {Zero} \cup 0 .. MaxGen
    BY PreviewAssumption DEF IndInv, TypeOK
  <1>2. /\ node' = Idle /\ node.at = "broadcast"
        /\ UNCHANGED <<shared, handler, raw, reading, history>>
    BY DEF Broadcast
  <1>3. quiet' \in NoScan .. Limit + 1
    BY <1>1, PreviewAssumption DEF Broadcast, NoScan
  <1>4. QED
    BY <1>1, <1>2, <1>3, IdleFields, CallbackChanges DEF Computing

\* A callback that computes goes on without touching the shared state: what it
\* has earned so far stays earned.
LEMMA CallbackGoesOn ==
  ASSUME IndInv,
         UNCHANGED <<shared, quiet, handler, raw, reading, history>>,
         node.at \in Computing,
         NEW step \in NodeStep \ {"clearing"}, node' = [node EXCEPT !.at = step],
         step = "moving" => selected,
         node.at = "lost" => step \in {"clear", "publish"},
         step = "clear" => ~node.match,
         node.at # "lost" => step \in Computing
  PROVE  IndInv'
  <1>1. node \in Callback
    BY DEF IndInv, TypeOK
  <1>2. SameFrame /\ node'.at = step
    BY <1>1, MoveOn DEF SameFrame
  <1>3. TypeOK' /\ SnapshotIsOne' /\ TargetIsNewest'
    BY <1>2 DEF SameFrame, IndInv, TypeOK, SnapshotIsOne, TargetIsNewest, shared, history
  <1>4. MutexHeld'
    BY <1>2 DEF IndInv, MutexHeld, Computing, shared
  <1>5. MotionIsEarned'
    <2>1. node.out # Zero => step = "publish" /\ node.match
      BY DEF IndInv, MotionIsEarned, Computing
    <2>2. QED
      BY <1>2, <2>1 DEF SameFrame, IndInv, MotionIsEarned, shared, history
  <1>6. QED
    BY <1>3, <1>4, <1>5 DEF IndInv

\* The loads of the flags and the verdict on the loss (lidar_tracker.hpp).
LEMMA FlagsAreLoaded ==
  IndInv /\ (WriteBack \/ LoadActive \/ LoadSelected \/ JudgeLoss) => IndInv'
  <1> SUFFICES ASSUME IndInv, WriteBack \/ LoadActive \/ LoadSelected \/ JudgeLoss
               PROVE  IndInv'
    OBVIOUS
  <1>0. /\ UNCHANGED <<shared, quiet, handler, raw, reading, history>>
        /\ node.at \in Computing
    BY DEF WriteBack, LoadActive, LoadSelected, JudgeLoss, Computing
  <1>1. CASE WriteBack
    <2>1. PICK step \in {"update", "active"} : node' = [node EXCEPT !.at = step]
      BY <1>1 DEF WriteBack, Goto
    <2>2. QED
      BY <1>0, <1>1, <2>1, CallbackGoesOn DEF WriteBack, NodeStep, Computing
  <1>2. CASE LoadActive
    <2>1. PICK step \in {"selected", "lost"} : node' = [node EXCEPT !.at = step]
      BY <1>2 DEF LoadActive, Goto
    <2>2. QED
      BY <1>0, <1>2, <2>1, CallbackGoesOn DEF LoadActive, NodeStep, Computing
  <1>3. CASE LoadSelected
    <2>1. PICK step \in {"moving", "lost"} :
            node' = [node EXCEPT !.at = step] /\ (step = "moving" => selected)
      BY <1>3 DEF LoadSelected, Goto
    <2>2. QED
      BY <1>0, <1>3, <2>1, CallbackGoesOn DEF LoadSelected, NodeStep, Computing
  <1>4. CASE JudgeLoss
    <2>1. PICK step \in {"clear", "publish"} :
            node' = [node EXCEPT !.at = step] /\ (step = "clear" => ~node.match)
      BY <1>4 DEF JudgeLoss, Goto
    <2>2. QED
      BY <1>0, <1>4, <2>1, CallbackGoesOn DEF JudgeLoss, NodeStep, Computing
  <1>5. QED
    BY <1>1, <1>2, <1>3, <1>4

\* A velocity is computed only for a target that matched, is still selected and,
\* when it is the newest, was enabled since.
LEMMA VelocityIsComputed == IndInv /\ LoadMoving => IndInv'
  <1> SUFFICES ASSUME IndInv, LoadMoving PROVE IndInv'
    OBVIOUS
  <1>1. node \in Callback /\ node.at = "moving"
    BY DEF IndInv, TypeOK, LoadMoving
  <1>2. PICK out \in IF moving /\ node.match THEN {Zero, node.aim} ELSE {Zero} :
          node' = [node EXCEPT !.at = "lost", !.out = out]
    BY DEF LoadMoving
  <1>3. out \in {Zero} \cup 0 .. MaxGen
    BY <1>1, <1>2, CallbackFields
  <1>4. /\ node' \in Callback /\ node'.at = "lost" /\ node'.aim = node.aim
        /\ node'.gen = node.gen /\ node'.match = node.match /\ node'.out = out
    BY <1>1, <1>2, <1>3 DEF Callback, NodeStep
  <1>5. UNCHANGED <<shared, quiet, handler, raw, reading, history>>
    BY DEF LoadMoving
  <1>6. TypeOK' /\ SnapshotIsOne' /\ TargetIsNewest'
    BY <1>4, <1>5 DEF IndInv, TypeOK, SnapshotIsOne, TargetIsNewest, shared, history
  <1>7. MutexHeld'
    BY <1>1, <1>4, <1>5 DEF IndInv, MutexHeld, shared
  <1>8. MotionIsEarned'
    <2>1. selected /\ (out # Zero => moving /\ node.match)
      BY <1>1, <1>2 DEF IndInv, MotionIsEarned
    <2>2. QED
      BY <1>1, <1>4, <1>5, <2>1 DEF IndInv, MotionIsEarned, Computing, shared, history
  <1>9. QED
    BY <1>6, <1>7, <1>8 DEF IndInv

-----------------------------------------------------------------------------
(* The node writes                                                         *)

\* A centroid is written over the target only if no selection came in between.
LEMMA TargetIsTracked == IndInv /\ UpdateTrackedTarget => IndInv'
  <1> SUFFICES ASSUME IndInv, UpdateTrackedTarget PROVE IndInv'
    OBVIOUS
  <1>1. node \in Callback /\ "active" \in NodeStep /\ node.at = "update" /\ holder = "free"
    BY DEF IndInv, TypeOK, NodeStep, UpdateTrackedTarget
  <1>2. SameFrame /\ node'.at = "active"
    BY <1>1, MoveOn DEF UpdateTrackedTarget, Goto, SameFrame
  <1>3. target' = generation /\ node.aim = node.gen
    BY <1>1, PreviewAssumption
    DEF UpdateTrackedTarget, IndInv, SnapshotIsOne, TargetIsNewest
  <1>4. TypeOK'
    BY <1>2, <1>3 DEF UpdateTrackedTarget, SameFrame, IndInv, TypeOK, history
  <1>5. MutexHeld'
    BY <1>1, <1>2, PreviewAssumption DEF UpdateTrackedTarget, IndInv, MutexHeld
  <1>6. SnapshotIsOne' /\ TargetIsNewest'
    BY <1>2, <1>3 DEF UpdateTrackedTarget, SameFrame, IndInv, SnapshotIsOne, TargetIsNewest
  <1>7. MotionIsEarned'
    BY <1>1, <1>2 DEF UpdateTrackedTarget, SameFrame, IndInv, MotionIsEarned, Computing, history
  <1>8. QED
    BY <1>4, <1>5, <1>6, <1>7 DEF IndInv

\* The node gives the target up; it holds no velocity then.
LEMMA TargetIsCleared == IndInv /\ (ClearTracking \/ ClearMoving) => IndInv'
  <1> SUFFICES ASSUME IndInv, ClearTracking \/ ClearMoving PROVE IndInv'
    OBVIOUS
  <1>1. node \in Callback
    BY DEF IndInv, TypeOK
  <1>2. CASE ClearTracking
    <2>1. node.at = "clear" /\ "clearing" \in NodeStep /\ holder = "free" /\ holder' = "node"
      BY <1>2 DEF ClearTracking, NodeStep
    <2>2. SameFrame /\ node'.at = "clearing"
      BY <1>1, <1>2, <2>1, MoveOn DEF ClearTracking, Goto, SameFrame
    <2>3. TypeOK' /\ SnapshotIsOne' /\ TargetIsNewest'
      BY <1>2, <2>1, <2>2, PreviewAssumption
      DEF ClearTracking, SameFrame, IndInv, TypeOK, SnapshotIsOne, TargetIsNewest
    <2>4. MutexHeld'
      BY <1>2, <2>1, <2>2, PreviewAssumption DEF ClearTracking, IndInv, MutexHeld
    <2>5. MotionIsEarned'
      BY <1>2, <2>1, <2>2 DEF ClearTracking, SameFrame, IndInv, MotionIsEarned, Computing
    <2>6. QED
      BY <2>3, <2>4, <2>5 DEF IndInv
  <1>3. CASE ClearMoving
    <2>1. node.at = "clearing" /\ holder = "node" /\ holder' = "free"
      BY <1>3 DEF ClearMoving, IndInv, MutexHeld
    <2>2. PICK step \in {"publish", "broadcast"} : node' = [node EXCEPT !.at = step]
      BY <1>1, <1>3, CallbackFields DEF ClearMoving, Goto
    <2>3. step \in NodeStep
      BY DEF NodeStep
    <2>4. SameFrame /\ node'.at = step
      BY <1>1, <2>2, <2>3, MoveOn DEF SameFrame
    <2>5. TypeOK' /\ SnapshotIsOne' /\ TargetIsNewest'
      BY <1>3, <2>1, <2>4, PreviewAssumption
      DEF ClearMoving, SameFrame, IndInv, TypeOK, SnapshotIsOne, TargetIsNewest, history
    <2>6. MutexHeld'
      BY <1>3, <2>1, <2>4, PreviewAssumption DEF ClearMoving, IndInv, MutexHeld
    <2>7. MotionIsEarned'
      BY <1>3, <2>1, <2>4 DEF ClearMoving, SameFrame, IndInv, MotionIsEarned, Computing, history
    <2>8. QED
      BY <2>5, <2>6, <2>7 DEF IndInv
  <1>4. QED
    BY <1>2, <1>3

\* A velocity is published.
LEMMA VelocityIsPublished == IndInv /\ Publish => IndInv'
  <1> SUFFICES ASSUME IndInv, Publish PROVE IndInv'
    OBVIOUS
  <1>1. node \in Callback /\ "broadcast" \in NodeStep /\ node.at = "publish"
    BY DEF IndInv, TypeOK, NodeStep, Publish
  <1>2. SameFrame /\ node'.at = "broadcast"
    BY <1>1, MoveOn DEF Publish, Goto, SameFrame
  <1>3. TypeOK' /\ SnapshotIsOne' /\ TargetIsNewest'
    BY <1>1, <1>2, CallbackFields
    DEF Publish, SameFrame, IndInv, TypeOK, SnapshotIsOne, TargetIsNewest, shared
  <1>4. MutexHeld'
    BY <1>1, <1>2 DEF Publish, IndInv, MutexHeld, shared
  <1>5. MotionIsEarned'
    BY <1>1, <1>2 DEF Publish, SameFrame, IndInv, MotionIsEarned, Computing, shared
  <1>6. QED
    BY <1>3, <1>4, <1>5 DEF IndInv

-----------------------------------------------------------------------------
(* The web threads and the clock                                           *)

\* selectTarget opens: the position is one ahead of the generation until the
\* handler is done, and nobody reads it, because the handler is the holder.
LEMMA SelectionOpens ==
  ASSUME NEW h \in Handlers, IndInv, SelectTarget(h)
  PROVE  IndInv'
  <1>1. node' = node /\ node \in Callback
    BY DEF IndInv, TypeOK, SelectTarget
  <1>2. generation \in 0 .. MaxGen /\ generation < MaxGen /\ holder = "free" /\ holder' = h
    BY DEF IndInv, TypeOK, SelectTarget
  <1>3. TypeOK'
    <2>1. handler' \in [Handlers -> {"idle", "select", "enable"}]
      BY DEF SelectTarget, IndInv, TypeOK
    <2>2. target' \in 0 .. MaxGen
      BY <1>2, PreviewAssumption DEF SelectTarget
    <2>3. QED
      BY <1>1, <1>2, <2>1, <2>2 DEF SelectTarget, IndInv, TypeOK
  <1>4. MutexHeld'
    BY <1>1, <1>2, PreviewAssumption DEF SelectTarget, IndInv, TypeOK, MutexHeld
  <1>5. SnapshotIsOne' /\ TargetIsNewest'
    BY <1>1, <1>2 DEF SelectTarget, IndInv, SnapshotIsOne, TargetIsNewest
  <1>6. MotionIsEarned'
    BY <1>1 DEF SelectTarget, IndInv, MotionIsEarned
  <1>7. QED
    BY <1>3, <1>4, <1>5, <1>6 DEF IndInv

\* selectTarget closes: every frame that is still computed is now one behind, and
\* the new target needs an enable of its own.
LEMMA SelectionCloses ==
  ASSUME NEW h \in Handlers, IndInv, SelectDisables(h)
  PROVE  IndInv'
  <1>1. node' = node /\ node \in Callback
    BY DEF IndInv, TypeOK, SelectDisables
  <1>2. /\ holder = h /\ holder' = "free"
        /\ generation \in 0 .. MaxGen /\ generation < MaxGen
        /\ generation' = generation + 1 /\ target' = generation + 1
    BY DEF IndInv, TypeOK, MutexHeld, SelectDisables
  <1>3. TypeOK'
    BY <1>1, <1>2, PreviewAssumption DEF SelectDisables, IndInv, TypeOK
  <1>4. MutexHeld'
    BY <1>1, <1>2, PreviewAssumption DEF SelectDisables, IndInv, TypeOK, MutexHeld
  <1>5. node.gen \in 0 .. MaxGen /\ node.aim \in 0 .. MaxGen
    BY <1>1, CallbackFields
  <1>6. SnapshotIsOne' /\ TargetIsNewest'
    BY <1>1, <1>2, <1>5, PreviewAssumption
    DEF SelectDisables, IndInv, SnapshotIsOne, TargetIsNewest
  <1>7. MotionIsEarned'
    BY <1>1, <1>2, <1>5, PreviewAssumption
    DEF SelectDisables, IndInv, SnapshotIsOne, MotionIsEarned
  <1>8. QED
    BY <1>3, <1>4, <1>6, <1>7 DEF IndInv

\* set_moving, switch_mode and the activation store one flag.
LEMMA FlagIsStored ==
  ASSUME NEW h \in Handlers, IndInv,
         CheckEnable(h) \/ StoreEnable(h) \/ Disable(h) \/ SetActive(h)
  PROVE  IndInv'
  <1>1. /\ UNCHANGED <<target, generation, selected, tracked, holder, quiet, node,
                       raw, reading, chosen, fresh>>
        /\ moving' \in BOOLEAN /\ active' \in BOOLEAN /\ confirmed' \in BOOLEAN
    BY DEF CheckEnable, StoreEnable, Disable, SetActive, IndInv, TypeOK, shared, history
  <1>2. handler' \in [Handlers -> {"idle", "select", "enable"}]
    BY DEF CheckEnable, StoreEnable, Disable, SetActive, IndInv, TypeOK
  <1>3. \A k \in Handlers : handler'[k] = "select" <=> handler[k] = "select"
    BY DEF CheckEnable, StoreEnable, Disable, SetActive, IndInv, TypeOK
  <1>4. (moving' => confirmed') /\ (confirmed => confirmed')
    BY DEF CheckEnable, StoreEnable, Disable, SetActive, IndInv, MotionIsEarned,
           shared, history
  <1>5. TypeOK' /\ SnapshotIsOne' /\ TargetIsNewest'
    BY <1>1, <1>2 DEF IndInv, TypeOK, SnapshotIsOne, TargetIsNewest
  <1>6. MutexHeld'
    BY <1>1, <1>3 DEF IndInv, MutexHeld
  <1>7. MotionIsEarned'
    BY <1>1, <1>4 DEF IndInv, MotionIsEarned
  <1>8. QED
    BY <1>5, <1>6, <1>7 DEF IndInv

\* Time passes, a client stalls or reads again, or nothing happens.
LEMMA NothingIsShared == IndInv /\ (Tick \/ ClientStalls \/ UNCHANGED vars) => IndInv'
  <1> SUFFICES ASSUME IndInv, Tick \/ ClientStalls \/ UNCHANGED vars PROVE IndInv'
    OBVIOUS
  <1>1. UNCHANGED <<shared, node, handler, raw, history>>
    BY DEF Tick, ClientStalls, vars
  <1>2. quiet' \in NoScan .. Limit + 1 /\ reading' \in BOOLEAN
    <2>1. quiet \in NoScan .. Limit + 1 /\ reading \in BOOLEAN
      BY DEF IndInv, TypeOK
    <2>2. CASE Tick
      BY <2>1, <2>2, PreviewAssumption DEF Tick, NoScan
    <2>3. CASE ClientStalls \/ UNCHANGED vars
      BY <2>1, <2>3 DEF ClientStalls, vars
    <2>4. QED
      BY <2>2, <2>3
  <1>3. TypeOK' /\ SnapshotIsOne' /\ TargetIsNewest'
    BY <1>1, <1>2 DEF IndInv, TypeOK, SnapshotIsOne, TargetIsNewest, shared, history
  <1>4. MutexHeld' /\ MotionIsEarned'
    BY <1>1 DEF IndInv, MutexHeld, MotionIsEarned, shared, history
  <1>5. QED
    BY <1>3, <1>4 DEF IndInv

-----------------------------------------------------------------------------
(* The theorems                                                            *)

\* Every step preserves the inductive invariant.
LEMMA NextIndInv == IndInv /\ [Next]_vars => IndInv'
  <1> SUFFICES ASSUME IndInv, [Next]_vars PROVE IndInv'
    OBVIOUS
  <1>1. CASE StopPreview \/ InvalidateScan \/ TakeFrame \/ WatchdogCallback
    BY <1>1, RefusedFrame, TakenFrame, WatchdogBegins
  <1>2. CASE Proceed
    <2>1. CASE WriteBack \/ LoadActive \/ LoadSelected \/ JudgeLoss
      BY <2>1, FlagsAreLoaded
    <2>2. CASE LoadMoving \/ UpdateTrackedTarget \/ ClearTracking \/ ClearMoving
      BY <2>2, VelocityIsComputed, TargetIsTracked, TargetIsCleared
    <2>3. CASE Publish \/ Broadcast \/ WatchdogActs
      BY <2>3, VelocityIsPublished, CallbackEnds, WatchdogEnds
    <2>4. QED
      BY <1>2, <2>1, <2>2, <2>3 DEF Proceed
  <1>3. ASSUME NEW h \in Handlers,
               \/ Finish(h)
               \/ SelectTarget(h) \/ CheckEnable(h) \/ Disable(h) \/ SetActive(h)
        PROVE  IndInv'
    BY <1>3, SelectionOpens, SelectionCloses, FlagIsStored DEF Finish
  <1>4. CASE Tick \/ ClientStalls \/ UNCHANGED vars
    BY <1>4, NothingIsShared
  <1>5. QED
    BY <1>1, <1>2, <1>3, <1>4 DEF Next

\* IndInv holds in every reachable state.
THEOREM Inductive == Spec => []IndInv
  BY InitIndInv, NextIndInv, PTL DEF Spec

\* Every reachable state is well typed.
THEOREM TypeCorrect == Spec => []TypeOK
  <1>1. IndInv => TypeOK
    BY DEF IndInv
  <1>2. QED
    BY <1>1, Inductive, PTL

\* A frame taken before a selection never writes its centroid over the newer
\* target, whatever the number of web threads (updateTrackedTarget).
THEOREM TargetStaysNewest == Spec => []TargetIsNewest
  <1>1. IndInv => TargetIsNewest
    BY DEF IndInv
  <1>2. QED
    BY <1>1, Inductive, PTL

\* What a step that publishes a motion has earned.
LEMMA MotionFacts ==
  ASSUME IndInv, Moves
  PROVE  /\ chosen
         /\ node.aim = generation => confirmed
         /\ node.aim < generation => fresh
  BY DEF IndInv, MotionIsEarned, Moves

\* After a target was given up no motion is published before the next selection.
THEOREM LossIsFinal == Spec => LostStaysLost
  <1>1. IndInv => [Moves => chosen]_vars
    BY MotionFacts
  <1>2. QED
    BY <1>1, Inductive, PTL DEF LostStaysLost

\* A motion towards the newest target was enabled after its selection.
THEOREM EnableIsRenewed == Spec => NewTargetNeedsEnable
  <1>1. IndInv => [Moves /\ node.aim = generation => confirmed]_vars
    BY MotionFacts
  <1>2. QED
    BY <1>1, Inductive, PTL DEF NewTargetNeedsEnable

\* A motion towards an older target leaves the node for one frame at most.
THEOREM OldTargetEnds == Spec => OldTargetForOneFrame
  <1>1. IndInv => [Moves /\ node.aim < generation => fresh]_vars
    BY MotionFacts
  <1>2. QED
    BY <1>1, Inductive, PTL DEF OldTargetForOneFrame

-----------------------------------------------------------------------------
(* WebSockets: the connections                                             *)

Place == {"none", "handshake", "insert", "serve", "frame", "erase", "close", "done"}

InService == {"serve", "frame", "erase"}

\* The descriptors the broadcast serves.
Served == {thread[c].fd : c \in {d \in Connections : thread[d].at \in InService}}

\* What ThreadsKeepToTheirOwn says, in its parts.
LEMMA OwnFacts ==
  ASSUME ThreadsKeepToTheirOwn, ~broken
  PROVE  /\ \A c \in Connections : Holds(c) => owner[thread[c].fd] = c
         /\ \A c \in Connections : receiving[c] \in {c, Nobody}
         /\ clients = Served
  BY DEF ThreadsKeepToTheirOwn, Served, InService

\* Two threads at work have two descriptors.
LEMMA OwnDescriptors ==
  ASSUME ThreadsKeepToTheirOwn, ~broken,
         NEW c \in Connections, NEW d \in Connections, c # d, Holds(c), Holds(d)
  PROVE  thread[c].fd # thread[d].fd
  BY OwnFacts

\* What the kernel does to a connection that nothing holds
LEMMA KernelFacts ==
  ASSUME SocketTypeOK, KernelCloses
  PROVE  /\ conn' \in [Connections -> {"waiting", "open", "gone", "closed"}]
         /\ \A c \in Connections : conn'[c] = "waiting" => conn[c] = "waiting"
         /\ \A c \in Connections : conn'[c] \in {"open", "gone"} => Held(c)'
         /\ \A c \in Connections : Held(c)' => conn'[c] = conn[c]
  <1>1. conn \in [Connections -> {"waiting", "open", "gone", "closed"}]
    BY DEF SocketTypeOK
  <1>2. \A c \in Connections :
          conn'[c] = IF conn[c] \in {"open", "gone"} /\ ~Held(c)' THEN "closed" ELSE conn[c]
    BY DEF KernelCloses
  <1>3. conn' \in [Connections -> {"waiting", "open", "gone", "closed"}]
    BY <1>1 DEF KernelCloses
  <1>4. QED
    BY <1>1, <1>2, <1>3

\* Closing frees numbers and changes nothing else about the threads.
LEMMA CloseFacts ==
  ASSUME SocketTypeOK, NEW fds, Close(fds)
  PROVE  /\ owner' \in [Fds -> Connections \cup {Nobody}]
         /\ conn' \in [Connections -> {"waiting", "open", "gone", "closed"}]
         /\ \A f \in Fds : owner'[f] = IF f \in fds THEN Nobody ELSE owner[f]
         /\ \A c \in Connections : conn'[c] = "waiting" => conn[c] = "waiting"
         /\ receiving' = receiving /\ stalled' = stalled
  <1>1. owner' = [f \in Fds |-> IF f \in fds THEN Nobody ELSE owner[f]] /\ KernelCloses
    BY DEF Close
  <1>2. owner' \in [Fds -> Connections \cup {Nobody}]
    BY <1>1 DEF SocketTypeOK
  <1>3. QED
    BY <1>1, <1>2, KernelFacts DEF Close

\* A thread's step to its next place leaves the others where they are.
LEMMA GotoFacts ==
  ASSUME SocketTypeOK, NEW c \in Connections, NEW step \in Place, SocketGoto(c, step)
  PROVE  /\ thread' \in [Connections -> [at : Place, fd : Fds]]
         /\ \A d \in Connections : thread'[d].fd = thread[d].fd
         /\ \A d \in Connections : thread'[d].at = IF d = c THEN step ELSE thread[d].at
  BY DEF SocketTypeOK, SocketGoto, Place

\* At the start there are no threads and no clients.
LEMMA InitSocketInv == SocketInit => SocketInv
  <1> SUFFICES ASSUME SocketInit PROVE SocketInv
    OBVIOUS
  <1>1. SocketTypeOK
    <2>1. 1 \in Fds
      BY SocketAssumption DEF Fds
    <2>2. owner \in [Fds -> Connections \cup {Nobody}]
      BY DEF SocketInit
    <2>3. QED
      BY <2>1, <2>2 DEF SocketInit, SocketTypeOK
  <1>2. WaitingIsUnserved /\ ReadingIsInRecv
    BY DEF SocketInit, WaitingIsUnserved, ReadingIsInRecv
  <1>3. ThreadsKeepToTheirOwn
    BY DEF SocketInit, ThreadsKeepToTheirOwn, Holds
  <1>4. QED
    BY <1>1, <1>2, <1>3 DEF SocketInv

-----------------------------------------------------------------------------
\* Steps that change neither threads nor descriptors nor the set of clients.
LEMMA QuietKeeps ==
  ASSUME SocketInv, UNCHANGED <<owner, thread, clients, receiving, broken>>,
         conn' \in [Connections -> {"waiting", "open", "gone", "closed"}],
         \A c \in Connections : conn'[c] = "waiting" => conn[c] = "waiting",
         running' \in BOOLEAN, listening' \in BOOLEAN, accepting' \in BOOLEAN,
         stalled' \in Connections \cup {Nobody}
  PROVE  SocketInv'
  <1>1. SocketTypeOK'
    BY DEF SocketInv, SocketTypeOK
  <1>2. WaitingIsUnserved' /\ ReadingIsInRecv'
    BY DEF SocketInv, WaitingIsUnserved, ReadingIsInRecv
  <1>3. ThreadsKeepToTheirOwn'
    BY DEF SocketInv, ThreadsKeepToTheirOwn, Holds
  <1>4. QED
    BY <1>1, <1>2, <1>3 DEF SocketInv

QuietStep ==
  \/ AcceptLoopTests \/ AcceptLoopTurns
  \/ \E c \in Connections : PeerLeaves(c)
  \/ BroadcastStalls \/ BroadcastGoesOn \/ StopBegins

\* The accept loop's turns, a peer's farewell, a stalled send and the beginning of
\* the stop are such steps.
LEMMA QuietStepKeeps == SocketInv /\ (QuietStep \/ UNCHANGED socketVars) => SocketInv'
  <1> SUFFICES ASSUME SocketInv, QuietStep \/ UNCHANGED socketVars PROVE SocketInv'
    OBVIOUS
  <1> DEFINE States == {"waiting", "open", "gone", "closed"}
  <1>1. /\ SocketTypeOK /\ conn \in [Connections -> States] /\ clients \subseteq Fds
        /\ stalled \in Connections \cup {Nobody}
        /\ \A f \in Fds : owner[f] \in Connections \cup {Nobody}
    BY DEF SocketInv, SocketTypeOK
  <1>2. /\ conn' \in [Connections -> States]
        /\ \A c \in Connections : conn'[c] = "waiting" => conn[c] = "waiting"
    <2>1. CASE UNCHANGED conn
      BY <1>1, <2>1
    <2>2. CASE \E c \in Connections : PeerLeaves(c)
      BY <1>1, <2>2 DEF PeerLeaves
    <2>3. CASE BroadcastGoesOn
      BY <1>1, <2>3, KernelFacts DEF BroadcastGoesOn
    <2>4. QED
      BY <2>1, <2>2, <2>3 DEF QuietStep, AcceptLoopTests, AcceptLoopTurns, BroadcastStalls,
         StopBegins, socketVars
  <1>3. stalled' \in Connections \cup {Nobody}
    <2>1. CASE BroadcastStalls
      BY <1>1, <2>1 DEF BroadcastStalls
    <2>2. QED
      BY <1>1, <2>1 DEF QuietStep, AcceptLoopTests, AcceptLoopTurns, PeerLeaves,
         BroadcastGoesOn, StopBegins, socketVars
  <1>4. /\ UNCHANGED <<owner, thread, clients, receiving, broken>>
        /\ running' \in BOOLEAN /\ listening' \in BOOLEAN /\ accepting' \in BOOLEAN
    BY <1>1 DEF SocketTypeOK, QuietStep, AcceptLoopTests, AcceptLoopTurns, PeerLeaves, BroadcastStalls,
       BroadcastGoesOn, StopBegins, socketVars
  <1>5. QED
    BY <1>2, <1>3, <1>4, QuietKeeps

\* The new connection gets a number that no thread at work has.
LEMMA AcceptKeeps == ASSUME NEW c \in Connections PROVE SocketInv /\ Accept(c) => SocketInv'
  <1> SUFFICES ASSUME SocketInv, Accept(c) PROVE SocketInv'
    OBVIOUS
  <1>1. PICK f \in Fds :
          /\ owner[f] = Nobody
          /\ owner' = [owner EXCEPT ![f] = c]
          /\ thread' = [thread EXCEPT ![c] = [at |-> "handshake", fd |-> f]]
    BY DEF Accept
  <1>2. /\ conn' = [conn EXCEPT ![c] = "open"]
        /\ UNCHANGED <<clients, running, listening, receiving, stalled, broken>> /\ accepting' = FALSE
    BY DEF Accept
  <1>3. thread[c].at = "none" /\ ThreadsKeepToTheirOwn
    BY DEF SocketInv, WaitingIsUnserved, Accept
  <1>4. SocketTypeOK'
    BY <1>1, <1>2 DEF SocketInv, SocketTypeOK
  <1>5. WaitingIsUnserved' /\ ReadingIsInRecv'
    BY <1>1, <1>2, <1>3 DEF SocketInv, SocketTypeOK, WaitingIsUnserved, ReadingIsInRecv
  <1>6. ASSUME ~broken' PROVE /\ \A d \in Connections : Holds(d)' => owner'[thread'[d].fd] = d
                              /\ \A d \in Connections : receiving'[d] \in {d, Nobody}
                              /\ clients' = Served'
    <2>1. ~broken
      BY <1>2, <1>6
    <2>2. \A d \in Connections \ {c} : thread'[d] = thread[d]
      BY <1>1 DEF SocketInv, SocketTypeOK
    <2>3. thread'[c].at = "handshake" /\ thread'[c].fd = f /\ owner'[f] = c
      BY <1>1 DEF SocketInv, SocketTypeOK
    <2>4. ASSUME NEW d \in Connections, Holds(d)' PROVE owner'[thread'[d].fd] = d
      <3>1. CASE d = c
        BY <2>3, <3>1
      <3>2. CASE d # c
        <4>1. owner[thread[d].fd] = d
          BY <1>3, <2>1, <2>2, <2>4, <3>2, OwnFacts DEF Holds
        <4>2. thread[d].fd # f
          BY <1>1, <4>1, SocketAssumption
        <4>3. thread[d].fd \in Fds
          BY DEF SocketInv, SocketTypeOK
        <4>4. owner'[thread[d].fd] = owner[thread[d].fd]
          BY <1>1, <4>2, <4>3 DEF SocketInv, SocketTypeOK
        <4>5. QED
          BY <2>2, <3>2, <4>1, <4>4
      <3>3. QED
        BY <3>1, <3>2
    <2>5. Served' = Served
      BY <1>3, <2>2, <2>3 DEF Served, InService
    <2>6. QED
      BY <1>2, <1>3, <2>1, <2>4, <2>5, OwnFacts
  <1>7. ThreadsKeepToTheirOwn'
    BY <1>6 DEF ThreadsKeepToTheirOwn, Served, Holds, InService
  <1>8. QED
    BY <1>4, <1>5, <1>7 DEF SocketInv

-----------------------------------------------------------------------------
(* handleWebSocketClient                                                   *)

\* A thread that closes closes its own connection, which no other thread serves.
LEMMA CloseOwnKeeps ==
  ASSUME NEW c \in Connections, SocketInv, CloseClient(c)
  PROVE  SocketInv'
  <1> USE DEF SocketInv
  <1> DEFINE fd == thread[c].fd
  <1>1. /\ Close({fd}) /\ SocketGoto(c, "done") /\ thread[c].at = "close"
        /\ UNCHANGED <<clients, running, listening, accepting, broken>>
    BY DEF CloseClient
  <1>2. /\ owner' \in [Fds -> Connections \cup {Nobody}]
        /\ conn' \in [Connections -> {"waiting", "open", "gone", "closed"}]
        /\ \A f \in Fds : owner'[f] = IF f \in {fd} THEN Nobody ELSE owner[f]
        /\ \A d \in Connections : conn'[d] = "waiting" => conn[d] = "waiting"
        /\ receiving' = receiving /\ stalled' = stalled
    BY <1>1, CloseFacts
  <1>3. /\ thread' \in [Connections -> [at : Place, fd : Fds]]
        /\ \A d \in Connections : thread'[d].fd = thread[d].fd
        /\ \A d \in Connections : thread'[d].at = IF d = c THEN "done" ELSE thread[d].at
    <2>1. "done" \in Place
      BY DEF Place
    <2>2. QED
      BY <1>1, <2>1, GotoFacts
  <1>4. SocketTypeOK'
    BY <1>1, <1>2, <1>3 DEF SocketTypeOK, Place
  <1>5. WaitingIsUnserved' /\ ReadingIsInRecv'
    BY <1>1, <1>2, <1>3 DEF WaitingIsUnserved, ReadingIsInRecv
  <1>6. ASSUME ~broken, NEW d \in Connections, Holds(d)' PROVE owner'[thread'[d].fd] = d
    <2>1. d # c /\ Holds(d) /\ Holds(c)
      BY <1>1, <1>3, <1>6 DEF Holds
    <2>2. thread[d].fd # fd /\ thread[d].fd \in Fds
      BY <1>6, <2>1, OwnDescriptors DEF SocketTypeOK
    <2>3. QED
      BY <1>2, <1>3, <1>6, <2>1, <2>2, OwnFacts
  <1>7. Served' = Served
    BY <1>1, <1>3 DEF Served, InService
  <1>8. ThreadsKeepToTheirOwn'
    BY <1>1, <1>2, <1>6, <1>7, OwnFacts DEF ThreadsKeepToTheirOwn, Served, Holds, InService
  <1>9. QED
    BY <1>4, <1>5, <1>8

\* The recv of a thread that serves its own connection waits for its own peer.
LEMMA WaitKeeps ==
  ASSUME NEW c \in Connections, SocketInv, WaitInRecv(c)
  PROVE  SocketInv'
  <1> USE DEF SocketInv
  <1>1. /\ thread[c].at \in {"handshake", "frame"} /\ owner[thread[c].fd] # Nobody
        /\ receiving' = [receiving EXCEPT ![c] = owner[thread[c].fd]]
        /\ UNCHANGED <<owner, conn, thread, clients, running, listening, accepting, stalled, broken>>
    BY DEF WaitInRecv, Alive
  <1>2. thread[c].fd \in Fds /\ owner[thread[c].fd] \in Connections \cup {Nobody}
    BY DEF SocketTypeOK
  <1>3. SocketTypeOK'
    BY <1>1, <1>2 DEF SocketTypeOK
  <1>4. \A d \in Connections : receiving'[d] = IF d = c THEN owner[thread[c].fd] ELSE receiving[d]
    BY <1>1 DEF SocketTypeOK
  <1>5. WaitingIsUnserved' /\ ReadingIsInRecv'
    BY <1>1, <1>4 DEF WaitingIsUnserved, ReadingIsInRecv
  <1>6. ~broken => owner[thread[c].fd] = c
    BY <1>1, OwnFacts DEF Holds
  <1>7. ThreadsKeepToTheirOwn'
    BY <1>1, <1>4, <1>6 DEF ThreadsKeepToTheirOwn, Holds
  <1>8. QED
    BY <1>3, <1>5, <1>7

\* A thread that goes on keeps its descriptor and is blocked no more; it enters and
\* leaves the set of clients together with its turn to be served.
LEMMA GoOnKeeps ==
  ASSUME NEW c \in Connections, SocketInv,
         NEW step \in {"insert", "serve", "frame", "erase", "close"}, SocketGoto(c, step), Holds(c),
         clients' \subseteq Fds, ~broken => clients' = Served',
         conn' \in [Connections -> {"waiting", "open", "gone", "closed"}],
         \A d \in Connections : conn'[d] = "waiting" => conn[d] = "waiting",
         receiving' = [receiving EXCEPT ![c] = Nobody],
         UNCHANGED <<owner, running, listening, accepting, stalled, broken>>
  PROVE  SocketInv'
  <1> USE DEF SocketInv
  <1>1. /\ thread' \in [Connections -> [at : Place, fd : Fds]]
        /\ \A d \in Connections : thread'[d].fd = thread[d].fd
        /\ \A d \in Connections : thread'[d].at = IF d = c THEN step ELSE thread[d].at
    <2>1. step \in Place
      BY DEF Place
    <2>2. QED
      BY <2>1, GotoFacts
  <1>2. SocketTypeOK'
    BY <1>1 DEF SocketTypeOK, Place
  <1>3. \A d \in Connections : receiving'[d] = IF d = c THEN Nobody ELSE receiving[d]
    BY DEF SocketTypeOK
  <1>4. WaitingIsUnserved' /\ ReadingIsInRecv'
    BY <1>1, <1>3 DEF WaitingIsUnserved, ReadingIsInRecv, Holds
  <1>5. ThreadsKeepToTheirOwn'
    BY <1>1, <1>3, OwnFacts DEF ThreadsKeepToTheirOwn, Served, InService, Holds
  <1>6. QED
    BY <1>2, <1>4, <1>5

\* The clients after a thread's turn are the threads then served.
LEMMA ServedFacts ==
  ASSUME NEW c \in Connections, SocketInv, ~broken, NEW step, Holds(c),
         thread' \in [Connections -> [at : Place, fd : Fds]],
         \A d \in Connections : thread'[d].fd = thread[d].fd,
         \A d \in Connections : thread'[d].at = IF d = c THEN step ELSE thread[d].at
  PROVE  /\ step \in InService => Served' = clients \cup {thread[c].fd}
         /\ step \notin InService => Served' = clients \ {thread[c].fd}
  <1>1. clients = Served
    BY OwnFacts DEF SocketInv
  <1>2. ASSUME NEW d \in Connections, thread[d].at \in InService, d # c
        PROVE  thread[d].fd # thread[c].fd
    BY <1>2, OwnDescriptors DEF SocketInv, Holds, InService
  <1>3. CASE step \in InService
    BY <1>1, <1>3 DEF Served
  <1>4. CASE step \notin InService
    BY <1>1, <1>2, <1>4 DEF Served
  <1>5. QED
    BY <1>3, <1>4

\* The number of a thread is among the clients exactly while it is served.
LEMMA ClientFacts ==
  ASSUME NEW c \in Connections, SocketInv, ~broken, Holds(c)
  PROVE  thread[c].fd \in clients <=> thread[c].at \in InService
  <1>1. clients = Served
    BY OwnFacts DEF SocketInv
  <1>2. ASSUME NEW d \in Connections, thread[d].at \in InService, thread[d].fd = thread[c].fd
        PROVE  d = c
    BY <1>2, OwnDescriptors DEF SocketInv, Holds, InService
  <1>3. QED
    BY <1>1, <1>2 DEF Served

ThreadTurn(c) ==
  \/ RecvReturns(c) \/ RecvFails(c) \/ InsertClient(c) \/ StartFrame(c)
  \/ StopServing(c) \/ EraseClient(c)

\* A turn that is no close leaves the number, and ends at most a wait.
LEMMA TurnFacts ==
  ASSUME NEW c \in Connections, SocketInv, ThreadTurn(c)
  PROVE  /\ Holds(c)
         /\ receiving' = [receiving EXCEPT ![c] = Nobody]
         /\ conn' \in [Connections -> {"waiting", "open", "gone", "closed"}]
         /\ \A d \in Connections : conn'[d] = "waiting" => conn[d] = "waiting"
         /\ UNCHANGED <<owner, running, listening, accepting, stalled, broken>>
         /\ KernelCloses \/ UNCHANGED <<conn, receiving>>
         /\ \E step \in {"insert", "serve", "frame", "erase", "close"} :
              /\ SocketGoto(c, step)
              /\ thread[c].at = "insert" => clients' = clients \cup {thread[c].fd}
              /\ thread[c].at = "erase" => clients' = clients \ {thread[c].fd}
              /\ thread[c].at \notin {"insert", "erase"} => clients' = clients
              /\ step \in InService <=> thread[c].at \in {"insert", "serve", "frame"}
  <1> USE DEF SocketInv
  <1>1. receiving \in [Connections -> Connections \cup {Nobody}] /\ SocketTypeOK
    BY DEF SocketTypeOK
  <1>2. CASE RecvReturns(c)
    <2>1. thread[c].at \in {"handshake", "frame"}
      BY <1>2 DEF RecvReturns, ReadingIsInRecv
    <2>2. /\ receiving' = [receiving EXCEPT ![c] = Nobody]
          /\ UNCHANGED <<owner, clients, running, listening, accepting, stalled, broken>>
          /\ KernelCloses
      BY <1>2 DEF RecvReturns
    <2>3. PICK step \in IF thread[c].at = "handshake" THEN {"insert"} ELSE {"serve", "frame"} :
            SocketGoto(c, step)
      BY <1>2 DEF RecvReturns
    <2>4. /\ step \in {"insert", "serve", "frame"}
          /\ step \in InService <=> thread[c].at \in {"insert", "serve", "frame"}
      BY <2>1, <2>3 DEF InService
    <2>5. /\ step \in {"insert", "serve", "frame", "erase", "close"} /\ SocketGoto(c, step)
          /\ thread[c].at # "insert" /\ thread[c].at # "erase" /\ clients' = clients
          /\ step \in InService <=> thread[c].at \in {"insert", "serve", "frame"}
      BY <2>1, <2>2, <2>3, <2>4
    <2>6. /\ Holds(c)
          /\ conn' \in [Connections -> {"waiting", "open", "gone", "closed"}]
          /\ \A d \in Connections : conn'[d] = "waiting" => conn[d] = "waiting"
      BY <1>1, <2>1, <2>2, KernelFacts DEF Holds
    <2>7. QED
      BY <2>2, <2>5, <2>6
  <1>3. CASE RecvFails(c)
    <2>1. thread[c].at \in {"handshake", "frame"}
      BY <1>3 DEF RecvFails
    <2>2. /\ receiving' = [receiving EXCEPT ![c] = Nobody]
          /\ UNCHANGED <<owner, clients, running, listening, accepting, stalled, broken>>
          /\ KernelCloses
      BY <1>3 DEF RecvFails
    <2>3. PICK step : step = IF thread[c].at = "frame" THEN "erase" ELSE "close"
      OBVIOUS
    <2>4. SocketGoto(c, step)
      BY <1>3, <2>3 DEF RecvFails
    <2>5. /\ step \in {"erase", "close"}
          /\ step \in InService <=> thread[c].at \in {"insert", "serve", "frame"}
      BY <2>1, <2>3 DEF InService
    <2>6. /\ step \in {"insert", "serve", "frame", "erase", "close"} /\ SocketGoto(c, step)
          /\ thread[c].at # "insert" /\ thread[c].at # "erase" /\ clients' = clients
          /\ step \in InService <=> thread[c].at \in {"insert", "serve", "frame"}
      BY <2>1, <2>2, <2>4, <2>5
    <2>7. /\ Holds(c)
          /\ conn' \in [Connections -> {"waiting", "open", "gone", "closed"}]
          /\ \A d \in Connections : conn'[d] = "waiting" => conn[d] = "waiting"
      BY <1>1, <2>1, <2>2, KernelFacts DEF Holds
    <2>8. QED
      BY <2>2, <2>6, <2>7
  <1>4. CASE InsertClient(c) \/ StartFrame(c) \/ StopServing(c) \/ EraseClient(c)
    <2>1. /\ thread[c].at \in {"insert", "serve", "erase"}
          /\ UNCHANGED <<owner, conn, running, listening, accepting, receiving, stalled, broken>>
      BY <1>4 DEF InsertClient, StartFrame, StopServing, EraseClient
    <2>2. receiving[c] = Nobody
      BY <2>1 DEF ReadingIsInRecv
    <2>3. receiving' = [receiving EXCEPT ![c] = Nobody]
      BY <1>1, <2>1, <2>2
    <2>4. QED
      BY <1>1, <1>4, <2>1, <2>3
      DEF SocketTypeOK, InsertClient, StartFrame, StopServing, EraseClient, Holds, InService
  <1>5. QED
    BY <1>2, <1>3, <1>4 DEF ThreadTurn

\* Every turn of a connection's thread keeps the invariant.
LEMMA ThreadKeeps == ASSUME NEW c \in Connections PROVE SocketInv /\ ThreadTurn(c) => SocketInv'
  <1> SUFFICES ASSUME SocketInv, ThreadTurn(c) PROVE SocketInv'
    OBVIOUS
  <1>1. PICK step \in {"insert", "serve", "frame", "erase", "close"} :
          /\ SocketGoto(c, step)
          /\ thread[c].at = "insert" => clients' = clients \cup {thread[c].fd}
          /\ thread[c].at = "erase" => clients' = clients \ {thread[c].fd}
          /\ thread[c].at \notin {"insert", "erase"} => clients' = clients
          /\ step \in InService <=> thread[c].at \in {"insert", "serve", "frame"}
    BY TurnFacts
  <1>2. SocketTypeOK /\ thread[c].fd \in Fds /\ clients \subseteq Fds /\ step \in Place /\ Holds(c)
    BY TurnFacts DEF SocketInv, SocketTypeOK, Place
  <1>3. clients' \subseteq Fds
    BY <1>1, <1>2
  <1>4. ASSUME ~broken PROVE clients' = Served'
    <2>1. /\ thread' \in [Connections -> [at : Place, fd : Fds]]
          /\ \A d \in Connections : thread'[d].fd = thread[d].fd
          /\ \A d \in Connections : thread'[d].at = IF d = c THEN step ELSE thread[d].at
      BY <1>1, <1>2, GotoFacts
    <2>2. Served' = IF step \in InService THEN clients \cup {thread[c].fd}
                    ELSE clients \ {thread[c].fd}
      BY <1>2, <1>4, <2>1, ServedFacts
    <2>3. thread[c].fd \in clients <=> thread[c].at \in {"serve", "frame", "erase"}
      BY <1>2, <1>4, ClientFacts DEF InService
    <2>4. QED
      BY <1>1, <2>2, <2>3
  <1>5. QED
    BY <1>1, <1>2, <1>3, <1>4, TurnFacts, GoOnKeeps

-----------------------------------------------------------------------------
\* What closes descriptors of others says so, unless there was nothing to close.
LEMMA CloseOthersKeeps == SocketInv /\ (BroadcastToWebSockets \/ StopCloses) => SocketInv'
  <1> SUFFICES ASSUME SocketInv, BroadcastToWebSockets \/ StopCloses PROVE SocketInv'
    OBVIOUS
  <1> USE DEF SocketInv
  <1>1. CASE BroadcastToWebSockets
    <2>1. PICK dead \in SUBSET clients : clients' = clients \ dead /\ Close(dead)
      BY <1>1 DEF BroadcastToWebSockets
    <2>2. broken' = TRUE /\ UNCHANGED <<thread, running, listening, accepting>>
      BY <1>1 DEF BroadcastToWebSockets
    <2>3. SocketTypeOK'
      BY <2>1, <2>2, CloseFacts DEF SocketTypeOK
    <2>4. WaitingIsUnserved' /\ ReadingIsInRecv'
      BY <2>1, <2>2, CloseFacts DEF WaitingIsUnserved, ReadingIsInRecv
    <2>5. ThreadsKeepToTheirOwn'
      BY <2>2 DEF ThreadsKeepToTheirOwn
    <2>6. QED
      BY <2>3, <2>4, <2>5
  <1>2. CASE StopCloses
    <2>1. /\ Close(clients) /\ clients' = {} /\ listening' = FALSE
          /\ broken' = (broken \/ clients # {})
          /\ UNCHANGED <<thread, running, accepting>>
      BY <1>2 DEF StopCloses
    <2>2. SocketTypeOK'
      BY <2>1, CloseFacts DEF SocketTypeOK
    <2>3. WaitingIsUnserved' /\ ReadingIsInRecv'
      BY <2>1, CloseFacts DEF WaitingIsUnserved, ReadingIsInRecv
    <2>4. ASSUME ~broken' PROVE UNCHANGED <<owner, thread, clients, receiving>> /\ ~broken
      <3>1. clients = {} /\ ~broken
        BY <2>1, <2>4
      <3>2. owner' = owner /\ receiving' = receiving
        BY <2>1, <3>1 DEF Close, SocketTypeOK
      <3>3. QED
        BY <2>1, <3>1, <3>2
    <2>5. ThreadsKeepToTheirOwn'
      BY <2>4 DEF ThreadsKeepToTheirOwn, Holds
    <2>6. QED
      BY <2>2, <2>3, <2>5
  <1>3. QED
    BY <1>1, <1>2

\* Every step of the node and its peers keeps the inductive invariant.
LEMMA NextStep == SocketInv /\ [SocketNext]_socketVars => SocketInv'
  BY QuietStepKeeps, AcceptKeeps, WaitKeeps, ThreadKeeps, CloseOwnKeeps, CloseOthersKeeps
  DEF SocketNext, QuietStep, ThreadStep, ThreadTurn

\* The inductive invariant holds throughout.
THEOREM SocketInductive == SocketSpec => []SocketInv
  BY InitSocketInv, NextStep, PTL DEF SocketSpec

\* Type correctness of the socket server: every connection's state, every thread's
\* place and every descriptor's owner are what SocketTypeOK says.
THEOREM SocketTypeCorrect == SocketSpec => []SocketTypeOK
  <1>1. SocketInv => SocketTypeOK
    BY DEF SocketInv
  <1>2. QED
    BY SocketInductive, <1>1, PTL

\* Until a broadcast or the stop closes a descriptor under its thread, every thread
\* works on its own connection, waits for its own peer only and the broadcast reaches
\* exactly the served ones.
THEOREM DescriptorsAreOwn == SocketSpec => []ThreadsKeepToTheirOwn
  <1>1. SocketInv => ThreadsKeepToTheirOwn
    BY DEF SocketInv
  <1>2. QED
    BY SocketInductive, <1>1, PTL

-----------------------------------------------------------------------------
(* No descriptor leaks                                                      *)

\* An open connection has a number, or a call that is blocked on it; a number in use
\* denotes an open connection, whose thread has the number and has yet to close it.
NothingLeaks ==
  /\ \A c \in Connections : conn[c] \in {"open", "gone"} => Held(c)
  /\ \A f \in Fds : owner[f] # Nobody =>
       /\ conn[owner[f]] \in {"open", "gone"}
       /\ thread[owner[f]].fd = f /\ Holds(owner[f])

\* Numbers are freed or waits end; a thread that ends has freed its number.
LEMMA CloseLeaksNothing ==
  ASSUME SocketInv, NothingLeaks, KernelCloses,
         \A f \in Fds : owner'[f] \in {owner[f], Nobody},
         \A d \in Connections : thread'[d].fd = thread[d].fd,
         \A d \in Connections : Holds(d) => Holds(d)' \/ owner'[thread[d].fd] = Nobody
  PROVE  NothingLeaks'
  <1>1. /\ \A c \in Connections : conn'[c] \in {"open", "gone"} => Held(c)'
        /\ \A c \in Connections : Held(c)' => conn'[c] = conn[c]
    BY KernelFacts DEF SocketInv
  <1>2. ASSUME NEW f \in Fds, owner'[f] # Nobody
        PROVE  /\ conn'[owner'[f]] \in {"open", "gone"}
               /\ thread'[owner'[f]].fd = f /\ Holds(owner[f])'
    <2>1. PICK c \in Connections : owner'[f] = c /\ owner[f] = c /\ c # Nobody
      BY <1>2 DEF SocketInv, SocketTypeOK
    <2>2. conn[c] \in {"open", "gone"} /\ thread[c].fd = f /\ Holds(c)
      BY <2>1 DEF NothingLeaks
    <2>3. Held(c)'
      BY <2>1 DEF Held
    <2>4. thread'[c].fd = f /\ Holds(c)'
      BY <1>2, <2>2
    <2>5. QED
      BY <1>1, <2>1, <2>2, <2>3, <2>4 DEF Holds
  <1>3. QED
    BY <1>1, <1>2 DEF NothingLeaks, Holds

\* A step that holds whatever was held, of threads that keep their numbers.
LEMMA StayLeaksNothing ==
  ASSUME NothingLeaks, UNCHANGED owner, SocketInv,
         \A c \in Connections : conn'[c] \in {"open", "gone"} <=> conn[c] \in {"open", "gone"},
         \A c \in Connections : receiving[c] # Nobody => receiving'[c] = receiving[c],
         stalled # Nobody => stalled' = stalled,
         \A d \in Connections : thread'[d].fd = thread[d].fd /\ (Holds(d) => Holds(d)')
  PROVE  NothingLeaks'
  <1>1. \A f \in Fds : owner[f] \in Connections \cup {Nobody}
    BY DEF SocketInv, SocketTypeOK
  <1>2. \A c \in Connections : Held(c) => Held(c)'
    BY SocketAssumption DEF Held
  <1>3. QED
    BY <1>1, <1>2 DEF NothingLeaks, Holds

LEMMA LeakSteps == SocketInv /\ NothingLeaks /\ [SocketNext]_socketVars => NothingLeaks'
  <1> SUFFICES ASSUME SocketInv, NothingLeaks, [SocketNext]_socketVars PROVE NothingLeaks'
    OBVIOUS
  <1>1. /\ SocketTypeOK /\ clients \subseteq Fds
        /\ \A c \in Connections : thread[c].fd \in Fds
        /\ \A f \in Fds : owner[f] \in Connections \cup {Nobody}
        /\ receiving \in [Connections -> Connections \cup {Nobody}]
    BY DEF SocketInv, SocketTypeOK
  <1>2. CASE BroadcastGoesOn
    BY <1>1, <1>2, CloseLeaksNothing DEF BroadcastGoesOn, Holds
  <1>3. CASE (QuietStep /\ ~BroadcastGoesOn) \/ UNCHANGED socketVars
    <2>1. UNCHANGED <<owner, thread, receiving>> /\ (stalled # Nobody => stalled' = stalled)
      BY <1>3 DEF QuietStep, AcceptLoopTests, AcceptLoopTurns, PeerLeaves, BroadcastStalls,
         StopBegins, socketVars
    <2>2. UNCHANGED conn \/ \E c \in Connections : PeerLeaves(c)
      BY <1>3 DEF QuietStep, AcceptLoopTests, AcceptLoopTurns, BroadcastStalls, StopBegins, socketVars
    <2>3. \A c \in Connections : conn'[c] \in {"open", "gone"} <=> conn[c] \in {"open", "gone"}
      BY <1>1, <2>2 DEF PeerLeaves, SocketTypeOK
    <2>4. QED
      BY <2>1, <2>3, StayLeaksNothing DEF Holds
  <1>4. ASSUME NEW c \in Connections, Accept(c) PROVE NothingLeaks'
    <2>1. PICK f \in Fds :
            /\ owner[f] = Nobody
            /\ owner' = [owner EXCEPT ![f] = c]
            /\ thread' = [thread EXCEPT ![c] = [at |-> "handshake", fd |-> f]]
      BY <1>4 DEF Accept
    <2>2. /\ conn[c] = "waiting" /\ conn' = [conn EXCEPT ![c] = "open"]
          /\ receiving' = receiving /\ stalled' = stalled
      BY <1>4 DEF Accept
    <2>3. /\ \A d \in Connections : d # c => thread'[d] = thread[d] /\ conn'[d] = conn[d]
          /\ thread'[c].at = "handshake" /\ thread'[c].fd = f /\ conn'[c] = "open"
          /\ \A g \in Fds : owner'[g] = IF g = f THEN c ELSE owner[g]
      BY <1>1, <2>1, <2>2 DEF SocketTypeOK
    <2>4. ASSUME NEW d \in Connections, conn'[d] \in {"open", "gone"} PROVE Held(d)'
      <3>1. CASE d = c
        BY <2>3, <3>1 DEF Held
      <3>2. CASE d # c
        <4>1. Held(d)
          BY <2>3, <2>4, <3>2 DEF NothingLeaks
        <4>2. d # Nobody
          BY SocketAssumption
        <4>3. QED
          BY <2>1, <2>2, <2>3, <4>1, <4>2 DEF Held
      <3>3. QED
        BY <3>1, <3>2
    <2>5. ASSUME NEW g \in Fds, owner'[g] # Nobody
          PROVE  /\ conn'[owner'[g]] \in {"open", "gone"}
                 /\ thread'[owner'[g]].fd = g /\ Holds(owner[g])'
      <3>1. CASE g = f
        BY <2>3, <3>1 DEF Holds
      <3>2. CASE g # f
        <4>1. PICK d \in Connections : owner[g] = d
          BY <1>1, <2>3, <2>5, <3>2
        <4>2. conn[d] \in {"open", "gone"} /\ thread[d].fd = g /\ Holds(d) /\ owner'[g] = d
          BY <2>3, <2>5, <3>2, <4>1 DEF NothingLeaks
        <4>3. d # c
          BY <2>2, <4>2
        <4>4. QED
          BY <2>3, <4>2, <4>3 DEF Holds
      <3>3. QED
        BY <3>1, <3>2
    <2>6. QED
      BY <2>4, <2>5 DEF NothingLeaks, Holds
  <1>5. ASSUME NEW c \in Connections, WaitInRecv(c) PROVE NothingLeaks'
    <2>1. /\ UNCHANGED <<owner, conn, thread, stalled>>
          /\ \A d \in Connections : receiving[d] # Nobody => receiving'[d] = receiving[d]
      BY <1>1, <1>5 DEF WaitInRecv
    <2>2. QED
      BY <2>1, StayLeaksNothing DEF Holds
  <1>6. ASSUME NEW c \in Connections, ThreadTurn(c) PROVE NothingLeaks'
    <2>1. /\ UNCHANGED <<owner, stalled>>
          /\ KernelCloses \/ UNCHANGED <<conn, receiving>>
      BY <1>6, TurnFacts
    <2>2. PICK step \in {"insert", "serve", "frame", "erase", "close"} : SocketGoto(c, step)
      BY <1>6, TurnFacts
    <2>3. /\ \A d \in Connections : thread'[d].fd = thread[d].fd
          /\ \A d \in Connections : thread'[d].at = IF d = c THEN step ELSE thread[d].at
      BY <1>1, <2>2, GotoFacts DEF Place
    <2>4. \A d \in Connections : Holds(d) => Holds(d)'
      BY <2>3 DEF Holds
    <2>5. QED
      BY <2>1, <2>3, <2>4, CloseLeaksNothing, StayLeaksNothing
  <1>7. ASSUME NEW c \in Connections, CloseClient(c) PROVE NothingLeaks'
    <2>1. /\ SocketGoto(c, "done") /\ KernelCloses
          /\ owner' = [f \in Fds |-> IF f \in {thread[c].fd} THEN Nobody ELSE owner[f]]
      BY <1>7 DEF CloseClient, Close
    <2>2. /\ \A d \in Connections : thread'[d].fd = thread[d].fd
          /\ \A d \in Connections : thread'[d].at = IF d = c THEN "done" ELSE thread[d].at
      BY <1>1, <2>1, GotoFacts DEF Place
    <2>3. \A d \in Connections : Holds(d) => Holds(d)' \/ owner'[thread[d].fd] = Nobody
      BY <1>1, <2>1, <2>2 DEF Holds
    <2>4. QED
      BY <2>1, <2>2, <2>3, CloseLeaksNothing
  <1>8. CASE BroadcastToWebSockets \/ StopCloses
    <2>1. PICK fds \in SUBSET Fds : Close(fds)
      BY <1>1, <1>8 DEF BroadcastToWebSockets, StopCloses
    <2>2. thread' = thread
      BY <1>8 DEF BroadcastToWebSockets, StopCloses
    <2>3. QED
      BY <2>1, <2>2, CloseLeaksNothing DEF Holds, Close
  <1>9. QED
    BY <1>2, <1>3, <1>4, <1>5, <1>6, <1>7, <1>8 DEF SocketNext, QuietStep, ThreadStep, ThreadTurn

\* However often numbers are used again and closed by two threads, a number in use
\* still has the thread that will close it, and a connection that is not closed has
\* such a number or a call that is blocked on it.  GoneIsClosed adds that the
\* connection of a peer that left is closed in the end.
THEOREM NoDescriptorLeaks == SocketSpec => []NothingLeaks
  <1>1. SocketInit => NothingLeaks
    BY DEF SocketInit, NothingLeaks
  <1>2. QED
    BY <1>1, LeakSteps, SocketInductive, PTL DEF SocketSpec
=============================================================================
