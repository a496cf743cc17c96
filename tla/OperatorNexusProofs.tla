------------------------- MODULE OperatorNexusProofs -------------------------
(***************************************************************************)
(* Proofs about OperatorNexus for every set of threads, every set of       *)
(* sessions and every timeout: behind the bridge the node implements       *)
(* FollowNode; standalone a stop cancels what was commanded before it.     *)
(***************************************************************************)
EXTENDS OperatorNexus, TLAPS

Steps == {"idle", "target", "store", "mode", "direct", "again", "first", "second",
          "publish", "broadcast"}

\* What a callback record holds.
LEMMA CallbackFields ==
  ASSUME NEW c \in Callback
  PROVE  /\ c.at \in Steps /\ c.timer \in BOOLEAN /\ c.match \in BOOLEAN
         /\ c.aim \in Sessions \cup {Other} /\ c.mode \in Mode /\ c.out \in Velocity
  BY DEF Callback, Steps

\* Going on to another step changes nothing else.
LEMMA MoveOn ==
  ASSUME NEW c \in Callback, NEW step \in Steps
  PROVE  LET d == [c EXCEPT !.at = step] IN
         /\ d \in Callback
         /\ d.at = step /\ d.aim = c.aim /\ d.mode = c.mode /\ d.out = c.out
  BY DEF Callback, Steps

\* Going on with a velocity changes nothing else.
LEMMA MoveOnWith ==
  ASSUME NEW c \in Callback, NEW step \in Steps, NEW out \in Velocity
  PROVE  LET d == [c EXCEPT !.at = step, !.out = out] IN
         /\ d \in Callback
         /\ d.at = step /\ d.aim = c.aim /\ d.mode = c.mode /\ d.out = out
  BY DEF Callback, Steps

\* Between two callbacks the executor holds nothing.
LEMMA IdleFields ==
  /\ Idle \in Callback
  /\ Idle.at = "idle" /\ Idle.aim = 0 /\ Idle.mode = "FOLLOW" /\ Idle.out = "zero"
  BY NexusAssumption DEF Idle, Callback, Mode, Velocity

\* The node starts with the switch off and no session.
LEMMA InitIndInv == Init => IndInv
  <1> SUFFICES ASSUME Init PROVE IndInv
    OBVIOUS
  <1>1. node = Idle
    BY DEF Init
  <1>2. TypeOK
    <2>1. direct \in [moves : BOOLEAN, age : 0 .. DirectTimeout + 1]
      BY NexusAssumption DEF Init
    <2>2. tagged \in [session : Sessions, aim : Sessions \cup {Other}, moves : BOOLEAN]
      BY NexusAssumption DEF Init
    <2>3. handler \in [Handlers -> {"idle", "switch", "direct"}]
      BY DEF Init
    <2>4. QED
      BY <1>1, <2>1, <2>2, <2>3, IdleFields, NexusAssumption
      DEF Init, TypeOK, Mode, Velocity
  <1>3. VelocityIsKnown /\ BridgeIsAlone /\ SwitchIsKnown
    BY <1>1, IdleFields DEF Init, VelocityIsKnown, BridgeIsAlone, SwitchIsKnown, Undecided
  <1>4. QED
    BY <1>2, <1>3 DEF IndInv

-----------------------------------------------------------------------------
(* The executor thinks                                                     *)

\* A step of the executor that stores nothing keeps the invariant if the velocity
\* in its hands is accounted for.
LEMMA NodeThinks ==
  ASSUME IndInv,
         UNCHANGED <<setup, shared, handler, cmdVel, tagged, reading, history>>,
         node' \in Callback,
         node'.at \in Undecided => node'.out = "zero",
         node'.at = "again" \/ node'.out = "follow" => node'.mode = "FOLLOW",
         node'.out = "direct" => commanded,
         setup = "operator" /\ (node'.at = "store" \/ node'.out = "follow")
           => node'.aim = target,
         node'.at = "publish" /\ node'.out = "follow" => moving
  PROVE  IndInv'
  <1>1. TypeOK'
    BY DEF IndInv, TypeOK, shared, flags, history
  <1>2. VelocityIsKnown'
    BY DEF IndInv, VelocityIsKnown, shared, history
  <1>3. BridgeIsAlone' /\ SwitchIsKnown'
    BY DEF IndInv, BridgeIsAlone, SwitchIsKnown, shared, flags, history
  <1>4. QED
    BY <1>1, <1>2, <1>3 DEF IndInv

\* processScan up to the mode, and the timer of the direct mode.
LEMMA ScanThinks ==
  IndInv /\ (ScanActive \/ ScanTarget \/ LoadMode \/ DirectTimer) => IndInv'
  <1> SUFFICES ASSUME IndInv, ScanActive \/ ScanTarget \/ LoadMode \/ DirectTimer
               PROVE  IndInv'
    OBVIOUS
  <1>1. /\ UNCHANGED <<setup, shared, handler, cmdVel, tagged, reading, history>>
        /\ node \in Callback /\ node.out = "zero"
        /\ target \in Sessions \cup {Other} /\ mode \in Mode
    BY DEF ScanActive, ScanTarget, LoadMode, DirectTimer, Quiet, IndInv, TypeOK,
           VelocityIsKnown, Undecided
  <1>2. /\ node' \in Callback /\ node'.out = "zero"
        /\ node'.at = "store" => node'.aim = target
        /\ node'.at = "again" => node'.mode = "FOLLOW"
    <2>1. CASE ScanActive
      <3>1. "target" \in Steps
        BY DEF Steps
      <3>2. QED
        BY <1>1, <2>1, <3>1, MoveOn DEF ScanActive, Goto
    <2>2. CASE ScanTarget
      <3>1. CASE node' = Idle
        BY <3>1, IdleFields
      <3>2. ASSUME NEW match \in BOOLEAN,
                   node' = [node EXCEPT !.at = IF match THEN "store" ELSE "mode",
                                        !.match = match, !.aim = target]
            PROVE  /\ node' \in Callback /\ node'.out = "zero" /\ node'.aim = target
                   /\ node'.at # "again"
        BY <1>1, <3>2 DEF Callback
      <3>3. QED
        BY <2>2, <3>1, <3>2 DEF ScanTarget
    <2>3. CASE LoadMode
      <3>1. PICK step \in {"direct", "again", "first"} :
              /\ node' = [node EXCEPT !.mode = mode, !.at = step]
              /\ step = "again" => mode = "FOLLOW"
        BY <2>3 DEF LoadMode
      <3>2. /\ node' \in Callback /\ node'.at = step /\ node'.out = "zero"
            /\ node'.mode = mode
        BY <1>1, <3>1 DEF Callback
      <3>3. QED
        BY <3>1, <3>2
    <2>4. CASE DirectTimer
      <3>1. node' = [Idle EXCEPT !.at = "direct", !.timer = TRUE, !.mode = "DIRECT"]
        BY <2>4 DEF DirectTimer
      <3>2. QED
        BY <3>1, IdleFields DEF Callback, Mode
    <2>5. QED
      BY <2>1, <2>2, <2>3, <2>4
  <1>3. QED
    BY <1>1, <1>2, NodeThinks

\* The velocity is computed: a direct one was commanded, a follow one aims at the
\* target that is in force.
LEMMA VelocityIsComputed == IndInv /\ (ReadDirect \/ FollowVelocity) => IndInv'
  <1> SUFFICES ASSUME IndInv, ReadDirect \/ FollowVelocity PROVE IndInv'
    OBVIOUS
  <1>1. /\ UNCHANGED <<setup, shared, handler, cmdVel, tagged, reading, history>>
        /\ node \in Callback /\ target \in Sessions \cup {Other}
        /\ direct.moves => commanded
    BY DEF ReadDirect, FollowVelocity, IndInv, TypeOK, VelocityIsKnown
  <1>2. CASE ReadDirect
    <2>1. PICK step \in {"publish", "first"}, out \in {"direct", "zero"} :
            /\ node' = [node EXCEPT !.at = step, !.out = out]
            /\ out = "direct" => direct.moves
      BY <1>2 DEF ReadDirect
    <2>2. step \in Steps /\ out \in Velocity
      BY DEF Steps, Velocity
    <2>3. /\ node' \in Callback /\ node'.at = step /\ node'.out = out
          /\ node'.aim = node.aim /\ node'.mode = node.mode
      BY <1>1, <2>1 DEF Callback, Velocity
    <2>4. node'.at \notin Undecided /\ node'.at # "store"
      BY <2>3 DEF Undecided
    <2>5. node'.at # "again"
      BY <2>3
    <2>6. node'.out # "follow"
      BY <2>3
    <2>7. QED
      BY <1>1, <2>1, <2>3, <2>4, <2>5, <2>6, NodeThinks
  <1>3. CASE FollowVelocity
    <2>1. PICK out \in {"zero", "follow"} :
            node' = [node EXCEPT !.at = "first", !.aim = target, !.out = out]
      BY <1>3 DEF FollowVelocity
    <2>2. /\ node' \in Callback /\ node'.at = "first" /\ node'.out = out
          /\ node'.aim = target /\ node'.mode = node.mode
      BY <1>1, <2>1 DEF Callback, Velocity
    <2>3. node.mode = "FOLLOW"
      BY <1>3 DEF FollowVelocity, IndInv, VelocityIsKnown
    <2>4. QED
      BY <1>1, <2>1, <2>2, <2>3, NodeThinks DEF Undecided
  <1>4. QED
    BY <1>2, <1>3

\* publishVelocity loads the switch: a follow velocity passes only through it.
LEMMA SwitchIsLoaded == IndInv /\ (Gate \/ GateAgain) => IndInv'
  <1> SUFFICES ASSUME IndInv, Gate \/ GateAgain PROVE IndInv'
    OBVIOUS
  <1>1. /\ UNCHANGED <<setup, shared, handler, cmdVel, tagged, reading, history>>
        /\ node \in Callback /\ node.out \in Velocity
        /\ node.out = "follow" => node.mode = "FOLLOW"
        /\ node.out = "direct" => commanded
        /\ setup = "operator" /\ node.out = "follow" => node.aim = target
    BY CallbackFields DEF Gate, GateAgain, IndInv, TypeOK, VelocityIsKnown, BridgeIsAlone
  <1>2. PICK step \in {"second", "publish"}, out \in {node.out, "zero"} :
          /\ node' = [node EXCEPT !.at = step, !.out = out]
          /\ step = "publish" /\ out = "follow" => moving
    <2>1. CASE Gate
      <3>1. CASE moving /\ node.mode # "DIRECT"
        <4>1. node' = [node EXCEPT !.at = "second", !.out = node.out]
          BY <1>1, <2>1, <3>1 DEF Gate, Callback
        <4>2. QED
          BY <4>1
      <3>2. CASE ~(moving /\ node.mode # "DIRECT")
        BY <1>1, <2>1, <3>2 DEF Gate
      <3>3. QED
        BY <3>1, <3>2
    <2>2. CASE GateAgain
      BY <2>2 DEF GateAgain
    <2>3. QED
      BY <2>1, <2>2
  <1>3. /\ node' \in Callback /\ node'.at = step /\ node'.out = out
        /\ node'.aim = node.aim /\ node'.mode = node.mode
    BY <1>1, <1>2 DEF Callback, Velocity
  <1>4. QED
    BY <1>1, <1>2, <1>3, NodeThinks DEF Undecided

\* The frame was broadcast.
LEMMA CallbackEnds == IndInv /\ Broadcast => IndInv'
  BY IdleFields, NodeThinks DEF Broadcast

-----------------------------------------------------------------------------
(* The executor stores                                                     *)

\* What a published velocity becomes behind the bridge.
LEMMA TaggedType ==
  ASSUME IndInv, Publish
  PROVE  tagged' \in [session : Sessions, aim : Sessions \cup {Other}, moves : BOOLEAN]
  <1>1. node \in Callback /\ session \in Sessions
    BY DEF IndInv, TypeOK
  <1>2. node.aim \in Sessions \cup {Other}
    BY <1>1, CallbackFields
  <1>3. QED
    BY <1>1, <1>2 DEF Publish, IndInv, TypeOK

\* A velocity is published; the callback of the timer ends, that of a scan goes on.
LEMMA VelocityIsPublished == IndInv /\ Publish => IndInv'
  <1> SUFFICES ASSUME IndInv, Publish PROVE IndInv'
    OBVIOUS
  <1>1. /\ UNCHANGED <<setup, shared, handler, reading, commanded, enabled>>
        /\ node \in Callback /\ node.at = "publish" /\ node.out \in Velocity
        /\ inFlight' \in BOOLEAN
    BY CallbackFields DEF Publish, IndInv, TypeOK
  <1>2. \/ node' = Idle
        \/ /\ node' \in Callback /\ node'.at = "broadcast" /\ node'.aim = node.aim
           /\ node'.mode = node.mode /\ node'.out = node.out
    <2>1. "broadcast" \in Steps
      BY DEF Steps
    <2>2. CASE node' = [node EXCEPT !.at = "broadcast"]
      BY <1>1, <2>1, <2>2, MoveOn
    <2>3. QED
      BY <2>2 DEF Publish, Goto
  <1>3. node' \in Callback
    BY <1>2, IdleFields
  <1>4. TypeOK'
    BY <1>1, <1>3, TaggedType DEF Publish, IndInv, TypeOK, shared, flags
  <1>5. VelocityIsKnown'
    BY <1>1, <1>2, IdleFields DEF IndInv, VelocityIsKnown, Undecided, shared
  <1>6. BridgeIsAlone' /\ SwitchIsKnown'
    BY <1>1, <1>2, IdleFields DEF IndInv, BridgeIsAlone, SwitchIsKnown, shared, flags
  <1>7. QED
    BY <1>4, <1>5, <1>6 DEF IndInv

\* The centroid is stored: behind the bridge over the target it was tracked from.
LEMMA CentroidIsStored == IndInv /\ StoreCentroid => IndInv'
  <1> SUFFICES ASSUME IndInv, StoreCentroid PROVE IndInv'
    OBVIOUS
  <1>1. /\ UNCHANGED <<setup, session, flags, direct, handler, cmdVel, tagged, reading,
                       history>>
        /\ node \in Callback /\ node.at = "store" /\ target' = node.aim
        /\ node.out = "zero"
    BY DEF StoreCentroid, IndInv, TypeOK, VelocityIsKnown, Undecided
  <1>2. /\ node' \in Callback /\ node'.at = "mode" /\ node'.aim = node.aim
        /\ node'.mode = node.mode /\ node'.out = node.out
    <2>1. "mode" \in Steps
      BY DEF Steps
    <2>2. QED
      BY <1>1, <2>1, MoveOn DEF StoreCentroid, Goto
  <1>3. TypeOK'
    BY <1>1, <1>2, CallbackFields DEF IndInv, TypeOK, flags, history
  <1>4. VelocityIsKnown' /\ SwitchIsKnown'
    BY <1>1, <1>2 DEF IndInv, VelocityIsKnown, SwitchIsKnown, flags, history
  <1>5. BridgeIsAlone'
    BY <1>1, <1>2 DEF IndInv, BridgeIsAlone, flags, history
  <1>6. QED
    BY <1>3, <1>4, <1>5 DEF IndInv

\* ~/operator_target, ~/set_moving and ~/target arrive between two frames.
LEMMA RequestIsServed == IndInv /\ (OperatorTarget \/ SetMoving \/ Target) => IndInv'
  <1> SUFFICES ASSUME IndInv, OperatorTarget \/ SetMoving \/ Target PROVE IndInv'
    OBVIOUS
  <1>1. /\ UNCHANGED <<setup, node, handler, cmdVel, tagged, reading>>
        /\ node.at = "idle" /\ node.out = "zero"
    BY DEF OperatorTarget, SetMoving, Target, Quiet, IndInv, VelocityIsKnown, Undecided
  <1>2. CASE OperatorTarget
    <2>1. /\ target' \in Sessions \cup {Other} /\ session' \in Sessions
          /\ moving' \in BOOLEAN /\ active' \in BOOLEAN /\ mode' \in Mode
      BY <1>2 DEF OperatorTarget, IndInv, TypeOK, Mode
    <2>2. direct' \in [moves : BOOLEAN, age : 0 .. DirectTimeout + 1] /\ ~direct'.moves
      BY <1>2, NexusAssumption DEF OperatorTarget, NoCmd
    <2>3. TypeOK'
      BY <1>1, <1>2, <2>1, <2>2 DEF OperatorTarget, IndInv, TypeOK, history
    <2>4. VelocityIsKnown'
      BY <1>1, <1>2, <2>2 DEF OperatorTarget, IndInv, VelocityIsKnown, history
    <2>5. BridgeIsAlone' /\ SwitchIsKnown'
      BY <1>1, <1>2 DEF OperatorTarget, IndInv, BridgeIsAlone, SwitchIsKnown, history
    <2>6. QED
      BY <2>3, <2>4, <2>5 DEF IndInv
  <1>3. CASE SetMoving
    <2>1. direct' \in [moves : BOOLEAN, age : 0 .. DirectTimeout + 1] /\ ~direct'.moves
      BY <1>3, NexusAssumption DEF SetMoving, NoCmd
    <2>2. TypeOK'
      BY <1>1, <1>3, <2>1 DEF SetMoving, IndInv, TypeOK
    <2>3. VelocityIsKnown'
      BY <1>1, <1>3, <2>1 DEF SetMoving, IndInv, VelocityIsKnown
    <2>4. (setup = "operator" => ~moving') /\ (moving' => enabled')
      <3>1. PICK on \in {FALSE, setup = "standalone"} : moving' = on /\ enabled' = on
        BY <1>3 DEF SetMoving
      <3>2. setup = "operator" => ~on
        BY ZenonT(30)
      <3>3. QED
        BY <3>1, <3>2
    <2>5. BridgeIsAlone' /\ SwitchIsKnown'
      BY <1>1, <1>3, <2>4 DEF SetMoving, IndInv, BridgeIsAlone, SwitchIsKnown
    <2>6. QED
      BY <2>2, <2>3, <2>5 DEF IndInv
  <1>4. CASE Target
    <2>1. TypeOK'
      BY <1>1, <1>4 DEF Target, IndInv, TypeOK, flags, history
    <2>2. VelocityIsKnown' /\ BridgeIsAlone' /\ SwitchIsKnown'
      BY <1>1, <1>4
      DEF Target, IndInv, VelocityIsKnown, BridgeIsAlone, SwitchIsKnown, flags, history
    <2>3. QED
      BY <2>1, <2>2 DEF IndInv
  <1>5. QED
    BY <1>2, <1>3, <1>4

-----------------------------------------------------------------------------
(* The handlers and the clock                                              *)

\* Behind the bridge there is no handler; standalone they keep what the executor
\* relies on.
LEMMA HandlerActs ==
  ASSUME NEW h \in Handlers, IndInv,
         \/ Finish(h)
         \/ WebTarget(h) \/ WebMoving(h) \/ WebActive(h) \/ SwitchMode(h) \/ DirectCmd(h)
  PROVE  IndInv'
  <1>1. setup = "standalone" /\ Unseen /\ node \in Callback
    BY DEF Finish, SwitchDisables, DirectMode, WebTarget, WebMoving, WebActive,
           SwitchMode, DirectCmd, Handles, IndInv, TypeOK
  <1>2. /\ target' \in Sessions \cup {Other}
        /\ moving' \in BOOLEAN /\ active' \in BOOLEAN /\ mode' \in Mode
    BY DEF Finish, SwitchDisables, DirectMode, WebTarget, WebMoving, WebActive,
           SwitchMode, DirectCmd, IndInv, TypeOK, Mode, flags
  <1>3. /\ direct' \in [moves : BOOLEAN, age : 0 .. DirectTimeout + 1]
        /\ direct'.moves => commanded'
        /\ commanded => commanded'
    <2>1. CASE DirectCmd(h)
      BY <2>1, NexusAssumption DEF DirectCmd
    <2>2. CASE ~DirectCmd(h)
      BY <2>2 DEF Finish, SwitchDisables, DirectMode, WebTarget, WebMoving, WebActive,
                  SwitchMode, IndInv, TypeOK, VelocityIsKnown, history
    <2>3. QED
      BY <2>1, <2>2
  <1>4. handler' \in [Handlers -> {"idle", "switch", "direct"}]
    BY DEF Finish, SwitchDisables, DirectMode, WebTarget, WebMoving, WebActive,
           SwitchMode, DirectCmd, Becomes, IndInv, TypeOK
  <1>5. commanded' \in BOOLEAN /\ enabled' \in BOOLEAN /\ inFlight' \in BOOLEAN
    BY DEF Finish, SwitchDisables, DirectMode, WebTarget, WebMoving, WebActive,
           SwitchMode, DirectCmd, Off, IndInv, TypeOK, history
  <1>6. /\ moving' => enabled'
        /\ node.at # "idle" /\ (enabled \/ inFlight) => enabled' \/ inFlight'
    <2>1. moving => enabled
      BY <1>1 DEF IndInv, SwitchIsKnown
    <2>2. CASE SwitchDisables(h)
      BY <2>2 DEF SwitchDisables, Off
    <2>3. CASE WebMoving(h)
      BY <2>3 DEF WebMoving, Off
    <2>4. CASE ~SwitchDisables(h) /\ ~WebMoving(h)
      <3>1. UNCHANGED <<moving, enabled, inFlight>>
        BY <2>4 DEF Finish, DirectMode, WebTarget, WebActive, SwitchMode, DirectCmd,
                    flags, history
      <3>2. QED
        BY <2>1, <3>1
    <2>5. QED
      BY <2>2, <2>3, <2>4
  <1>7. TypeOK'
    BY <1>1, <1>2, <1>3, <1>4, <1>5 DEF Unseen, IndInv, TypeOK
  <1>8. VelocityIsKnown'
    BY <1>1, <1>3 DEF Unseen, IndInv, VelocityIsKnown
  <1>9. BridgeIsAlone' /\ SwitchIsKnown'
    BY <1>1, <1>6 DEF Unseen, IndInv, BridgeIsAlone, SwitchIsKnown
  <1>10. QED
    BY <1>7, <1>8, <1>9 DEF IndInv

\* Time passes, a client stalls or reads again, or nothing happens.
LEMMA NothingIsShared == IndInv /\ (Tick \/ ClientStalls \/ UNCHANGED vars) => IndInv'
  <1> SUFFICES ASSUME IndInv, Tick \/ ClientStalls \/ UNCHANGED vars PROVE IndInv'
    OBVIOUS
  <1>1. UNCHANGED <<setup, target, session, flags, node, handler, cmdVel, tagged, history>>
    BY DEF Tick, ClientStalls, vars, shared
  <1>2. reading' \in BOOLEAN
    BY DEF Tick, ClientStalls, vars, IndInv, TypeOK
  <1>3. /\ direct' \in [moves : BOOLEAN, age : 0 .. DirectTimeout + 1]
        /\ direct'.moves = direct.moves
    <2>1. direct \in [moves : BOOLEAN, age : 0 .. DirectTimeout + 1]
      BY DEF IndInv, TypeOK
    <2>2. CASE Tick
      BY <2>1, <2>2, NexusAssumption DEF Tick
    <2>3. CASE ClientStalls \/ UNCHANGED vars
      BY <2>1, <2>3 DEF ClientStalls, vars, shared
    <2>4. QED
      BY <2>2, <2>3
  <1>4. TypeOK'
    BY <1>1, <1>2, <1>3 DEF IndInv, TypeOK, flags, history
  <1>5. VelocityIsKnown' /\ BridgeIsAlone' /\ SwitchIsKnown'
    BY <1>1, <1>3 DEF IndInv, VelocityIsKnown, BridgeIsAlone, SwitchIsKnown, flags, history
  <1>6. QED
    BY <1>4, <1>5 DEF IndInv

-----------------------------------------------------------------------------
(* The theorems                                                            *)

\* The ten kinds of steps.
LEMMA NextIndInv == IndInv /\ [Next]_vars => IndInv'
  <1> SUFFICES ASSUME IndInv, [Next]_vars PROVE IndInv'
    OBVIOUS
  <1>1. CASE ScanActive \/ Proceed
    <2>1. CASE ScanActive \/ ScanTarget \/ LoadMode
      BY <2>1, ScanThinks
    <2>2. CASE ReadDirect \/ FollowVelocity
      BY <2>2, VelocityIsComputed
    <2>3. CASE Gate \/ GateAgain \/ Broadcast
      BY <2>3, SwitchIsLoaded, CallbackEnds
    <2>4. CASE Publish \/ StoreCentroid
      BY <2>4, VelocityIsPublished, CentroidIsStored
    <2>5. QED
      BY <1>1, <2>1, <2>2, <2>3, <2>4 DEF Proceed
  <1>2. CASE DirectTimer \/ OperatorTarget \/ SetMoving \/ Target
    BY <1>2, ScanThinks, RequestIsServed
  <1>3. ASSUME NEW h \in Handlers,
               \/ Finish(h)
               \/ WebTarget(h) \/ WebMoving(h) \/ WebActive(h) \/ SwitchMode(h)
               \/ DirectCmd(h)
        PROVE  IndInv'
    BY <1>3, HandlerActs
  <1>4. CASE Tick \/ ClientStalls \/ UNCHANGED vars
    BY <1>4, NothingIsShared
  <1>5. QED
    BY <1>1, <1>2, <1>3, <1>4 DEF Next

\* IndInv holds in every reachable state.
THEOREM Inductive == Spec => []IndInv
  BY InitIndInv, NextIndInv, PTL DEF Spec

\* Every reachable state is well typed.
THEOREM TypeCorrect == Spec => []TypeOK
  <1>1. IndInv => TypeOK
    BY DEF IndInv
  <1>2. QED
    BY <1>1, Inductive, PTL

\* A direct command given before ~/set_moving moves no more after it.
THEOREM CancelIsFinal == Spec => DirectIsCancelled
  <1>1. IndInv => [Publishes("direct") => commanded]_vars
    BY DEF IndInv, VelocityIsKnown, Publishes
  <1>2. QED
    BY <1>1, Inductive, PTL DEF DirectIsCancelled

\* Standalone, a follow motion was switched on, but for the frame that was being
\* computed when the switch went off.
THEOREM FollowIsEnabled == Spec => FollowNeedsEnable
  <1>1. IndInv => [setup = "standalone" /\ Publishes("follow") => enabled \/ inFlight]_vars
    BY DEF IndInv, SwitchIsKnown, Publishes
  <1>2. QED
    BY <1>1, Inductive, PTL DEF FollowNeedsEnable

\* Every step of the node is a step of the promise or none.
LEMMA StepRefines ==
  IndInv /\ [Next]_vars => [Promise!Retarget \/ Promise!Send]_<<session, tagged>>
  <1> SUFFICES ASSUME IndInv, [Next]_vars
               PROVE  [Promise!Retarget \/ Promise!Send]_<<session, tagged>>
    OBVIOUS
  <1>1. CASE Publish
    <2>1. CASE setup = "standalone"
      BY <1>1, <2>1 DEF Publish, shared
    <2>2. CASE setup = "operator"
      <3>1. node \in Callback /\ node.out \in Velocity /\ node.at = "publish"
        BY <1>1, CallbackFields DEF IndInv, TypeOK, Publish
      <3>2. node.out # "direct"
        BY <2>2 DEF IndInv, VelocityIsKnown, BridgeIsAlone
      <3>3. node.out = "follow" => session # 0 /\ node.aim = session
        BY <2>2, <3>1 DEF IndInv, BridgeIsAlone
      <3>4. tagged' = [session |-> session, aim |-> session, moves |-> node.out = "follow"]
        BY <1>1, <2>2, <3>1, <3>2, <3>3 DEF Publish, Velocity
      <3>5. (node.out = "follow") \in {FALSE, session # 0}
        BY <3>3
      <3>6. Promise!Send
        BY <1>1, <3>4, <3>5 DEF Promise!Send, Publish, shared
      <3>7. QED
        BY <3>6
    <2>3. QED
      BY <2>1, <2>2 DEF IndInv, TypeOK
  <1>2. CASE OperatorTarget
    BY <1>2 DEF OperatorTarget, Quiet, Promise!Retarget
  <1>3. ASSUME ~Publish, ~OperatorTarget
        PROVE  UNCHANGED <<session, tagged>>
    BY <1>3
    DEF Next, vars, shared, Proceed, ScanActive, ScanTarget, StoreCentroid, LoadMode, ReadDirect,
        FollowVelocity, Gate, GateAgain, Broadcast, DirectTimer, SetMoving, Target, Quiet,
        Finish, SwitchDisables, DirectMode, WebTarget, WebMoving, WebActive, SwitchMode,
        DirectCmd, Unseen, Tick, ClientStalls
  <1>4. QED
    BY <1>1, <1>2, <1>3

\* Behind the bridge the node implements the promise the bridge relies on: what it
\* sends moves for the session it names or not at all.
THEOREM PromiseIsKept == Spec => ImplementsFollowNode
  <1>1. Init => Promise!Init
    BY DEF Init, Promise!Init
  <1>2. QED
    BY <1>1, StepRefines, Inductive, PTL DEF Spec, ImplementsFollowNode, Promise!Spec
=============================================================================
