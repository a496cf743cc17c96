-------------------------- MODULE LegacyDriveProofs --------------------------
(***************************************************************************)
(* Proofs about LegacyDrive for any limits, any queue depth and any number *)
(* of requests: postures and axis frames exclude each other, an unfit      *)
(* robot gets at most the frame already decided, and the destructor stops  *)
(* what it leaves.                                                         *)
(***************************************************************************)
EXTENDS LegacyDrive, TLAPS

\* The bound of an instance is a number.
LEMMA SetupFacts == ASSUME setup \in Setups PROVE setup.actions \in Nat
  BY LegacyAssumption

\* The limits are numbers.
LEMMA Limits ==
  /\ CloudTimeout \in Nat /\ CmdTimeout \in Nat /\ StatusTimeout \in Nat
  /\ ActionRetry \in Nat /\ ActionTimeout \in Nat
  /\ Zeros \in Nat /\ Depth \in Nat \ {0}
  BY LegacyAssumption

\* The command topic keeps at most Depth messages.
LEMMA OutputBounded ==
  ASSUME topic \in Seq(BOOLEAN), Len(topic) <= Depth, NEW moves \in BOOLEAN, Output(moves)
  PROVE  topic' \in Seq(BOOLEAN) /\ Len(topic') <= Depth
  <1>1. Depth \in Nat \ {0}
    BY LegacyAssumption
  <1>2. CASE Len(topic) = Depth
    <2>1. topic # <<>>
      BY <1>1, <1>2
    <2>2. Tail(topic) \in Seq(BOOLEAN) /\ Len(Tail(topic)) = Depth - 1
      BY <2>1, <1>2
    <2>3. topic' = Append(Tail(topic), moves)
      BY <1>2 DEF Output
    <2>4. QED
      BY <2>2, <2>3, <1>1
  <1>3. CASE Len(topic) # Depth
    <2>1. topic' = Append(topic, moves)
      BY <1>3 DEF Output
    <2>2. QED
      BY <2>1, <1>3, <1>1
  <1>4. QED
    BY <1>2, <1>3

\* At the start nothing is pending, sent or lost.
LEMMA InitIndInv == Init => IndInv
  <1> SUFFICES ASSUME Init PROVE IndInv
    OBVIOUS
  <1>1. TypeOK
    <2> USE Limits
    <2>1. setup \in Setups
      BY DEF Init
    <2>2. follow \in [running : BOOLEAN, enabled : BOOLEAN, moves : BOOLEAN, age : 0 .. CloudTimeout + 1]
      <3>1. setup.follow \in BOOLEAN
        BY <2>1, LegacyAssumption
      <3>2. QED
        BY <2>1, <3>1 DEF Init
    <2>3. topic \in Seq(BOOLEAN) /\ Len(topic) <= Depth
      BY <2>1 DEF Init
    <2>4. action \in [kind : Action \cup {"none"}, age : 0 .. ActionTimeout + 1, sent : 0 .. ActionRetry]
      BY <2>1 DEF Init, NoAction
    <2>5. command \in [moves : BOOLEAN, age : 0 .. CmdTimeout + 1] /\ status \in Status
      BY <2>1 DEF Init, Status, Posture
    <2>6. requests \in 0 .. setup.actions
      BY <2>1, SetupFacts DEF Init
    <2>7. /\ statusAge \in 0 .. StatusTimeout + 1
          /\ left \in 0 .. Zeros /\ lost \in 0 .. Zeros
      BY DEF Init
    <2>8. /\ armed \in BOOLEAN /\ posture \in BOOLEAN /\ outdated \in BOOLEAN
          /\ sending = "none" /\ phase = "run" /\ wire = "zero"
      BY DEF Init
    <2>9. QED
      BY <2>1, <2>2, <2>3, <2>4, <2>5, <2>6, <2>7, <2>8 DEF TypeOK
  <1>2. ActionDisarms /\ FrameIsArmed
    BY DEF Init, ActionDisarms, FrameIsArmed, NoAction
  <1>3. ZerosAgree
    BY LegacyAssumption DEF Init, ZerosAgree
  <1>4. QED
    BY <1>1, <1>2, <1>3 DEF IndInv

-----------------------------------------------------------------------------
(* The follow node and the receiving thread                                *)

\* The invariants' parts that speak of the bridge do not see the follow node.
LEMMA OthersKeep == 
  ASSUME IndInv, Others
  PROVE  ActionDisarms' /\ FrameIsArmed' /\ ZerosAgree'
  <1> USE DEF IndInv, Others, bridge, view, process, history
  <1>1. ActionDisarms' /\ FrameIsArmed'
    BY DEF ActionDisarms, FrameIsArmed, StatusAllowsMotion
  <1>2. ZerosAgree'
    BY DEF ZerosAgree
  <1>3. QED
    BY <1>1, <1>2

FollowNodeStep ==
  ProcessPointCloud \/ TargetCallback \/ EnableCallback \/ OutputTimer \/ FollowDies \/ OtherCommand

\* The follow node changes its own state and the topic only.
LEMMA FollowKeeps == IndInv /\ FollowNodeStep => IndInv'
  <1> SUFFICES ASSUME IndInv, FollowNodeStep PROVE IndInv'
    OBVIOUS
  <1>1. Others
    BY DEF FollowNodeStep, ProcessPointCloud, TargetCallback, EnableCallback, OutputTimer, FollowDies, OtherCommand
  <1>2. follow' \in [running : BOOLEAN, enabled : BOOLEAN, moves : BOOLEAN, age : 0 .. CloudTimeout + 1]
    <2>1. follow \in [running : BOOLEAN, enabled : BOOLEAN, moves : BOOLEAN, age : 0 .. CloudTimeout + 1]
      BY DEF IndInv, TypeOK
    <2>2. CloudTimeout \in Nat /\ 0 \in 0 .. CloudTimeout + 1
      BY LegacyAssumption
    <2>3. CASE ProcessPointCloud
      BY <2>1, <2>2, <2>3 DEF ProcessPointCloud
    <2>4. CASE TargetCallback
      BY <2>1, <2>4 DEF TargetCallback
    <2>5. CASE EnableCallback
      BY <2>1, <2>5 DEF EnableCallback
    <2>6. CASE OutputTimer
      BY <2>1, <2>2, <2>6 DEF OutputTimer, Fresh
    <2>7. CASE FollowDies
      BY <2>1, <2>7 DEF FollowDies
    <2>8. CASE OtherCommand
      BY <2>1, <2>8 DEF OtherCommand
    <2>9. QED
      BY <2>3, <2>4, <2>5, <2>6, <2>7, <2>8 DEF FollowNodeStep
  <1>3. topic' \in Seq(BOOLEAN) /\ Len(topic') <= Depth
    <2>1. topic \in Seq(BOOLEAN) /\ Len(topic) <= Depth
      BY DEF IndInv, TypeOK
    <2>2. CASE UNCHANGED topic
      BY <2>1, <2>2
    <2>3. CASE OutputTimer
      <3>1. (follow.enabled /\ Fresh /\ follow.moves) \in BOOLEAN
        OBVIOUS
      <3>2. QED
        BY <2>1, <2>3, <3>1, OutputBounded DEF OutputTimer
    <2>4. CASE OtherCommand
      BY <2>1, <2>4, OutputBounded DEF OtherCommand
    <2>5. QED
      BY <2>2, <2>3, <2>4 DEF FollowNodeStep, ProcessPointCloud, TargetCallback, EnableCallback, FollowDies
  <1>4. TypeOK'
    BY <1>1, <1>2, <1>3 DEF IndInv, TypeOK, Others, bridge, view, process, history
  <1>5. QED
    BY <1>1, <1>4, OthersKeep DEF IndInv

\* A datagram that forbids motion marks the frame that was decided before it.
LEMMA StatusKeeps == IndInv /\ ReceiveStatus => IndInv'
  <1> SUFFICES ASSUME IndInv, ReceiveStatus PROVE IndInv'
    OBVIOUS
  <1> USE DEF IndInv, ReceiveStatus, bridge, process
  <1>1. TypeOK'
    <2>1. 0 \in 0 .. StatusTimeout + 1
      BY LegacyAssumption
    <2>2. outdated' \in BOOLEAN
      OBVIOUS
    <2>3. QED
      BY <2>1, <2>2 DEF TypeOK
  <1>2. ActionDisarms'
    BY DEF ActionDisarms
  <1>3. FrameIsArmed'
    BY DEF FrameIsArmed
  <1>4. ZerosAgree'
    BY DEF ZerosAgree
  <1>5. QED
    BY <1>1, <1>2, <1>3, <1>4

-----------------------------------------------------------------------------
(* The bridge's executor                                                   *)

\* A command is taken from the topic.
LEMMA CommandKeeps == IndInv /\ CmdCallback => IndInv'
  <1> SUFFICES ASSUME IndInv, CmdCallback PROVE IndInv'
    OBVIOUS
  <1> USE DEF IndInv, CmdCallback, Runs, view, process, history
  <1>1. TypeOK'
    <2>1. /\ Head(topic) \in BOOLEAN
          /\ Tail(topic) \in Seq(BOOLEAN) /\ Len(Tail(topic)) <= Depth
      <3>1. topic \in Seq(BOOLEAN) /\ topic # <<>> /\ Len(topic) <= Depth
        BY DEF TypeOK
      <3>2. Head(topic) \in BOOLEAN /\ Tail(topic) \in Seq(BOOLEAN) /\ Len(Tail(topic)) = Len(topic) - 1
        BY <3>1
      <3>3. QED
        BY <3>1, <3>2, Limits
    <2>2. command' \in [moves : BOOLEAN, age : 0 .. CmdTimeout + 1]
      BY <2>1, LegacyAssumption
    <2>3. QED
      BY <2>1, <2>2 DEF TypeOK
  <1>2. ActionDisarms' /\ FrameIsArmed'
    BY DEF ActionDisarms, FrameIsArmed, StatusAllowsMotion
  <1>3. ZerosAgree'
    BY DEF ZerosAgree
  <1>4. QED
    BY <1>1, <1>2, <1>3

\* Arming needs that no action is pending and forgets the posture; both happen
\* between frames.
LEMMA ArmKeeps == IndInv /\ ArmCallback => IndInv'
  <1> SUFFICES ASSUME IndInv, ArmCallback PROVE IndInv'
    OBVIOUS
  <1> USE DEF IndInv, ArmCallback, Refuse, Accept, Runs, view, process
  <1>1. TypeOK'
    <2>1. command' \in [moves : BOOLEAN, age : 0 .. CmdTimeout + 1]
      BY DEF TypeOK
    <2>2. armed' \in BOOLEAN /\ posture' \in BOOLEAN
      BY DEF TypeOK
    <2>3. QED
      BY <2>1, <2>2 DEF TypeOK
  <1>2. ActionDisarms' /\ FrameIsArmed'
    BY DEF ActionDisarms, FrameIsArmed
  <1>3. ZerosAgree'
    BY DEF ZerosAgree
  <1>4. QED
    BY <1>1, <1>2, <1>3

\* A request disarms, and so does dropping it.
LEMMA ActionKeeps == IndInv /\ (ActionCallback \/ DisarmAction) => IndInv'
  <1> SUFFICES ASSUME IndInv, ActionCallback \/ DisarmAction PROVE IndInv'
    OBVIOUS
  <1> USE DEF IndInv, ActionCallback, DisarmAction, Runs, view, process, history
  <1>1. TypeOK'
    <2>1. action' \in [kind : Action \cup {"none"}, age : 0 .. ActionTimeout + 1, sent : 0 .. ActionRetry]
      BY LegacyAssumption DEF NoAction
    <2>2. requests' \in 0 .. setup.actions
      BY SetupFacts DEF TypeOK
    <2>3. QED
      BY <2>1, <2>2 DEF TypeOK
  <1>2. ActionDisarms' /\ FrameIsArmed'
    BY DEF ActionDisarms, FrameIsArmed
  <1>3. ZerosAgree'
    BY DEF ZerosAgree
  <1>4. QED
    BY <1>1, <1>2, <1>3

\* What an action's turn may do: a posture frame is sent only while it is pending.
LEMMA ActionTurn ==
  ASSUME TypeOK, ProcessPendingAction
  PROVE  /\ action' \in [kind : Action \cup {"none"}, age : 0 .. ActionTimeout + 1, sent : 0 .. ActionRetry]
         /\ posture' \in BOOLEAN
         /\ action.kind = "none" => UNCHANGED <<action, posture>>
  <1> USE Limits DEF TypeOK
  <1>1. NoAction \in [kind : Action \cup {"none"}, age : 0 .. ActionTimeout + 1, sent : 0 .. ActionRetry]
    BY DEF NoAction
  <1>2. CASE UNCHANGED <<action, posture>>
    BY <1>2
  <1>3. CASE action.kind # "none" /\ action' = NoAction /\ UNCHANGED posture
    BY <1>1, <1>3
  <1>4. CASE action.kind # "none" /\ \E sent \in {FALSE, HasFrame} :
               /\ action' = IF sent THEN [action EXCEPT !.sent = 0] ELSE action
               /\ posture' = (posture \/ sent)
    <2>1. [action EXCEPT !.sent = 0]
            \in [kind : Action \cup {"none"}, age : 0 .. ActionTimeout + 1, sent : 0 .. ActionRetry]
      <3>1. 0 \in 0 .. ActionRetry
        OBVIOUS
      <3>2. QED
        BY <3>1
    <2>2. QED
      BY <1>4, <2>1
  <1>5. QED
    BY <1>2, <1>3, <1>4 DEF ProcessPendingAction

\* A moving frame is decided only by an armed bridge without a pending action.
LEMMA DecideKeeps == IndInv /\ Decide => IndInv'
  <1> SUFFICES ASSUME IndInv, Decide PROVE IndInv'
    OBVIOUS
  <1> USE DEF IndInv, Decide, Runs, view, process
  <1>1. TypeOK'
    BY ActionTurn DEF TypeOK
  <1>2. ActionDisarms'
    BY ActionTurn DEF ActionDisarms
  <1>3. FrameIsArmed'
    BY DEF FrameIsArmed, Permitted, Fit, StatusAllowsMotion
  <1>4. ZerosAgree'
    BY DEF ZerosAgree
  <1>5. QED
    BY <1>1, <1>2, <1>3, <1>4

\* Only a running bridge has a frame to send.
LEMMA SendKeeps == ASSUME NEW arrives \in BOOLEAN PROVE IndInv /\ Send(arrives) => IndInv'
  <1> SUFFICES ASSUME IndInv, Send(arrives) PROVE IndInv'
    OBVIOUS
  <1> USE DEF IndInv, Send, bridge, view, process
  <1>1. TypeOK'
    BY DEF TypeOK
  <1>2. ActionDisarms' /\ FrameIsArmed'
    BY DEF ActionDisarms, FrameIsArmed
  <1>3. ZerosAgree'
    BY LegacyAssumption DEF TypeOK, ZerosAgree
  <1>4. QED
    BY <1>1, <1>2, <1>3

\* The destructor counts its frames down.
LEMMA ClosingKeeps == IndInv /\ (Shutdown \/ SendZero \/ Closed) => IndInv'
  <1> SUFFICES ASSUME IndInv, Shutdown \/ SendZero \/ Closed PROVE IndInv'
    OBVIOUS
  <1> USE DEF IndInv, bridge, view, process, history
  <1>1. CASE Shutdown
    <2>1. TypeOK' /\ ActionDisarms' /\ FrameIsArmed'
      BY <1>1 DEF Shutdown, TypeOK, ActionDisarms, FrameIsArmed
    <2>2. ZerosAgree'
      BY <1>1 DEF Shutdown, ZerosAgree
    <2>3. QED
      BY <2>1, <2>2
  <1>2. CASE SendZero
    <2>1. left \in Nat /\ lost \in Nat /\ Zeros \in Nat /\ lost + left <= Zeros
      BY LegacyAssumption DEF TypeOK, ZerosAgree
    <2>2. left' = left - 1 /\ lost' \in {lost, lost + 1}
      BY <1>2 DEF SendZero
    <2>3. left' \in 0 .. Zeros /\ lost' \in 0 .. Zeros
      BY <1>2, <2>1, <2>2 DEF SendZero
    <2>4. TypeOK'
      BY <1>2, <2>3 DEF SendZero, TypeOK
    <2>5. ActionDisarms' /\ FrameIsArmed'
      BY <1>2 DEF SendZero, ActionDisarms, FrameIsArmed, StatusAllowsMotion
    <2>6. ZerosAgree'
      BY <1>2, <2>1 DEF SendZero, ZerosAgree
    <2>7. QED
      BY <2>4, <2>5, <2>6
  <1>3. CASE Closed
    <2>1. TypeOK' /\ ActionDisarms' /\ FrameIsArmed'
      BY <1>3 DEF Closed, TypeOK, ActionDisarms, FrameIsArmed, StatusAllowsMotion
    <2>2. ZerosAgree'
      BY <1>3 DEF Closed, ZerosAgree
    <2>3. QED
      BY <2>1, <2>2
  <1>4. QED
    BY <1>1, <1>2, <1>3

-----------------------------------------------------------------------------
\* What ages become is in their range again.
LEMMA AgesStay ==
  ASSUME TypeOK
  PROVE  /\ Older(follow.age, CloudTimeout) \in 0 .. CloudTimeout + 1
         /\ Older(command.age, CmdTimeout) \in 0 .. CmdTimeout + 1
         /\ Older(statusAge, StatusTimeout) \in 0 .. StatusTimeout + 1
         /\ Older(action.age, ActionTimeout) \in 0 .. ActionTimeout + 1
         /\ Older(action.sent, ActionRetry - 1) \in 0 .. ActionRetry
  <1> USE Limits
  <1>1. /\ follow.age \in 0 .. CloudTimeout + 1
        /\ command.age \in 0 .. CmdTimeout + 1
        /\ statusAge \in 0 .. StatusTimeout + 1
        /\ action.age \in 0 .. ActionTimeout + 1
        /\ action.sent \in 0 .. ActionRetry
    BY DEF TypeOK
  <1>2. QED
    BY <1>1 DEF Older

\* Time changes ages only.
LEMMA TickKeeps == IndInv /\ Tick => IndInv'
  <1> SUFFICES ASSUME IndInv, Tick PROVE IndInv'
    OBVIOUS
  <1> USE DEF IndInv, Tick, process, history
  <1>1. TypeOK'
    <2>1. follow' \in [running : BOOLEAN, enabled : BOOLEAN, moves : BOOLEAN, age : 0 .. CloudTimeout + 1]
      BY AgesStay DEF TypeOK
    <2>2. command' \in [moves : BOOLEAN, age : 0 .. CmdTimeout + 1]
      BY AgesStay DEF TypeOK
    <2>3. statusAge' \in 0 .. StatusTimeout + 1
      BY AgesStay
    <2>4. action' \in [kind : Action \cup {"none"}, age : 0 .. ActionTimeout + 1, sent : 0 .. ActionRetry]
      BY AgesStay DEF TypeOK
    <2>5. QED
      BY <2>1, <2>2, <2>3, <2>4 DEF TypeOK
  <1>2. ActionDisarms' /\ FrameIsArmed'
    <2>1. action'.kind = action.kind
      BY DEF TypeOK
    <2>2. QED
      BY <2>1 DEF ActionDisarms, FrameIsArmed, StatusAllowsMotion
  <1>3. ZerosAgree'
    BY DEF ZerosAgree
  <1>4. QED
    BY <1>1, <1>2, <1>3

\* Nothing that the invariant speaks of changes in a stutter.
LEMMA StutterKeeps == IndInv /\ UNCHANGED vars => IndInv'
  <1> SUFFICES ASSUME IndInv, UNCHANGED vars PROVE IndInv'
    OBVIOUS
  <1> USE DEF IndInv, vars, bridge, view, process, history
  <1>1. TypeOK'
    BY DEF TypeOK
  <1>2. ActionDisarms' /\ FrameIsArmed' /\ ZerosAgree'
    BY DEF ActionDisarms, FrameIsArmed, ZerosAgree, StatusAllowsMotion
  <1>3. QED
    BY <1>1, <1>2

\* Every step of the two processes keeps the inductive invariant.
LEMMA NextStep == IndInv /\ [Next]_vars => IndInv'
  BY FollowKeeps, StatusKeeps, CommandKeeps, ArmKeeps, ActionKeeps, DecideKeeps, SendKeeps,
     ClosingKeeps, TickKeeps, StutterKeeps DEF Next, FollowNodeStep

\* The inductive invariant holds throughout.
THEOREM Inductive == Spec => []IndInv
  BY InitIndInv, NextStep, PTL DEF Spec

\* Every reachable state of the follow node and the UDP bridge is well typed.
THEOREM TypeCorrect == Spec => []TypeOK
  <1>1. IndInv => TypeOK
    BY DEF IndInv
  <1>2. QED
    BY Inductive, <1>1, PTL

\* The destructor leaves a moving robot only if the network lost all its frames.
THEOREM ExitStops == Spec => []ExitIsStopped
  <1>1. IndInv => ExitIsStopped
    <2> SUFFICES ASSUME IndInv, phase = "closed", wire # "zero" PROVE lost = Zeros
      BY DEF ExitIsStopped
    <2>1. wire = "move" /\ left = 0 /\ lost + left = Zeros
      BY DEF IndInv, TypeOK, ZerosAgree
    <2>2. lost \in Nat
      BY LegacyAssumption DEF IndInv, TypeOK
    <2>3. QED
      BY <2>1, <2>2
  <1>2. QED
    BY Inductive, <1>1, PTL

\* After a posture frame no axis frame of the bridge moves the robot until it is
\* armed again.
THEOREM PostureExcludesMotion == Spec => PostureEndsMotion
  <1>1. IndInv => [Moves => ~posture]_vars
    BY DEF IndInv, ActionDisarms, FrameIsArmed, Moves
  <1>2. QED
    BY Inductive, <1>1, PTL DEF PostureEndsMotion

\* At most one frame overtakes a status datagram that forbids motion.
THEOREM UnfitGetsOneFrame == Spec => UnfitForOneFrame
  <1>1. IndInv => [Moves => StatusAllowsMotion \/ outdated]_vars
    BY DEF IndInv, FrameIsArmed, Moves
  <1>2. QED
    BY Inductive, <1>1, PTL DEF UnfitForOneFrame
=============================================================================
