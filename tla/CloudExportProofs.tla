-------------------------- MODULE CloudExportProofs --------------------------
(***************************************************************************)
(* Proofs about CloudExport for any duration and any number of clouds: the *)
(* publisher outlives every callback, and the summary and the exit code    *)
(* tell the truth about what was written.                                  *)
(***************************************************************************)
EXTENDS CloudExport, TLAPS

\* Nothing exists and nothing was counted yet.
LEMMA InitIndInv == Init => IndInv
  <1> SUFFICES ASSUME Init PROVE IndInv
    OBVIOUS
  <1>1. TypeOK
    <2>1. 0 \in 0 .. Seconds /\ 0 \in 0 .. MaxClouds /\ None \in 0 .. None
      BY ExportAssumption DEF None
    <2>2. QED
      BY <2>1 DEF Init, TypeOK, Main
  <1>2. ScopesNest
    BY DEF Init, ScopesNest
  <1>3. FenceHolds
    BY DEF Init, FenceHolds, Fenced, None
  <1>4. CountsAgree
    BY ExportAssumption DEF Init, CountsAgree, None
  <1>5. QED
    BY <1>1, <1>2, <1>3, <1>4 DEF IndInv

-----------------------------------------------------------------------------
(* The vendor's threads and on_cloud                                       *)

\* A cloud arrives and waits for the lock.
LEMMA ArrivalKeeps == IndInv /\ CloudArrives => IndInv'
  <1> SUFFICES ASSUME IndInv, CloudArrives PROVE IndInv'
    OBVIOUS
  <1> USE DEF CloudArrives, Apart, world, IndInv
  <1>1. TypeOK'
    BY ExportAssumption DEF TypeOK
  <1>2. ScopesNest' /\ FenceHolds'
    BY DEF ScopesNest, FenceHolds
  <1>3. CountsAgree'
    BY DEF TypeOK, CountsAgree
  <1>4. QED
    BY <1>1, <1>2, <1>3

\* The callback runs under the lock: it counts and writes only before the fence.
LEMMA CallbackKeeps == IndInv /\ OnCloud => IndInv'
  <1> SUFFICES ASSUME IndInv, OnCloud PROVE IndInv'
    OBVIOUS
  <1> USE DEF Apart, world, IndInv
  <1>1. CASE Enter
    <2>1. TypeOK'
      BY <1>1 DEF Enter, TypeOK
    <2>2. ScopesNest' /\ FenceHolds'
      BY <1>1 DEF Enter, ScopesNest, FenceHolds
    <2>3. CountsAgree'
      BY <1>1 DEF Enter, TypeOK, CountsAgree
    <2>4. QED
      BY <2>1, <2>2, <2>3
  <1>2. CASE Count
    <2>1. TypeOK'
      BY <1>2, ExportAssumption DEF Count, TypeOK, CountsAgree
    <2>2. ScopesNest' /\ FenceHolds'
      BY <1>2 DEF Count, ScopesNest, FenceHolds
    <2>3. CountsAgree'
      BY <1>2 DEF Count, TypeOK, FenceHolds, CountsAgree
    <2>4. QED
      BY <2>1, <2>2, <2>3
  <1>3. CASE Write
    <2>1. TypeOK'
      BY <1>3, ExportAssumption DEF Write, TypeOK, CountsAgree
    <2>2. ScopesNest' /\ FenceHolds'
      BY <1>3 DEF Write, ScopesNest, FenceHolds
    <2>3. CountsAgree'
      <3>1. {clouds, rx, ok, err} \subseteq Nat /\ rx = ok + err + 1 /\ rx <= clouds
        BY <1>3, ExportAssumption DEF Write, TypeOK, CountsAgree
      <3>2. /\ callback' = "idle" /\ UNCHANGED <<rx, clouds, code>>
            /\ \/ ok' = ok + 1 /\ err' = err
               \/ ok' = ok /\ err' = err + 1
        BY <1>3 DEF Write
      <3>3. rx' = ok' + err'
        BY <3>1, <3>2
      <3>4. code = 3 \/ code = None \/ stopping
        BY DEF FenceHolds
      <3>5. code # 0
        BY <1>3, <3>4 DEF Write, FenceHolds, None
      <3>6. QED
        BY <3>1, <3>2, <3>3, <3>5 DEF CountsAgree
    <2>4. QED
      BY <2>1, <2>2, <2>3
  <1>4. QED
    BY <1>1, <1>2, <1>3 DEF OnCloud

\* The publisher's worker, a signal, the clock or nobody moves.
LEMMA OthersKeep == IndInv /\ (WorkerSends \/ Signal \/ Tick \/ UNCHANGED vars) => IndInv'
  <1> SUFFICES ASSUME IndInv, WorkerSends \/ Signal \/ Tick \/ UNCHANGED vars PROVE IndInv'
    OBVIOUS
  <1>1. UNCHANGED <<continuous, main, stopping, pub, subscriber, publisher, callback,
                    clouds, rx, ok, err, code>>
    BY DEF WorkerSends, Signal, Tick, vars, Apart, world, vendor, received
  <1>2. TypeOK'
    <2>1. time' \in 0 .. Seconds
      <3>1. time \in 0 .. Seconds
        BY DEF IndInv, TypeOK
      <3>2. CASE Tick
        BY <3>1, <3>2, ExportAssumption DEF Tick
      <3>3. CASE WorkerSends \/ Signal \/ UNCHANGED vars
        BY <3>1, <3>3 DEF WorkerSends, Signal, vars, Apart, world
      <3>4. QED
        BY <3>2, <3>3
    <2>2. signal' \in BOOLEAN
      BY DEF IndInv, TypeOK, WorkerSends, Signal, Tick, vars, Apart, world
    <2>3. {queue', sent'} \subseteq 0 .. MaxClouds
      <3>1. 0 \in 0 .. MaxClouds
        BY ExportAssumption
      <3>2. QED
        BY <3>1 DEF IndInv, TypeOK, WorkerSends, Signal, Tick, vars, vendor
    <2>4. QED
      BY <1>1, <2>1, <2>2, <2>3 DEF IndInv, TypeOK
  <1>3. ScopesNest' /\ FenceHolds' /\ CountsAgree'
    BY <1>1 DEF IndInv, ScopesNest, FenceHolds, CountsAgree
  <1>4. QED
    BY <1>2, <1>3 DEF IndInv

-----------------------------------------------------------------------------
(* main                                                                    *)

\* What every step of main leaves alone.
LEMMA MainFacts ==
  ASSUME IndInv, MainStep \/ Throw
  PROVE  /\ UNCHANGED <<continuous, world, clouds, rx, ok, err, queue, sent, callback>>
         /\ main' \in Main
  BY DEF IndInv, TypeOK, MainStep, Throw, InitManager, CreatePublisher, CreateSubscriber,
         LeaveLoop, Stop, Fence, Forget, Summary, Unsubscribe, Unpublish, Unwind,
         Unwound, Delete, DeleteAfterFailure, At, Kept, Main, vendor, received

LEMMA MainKeeps == IndInv /\ (MainStep \/ Throw) => IndInv'
  <1> SUFFICES ASSUME IndInv, MainStep \/ Throw PROVE IndInv'
    OBVIOUS
  <1>1. TypeOK'
    <2>1. /\ stopping' \in BOOLEAN /\ pub' \in BOOLEAN
          /\ subscriber' \in {"none", "alive", "gone"}
          /\ publisher' \in {"none", "alive", "gone"}
      BY DEF IndInv, TypeOK, MainStep, Throw, InitManager, CreatePublisher,
             CreateSubscriber, LeaveLoop, Stop, Fence, Forget, Summary, Unsubscribe,
             Unpublish, Unwind, Unwound, Delete, DeleteAfterFailure, At, Kept,
        vendor, received
    <2>2. code' \in {code, 0, 1, 3}
      BY DEF MainStep, Throw, InitManager, CreatePublisher,
             CreateSubscriber, LeaveLoop, Stop, Fence, Forget, Summary, Unsubscribe,
             Unpublish, Unwind, Unwound, Delete, DeleteAfterFailure, At, Kept,
        vendor, received
    <2>3. {0, 1, 3} \subseteq 0 .. None
      BY DEF None
    <2>4. code' \in 0 .. None
      BY <2>2, <2>3 DEF IndInv, TypeOK
    <2>5. QED
      BY <2>1, <2>4, MainFacts DEF IndInv, TypeOK, world
  <1>2. ScopesNest'
    BY MainFacts
    DEF IndInv, ScopesNest, FenceHolds, Fenced, MainStep, Throw, InitManager,
        CreatePublisher, CreateSubscriber, LeaveLoop, Stop, Fence, Forget, Summary,
        Unsubscribe, Unpublish, Unwind, Unwound, Delete, DeleteAfterFailure, At, Kept,
        Unlocked, vendor, received
  <1>3. FenceHolds'
    BY MainFacts
    DEF IndInv, FenceHolds, Fenced, None, MainStep, Throw, InitManager,
        CreatePublisher, CreateSubscriber, LeaveLoop, Stop, Fence, Forget, Summary,
        Unsubscribe, Unpublish, Unwind, Unwound, Delete, DeleteAfterFailure, At, Kept,
        Unlocked, vendor, received
  <1>4. CountsAgree'
    BY MainFacts
    DEF IndInv, TypeOK, CountsAgree, MainStep, Throw, InitManager,
        CreatePublisher, CreateSubscriber, LeaveLoop, Stop, Fence, Forget, Summary,
        Unsubscribe, Unpublish, Unwind, Unwound, Delete, DeleteAfterFailure, At, Kept,
        vendor, received
  <1>5. QED
    BY <1>1, <1>2, <1>3, <1>4 DEF IndInv

-----------------------------------------------------------------------------
(* The theorems                                                            *)

LEMMA NextIndInv == IndInv /\ [Next]_vars => IndInv'
  <1> SUFFICES ASSUME IndInv, [Next]_vars PROVE IndInv'
    OBVIOUS
  <1>1. CASE CloudArrives \/ OnCloud
    BY <1>1, ArrivalKeeps, CallbackKeeps
  <1>2. CASE WorkerSends \/ Signal \/ Tick \/ UNCHANGED vars
    BY <1>2, OthersKeep
  <1>3. CASE MainStep \/ Throw
    BY <1>3, MainKeeps
  <1>4. QED
    BY <1>1, <1>2, <1>3 DEF Next

\* IndInv holds in every reachable state.
THEOREM Inductive == Spec => []IndInv
  BY InitIndInv, NextIndInv, PTL DEF Spec

\* Every reachable state is well typed.
THEOREM TypeCorrect == Spec => []TypeOK
  <1>1. IndInv => TypeOK
    BY DEF IndInv
  <1>2. QED
    BY <1>1, Inductive, PTL

\* on_cloud never works with a publisher that is being destroyed, in an orderly
\* end as in an unwinding one (drdds_cloud_export.cpp, the fence and the scopes).
THEOREM PublisherIsThere == Spec => []PublisherOutlivesCallback
  <1>1. IndInv => PublisherOutlivesCallback
    BY DEF IndInv, ScopesNest, FenceHolds, PublisherOutlivesCallback
  <1>2. QED
    BY <1>1, Inductive, PTL

\* Exit code 0 means that clouds came and that every counted one was queued.
THEOREM SuccessIsHonest == Spec => []ExitIsHonest
  <1>1. IndInv => ExitIsHonest
    <2> SUFFICES ASSUME IndInv, code = 0 PROVE rx > 0 /\ ok = rx /\ err = 0
      BY DEF ExitIsHonest
    <2>1. callback # "write"
      BY DEF IndInv, FenceHolds, None
    <2>2. ok \in Nat
      BY ExportAssumption DEF IndInv, TypeOK
    <2>3. QED
      BY <2>1, <2>2 DEF IndInv, CountsAgree
  <1>2. QED
    BY <1>1, Inductive, PTL

\* The summary counts whole callbacks, and none is counted after it.
THEOREM CountsAreFinal == Spec => SummaryIsFinal
  <1>1. IndInv /\ [Next]_vars =>
          [main = "summary" /\ main' # "summary" => rx = ok + err]_vars
    <2> SUFFICES ASSUME IndInv, main = "summary" PROVE rx = ok + err
      OBVIOUS
    <2>1. callback # "write" /\ ok \in Nat /\ err \in Nat
      BY ExportAssumption DEF IndInv, TypeOK, FenceHolds, Fenced
    <2>2. QED
      BY <2>1 DEF IndInv, CountsAgree
  <1>2. IndInv /\ [Next]_vars =>
          [code # 3 /\ main \in {"unsubscribe", "unpublish", "delete"}
             => UNCHANGED <<rx, ok, err>>]_vars
    <2> SUFFICES ASSUME IndInv, [Next]_vars,
                        code # 3, main \in {"unsubscribe", "unpublish", "delete"}
                 PROVE  UNCHANGED <<rx, ok, err>>
      OBVIOUS
    <2>1. callback \in {"idle", "enter"}
      BY DEF IndInv, FenceHolds, Fenced
    <2>2. CASE CloudArrives \/ OnCloud
      BY <2>1, <2>2 DEF CloudArrives, OnCloud, Enter, Count, Write
    <2>3. CASE WorkerSends \/ Signal \/ Tick \/ UNCHANGED vars
      BY <2>3 DEF WorkerSends, Signal, Tick, vars, received
    <2>4. CASE MainStep \/ Throw
      BY <2>4, MainFacts
    <2>5. QED
      BY <2>2, <2>3, <2>4 DEF Next
  <1>3. QED
    BY <1>1, <1>2, Inductive, PTL DEF Spec, SummaryIsFinal
=============================================================================
