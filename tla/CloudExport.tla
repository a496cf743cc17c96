----------------------------- MODULE CloudExport -----------------------------
(***************************************************************************)
(* The point cloud exporter (tools/drdds_cloud_export.cpp): the vendor's   *)
(* callback thread hands every cloud to on_cloud, which writes it to the   *)
(* vendor's publisher; its worker thread takes it to the network.  main    *)
(* polls until its time is over or a signal came, fences the callback off, *)
(* prints a summary and destroys subscriber, publisher and manager.        *)
(*                                                                         *)
(* g_cb_mutex guards a whole callback, so callback is the lock's holder    *)
(* once it is past "enter".  A cloud is its number.                        *)
(***************************************************************************)
EXTENDS Naturals

CONSTANTS
  Seconds,     \* --seconds, in ticks
  MaxClouds    \* bound: how many clouds arrive

ASSUME ExportAssumption == Seconds \in Nat /\ MaxClouds \in Nat

VARIABLES
  continuous,          \* --continuous
  main,                \* where main is
  time, signal,        \* since t0; g_sig
  stopping, pub,       \* g_stopping; g_pub is set
  subscriber,          \* "none", "alive", "gone"
  publisher,           \* "none", "alive", "gone"
  callback,            \* where on_cloud is
  clouds,              \* clouds received so far by the vendor's thread
  rx, ok, err,         \* g_rx, g_write_ok, g_write_err
  queue, sent,         \* the publisher's queue (0: empty), the last cloud it sent
  code                 \* the exit code, once main has one

world == <<time, signal>>
vendor == <<subscriber, publisher, queue, sent>>
received == <<callback, clouds, rx, ok, err>>
vars == <<continuous, main, world, stopping, pub, vendor, received, code>>

None == 4   \* no exit code yet

Main == {"init", "publisher", "subscriber", "run", "stop", "fence", "forget", "summary",
         "unsubscribe", "unpublish", "unwind", "unwound", "delete", "failed", "exit", "aborted"}

TypeOK ==
  /\ continuous \in BOOLEAN
  /\ main \in Main
  /\ time \in 0 .. Seconds /\ signal \in BOOLEAN
  /\ stopping \in BOOLEAN /\ pub \in BOOLEAN
  /\ subscriber \in {"none", "alive", "gone"} /\ publisher \in {"none", "alive", "gone"}
  /\ callback \in {"idle", "enter", "count", "write"}
  /\ {clouds, rx, ok, err, queue, sent} \subseteq 0 .. MaxClouds
  /\ code \in 0 .. None

Init ==
  /\ continuous \in BOOLEAN
  /\ main = "init"
  /\ time = 0 /\ signal = FALSE
  /\ stopping = FALSE /\ pub = FALSE
  /\ subscriber = "none" /\ publisher = "none"
  /\ callback = "idle"
  /\ clouds = 0 /\ rx = 0 /\ ok = 0 /\ err = 0
  /\ queue = 0 /\ sent = 0
  /\ code = None

-----------------------------------------------------------------------------
(* The vendor's threads and on_cloud                                       *)

Apart == UNCHANGED <<continuous, main, world, stopping, pub, subscriber, publisher, code>>

\* The subscriber's thread has a cloud.
CloudArrives ==
  /\ subscriber = "alive" /\ callback = "idle"
  /\ clouds < MaxClouds
  /\ clouds' = clouds + 1
  /\ callback' = "enter"
  /\ UNCHANGED <<rx, ok, err, queue, sent>> /\ Apart

\* The lock is taken; nothing is done for a process that is stopping.
Enter ==
  /\ callback = "enter"
  /\ callback' = IF stopping THEN "idle" ELSE "count"
  /\ UNCHANGED <<clouds, rx, ok, err, queue, sent>> /\ Apart

Count ==
  /\ callback = "count"
  /\ rx' = rx + 1
  /\ callback' = "write"
  /\ UNCHANGED <<clouds, ok, err, queue, sent>> /\ Apart

\* Write copies the cloud into the queue of one, in place of an older one.
Write ==
  /\ callback = "write"
  /\ \/ pub /\ ok' = ok + 1 /\ queue' = clouds /\ UNCHANGED err
     \/ err' = err + 1 /\ UNCHANGED <<ok, queue>>
  /\ callback' = "idle"
  /\ UNCHANGED <<clouds, rx, sent>> /\ Apart

\* The publisher's worker thread.
WorkerSends ==
  /\ publisher = "alive" /\ queue # 0
  /\ sent' = queue
  /\ queue' = 0
  /\ UNCHANGED received /\ Apart

-----------------------------------------------------------------------------
(* main                                                                    *)

\* Main takes the lock only while no callback holds it.
Unlocked == callback \in {"idle", "enter"}

At(from, to) ==
  main = from /\ main' = to /\ UNCHANGED <<continuous, world, clouds, rx, ok, err, queue, sent>>

Kept == UNCHANGED <<stopping, pub, subscriber, publisher, callback, code>>

InitManager == At("init", "publisher") /\ Kept

CreatePublisher ==
  /\ At("publisher", "subscriber")
  /\ publisher' = "alive" /\ pub' = TRUE
  /\ UNCHANGED <<stopping, subscriber, callback, code>>

CreateSubscriber ==
  /\ At("subscriber", "run")
  /\ subscriber' = "alive"
  /\ UNCHANGED <<stopping, pub, publisher, callback, code>>

\* The loop polls every 50 ms and ends at the signal or the deadline.
LeaveLoop ==
  /\ At("run", "stop")
  /\ signal \/ (~continuous /\ time = Seconds)
  /\ Kept

MutantStop ==
  /\ At("stop", "fence")
  /\ Unlocked
  /\ Kept

Stop ==
  /\ At("stop", "fence")
  /\ Unlocked
  /\ stopping' = TRUE
  /\ UNCHANGED <<pub, subscriber, publisher, callback, code>>

Fence == At("fence", "forget") /\ Unlocked /\ Kept

Forget ==
  /\ At("forget", "summary")
  /\ pub' = FALSE
  /\ UNCHANGED <<stopping, subscriber, publisher, callback, code>>

MutantSummary ==
  /\ At("summary", "unsubscribe")
  /\ code' = IF rx = 0 THEN 1 ELSE 0
  /\ UNCHANGED <<stopping, pub, subscriber, publisher, callback>>

Summary ==
  /\ At("summary", "unsubscribe")
  /\ code' = IF rx = 0 \/ err > 0 THEN 1 ELSE 0
  /\ UNCHANGED <<stopping, pub, subscriber, publisher, callback>>

\* The vendor's destructor stops its thread: it waits for a callback to return.
Unsubscribe ==
  /\ At("unsubscribe", "unpublish")
  /\ callback = "idle"
  /\ subscriber' = "gone"
  /\ UNCHANGED <<stopping, pub, publisher, callback, code>>

Unpublish ==
  /\ At("unpublish", "delete")
  /\ Unlocked
  /\ publisher' = "gone"
  /\ UNCHANGED <<stopping, pub, subscriber, callback, code>>

\* An SDK call inside the try throws, the manager's deletion included: what was
\* created and is still there is destroyed in the opposite order.
Throw ==
  /\ main \in {"init", "publisher", "subscriber", "run", "fence", "forget", "delete"}
  /\ main' = "unwind"
  /\ UNCHANGED <<continuous, world, stopping, pub, vendor, received, code>>

MutantUnwind ==
  /\ At("unwind", "unwound")
  /\ subscriber' = IF subscriber = "alive" THEN "gone" ELSE subscriber
  /\ UNCHANGED <<stopping, pub, publisher, callback, code>>

Unwind ==
  /\ At("unwind", "unwound")
  /\ callback = "idle"
  /\ subscriber' = IF subscriber = "alive" THEN "gone" ELSE subscriber
  /\ UNCHANGED <<stopping, pub, publisher, callback, code>>

Unwound ==
  /\ At("unwound", "failed")
  /\ publisher' = IF publisher = "alive" THEN "gone" ELSE publisher
  /\ code' = 3
  /\ UNCHANGED <<stopping, pub, subscriber, callback>>

Delete == At("delete", "exit") /\ Kept

\* The deletion after the handlers, for the second time if the first one threw;
\* what it throws is not caught.
DeleteAfterFailure == (At("failed", "exit") \/ At("failed", "aborted")) /\ Kept

-----------------------------------------------------------------------------
Signal ==
  /\ ~signal /\ main \notin {"exit", "aborted"}
  /\ signal' = TRUE
  /\ UNCHANGED <<continuous, main, time, stopping, pub, vendor, received, code>>

Tick ==
  /\ time < Seconds
  /\ time' = time + 1
  /\ UNCHANGED <<continuous, main, signal, stopping, pub, vendor, received, code>>

OnCloud == Enter \/ Count \/ Write

MainStep ==
  \/ InitManager \/ CreatePublisher \/ CreateSubscriber \/ LeaveLoop
  \/ Stop \/ Fence \/ Forget \/ Summary \/ Unsubscribe \/ Unpublish
  \/ Unwind \/ Unwound \/ Delete \/ DeleteAfterFailure

Next ==
  \/ CloudArrives \/ OnCloud \/ WorkerSends
  \/ MainStep \/ Throw
  \/ Signal \/ Tick

Spec == Init /\ [][Next]_vars

-----------------------------------------------------------------------------
(* Properties                                                              *)

\* on_cloud never works with a publisher that is being destroyed, neither in an
\* orderly end nor when an exception unwinds the scopes.
PublisherOutlivesCallback == callback \in {"count", "write"} => publisher = "alive" /\ pub

\* Exit code 0 means that clouds came and that each one that was counted, up to
\* the end of the process, was queued.
ExitIsHonest == code = 0 => rx > 0 /\ ok = rx /\ err = 0

\* The summary counts whole callbacks and stays true: no cloud is counted later.
SummaryIsFinal ==
  /\ [][main = "summary" /\ main' # "summary" => rx = ok + err]_vars
  /\ [][code # 3 /\ main \in {"unsubscribe", "unpublish", "delete"}
          => UNCHANGED <<rx, ok, err>>]_vars

\* Why these hold.  Whoever is inside on_cloud has a subscriber, which has a
\* publisher until the callback is fenced off.
Fenced == {"fence", "forget", "summary", "unsubscribe", "unpublish"}

ScopesNest ==
  /\ callback # "idle" => subscriber = "alive"
  /\ subscriber = "alive" => publisher = "alive" /\ (pub \/ stopping)
  /\ main = "subscriber" => publisher = "alive" /\ pub
  /\ main \in {"unpublish", "unwound", "delete", "failed", "exit"} => subscriber # "alive"

\* The fence: once main has passed it, no callback counts or writes any more.
FenceHolds ==
  /\ stopping => callback \in {"idle", "enter"}
  /\ main \in Fenced => stopping
  /\ code # 3 => (code # None \/ main \in {"delete", "exit"} => stopping)
  /\ main = "failed" => code = 3

\* Every cloud that was counted was queued or failed, but for the one in hand.
CountsAgree ==
  /\ rx = ok + err + (IF callback = "write" THEN 1 ELSE 0)
  /\ rx + (IF callback \in {"enter", "count"} THEN 1 ELSE 0) <= clouds
  /\ code = 0 => rx > 0 /\ err = 0

IndInv == TypeOK /\ ScopesNest /\ FenceHolds /\ CountsAgree
=============================================================================
