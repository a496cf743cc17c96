--------------------------- MODULE WebStatusWorker ---------------------------
(***************************************************************************)
(* The web worker thread of motion_control/runtime.py (WebStatusWorker)    *)
(* and its consumer in the main loop (Controller.consume_web).  The worker *)
(* fetches, then stores under its lock; the consumer takes at most two     *)
(* results under the same lock and applies them afterwards, one by one,    *)
(* while the worker goes on storing.  A result is its number and whether   *)
(* it is valid.                                                            *)
(***************************************************************************)
EXTENDS Integers, Sequences

CONSTANT MaxSeq    \* bound: results the worker produces

ASSUME MaxSeqAssumption == MaxSeq \in Nat

VARIABLES
  worker,          \* the thread: "off", "fetching", "storing", "waiting", "ended"
  parsed,          \* validity of the result the worker holds before it stores it
  stop,            \* _stop_event
  seq, latest, pendingInvalid,   \* _seq, _latest, _pending_invalid
  items,           \* consume_web: results taken and not yet applied
  consumed,        \* Controller._web_seq_consumed
  failures,        \* history: numbers of the failures stored
  applied,         \* history: results applied to the guard, in order
  handed           \* history: what the last take_pending held that was unread

vars == <<worker, parsed, stop, seq, latest, pendingInvalid, items, consumed,
          failures, applied, handed>>

Result == [seq : Nat, valid : BOOLEAN]

NoResult == [seq |-> 0, valid |-> FALSE]      \* None

TypeOK ==
  /\ worker \in {"off", "fetching", "storing", "waiting", "ended"}
  /\ parsed \in BOOLEAN /\ stop \in BOOLEAN
  /\ seq \in Nat /\ latest \in Result /\ pendingInvalid \in Result
  /\ items \in Seq(Result) /\ Len(items) <= 2
  /\ consumed \in Nat
  /\ failures \subseteq Nat
  /\ applied \in Seq(Result)
  /\ handed \in [failed : BOOLEAN, good : BOOLEAN]

Init ==
  /\ worker = "off" /\ parsed = FALSE /\ stop = FALSE
  /\ seq = 0 /\ latest = NoResult /\ pendingInvalid = NoResult
  /\ items = <<>> /\ consumed = 0
  /\ failures = {} /\ applied = <<>>
  /\ handed = [failed |-> FALSE, good |-> FALSE]

-----------------------------------------------------------------------------
(* The worker thread                                                       *)

mailbox == <<seq, latest, pendingInvalid, failures>>
consumer == <<items, consumed, applied, handed>>

\* The loop condition: a set stop event ends the thread.
Begin ==
  /\ worker \in {"off", "waiting"}
  /\ seq < MaxSeq \/ stop
  /\ worker' = IF stop THEN "ended" ELSE "fetching"
  /\ UNCHANGED <<parsed, stop, mailbox, consumer>>

\* The GET returns and is parsed, or raises and counts as invalid.
Fetched ==
  /\ worker = "fetching"
  /\ parsed' \in BOOLEAN
  /\ worker' = "storing"
  /\ UNCHANGED <<stop, mailbox, consumer>>

Store ==
  /\ worker = "storing"
  /\ seq' = seq + 1
  /\ latest' = [seq |-> seq', valid |-> parsed]
  /\ pendingInvalid' = IF parsed THEN pendingInvalid ELSE latest'
  /\ failures' = IF parsed THEN failures ELSE failures \cup {seq'}
  /\ worker' = "waiting"
  /\ UNCHANGED <<parsed, stop, consumer>>

Worker == Begin \/ Fetched \/ Store

-----------------------------------------------------------------------------
(* The main loop                                                           *)

MutantItemsLatestFirst ==
  IF pendingInvalid # NoResult /\ pendingInvalid # latest
  THEN <<latest, pendingInvalid>>
  ELSE IF latest # NoResult THEN <<latest>> ELSE <<>>

\* take_pending: the unread failure first, then the newest result.
Pending ==
  IF pendingInvalid # NoResult /\ pendingInvalid # latest
  THEN <<pendingInvalid, latest>>
  ELSE IF latest # NoResult THEN <<latest>> ELSE <<>>

Unread == latest # NoResult /\ latest.seq > consumed

MutantTakeKeepsPending ==
  /\ items = <<>>
  /\ items' = Pending
  /\ handed' = [failed |-> pendingInvalid # NoResult, good |-> Unread /\ latest.valid]
  /\ UNCHANGED <<worker, parsed, stop, mailbox, consumed, applied>>

TakePending ==
  /\ items = <<>>
  /\ items' = Pending
  /\ pendingInvalid' = NoResult
  /\ handed' = [failed |-> pendingInvalid # NoResult, good |-> Unread /\ latest.valid]
  /\ UNCHANGED <<worker, parsed, stop, seq, latest, failures, consumed, applied>>

\* One turn of consume_web's loop: a result already consumed is skipped.
Apply ==
  /\ items # <<>>
  /\ items' = Tail(items)
  /\ IF Head(items).seq <= consumed
     THEN UNCHANGED <<consumed, applied>>
     ELSE /\ consumed' = Head(items).seq
          /\ applied' = Append(applied, Head(items))
  /\ UNCHANGED <<worker, parsed, stop, mailbox, handed>>

Consume == TakePending \/ Apply

\* WebStatusWorker.stop, from main's finally block.
Stop ==
  /\ ~stop
  /\ stop' = TRUE
  /\ UNCHANGED <<worker, parsed, mailbox, consumer>>

Next == Worker \/ Consume \/ Stop

Spec == Init /\ [][Next]_vars

-----------------------------------------------------------------------------
(* Properties                                                              *)

\* A good result never overtakes a failure: when a good result has been applied,
\* every failure stored before it is covered by an applied failure that is at
\* least as new and came first (runtime.py:237-238).
NoFailureOvertaken ==
  \A g \in DOMAIN applied : applied[g].valid =>
    \A f \in failures : f < applied[g].seq =>
      \E k \in 1 .. g - 1 : ~applied[k].valid /\ applied[k].seq >= f

\* The two slots and the sequence number implement the mailbox of WebMailbox.
Taken == IF items = <<>> THEN consumed ELSE items[Len(items)].seq

Mailbox == INSTANCE WebMailbox WITH
  failed <- pendingInvalid # NoResult,
  good <- latest.valid /\ latest.seq > Taken,
  handed <- handed

ImplementsMailbox == Mailbox!Spec

\* Why these hold.  The two slots: the newest result, and the newest failure that
\* was not taken yet, which is the newest result itself if that is one.
SlotsAgree ==
  /\ latest.seq = seq
  /\ seq = 0 => latest = NoResult
  /\ ~pendingInvalid.valid /\ pendingInvalid.seq <= seq
  /\ pendingInvalid.seq = seq => pendingInvalid = latest
  /\ ~latest.valid => pendingInvalid \in {NoResult, latest}
  /\ failures \subseteq 1 .. seq

\* What was taken is applied in the order of its numbers; of two results the first
\* is the failure.
ItemsOrdered ==
  /\ consumed <= Taken /\ Taken <= seq
  /\ Len(items) = 2 => /\ ~items[1].valid /\ items[2].valid
                       /\ items[1].seq < items[2].seq
  /\ \A k \in DOMAIN applied : applied[k].seq <= consumed

Covered(f) == \E k \in DOMAIN applied : ~applied[k].valid /\ applied[k].seq >= f

\* Every failure has been applied (or a newer one has), is about to be applied
\* next, or is still in the slot.
FailuresCovered ==
  \A f \in failures :
    /\ f <= consumed => Covered(f)
    /\ f <= Taken => \/ Covered(f)
                     \/ items # <<>> /\ ~items[1].valid /\ items[1].seq >= f
    /\ f > Taken => pendingInvalid.seq >= f

IndInv ==
  TypeOK /\ SlotsAgree /\ ItemsOrdered /\ FailuresCovered /\ NoFailureOvertaken
=============================================================================
