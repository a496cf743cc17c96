------------------------ MODULE WebStatusWorkerProofs ------------------------
(***************************************************************************)
(* Proofs about WebStatusWorker for any number of results: a good result   *)
(* never overtakes a failure, and the two slots implement the mailbox of   *)
(* WebMailbox, however the worker and the consumer interleave.             *)
(***************************************************************************)
EXTENDS WebStatusWorker, SequenceTheorems, TLAPS

\* The worker has stored nothing yet.
LEMMA InitIndInv == Init => IndInv
  <1> SUFFICES ASSUME Init PROVE IndInv
    OBVIOUS
  <1>1. TypeOK
    <2>1. <<>> \in Seq(Result) /\ Len(<<>>) = 0
      BY EmptySeq
    <2>2. NoResult \in Result
      BY DEF NoResult, Result
    <2>3. handed \in [failed : BOOLEAN, good : BOOLEAN]
      BY DEF Init
    <2>4. Len(items) <= 2
      BY <2>1 DEF Init
    <2>5. QED
      BY <2>1, <2>2, <2>3, <2>4 DEF Init, TypeOK
  <1>2. Taken = 0
    BY DEF Init, Taken
  <1>3. SlotsAgree
    BY DEF Init, SlotsAgree, NoResult
  <1>4. ItemsOrdered /\ FailuresCovered /\ NoFailureOvertaken
    BY <1>2 DEF Init, ItemsOrdered, FailuresCovered, NoFailureOvertaken
  <1>5. QED
    BY <1>1, <1>3, <1>4 DEF IndInv

\* Taken is the number of the last result that was taken.
LEMMA TakenType == TypeOK => Taken \in Nat
  <1> SUFFICES ASSUME TypeOK PROVE Taken \in Nat
    OBVIOUS
  <1>1. CASE items = <<>>
    BY <1>1 DEF TypeOK, Taken
  <1>2. CASE items # <<>>
    <2>1. Len(items) \in 1 .. Len(items)
      BY <1>2, EmptySeq DEF TypeOK
    <2>2. items[Len(items)] \in Result
      BY <2>1, ElementOfSeq DEF TypeOK
    <2>3. QED
      BY <1>2, <2>2 DEF Taken, Result
  <1>3. QED
    BY <1>1, <1>2

\* Steps that touch neither the slots nor what was taken: the worker begins or
\* has fetched, main's finally block asks it to stop.
LEMMA WorkerMoves ==
  ASSUME IndInv, Begin \/ Fetched \/ Stop \/ UNCHANGED vars
  PROVE  /\ IndInv'
         /\ UNCHANGED <<mailbox, consumer>>
  <1>1. UNCHANGED <<mailbox, consumer>>
    BY DEF Begin, Fetched, Stop, vars, mailbox, consumer
  <1>2. TypeOK'
    BY <1>1 DEF IndInv, TypeOK, Begin, Fetched, Stop, vars, mailbox, consumer
  <1>3. QED
    BY <1>1, <1>2
    DEF IndInv, SlotsAgree, ItemsOrdered, FailuresCovered, NoFailureOvertaken, Covered,
        Taken, mailbox, consumer

\* A stored result is newer than everything taken; a stored failure waits in the
\* slot (runtime.py, WebStatusWorker._run).
LEMMA ResultIsStored == IndInv /\ Store => IndInv'
  <1> SUFFICES ASSUME IndInv, Store PROVE IndInv'
    OBVIOUS
  <1>1. /\ seq \in Nat /\ seq' = seq + 1 /\ parsed \in BOOLEAN
        /\ latest' = [seq |-> seq + 1, valid |-> parsed]
        /\ UNCHANGED consumer
    BY DEF Store, IndInv, TypeOK
  <1>2. Taken' = Taken /\ Taken \in Nat
    BY <1>1, TakenType DEF IndInv, Taken, consumer
  <1>3. /\ pendingInvalid' = IF parsed THEN pendingInvalid ELSE latest'
        /\ failures' = IF parsed THEN failures ELSE failures \cup {seq + 1}
        /\ pendingInvalid \in Result /\ failures \subseteq Nat
    BY <1>1 DEF Store, IndInv, TypeOK
  <1>4. TypeOK'
    BY <1>1, <1>3 DEF Store, IndInv, TypeOK, Result, consumer
  <1>5. SlotsAgree'
    BY <1>1, <1>3 DEF IndInv, SlotsAgree, Result, NoResult
  <1>6. ItemsOrdered'
    BY <1>1, <1>2 DEF IndInv, ItemsOrdered, consumer
  <1>7. FailuresCovered'
    <2>1. \A f \in Nat : Covered(f)' <=> Covered(f)
      BY <1>1 DEF Covered, consumer
    <2>2. /\ pendingInvalid.seq \in Nat /\ pendingInvalid.seq <= seq
          /\ consumed \in Nat /\ consumed <= Taken /\ Taken <= seq
      BY <1>3 DEF IndInv, TypeOK, SlotsAgree, ItemsOrdered, Result
    <2>3. ASSUME NEW f \in failures
          PROVE  /\ f <= consumed' => Covered(f)'
                 /\ f <= Taken' =>
                      \/ Covered(f)'
                      \/ items' # <<>> /\ ~items'[1].valid /\ items'[1].seq >= f
                 /\ f > Taken' => pendingInvalid'.seq >= f
      <3>1. f \in Nat /\ f <= seq
        BY <1>3 DEF IndInv, SlotsAgree
      <3>2. /\ f <= consumed => Covered(f)
            /\ f <= Taken =>
                 \/ Covered(f)
                 \/ items # <<>> /\ ~items[1].valid /\ items[1].seq >= f
            /\ f > Taken => pendingInvalid.seq >= f
        BY DEF IndInv, FailuresCovered
      <3>3. pendingInvalid'.seq \in Nat /\ pendingInvalid'.seq >= pendingInvalid.seq
        <4>1. CASE parsed
          BY <1>3, <2>2, <4>1
        <4>2. CASE ~parsed
          BY <1>1, <1>3, <2>2, <4>2
        <4>3. QED
          BY <4>1, <4>2
      <3>4. Taken' \in Nat
        BY <1>2
      <3>5. items' = items /\ consumed' = consumed
        BY <1>1 DEF consumer
      <3>6. f > Taken' => pendingInvalid'.seq >= f
        BY <1>2, <2>2, <3>1, <3>2, <3>3, <3>4
      <3>7. QED
        BY <1>2, <2>1, <3>1, <3>2, <3>5, <3>6
    <2>4. CASE ~parsed
      <3>1. pendingInvalid'.seq = seq + 1
        BY <1>1, <1>3, <2>4
      <3>2. ~(seq + 1 <= consumed') /\ ~(seq + 1 <= Taken')
        BY <1>1, <1>2, <2>2 DEF consumer
      <3>3. seq + 1 >= seq + 1 /\ failures' = failures \cup {seq + 1}
        BY <1>1, <1>3, <2>4
      <3>4. ASSUME NEW f \in failures'
            PROVE  /\ f <= consumed' => Covered(f)'
                   /\ f <= Taken' =>
                        \/ Covered(f)'
                        \/ items' # <<>> /\ ~items'[1].valid /\ items'[1].seq >= f
                   /\ f > Taken' => pendingInvalid'.seq >= f
        <4>1. CASE f \in failures
          BY <2>3, <4>1
        <4>2. CASE f = seq + 1
          BY <3>1, <3>2, <3>3, <4>2
        <4>3. QED
          BY <3>3, <4>1, <4>2
      <3>5. QED
        BY <3>4 DEF FailuresCovered
    <2>5. CASE parsed
      BY <1>3, <2>3, <2>5 DEF FailuresCovered
    <2>6. QED
      BY <2>4, <2>5
  <1>8. NoFailureOvertaken'
    <2>1. \A k \in DOMAIN applied : applied[k].seq \in Nat /\ applied[k].seq <= seq
      <3>1. \A k \in DOMAIN applied : applied[k] \in Result
        BY ElementOfSeq, LenProperties DEF IndInv, TypeOK
      <3>2. consumed \in Nat /\ consumed <= seq
        BY <1>1, <1>2 DEF IndInv, TypeOK, ItemsOrdered
      <3>3. QED
        BY <1>1, <3>1, <3>2 DEF IndInv, ItemsOrdered, Result
    <2>2. applied' = applied
      BY <1>1 DEF consumer
    <2>3. ASSUME NEW g \in DOMAIN applied, NEW f \in failures', f < applied[g].seq
          PROVE  f \in failures
      <3>1. f # seq + 1
        BY <1>1, <2>1, <2>3
      <3>2. QED
        BY <1>3, <3>1
    <2>4. QED
      BY <2>2, <2>3 DEF IndInv, NoFailureOvertaken
  <1>9. QED
    BY <1>4, <1>5, <1>6, <1>7, <1>8 DEF IndInv

\* What take_pending returns: the failure in the slot first, nothing if nothing
\* was ever stored.
LEMMA PendingFacts ==
  ASSUME IndInv
  PROVE  /\ Pending \in Seq(Result) /\ Len(Pending) <= 2
         /\ seq = 0 => Pending = <<>>
         /\ seq # 0 => /\ Pending # <<>>
                       /\ Pending[Len(Pending)] = latest
                       /\ Len(Pending) = 2 => /\ Pending[1] = pendingInvalid
                                              /\ pendingInvalid.seq < seq
                                              /\ latest.valid
         /\ pendingInvalid.seq > 0 => Pending # <<>> /\ Pending[1] = pendingInvalid
  <1>1. latest \in Result /\ pendingInvalid \in Result /\ seq \in Nat /\ latest.seq = seq
    BY DEF IndInv, TypeOK, SlotsAgree
  <1>2. /\ seq = 0 => latest = NoResult /\ pendingInvalid = NoResult
        /\ pendingInvalid = NoResult <=> pendingInvalid.seq = 0
        /\ latest = NoResult <=> seq = 0
        /\ pendingInvalid # latest => pendingInvalid.seq < seq
        /\ pendingInvalid # latest /\ pendingInvalid # NoResult => latest.valid
    BY <1>1 DEF IndInv, SlotsAgree, Result, NoResult
  <1>3. CASE pendingInvalid # NoResult /\ pendingInvalid # latest
    <2>1. Pending = <<pendingInvalid, latest>>
      BY <1>3 DEF Pending
    <2>2. QED
      BY <1>1, <1>2, <1>3, <2>1
  <1>4. CASE ~(pendingInvalid # NoResult /\ pendingInvalid # latest) /\ latest # NoResult
    <2>1. Pending = <<latest>>
      BY <1>4 DEF Pending
    <2>2. QED
      BY <1>1, <1>2, <1>4, <2>1
  <1>5. CASE ~(pendingInvalid # NoResult /\ pendingInvalid # latest) /\ latest = NoResult
    <2>1. Pending = <<>>
      BY <1>5 DEF Pending
    <2>2. QED
      BY <1>1, <1>2, <1>5, <2>1
  <1>6. QED
    BY <1>3, <1>4, <1>5

\* take_pending hands out everything that was stored.
LEMMA PendingIsTaken == IndInv /\ TakePending => IndInv'
  <1> SUFFICES ASSUME IndInv, TakePending PROVE IndInv'
    OBVIOUS
  <1>1. /\ items = <<>> /\ items' = Pending /\ pendingInvalid' = NoResult
        /\ UNCHANGED <<seq, latest, failures, consumed, applied>>
    BY DEF TakePending
  <1>2. /\ latest \in Result /\ pendingInvalid \in Result /\ seq \in Nat /\ consumed \in Nat
        /\ Taken = consumed /\ consumed <= seq /\ latest.seq = seq
        /\ failures \subseteq 1 .. seq
    BY <1>1 DEF IndInv, TypeOK, SlotsAgree, ItemsOrdered, Taken
  <1>3. Taken' = seq
    <2>1. CASE seq = 0
      BY <1>1, <1>2, <2>1, PendingFacts DEF Taken
    <2>2. CASE seq # 0
      BY <1>1, <1>2, <2>2, PendingFacts DEF Taken
    <2>3. QED
      BY <2>1, <2>2
  <1>4. TypeOK'
    <2>1. items' \in Seq(Result) /\ Len(items') <= 2
      BY <1>1, PendingFacts
    <2>2. handed' \in [failed : BOOLEAN, good : BOOLEAN]
      BY <1>2 DEF TakePending, Unread, Result
    <2>3. pendingInvalid' \in Result
      BY <1>1 DEF NoResult, Result
    <2>4. QED
      BY <1>1, <2>1, <2>2, <2>3 DEF TakePending, IndInv, TypeOK
  <1>5. SlotsAgree'
    BY <1>1, <1>2 DEF IndInv, SlotsAgree, NoResult
  <1>6. ItemsOrdered'
    <2>1. Len(items') = 2 => /\ ~items'[1].valid /\ items'[2].valid
                             /\ items'[1].seq < items'[2].seq
      <3>1. Len(Pending) = 2 => seq # 0
        BY <1>2, PendingFacts, EmptySeq
      <3>2. QED
        BY <1>1, <1>2, <3>1, PendingFacts DEF IndInv, SlotsAgree
    <2>2. QED
      BY <1>1, <1>2, <1>3, <2>1 DEF IndInv, ItemsOrdered
  <1>7. FailuresCovered'
    <2> SUFFICES ASSUME NEW f \in failures
                 PROVE  /\ f <= consumed => Covered(f)
                        /\ \/ Covered(f)
                           \/ Pending # <<>> /\ ~Pending[1].valid /\ Pending[1].seq >= f
                        /\ ~(f > seq)
      BY <1>1, <1>3 DEF FailuresCovered, Covered
    <2>1. f \in Nat /\ f > 0 /\ f <= seq
      BY <1>2
    <2>2. (f <= consumed => Covered(f)) /\ (f > consumed => pendingInvalid.seq >= f)
      BY <1>2 DEF IndInv, FailuresCovered
    <2>3. CASE f > consumed
      <3>1. pendingInvalid.seq \in Nat /\ pendingInvalid.seq >= f /\ pendingInvalid.seq > 0
        BY <1>2, <2>1, <2>2, <2>3 DEF Result
      <3>2. Pending # <<>> /\ Pending[1] = pendingInvalid /\ ~pendingInvalid.valid
        BY <3>1, PendingFacts DEF IndInv, SlotsAgree
      <3>3. QED
        BY <1>2, <2>1, <2>2, <2>3, <3>1, <3>2
    <2>4. CASE f <= consumed
      BY <1>2, <2>1, <2>2, <2>4
    <2>5. QED
      BY <1>2, <2>1, <2>3, <2>4
  <1>8. NoFailureOvertaken'
    BY <1>1 DEF IndInv, NoFailureOvertaken
  <1>9. QED
    BY <1>4, <1>5, <1>6, <1>7, <1>8 DEF IndInv

\* What one turn of consume_web's loop does: what was taken stays taken, and the
\* head of the items is applied unless something at least as new was.
LEMMA ApplyFacts ==
  ASSUME IndInv, Apply
  PROVE  /\ items # <<>> /\ items[1] \in Result
         /\ items' \in Seq(Result) /\ Len(items') <= 1
         /\ Taken' = Taken /\ Taken \in Nat
         /\ consumed \in Nat /\ consumed <= Taken
         /\ \/ /\ items[1].seq <= consumed
               /\ consumed' = consumed /\ applied' = applied
            \/ /\ items[1].seq > consumed /\ items[1].seq <= Taken
               /\ consumed' = items[1].seq /\ applied' = Append(applied, items[1])
         /\ UNCHANGED <<seq, latest, pendingInvalid, failures, handed>>
  <1>1. /\ items \in Seq(Result) /\ Len(items) <= 2 /\ items # <<>>
        /\ items' = Tail(items) /\ consumed \in Nat /\ consumed <= Taken /\ Taken \in Nat
    BY TakenType DEF Apply, IndInv, TypeOK, ItemsOrdered
  <1>2. Len(items) \in Nat \ {0} /\ Len(items) \in {1, 2}
    <2>1. Len(items) \in Nat \ {0}
      BY <1>1, EmptySeq
    <2>2. \A n \in Nat \ {0} : n <= 2 => n \in {1, 2}
      OBVIOUS
    <2>3. QED
      BY <1>1, <2>1, <2>2
  <1>3. /\ items[1] \in Result /\ items[Len(items)] \in Result
        /\ Head(items) = items[1]
    <2>1. 1 \in 1 .. Len(items) /\ Len(items) \in 1 .. Len(items)
      BY <1>2
    <2>2. items[1] \in Result /\ items[Len(items)] \in Result
      BY <1>1, <2>1, ElementOfSeq
    <2>3. Head(items) = items[1]
      BY <1>1, <1>2
    <2>4. QED
      BY <2>2, <2>3
  <1>4. /\ items' \in Seq(Result) /\ Len(items') = Len(items) - 1
        /\ \A i \in 1 .. Len(items') : items'[i] = items[i + 1]
    BY <1>1, HeadTailProperties
  <1>5. Taken = items[Len(items)].seq
    BY <1>1 DEF Taken
  <1>6. items[1].seq <= Taken /\ items[1].seq \in Nat
    <2>1. CASE Len(items) = 1
      BY <1>3, <1>5, <2>1 DEF Result
    <2>2. CASE Len(items) = 2
      BY <1>3, <1>5, <2>2 DEF IndInv, ItemsOrdered, Result
    <2>3. QED
      BY <1>2, <2>1, <2>2
  <1>7. \/ /\ items[1].seq <= consumed
           /\ consumed' = consumed /\ applied' = applied
        \/ /\ items[1].seq > consumed
           /\ consumed' = items[1].seq /\ applied' = Append(applied, items[1])
    BY <1>1, <1>3, <1>6 DEF Apply
  <1>8. Taken' = Taken
    <2>1. CASE Len(items) = 1
      <3>1. items' = <<>>
        BY <1>4, <2>1, EmptySeq
      <3>2. QED
        BY <1>1, <1>5, <1>6, <1>7, <2>1, <3>1 DEF Taken
    <2>2. CASE Len(items) = 2
      <3>1. Len(items') = 1 /\ items'[1] = items[2]
        BY <1>4, <2>2
      <3>2. items' # <<>>
        BY <3>1, EmptySeq
      <3>3. QED
        BY <1>5, <2>2, <3>1, <3>2 DEF Taken
    <2>3. QED
      BY <1>2, <2>1, <2>2
  <1>9. QED
    BY <1>1, <1>2, <1>3, <1>4, <1>6, <1>7, <1>8 DEF Apply, mailbox

\* A result is applied: what it covers stays covered, and a good one finds every
\* older failure covered, because the failure of the pair came first.
LEMMA ResultIsApplied == IndInv /\ Apply => IndInv'
  <1> SUFFICES ASSUME IndInv, Apply PROVE IndInv'
    OBVIOUS
  <1> DEFINE h == items[1]
  <1>1. /\ h \in Result /\ h.seq \in Nat /\ h.valid \in BOOLEAN
        /\ applied \in Seq(Result) /\ DOMAIN applied = 1 .. Len(applied)
        /\ Len(applied) \in Nat
        /\ \A k \in DOMAIN applied : applied[k] \in Result
    <2>1. h \in Result /\ applied \in Seq(Result)
      BY ApplyFacts DEF IndInv, TypeOK
    <2>2. Len(applied) \in Nat /\ DOMAIN applied = 1 .. Len(applied)
      BY <2>1, LenProperties
    <2>3. \A k \in DOMAIN applied : applied[k] \in Result
      BY <2>1, <2>2, ElementOfSeq
    <2>4. h.seq \in Nat /\ h.valid \in BOOLEAN
      BY <2>1 DEF Result
    <2>5. QED
      BY <2>1, <2>2, <2>3, <2>4
  <1>2. \/ UNCHANGED applied
        \/ /\ applied' = Append(applied, h) /\ applied' \in Seq(Result)
           /\ DOMAIN applied' = 1 .. Len(applied) + 1
           /\ applied'[Len(applied) + 1] = h
           /\ \A k \in DOMAIN applied : applied'[k] = applied[k]
    <2>1. /\ Append(applied, h) \in Seq(Result)
          /\ DOMAIN Append(applied, h) = 1 .. Len(applied) + 1
          /\ Append(applied, h)[Len(applied) + 1] = h
          /\ \A k \in DOMAIN applied : Append(applied, h)[k] = applied[k]
      BY <1>1, AppendProperties, LenProperties
    <2>2. QED
      BY <2>1, ApplyFacts
  <1>3. TypeOK'
    BY <1>1, <1>2, ApplyFacts DEF Apply, IndInv, TypeOK, mailbox
  <1>4. SlotsAgree'
    BY ApplyFacts DEF IndInv, SlotsAgree
  <1>5. ItemsOrdered'
    <2>1. \A k \in DOMAIN applied' : applied'[k].seq <= consumed'
      <3>1. \A k \in DOMAIN applied : applied[k].seq <= consumed /\ applied[k].seq \in Nat
        BY <1>1 DEF IndInv, ItemsOrdered, Result
      <3>2. /\ consumed \in Nat /\ consumed' \in Nat /\ consumed <= consumed'
            /\ applied' = applied \/ consumed' = h.seq
        BY <1>1, ApplyFacts
      <3>3. \A k \in DOMAIN applied : applied[k].seq <= consumed'
        BY <3>1, <3>2
      <3>4. CASE applied' = applied
        BY <3>3, <3>4
      <3>5. CASE applied' # applied
        <4>1. /\ DOMAIN applied' = 1 .. Len(applied) + 1
              /\ applied'[Len(applied) + 1] = h
              /\ \A k \in DOMAIN applied : applied'[k] = applied[k]
          BY <1>2, <3>5
        <4>2. \A k \in DOMAIN applied' : k \in DOMAIN applied \/ k = Len(applied) + 1
          BY <1>1, <4>1
        <4>3. consumed' = h.seq
          BY <3>2, <3>5
        <4>4. QED
          BY <1>1, <3>3, <4>1, <4>2, <4>3
      <3>6. QED
        BY <3>4, <3>5
    <2>2. consumed' <= Taken' /\ Taken' <= seq' /\ Len(items') # 2
      <3>1. Taken' = Taken /\ seq' = seq /\ consumed' <= Taken
        BY <1>1, ApplyFacts
      <3>2. Len(items') \in Nat /\ Len(items') <= 1
        BY ApplyFacts, LenProperties
      <3>3. QED
        BY <3>1, <3>2 DEF IndInv, ItemsOrdered
    <2>3. QED
      BY <2>1, <2>2 DEF ItemsOrdered
  <1>6. \A f \in Nat : Covered(f) => Covered(f)'
    BY <1>1, <1>2 DEF Covered
  <1>7. \A f \in failures : f \in Nat /\ (f <= h.seq /\ ~Covered(f) => ~h.valid)
    <2>1. \A f \in failures : f \in Nat
      BY DEF IndInv, TypeOK
    <2>2. Taken \in Nat /\ h.seq <= Taken
      BY <1>1, ApplyFacts
    <2>3. QED
      BY <1>1, <2>1, <2>2 DEF IndInv, FailuresCovered
  <1>8. FailuresCovered'
    <2> SUFFICES ASSUME NEW f \in failures
                 PROVE  /\ f <= consumed' => Covered(f)'
                        /\ f <= Taken => Covered(f)'
                        /\ f > Taken => pendingInvalid.seq >= f
      BY ApplyFacts DEF FailuresCovered
    <2>1. /\ f \in Nat
          /\ f <= consumed => Covered(f)
          /\ f <= Taken => Covered(f) \/ (~h.valid /\ h.seq >= f)
          /\ f > Taken => pendingInvalid.seq >= f
      BY <1>7 DEF IndInv, FailuresCovered
    <2>2. ASSUME ~h.valid, h.seq >= f PROVE Covered(f)'
      <3>1. CASE UNCHANGED applied
        <4>1. CASE h.seq <= consumed
          BY <1>1, <1>6, <2>1, <2>2, <4>1, ApplyFacts
        <4>2. CASE applied' = Append(applied, h)
          BY <1>1, <3>1, <4>2, AppendProperties
        <4>3. QED
          BY <4>1, <4>2, ApplyFacts
      <3>2. CASE applied' = Append(applied, h)
        <4>1. Len(applied) + 1 \in DOMAIN applied' /\ applied'[Len(applied) + 1] = h
          BY <1>1, <3>2, AppendProperties, LenProperties
        <4>2. QED
          BY <2>2, <4>1 DEF Covered
      <3>3. QED
        BY <1>2, <3>1, <3>2
    <2>3. consumed' <= Taken /\ consumed' \in Nat /\ Taken \in Nat
      BY <1>1, ApplyFacts
    <2>4. f <= Taken => Covered(f)'
      BY <1>6, <2>1, <2>2
    <2>5. QED
      BY <2>1, <2>3, <2>4
  <1>9. NoFailureOvertaken'
    <2>1. CASE UNCHANGED applied
      BY <2>1, ApplyFacts DEF IndInv, NoFailureOvertaken
    <2>2. CASE applied' = Append(applied, h)
      <3>1. /\ DOMAIN applied' = 1 .. Len(applied) + 1
            /\ applied'[Len(applied) + 1] = h
            /\ \A k \in DOMAIN applied : applied'[k] = applied[k]
        BY <1>1, <2>2, AppendProperties, LenProperties
      <3>2. ASSUME NEW g \in DOMAIN applied', applied'[g].valid,
                   NEW f \in failures, f < applied'[g].seq
            PROVE  \E k \in 1 .. g - 1 : ~applied'[k].valid /\ applied'[k].seq >= f
        <4>1. CASE g \in DOMAIN applied
          <5>1. \E k \in 1 .. g - 1 : ~applied[k].valid /\ applied[k].seq >= f
            BY <3>1, <3>2, <4>1 DEF IndInv, NoFailureOvertaken
          <5>2. \A k \in 1 .. g - 1 : k \in DOMAIN applied
            BY <1>1, <4>1
          <5>3. QED
            BY <3>1, <5>1, <5>2
        <4>2. CASE g = Len(applied) + 1
          <5>1. f \in Nat /\ f < h.seq /\ h.valid
            BY <1>7, <3>1, <3>2, <4>2
          <5>2. Covered(f)
            BY <1>1, <1>7, <5>1
          <5>3. PICK k \in DOMAIN applied : ~applied[k].valid /\ applied[k].seq >= f
            BY <5>2 DEF Covered
          <5>4. k \in 1 .. g - 1
            BY <1>1, <4>2
          <5>5. QED
            BY <3>1, <5>3, <5>4
        <4>3. QED
          BY <1>1, <3>1, <4>1, <4>2
      <3>3. QED
        BY <3>2, ApplyFacts DEF NoFailureOvertaken
    <2>3. QED
      BY <1>2, <2>1, <2>2
  <1>10. QED
    BY <1>3, <1>4, <1>5, <1>8, <1>9 DEF IndInv

-----------------------------------------------------------------------------
(* The theorems                                                            *)

LEMMA NextIndInv == IndInv /\ [Next]_vars => IndInv'
  <1> SUFFICES ASSUME IndInv, [Next]_vars PROVE IndInv'
    OBVIOUS
  <1>1. CASE Begin \/ Fetched \/ Stop \/ UNCHANGED vars
    BY <1>1, WorkerMoves
  <1>2. CASE Store \/ Consume
    BY <1>2, ResultIsStored, PendingIsTaken, ResultIsApplied DEF Consume
  <1>3. QED
    BY <1>1, <1>2 DEF Next, Worker

\* IndInv holds in every reachable state.
THEOREM Inductive == Spec => []IndInv
  BY InitIndInv, NextIndInv, PTL DEF Spec

\* Every reachable state is well typed.
THEOREM TypeCorrect == Spec => []TypeOK
  <1>1. IndInv => TypeOK
    BY DEF IndInv
  <1>2. QED
    BY <1>1, Inductive, PTL

\* A good result is never applied before a failure that was stored before it, for
\* any number of results (runtime.py:237-238).
THEOREM FailureIsNotOvertaken == Spec => []NoFailureOvertaken
  <1>1. IndInv => NoFailureOvertaken
    BY DEF IndInv
  <1>2. QED
    BY <1>1, Inductive, PTL

\* Every step of the worker and the consumer is a step of the mailbox or none.
LEMMA StepRefines == IndInv /\ [Next]_vars => [Mailbox!Next]_Mailbox!vars
  <1> SUFFICES ASSUME IndInv, [Next]_vars PROVE [Mailbox!Next]_Mailbox!vars
    OBVIOUS
  <1>1. CASE Begin \/ Fetched \/ Stop \/ UNCHANGED vars
    <2>1. UNCHANGED <<mailbox, consumer>>
      BY <1>1, WorkerMoves
    <2>2. QED
      BY <2>1 DEF mailbox, consumer, Taken, Mailbox!vars
  <1>2. CASE Store
    <2>1. /\ seq \in Nat /\ Taken \in Nat /\ Taken <= seq /\ parsed \in BOOLEAN
          /\ latest' = [seq |-> seq + 1, valid |-> parsed]
          /\ UNCHANGED <<items, consumed, handed>>
      BY <1>2, TakenType DEF Store, IndInv, TypeOK, ItemsOrdered, consumer
    <2>2. Taken' = Taken
      BY <2>1 DEF Taken
    <2>3. CASE parsed
      <3>1. Mailbox!RecordGood
        BY <1>2, <2>1, <2>2, <2>3 DEF Store, Mailbox!RecordGood
      <3>2. QED
        BY <3>1 DEF Mailbox!Next
    <2>4. CASE ~parsed
      <3>1. pendingInvalid' # NoResult
        BY <1>2, <2>1, <2>4 DEF Store, NoResult
      <3>2. Mailbox!RecordFailure
        BY <2>1, <2>2, <2>4, <3>1 DEF Mailbox!RecordFailure
      <3>3. QED
        BY <3>2 DEF Mailbox!Next
    <2>5. QED
      BY <2>3, <2>4
  <1>3. CASE TakePending
    <2>1. /\ items = <<>> /\ Taken = consumed /\ seq \in Nat
          /\ items' = Pending /\ UNCHANGED <<latest, consumed>>
          /\ latest.seq = seq /\ (seq = 0 => latest = NoResult)
      BY <1>3 DEF TakePending, IndInv, TypeOK, SlotsAgree, Taken
    <2>2. latest.valid => latest # NoResult
      BY DEF NoResult
    <2>3. handed' = [failed |-> pendingInvalid # NoResult,
                     good |-> latest.valid /\ latest.seq > Taken]
      BY <1>3, <2>1, <2>2 DEF TakePending, Unread
    <2>4. ~(latest'.valid /\ latest'.seq > Taken')
      <3>1. CASE seq = 0
        BY <2>1, <2>2, <3>1
      <3>2. CASE seq # 0
        <4>1. Taken' = seq
          BY <2>1, <3>2, PendingFacts DEF Taken
        <4>2. QED
          BY <2>1, <4>1
      <3>3. QED
        BY <3>1, <3>2
    <2>5. pendingInvalid' = NoResult
      BY <1>3 DEF TakePending
    <2>6. Mailbox!HandOver
      BY <2>3, <2>4, <2>5 DEF Mailbox!HandOver
    <2>7. QED
      BY <2>6 DEF Mailbox!Next
  <1>4. CASE Apply
    BY <1>4, ApplyFacts DEF Mailbox!vars
  <1>5. QED
    BY <1>1, <1>2, <1>3, <1>4 DEF Next, Worker, Consume

\* The two slots, the sequence number and the consumer's skip implement the mailbox
\* the main loop relies on.
THEOREM MailboxIsImplemented == Spec => ImplementsMailbox
  <1>1. Init => Mailbox!Init
    BY DEF Init, Mailbox!Init, NoResult, Taken
  <1>2. QED
    BY <1>1, StepRefines, Inductive, PTL DEF Spec, ImplementsMailbox, Mailbox!Spec
=============================================================================
