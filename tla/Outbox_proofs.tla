---------------------------- MODULE Outbox_proofs ----------------------------
(***************************************************************************)
(* What an ack file, a dead-letter file and a second call of the handler   *)
(* say of an event, for any number of producers, events, publications and  *)
(* retries, whatever the sync loses and whoever crashes.                   *)
(***************************************************************************)
EXTENDS Outbox, TLAPS

-----------------------------------------------------------------------------
(***************************************************************************)
(* The inductive invariant.  The three promises are about what the outbox, *)
(* the sync, the consumer's database and its current attempt know of one   *)
(* event; each conjunct relates two of them.                               *)
(***************************************************************************)

\* The consumer is at a file.
Working == cpc \in {"handle", "record", "ack", "failed", "dlq"}

\* A number that was taken belongs to one producer, and has no file yet.
NumbersDistinct ==
  /\ \A p \in Producers : writing[p] # None =>
       /\ writing[p].seq <= lastSeq
       /\ outbox[writing[p].seq] = None
       /\ \A q \in Producers \ {p} : writing[q] # None => writing[q].seq # writing[p].seq
  /\ \A s \in Published : s <= lastSeq

\* Whatever the sync carries and the consumer notes is a published file.
FilesPublished ==
  /\ unsynced \subseteq Published /\ inbox \subseteq Published /\ todo \subseteq Published
  /\ acks \subseteq Published /\ dlq \subseteq Published
  /\ Working => cur \in Published

\* The row that acknowledge and move_to_dlq read is that of the current file.
RowOfCurrent == cpc \in {"ack", "dlq"} => db[Event] # None /\ db[Event].seq = cur

\* Success is recorded, and acknowledged, after the handler returned.
SuccessMeansHandled ==
  /\ \A e \in Events : IsProcessed(e) => handled[e] > 0
  /\ cpc = "record" => handled[Event] > 0
  /\ cpc = "ack" => IsProcessed(Event)

\* An event that was handled is known to be, is about to be, or its outcome
\* was lost.
HandledIsKnown ==
  \A e \in Events : handled[e] > 0 =>
    e \in uncertain \/ IsProcessed(e) \/ (cpc = "record" /\ e = Event)

\* An attempt is made at an event that is not processed; a failure overwrites
\* a success only if the outcome of that success was lost.
AttemptsAreNew ==
  /\ cpc = "handle" => ~IsProcessed(Event)
  /\ cpc = "failed" => ~IsProcessed(Event) \/ Event \in uncertain

\* retry_count never runs ahead of the failures there have been.
FailuresCounted ==
  /\ \A e \in Events : db[e] # None => db[e].retries <= fails[e]
  /\ Working => retry <= fails[Event]
  /\ cpc = "dlq" => fails[Event] >= MaxRetries

OutboxInv ==
  /\ TypeOK
  /\ NumbersDistinct /\ FilesPublished /\ RowOfCurrent /\ SuccessMeansHandled
  /\ HandledIsKnown /\ AttemptsAreNew /\ FailuresCounted
  /\ AckMeansHandled /\ HandledTwiceOnlyIfUncertain /\ DlqMeansMaxRetries

LEMMA OutboxInit == Init => OutboxInv
<1> SUFFICES ASSUME Init PROVE OutboxInv
  OBVIOUS
<1>1. TypeOK
  BY BoundAssumption DEF Init, TypeOK, Seqs
<1>2. Published = {}
  BY DEF Init, Published
<1>3. NumbersDistinct /\ FilesPublished /\ RowOfCurrent
  BY <1>2 DEF Init, NumbersDistinct, FilesPublished, RowOfCurrent, Working
<1>4. SuccessMeansHandled /\ HandledIsKnown /\ AttemptsAreNew /\ FailuresCounted
  BY DEF Init, SuccessMeansHandled, HandledIsKnown, AttemptsAreNew, FailuresCounted, IsProcessed,
         Working
<1>5. AckMeansHandled /\ HandledTwiceOnlyIfUncertain /\ DlqMeansMaxRetries
  BY DEF Init, AckMeansHandled, HandledTwiceOnlyIfUncertain, DlqMeansMaxRetries
<1> QED
  BY <1>1, <1>3, <1>4, <1>5 DEF OutboxInv

-----------------------------------------------------------------------------
(* What the conjuncts say of the rows, the counters and the files *)

\* The row of an event, typed; None is no row.
LEMMA RowTyped ==
  ASSUME TypeOK, NEW e \in Events, db[e] # None
  PROVE  db[e].seq \in Seqs /\ db[e].ok \in BOOLEAN /\ db[e].retries \in 0..MaxRetries
BY DEF TypeOK, DbRow

LEMMA NoneIsNoRow == None \notin DbRow
BY NoRowAssumption DEF DbRow, Seqs

\* The event of a published file.
LEMMA EventTyped ==
  ASSUME TypeOK, NEW s \in Published
  PROVE  outbox[s] \in Events /\ s \in Seqs
BY DEF TypeOK, Published

-----------------------------------------------------------------------------
(* Producer and sync: the consumer's side stays, and so do the files. *)

\* A step that keeps every published file and the consumer's knowledge.
LEMMA FilesStay ==
  ASSUME OutboxInv, UNCHANGED <<acks, dlq, db, cpc, cur, retry, history>>,
         \A s \in Published : outbox'[s] = outbox[s]
  PROVE  /\ RowOfCurrent' /\ SuccessMeansHandled' /\ HandledIsKnown' /\ AttemptsAreNew'
         /\ FailuresCounted' /\ AckMeansHandled' /\ HandledTwiceOnlyIfUncertain'
         /\ DlqMeansMaxRetries'
<1>1. Working => Event' = Event
  BY DEF OutboxInv, FilesPublished, Event
<1>2. RowOfCurrent' /\ SuccessMeansHandled' /\ HandledIsKnown' /\ AttemptsAreNew' /\ FailuresCounted'
  BY <1>1 DEF OutboxInv, RowOfCurrent, SuccessMeansHandled, HandledIsKnown, AttemptsAreNew,
              FailuresCounted, IsProcessed, Working, history
<1>3. AckMeansHandled' /\ DlqMeansMaxRetries'
  BY DEF OutboxInv, FilesPublished, AckMeansHandled, DlqMeansMaxRetries, history
<1>4. HandledTwiceOnlyIfUncertain'
  BY DEF OutboxInv, HandledTwiceOnlyIfUncertain, history
<1> QED
  BY <1>2, <1>3, <1>4

LEMMA TakeSeqKeeps ==
  ASSUME OutboxInv, NEW p \in Producers, NEW e \in Events, TakeSeq(p, e)
  PROVE  OutboxInv'
<1>1. /\ writing[p] = None /\ lastSeq < MaxSeq /\ lastSeq' = lastSeq + 1
      /\ writing' = [writing EXCEPT ![p] = [ev |-> e, seq |-> lastSeq + 1]]
      /\ UNCHANGED <<outbox, unsynced, inbox, acks, dlq, db, cpc, todo, cur, retry, history>>
  BY DEF TakeSeq, LastSeqAdvanced, syncVars, consumerVars
<1>2. TypeOK'
  BY <1>1, BoundAssumption DEF OutboxInv, TypeOK, Seqs, history
<1>3. NumbersDistinct'
  BY <1>1, BoundAssumption DEF OutboxInv, TypeOK, NumbersDistinct, Published, Seqs
<1>4. FilesPublished'
  BY <1>1 DEF OutboxInv, FilesPublished, Published, Working
<1> QED
  BY <1>1, <1>2, <1>3, <1>4, FilesStay DEF OutboxInv

LEMMA WriteFileKeeps ==
  ASSUME OutboxInv, NEW p \in Producers, WriteFile(p)
  PROVE  OutboxInv'
<1> DEFINE s == writing[p].seq
<1> DEFINE e == writing[p].ev
<1>1. /\ s \in Seqs /\ e \in Events /\ e # None /\ s <= lastSeq /\ outbox[s] = None
      /\ \A q \in Producers \ {p} : writing[q] # None => writing[q].seq # s
  BY NoneAssumption DEF WriteFile, OutboxInv, TypeOK, NumbersDistinct
<1>2. /\ writing[p] # None /\ outbox' = [outbox EXCEPT ![s] = e]
      /\ unsynced' = unsynced \cup {s} /\ writing' = [writing EXCEPT ![p] = None]
      /\ UNCHANGED <<lastSeq, inbox, acks, dlq, db, cpc, todo, cur, retry, history>>
  BY DEF WriteFile, consumerVars
<1> HIDE DEF s, e
<1>3. TypeOK'
  BY <1>1, <1>2 DEF OutboxInv, TypeOK, history
<1>4. Published' = Published \cup {s} /\ \A t \in Published : outbox'[t] = outbox[t]
  BY <1>1, <1>2 DEF OutboxInv, TypeOK, Published
<1>5. NumbersDistinct'
  <2>1. \A q \in Producers : writing'[q] # None => q # p /\ writing'[q] = writing[q]
    BY <1>2 DEF OutboxInv, TypeOK
  <2>2. \A q \in Producers : writing'[q] # None =>
           outbox'[writing'[q].seq] = outbox[writing[q].seq]
    BY <1>1, <1>2, <2>1 DEF OutboxInv, TypeOK
  <2> QED
    BY <1>1, <1>2, <1>4, <2>1, <2>2 DEF OutboxInv, NumbersDistinct
<1>6. FilesPublished'
  BY <1>2, <1>4 DEF OutboxInv, FilesPublished, Working
<1> QED
  BY <1>2, <1>3, <1>4, <1>5, <1>6, FilesStay DEF OutboxInv

LEMMA ProducerCrashKeeps ==
  ASSUME OutboxInv, NEW p \in Producers, ProducerCrash(p)
  PROVE  OutboxInv'
<1>1. /\ writing' = [writing EXCEPT ![p] = None]
      /\ UNCHANGED <<lastSeq, outbox, unsynced, inbox, acks, dlq, db, cpc, todo, cur, retry, history>>
  BY DEF ProducerCrash, syncVars, consumerVars
<1>2. TypeOK' /\ NumbersDistinct' /\ FilesPublished'
  BY <1>1 DEF OutboxInv, TypeOK, NumbersDistinct, FilesPublished, Published, Working, history
<1> QED
  BY <1>1, <1>2, FilesStay DEF OutboxInv

LEMMA SyncKeeps ==
  ASSUME OutboxInv, NEW s \in Seqs, Republish(s) \/ Sync(s) \/ SyncLoses(s)
  PROVE  OutboxInv'
<1>1. /\ UNCHANGED <<producerVars, consumerVars, history>>
      /\ unsynced' \subseteq unsynced \cup ({s} \cap Published)
      /\ inbox' \subseteq inbox \cup unsynced
  BY DEF Republish, Sync, SyncLoses
<1>2. TypeOK' /\ NumbersDistinct' /\ FilesPublished'
  BY <1>1 DEF OutboxInv, TypeOK, NumbersDistinct, FilesPublished, Published, Working,
              producerVars, consumerVars, history
<1> QED
  BY <1>1, <1>2, FilesStay DEF OutboxInv, producerVars, consumerVars

-----------------------------------------------------------------------------
(* The consumer *)

\* No step of the consumer touches what the producer and the sync have.
LEMMA ConsumerOnly ==
  ASSUME OutboxInv, UNCHANGED <<producerVars, syncVars>>
  PROVE  NumbersDistinct' /\ Published' = Published
BY DEF OutboxInv, NumbersDistinct, Published, producerVars, syncVars

LEMMA PollKeeps == OutboxInv /\ (Poll \/ PollEnds) => OutboxInv'
<1> SUFFICES ASSUME OutboxInv, Poll \/ PollEnds PROVE OutboxInv'
  OBVIOUS
<1>1. /\ UNCHANGED <<producerVars, syncVars, acks, dlq, db, cur, retry, history>>
      /\ cpc \in {"idle", "down", "scan"} /\ cpc' \in {"idle", "scan"} /\ todo' \in {todo, inbox}
  BY DEF Poll, PollEnds
<1>2. TypeOK' /\ NumbersDistinct' /\ FilesPublished'
  BY <1>1, ConsumerOnly DEF OutboxInv, TypeOK, FilesPublished, Working, producerVars, syncVars, history
<1>3. RowOfCurrent' /\ SuccessMeansHandled' /\ HandledIsKnown' /\ AttemptsAreNew' /\ FailuresCounted'
  BY <1>1 DEF OutboxInv, RowOfCurrent, SuccessMeansHandled, HandledIsKnown, AttemptsAreNew,
              FailuresCounted, IsProcessed, Working, history
<1>4. AckMeansHandled' /\ HandledTwiceOnlyIfUncertain' /\ DlqMeansMaxRetries'
  BY <1>1 DEF OutboxInv, AckMeansHandled, HandledTwiceOnlyIfUncertain, DlqMeansMaxRetries,
              producerVars, history
<1> QED
  BY <1>2, <1>3, <1>4 DEF OutboxInv

LEMMA VisitKeeps ==
  ASSUME OutboxInv, NEW s \in Seqs, Visit(s)
  PROVE  OutboxInv'
<1>1. /\ UNCHANGED <<producerVars, syncVars, acks, dlq, db, history>>
      /\ cpc = "scan" /\ s \in todo /\ todo' = todo \ {s}
  BY DEF Visit
<1>2. s \in Published /\ outbox[s] \in Events
  BY <1>1, EventTyped DEF OutboxInv, FilesPublished
<1>3. UNCHANGED <<outbox, handled, fails, uncertain>>
  BY <1>1 DEF producerVars, history
<1>4. NumbersDistinct' /\ Published' = Published
  BY <1>1, ConsumerOnly
<1>5. AckMeansHandled' /\ HandledTwiceOnlyIfUncertain' /\ DlqMeansMaxRetries'
  BY <1>1, <1>3 DEF OutboxInv, AckMeansHandled, HandledTwiceOnlyIfUncertain, DlqMeansMaxRetries
<1>6. CASE IsProcessed(outbox[s])
  <2>1. UNCHANGED <<cpc, cur, retry>>
    BY <1>6 DEF Visit
  <2>2. TypeOK' /\ FilesPublished'
    BY <1>1, <1>4, <2>1 DEF OutboxInv, TypeOK, FilesPublished, Working, producerVars, syncVars, history
  <2>3. RowOfCurrent' /\ SuccessMeansHandled' /\ HandledIsKnown' /\ AttemptsAreNew' /\ FailuresCounted'
    BY <1>1, <1>3, <2>1 DEF OutboxInv, RowOfCurrent, SuccessMeansHandled, HandledIsKnown,
       AttemptsAreNew, FailuresCounted, IsProcessed, Working
  <2> QED
    BY <1>4, <1>5, <2>2, <2>3 DEF OutboxInv
<1>7. CASE ~IsProcessed(outbox[s])
  <2>1. cpc' = "handle" /\ cur' = s /\ retry' = RetryCount(outbox[s])
    BY <1>7 DEF Visit
  <2>2. Event' = outbox[s]
    BY <1>3, <2>1 DEF Event
  <2>3. retry' \in 0..MaxRetries /\ retry' <= fails[outbox[s]]
    BY <1>2, <2>1, RowTyped, BoundAssumption DEF RetryCount, OutboxInv, TypeOK, FailuresCounted
  <2>4. TypeOK'
    BY <1>1, <2>1, <2>3 DEF OutboxInv, TypeOK, producerVars, syncVars, history
  <2>5. FilesPublished'
    BY <1>1, <1>2, <1>4, <2>1 DEF OutboxInv, FilesPublished, Working, syncVars
  <2>6. RowOfCurrent' /\ SuccessMeansHandled' /\ HandledIsKnown' /\ AttemptsAreNew'
    BY <1>1, <1>3, <1>7, <2>1, <2>2 DEF OutboxInv, RowOfCurrent, SuccessMeansHandled,
       HandledIsKnown, AttemptsAreNew, IsProcessed
  <2>7. FailuresCounted'
    BY <1>1, <1>3, <2>1, <2>2, <2>3 DEF OutboxInv, FailuresCounted, Working
  <2> QED
    BY <1>4, <1>5, <2>4, <2>5, <2>6, <2>7 DEF OutboxInv
<1> QED
  BY <1>6, <1>7

LEMMA HandlerReturnsKeeps == OutboxInv /\ HandlerReturns => OutboxInv'
<1> SUFFICES ASSUME OutboxInv, HandlerReturns PROVE OutboxInv'
  OBVIOUS
<1>1. /\ UNCHANGED <<producerVars, syncVars, acks, dlq, db, todo, cur, retry, fails, uncertain>>
      /\ cpc = "handle" /\ cpc' = "record"
      /\ handled' = [handled EXCEPT ![Event] = Upto(handled[Event] + 1, 2)]
  BY DEF HandlerReturns
<1>2. Event \in Events /\ Event' = Event /\ UNCHANGED outbox
  BY <1>1, EventTyped DEF OutboxInv, FilesPublished, Working, Event, producerVars
<1>3. /\ handled'[Event] \in 1..2
      /\ handled'[Event] > 1 => handled[Event] > 0
      /\ \A e \in Events \ {Event} : handled'[e] = handled[e]
      /\ handled' \in [Events -> 0..2]
  BY <1>1, <1>2 DEF Upto, OutboxInv, TypeOK
<1> HIDE DEF Event
<1>4. TypeOK'
  BY <1>1, <1>3 DEF OutboxInv, TypeOK, producerVars, syncVars
<1>5. NumbersDistinct' /\ FilesPublished'
  BY <1>1, ConsumerOnly DEF OutboxInv, FilesPublished, Working, syncVars
<1>6. RowOfCurrent' /\ AttemptsAreNew' /\ FailuresCounted' /\ DlqMeansMaxRetries'
  BY <1>1, <1>2 DEF OutboxInv, RowOfCurrent, AttemptsAreNew, FailuresCounted, DlqMeansMaxRetries,
     Working
<1>7. handled'[Event] > 0 /\ \A e \in Events : handled[e] > 0 => handled'[e] > 0
  BY <1>3
<1>8. SuccessMeansHandled'
  BY <1>1, <1>2, <1>7 DEF OutboxInv, SuccessMeansHandled, IsProcessed
<1>9. HandledIsKnown'
  BY <1>1, <1>2, <1>3 DEF OutboxInv, HandledIsKnown, IsProcessed
<1>10. AckMeansHandled'
  <2>1. \A s \in acks : outbox[s] \in Events
    BY EventTyped DEF OutboxInv, FilesPublished
  <2> QED
    BY <1>1, <1>2, <1>7, <2>1 DEF OutboxInv, AckMeansHandled
<1>11. HandledTwiceOnlyIfUncertain'
  <2>1. handled'[Event] > 1 => Event \in uncertain
    BY <1>1, <1>2, <1>3 DEF OutboxInv, HandledIsKnown, AttemptsAreNew
  <2> QED
    BY <1>1, <1>3, <2>1 DEF OutboxInv, HandledTwiceOnlyIfUncertain
<1> QED
  BY <1>4, <1>5, <1>6, <1>8, <1>9, <1>10, <1>11 DEF OutboxInv

\* The handler raises, or the outcome of one that returned is lost.
LEMMA AttemptFailsKeeps == OutboxInv /\ (HandlerRaises \/ OutcomeLost) => OutboxInv'
<1> SUFFICES ASSUME OutboxInv, HandlerRaises \/ OutcomeLost PROVE OutboxInv'
  OBVIOUS
<1>1. /\ UNCHANGED <<producerVars, syncVars, acks, dlq, db, todo, cur, retry, handled, fails>>
      /\ cpc \in {"handle", "record", "ack"} /\ cpc' = "failed"
      /\ \/ cpc = "handle" /\ uncertain' = uncertain
         \/ cpc # "handle" /\ uncertain' = uncertain \cup {Event}
  BY DEF HandlerRaises, AfterRaise, OutcomeLost, history
<1>2. Event \in Events /\ Event' = Event /\ UNCHANGED outbox
  BY <1>1, EventTyped DEF OutboxInv, FilesPublished, Working, Event, producerVars
<1>3. TypeOK'
  BY <1>1, <1>2 DEF OutboxInv, TypeOK, producerVars, syncVars
<1>4. NumbersDistinct' /\ FilesPublished'
  BY <1>1, ConsumerOnly DEF OutboxInv, FilesPublished, Working, syncVars
<1>5. RowOfCurrent' /\ FailuresCounted' /\ AckMeansHandled' /\ DlqMeansMaxRetries'
  BY <1>1, <1>2 DEF OutboxInv, RowOfCurrent, FailuresCounted, AckMeansHandled, DlqMeansMaxRetries,
     Working
<1>6. SuccessMeansHandled' /\ HandledIsKnown' /\ AttemptsAreNew' /\ HandledTwiceOnlyIfUncertain'
  BY <1>1, <1>2 DEF OutboxInv, SuccessMeansHandled, HandledIsKnown, AttemptsAreNew,
     HandledTwiceOnlyIfUncertain, IsProcessed
<1> QED
  BY <1>3, <1>4, <1>5, <1>6 DEF OutboxInv

\* _record_attempt writes the row of the current event and no other.
LEMMA RecordWrites ==
  ASSUME TypeOK, cur \in Published, NEW ok \in BOOLEAN, NEW n \in 0..MaxRetries, Record(ok, n)
  PROVE  /\ db' \in [Events -> DbRow \cup {None}] /\ Event \in Events
         /\ db'[Event] # None
         /\ db'[Event].seq = cur /\ db'[Event].ok = ok /\ db'[Event].retries = n
         /\ \A e \in Events \ {Event} : db'[e] = db[e]
<1>1. Event \in Events
  BY EventTyped DEF Event
<1> HIDE DEF Event
<1>2. [seq |-> cur, ok |-> ok, retries |-> n] \in DbRow
  BY DEF DbRow, TypeOK
<1>3. [seq |-> cur, ok |-> ok, retries |-> n] # None
  BY <1>2, NoneIsNoRow
<1>4. db' = [db EXCEPT ![Event] = [seq |-> cur, ok |-> ok, retries |-> n]]
  BY DEF Record
<1> QED
  BY <1>1, <1>2, <1>3, <1>4 DEF TypeOK

LEMMA RecordSuccessKeeps == OutboxInv /\ RecordSuccess => OutboxInv'
<1> SUFFICES ASSUME OutboxInv, RecordSuccess PROVE OutboxInv'
  OBVIOUS
<1>1. /\ UNCHANGED <<producerVars, syncVars, acks, dlq, todo, cur, retry, history>>
      /\ cpc = "record" /\ cpc' = "ack" /\ Record(TRUE, retry)
  BY DEF RecordSuccess
<1>2. UNCHANGED <<outbox, handled, fails, uncertain, Event>>
  BY <1>1 DEF producerVars, history, Event
<1>3. /\ db' \in [Events -> DbRow \cup {None}] /\ Event \in Events
      /\ db'[Event].seq = cur /\ db'[Event].ok /\ db'[Event].retries = retry
      /\ \A e \in Events \ {Event} : db'[e] = db[e]
      /\ db'[Event] # None
  <2>1. cur \in Published /\ retry \in 0..MaxRetries
    BY <1>1 DEF OutboxInv, FilesPublished, Working, TypeOK
  <2> QED
    BY <1>1, <2>1, RecordWrites DEF OutboxInv
<1>4. TypeOK'
  BY <1>1, <1>3 DEF OutboxInv, TypeOK, producerVars, syncVars, history
<1>5. NumbersDistinct' /\ FilesPublished'
  BY <1>1, ConsumerOnly DEF OutboxInv, FilesPublished, Working, syncVars
<1>6. RowOfCurrent' /\ FailuresCounted'
  BY <1>1, <1>2, <1>3 DEF OutboxInv, RowOfCurrent, FailuresCounted, Working
<1>7. SuccessMeansHandled' /\ HandledIsKnown' /\ AttemptsAreNew'
  BY <1>1, <1>2, <1>3 DEF OutboxInv, SuccessMeansHandled, HandledIsKnown, AttemptsAreNew, IsProcessed
<1>8. AckMeansHandled' /\ HandledTwiceOnlyIfUncertain' /\ DlqMeansMaxRetries'
  BY <1>1, <1>2 DEF OutboxInv, AckMeansHandled, HandledTwiceOnlyIfUncertain, DlqMeansMaxRetries
<1> QED
  BY <1>4, <1>5, <1>6, <1>7, <1>8 DEF OutboxInv

LEMMA RecordFailureKeeps == OutboxInv /\ RecordFailure => OutboxInv'
<1> SUFFICES ASSUME OutboxInv, RecordFailure PROVE OutboxInv'
  OBVIOUS
<1> DEFINE n == Upto(retry + 1, MaxRetries)
<1>1. /\ UNCHANGED <<producerVars, syncVars, acks, dlq, todo, cur, retry, handled, uncertain>>
      /\ cpc = "failed" /\ Record(FALSE, n)
      /\ cpc' = IF retry + 1 >= MaxRetries THEN "dlq" ELSE "scan"
      /\ fails' = [fails EXCEPT ![Event] = Upto(fails[Event] + 1, MaxRetries)]
  BY DEF RecordFailure, ReachedMax
<1>2. UNCHANGED <<outbox, Event>>
  BY <1>1 DEF producerVars, Event
<1>3. retry \in 0..MaxRetries /\ n \in 0..MaxRetries /\ n <= retry + 1
      /\ cur \in Published /\ Event \in Events
  <2>1. cur \in Published
    BY <1>1 DEF OutboxInv, FilesPublished, Working
  <2> QED
    BY <2>1, EventTyped, BoundAssumption DEF OutboxInv, TypeOK, Event, Upto
<1>4. /\ fails' \in [Events -> 0..MaxRetries]
      /\ \A e \in Events : fails[e] <= fails'[e]
      /\ n <= fails'[Event] /\ retry <= fails'[Event]
      /\ retry + 1 >= MaxRetries => fails'[Event] >= MaxRetries
  <2>1. retry <= fails[Event] /\ fails[Event] \in 0..MaxRetries
    BY <1>1, <1>3 DEF OutboxInv, FailuresCounted, Working, TypeOK
  <2>2. fails'[Event] = Upto(fails[Event] + 1, MaxRetries)
        /\ \A e \in Events \ {Event} : fails'[e] = fails[e]
    BY <1>1, <1>3 DEF OutboxInv, TypeOK
  <2>3. /\ Upto(fails[Event] + 1, MaxRetries) \in 0..MaxRetries
        /\ Upto(fails[Event] + 1, MaxRetries) >= fails[Event]
        /\ Upto(fails[Event] + 1, MaxRetries) >= n
        /\ retry + 1 >= MaxRetries => Upto(fails[Event] + 1, MaxRetries) >= MaxRetries
    BY <1>3, <2>1, BoundAssumption DEF Upto
  <2> QED
    BY <1>1, <1>3, <2>1, <2>2, <2>3, BoundAssumption DEF OutboxInv, TypeOK
<1>5. /\ db' \in [Events -> DbRow \cup {None}]
      /\ db'[Event].seq = cur /\ ~db'[Event].ok /\ db'[Event].retries = n
      /\ \A e \in Events \ {Event} : db'[e] = db[e]
      /\ db'[Event] # None
  BY <1>1, <1>3, RecordWrites DEF OutboxInv
<1> HIDE DEF n, Event
<1>6. TypeOK'
  BY <1>1, <1>4, <1>5 DEF OutboxInv, TypeOK, producerVars, syncVars
<1>7. NumbersDistinct' /\ FilesPublished'
  BY <1>1, <1>3, ConsumerOnly DEF OutboxInv, FilesPublished, Working, syncVars
<1>8. RowOfCurrent'
  BY <1>1, <1>2, <1>5 DEF RowOfCurrent
<1>9. FailuresCounted'
  <2>1. \A e \in Events : db'[e] # None => db'[e].retries <= fails'[e]
    <3> SUFFICES ASSUME NEW e \in Events, db'[e] # None PROVE db'[e].retries <= fails'[e]
      OBVIOUS
    <3>1. CASE e = Event
      BY <1>4, <1>5, <3>1
    <3>2. CASE e # Event
      <4>1. db[e] # None /\ db'[e] = db[e] /\ db[e].retries <= fails[e]
        BY <1>5, <3>2 DEF OutboxInv, FailuresCounted
      <4>2. db[e].retries \in 0..MaxRetries
        BY <4>1, RowTyped DEF OutboxInv
      <4> QED
        BY <1>4, <4>1, <4>2 DEF OutboxInv, TypeOK
    <3> QED
      BY <3>1, <3>2
  <2> QED
    BY <1>1, <1>2, <1>4, <2>1 DEF FailuresCounted, Working
<1>10. SuccessMeansHandled' /\ HandledIsKnown' /\ AttemptsAreNew'
  <2>1. \A e \in Events : IsProcessed(e)' => IsProcessed(e) /\ e # Event
    BY <1>2, <1>5 DEF IsProcessed
  <2>2. \A e \in Events \ {Event} : IsProcessed(e)' <=> IsProcessed(e)
    BY <1>5 DEF IsProcessed
  <2>3. handled[Event] > 0 => Event \in uncertain
    BY <1>1, <1>3 DEF OutboxInv, HandledIsKnown, AttemptsAreNew
  <2> QED
    BY <1>1, <1>2, <2>1, <2>2, <2>3 DEF OutboxInv, SuccessMeansHandled, HandledIsKnown, AttemptsAreNew
<1>11. AckMeansHandled' /\ HandledTwiceOnlyIfUncertain'
  BY <1>1, <1>2 DEF OutboxInv, AckMeansHandled, HandledTwiceOnlyIfUncertain
<1>12. DlqMeansMaxRetries'
  <2>1. \A s \in dlq : outbox[s] \in Events
    BY EventTyped DEF OutboxInv, FilesPublished
  <2> QED
    BY <1>1, <1>2, <1>4, <2>1, BoundAssumption DEF OutboxInv, DlqMeansMaxRetries, TypeOK
<1> QED
  BY <1>6, <1>7, <1>8, <1>9, <1>10, <1>11, <1>12 DEF OutboxInv

LEMMA AckKeeps == OutboxInv /\ Ack => OutboxInv'
<1> SUFFICES ASSUME OutboxInv, Ack PROVE OutboxInv'
  OBVIOUS
<1>1. /\ UNCHANGED <<producerVars, syncVars, dlq, db, todo, cur, retry, history>>
      /\ cpc = "ack" /\ cpc' = "scan" /\ acks' = acks \cup {cur}
  BY DEF Ack, OutboxInv, RowOfCurrent
<1>2. cur \in Published /\ Event \in Events /\ UNCHANGED <<outbox, handled, fails, uncertain>>
  BY <1>1, EventTyped DEF OutboxInv, FilesPublished, Working, Event, producerVars, history
<1>3. handled[outbox[cur]] > 0
  BY <1>1, <1>2 DEF OutboxInv, SuccessMeansHandled, Event
<1>4. TypeOK'
  BY <1>1 DEF OutboxInv, TypeOK, producerVars, syncVars, history
<1>5. NumbersDistinct' /\ FilesPublished'
  BY <1>1, <1>2, ConsumerOnly DEF OutboxInv, FilesPublished, Working, syncVars
<1>6. RowOfCurrent' /\ SuccessMeansHandled' /\ HandledIsKnown' /\ AttemptsAreNew' /\ FailuresCounted'
  BY <1>1, <1>2 DEF OutboxInv, RowOfCurrent, SuccessMeansHandled, HandledIsKnown, AttemptsAreNew,
     FailuresCounted, IsProcessed, Working
<1>7. AckMeansHandled' /\ HandledTwiceOnlyIfUncertain' /\ DlqMeansMaxRetries'
  BY <1>1, <1>2, <1>3 DEF OutboxInv, AckMeansHandled, HandledTwiceOnlyIfUncertain, DlqMeansMaxRetries
<1> QED
  BY <1>4, <1>5, <1>6, <1>7 DEF OutboxInv

LEMMA MoveToDlqKeeps == OutboxInv /\ MoveToDlq => OutboxInv'
<1> SUFFICES ASSUME OutboxInv, MoveToDlq PROVE OutboxInv'
  OBVIOUS
<1>1. /\ UNCHANGED <<producerVars, syncVars, acks, db, todo, cur, retry, history>>
      /\ cpc = "dlq" /\ cpc' = "scan" /\ dlq' = dlq \cup {cur}
  BY DEF MoveToDlq, OutboxInv, RowOfCurrent
<1>2. cur \in Published /\ Event \in Events /\ UNCHANGED <<outbox, handled, fails, uncertain>>
  BY <1>1, EventTyped DEF OutboxInv, FilesPublished, Working, Event, producerVars, history
<1>3. fails[outbox[cur]] >= MaxRetries
  BY <1>1, <1>2 DEF OutboxInv, FailuresCounted, Event
<1>4. TypeOK'
  BY <1>1 DEF OutboxInv, TypeOK, producerVars, syncVars, history
<1>5. NumbersDistinct' /\ FilesPublished'
  BY <1>1, <1>2, ConsumerOnly DEF OutboxInv, FilesPublished, Working, syncVars
<1>6. RowOfCurrent' /\ SuccessMeansHandled' /\ HandledIsKnown' /\ AttemptsAreNew' /\ FailuresCounted'
  BY <1>1, <1>2 DEF OutboxInv, RowOfCurrent, SuccessMeansHandled, HandledIsKnown, AttemptsAreNew,
     FailuresCounted, IsProcessed, Working
<1>7. AckMeansHandled' /\ HandledTwiceOnlyIfUncertain' /\ DlqMeansMaxRetries'
  BY <1>1, <1>2, <1>3 DEF OutboxInv, AckMeansHandled, HandledTwiceOnlyIfUncertain, DlqMeansMaxRetries
<1> QED
  BY <1>4, <1>5, <1>6, <1>7 DEF OutboxInv

LEMMA ConsumerCrashKeeps == OutboxInv /\ ConsumerCrash => OutboxInv'
<1> SUFFICES ASSUME OutboxInv, ConsumerCrash PROVE OutboxInv'
  OBVIOUS
<1>1. /\ UNCHANGED <<producerVars, syncVars, acks, dlq, db, cur, retry, handled, fails>>
      /\ cpc' = "down" /\ todo' = {}
      /\ uncertain' = IF cpc = "record" THEN uncertain \cup {Event} ELSE uncertain
  BY DEF ConsumerCrash
<1>2. UNCHANGED <<outbox, Event>> /\ (cpc = "record" => Event \in Events)
  BY <1>1, EventTyped DEF OutboxInv, FilesPublished, Working, Event, producerVars
<1>3. TypeOK'
  BY <1>1, <1>2 DEF OutboxInv, TypeOK, producerVars, syncVars
<1>4. NumbersDistinct' /\ FilesPublished'
  BY <1>1, ConsumerOnly DEF OutboxInv, FilesPublished, Working, syncVars
<1>5. RowOfCurrent' /\ SuccessMeansHandled' /\ HandledIsKnown' /\ AttemptsAreNew' /\ FailuresCounted'
  BY <1>1, <1>2 DEF OutboxInv, RowOfCurrent, SuccessMeansHandled, HandledIsKnown, AttemptsAreNew,
     FailuresCounted, IsProcessed, Working
<1>6. AckMeansHandled' /\ HandledTwiceOnlyIfUncertain' /\ DlqMeansMaxRetries'
  BY <1>1, <1>2 DEF OutboxInv, AckMeansHandled, HandledTwiceOnlyIfUncertain, DlqMeansMaxRetries
<1> QED
  BY <1>3, <1>4, <1>5, <1>6 DEF OutboxInv

-----------------------------------------------------------------------------
LEMMA OutboxNext == OutboxInv /\ [Next]_vars => OutboxInv'
<1> SUFFICES ASSUME OutboxInv, [Next]_vars PROVE OutboxInv'
  OBVIOUS
<1>1. CASE UNCHANGED vars
  <2>1. TypeOK' /\ NumbersDistinct' /\ FilesPublished'
    BY <1>1 DEF vars, producerVars, syncVars, consumerVars, history, OutboxInv, TypeOK,
       NumbersDistinct, FilesPublished, Published, Working
  <2> QED
    BY <1>1, <2>1, FilesStay DEF vars, producerVars, consumerVars, OutboxInv
<1>2. CASE Next
  BY <1>2, TakeSeqKeeps, WriteFileKeeps, ProducerCrashKeeps, SyncKeeps, PollKeeps, VisitKeeps,
     HandlerReturnsKeeps, AttemptFailsKeeps, RecordSuccessKeeps, AckKeeps, RecordFailureKeeps,
     MoveToDlqKeeps, ConsumerCrashKeeps DEF Next, PollStep
<1> QED
  BY <1>1, <1>2

LEMMA OutboxInvariant == Spec => []OutboxInv
BY OutboxInit, OutboxNext, PTL DEF Spec

\* Every variable of the outbox, the sync and the consumer stays in its type.
THEOREM OutboxTyped == Spec => []TypeOK
<1>1. OutboxInv => TypeOK
  BY DEF OutboxInv
<1> QED
  BY OutboxInvariant, <1>1, PTL

\* An acknowledged file is that of an event whose handler has returned.
THEOREM AckedWasHandled == Spec => []AckMeansHandled
<1>1. OutboxInv => AckMeansHandled
  BY DEF OutboxInv
<1> QED
  BY OutboxInvariant, <1>1, PTL

\* The handler runs twice for an event only if the outcome of an earlier run
\* was lost after the handler had returned.
THEOREM HandledOnce == Spec => []HandledTwiceOnlyIfUncertain
<1>1. OutboxInv => HandledTwiceOnlyIfUncertain
  BY DEF OutboxInv
<1> QED
  BY OutboxInvariant, <1>1, PTL

\* A dead-letter file stands for MAX_RETRIES failed attempts at the event.
THEOREM DeadAfterMaxRetries == Spec => []DlqMeansMaxRetries
<1>1. OutboxInv => DlqMeansMaxRetries
  BY DEF OutboxInv
<1> QED
  BY OutboxInvariant, <1>1, PTL

\* A file is never overwritten with another event: two producers, or one that
\* crashed and came back, never share a number.
THEOREM FilesKept == Spec => NoOverwrite
<1>1. OutboxInv /\ [Next]_vars => [\A s \in Published : outbox'[s] = outbox[s]]_vars
  <2> SUFFICES ASSUME OutboxInv, Next, NEW s \in Published PROVE outbox'[s] = outbox[s]
    BY DEF vars
  <2>1. ASSUME NEW p \in Producers, WriteFile(p) PROVE outbox'[s] = outbox[s]
    BY <2>1 DEF WriteFile, OutboxInv, NumbersDistinct, TypeOK, Published
  <2>2. ASSUME NEW p \in Producers, (\E e \in Events : TakeSeq(p, e)) \/ ProducerCrash(p)
        PROVE  outbox'[s] = outbox[s]
    BY <2>2 DEF TakeSeq, ProducerCrash
  <2>3. ASSUME NEW r \in Seqs, Republish(r) \/ Sync(r) \/ SyncLoses(r) PROVE outbox'[s] = outbox[s]
    BY <2>3 DEF Republish, Sync, SyncLoses, producerVars
  <2>4. ASSUME Poll \/ PollStep \/ ConsumerCrash PROVE outbox'[s] = outbox[s]
    BY <2>4 DEF Poll, PollStep, ConsumerCrash, Visit, PollEnds, HandlerReturns, HandlerRaises,
       RecordSuccess, Ack, OutcomeLost, RecordFailure, MoveToDlq, producerVars
  <2> QED
    BY <2>1, <2>2, <2>3, <2>4 DEF Next
<1> QED
  BY OutboxInvariant, <1>1, PTL DEF Spec, NoOverwrite
=============================================================================
