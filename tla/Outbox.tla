------------------------------- MODULE Outbox -------------------------------
(***************************************************************************)
(* The dispatch queue of outbox-pattern/: producer processes of one        *)
(* machine publish events of a topic as files, named by a sequence number  *)
(* from a SQLite counter; a consumer on another machine polls its synced   *)
(* copy of the directory, calls the handler and records the outcome in its *)
(* own database.  The copy is kept by a file sync that may delay, reorder  *)
(* or lose a write (external; republish_failed_acks is there for it).      *)
(*                                                                         *)
(* A file is identified by its sequence number.  retry_count and timestamp *)
(* of an envelope are never read by the code and are left out, and so are  *)
(* files that do not parse and topics nobody subscribed: both are skipped. *)
(***************************************************************************)
EXTENDS Naturals, FiniteSets

CONSTANTS
  Producers,   \* processes that share the producer's counter database
  Events,      \* event ids
  None,
  MaxSeq,      \* bound: publications
  MaxRetries   \* OutboxConsumer.MAX_RETRIES

ASSUME BoundAssumption == MaxSeq \in Nat \ {0} /\ MaxRetries \in Nat \ {0}
ASSUME NoneAssumption == None \notin Events
ASSUME NoRowAssumption == None \notin [seq: Nat, ok: BOOLEAN, retries: Nat]

Seqs == 1..MaxSeq

VARIABLES
  lastSeq,    \* seq_counter.last_seq
  writing,    \* what a producer is about to write: an event and its number
  outbox,     \* the files in the producer's outbox: number -> event id
  unsynced,   \* files written and not yet carried over (external)
  inbox,      \* files in the consumer's copy
  acks, dlq,  \* numbers with an ack file, with a dead-letter file
  db,         \* processed_events: event id -> row
  cpc,        \* where the consumer is; "down" after a crash
  todo,       \* files of the listing that the poll has still to visit
  cur,        \* the file it is at
  retry,      \* current_retry
  handled,    \* history: how often the handler returned for an event
  fails,      \* history: how often an attempt at an event failed
  uncertain   \* history: events whose outcome was lost after the handler returned

producerVars == <<lastSeq, writing, outbox>>
syncVars     == <<unsynced, inbox>>
consumerVars == <<acks, dlq, db, cpc, todo, cur, retry>>
history      == <<handled, fails, uncertain>>
vars == <<producerVars, syncVars, consumerVars, history>>

Published == {s \in Seqs : outbox[s] # None}

\* A row of processed_events; last_error IS NULL is ok.
DbRow == [seq: Seqs, ok: BOOLEAN, retries: 0..MaxRetries]

\* Counters stop where the code no longer tells the values apart.
Upto(n, max) == IF n < max THEN n ELSE max

Init ==
  /\ lastSeq = 0
  /\ writing = [p \in Producers |-> None]
  /\ outbox = [s \in Seqs |-> None]
  /\ unsynced = {} /\ inbox = {} /\ acks = {} /\ dlq = {}
  /\ db = [e \in Events |-> None]
  /\ cpc = "idle" /\ todo = {} /\ cur = 1 /\ retry = 0
  /\ handled = [e \in Events |-> 0] /\ fails = [e \in Events |-> 0]
  /\ uncertain = {}

-----------------------------------------------------------------------------
(* Producer *)

\* FAULT: the counter is read and not advanced in the same transaction.
LastSeqUnchanged == lastSeq

LastSeqAdvanced == lastSeq + 1

\* publish, first half: _next_seq commits the next number.  The caller may
\* pass the id of an event it has published before.
TakeSeq(p, e) ==
  /\ writing[p] = None /\ lastSeq < MaxSeq
  /\ lastSeq' = LastSeqAdvanced
  /\ writing' = [writing EXCEPT ![p] = [ev |-> e, seq |-> lastSeq + 1]]
  /\ UNCHANGED <<outbox, syncVars, consumerVars, history>>

\* publish, second half: atomic_write_json puts the file there.
WriteFile(p) ==
  /\ writing[p] # None
  /\ outbox' = [outbox EXCEPT ![writing[p].seq] = writing[p].ev]
  /\ unsynced' = unsynced \cup {writing[p].seq}
  /\ writing' = [writing EXCEPT ![p] = None]
  /\ UNCHANGED <<lastSeq, inbox, consumerVars, history>>

\* The producer dies in between: the number is spent, there is no file.
ProducerCrash(p) ==
  /\ writing[p] # None
  /\ writing' = [writing EXCEPT ![p] = None]
  /\ UNCHANGED <<lastSeq, outbox, syncVars, consumerVars, history>>

\* FAULT: only the latest file is looked at.
LatestUnacked(s) == s \notin acks /\ s = lastSeq

Unacked(s) == s \notin acks

\* republish_failed_acks rewrites each file without an ack.
Republish(s) ==
  /\ s \in Published /\ Unacked(s)
  /\ s \notin unsynced
  /\ unsynced' = unsynced \cup {s}
  /\ UNCHANGED <<producerVars, inbox, consumerVars, history>>

-----------------------------------------------------------------------------
(* File sync (external) *)

Sync(s) ==
  /\ s \in unsynced
  /\ unsynced' = unsynced \ {s} /\ inbox' = inbox \cup {s}
  /\ UNCHANGED <<producerVars, consumerVars, history>>

SyncLoses(s) ==
  /\ s \in unsynced
  /\ unsynced' = unsynced \ {s}
  /\ UNCHANGED <<producerVars, inbox, consumerVars, history>>

-----------------------------------------------------------------------------
(* Consumer: poll_and_process *)

Event == outbox[cur]

\* sorted(glob): the listing is taken once, at the start of a poll.
Poll ==
  /\ cpc \in {"idle", "down"}
  /\ cpc' = "scan" /\ todo' = inbox
  /\ UNCHANGED <<producerVars, syncVars, acks, dlq, db, cur, retry, history>>

\* FAULT: an event counts as processed once its ack is there.
IsAcked(e) == db[e] # None /\ db[e].ok /\ db[e].seq \in acks

IsProcessed(e) == db[e] # None /\ db[e].ok

\* FAULT: a missing row is not told from a count.
RetryCountOfRow(e) == IF db[e] = None THEN None ELSE db[e].retries

RetryCount(e) == IF db[e] = None THEN 0 ELSE db[e].retries

\* The next file of the listing: an event that was processed is skipped.
Visit(s) ==
  /\ cpc = "scan"
  /\ s \in todo /\ \A t \in todo : s <= t
  /\ todo' = todo \ {s}
  /\ IF IsProcessed(outbox[s])
       THEN UNCHANGED <<cpc, cur, retry>>
       ELSE cpc' = "handle" /\ cur' = s /\ retry' = RetryCount(outbox[s])
  /\ UNCHANGED <<producerVars, syncVars, acks, dlq, db, history>>

PollEnds ==
  /\ cpc = "scan" /\ todo = {}
  /\ cpc' = "idle"
  /\ UNCHANGED <<producerVars, syncVars, acks, dlq, db, todo, cur, retry, history>>

HandlerReturns ==
  /\ cpc = "handle" /\ cpc' = "record"
  /\ handled' = [handled EXCEPT ![Event] = Upto(@ + 1, 2)]
  /\ UNCHANGED <<producerVars, syncVars, acks, dlq, db, todo, cur, retry, fails, uncertain>>

\* FAULT: an exception of the handler is swallowed.
AfterRaiseSwallowed == "record"

AfterRaise == "failed"

HandlerRaises ==
  /\ cpc = "handle" /\ cpc' = AfterRaise
  /\ UNCHANGED <<producerVars, syncVars, acks, dlq, db, todo, cur, retry, history>>

Record(ok, n) == db' = [db EXCEPT ![Event] = [seq |-> cur, ok |-> ok, retries |-> n]]

\* _record_attempt(success=True)
RecordSuccess ==
  /\ cpc = "record" /\ cpc' = "ack"
  /\ Record(TRUE, retry)
  /\ UNCHANGED <<producerVars, syncVars, acks, dlq, todo, cur, retry, history>>

Ack ==
  /\ cpc = "ack" /\ cpc' = "scan"
  /\ acks' = acks \cup {db[Event].seq}
  /\ UNCHANGED <<producerVars, syncVars, dlq, db, todo, cur, retry, history>>

\* _record_attempt or acknowledge raises inside the try: the attempt counts
\* as failed although the handler has returned.
OutcomeLost ==
  /\ cpc \in {"record", "ack"} /\ cpc' = "failed"
  /\ uncertain' = uncertain \cup {Event}
  /\ UNCHANGED <<producerVars, syncVars, acks, dlq, db, todo, cur, retry, handled, fails>>

\* FAULT: one attempt too few.
ReachedMaxEarly(n) == n + 1 >= MaxRetries

ReachedMax(n) == n >= MaxRetries

\* except: the attempt is recorded over whatever the row said before.
RecordFailure ==
  /\ cpc = "failed"
  /\ Record(FALSE, Upto(retry + 1, MaxRetries))
  /\ cpc' = IF ReachedMax(retry + 1) THEN "dlq" ELSE "scan"
  /\ fails' = [fails EXCEPT ![Event] = Upto(@ + 1, MaxRetries)]
  /\ UNCHANGED <<producerVars, syncVars, acks, dlq, todo, cur, retry, handled, uncertain>>

\* move_to_dlq writes a dead-letter file; the outbox file stays.
MoveToDlq ==
  /\ cpc = "dlq" /\ cpc' = "scan"
  /\ dlq' = dlq \cup {db[Event].seq}
  /\ UNCHANGED <<producerVars, syncVars, acks, db, todo, cur, retry, history>>

\* The consumer dies, or an error outside the try ends the poll.
ConsumerCrash ==
  /\ cpc \notin {"idle", "down"}
  /\ cpc' = "down" /\ todo' = {}
  /\ uncertain' = IF cpc = "record" THEN uncertain \cup {Event} ELSE uncertain
  /\ UNCHANGED <<producerVars, syncVars, acks, dlq, db, cur, retry, handled, fails>>

\* The steps of a poll once it has begun.
PollStep ==
  \/ \E s \in Seqs : Visit(s)
  \/ PollEnds \/ HandlerReturns \/ HandlerRaises \/ RecordSuccess \/ Ack
  \/ OutcomeLost \/ RecordFailure \/ MoveToDlq

-----------------------------------------------------------------------------
Next ==
  \/ \E p \in Producers : \/ \E e \in Events : TakeSeq(p, e)
                          \/ WriteFile(p) \/ ProducerCrash(p)
  \/ \E s \in Seqs : Republish(s) \/ Sync(s) \/ SyncLoses(s)
  \/ Poll \/ PollStep \/ ConsumerCrash

Spec == Init /\ [][Next]_vars

\* Polls that have begun go on.  Of the callers: poll_and_process and
\* republish_failed_acks are called again and again, as both are meant to be.
\* Of the sync: a file that is written again and again arrives.
Fairness ==
  /\ WF_vars(PollStep) /\ WF_vars(Poll)
  /\ \A s \in Seqs : WF_vars(Republish(s)) /\ SF_vars(Sync(s))

FairSpec == Spec /\ Fairness

-----------------------------------------------------------------------------
(* Properties *)

TypeOK ==
  /\ lastSeq \in 0..MaxSeq
  /\ writing \in [Producers -> [ev: Events, seq: Seqs] \cup {None}]
  /\ outbox \in [Seqs -> Events \cup {None}]
  /\ unsynced \subseteq Seqs /\ inbox \subseteq Seqs
  /\ acks \subseteq Seqs /\ dlq \subseteq Seqs
  /\ db \in [Events -> DbRow \cup {None}]
  /\ cpc \in {"idle", "down", "scan", "handle", "record", "ack", "failed", "dlq"}
  /\ todo \subseteq Seqs /\ cur \in Seqs /\ retry \in 0..MaxRetries
  /\ handled \in [Events -> 0..2] /\ fails \in [Events -> 0..MaxRetries]
  /\ uncertain \subseteq Events

\* A file is never overwritten with another event: two producers, or one that
\* crashed and came back, never share a number.
NoOverwrite ==
  [][\A s \in Published : outbox'[s] = outbox[s]]_vars

\* An acknowledged file is that of an event whose handler has returned.
AckMeansHandled == \A s \in acks : handled[outbox[s]] > 0

\* The handler runs twice for an event only if the outcome of an earlier run
\* was lost after the handler had returned: no retry, no republication, no
\* second file with the same event id and no crash elsewhere causes it.
HandledTwiceOnlyIfUncertain ==
  \A e \in Events : handled[e] > 1 => e \in uncertain

\* A dead-letter file stands for MAX_RETRIES failed attempts at the event.
DlqMeansMaxRetries ==
  \A s \in dlq : fails[outbox[s]] >= MaxRetries

\* An event in the dead-letter queue has left the outbox: its handler is not
\* called again ("Verschiebt Event nach 3 Fails in DLQ").
DlqIsFinal ==
  [][\A s \in dlq : handled'[outbox[s]] = handled[outbox[s]]]_vars

\* Unless the consumer keeps dying, every published event is handled or ends
\* in the dead-letter queue, whatever the sync loses and whoever crashes.
EventuallyResolved ==
  <>[](cpc # "down") =>
    \A e \in Events : (\E s \in Seqs : outbox[s] = e) ~>
      (handled[e] > 0 \/ \E s \in dlq : outbox[s] = e)
=============================================================================
