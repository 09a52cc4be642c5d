--------------------------- MODULE FamilyCouncil ---------------------------
(***************************************************************************)
(* Decisions of the family council.                                        *)
(*   council         FamilienAuditBus: envelopes as files of a directory,  *)
(*                   filters of the members, a table of finalized          *)
(*                   decisions and an audit file; workers of several       *)
(*                   processes run process_pending, and may die anywhere   *)
(*   veto-collector  AtomicVetoCollector: votes under a lock, a quorum     *)
(*                   that is closed once                                   *)
(* A worker is seen at the decision it is working on; the order in which   *)
(* it walks through the directory is left open.                            *)
(***************************************************************************)
EXTENDS Integers, FiniteSets

CONSTANTS
  Decisions, \* decision ids
  Members,   \* family members, all with a filter registered
  Proposer,  \* [Decisions -> Members]
  Consent,   \* requires_consent: [Decisions -> SUBSET Members]
  Info,      \* info_only: [Decisions -> SUBSET Members]
  Custom,    \* members with a custom_filter_func
  Domain,    \* members whose consent_domains hold the domain of every decision
  Workers,
  None,
  MaxFiles   \* bound: envelopes written in all

VARIABLES
  engine,
  seq,       \* last_seq of the domain in seq_counter
  submitted, \* submitters between their sequence number and their file
  files,     \* <<decision, seq>>: the files of the bus directory
  table,     \* processed_decisions: the final state of a decision, or None
  audit,     \* lines of the audit file: [of, state, vetoes]
  work,      \* what a worker is doing: [at, of, vetoes] or None
  excused,   \* history: decisions whose persist raised, whose worker died, or
             \* that two workers evaluated at once
  votes,     \* votes of an open decision in the collector
  record     \* the AtomicVoteRecord of a closed one, or None

vars == <<seq, submitted, files, table, audit, work, excused, votes, record>>

Engines == {"council", "veto-collector"}

Start ==
  /\ seq = 0 /\ submitted = {} /\ files = {} /\ audit = {} /\ excused = {}
  /\ table = [d \in Decisions |-> None]
  /\ work = [w \in Workers |-> None]
  /\ votes = [d \in Decisions |-> [m \in Members |-> None]]
  /\ record = [d \in Decisions |-> None]

Actions == {"approve", "veto", "info_acknowledged", "abstain"}

CollectorIdle == UNCHANGED <<votes, record>>
CouncilIdle == UNCHANGED <<seq, submitted, files, table, audit, work, excused>>

-----------------------------------------------------------------------------
(* FamilienAuditBus *)

\* _next_seq: one transaction.  The caller may hand in its own decision_id, and
\* the same one again.
NextSeq(d) ==
  /\ engine = "council" /\ seq < MaxFiles
  /\ seq' = seq + 1
  /\ submitted' = submitted \cup {<<d, seq + 1>>}
  /\ UNCHANGED <<files, table, audit, work, excused>> /\ CollectorIdle

\* atomic_write_json: a temporary file, then os.replace.
WriteEnvelope(f) ==
  /\ submitted' = submitted \ {f}
  /\ files' = files \cup {f}
  /\ UNCHANGED <<seq, table, audit, work, excused>> /\ CollectorIdle

\* The submitter dies: the sequence number is gone, no file is left.
LoseEnvelope(f) ==
  /\ submitted' = submitted \ {f}
  /\ UNCHANGED <<seq, files, table, audit, work, excused>> /\ CollectorIdle

\* _relevance.
Relevant(m, d) == m = Proposer[d] \/ m \in Consent[d] \/ m \in Info[d]

\* evaluate: what a filter may answer; "error" stands for an exception, which
\* evaluate_envelope turns into a message and no result.
Answers(m, d) ==
  CASE m \in Custom                      -> Actions \cup {"error"}
    [] m \notin Custom /\ m = Proposer[d] -> {"info_acknowledged"}
    [] m \notin Custom /\ m # Proposer[d] /\ m \in Consent[d] /\ m \in Domain -> {"approve"}
    [] m \notin Custom /\ m # Proposer[d] /\ ~(m \in Consent[d] /\ m \in Domain) ->
         {IF m \in Info[d] THEN "info_acknowledged" ELSE "abstain"}

\* evaluate_envelope over the registered filters.
Results(d) ==
  {r \in [Members -> Actions \cup {"error", "skipped"}] :
     \A m \in Members : r[m] \in IF Relevant(m, d) THEN Answers(m, d) ELSE {"skipped"}}

\* FAULT: the veto of the proposer counts instead of those of the consenting.
ProposerVeto(d, v) == IF Proposer[d] \in v THEN "vetoed" ELSE "approved"

\* aggregate_veto with _make_veto_eligibility.
Aggregate(d, v) == IF Consent[d] \cap v # {} THEN "vetoed" ELSE "approved"

Busy(d) == \E w \in Workers : work[w] # None /\ work[w].of = d

\* process_pending reaches a file: a finalized decision is skipped, another one
\* is evaluated.
Evaluate(w, f) ==
  /\ work[w] = None /\ table[f[1]] = None
  /\ \E r \in Results(f[1]) :
       work' = [work EXCEPT ![w] = [at |-> "persist", of |-> f[1],
                                    vetoes |-> {m \in Members : r[m] = "veto"}]]
  /\ excused' = IF Busy(f[1]) THEN excused \cup {f[1]} ELSE excused
  /\ UNCHANGED <<seq, submitted, files, table, audit>> /\ CollectorIdle

\* persist: one appended line, then the decision card.  When it raises, the
\* error goes to the statistics and the decision is finalized all the same.
Persist(w) ==
  /\ work[w] # None => work[w].at = "persist"
  /\ work[w] # None
  /\ LET d == work[w].of IN
     \/ /\ audit' = audit \cup {[of |-> d, state |-> Aggregate(d, work[w].vetoes),
                                 vetoes |-> work[w].vetoes]}
        /\ UNCHANGED excused
     \/ audit' = audit /\ excused' = excused \cup {d}
  /\ work' = [work EXCEPT ![w].at = "record"]
  /\ UNCHANGED <<seq, submitted, files, table>> /\ CollectorIdle

\* FAULT: the decision is recorded before it is persisted.
RecordEarly(w) ==
  /\ work[w] # None
  /\ table' = [table EXCEPT ![work[w].of] = Aggregate(work[w].of, work[w].vetoes)]
  /\ work' = IF work[w].at = "persist" THEN work ELSE [work EXCEPT ![w] = None]
  /\ UNCHANGED <<seq, submitted, files, audit, excused>> /\ CollectorIdle

\* _record_finalized: INSERT OR REPLACE.
RecordFinalized(w) ==
  /\ work[w] # None => work[w].at = "record"
  /\ work[w] # None
  /\ table' = [table EXCEPT ![work[w].of] = Aggregate(work[w].of, work[w].vetoes)]
  /\ work' = [work EXCEPT ![w] = None]
  /\ UNCHANGED <<seq, submitted, files, audit, excused>> /\ CollectorIdle

\* The worker dies; the next one starts with every file again.
Die(w) ==
  /\ work[w] # None
  /\ excused' = excused \cup {work[w].of}
  /\ work' = [work EXCEPT ![w] = None]
  /\ UNCHANGED <<seq, submitted, files, table, audit>> /\ CollectorIdle

Council ==
  \/ \E d \in Decisions : NextSeq(d)
  \/ \E f \in submitted : WriteEnvelope(f) \/ LoseEnvelope(f)
  \/ \E w \in Workers : \/ \E f \in files : Evaluate(w, f)
                        \/ Persist(w) \/ RecordFinalized(w) \/ Die(w)

-----------------------------------------------------------------------------
(* AtomicVetoCollector, after register_decision *)

\* FAULT: a vote after the close is stored.
VoteAnyTime(d, m, a) == votes' = [votes EXCEPT ![d][m] = a] /\ UNCHANGED record

\* A second vote with the same action changes nothing, with another one raises;
\* after the close the vote is refused.
Vote(d, m, a) ==
  /\ record[d] = None /\ votes[d][m] = None
  /\ votes' = [votes EXCEPT ![d][m] = a]
  /\ UNCHANGED record

\* close_quorum, after wait_for_quorum or its timeout.  A second one returns the
\* first record.
CloseQuorum(d) ==
  /\ record[d] = None
  /\ record' = [record EXCEPT ![d] =
       [votes |-> [m \in Members |-> IF votes[d][m] = None THEN "abstain" ELSE votes[d][m]],
        state |-> IF \E m \in Consent[d] : votes[d][m] = "veto" THEN "vetoed" ELSE "approved"]]
  /\ UNCHANGED votes

IsClosed(d) == UNCHANGED <<votes, record>>

Collector ==
  /\ engine = "veto-collector"
  /\ \E d \in Decisions : \/ \E m \in Members, a \in Actions : Vote(d, m, a)
                          \/ CloseQuorum(d) \/ IsClosed(d)
  /\ CouncilIdle

Look == engine = "council" /\ UNCHANGED vars

Next == Council \/ Look \/ Collector

-----------------------------------------------------------------------------
(* Properties *)

\* A finalized decision has exactly one state in the audit file, the one of the
\* table, unless its persist raised, a worker died over it or two worked on it
\* at once.
FinalizedIsAudited ==
  engine = "council" =>
    \A d \in Decisions : table[d] # None /\ d \notin excused =>
      {l.state : l \in {x \in audit : x.of = d}} = {table[d]}

\* No line of the audit says "approved" of a decision to which a member whose
\* consent it needs has said no; a filter that raised has not spoken.
VetoHeard ==
  /\ \A l \in audit : l.state = "approved" => Consent[l.of] \cap l.vetoes = {}
  /\ \A d \in Decisions : record[d] # None =>
       (record[d].state = "approved" => \A m \in Consent[d] : votes[d][m] # "veto")

\* Every vote that the collector has accepted is in the record of the closed
\* decision, whatever the order of the votes and of the close.
AcceptedVoteCounts ==
  \A d \in Decisions : record[d] # None =>
    \A m \in Members : votes[d][m] # None => record[d].votes[m] = votes[d][m]
=============================================================================
