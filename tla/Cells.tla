------------------------------- MODULE Cells -------------------------------
(***************************************************************************)
(* The cell layer of kmo_governance: parts that keep a cell's state under  *)
(* a re-entrant lock and call back while they hold it, so that the same    *)
(* thread may come in again half way.                                      *)
(*                                                                         *)
(*   apoptosis   ApoptosisEngine, Bcl2Modulator, CytochromeCSnapshotter    *)
(*   healing     WoundHealingLifecycle                                     *)
(*   blackboard  BlackboardStore, shared by processes through SQLite       *)
(*   sandpile    the load redistribution of sandpile_redistribution.py     *)
(*   consent     GDPRComplianceLayer with its append-only audit file       *)
(***************************************************************************)
EXTENDS Integers, Sequences, FiniteSets, FiniteSetsExt

CONSTANTS
  CellIds,      \* cells of one hotel
  Tokens,       \* protections given out for a cell
  Threshold,    \* threshold of the accumulated score
  Offset,       \* log1p of 0, 1, 2... protections, scaled
  MaxScore,     \* bound: accumulated score
  Readers,      \* readers of the blackboard that follow its numbers
  MaxEvents,    \* bound: events appended
  PageSize,     \* limit of read_since
  Neighbors,    \* topology: sequence of neighbours of each node
  Critical,     \* z_crit
  Grain,        \* amount of one increment
  MaxLoad,      \* bound: load brought in
  Hotels,       \* hotels of the consent layer
  MaxLines      \* bound: audit lines and lost lines

VARIABLES
  engine,
  stage,        \* cascade_stage of each cell
  score,        \* accumulated_score
  shield,       \* per cell: protections and whether each has lapsed
  inside,       \* cells whose cascades hold the engine's lock, the innermost first
  snapshots,    \* snapshot files, those that were purged marked
  cascades,     \* history: cascades run per cell
  phase,        \* _phase of one healing
  path,         \* phase_log
  events,       \* blackboard_events: monotonic_seq to event
  appended,     \* history: events appended
  cursor,       \* per reader: highest monotonic_seq it has seen
  seen,         \* history, per reader: events it has seen
  reused,       \* history: a number has been given twice
  loads,        \* _loads
  falling,      \* queue and seen of the cascade under way
  given,        \* history: load brought in
  consent,      \* _consent: granted or not, for each hotel that has a record
  trail,        \* the audit file, as what its lines add up to
  lost          \* history: hotels with an audit line that was not written

cellVars  == <<stage, score, shield, inside, snapshots, cascades>>
healVars  == <<phase, path>>
boardVars == <<events, appended, cursor, seen, reused>>
pileVars  == <<loads, falling, given>>
gdprVars  == <<consent, trail, lost>>
vars      == <<cellVars, healVars, boardVars, pileVars, gdprVars>>

Engines == {"apoptosis", "healing", "blackboard", "sandpile", "consent"}
Nodes   == DOMAIN Neighbors

Start ==
  /\ stage = [c \in CellIds |-> "not_triggered"] /\ score = [c \in CellIds |-> 0]
  /\ shield = [c \in CellIds |-> [k \in {} |-> TRUE]]
  /\ inside = <<>> /\ snapshots = {} /\ cascades = [c \in CellIds |-> 0]
  /\ phase = "not_started" /\ path = <<>>
  /\ events = [n \in {} |-> 0] /\ appended = 0 /\ reused = FALSE
  /\ cursor = [r \in Readers |-> 0] /\ seen = [r \in Readers |-> {}]
  /\ loads = [n \in Nodes |-> 0] /\ falling = [queue |-> <<>>, met |-> {}] /\ given = 0
  /\ consent = [h \in {} |-> TRUE] /\ trail = [h \in {} |-> TRUE] /\ lost = {}

-----------------------------------------------------------------------------
(* ApoptosisEngine *)

\* count_active_protections.
Live(c) == {k \in DOMAIN shield[c] : shield[c][k]}

EffectiveThreshold(c) == Threshold + Offset[Cardinality(Live(c)) + 1]

\* FAULT: the stage is not looked at.
Reached(c, total) == total >= EffectiveThreshold(c)

Triggered(c, total) == total >= EffectiveThreshold(c) /\ stage[c] = "not_triggered"

\* signal, by any thread, or by the state provider of a cascade that holds the lock.  A
\* cascade begins in it.
Signal(c, weight) ==
  /\ engine = "apoptosis" /\ stage[c] # "apoptosed" /\ score[c] + weight <= MaxScore
  /\ score' = [score EXCEPT ![c] = @ + weight]
  /\ IF Triggered(c, score[c] + weight)
       THEN /\ stage' = [stage EXCEPT ![c] = "initial_check"]
            /\ inside' = <<c>> \o inside
            /\ cascades' = [cascades EXCEPT ![c] = @ + 1]
       ELSE UNCHANGED <<stage, inside, cascades>>
  /\ UNCHANGED <<shield, snapshots, healVars, boardVars, pileVars, gdprVars>>

\* FAULT: the cascade goes on when the snapshot could not be written.
Regardless(ok) == "apoptosed"

StageAfter(ok) == IF ok THEN "apoptosed" ELSE "initial_check"

\* _run_cascade after the state provider: the snapshot is written to a temporary file and
\* put in place in one step, then the stages pass to the end; or the exception leaves the
\* cell at its initial check, for ever.
RunCascade(ok) ==
  /\ engine = "apoptosis" /\ inside # <<>>
  /\ LET c == Head(inside)
     IN  /\ stage' = [stage EXCEPT ![c] = StageAfter(ok)]
         /\ snapshots' = IF ok THEN snapshots \cup {[cell |-> c, score |-> score[c], kept |-> TRUE]}
                               ELSE snapshots
  /\ inside' = Tail(inside)
  /\ UNCHANGED <<score, shield, cascades, healVars, boardVars, pileVars, gdprVars>>

\* purge_hotel takes no lock.
PurgeHotel ==
  /\ engine = "apoptosis"
  /\ snapshots' = {[s EXCEPT !.kept = FALSE] : s \in snapshots}
  /\ UNCHANGED <<stage, score, shield, inside, cascades, healVars, boardVars, pileVars, gdprVars>>

\* Bcl2Modulator has a lock of its own: protections come and go during a cascade.
ProtectPendingDecision(c, k) ==
  /\ engine = "apoptosis" /\ \A d \in CellIds : k \notin DOMAIN shield[d]
  /\ shield' = [shield EXCEPT ![c] = [j \in DOMAIN @ \cup {k} |-> j = k \/ @[j]]]
  /\ UNCHANGED <<stage, score, inside, snapshots, cascades, healVars, boardVars, pileVars, gdprVars>>

ProtectionLapses(c, k) ==
  /\ engine = "apoptosis" /\ k \in Live(c)
  /\ shield' = [shield EXCEPT ![c][k] = FALSE]
  /\ UNCHANGED <<stage, score, inside, snapshots, cascades, healVars, boardVars, pileVars, gdprVars>>

\* release_protection, and purge_expired for those that have lapsed.
ReleaseProtection(c, gone) ==
  /\ engine = "apoptosis"
  /\ \/ \E k \in DOMAIN shield[c] : gone = {k}
     \/ gone = DOMAIN shield[c] \ Live(c)
  /\ shield' = [shield EXCEPT ![c] = [j \in DOMAIN @ \ gone |-> @[j]]]
  /\ UNCHANGED <<stage, score, inside, snapshots, cascades, healVars, boardVars, pileVars, gdprVars>>

-----------------------------------------------------------------------------
(* WoundHealingLifecycle *)

Phases == <<"not_started", "hemostasis", "inflammation", "proliferation", "remodeling", "healed">>

\* ALLOWED_TRANSITIONS: the next phase, or the end.
Allowed(p) ==
  IF p \in {"healed", "aborted"} THEN {}
  ELSE {"aborted"} \cup {Phases[i + 1] : i \in {j \in 1..5 : Phases[j] = p}}

\* FAULT: the transition is checked against the table, not against the phase.
InTable(p) == UNION {Allowed(q) : q \in Range(Phases)}

MayFollow(p) == Allowed(p)

\* _transition and the six operations that call it.  The callbacks run in the same lock
\* and may call an operation again: that is the next step here.
Transition(target) ==
  /\ engine = "healing" /\ target \in MayFollow(phase) /\ Len(path) < 7
  /\ phase' = target /\ path' = Append(path, target)
  /\ UNCHANGED <<cellVars, boardVars, pileVars, gdprVars>>

\* PhaseTransitionError.
Refuse(target) ==
  /\ engine = "healing" /\ target \notin MayFollow(phase)
  /\ UNCHANGED vars

-----------------------------------------------------------------------------
(* BlackboardStore *)

\* _next_seq: one above the highest number that is still there.
NextSeq == IF DOMAIN events = {} THEN 1 ELSE Max(DOMAIN events) + 1

\* append and reinforce, in a transaction that keeps every other writer out.  A number
\* that is taken would be refused by the unique index.
AppendEvent ==
  /\ engine = "blackboard" /\ appended < MaxEvents
  /\ IF NextSeq \in DOMAIN events
       THEN UNCHANGED <<events, appended, reused>>
       ELSE /\ appended' = appended + 1
            /\ events' = [n \in DOMAIN events \cup {NextSeq} |-> IF n = NextSeq THEN appended + 1 ELSE events[n]]
            /\ reused' = (reused \/ \E r \in Readers : cursor[r] >= NextSeq)
  /\ UNCHANGED <<cursor, seen, cellVars, healVars, pileVars, gdprVars>>

\* FAULT: the page is not taken in the order of the numbers.
AnyPage(later) == IF Cardinality(later) <= PageSize THEN later
                  ELSE {n \in later : Cardinality({m \in later : m > n}) < PageSize}

Page(later) == {n \in later : Cardinality({m \in later : m < n}) < PageSize}

\* read_since, by a reader that goes on from the highest number it was given.
ReadSince(r) ==
  /\ engine = "blackboard"
  /\ LET page == Page({n \in DOMAIN events : n > cursor[r]})
     IN  /\ seen' = [seen EXCEPT ![r] = @ \cup {events[n] : n \in page}]
         /\ cursor' = [cursor EXCEPT ![r] = IF page = {} THEN @ ELSE Max(page)]
  /\ UNCHANGED <<events, appended, reused, cellVars, healVars, pileVars, gdprVars>>

\* gc_expired and purge_tissue: any events, or all of them.
DeleteEvents(gone) ==
  /\ engine = "blackboard" /\ gone # {}
  /\ events' = [n \in DOMAIN events \ gone |-> events[n]]
  /\ UNCHANGED <<appended, cursor, seen, reused, cellVars, healVars, pileVars, gdprVars>>

-----------------------------------------------------------------------------
(* The sandpile *)

IncrementLoad(n) ==
  /\ engine = "sandpile" /\ falling.queue = <<>> /\ given + Grain <= MaxLoad
  /\ loads' = [loads EXCEPT ![n] = @ + Grain]
  /\ given' = given + Grain
  /\ falling' = [queue |-> <<n>>, met |-> {}]
  /\ UNCHANGED <<cellVars, healVars, boardVars, gdprVars>>

\* FAULT: the whole load goes to every neighbour.
Whole(n) == loads[n]

Share(n) == loads[n] \div Len(Neighbors[n])

\* _cascade, one node at a time, the lock held to the end.  The start node is not in
\* `met` and may come again; a node above the mark that is in it is left there.
Cascade ==
  /\ engine = "sandpile" /\ falling.queue # <<>>
  /\ LET n     == Head(falling.queue)
         after == [m \in Nodes |-> IF m = n THEN 0 ELSE
                                   loads[m] + Share(n) * Cardinality({i \in DOMAIN Neighbors[n] : Neighbors[n][i] = m})]
         over  == SelectSeq(Neighbors[n], LAMBDA m : after[m] > Critical /\ m \notin falling.met)
     IN  IF loads[n] <= Critical \/ Neighbors[n] = <<>>
           THEN falling' = [falling EXCEPT !.queue = Tail(@)] /\ UNCHANGED loads
           ELSE /\ loads' = after
                /\ falling' = [queue |-> Tail(falling.queue) \o over, met |-> falling.met \cup Range(over)]
  /\ UNCHANGED <<given, cellVars, healVars, boardVars, gdprVars>>

Reset ==
  /\ engine = "sandpile" /\ falling.queue = <<>>
  /\ loads' = [n \in Nodes |-> 0] /\ given' = 0
  /\ UNCHANGED <<falling, cellVars, healVars, boardVars, gdprVars>>

-----------------------------------------------------------------------------
(* GDPRComplianceLayer *)

Without(f, h) == [g \in DOMAIN f \ {h} |-> f[g]]
With(f, h, v) == [g \in DOMAIN f \cup {h} |-> IF g = h THEN v ELSE f[g]]

\* _audit_event after the change: what the file then adds up to, or the write fails
\* with the change already made.
Audit(h, changed) ==
  \/ trail' = changed /\ UNCHANGED lost
  \/ Cardinality(lost) < MaxLines /\ lost' = lost \cup {h} /\ UNCHANGED trail

GrantConsent(h) ==
  /\ engine = "consent"
  /\ consent' = With(consent, h, TRUE)
  /\ Audit(h, With(trail, h, TRUE))
  /\ UNCHANGED <<cellVars, healVars, boardVars, pileVars>>

RevokeConsent(h) ==
  /\ engine = "consent" /\ h \in DOMAIN consent
  /\ consent' = With(consent, h, FALSE)
  /\ Audit(h, With(trail, h, FALSE))
  /\ UNCHANGED <<cellVars, healVars, boardVars, pileVars>>

\* FAULT: the purge is written only for a hotel whose consent is in force.
InForce(h) == IF h \in DOMAIN consent /\ consent[h] THEN Without(trail, h) ELSE trail

Purged(h) == Without(trail, h)

PurgeHotelData(h) ==
  /\ engine = "consent"
  /\ consent' = Without(consent, h)
  /\ Audit(h, Purged(h))
  /\ UNCHANGED <<cellVars, healVars, boardVars, pileVars>>

Next ==
  \/ \E c \in CellIds :
       \/ \E w \in 1..2 : Signal(c, w)
       \/ \E k \in Tokens : ProtectPendingDecision(c, k) \/ ProtectionLapses(c, k)
       \/ \E gone \in SUBSET Tokens : ReleaseProtection(c, gone)
  \/ \E ok \in BOOLEAN : RunCascade(ok)
  \/ PurgeHotel
  \/ \E p \in Range(Phases) \cup {"aborted"} : Transition(p) \/ Refuse(p)
  \/ AppendEvent \/ Cascade \/ Reset
  \/ \E r \in Readers : ReadSince(r)
  \/ \E gone \in SUBSET DOMAIN events : DeleteEvents(gone)
  \/ \E n \in Nodes : IncrementLoad(n)
  \/ \E h \in Hotels : GrantConsent(h) \/ RevokeConsent(h) \/ PurgeHotelData(h)

-----------------------------------------------------------------------------
(* Properties *)

\* However often the state provider signals again from within a cascade, and whatever
\* other cell that brings down, a cell runs its cascade once, and it is only called
\* apoptosed when its snapshot has been written.
DiesOnceOnRecord ==
  engine = "apoptosis" =>
    \A c \in CellIds :
      /\ cascades[c] <= 1
      /\ stage[c] = "apoptosed" => \E s \in snapshots : s.cell = c /\ s.score >= Threshold

\* A reader that follows the numbers has missed no event that is there, unless the
\* deletion of the newest event made its number be given twice.
NothingMissed ==
  engine = "blackboard" /\ ~reused =>
    \A r \in Readers : \A n \in DOMAIN events : n <= cursor[r] => events[n] \in seen[r]

\* No load is lost or made while it falls from node to node.
LoadConserved ==
  engine = "sandpile" => MapThenSumSet(LAMBDA n : loads[n], Nodes) = given

\* The audit file adds up to the consents in force, for every hotel of which no line was
\* lost.
ConsentOnRecord ==
  engine = "consent" =>
    \A h \in Hotels \ lost :
      /\ (h \in DOMAIN consent) = (h \in DOMAIN trail)
      /\ h \in DOMAIN consent => consent[h] = trail[h]

\* A healing that has ended, well or not, stays so, also when a callback comes in again.
HealingEnds == phase \in {"healed", "aborted"} => UNCHANGED phase
=============================================================================
