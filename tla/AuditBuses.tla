----------------------------- MODULE AuditBuses -----------------------------
(***************************************************************************)
(* The in-memory audit buses: a bounded buffer of events under one RLock,  *)
(* retention by age, and counters or a hash chain beside it.               *)
(*   bus-events   AuditEventBus                                            *)
(*   bus-trades   KPMAuditEventBus: counters, overflow is counted          *)
(*   bus-family   CapeFamilienAuditBus: counters per role, role limit      *)
(*   bus-pmo      NineDotsPMOAuditBus: counters per agent class            *)
(*   bus-legal    LexVanceComplianceAuditBus: one hash chain per client    *)
(*                                                                         *)
(* A publisher stamps its event BEFORE it takes the lock, so the buffer    *)
(* need not be in the order of the timestamps.  A chain hash is the number *)
(* of links behind it (SHA-256 does not collide), 0 the empty string.      *)
(* Callbacks run outside the lock and their exceptions are swallowed: they *)
(* change nothing here.                                                    *)
(***************************************************************************)
EXTENDS Integers, FiniteSets, Sequences, Functions

CONSTANTS
  Publishers, \* threads
  Subjects,   \* roles, agent classes, clients: what counters and chains are kept for
  None,
  MaxTime,    \* bound of the clock
  MaxEvents,  \* bound: events stamped in all
  Retention,  \* set of retention times; the legal bus draws one per event
  Size,       \* max_size, max_events, maxlen of the deque
  MaxRoles    \* max_role_cardinality

VARIABLES
  engine, now,
  stamped,    \* the event a publisher has built and not yet appended, or None
  count,      \* events stamped so far: the identity of an event
  events,     \* _events, oldest first
  stats,      \* _stats and _silent_drops_count
  last,       \* _last_chain_hash
  anchor,     \* the hashes of the last daily_checkpoint
  overflowed, \* history: events the full buffer pushed out
  gone,       \* history: events a clean-up removed
  overtaken   \* history: subjects with an event appended behind a younger one

vars == <<now, stamped, count, events, stats, last, anchor, overflowed, gone, overtaken>>

Engines == {"bus-events", "bus-trades", "bus-family", "bus-pmo", "bus-legal"}

Zero == [s \in Subjects |-> 0]
Longest == CHOOSE r \in Retention : \A q \in Retention : q <= r

Start ==
  /\ now = 0 /\ count = 0
  /\ stamped = [p \in Publishers |-> None]
  /\ events = <<>>
  /\ stats = [published |-> 0, purged |-> 0, dropped |-> 0, by |-> Zero]
  /\ last = Zero /\ anchor = Zero
  /\ overflowed = {} /\ gone = {} /\ overtaken = {}

\* The validation of the arguments is left out: it raises before any change.
Stamp(p) ==
  /\ engine \in Engines
  /\ stamped[p] = None /\ count < MaxEvents
  /\ \E s \in Subjects, r \in IF engine = "bus-legal" THEN Retention ELSE {Longest} :
       stamped' = [stamped EXCEPT ![p] = [id |-> count + 1, of |-> s, at |-> now, keep |-> r]]
  /\ count' = count + 1
  /\ UNCHANGED <<now, events, stats, last, anchor, overflowed, gone, overtaken>>

\* A deque with maxlen drops its oldest entry; the legal bus pops index 0.
Full == Len(events) >= Size
Bounded(e) == IF Full THEN Append(Tail(events), e) ELSE Append(events, e)

\* What every publish does under the lock, e being the event to append.
Put(p, e) ==
  /\ stamped[p] # None
  /\ stamped' = [stamped EXCEPT ![p] = None]
  /\ events' = Bounded(e)
  /\ overflowed' = IF Full THEN overflowed \cup {Head(events)} ELSE overflowed
  /\ overtaken' = IF \E i \in DOMAIN events : events[i].of = e.of /\ events[i].at > e.at
                    THEN overtaken \cup {e.of} ELSE overtaken
  /\ UNCHANGED <<now, count, anchor, gone>>

Publish(p) ==
  /\ engine = "bus-events"
  /\ Put(p, stamped[p])
  /\ UNCHANGED <<stats, last>>

\* FAULT: the overflow of the deque is not counted.
TradeCountsOnly(s) == [stats EXCEPT !.published = @ + 1, !.by[s] = @ + 1]

\* len == maxlen is looked at before the append.
TradeCounts(s) ==
  [stats EXCEPT !.published = @ + 1, !.by[s] = @ + 1, !.dropped = IF Full THEN @ + 1 ELSE @]

PublishTrade(p) ==
  /\ engine = "bus-trades"
  /\ Put(p, stamped[p])
  /\ stats' = TradeCounts(stamped[p].of)
  /\ UNCHANGED last

\* A role beyond max_role_cardinality is counted in _silent_drops_count.
PublishFamily(p) ==
  /\ engine = "bus-family"
  /\ Put(p, stamped[p])
  /\ LET s     == stamped[p].of
         roles == {r \in Subjects : stats.by[r] > 0}
         room  == s \in roles \/ Cardinality(roles) < MaxRoles
     IN  stats' = IF room THEN [stats EXCEPT !.published = @ + 1, !.by[s] = @ + 1]
                          ELSE [stats EXCEPT !.published = @ + 1, !.dropped = @ + 1]
  /\ UNCHANGED last

PublishPmo(p) ==
  /\ engine = "bus-pmo"
  /\ Put(p, stamped[p])
  /\ stats' = [stats EXCEPT !.published = @ + 1, !.by[stamped[p].of] = @ + 1]
  /\ UNCHANGED last

\* FAULT: one chain for all clients.
SharedLink(s) == CHOOSE n \in {last[c] : c \in Subjects} : \A c \in Subjects : last[c] <= n

\* _last_chain_hash of the client.
Link(s) == last[s]

PublishLegal(p) ==
  /\ engine = "bus-legal"
  /\ LET s == stamped[p].of
         e == [id |-> stamped[p].id, of |-> s, at |-> stamped[p].at, keep |-> stamped[p].keep,
               prev |-> Link(s), hash |-> Link(s) + 1]
     IN  /\ Put(p, e)
         /\ last' = [last EXCEPT ![s] = e.hash]
  /\ UNCHANGED stats

\* FAULT: an event of exactly the retention time is removed as well.
KeptBelow(e) == now - e.at < e.keep

\* timestamp >= cutoff, of every event: the buffer is not sorted.
Kept(e) == now - e.at <= e.keep

\* prune_expired, cleanup_old, cleanup_expired.  The clock is read before the
\* lock; a clean-up that was overtaken removes less, never more.
CleanUp ==
  /\ engine \in Engines
  /\ LET kept == SelectSeq(events, Kept)
     IN  /\ events' = kept
         /\ gone' = gone \cup (Range(events) \ Range(kept))
         /\ stats' = [stats EXCEPT !.purged = @ + Len(events) - Len(kept)]
  /\ UNCHANGED <<now, stamped, count, last, anchor, overflowed, overtaken>>

CleanUpEvents == engine = "bus-events" /\ CleanUp
CleanUpTrades == engine = "bus-trades" /\ CleanUp
CleanUpFamily == engine = "bus-family" /\ CleanUp
CleanUpPmo    == engine = "bus-pmo" /\ CleanUp
CleanUpLegal  == engine = "bus-legal" /\ CleanUp

\* daily_checkpoint; a callback that fails only changes the status of the entry.
DailyCheckpoint ==
  /\ engine = "bus-legal"
  /\ anchor' = last
  /\ UNCHANGED <<now, stamped, count, events, stats, last, overflowed, gone, overtaken>>

Tick ==
  /\ engine \in Engines
  /\ now' = IF now < MaxTime THEN now + 1 ELSE now
  /\ UNCHANGED <<stamped, count, events, stats, last, anchor, overflowed, gone, overtaken>>

Next ==
  \/ \E p \in Publishers : \/ Stamp(p) \/ Publish(p) \/ PublishTrade(p) \/ PublishFamily(p)
                           \/ PublishPmo(p) \/ PublishLegal(p)
  \/ CleanUpEvents \/ CleanUpTrades \/ CleanUpFamily \/ CleanUpPmo \/ CleanUpLegal
  \/ DailyCheckpoint \/ Tick

\* verify_chain: the events of the client, stably sorted by their timestamps,
\* must link up from the empty hash.
VerifyChain(s) ==
  LET mine   == SelectSeq(events, LAMBDA e : e.of = s)
      Rank(i) == Cardinality({j \in DOMAIN mine : \/ mine[j].at < mine[i].at
                                                  \/ mine[j].at = mine[i].at /\ j <= i})
  IN  \A i \in DOMAIN mine : mine[i].prev = Rank(i) - 1 /\ mine[i].hash = Rank(i)

-----------------------------------------------------------------------------
(* Properties *)

\* Every event that was appended is still in the buffer, unless the full buffer
\* pushed it out or it is older than its retention: clean-ups that meet events
\* out of order remove nothing that is still to be kept.
FreshKept == \A e \in gone : now - e.at > e.keep

\* The counters of the trade bus account for every event that it accepted, those
\* of the family and PMO buses for every event of every role.
Accounted ==
  LET total == FoldFunction(LAMBDA n, m : n + m, 0, stats.by)
  IN  CASE engine = "bus-trades" ->
             /\ stats.published = Len(events) + stats.purged + stats.dropped
             /\ stats.published = total
        [] engine = "bus-family" -> stats.published = total + stats.dropped
        [] engine = "bus-pmo"    -> stats.published = total
        [] OTHER                 -> TRUE

\* verify_chain is right about an untouched chain: it refuses one only if events
\* of the client were pushed out or expired, or if one was appended behind a
\* younger one (the timestamp is read before the lock).
VerifiedUnlessTrimmed ==
  engine = "bus-legal" =>
    \A s \in Subjects :
      VerifyChain(s) \/ s \in overtaken \/ \E e \in overflowed \cup gone : e.of = s
=============================================================================
