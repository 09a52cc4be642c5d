---------------------------- MODULE Deduplication ----------------------------
(***************************************************************************)
(* Engines that tell a repeated event from a new one for a time TTL.       *)
(*   events       DeduplicationEngine                                      *)
(*   orders       KPMDeduplicationEngine, keyed by client_order_id         *)
(*   manuscripts  GraphityDedupEngine, an OrderedDict                      *)
(*   votes        SAEv8DedupEngine                                         *)
(*   decisions    CapeFamilienDedup                                        *)
(* All of them read the clock before they take their lock: a check may     *)
(* look at records that are younger than its reading.  In the first two a  *)
(* record refuses such an access with a ValueError.  The first three read  *)
(* the wall clock, which may be set back; the others a monotonic one.      *)
(***************************************************************************)
EXTENDS Integers, FiniteSets, Sequences, FiniteSetsExt

CONSTANTS
  Clients,   \* threads that check
  Events,    \* keys: hashes, order ids
  TTL,       \* ttl of a record, in ticks
  MaxActive, \* max_entries, max_active
  MaxTime,   \* bound: the clock
  MaxStep,   \* bound: by how much it is set back
  None

VARIABLES
  engine,
  clock,     \* the clock
  stepped,   \* history: by how much it was set back so far
  reading,   \* what a client has read from the clock, and stepped then; None once used
  overtaken, \* history: clients whose reading is older than some record
  records,   \* the dict, in its order: key, first_seen_at, last_access_at
  born,      \* history: reading at which a key was last accepted, until it is evicted, removed
  answer     \* the last answer: "new" or "duplicate" or "error", whether the client was
             \* overtaken, whether the clock was set back between born and its reading, and
             \* since born: if new, the time that has passed, if not, that on the clock

vars == <<clock, stepped, reading, overtaken, records, born, answer>>

Sliding == {"events", "orders"}
OnWallClock == Sliding \cup {"manuscripts"}
Engines == OnWallClock \cup {"votes", "decisions"}

Start ==
  /\ clock = 0 /\ stepped = 0 /\ reading = [c \in Clients |-> None] /\ overtaken = {}
  /\ records = <<>> /\ born = [e \in Events |-> None]
  /\ answer = [kind |-> "none", gap |-> None, late |-> FALSE, setBack |-> FALSE]

-----------------------------------------------------------------------------

\* votes and decisions outlive their TTL by the tick on which it ends.
Expired(r, now) ==
  IF engine \in {"votes", "decisions"} THEN now - r.first > TTL ELSE now - r.first >= TTL

Keys(recs)       == {recs[i].key : i \in DOMAIN recs}
Without(recs, e) == SelectSeq(recs, LAMBDA r : r.key # e)
Live(recs, now)  == SelectSeq(recs, LAMBDA r : ~Expired(r, now))
Entry(e)         == CHOOSE i \in DOMAIN records : records[i].key = e

\* The first of the records whose stamp is least: min over the dict.
Eldest(recs) ==
  LET Stamp(i) == IF engine \in Sliding THEN recs[i].last ELSE recs[i].first
  IN  Min({i \in DOMAIN recs : \A j \in DOMAIN recs : Stamp(i) <= Stamp(j)})

Evicted(recs) ==
  IF Len(recs) < MaxActive THEN {}
  ELSE {IF engine = "manuscripts" THEN Head(recs).key ELSE recs[Eldest(recs)].key}

\* time.time(), time.monotonic(): outside the lock.
ReadClock(c) ==
  /\ reading[c] = None
  /\ reading' = [reading EXCEPT ![c] = [at |-> clock, stepped |-> stepped]]
  /\ UNCHANGED <<clock, stepped, overtaken, records, born, answer>>

Answer(c, e, kind) ==
  /\ answer' = [kind |-> kind, late |-> c \in overtaken,
                setBack |-> born[e] # None /\ born[e].stepped < reading[c].stepped,
                gap |-> IF born[e] = None THEN None
                        ELSE IF kind = "duplicate" THEN reading[c].at - born[e].at
                        ELSE clock + stepped - (born[e].at + born[e].stepped)]
  /\ reading' = [reading EXCEPT ![c] = None]

\* FAULT: a repetition moves the start of the window.
TouchFirst(r, now) == [r EXCEPT !.first = now, !.last = now]

\* hit_count + 1, last_access_at = now; first_seen_at stays.
Touch(r, now) == [r EXCEPT !.last = now]

\* The key is there and not expired.
Repeat(c, e) ==
  LET i == Entry(e)
      r == records[i]
  IN  CASE engine = "manuscripts" ->   \* move_to_end
             records' = Append(Without(records, e), r) /\ Answer(c, e, "duplicate")
        [] engine \in {"votes", "decisions"} ->
             UNCHANGED records /\ Answer(c, e, "duplicate")
        [] engine \in Sliding /\ reading[c].at >= r.first ->
             /\ records' = [records EXCEPT ![i] = Touch(r, reading[c].at)]
             /\ Answer(c, e, "duplicate")
        [] OTHER ->   \* EventRecord refuses: last_access_at before first_seen_at
             UNCHANGED records /\ Answer(c, e, "error")

\* FAULT: a new record starts when its window ends.
NewAtEnd(e, now) == [key |-> e, first |-> now + TTL, last |-> now + TTL]

NewRecord(e, now) == [key |-> e, first |-> now, last |-> now]

\* Room is made before the record is entered, or, for manuscripts, after.
Accept(c, e, recs) ==
  /\ records' = Append(SelectSeq(recs, LAMBDA r : r.key \notin Evicted(recs)),
                       NewRecord(e, reading[c].at))
  /\ born' = [k \in Events |-> IF k = e THEN reading[c]
                               ELSE IF k \in Evicted(recs) THEN None ELSE born[k]]
  /\ overtaken' = (overtaken \ {c}) \cup {d \in Clients :
                      reading[d] # None /\ reading[d].at < reading[c].at}
  /\ Answer(c, e, "new")

\* Under the lock.  The first two engines drop only the record that is asked for,
\* the others sweep all that has expired by the reading.
Check(c, e) ==
  /\ reading[c] # None
  /\ LET recs == IF engine \in Sliding
                   THEN SelectSeq(records, LAMBDA r : r.key # e \/ ~Expired(r, reading[c].at))
                   ELSE Live(records, reading[c].at)
     IN  IF e \in Keys(recs)
           THEN Repeat(c, e) /\ overtaken' = overtaken \ {c} /\ UNCHANGED born
           ELSE Accept(c, e, recs)
  /\ UNCHANGED <<clock, stepped>>

CheckEvent      == engine = "events"      /\ \E c \in Clients, e \in Events : Check(c, e)
CheckOrder      == engine = "orders"      /\ \E c \in Clients, e \in Events : Check(c, e)
CheckManuscript == engine = "manuscripts" /\ \E c \in Clients, e \in Events : Check(c, e)
CheckVote       == engine = "votes"       /\ \E c \in Clients, e \in Events : Check(c, e)
CheckDecision   == engine = "decisions"   /\ \E c \in Clients, e \in Events : Check(c, e)

ForceExpire(e) ==
  /\ e \in Keys(records)
  /\ records' = Without(records, e)
  /\ born' = [born EXCEPT ![e] = None]
  /\ UNCHANGED <<clock, stepped, reading, overtaken, answer>>

ForceExpireEvent == engine = "events" /\ \E e \in Events : ForceExpire(e)
ForceExpireOrder == engine = "orders" /\ \E e \in Events : ForceExpire(e)

\* cleanup_expired: the reading may be old by the time the lock is there.
Cleanup(c) ==
  /\ reading[c] # None
  /\ records' = Live(records, reading[c].at)
  /\ reading' = [reading EXCEPT ![c] = None] /\ overtaken' = overtaken \ {c}
  /\ UNCHANGED <<clock, stepped, born, answer>>

CleanupEvents == engine = "events" /\ \E c \in Clients : Cleanup(c)
CleanupOrders == engine = "orders" /\ \E c \in Clients : Cleanup(c)

\* active_count, active_keys_count: the clock is read under the lock.
ActiveCount ==
  /\ engine \in {"manuscripts", "votes", "decisions"}
  /\ Live(records, clock) # records
  /\ records' = Live(records, clock)
  /\ UNCHANGED <<clock, stepped, reading, overtaken, born, answer>>

ClockTick ==
  /\ clock < MaxTime
  /\ clock' = clock + 1
  /\ UNCHANGED <<stepped, reading, overtaken, records, born, answer>>

\* time.time() may step back, time.monotonic() does not.
SetBack ==
  /\ engine \in OnWallClock
  /\ clock > 0 /\ stepped < MaxStep
  /\ clock' = clock - 1 /\ stepped' = stepped + 1
  /\ UNCHANGED <<reading, overtaken, records, born, answer>>

Next ==
  /\ engine \in Engines
  /\ \/ CheckEvent \/ CheckOrder \/ CheckManuscript \/ CheckVote \/ CheckDecision
     \/ ForceExpireEvent \/ ForceExpireOrder
     \/ CleanupEvents \/ CleanupOrders \/ ActiveCount
     \/ ClockTick \/ SetBack \/ \E c \in Clients : ReadClock(c)

-----------------------------------------------------------------------------
(* Properties *)

\* The window of an accepted event starts with its acceptance and is never moved:
\* the event is not accepted again before the window is over, less what the clock was
\* set back (by a reading from before that, its window seems to be over), and is not
\* refused by a reading from after it, whatever the order in which checks read the clock
\* and take the lock.  (A check with an older reading may accept it once it was swept.)
WindowFixed ==
  LET end == IF engine \in {"votes", "decisions"} THEN TTL + 1 ELSE TTL
  IN  /\ answer.kind = "duplicate" => answer.gap # None
      /\ answer.kind = "duplicate" => answer.gap < end
      /\ answer.kind = "new" /\ answer.gap # None => answer.gap >= end - stepped
      /\ Len(records) <= MaxActive

\* A check fails only when another one with a later reading has overtaken it, or when
\* the clock was set back since the event was accepted: a single caller is then enough.
FailsOnlyOvertaken == answer.kind = "error" => answer.late \/ answer.setBack
=============================================================================
