----------------------------- MODULE CausalLog -----------------------------
(***************************************************************************)
(* CausalEventLog: one log per node, a vector clock with a lock of its own *)
(* beside it.  An append takes the clock, then an id, then a place in the  *)
(* log, each under a lock that is given back in between: threads of one    *)
(* node overtake each other.  Remote events arrive in any order, late or   *)
(* twice; the transport is the caller's.                                   *)
(***************************************************************************)
EXTENDS Integers, FiniteSets, Sequences, Functions

CONSTANTS
  Nodes,
  Threads,    \* threads that append
  NodeOf,     \* the node whose log a thread writes
  None,
  MaxEvents   \* bound: clock readings in all

VARIABLES
  engine,
  clock,    \* _clock of each node
  pending,  \* the event of a thread between its clock reading and its append, or None
  counter,  \* _counter of each node
  log,      \* _events of each node
  known,    \* history: the clock readings a node has seen, by their number
  readings  \* history: clock readings so far

vars == <<clock, pending, counter, log, known, readings>>

Engines == {"causal"}

Start ==
  /\ clock = [n \in Nodes |-> [m \in Nodes |-> 0]]
  /\ pending = [t \in Threads |-> None]
  /\ counter = [n \in Nodes |-> 0]
  /\ log = [n \in Nodes |-> <<>>]
  /\ known = [n \in Nodes |-> {}]
  /\ readings = 0

\* VectorClock.tick.
Ticked(n) == [clock[n] EXCEPT ![n] = @ + 1]

\* FAULT: the remote clock replaces the local entries.
Overwrite(n, c) == [m \in Nodes |-> IF m = n THEN c[m] + 1 ELSE c[m]]

\* VectorClock.merge: the entrywise maximum, then the own entry plus one.
Merged(n, c) ==
  LET most(m) == IF c[m] > clock[n][m] THEN c[m] ELSE clock[n][m]
  IN  [m \in Nodes |-> IF m = n THEN most(m) + 1 ELSE most(m)]

\* The clock reading with which append_local and receive_remote begin.
Read(t, c, seen) ==
  LET n == NodeOf[t] IN
  /\ engine \in Engines
  /\ pending[t] = None /\ readings < MaxEvents
  /\ clock' = [clock EXCEPT ![n] = c]
  /\ readings' = readings + 1
  /\ pending' = [pending EXCEPT ![t] =
                   [key |-> readings + 1, clock |-> c, after |-> known[n] \cup seen, id |-> 0]]
  /\ known' = [known EXCEPT ![n] = @ \cup seen \cup {readings + 1}]
  /\ UNCHANGED <<counter, log>>

AppendLocal(t) == Read(t, Ticked(NodeOf[t]), {})

ReceiveRemote(t, e) == Read(t, Merged(NodeOf[t], e.clock), e.after \cup {e.key})

NextId(t) ==
  LET n == NodeOf[t] IN
  /\ engine \in Engines
  /\ pending[t] # None => pending[t].id = 0
  /\ pending[t] # None
  /\ counter' = [counter EXCEPT ![n] = @ + 1]
  /\ pending' = [pending EXCEPT ![t].id = counter[n] + 1]
  /\ UNCHANGED <<clock, log, known, readings>>

Store(t) ==
  LET n == NodeOf[t] IN
  /\ engine \in Engines
  /\ pending[t] # None => pending[t].id > 0
  /\ pending[t] # None
  /\ log' = [log EXCEPT ![n] = Append(@, pending[t])]
  /\ pending' = [pending EXCEPT ![t] = None]
  /\ UNCHANGED <<clock, counter, known, readings>>

GetEvents ==
  /\ engine \in Engines
  /\ UNCHANGED vars

Next ==
  \/ \E t \in Threads : \/ AppendLocal(t) \/ NextId(t) \/ Store(t)
                        \/ \E n \in Nodes \ {NodeOf[t]} :
                             \E e \in Range(log[n]) : ReceiveRemote(t, e)
  \/ GetEvents

-----------------------------------------------------------------------------

\* VectorClock.compare.
Compare(a, b) ==
  LET less == \E n \in Nodes : a[n] < b[n]
      more == \E n \in Nodes : a[n] > b[n]
  IN  CASE less /\ more -> "concurrent"
        [] less         -> "before"
        [] more         -> "after"
        [] OTHER        -> "equal"

\* get_causal_order: the log stably sorted by the sums of the clocks.
CausalOrder(n) ==
  LET Sum(e)  == FoldFunction(LAMBDA a, b : a + b, 0, e.clock)
      Rank(i) == Cardinality({j \in DOMAIN log[n] :
                   \/ Sum(log[n][j]) < Sum(log[n][i])
                   \/ Sum(log[n][j]) = Sum(log[n][i]) /\ j <= i})
  IN  [k \in DOMAIN log[n] |-> log[n][CHOOSE i \in DOMAIN log[n] : Rank(i) = k]]

\* The vector clocks are right about causality, whatever the order of the
\* threads and of the deliveries: compare says "before" of exactly those events
\* that happened before (on the same node or through a received clock).
ClockMatchesCausality ==
  engine \in Engines =>
    LET all == UNION {Range(log[n]) : n \in Nodes}
    IN  \A e, f \in all : e.key # f.key =>
          (Compare(e.clock, f.clock) = "before" <=> e.key \in f.after)

\* get_causal_order never lists an effect before its cause, although the log
\* itself (get_events) may: the appends overtake each other.
CausesListedFirst ==
  engine \in Engines =>
    \A n \in Nodes :
      LET order == CausalOrder(n) IN
      \A i, j \in DOMAIN order : i < j => order[j].key \notin order[i].after
=============================================================================
