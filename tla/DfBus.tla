------------------------------- MODULE DfBus -------------------------------
(***************************************************************************)
(* df_bus_orchestrator: a bus with a queue per Dark Factory (DF), a routing*)
(* table with heartbeats, a pool of circuit breakers and a voter.          *)
(*   df-dispatch  DFOrchestrator over DFMessageBus, DFRoutingTable and     *)
(*                DFCircuitBreakerPool, each with a lock of its own: a     *)
(*                dispatch looks at them one after the other               *)
(*   df-vote      DFConsensusVoter                                         *)
(* The breakers trip and recover by calls that are not the orchestrator's  *)
(* (module ApaleoAdapter models them).  Callback errors are swallowed.     *)
(***************************************************************************)
EXTENDS Integers, FiniteSets

CONSTANTS
  Dfs,        \* Dark Factories
  Capable,    \* those with the capability that a targeted dispatch asks for
  Senders,    \* threads that dispatch
  None,
  Life,       \* heartbeat timeout, in ticks
  TTL,        \* ttl_s of a message, in ticks
  MaxSent,    \* bound: messages
  Half,       \* [num, den]: the threshold of the vote
  VoteTime    \* timeout_after_s, in ticks

VARIABLES
  engine,
  beat,      \* ticks since the last heartbeat of a registered DF, or None
  subs,      \* DFs with a subscription
  open,      \* DFs whose breaker is open
  queue,     \* _pending: <<df, message, age>>
  sent,      \* messages made so far
  task,      \* the dispatch a sender is in: [msg, to, failed, todo] or None
  heard,     \* history: <<df, message>> for which a callback ran
  shunned,   \* history: <<df, message>> with the breaker open all through the dispatch
  ballot,    \* votes: TRUE, FALSE or None
  age,       \* ticks since request_vote
  answered   \* history: answers of is_consensus_reached so far

dispatch == <<beat, subs, open, queue, sent, task, heard, shunned>>
vote     == <<ballot, age, answered>>
vars     == <<dispatch, vote>>

Engines == {"df-dispatch", "df-vote"}

Start ==
  /\ beat = [d \in Dfs |-> None] /\ subs = {} /\ open = {} /\ queue = {} /\ sent = 0
  /\ task = [s \in Senders |-> None]
  /\ heard = {} /\ shunned = {}
  /\ ballot = [d \in Dfs |-> None] /\ age = 0 /\ answered = {}

-----------------------------------------------------------------------------
(* Routing, breakers, subscriptions *)

Registered == {d \in Dfs : beat[d] # None}

RegisterDf(d) ==
  /\ beat' = [beat EXCEPT ![d] = 0]
  /\ subs' = subs \cup {d}
  /\ UNCHANGED <<open, queue, sent, task, heard, shunned>>

Heartbeat(d) ==
  /\ d \in Registered
  /\ beat' = [beat EXCEPT ![d] = 0]
  /\ UNCHANGED <<subs, open, queue, sent, task, heard, shunned>>

Unsubscribe(d) ==
  /\ d \in subs
  /\ subs' = subs \ {d}
  /\ UNCHANGED <<beat, open, queue, sent, task, heard, shunned>>

\* A breaker of the pool trips, or recovers or is reset.
BreakerTrips(d) ==
  /\ open' = open \cup {d}
  /\ UNCHANGED <<beat, subs, queue, sent, task, heard, shunned>>

BreakerCloses(d) ==
  /\ open' = open \ {d}
  /\ shunned' = {p \in shunned : p[1] # d \/ \A s \in Senders : task[s] = None \/ p[2] # task[s].msg}
  /\ UNCHANGED <<beat, subs, queue, sent, task, heard>>

IsAlive(d) == beat[d] # None /\ (beat[d] # None => beat[d] <= Life)

-----------------------------------------------------------------------------
(* dispatch *)

\* make_df_message, then the candidates.
Dispatch(s, to) ==
  /\ task[s] = None /\ sent < MaxSent
  /\ sent' = sent + 1
  /\ task' = [task EXCEPT ![s] = [msg |-> sent + 1, to |-> to, failed |-> None,
       todo |-> IF to = "one" THEN Registered \cap Capable ELSE Registered]]
  /\ shunned' = shunned \cup {<<d, sent + 1>> : d \in open}
  /\ UNCHANGED <<beat, subs, open, queue, heard>>

\* FAULT: the breakers are not asked.
NoneFailed == {}

\* get_failed_dfs: the open breakers only; a half-open one counts as healthy.
FailedDfs == open

\* The candidates that are alive and not failed; a dead one is left out for good.
Select(s) ==
  /\ task[s] # None => task[s].failed = None
  /\ task[s] # None
  /\ task' = [task EXCEPT ![s] = [@ EXCEPT !.failed = FailedDfs,
                 !.todo = {d \in task[s].todo : IsAlive(d) /\ d \notin FailedDfs}]]
  /\ UNCHANGED <<beat, subs, open, queue, sent, heard, shunned>>

\* publish to one target: its queue and its callbacks, under the lock of the bus.
Deliver(s, d) ==
  /\ task[s] # None => task[s].failed # None /\ d \in task[s].todo
  /\ task[s] # None
  /\ queue' = queue \cup {<<d, task[s].msg, 0>>}
  /\ heard' = IF d \in subs THEN heard \cup {<<d, task[s].msg>>} ELSE heard
  /\ task' = [task EXCEPT ![s].todo = IF task[s].to = "one" THEN {} ELSE @ \ {d}]
  /\ UNCHANGED <<beat, subs, open, sent, shunned>>

Delivered(s) ==
  /\ task[s] # None => task[s].failed # None /\ task[s].todo = {}
  /\ task[s] # None
  /\ task' = [task EXCEPT ![s] = None]
  /\ UNCHANGED <<beat, subs, open, queue, sent, heard, shunned>>

\* get_pending only looks: a message stays until it has expired and is pruned.
PruneExpired ==
  /\ queue' = {m \in queue : m[3] <= TTL}
  /\ UNCHANGED <<beat, subs, open, sent, task, heard, shunned>>

DispatchTick ==
  /\ beat' = [d \in Dfs |-> IF beat[d] = None THEN None
                            ELSE IF beat[d] > Life THEN beat[d] ELSE beat[d] + 1]
  /\ queue' = {<<m[1], m[2], IF m[3] > TTL THEN m[3] ELSE m[3] + 1>> : m \in queue}
  /\ UNCHANGED <<subs, open, sent, task, heard, shunned>>

Dispatching ==
  /\ engine = "df-dispatch"
  /\ \/ \E d \in Dfs : RegisterDf(d) \/ Heartbeat(d) \/ Unsubscribe(d) \/ BreakerTrips(d) \/ BreakerCloses(d)
     \/ \E s \in Senders : \/ \E to \in {"one", "all"} : Dispatch(s, to)
                           \/ Select(s) \/ Delivered(s)
                           \/ \E d \in Dfs : Deliver(s, d)
     \/ PruneExpired \/ DispatchTick
  /\ UNCHANGED vote

-----------------------------------------------------------------------------
(* DFConsensusVoter, after request_vote *)

RecordVote(d, v) ==
  /\ ballot[d] = None
  /\ ballot' = [ballot EXCEPT ![d] = v]
  /\ UNCHANGED <<age, answered>>

Count(v) == Cardinality({d \in Dfs : ballot[d] # None /\ (ballot[d] # None => ballot[d] = v)})

\* FAULT: the threshold is taken of the votes received.
NeedOfReceived == ((Count(TRUE) + Count(FALSE)) * Half.num + Half.den - 1) \div Half.den

\* threshold * total, rounded up, at least one.
NeedYes ==
  LET need == (Cardinality(Dfs) * Half.num + Half.den - 1) \div Half.den
  IN  IF need < 1 THEN 1 ELSE need

\* The answer of is_consensus_reached; None is "not decided yet".
Answer ==
  LET open_ == Cardinality(Dfs) - Count(TRUE) - Count(FALSE)
  IN  CASE Count(TRUE) >= NeedYes -> "yes"
        [] Count(TRUE) < NeedYes /\ Count(TRUE) + open_ < NeedYes -> "no"
        [] Count(TRUE) < NeedYes /\ Count(TRUE) + open_ >= NeedYes ->
             IF age > VoteTime THEN "late" ELSE "undecided"

IsConsensusReached ==
  /\ answered' = answered \cup {Answer}
  /\ UNCHANGED <<ballot, age>>

VoteTick == age <= VoteTime /\ age' = age + 1 /\ UNCHANGED <<ballot, answered>>

Voting ==
  /\ engine = "df-vote"
  /\ (\E d \in Dfs, v \in BOOLEAN : RecordVote(d, v)) \/ IsConsensusReached \/ VoteTick
  /\ UNCHANGED dispatch

Next == Dispatching \/ Voting

-----------------------------------------------------------------------------
(* Properties *)

\* No message goes to a DF whose breaker was open from the beginning of the
\* dispatch to its end, and a targeted one reaches at most one DF, with a
\* capability for it, although tables and breakers change between the steps.
RoutedToHealthy ==
  /\ \A m \in queue : <<m[1], m[2]>> \notin shunned
  /\ \A p \in heard : p \notin shunned
  /\ \A s \in Senders : task[s] # None =>
       (task[s].to = "one" =>
          \A m, n \in queue : m[2] = task[s].msg /\ n[2] = task[s].msg => m[1] = n[1] /\ m[1] \in Capable)

\* A yes of is_consensus_reached is final, and so is a no that the votes compel;
\* a no for lack of time is not: votes are still taken and may turn it.
ConsensusFinal ==
  engine = "df-vote" =>
    /\ "yes" \in answered => Answer = "yes"
    /\ "no" \in answered => Answer = "no"
=============================================================================
