------------------------------ MODULE Failover ------------------------------
(***************************************************************************)
(* Routers that turn to another target when the first one fails.           *)
(*   nodes       FailoverRouter                                            *)
(*   strategies  KPMTradingFailover                                        *)
(*   otas        HeyLouOTAPricingFailover                                  *)
(*   brokers     KPMFailoverRouter: the best broker by status and priority *)
(*   adapters    FailoverOrchestrator, MultiAdapterRouter and a circuit    *)
(*               breaker per adapter (AdapterHealthMonitor)                *)
(* The first three hold a lock in every operation.  The adapters have no   *)
(* lock; the methods of the monitor are short, and callers meet between    *)
(* them, while their hooks run.                                            *)
(***************************************************************************)
EXTENDS Integers, FiniteSets, Sequences, Functions

CONSTANTS
  Primary,    \* primary_node_id and its like
  Standbys,   \* the standbys, in order
  Threshold,  \* health_threshold, threshold_open_after_n_fails
  Interval,   \* half_open_interval, in ticks
  Callers,    \* threads that call an adapter
  MaxPriority,\* bound: priorities of brokers
  None

VARIABLES
  engine,
  fails,      \* _fail_counts, _loss_counts, consecutive_fails
  state,      \* FailoverState: "primary", "failed_over", "recovering"
  active,     \* _active_node, _active_strategy, _active_ota
  cause,      \* history: the primary was DOWN when a standby was taken
  grade,      \* BrokerStatus of each broker
  brokers,    \* _brokers: priority and sequence of each, None if not registered
  routed,     \* chosen_broker_id of the last order
  circuit,    \* circuit_state of each adapter: "closed", "open", "half_open"
  age,        \* time since last_state_change_ts
  tally,      \* history: failures of an adapter since its circuit was last closed
  call        \* per caller: candidates left, and whether the first one's hook runs

pairVars    == <<state, active, cause>>
brokerVars  == <<grade, brokers, routed>>
circuitVars == <<circuit, age, tally, call>>
vars        == <<fails, pairVars, brokerVars, circuitVars>>

Pairs   == {"nodes", "strategies", "otas"}
Engines == Pairs \cup {"brokers", "adapters"}
Targets == <<Primary>> \o Standbys
Nodes   == Range(Targets)

Start ==
  /\ fails = [n \in Nodes |-> 0]
  /\ state = "primary" /\ active = Primary /\ cause = FALSE
  /\ grade = [n \in Nodes |-> "healthy"] /\ brokers = [n \in Nodes |-> None] /\ routed = None
  /\ circuit = [n \in Nodes |-> "closed"] /\ age = [n \in Nodes |-> 0] /\ tally = [n \in Nodes |-> 0]
  /\ call = [c \in Callers |-> [left |-> <<>>, running |-> FALSE]]

-----------------------------------------------------------------------------
(* FailoverRouter and its two relatives *)

\* FAULT: a node that fails is DOWN at once.
DownAtOnce(n) == IF fails[n] = 0 THEN "healthy" ELSE "down"

\* NodeStatus follows from the count: record_health sets both.
Status(n) ==
  CASE fails[n] = 0                          -> "healthy"
    [] fails[n] > 0 /\ fails[n] < Threshold  -> "degraded"
    [] fails[n] >= Threshold                 -> "down"

Saturated(k) == IF k > Threshold THEN Threshold ELSE k

RecordHealth(n, healthy) ==
  /\ engine \in Pairs
  /\ fails' = [fails EXCEPT ![n] = IF healthy THEN 0 ELSE Saturated(@ + 1)]
  /\ UNCHANGED <<pairVars, brokerVars, circuitVars>>

\* record_trade_outcome, record_booking_outcome.
RecordTradeOutcome(s, profitable)   == engine = "strategies" /\ RecordHealth(s, profitable)
RecordBookingOutcome(o, successful) == engine = "otas" /\ RecordHealth(o, successful)
RecordNodeHealth(n, healthy)        == engine = "nodes" /\ RecordHealth(n, healthy)

HealthyStandbys == {i \in DOMAIN Standbys : Status(Standbys[i]) = "healthy"}
FirstHealthy    == Standbys[CHOOSE i \in HealthyStandbys : \A j \in HealthyStandbys : i <= j]

\* The primary is DOWN: the first healthy standby, or else the primary after all.
RouteAround ==
  IF HealthyStandbys # {}
    THEN active' = FirstHealthy /\ state' = "failed_over" /\ cause' = (fails[Primary] >= Threshold)
    ELSE UNCHANGED pairVars

\* The primary is not DOWN.  The first route after its recovery stays with the
\* standby, the next one turns to the primary and leaves the state as it is.
RouteBack ==
  IF state = "failed_over" /\ Status(Primary) = "healthy"
    THEN state' = "recovering" /\ UNCHANGED <<active, cause>>
    ELSE active' = Primary /\ UNCHANGED <<state, cause>>

Route ==
  /\ engine \in Pairs
  /\ IF Status(Primary) = "down" THEN RouteAround ELSE RouteBack
  /\ UNCHANGED <<fails, brokerVars, circuitVars>>

PromoteToPrimary ==
  /\ engine \in Pairs /\ Status(Primary) = "healthy"
  /\ state' = "primary" /\ active' = Primary /\ cause' = FALSE
  /\ UNCHANGED <<fails, brokerVars, circuitVars>>

RouteNode        == engine = "nodes" /\ Route
RouteStrategy    == engine = "strategies" /\ Route
RouteOta         == engine = "otas" /\ Route
PromoteNode      == engine = "nodes" /\ PromoteToPrimary
PromoteStrategy  == engine = "strategies" /\ PromoteToPrimary
PromoteOta       == engine = "otas" /\ PromoteToPrimary

-----------------------------------------------------------------------------
(* KPMFailoverRouter *)

Registered == {n \in Nodes : brokers[n] # None}

\* A broker that is registered again keeps its sequence and its health.
RegisterBroker(n, p) ==
  /\ engine = "brokers"
  /\ brokers' = [brokers EXCEPT ![n] =
       [priority |-> p, sequence |-> IF n \in Registered THEN brokers[n].sequence ELSE Cardinality(Registered)]]
  /\ routed' = None
  /\ UNCHANGED <<fails, pairVars, grade, circuitVars>>

BrokerHealth(n, g) ==
  /\ engine = "brokers" /\ n \in Registered
  /\ grade' = [grade EXCEPT ![n] = g]
  /\ routed' = None
  /\ UNCHANGED <<fails, pairVars, brokers, circuitVars>>

Before(m, n) ==
  \/ brokers[m].priority < brokers[n].priority
  \/ brokers[m].priority = brokers[n].priority /\ brokers[m].sequence <= brokers[n].sequence

\* FAULT: priority alone decides among those that have not failed.
AnyAlive == {n \in Registered : grade[n] # "failed"}

\* The healthy ones, or, if there are none, those that have not failed.
Ranked ==
  LET healthy == {n \in Registered : grade[n] = "healthy"}
  IN  IF healthy # {} THEN healthy ELSE {n \in Registered : grade[n] # "failed"}

\* Without candidates route_order raises.
RouteOrder ==
  /\ engine = "brokers"
  /\ routed' = IF Ranked = {} THEN None ELSE CHOOSE n \in Ranked : \A m \in Ranked : Before(n, m)
  /\ UNCHANGED <<fails, pairVars, grade, brokers, circuitVars>>

-----------------------------------------------------------------------------
(* MultiAdapterRouter and AdapterHealthMonitor *)

CallAdapters(c) ==
  /\ engine = "adapters" /\ call[c].left = <<>>
  /\ call' = [call EXCEPT ![c] = [left |-> Targets, running |-> FALSE]]
  /\ UNCHANGED <<fails, pairVars, brokerVars, circuit, age, tally>>

\* is_available: an open circuit becomes half open after the interval.  In that
\* state every caller is let through, not one.
Available(n) == circuit[n] # "open" \/ age[n] >= Interval

AskMonitor(c) ==
  /\ engine = "adapters" /\ call[c].left # <<>> /\ ~call[c].running
  /\ LET n == Head(call[c].left)
     IN  IF Available(n)
           THEN /\ circuit' = [circuit EXCEPT ![n] = IF @ = "open" THEN "half_open" ELSE @]
                /\ age' = [age EXCEPT ![n] = IF circuit[n] = "open" THEN 0 ELSE @]
                /\ call' = [call EXCEPT ![c].running = TRUE]
           ELSE call' = [call EXCEPT ![c].left = Tail(@)] /\ UNCHANGED <<circuit, age>>
  /\ UNCHANGED <<fails, pairVars, brokerVars, tally>>

\* record_success: it closes a half open circuit, and leaves an open one open, with
\* a count of failures that starts anew.
RecordSuccess(c) ==
  /\ engine = "adapters" /\ call[c].running
  /\ LET n == Head(call[c].left)
         closes == circuit[n] = "half_open"
     IN  /\ fails' = [fails EXCEPT ![n] = 0]
         /\ circuit' = [circuit EXCEPT ![n] = IF closes THEN "closed" ELSE @]
         /\ tally' = [tally EXCEPT ![n] = IF closes THEN 0 ELSE @]
         /\ age' = [age EXCEPT ![n] = IF closes THEN 0 ELSE @]
  /\ call' = [call EXCEPT ![c] = [left |-> <<>>, running |-> FALSE]]
  /\ UNCHANGED <<pairVars, brokerVars>>

\* FAULT: the circuit opens one failure too early.
OpensEarly(n) == circuit[n] # "open" /\ fails[n] + 2 >= Threshold

Opens(n) == circuit[n] # "open" /\ fails[n] + 1 >= Threshold

\* record_failure, and on to the next candidate.
RecordFailure(c) ==
  /\ engine = "adapters" /\ call[c].running
  /\ LET n == Head(call[c].left)
     IN  /\ fails' = [fails EXCEPT ![n] = Saturated(@ + 1)]
         /\ tally' = [tally EXCEPT ![n] = Saturated(@ + 1)]
         /\ circuit' = [circuit EXCEPT ![n] = IF Opens(n) THEN "open" ELSE @]
         /\ age' = [age EXCEPT ![n] = IF Opens(n) THEN 0 ELSE @]
  /\ call' = [call EXCEPT ![c] = [left |-> Tail(@.left), running |-> FALSE]]
  /\ UNCHANGED <<pairVars, brokerVars>>

ForceClose(n) ==
  /\ engine = "adapters"
  /\ fails' = [fails EXCEPT ![n] = 0] /\ tally' = [tally EXCEPT ![n] = 0]
  /\ circuit' = [circuit EXCEPT ![n] = "closed"] /\ age' = [age EXCEPT ![n] = 0]
  /\ UNCHANGED <<pairVars, brokerVars, call>>

CircuitTick ==
  /\ engine = "adapters"
  /\ age' = [n \in Nodes |-> IF circuit[n] = "open" /\ age[n] < Interval THEN age[n] + 1 ELSE age[n]]
  /\ UNCHANGED <<fails, pairVars, brokerVars, circuit, tally, call>>

Next ==
  \/ RouteNode \/ RouteStrategy \/ RouteOta \/ PromoteNode \/ PromoteStrategy \/ PromoteOta
  \/ \E n \in Nodes :
       \/ \E ok \in BOOLEAN : \/ RecordNodeHealth(n, ok) \/ RecordTradeOutcome(n, ok)
                              \/ RecordBookingOutcome(n, ok)
       \/ \E p \in 1..MaxPriority : RegisterBroker(n, p)
       \/ \E g \in {"healthy", "degraded", "failed"} : BrokerHealth(n, g)
       \/ ForceClose(n)
  \/ RouteOrder \/ CircuitTick
  \/ \E c \in Callers : CallAdapters(c) \/ AskMonitor(c) \/ RecordSuccess(c) \/ RecordFailure(c)

-----------------------------------------------------------------------------
(* Properties *)

\* A standby is active only because the primary was DOWN when it was taken, and no
\* order goes to a broker while a better one, or one as good and earlier in line, is
\* known.
FailoverForCause ==
  /\ engine \in Pairs /\ active # Primary => cause /\ state # "primary"
  /\ engine = "brokers" /\ routed # None =>
       /\ grade[routed] # "failed"
       /\ grade[routed] = "degraded" => \A n \in Registered : grade[n] # "healthy"
       /\ \A n \in Registered : grade[n] = grade[routed] => Before(routed, n)

\* A circuit leaves "closed" only after a whole threshold of failures, however the
\* calls of several threads overlap, and a success closes it only from half open.
CircuitForCause ==
  engine = "adapters" => \A n \in Nodes : circuit[n] # "closed" => tally[n] >= Threshold

\* What the routers say of themselves: after a failover only promote_to_primary
\* brings the primary back.
NoAutoRecovery == engine \in Pairs /\ state # "primary" => active # Primary
=============================================================================
