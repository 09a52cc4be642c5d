---------------------------- MODULE Homeostasis ----------------------------
(***************************************************************************)
(* Controllers that hold a rolling average near a setpoint.                *)
(*   metric      HomeostasisController                                     *)
(*   slots       SAEv8HomeostasisGovernance: promotes and relegates        *)
(*   allocation  KPMHomeostasisController: of one asset class              *)
(*   family      CapeFamilienHomeostasis: critical goes to the audit bus   *)
(*   velocity    NineDotsPMOHomeostasis, per team                          *)
(*   df-health   DFHealthMonitorHomeostasis, per dark factory              *)
(*   royalty     GraphityHomeostasisPricing, per book                      *)
(* One bounded deque serves all subjects of the first four, each subject   *)
(* has its own in the others.  A lock is held in every operation; what an  *)
(* alarm publishes is published after the lock.  Averages and percentages  *)
(* are compared as products of integers.                                   *)
(***************************************************************************)
EXTENDS Integers, FiniteSets, Sequences, Functions

CONSTANTS
  Subjects,  \* slots, asset classes, teams, dark factories, books
  Setpoints, \* setpoints a controller is built with
  Values,    \* values of a sample
  Window,    \* history_window
  Half,      \* degraded_threshold_pct, mild_tolerance; half of Mild for the others
  Mild,      \* mild_threshold_pct, unhealthy_threshold_pct
  Critical,  \* critical_threshold_pct
  None

VARIABLES
  engine,
  setpoint,  \* _setpoint
  samples,   \* the deques, as one sequence in the order of arrival
  custom,    \* _actions: states with a registered action
  decision,  \* the decision of the last operation, and the values it was drawn from
  unsent     \* a critical decision is still to be published

vars == <<setpoint, samples, custom, decision, unsent>>

Engines == {"metric", "slots", "allocation", "family", "velocity", "df-health", "royalty"}
States  == {"normal", "mild", "high", "low", "critical"}

\* Only the metric and a slot's q_norm may be negative.
Legal(v) == engine \notin {"metric", "slots"} => v >= 0

Start ==
  /\ setpoint \in {v \in Setpoints : Legal(v) /\ (engine \in {"velocity", "df-health"} => v > 0)}
  /\ engine \notin Engines => setpoint = CHOOSE v \in Setpoints : v >= 0
  /\ samples = <<>> /\ custom = {} /\ decision = None /\ unsent = FALSE

-----------------------------------------------------------------------------
(* The average and its deviation *)

\* The elements of seq that pass the test, in their order.
Select(seq, Test(_)) ==
  LET at == {i \in DOMAIN seq : Test(seq[i])}
  IN  [n \in 1..Cardinality(at) |->
         seq[CHOOSE i \in at : Cardinality({j \in at : j <= i}) = n]]

Shared == engine \in {"metric", "slots", "allocation", "family"}

\* The places of the samples in the deque of s.
SameDeque(s) == {i \in DOMAIN samples : Shared \/ samples[i].subject = s}

\* deque(maxlen): the oldest sample makes room.
Recorded(x) ==
  IF Cardinality(SameDeque(x.subject)) < Window
    THEN Append(samples, x)
    ELSE LET oldest == CHOOSE i \in SameDeque(x.subject) : \A j \in SameDeque(x.subject) : i <= j
         IN  Append(SubSeq(samples, 1, oldest - 1) \o SubSeq(samples, oldest + 1, Len(samples)), x)

\* The samples a decision about s is drawn from: allocation and a slot's
\* decision filter the shared deque, metric and family average all of it.
Relevant(s, seq) ==
  Select(seq, LAMBDA x : (engine \in {"slots", "velocity", "df-health", "royalty", "allocation"} /\ s # None)
                              => x.subject = s)

\* The values the samples of seq hold.
Held(seq) == [i \in DOMAIN seq |-> seq[i].value]

Sum(seq) == SumFunction(Held(seq))

\* FAULT: the average is taken over the window although it is not yet full.
OfWindow(seq) == Window

Count(seq) == Len(seq)

\* n times the difference of the average and the setpoint.
Offset(seq) == Sum(seq) - Count(seq) * setpoint

Abs(n) == IF n < 0 THEN -n ELSE n

\* FAULT: the deviation is relative to the setpoint itself, not to its size.
Signed(n) == n

Size(n) == Abs(n)

\* What 100 % stands for, in thousandths: the setpoint's size (1 for a metric at
\* 0, at least 0.001 for the others), 100 points, or the range of q_norm.
Scale ==
  CASE engine = "metric"     -> IF setpoint = 0 THEN 1000 ELSE 1000 * Size(setpoint)
    [] engine = "slots"      -> 4000
    [] engine = "allocation" -> 100000
    [] OTHER                 -> IF setpoint = 0 THEN 1 ELSE 1000 * setpoint

\* The deviation in percent, times what Limit multiplies the threshold with.
Deviation(seq) == (IF Scale < 0 THEN -Offset(seq) ELSE Offset(seq)) * 100000
Limit(pct, seq) == pct * Count(seq) * Abs(Scale)

AtLeast(pct, seq) == Abs(Deviation(seq)) >= Limit(pct, seq)
Beyond(pct, seq)  == Abs(Deviation(seq)) > Limit(pct, seq)

-----------------------------------------------------------------------------
(* The classifications *)

Side(seq) == IF Deviation(seq) > 0 THEN "high" ELSE "low"

\* HomeostasisController, SAEv8HomeostasisGovernance, KPMHomeostasisController.
ThreeStates(seq) ==
  CASE AtLeast(Critical, seq)                         -> "critical"
    [] ~AtLeast(Critical, seq) /\ AtLeast(Mild, seq)  -> Side(seq)
    [] OTHER                                          -> "normal"

\* CapeFamilienHomeostasis, GraphityHomeostasisPricing.
WithMild(seq) == IF ThreeStates(seq) = "normal" /\ AtLeast(Half, seq) THEN "mild" ELSE ThreeStates(seq)

\* DFHealthMonitorHomeostasis: too healthy is at most degraded.
OneSided(seq) ==
  CASE Deviation(seq) < 0 /\ AtLeast(Critical, seq)                            -> "critical"
    [] Deviation(seq) < 0 /\ ~AtLeast(Critical, seq) /\ AtLeast(Mild, seq)     -> "low"
    [] (Deviation(seq) >= 0 \/ ~AtLeast(Mild, seq)) /\ AtLeast(Half, seq)      -> "mild"
    [] OTHER                                                                   -> "normal"

\* NineDotsPMOHomeostasis: the last sample's blocked points alone are critical.
WithBlocked(seq, blocked) ==
  CASE AtLeast(Critical, seq) \/ blocked                                -> "critical"
    [] ~(AtLeast(Critical, seq) \/ blocked) /\ Beyond(Mild, seq)        -> Side(seq)
    [] ~blocked /\ ~Beyond(Mild, seq) /\ Beyond(Half, seq)              -> "mild"
    [] OTHER                                                            -> "normal"

Classify(seq, blocked) ==
  CASE seq = <<>>                                                      -> "normal"
    [] seq # <<>> /\ engine \in {"metric", "slots", "allocation"}      -> ThreeStates(seq)
    [] engine \in {"family", "royalty"}                                -> WithMild(seq)
    [] engine = "df-health"                                            -> OneSided(seq)
    [] engine = "velocity"                                             -> WithBlocked(seq, blocked)

\* The corrective action: a registered one goes before the default.
ActionFor(state) ==
  CASE state \in {"normal", "mild"}                           -> "none"
    [] state \notin {"normal", "mild"} /\ state \in custom    -> "custom"
    [] state \notin {"normal", "mild"} \cup custom            -> state

Decided(seq, blocked) ==
  [from |-> Held(seq), blocked |-> blocked,
   state |-> Classify(seq, blocked), action |-> ActionFor(Classify(seq, blocked))]

-----------------------------------------------------------------------------
(* Operations *)

Record(s, v) ==
  /\ Legal(v)
  /\ samples' = Recorded([subject |-> s, value |-> v]) /\ decision' = None
  /\ UNCHANGED <<setpoint, custom, unsent>>

RecordMetric(s, v)     == engine = "metric" /\ Record(s, v)
RecordGovernance(s, v) == engine = "slots" /\ Record(s, v)
RecordAllocation(s, v) == engine = "allocation" /\ Record(s, v)

Evaluate(s) ==
  /\ decision' = Decided(Relevant(s, samples), FALSE)
  /\ UNCHANGED <<setpoint, samples, custom, unsent>>

EvaluateMetric     == engine = "metric" /\ Evaluate(None)
EvaluateSlot(s)    == engine = "slots" /\ Evaluate(s)
EvaluateAllSlots   == engine = "slots" /\ Evaluate(None)
EvaluateAllocation == engine = "allocation" /\ Evaluate(CHOOSE s \in Subjects : TRUE)

RegisterAction(state) ==
  /\ engine \in {"metric", "slots", "allocation"} /\ state \in {"high", "low", "critical"}
  /\ custom' = custom \cup {state} /\ decision' = None
  /\ UNCHANGED <<setpoint, samples, unsent>>

\* record_sample records and decides in one critical section.
RecordSample(s, v, blocked) ==
  /\ Legal(v) /\ ~unsent
  /\ samples' = Recorded([subject |-> s, value |-> v])
  /\ decision' = Decided(Relevant(s, samples'), blocked)
  /\ unsent' = (engine = "family" /\ decision'.state = "critical")
  /\ UNCHANGED <<setpoint, custom>>

RecordLoad(s, v)              == engine = "family" /\ RecordSample(s, v, FALSE)
RecordVelocity(s, v, blocked) == engine = "velocity" /\ RecordSample(s, v, blocked)
RecordHealth(s, v)            == engine = "df-health" /\ RecordSample(s, v, FALSE)
RecordRoyalty(s, v)           == engine = "royalty" /\ RecordSample(s, v, FALSE)

\* The audit bus takes the alarm or raises; either way that was it.
PublishCritical ==
  /\ unsent
  /\ unsent' = FALSE /\ decision' = None
  /\ UNCHANGED <<setpoint, samples, custom>>

Reset ==
  /\ engine \in {"metric", "slots", "allocation", "family"}
  /\ samples' = <<>> /\ decision' = None
  /\ UNCHANGED <<setpoint, custom, unsent>>

ResetTeam(s) ==
  /\ engine = "velocity"
  /\ samples' = Select(samples, LAMBDA x : x.subject # s) /\ decision' = None
  /\ UNCHANGED <<setpoint, custom, unsent>>

Next ==
  \/ \E s \in Subjects, v \in Values :
       \/ RecordMetric(s, v) \/ RecordGovernance(s, v) \/ RecordAllocation(s, v)
       \/ RecordLoad(s, v) \/ RecordHealth(s, v) \/ RecordRoyalty(s, v)
       \/ \E b \in BOOLEAN : RecordVelocity(s, v, b)
  \/ \E s \in Subjects : EvaluateSlot(s) \/ ResetTeam(s)
  \/ EvaluateMetric \/ EvaluateAllSlots \/ EvaluateAllocation
  \/ \E state \in States : RegisterAction(state)
  \/ PublishCritical \/ Reset

-----------------------------------------------------------------------------
Mean(p(_)) == decision # None => (decision.from # <<>> => p(decision))

Total(d) == SumFunction(d.from)

\* The correction points to the setpoint, whatever the setpoint's sign.
DirectionRight ==
  Mean(LAMBDA d : /\ d.state = "high" => Total(d) > Len(d.from) * setpoint
                  /\ d.state = "low"  => Total(d) < Len(d.from) * setpoint)

\* One value alone would be classified so.
Alone(v, state) == Classify(<<[subject |-> None, value |-> v]>>, FALSE) = state

\* An average alarms when every value it is drawn from would, on the same side,
\* and it does not when none would.
AlarmsSound ==
  Mean(LAMBDA d :
    LET vs == Range(d.from)
    IN  /\ (/\ \A v \in vs : Alone(v, "critical")
            /\ (\A v \in vs : v > setpoint) \/ (\A v \in vs : v < setpoint)) => d.state = "critical"
        /\ (\A v \in vs : Alone(v, "normal")) /\ ~d.blocked => d.state = "normal")
=============================================================================
