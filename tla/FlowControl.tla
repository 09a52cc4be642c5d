---------------------------- MODULE FlowControl ----------------------------
(***************************************************************************)
(* Backpressure: engines that watch a rate and say what callers may do.    *)
(*   flow-orders  KPMBackpressureEngine: orders, globally and per strategy *)
(*   flow-slots   SAEv8BackpressureSlotAdmission: globally, per agent      *)
(*                class, per trinity variant                               *)
(*   pressure     BackpressureController with PressureSensor,              *)
(*                AdaptiveCapacity and QueueOverflowGuard                  *)
(*   throttle     AdaptiveThrottle                                         *)
(* evaluate only answers: a caller that obeys records its order in a second*)
(* call, after others have evaluated.  A buffer forgets by number, never   *)
(* by age.  Rates are compared as products, capacities are integers.       *)
(***************************************************************************)
EXTENDS Integers, FiniteSets, Sequences

CONSTANTS
  Callers,   \* threads that ask before they act
  Global,    \* the key of the global buffer
  KeysOf,    \* the further buffers a caller's orders go into: strategy, class, variant
  None,
  Window,    \* history_window: maxlen of a buffer
  MinSpan,   \* the shortest span a rate is taken over, in ticks
  Limit,     \* orders per tick from which the state is "blocked"
  Base,      \* base capacity, base rate
  Least,     \* min_factor * base, min_rate
  Most,      \* max_rate
  MaxDepth,  \* max_depth of the queue
  MaxItems   \* bound: items offered to the queue

VARIABLES
  engine,
  buffer,    \* the ages of the samples of each key, oldest first
  flow,      \* the FlowState of each key
  verdict,   \* what evaluate told a caller and the caller has not yet used
  blurred,   \* history: keys whose buffer has, since it was empty, lost a sample, or been
             \* old when the clock was set back
  level,     \* pressure or metric measured last: "low", "band", "high"
  capacity,  \* _current, _current_rate
  queue,     \* items of the guard
  offered,   \* items offered so far
  accepted,  \* history: items accepted, in order
  drained    \* history: items drained, in order

flows  == <<buffer, flow, verdict, blurred>>
queues == <<queue, offered, accepted, drained>>
vars   == <<flows, level, capacity, queues>>

Engines == {"flow-orders", "flow-slots", "pressure", "throttle"}

Keys == {Global} \cup UNION {KeysOf[c] : c \in Callers}

Start ==
  /\ buffer = [k \in Keys |-> <<>>]
  /\ flow = [k \in Keys |-> "open"]
  /\ verdict = [c \in Callers |-> None]
  /\ blurred = {} /\ level = "low" /\ capacity = Base
  /\ queue = <<>> /\ offered = 0 /\ accepted = <<>> /\ drained = <<>>

-----------------------------------------------------------------------------
(* KPMBackpressureEngine and SAEv8BackpressureSlotAdmission *)

\* The span of the rate: from the oldest sample in the buffer to now.
Span(k) == IF buffer[k] = <<>> \/ Head(buffer[k]) < MinSpan THEN MinSpan ELSE Head(buffer[k])

\* FAULT: the state is "blocked" above the threshold only.
BlockedAbove(k) == Len(buffer[k]) > Limit * Span(k)

\* pct >= blocked_pct; elevated and throttled flows are let through.
Blocked(k) == Len(buffer[k]) >= Limit * Span(k)

Classify(k) == IF Blocked(k) THEN "blocked" ELSE "open"

\* evaluate of one axis; registered action handlers do not change the state.
Evaluate(c, k) ==
  /\ verdict[c] = None
  /\ flow' = [flow EXCEPT ![k] = Classify(k)]
  /\ verdict' = IF Classify(k) = "open" THEN [verdict EXCEPT ![c] = k] ELSE verdict
  /\ UNCHANGED <<buffer, blurred>>

\* record_order, record_admission: into the global buffer and the caller's own.
Record(c) ==
  /\ verdict[c] # None
  /\ LET mine  == {Global} \cup KeysOf[c]
         Put(b) == Append(IF Len(b) >= Window THEN Tail(b) ELSE b, 0)
     IN  /\ buffer' = [k \in Keys |-> IF k \in mine THEN Put(buffer[k]) ELSE buffer[k]]
         /\ blurred' = blurred \cup {k \in mine : Len(buffer[k]) >= Window}
  /\ verdict' = [verdict EXCEPT ![c] = None]
  /\ UNCHANGED flow

ResetFlow ==
  /\ buffer' = [k \in Keys |-> <<>>]
  /\ flow' = [k \in Keys |-> "open"]
  /\ blurred' = {}
  /\ UNCHANGED verdict

Age ==
  /\ buffer' = [k \in Keys |-> [i \in DOMAIN buffer[k] |->
                  IF buffer[k][i] <= MinSpan THEN buffer[k][i] + 1 ELSE buffer[k][i]]]
  /\ UNCHANGED <<flow, verdict, blurred>>

\* time.time() may step back, behind the stamps of the samples; by at most MinSpan.
SetBack ==
  /\ \A k \in Keys : \A i \in DOMAIN buffer[k] : buffer[k][i] > -MinSpan
  /\ buffer' = [k \in Keys |-> [i \in DOMAIN buffer[k] |-> buffer[k][i] - 1]]
  /\ blurred' = blurred \cup {k \in Keys : Span(k) > MinSpan}
  /\ UNCHANGED <<flow, verdict>>

\* Callers ask for the axis they are to keep within.
OrderFlow ==
  /\ engine = "flow-orders"
  /\ (\E c \in Callers : Evaluate(c, Global) \/ Record(c)) \/ ResetFlow
     \/ Age \/ SetBack
  /\ UNCHANGED <<level, capacity, queues>>

\* The slot engine evaluates each of its three axes and counts on all of them.
EvaluateSlot(c)    == \E k \in {Global} \cup KeysOf[c] : Evaluate(c, k)
RecordAdmission(c) == Record(c)
ResetSlots         == ResetFlow

SlotFlow ==
  /\ engine = "flow-slots"
  /\ (\E c \in Callers : EvaluateSlot(c) \/ RecordAdmission(c)) \/ ResetSlots
     \/ Age \/ SetBack
  /\ UNCHANGED <<level, capacity, queues>>

-----------------------------------------------------------------------------
(* BackpressureController and AdaptiveThrottle *)

Measure(l) == level' = l /\ UNCHANGED <<flows, capacity, queues>>

AtLeast(n, m) == IF n < m THEN m ELSE n
AtMost(n, m)  == IF n > m THEN m ELSE n

\* FAULT: the step down is not stopped at the minimum.
HalveFreely(n) == n \div 2

\* adjust above threshold_high, the decrease of the throttle.
Decrease(n) == AtLeast(n \div 2, Least)

\* adjust below threshold_low: a part of the way back to the base.
Recover(n) == AtMost(n + (Base - n + 1) \div 2, Base)

TickController ==
  /\ engine = "pressure"
  /\ capacity' = CASE level = "high" -> Decrease(capacity)
                   [] level = "low"  -> Recover(capacity)
                   [] level = "band" -> capacity
  /\ UNCHANGED <<flows, level, queues>>

AdjustThrottle ==
  /\ engine = "throttle"
  /\ capacity' = CASE level = "high" -> Decrease(capacity)
                   [] level = "low"  -> AtMost(capacity * 2, Most)
                   [] level = "band" -> capacity
  /\ UNCHANGED <<flows, level, queues>>

ResetThrottle ==
  /\ engine = "throttle"
  /\ capacity' = Base /\ level' = "band"
  /\ UNCHANGED <<flows, queues>>

Sense == engine \in {"pressure", "throttle"} /\ \E l \in {"low", "band", "high"} : Measure(l)

\* try_enqueue and drain_one.
TryEnqueue ==
  /\ engine = "pressure" /\ offered < MaxItems
  /\ offered' = offered + 1
  /\ IF Len(queue) >= MaxDepth THEN UNCHANGED <<queue, accepted>>
     ELSE queue' = Append(queue, offered + 1) /\ accepted' = Append(accepted, offered + 1)
  /\ UNCHANGED <<flows, level, capacity, drained>>

DrainOne ==
  /\ engine = "pressure" /\ queue # <<>>
  /\ queue' = Tail(queue)
  /\ drained' = Append(drained, Head(queue))
  /\ UNCHANGED <<flows, level, capacity, offered, accepted>>

Next ==
  \/ OrderFlow \/ SlotFlow \/ Sense \/ TickController
  \/ AdjustThrottle \/ ResetThrottle \/ TryEnqueue \/ DrainOne

-----------------------------------------------------------------------------
(* Properties *)

\* As long as the buffer has not been older than the shortest span and has lost nothing,
\* callers that obey the global verdict exceed the limit by at most one order each,
\* also over steps back of the clock: evaluate and record are two calls.  (With an old
\* sample in the buffer the average hides a burst, and nothing bounds it.)
OvershootBounded ==
  engine = "flow-orders" =>
    (Span(Global) = MinSpan /\ Global \notin blurred =>
       Len(buffer[Global]) <= Limit * MinSpan + Cardinality(Callers) - 1)

\* Capacities and rates stay in their band, and the guarded queue is a bounded
\* FIFO that loses nothing it has accepted.  (The throttle does not compare its
\* minimum with the base and the maximum: the band is as wide as they make it.)
WithinBand ==
  /\ AtMost(Least, Base) <= capacity /\ capacity <= AtLeast(Most, Least)
  /\ engine = "pressure" => capacity <= AtLeast(Base, Least)
  /\ Len(queue) <= MaxDepth /\ accepted = drained \o queue
=============================================================================
