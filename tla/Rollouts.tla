------------------------------ MODULE Rollouts ------------------------------
(***************************************************************************)
(* Flags and canaries.                                                     *)
(*   flags        FeatureFlagEngine with its percentage and contextual     *)
(*                rules and the variants of an A/B test                    *)
(*   trade-flags  KPMFeatureFlagEngine, with an emergency state            *)
(*   canary       CanaryDeployment, CanaryHealthMonitor, RollbackTrigger   *)
(*                and ProgressiveRollout of one canary beside another      *)
(*   capital      KPMPreProductionCanary: promoted or rolled back by drift *)
(* A flag's rule and a trade flag's state are read under the lock and      *)
(* judged without it.  A hash of the flag and the user is a bucket 0..99.  *)
(***************************************************************************)
EXTENDS Integers, FiniteSets, Sequences

CONSTANTS
  Bucket,     \* the bucket of each user, a function whose domain is the users
  Percents,   \* percentages that are set
  Matching,   \* of each condition of a contextual rule, the users that satisfy it
  Callers,    \* threads that evaluate
  MaxAudit,   \* maxlen of an audit deque
  Schedule,   \* the percentages of the rollout's steps
  MinSamples, \* min_samples
  MaxWindow,  \* window_capacity
  Cooldown,   \* cooldown_s, in ticks
  Drifts,     \* drifts of a single run, in percent
  RollbackAt, \* rollback_threshold_pct
  PromoteAt,  \* promote_threshold_pct
  MinRuns,    \* promote_min_runs
  MaxRuns,    \* bound: runs recorded
  None

VARIABLES
  engine,
  rule,       \* _rules of the flag: None or a rule
  variants,   \* variants are registered for it
  asked,      \* per caller: the user, and the rule or the state and percentage it has read
  told,       \* history: the last call that has ended, and its answer
  state,      \* FlagState
  rollout,    \* _rollouts: percentage of the flag
  tripped,    \* history: an emergency that has not been cleared
  audit,      \* FlagAuditEvents: old and new state
  traffic,    \* _canaries: percentage of the canary and of the other one, 0 if unregistered
  step,       \* _next_step_idx
  rolledBack, \* _rolled_back
  window,     \* outcomes of the canary: "ok", "error", "slow"
  since,      \* time since _last_rollback_ts
  override,   \* _manual_overrides
  wanted,     \* history: an override was asked for and no decision has followed it
  status,     \* CanaryStatus
  sum,        \* sum and number of _performance
  runs

callVars    == <<asked, told>>
flagVars    == <<rule, variants>>
tradeVars   == <<state, rollout, tripped, audit>>
canaryVars  == <<traffic, step, rolledBack, window, since, override, wanted>>
capitalVars == <<status, sum, runs>>
vars        == <<callVars, flagVars, tradeVars, canaryVars, capitalVars>>

Engines == {"flags", "trade-flags", "canary", "capital"}
Users   == DOMAIN Bucket

Start ==
  /\ asked = [c \in Callers |-> None] /\ told = None
  /\ rule = None /\ variants = FALSE
  /\ state = "disabled" /\ rollout = 0 /\ tripped = FALSE /\ audit = <<>>
  /\ traffic = [canary |-> 0, other |-> 0] /\ step = 0 /\ rolledBack = FALSE
  /\ window = <<>> /\ since = Cooldown /\ override = FALSE /\ wanted = FALSE
  /\ status = "active" /\ sum = 0 /\ runs = 0

-----------------------------------------------------------------------------
(* FeatureFlagEngine *)

Rules == [kind : {"boolean"}, on : BOOLEAN] \cup [kind : {"percentage"}, pct : Percents]
           \cup [kind : {"contextual"}, mode : {"all", "any"}]

\* FAULT: the bucket that equals the percentage is let in.
Reaches(u, pct) == Bucket[u] <= pct

Within(u, pct) == Bucket[u] < pct

Holds(mode, u) == IF mode = "all" THEN \A m \in Matching : u \in m ELSE \E m \in Matching : u \in m

\* _evaluate_rule_bool; a flag without a rule is off.
Enabled(r, u) ==
  /\ r # None
  /\ CASE r.kind = "boolean"    -> r.on
       [] r.kind = "percentage" -> Within(u, r.pct)
       [] r.kind = "contextual" -> Holds(r.mode, u)

SetRule(r) ==   \* register_flag, update_rule, unregister_flag
  /\ engine = "flags"
  /\ rule' = r
  /\ UNCHANGED <<callVars, variants, tradeVars, canaryVars, capitalVars>>

RegisterVariants ==
  /\ engine = "flags"
  /\ variants' = TRUE
  /\ UNCHANGED <<callVars, rule, tradeVars, canaryVars, capitalVars>>

ReadRule(c, u) ==
  /\ engine = "flags" /\ asked[c] = None
  /\ asked' = [asked EXCEPT ![c] = [user |-> u, rule |-> rule]]
  /\ UNCHANGED <<told, flagVars, tradeVars, canaryVars, capitalVars>>

\* is_enabled goes by the rule as it was read; get_value looks for the variants
\* now, and answers None, the user's variant or True.
Value(c) ==
  CASE ~Enabled(asked[c].rule, asked[c].user) -> "off"
    [] variants /\ Enabled(asked[c].rule, asked[c].user) -> "variant"
    [] OTHER -> "on"

GetValue(c) ==
  /\ engine = "flags" /\ asked[c] # None
  /\ told' = [rule |-> asked[c].rule, value |-> Value(c)]
  /\ asked' = [asked EXCEPT ![c] = None]
  /\ UNCHANGED <<flagVars, tradeVars, canaryVars, capitalVars>>

-----------------------------------------------------------------------------
(* KPMFeatureFlagEngine *)

States == {"disabled", "enabled", "ramp_up", "emergency_off"}

\* FAULT: the state is changed whatever it was.
LeavesAlways(new) == TRUE

Leaves(new) == state # "emergency_off" \/ new = "emergency_off"

\* FAULT: the event is made after the state has been changed.
AuditedLate(new) == IF Len(audit) = MaxAudit THEN audit ELSE Append(audit, [old |-> new, new |-> new])

Audited(new) ==
  LET log == Append(audit, [old |-> state, new |-> new])
  IN  IF Len(log) > MaxAudit THEN Tail(log) ELSE log

SetState(new) ==
  /\ engine = "trade-flags" /\ Leaves(new)
  /\ state' = new /\ audit' = Audited(new)
  /\ tripped' = (tripped \/ new = "emergency_off")
  /\ UNCHANGED <<callVars, flagVars, rollout, canaryVars, capitalVars>>

\* The percentage outlives the state it was set in.
SetPercentageRollout(pct) ==
  /\ engine = "trade-flags" /\ state = "ramp_up"
  /\ rollout' = pct /\ audit' = Audited(state)
  /\ UNCHANGED <<callVars, flagVars, state, tripped, canaryVars, capitalVars>>

EmergencyOff ==
  /\ engine = "trade-flags"
  /\ state' = "emergency_off" /\ audit' = Audited("emergency_off") /\ tripped' = TRUE
  /\ UNCHANGED <<callVars, flagVars, rollout, canaryVars, capitalVars>>

ClearEmergency ==
  /\ engine = "trade-flags" /\ state = "emergency_off"
  /\ state' = "disabled" /\ audit' = Audited("disabled") /\ tripped' = FALSE
  /\ UNCHANGED <<callVars, flagVars, rollout, canaryVars, capitalVars>>

ReadState(c, u) ==
  /\ engine = "trade-flags" /\ asked[c] = None
  /\ asked' = [asked EXCEPT ![c] = [user |-> u, state |-> state, pct |-> rollout, tripped |-> tripped]]
  /\ UNCHANGED <<told, flagVars, tradeVars, canaryVars, capitalVars>>

Decision(a) == a.state = "enabled" \/ (a.state = "ramp_up" /\ Within(a.user, a.pct))

Decide(c) ==
  /\ engine = "trade-flags" /\ asked[c] # None
  /\ told' = [tripped |-> asked[c].tripped, on |-> Decision(asked[c])]
  /\ asked' = [asked EXCEPT ![c] = None]
  /\ UNCHANGED <<flagVars, tradeVars, canaryVars, capitalVars>>

-----------------------------------------------------------------------------
(* A canary release *)

\* FAULT: the share of the other canary is not counted.
FitsAlone(v, pct) == pct <= 100

\* register_canary: the others and this one stay within 100 %.
Fits(v, pct) == pct + (IF v = "canary" THEN traffic.other ELSE traffic.canary) <= 100

RegisterOther(pct) ==
  /\ engine = "canary" /\ pct > 0 /\ Fits("other", pct)
  /\ traffic' = [traffic EXCEPT !.other = pct]
  /\ UNCHANGED <<callVars, flagVars, tradeVars, step, rolledBack, window, since, override, wanted, capitalVars>>

UnregisterOther ==
  /\ engine = "canary"
  /\ traffic' = [traffic EXCEPT !.other = 0]
  /\ UNCHANGED <<callVars, flagVars, tradeVars, step, rolledBack, window, since, override, wanted, capitalVars>>

\* FAULT: a rollout that was rolled back goes on.
GoesOnAlways == step < Len(Schedule)

GoesOn == ~rolledBack /\ step < Len(Schedule)

\* The step is counted before it is registered: one that does not fit is lost.
Advance ==
  /\ engine = "canary" /\ GoesOn
  /\ step' = step + 1
  /\ traffic' = IF Schedule[step + 1] <= 0 \/ Fits("canary", Schedule[step + 1])
                  THEN [traffic EXCEPT !.canary = Schedule[step + 1]] ELSE traffic
  /\ UNCHANGED <<callVars, flagVars, tradeVars, rolledBack, window, since, override, wanted, capitalVars>>

RecordOutcome(o) ==
  /\ engine = "canary"
  /\ window' = IF Len(window) = MaxWindow THEN Append(Tail(window), o) ELSE Append(window, o)
  /\ UNCHANGED <<callVars, flagVars, tradeVars, traffic, step, rolledBack, since, override, wanted, capitalVars>>

TriggerManualOverride ==
  /\ engine = "canary"
  /\ override' = TRUE /\ wanted' = TRUE
  /\ UNCHANGED <<callVars, flagVars, tradeVars, traffic, step, rolledBack, window, since, capitalVars>>

Cooling == since < Cooldown

\* Enough samples, and more errors or slow answers among them than allowed (half).
Unhealthy ==
  /\ Len(window) >= MinSamples
  /\ \E kind \in {"error", "slow"} : 2 * Cardinality({i \in DOMAIN window : window[i] = kind}) > Len(window)

\* FAULT: the override is taken out before the cooldown is looked at.
TakenOut == override' = FALSE

KeptWhileCooling == override' = (override /\ Cooling)

\* check_rollback_needed, and the rollback when it says so.
CheckRollback ==
  /\ engine = "canary"
  /\ KeptWhileCooling
  /\ IF ~Cooling /\ (override \/ Unhealthy)
       THEN /\ since' = 0 /\ wanted' = FALSE
            /\ rolledBack' = TRUE /\ traffic' = [traffic EXCEPT !.canary = 0]
       ELSE UNCHANGED <<since, wanted, rolledBack, traffic>>
  /\ UNCHANGED <<callVars, flagVars, tradeVars, step, window, capitalVars>>

\* Time passes, and the oldest outcome leaves the 60 s that count.
Tick ==
  /\ engine = "canary"
  /\ since' = IF Cooling THEN since + 1 ELSE since
  /\ window' = IF window = <<>> THEN window ELSE Tail(window)
  /\ UNCHANGED <<callVars, flagVars, tradeVars, traffic, step, rolledBack, override, wanted, capitalVars>>

NewRollout ==
  /\ engine = "canary" /\ ~GoesOn
  /\ step' = 0 /\ rolledBack' = FALSE /\ traffic' = [traffic EXCEPT !.canary = 0]
  /\ UNCHANGED <<callVars, flagVars, tradeVars, window, since, override, wanted, capitalVars>>

-----------------------------------------------------------------------------
(* KPMPreProductionCanary *)

DeployCanary ==
  /\ engine = "capital"
  /\ status' = "active" /\ sum' = 0 /\ runs' = 0
  /\ UNCHANGED <<callVars, flagVars, tradeVars, canaryVars>>

\* FAULT: a canary that has ended is judged again.
JudgesAgain == runs < MaxRuns

Judged == status = "active" /\ runs < MaxRuns

RecordPerformance(drift) ==
  /\ engine = "capital" /\ Judged
  /\ sum' = sum + drift /\ runs' = runs + 1
  /\ status' = CASE sum' >= RollbackAt * runs' -> "rolled_back"
                 [] sum' < RollbackAt * runs' /\ runs' >= MinRuns /\ sum' <= -PromoteAt * runs' -> "promoted"
                 [] OTHER -> "active"
  /\ UNCHANGED <<callVars, flagVars, tradeVars, canaryVars>>

Next ==
  \/ \E r \in Rules \cup {None} : SetRule(r)
  \/ RegisterVariants
  \/ \E c \in Callers, u \in Users : ReadRule(c, u) \/ ReadState(c, u)
  \/ \E c \in Callers : GetValue(c) \/ Decide(c)
  \/ \E s \in States : SetState(s)
  \/ \E pct \in Percents : SetPercentageRollout(pct) \/ RegisterOther(pct)
  \/ EmergencyOff \/ ClearEmergency
  \/ UnregisterOther \/ Advance \/ TriggerManualOverride \/ CheckRollback \/ Tick \/ NewRollout
  \/ \E o \in {"ok", "error", "slow"} : RecordOutcome(o)
  \/ DeployCanary
  \/ \E d \in Drifts : RecordPerformance(d)

-----------------------------------------------------------------------------
\* A percentage of 0 reaches nobody and one of 100 everybody.
WholeAndNone ==
  (engine = "flags" /\ told # None) =>
    (told.rule # None => (told.rule.kind = "percentage" =>
       /\ told.rule.pct = 0   => told.value = "off"
       /\ told.rule.pct = 100 => told.value # "off"))

\* Nobody who asks after an emergency and before it is cleared trades by the flag.
EmergencyHolds ==
  (engine = "trade-flags" /\ told # None) => (told.tripped => ~told.on)

\* The audit of a flag is gapless: each event starts where the last one ended.
AuditGapless ==
  /\ \A i \in DOMAIN audit : i > 1 => audit[i].old = audit[i - 1].new
  /\ audit # <<>> => audit[Len(audit)].new = state

\* A canary that was rolled back gets no more traffic, and all canaries
\* together never more than there is.
RolledBackForGood == (rolledBack => traffic.canary = 0) /\ traffic.canary + traffic.other <= 100

\* An override is not forgotten: it stays until a rollback has been decided.
OverrideKept == wanted => override

\* A capital canary that was promoted or rolled back stays so.
DecidedForGood == [][(engine = "capital" /\ status # "active") => (status' = status \/ runs' = 0)]_vars
=============================================================================
