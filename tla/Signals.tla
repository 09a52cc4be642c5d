------------------------------ MODULE Signals ------------------------------
(***************************************************************************)
(* The signals between cells and the control of the whole.                 *)
(*                                                                         *)
(*   quorum     QuorumEngine and the quorum_required decorator             *)
(*   hormones   HormonePool and PricingHomeostasis                         *)
(*   failures   CorrelatedFailureDetector                                  *)
(*   policy     PolicyStateMachine                                         *)
(*   master     KMOMasterOrchestrator over HomeostasisCoordinator and      *)
(*              SigmaSwitch                                                *)
(*   sleep      SleepCyclesEngine's monthly action                         *)
(*   evolution  EvolutionLoop with its RegressionCage                      *)
(*                                                                         *)
(* A concentration is a whole number that halves with every tick.          *)
(***************************************************************************)
EXTENDS Integers, Sequences, FiniteSets, FiniteSetsExt

CONSTANTS
  Dfs,          \* the DFs that signal
  MinDfs,       \* min_unique_dfs
  Strong,       \* concentration at which the Hill activation reaches its threshold
  Recent,       \* unique_df_ttl_sec, window_sec, ttl_sec
  MaxTime,      \* bound: ticks of the clock
  MaxSignals,   \* bound: contributions to a pool, emissions of one kind
  Writers,      \* threads that emit hormones, record failures, pass the quorum gate
  Spiral,       \* spiral_threshold
  Refractory,   \* refractory_period_sec
  Scores,       \* aggregated scores in percent
  Size,         \* population_size
  Fitness       \* fitness of one of two objectives

VARIABLES
  engine,
  clock,
  pool,         \* AutoInducerPool: concentration, last_updated, contributions
  latest,       \* history: per DF, its last signal
  gate,         \* per thread: DFs that had signalled of late when it was let through
  logs,         \* _emissions of two hormones, _failures: moments and amounts
  pen,          \* per thread: what it is about to write, with the moment it read
  made,         \* history: per kind and moment, entries written
  policy,       \* _state
  before,       \* history: the policy before that, the score that was last applied
  mode,         \* SigmaSwitch._current
  forced,       \* history: force_mode has changed the mode (alternates)
  switchedAt,   \* _last_switch_at, -1 for none
  reacting,     \* what react_to_health is about to do
  hasty,        \* history: last switch of the coordinator, whether one came too early
  month,        \* _last_monthly_run_month, the callbacks' depth, history: runs per month
  population,   \* fitness of each genome
  best,         \* _best_fitness, <<>> at first
  record        \* history: best value of each objective in any population

poolVars   == <<pool, latest, gate>>
logVars    == <<logs, pen, made>>
policyVars == <<policy, before>>
modeVars   == <<mode, forced, switchedAt, reacting, hasty>>
evolveVars == <<population, best, record>>
vars       == <<clock, poolVars, logVars, policyVars, modeVars, month, evolveVars>>

Engines == {"quorum", "hormones", "failures", "policy", "master", "sleep", "evolution"}
Kinds   == {"pricing", "anti", "failure"}
Resting == [kind |-> "none", at |-> 0, amount |-> 0]

Bests(genomes) == [k \in 1..2 |-> Max({g[k] : g \in Range(genomes)})]

Start ==
  /\ clock = 0
  /\ pool = [conc |-> 0, at |-> 0, by |-> <<>>]
  /\ latest = [d \in Dfs |-> -100] /\ gate = [w \in Writers |-> {}]
  /\ logs = [k \in Kinds |-> <<>>] /\ pen = [w \in Writers |-> Resting]
  /\ made = [k \in Kinds |-> [t \in 0..MaxTime |-> 0]]
  /\ policy = "moderate" /\ before = [state |-> "none", score |-> 0]
  /\ mode = "normal" /\ forced = FALSE /\ switchedAt = -1 /\ reacting = "none" /\ hasty = [at |-> -Refractory, early |-> FALSE]
  /\ month = [last |-> -1, depth |-> 0, runs |-> [t \in 0..MaxTime |-> 0]]
  /\ population \in [1..Size -> Fitness \X Fitness] /\ best = <<>>
  /\ record = Bests(population)
  /\ engine # "evolution" => population = [i \in 1..Size |-> CHOOSE p \in Fitness \X Fitness : TRUE]

Tick ==
  /\ engine \notin {"policy", "evolution"} /\ clock < MaxTime
  /\ clock' = clock + 1
  /\ UNCHANGED <<poolVars, logVars, policyVars, modeVars, month, evolveVars>>

-----------------------------------------------------------------------------
(* QuorumEngine *)

Decayed == pool.conc \div 2^(clock - pool.at)

EmitSignal(d, strength) ==
  /\ engine = "quorum" /\ Len(pool.by) < MaxSignals
  /\ pool' = [conc |-> Decayed + strength, at |-> clock, by |-> Append(pool.by, [df |-> d, at |-> clock])]
  /\ latest' = [latest EXCEPT ![d] = clock]
  /\ UNCHANGED <<clock, gate, logVars, policyVars, modeVars, month, evolveVars>>

\* FAULT: the signals are counted, not the DFs.
SignalCount == Cardinality({i \in DOMAIN pool.by : pool.by[i].at >= clock - Recent})

UniqueDfCount == Cardinality({c.df : c \in {c \in Range(pool.by) : c.at >= clock - Recent}})

\* quorum_required asks is_quorum_active and then calls the function.
PassGate(w) ==
  /\ engine = "quorum" /\ gate[w] = {}
  /\ Decayed >= Strong /\ UniqueDfCount >= MinDfs
  /\ gate' = [gate EXCEPT ![w] = {"open"} \cup {d \in Dfs : latest[d] >= clock - Recent}]
  /\ UNCHANGED <<clock, pool, latest, logVars, policyVars, modeVars, month, evolveVars>>

Return(w) ==
  /\ engine = "quorum" /\ gate[w] # {}
  /\ gate' = [gate EXCEPT ![w] = {}]
  /\ UNCHANGED <<clock, pool, latest, logVars, policyVars, modeVars, month, evolveVars>>

PurgeTissue ==
  /\ engine = "quorum"
  /\ pool' = [conc |-> 0, at |-> clock, by |-> <<>>]
  /\ UNCHANGED <<clock, latest, gate, logVars, policyVars, modeVars, month, evolveVars>>

-----------------------------------------------------------------------------
(* HormonePool, PricingHomeostasis and CorrelatedFailureDetector.  Every thread reads *)
(* the clock before it takes the lock, so that entries may stand out of order.        *)

\* FAULT: the list is taken to be in order, and cut after the last entry that is too old.
PrunedAsSorted(k, now) ==
  LET old == {i \in DOMAIN logs[k] : logs[k][i].at < now - Recent}
  IN  IF old = {} THEN logs[k] ELSE SubSeq(logs[k], Max(old) + 1, Len(logs[k]))

\* What concentration and _gc cut: the entries that are too old, up to the first that is not.
Pruned(k, now) ==
  LET fresh == {i \in DOMAIN logs[k] : logs[k][i].at >= now - Recent}
  IN  IF fresh = {} THEN <<>> ELSE SubSeq(logs[k], Min(fresh), Len(logs[k]))

Halved(x, n) == x \div 2^n
Concentration(k) == FoldFunction(LAMBDA x, y : x + y, 0, [i \in DOMAIN Pruned(k, clock) |->
                            Halved(Pruned(k, clock)[i].amount, Max({0, clock - Pruned(k, clock)[i].at}))])

ReadClock(w, k) ==
  /\ engine = (IF k = "failure" THEN "failures" ELSE "hormones") /\ k # "anti" /\ pen[w] = Resting
  /\ pen' = [pen EXCEPT ![w] = [kind |-> k, at |-> clock, amount |-> 4]]
  /\ UNCHANGED <<clock, poolVars, logs, made, policyVars, modeVars, month, evolveVars>>

\* check_and_dampen reads the concentration, and emits against it in a step of its own.
CheckAndDampen(w) ==
  /\ engine = "hormones" /\ pen[w] = Resting
  /\ logs' = [logs EXCEPT !["pricing"] = Pruned("pricing", clock)]
  /\ pen' = IF Concentration("pricing") > Spiral
              THEN [pen EXCEPT ![w] = [kind |-> "anti", at |-> clock,
                                       amount |-> (Concentration("pricing") - Spiral) \div 2]]
              ELSE pen
  /\ UNCHANGED <<clock, poolVars, made, policyVars, modeVars, month, evolveVars>>

\* emit; record_failure also cuts its list, with the moment it had read.
Write(w) ==
  /\ pen[w] # Resting /\ Len(logs[pen[w].kind]) < MaxSignals
  /\ LET p == pen[w]
         kept == IF p.kind = "failure" THEN Pruned(p.kind, p.at) ELSE logs[p.kind]
     IN  /\ logs' = [logs EXCEPT ![p.kind] = Append(kept, [at |-> p.at, amount |-> p.amount])]
         /\ made' = [made EXCEPT ![p.kind][p.at] = @ + 1]
  /\ pen' = [pen EXCEPT ![w] = Resting]
  /\ UNCHANGED <<clock, poolVars, policyVars, modeVars, month, evolveVars>>

EmitHormone(w) == engine = "hormones" /\ Write(w)
RecordFailure(w) == engine = "failures" /\ Write(w)

\* concentration, and gc_expired for every kind.
Prune(k) ==
  /\ logs' = [logs EXCEPT ![k] = Pruned(k, clock)]
  /\ UNCHANGED <<clock, poolVars, pen, made, policyVars, modeVars, month, evolveVars>>

PruneHormones == engine = "hormones" /\ \E k \in {"pricing", "anti"} : Prune(k)
FailureCountInWindow == engine = "failures" /\ Prune("failure")

-----------------------------------------------------------------------------
(* PolicyStateMachine with DEFAULT_TRANSITIONS *)

\* FAULT: the marks between aggressive and moderate are swapped.
Swapped(score) ==
  CASE policy = "aggressive"   /\ score < 80  -> "moderate"
    [] policy = "moderate"     /\ score >= 65 -> "aggressive"
    [] OTHER -> policy

NextPolicy(score) ==
  CASE policy = "aggressive"   /\ score < 65  -> "moderate"
    [] policy = "moderate"     /\ score >= 80 -> "aggressive"
    [] policy = "moderate"     /\ score < 40  -> "conservative"
    [] policy = "conservative" /\ score >= 50 -> "moderate"
    [] policy = "conservative" /\ score < 20  -> "emergency"
    [] policy = "emergency"    /\ score >= 35 -> "conservative"
    [] policy = "maintenance"  /\ score >= 30 -> "conservative"
    [] OTHER -> policy

TickPolicy(score) ==
  /\ engine = "policy"
  /\ policy' = NextPolicy(score)
  /\ before' = [state |-> IF policy' = policy /\ before.score = score THEN before.state ELSE policy,
                score |-> score]
  /\ UNCHANGED <<clock, poolVars, logVars, modeVars, month, evolveVars>>

ForcePolicy(p) ==
  /\ engine = "policy"
  /\ policy' = p
  /\ before' = [state |-> "none", score |-> 0]
  /\ UNCHANGED <<clock, poolVars, logVars, modeVars, month, evolveVars>>

-----------------------------------------------------------------------------
(* SigmaSwitch: what each signal makes of the mode, under the switch's lock *)

\* FAULT: sleep may begin in any mode.
SleepAnyTime == TRUE

MayRest == mode \notin {"incident", "recovery"}

Become(m) == mode' = m /\ UNCHANGED <<forced, switchedAt, reacting, hasty>>

Others == UNCHANGED <<clock, poolVars, logVars, policyVars, month, evolveVars>>

UpdateLoad(high) ==
  /\ engine = "master"
  /\ \/ high /\ mode = "normal" /\ Become("peak_load")
     \/ ~high /\ mode = "peak_load" /\ Become("normal")
  /\ Others

SignalIncident == engine = "master" /\ mode # "incident" /\ Become("incident") /\ Others
RecoveryStart  == engine = "master" /\ mode = "incident" /\ Become("recovery") /\ Others
SignalEnd      == engine = "master" /\ mode \in {"recovery", "maintenance", "sleep"} /\ Become("normal") /\ Others
MaintenanceStart == engine = "master" /\ mode \notin {"incident", "recovery"} /\ Become("maintenance") /\ Others
SleepStart     == engine = "master" /\ MayRest /\ Become("sleep") /\ Others

ForceMode(m) ==
  /\ engine = "master" /\ m # mode
  /\ mode' = m /\ forced' = ~forced
  /\ UNCHANGED <<switchedAt, reacting, hasty>> /\ Others

-----------------------------------------------------------------------------
(* KMOMasterOrchestrator and HomeostasisCoordinator *)

\* _refractory_active.
RefractoryActive == switchedAt # -1 /\ clock - switchedAt < Refractory

\* update_vitals and emergency_signal: one at a time, but the mode may change meanwhile.
\* A healthy system looks whether it is night, a critical one reports a high load.
ReactToHealth(status) ==
  /\ engine = "master" /\ reacting = "none"
  /\ status = "emergency" \/ ~RefractoryActive
  /\ reacting' = status
  /\ UNCHANGED <<mode, forced, switchedAt, hasty>> /\ Others

\* FAULT: an emergency's switch is not recorded.
UnlessEmergency == IF reacting = "emergency" THEN switchedAt ELSE clock

RecordSwitch == clock

\* The switch answers None when it refuses; a sleep is begun anew in a sleep.
Switch(m) ==
  /\ mode' = m /\ switchedAt' = RecordSwitch
  /\ hasty' = [at |-> clock, early |-> hasty.early \/ (reacting # "emergency" /\ clock - hasty.at < Refractory)]

React ==
  /\ engine = "master" /\ reacting # "none"
  /\ CASE reacting = "healthy" /\ MayRest            -> Switch("sleep")
       [] reacting = "critical" /\ mode = "normal"   -> Switch("peak_load")
       [] reacting = "emergency" /\ mode # "incident" -> Switch("incident")
       [] OTHER -> UNCHANGED <<mode, switchedAt, hasty>>
  /\ reacting' = "none"
  /\ UNCHANGED forced /\ Others

-----------------------------------------------------------------------------
(* SleepCyclesEngine.trigger_monthly_action; a tick is a month *)

\* FAULT: the month is marked when the callbacks have ended.
MarkLater == month.last

MarkNow == clock

\* The callbacks run in the lock and may trigger the action again.
TriggerMonthly ==
  /\ engine = "sleep" /\ month.last # clock /\ month.depth < 2
  /\ month' = [last |-> MarkNow, depth |-> month.depth + 1,
               runs |-> [month.runs EXCEPT ![clock] = @ + 1]]
  /\ UNCHANGED <<clock, poolVars, logVars, policyVars, modeVars, evolveVars>>

\* They end, or the first that fails ends them: the month stays marked either way.
EndMonthly ==
  /\ engine = "sleep" /\ month.depth > 0
  /\ month' = [month EXCEPT !.depth = @ - 1]
  /\ UNCHANGED <<clock, poolVars, logVars, policyVars, modeVars, evolveVars>>

\* trigger_monthly_action in a month that is marked, and should_sleep_now.
AlreadyRun == engine = "sleep" /\ month.last = clock /\ UNCHANGED vars

-----------------------------------------------------------------------------
(* EvolutionLoop *)

\* FAULT: better in the first objective is enough.
FirstBetter(a, b) == a[1] > b[1]

Dominates(a, b) == a[1] >= b[1] /\ a[2] >= b[2] /\ a # b

\* The elements of seq that pass the test, in their order.
Select(seq, Test(_)) ==
  LET at == {i \in DOMAIN seq : Test(seq[i])}
  IN  [n \in 1..Cardinality(at) |->
         seq[CHOOSE i \in at : Cardinality({j \in at : j <= i}) = n]]

ParetoFront == Select(population, LAMBDA g : \A o \in Range(population) : ~Dominates(o, g))

\* detects_regression: no genome reaches the best of every objective at once.
Regresses(new) == best # <<>> /\ \A g \in Range(new) : g[1] < best[1] \/ g[2] < best[2]

Raised(marks, new) == [k \in 1..2 |-> Max({marks[k], Bests(new)[k]})]

\* step: the front and enough mutants of it, or the old population again.
Step(children) ==
  /\ engine = "evolution"
  /\ LET new == ParetoFront \o SubSeq(children, 1, Size - Len(ParetoFront))
     IN  IF Regresses(new) THEN UNCHANGED evolveVars
         ELSE /\ population' = new /\ record' = Raised(record, new)
              /\ best' = IF best = <<>> THEN Bests(new) ELSE Raised(best, new)
  /\ UNCHANGED <<clock, poolVars, logVars, policyVars, modeVars, month>>

Next ==
  \/ Tick
  \/ \E d \in Dfs, s \in 1..2 : EmitSignal(d, s)
  \/ PurgeTissue
  \/ \E w \in Writers : PassGate(w) \/ Return(w) \/ CheckAndDampen(w)
                          \/ EmitHormone(w) \/ RecordFailure(w) \/ \E k \in Kinds : ReadClock(w, k)
  \/ PruneHormones \/ FailureCountInWindow
  \/ \E s \in Scores : TickPolicy(s)
  \/ \E p \in {"aggressive", "moderate", "conservative", "emergency", "maintenance"} : ForcePolicy(p)
  \/ \E b \in BOOLEAN : UpdateLoad(b)
  \/ SignalIncident \/ RecoveryStart \/ SignalEnd \/ MaintenanceStart \/ SleepStart
  \/ \E m \in {"normal", "peak_load", "incident", "recovery", "maintenance", "sleep"} : ForceMode(m)
  \/ \E s \in {"healthy", "critical", "emergency"} : ReactToHealth(s)
  \/ React \/ TriggerMonthly \/ EndMonthly \/ AlreadyRun
  \/ \E c \in [1..Size -> Fitness \X Fitness] : Step(c)

-----------------------------------------------------------------------------
(* Properties *)

\* No DF alone opens the quorum's gate, however often or loudly it signals, and none that
\* has been silent for long helps to.
LoneDfNeverActs ==
  engine = "quorum" => \A w \in Writers : gate[w] # {} => Cardinality(gate[w] \ {"open"}) >= MinDfs

\* Whatever the order in which threads write what they have timed, no emission and no
\* failure of the window is forgotten.
RecentRemembered ==
  engine \in {"hormones", "failures"} =>
    \A k \in Kinds : \A t \in 0..MaxTime :
      t >= clock - Recent => Cardinality({i \in DOMAIN logs[k] : logs[k][i].at = t}) = made[k][t]

\* A score that stays the same does not move the policy back and forth, unless by force.
PolicySettles ==
  policy' # policy /\ before'.score = before.score /\ before'.state # "none" => policy' # before.state

\* Except by force, an incident is left through recovery only, whatever the coordinator
\* decided before it came; and the coordinator keeps its distance after each switch.
IncidentHolds == mode = "incident" => mode' \in {"incident", "recovery"} \/ forced' # forced
NeverHasty == engine = "master" => ~hasty.early

\* The action of a month is begun once in it, also when one of its callbacks asks again.
OncePerMonth == engine = "sleep" => \A t \in 0..MaxTime : month.runs[t] <= 1

\* The population always holds the best value of each objective that any population had,
\* also where no genome has them all.
BestKept == engine = "evolution" => record = Bests(population)
=============================================================================
