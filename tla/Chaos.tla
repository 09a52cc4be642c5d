------------------------------- MODULE Chaos -------------------------------
(***************************************************************************)
(* Fault injection into the other components.                              *)
(*   aiops       SAEChaosEngineering, whose bounded history has an index   *)
(*   trading     KPMChaosEngineering, with an index that only grows        *)
(*   manuscript  GraphityChaosEngineering, with a stability per target     *)
(*   legal       LegalChaosEngine                                          *)
(*   hotel       HeyLouChaosEngineering                                    *)
(*   slot        SAEv8ChaosEngineering                                     *)
(*   household   FamilienChaosEngine, which records what failed            *)
(*   factory     DFHealthMonitorChaosEngineering, atomic                   *)
(*   monkey      ChaosMonkey, its ChaosScenario, FailureInjector and       *)
(*               RecoveryVerifier: one lock over a whole schedule          *)
(* The first seven take a lock to count an injection in, run the target's  *)
(* handler without it, and take it again to count the injection out.       *)
(***************************************************************************)
EXTENDS Integers, FiniteSets, Sequences

CONSTANTS
  Targets,       \* slots, strategies, manuscripts, hotels, dark factories
  Threads,       \* callers of inject
  MaxConcurrent, \* max_concurrent_chaos
  MaxHistory,    \* maxlen of the history
  Ids,           \* scenario ids, which callers may repeat
  Full,          \* a stability of 1.0
  Decays,        \* what the severities take from a stability
  MaxAttempts,   \* max_attempts of the verifier
  MaxSchedule,   \* bound: scheduled scenarios
  None

VARIABLES
  engine,
  handlers,  \* registered targets
  paused,    \* _paused
  active,    \* _active_chaos_count
  runs,      \* per thread: the scenario it injects, None, or what its handler came to
  outcomes,  \* _outcomes: id and success
  index,     \* _scenarios_by_outcome: ids with a scenario
  stability, \* _stability of each target
  schedule,  \* _schedule: targets
  turn,      \* the monkey's position: scenario, and attempts to recover
  tally      \* the monkey's outcomes, counted by status

injectVars == <<handlers, paused, active, runs, outcomes, index, stability>>
monkeyVars == <<schedule, turn, tally>>
vars       == <<injectVars, monkeyVars>>

WithFinally == {"aiops", "trading", "household"}
CountedOut  == {"manuscript", "legal", "hotel", "slot"}
Engines     == WithFinally \cup CountedOut \cup {"factory", "monkey"}
Statuses    == {"success", "recovered", "failure"}

Start ==
  /\ handlers = IF engine \in {"legal", "household"} THEN Targets ELSE {}
  /\ paused = FALSE /\ active = 0 /\ runs = [t \in Threads |-> None]
  /\ outcomes = <<>> /\ index = {} /\ stability = [x \in Targets |-> Full]
  /\ schedule = <<>> /\ turn = [at |-> 0, attempts |-> 0] /\ tally = [s \in Statuses |-> 0]

-----------------------------------------------------------------------------
(* Injection *)

\* FAULT: a target is replaced while its handler may be running.
ReplacesAlways(x) == TRUE

\* Two engines do not replace a registered handler while an injection is active.
Replaces(x) == engine \in {"aiops", "trading"} => (active = 0 \/ x \notin handlers)

Register(x) ==
  /\ engine # "household" /\ Replaces(x)
  /\ handlers' = handlers \cup {x}
  /\ UNCHANGED <<paused, active, runs, outcomes, index, stability, monkeyVars>>

\* pause_chaos and resume_chaos; the slot's engine is not resumed.
SetPaused(p) ==
  /\ engine \notin {"household", "monkey"} /\ (engine = "slot" => p)
  /\ paused' = p
  /\ UNCHANGED <<handlers, active, runs, outcomes, index, stability, monkeyVars>>

Recorded(o) == IF Len(outcomes) = MaxHistory THEN Append(Tail(outcomes), o) ELSE Append(outcomes, o)

\* FAULT: the count is allowed to reach the limit and one more.
FreeOneMore == active <= MaxConcurrent

Free == active < MaxConcurrent

Admitted(x) == ~paused /\ x \in handlers /\ Free

Begin(t, x, id) ==
  /\ engine \in WithFinally \cup CountedOut /\ runs[t] = None /\ Admitted(x)
  /\ active' = active + 1
  /\ runs' = [runs EXCEPT ![t] = [target |-> x, id |-> id, result |-> "running"]]
  /\ UNCHANGED <<handlers, paused, outcomes, index, stability, monkeyVars>>

\* inject_random: a scenario with an id of its own.
InjectRandomSlot(t, x, id)     == engine = "aiops" /\ id \notin index /\ Begin(t, x, id)
InjectRandomStrategy(t, x, id) == engine = "trading" /\ id \notin index /\ Begin(t, x, id)

\* Two engines raise; the others record that the injection did not happen.
Refuse(t, x, id) ==
  /\ engine \in (WithFinally \cup CountedOut) \ {"aiops", "trading"} /\ runs[t] = None /\ ~Admitted(x)
  /\ outcomes' = Recorded([id |-> id, ok |-> FALSE])
  /\ UNCHANGED <<handlers, paused, active, runs, index, stability, monkeyVars>>

\* Another event: the handler answers, or raises an exception that is caught.
\* What is not caught (SystemExit, KeyboardInterrupt) passes a "finally" and
\* leaves the count of the others one too high.
HandlerEnds(t, result) ==
  /\ engine # "household"
  /\ runs[t] # None /\ runs[t].result = "running"
  /\ runs' = [runs EXCEPT ![t].result = result]
  /\ UNCHANGED <<handlers, paused, active, outcomes, index, stability, monkeyVars>>

\* The household's own handler judges the scenario: failed or not.
Evaluate(t, failed) ==
  /\ engine = "household" /\ runs[t] # None /\ runs[t].result = "running"
  /\ runs' = [runs EXCEPT ![t].result = IF failed THEN "failed" ELSE "ok"]
  /\ UNCHANGED <<handlers, paused, active, outcomes, index, stability, monkeyVars>>

CountOut(t) ==
  /\ engine \in WithFinally /\ runs[t] # None /\ runs[t].result \in {"ok", "failed", "recorded", "killed"}
  /\ engine = "household" => runs[t].result # "failed"
  /\ active' = active - 1
  /\ runs' = [runs EXCEPT ![t] = IF engine \in {"aiops", "trading"} /\ @.result # "killed"
                                   THEN [@ EXCEPT !.result = IF @ = "ok" THEN "out_ok" ELSE "out_failed"]
                                   ELSE None]
  /\ UNCHANGED <<handlers, paused, outcomes, index, stability, monkeyVars>>

\* FAULT: the scenario of an evicted outcome goes although another one has its id.
ForgetAlways(id, log) == {id}

\* The scenario of an evicted outcome is dropped unless another one has its id.
Forgotten(id, log) == {id} \ {log[i].id : i \in DOMAIN log}

Indexed(id) ==
  CASE engine = "aiops" /\ Len(outcomes) = MaxHistory
                          -> (index \cup {id}) \ Forgotten(Head(outcomes).id, Tail(outcomes) \o <<[id |-> id, ok |-> TRUE]>>)
    [] engine = "trading" \/ (engine = "aiops" /\ Len(outcomes) < MaxHistory) -> index \cup {id}
    [] engine \notin {"aiops", "trading"} -> index

RecordIndexed(t) ==
  /\ engine \in {"aiops", "trading"} /\ runs[t] # None /\ runs[t].result \in {"out_ok", "out_failed"}
  /\ outcomes' = Recorded([id |-> runs[t].id, ok |-> runs[t].result = "out_ok"])
  /\ index' = Indexed(runs[t].id)
  /\ runs' = [runs EXCEPT ![t] = None]
  /\ UNCHANGED <<handlers, paused, active, stability, monkeyVars>>

\* The household records a failure before it counts out, and nothing else.
RecordFailed(t) ==
  /\ engine = "household" /\ runs[t] # None /\ runs[t].result = "failed"
  /\ outcomes' = Recorded([id |-> runs[t].id, ok |-> FALSE])
  /\ runs' = [runs EXCEPT ![t].result = "recorded"]
  /\ UNCHANGED <<handlers, paused, active, index, stability, monkeyVars>>

\* The severity takes from the stability, a recovered consensus gives one back.
Settled(x, ok, decay) ==
  LET low == IF stability[x] < decay THEN 0 ELSE stability[x] - decay
  IN  IF ok /\ low < Full THEN low + 1 ELSE low

CountOutAndRecord(t, decay) ==
  /\ engine \in CountedOut /\ runs[t] # None /\ runs[t].result \in {"ok", "failed"}
  /\ active' = active - 1
  /\ outcomes' = Recorded([id |-> runs[t].id, ok |-> runs[t].result = "ok"])
  /\ stability' = IF engine = "manuscript"
                    THEN [stability EXCEPT ![runs[t].target] = Settled(runs[t].target, runs[t].result = "ok", decay)]
                    ELSE stability
  /\ runs' = [runs EXCEPT ![t] = None]
  /\ UNCHANGED <<handlers, paused, index, monkeyVars>>

Killed(t) ==
  /\ engine \in CountedOut /\ runs[t] # None /\ runs[t].result = "killed"
  /\ runs' = [runs EXCEPT ![t] = None]
  /\ UNCHANGED <<handlers, paused, active, outcomes, index, stability, monkeyVars>>

\* A process that has lost all its slots to killed handlers is started again.
Restart ==
  /\ engine \in CountedOut \cup {"household"} /\ \A t \in Threads : runs[t] = None
  /\ active' = 0 /\ paused' = FALSE /\ outcomes' = <<>>
  /\ handlers' = IF engine \in {"legal", "household"} THEN Targets ELSE {}
  /\ stability' = [x \in Targets |-> Full]
  /\ UNCHANGED <<runs, index, monkeyVars>>

\* DFHealthMonitorChaosEngineering.inject, under one lock.
InjectFactory(x, id) ==
  /\ engine = "factory"
  /\ outcomes' = Recorded([id |-> id, ok |-> ~paused /\ x \in handlers])
  /\ UNCHANGED <<handlers, paused, active, runs, index, stability, monkeyVars>>

-----------------------------------------------------------------------------
(* ChaosMonkey *)

Resting == turn.at = 0

Schedule(x) ==
  /\ engine = "monkey" /\ Resting /\ x \in handlers /\ Len(schedule) < MaxSchedule
  /\ schedule' = Append(schedule, x)
  /\ UNCHANGED <<injectVars, turn, tally>>

RunAll ==
  /\ engine = "monkey" /\ Resting /\ schedule # <<>>
  /\ turn' = [at |-> 1, attempts |-> 0]
  /\ UNCHANGED <<injectVars, schedule, tally>>

Ends(status) ==
  /\ tally' = [tally EXCEPT ![status] = @ + 1]
  /\ turn' = [at |-> (turn.at + 1) % (Len(schedule) + 1), attempts |-> 0]

\* A scenario injects its failures and calls the target once.
Strike(ok) ==
  /\ engine = "monkey" /\ ~Resting /\ turn.attempts = 0
  /\ IF ok THEN Ends("success") ELSE turn' = [turn EXCEPT !.attempts = 1] /\ UNCHANGED tally
  /\ UNCHANGED <<injectVars, schedule>>

\* FAULT: the last attempt is not counted as one.
LastAttemptLate == turn.attempts > MaxAttempts

LastAttempt == turn.attempts = MaxAttempts

\* verify_recovery calls the target until it answers, at most MaxAttempts times.
Verify(ok) ==
  /\ engine = "monkey" /\ ~Resting /\ turn.attempts > 0
  /\ CASE ok                       -> Ends("recovered")
       [] ~ok /\ LastAttempt       -> Ends("failure")
       [] ~ok /\ ~LastAttempt      -> turn' = [turn EXCEPT !.attempts = @ + 1] /\ UNCHANGED tally
  /\ UNCHANGED <<injectVars, schedule>>

ResetMonkey ==
  /\ engine = "monkey" /\ Resting
  /\ schedule' = <<>> /\ tally' = [s \in Statuses |-> 0]
  /\ UNCHANGED <<injectVars, turn>>

\* Bound: the outcomes are counted up to the schedule's length.
Bounded == tally.success + tally.recovered + tally.failure < MaxSchedule

Next ==
  \/ \E x \in Targets : Register(x) \/ Schedule(x)
  \/ \E p \in BOOLEAN : SetPaused(p)
  \/ \E t \in Threads, x \in Targets, id \in Ids :
       \/ Begin(t, x, id) \/ Refuse(t, x, id)
       \/ InjectRandomSlot(t, x, id) \/ InjectRandomStrategy(t, x, id)
  \/ \E t \in Threads, r \in {"ok", "failed", "killed"} : HandlerEnds(t, r)
  \/ \E t \in Threads, f \in BOOLEAN : Evaluate(t, f)
  \/ \E t \in Threads : CountOut(t) \/ RecordIndexed(t) \/ RecordFailed(t) \/ Killed(t)
  \/ \E t \in Threads, d \in Decays : CountOutAndRecord(t, d)
  \/ Restart
  \/ \E x \in Targets, id \in Ids : InjectFactory(x, id)
  \/ Bounded /\ RunAll
  \/ \E ok \in BOOLEAN : Strike(ok) \/ Verify(ok)
  \/ ResetMonkey

-----------------------------------------------------------------------------
Running == {t \in Threads : runs[t] # None /\ runs[t].result \in {"running", "ok", "failed", "recorded", "killed"}}

\* No more handlers run at once than are allowed, and the engines that count out
\* in a "finally" count exactly what runs.
ChaosBounded ==
  /\ Cardinality(Running) <= MaxConcurrent
  /\ engine \in WithFinally => active = Cardinality(Running)

\* Every outcome that is kept can be traced to its scenario, and with the bounded
\* index nothing else is kept.
ScenarioKnown ==
  LET ids == {outcomes[i].id : i \in DOMAIN outcomes}
  IN  /\ engine \in {"aiops", "trading"} => ids \subseteq index
      /\ engine = "aiops" => index \subseteq ids

\* A target is called at most MaxAttempts times to see whether it has recovered,
\* and every scenario that has run is counted once.
AttemptsBounded == turn.attempts <= MaxAttempts
=============================================================================
