----------------------------- MODULE StepSagas -----------------------------
(***************************************************************************)
(* Sagas that are kept in memory, and the retry of one call.               *)
(*   steps   SagaStepOrchestrator: a graph of steps in topological order,  *)
(*           retried, and compensated by a second call                     *)
(*   trades  KPMSagaOrchestrator: a list of steps under a saga id, which   *)
(*           several threads may execute and cancel                        *)
(*   retry   RetryEngine: attempts with growing delays                     *)
(* Both orchestrators give their lock away while handlers run.             *)
(***************************************************************************)
EXTENDS Integers, FiniteSets, Sequences

CONSTANTS
  Order,         \* the steps, in the order topological_sort or the caller gives them
  DependsOn,     \* depends_on of each step
  Compensable,   \* steps with a compensate_fn, a compensator
  MaxRetries,    \* max_retries of a step
  Callers,       \* threads that execute the saga
  MaxAttempts,   \* max_attempts of a retried call
  BaseDelay,     \* base_delay_s
  MaxDelay,      \* max_delay_s
  None

VARIABLES
  engine,
  position,      \* steps the run is done with; None before it starts
  attempt,       \* attempts at the step in hand, or at the retried call
  status,        \* StepStatus of each step
  effects,       \* history: how often a step's work stands in the world
  undoing,       \* steps compensate has yet to look at; None when it does not run
  spared,        \* failed_step_id of compensate
  failedIds,     \* failed_step_ids of the run
  misused,       \* history: compensate was called before run was over, or for a step that completed
  progress,      \* _in_progress of the saga: None, "in_progress", "compensating"
  outcome,       \* _outcomes of the saga: None or its state
  caller,        \* per thread: "idle", "forward", "check", "back", "closing"
  done,          \* completed_steps of a thread
  broken,        \* comp_failed_count > 0
  heard,         \* history: cancel returned True before the last check
  delays         \* delays of the retried call so far

stepVars  == <<position, attempt, status, effects, undoing, spared, failedIds, misused>>
tradeVars == <<progress, outcome, caller, done, broken, heard>>
vars      == <<stepVars, tradeVars, delays>>

Engines == {"steps", "trades", "retry"}
Steps   == {Order[i] : i \in DOMAIN Order}

Start ==
  /\ position = None /\ attempt = 0 /\ delays = <<>>
  /\ status = [s \in Steps |-> "pending"] /\ effects = [s \in Steps |-> 0]
  /\ undoing = None /\ spared = None /\ failedIds = {} /\ misused = FALSE
  /\ progress = None /\ outcome = None /\ broken = FALSE /\ heard = FALSE
  /\ caller = [t \in Callers |-> "idle"] /\ done = [t \in Callers |-> <<>>]

-----------------------------------------------------------------------------
(* SagaStepOrchestrator *)

Running == position # None
Over    == position = Len(Order)
Now     == Order[position + 1]

\* FAULT: a step runs although what it depends on was skipped.
BarredByFailed(s) == \E d \in DependsOn[s] : d \in failedIds /\ status[d] = "failed"

\* A dependency has failed or was skipped itself: failed_step_ids holds both.
Barred(s) == DependsOn[s] \cap failedIds # {}

RunStart ==
  /\ engine = "steps" /\ position = None
  /\ position' = 0
  /\ UNCHANGED <<attempt, status, effects, undoing, spared, failedIds, misused, tradeVars, delays>>

Finish(s, result) ==
  /\ status' = [status EXCEPT ![s] = result]
  /\ failedIds' = IF result = "completed" THEN failedIds ELSE failedIds \cup {s}
  /\ position' = position + 1 /\ attempt' = 0

SkipStep ==
  /\ engine = "steps" /\ Running /\ position < Len(Order)
  /\ Barred(Now)
  /\ Finish(Now, "skipped")
  /\ UNCHANGED <<effects, undoing, spared, misused, tradeVars, delays>>

\* _execute_step: the work is done, done too late for its timeout, or not done.
ExecuteStep(result) ==
  /\ engine = "steps" /\ Running /\ position < Len(Order)
  /\ ~Barred(Now)
  /\ effects' = IF result = "error" THEN effects ELSE [effects EXCEPT ![Now] = @ + 1]
  /\ CASE result = "ok"           -> Finish(Now, "completed")
       [] result # "ok" /\ attempt < MaxRetries
                                  -> attempt' = attempt + 1 /\ UNCHANGED <<status, failedIds, position>>
       [] OTHER                   -> Finish(Now, "failed")
  /\ UNCHANGED <<undoing, spared, misused, tradeVars, delays>>

\* compensate(failed_step_id); nothing stops it from being called during the run.
\* (Two calls at once would compensate twice: one is modelled.)
CompensateStart ==
  /\ engine = "steps" /\ undoing = None /\ \E s \in Steps : status[s] # "pending"
  /\ \E s \in Steps : spared' = s
  /\ undoing' = Len(Order)
  /\ misused' = (misused \/ ~Over \/ status[spared'] = "completed")
  /\ UNCHANGED <<position, attempt, status, effects, failedIds, tradeVars, delays>>

\* FAULT: the steps are undone in the order in which they were done.
OldestFirst == Order[Len(Order) + 1 - undoing]

Latest == Order[undoing]

\* One step back: only what is COMPLETED now and is not the failed step itself.
CompensateStep(ok) ==
  /\ engine = "steps" /\ undoing # None /\ undoing # 0
  /\ undoing' = undoing - 1
  /\ LET s == Latest
     IN  IF status[s] # "completed" \/ s = spared THEN ok /\ UNCHANGED <<status, effects>>
         ELSE /\ s \in Compensable \/ ok
              /\ status' = [status EXCEPT ![s] = IF ok THEN "compensated" ELSE "failed"]
              /\ effects' = IF ok /\ s \in Compensable THEN [effects EXCEPT ![s] = @ - 1] ELSE effects
  /\ UNCHANGED <<position, attempt, spared, failedIds, misused, tradeVars, delays>>

CompensateEnd ==
  /\ engine = "steps" /\ undoing = 0
  /\ undoing' = None /\ spared' = None
  /\ UNCHANGED <<position, attempt, status, effects, failedIds, misused, tradeVars, delays>>

-----------------------------------------------------------------------------
(* KPMSagaOrchestrator *)

\* FAULT: a saga that runs is not an obstacle.
NewHere == outcome = None

Fresh == progress = None /\ outcome = None

ExecuteSaga(t) ==
  /\ engine = "trades" /\ caller[t] = "idle" /\ Fresh
  /\ progress' = "in_progress"
  /\ caller' = [caller EXCEPT ![t] = "forward"]
  /\ UNCHANGED <<stepVars, outcome, done, broken, heard, delays>>

\* A handler returns or raises; completed_steps is the thread's own list.
Handle(t, ok) ==
  /\ engine = "trades" /\ caller[t] = "forward"
  /\ LET s == Order[Len(done[t]) + 1]
     IN  IF ok
           THEN /\ effects' = [effects EXCEPT ![s] = @ + 1]
                /\ done' = [done EXCEPT ![t] = Append(@, s)]
                /\ caller' = [caller EXCEPT ![t] = "check"]
           ELSE UNCHANGED <<effects, done>> /\ caller' = [caller EXCEPT ![t] = "back"]
  /\ progress' = IF ok THEN progress ELSE "compensating"
  /\ UNCHANGED <<position, attempt, status, undoing, spared, failedIds, misused, outcome, broken, heard, delays>>

\* FAULT: the last step is not followed by a look at the cancellation.
CancelledBeforeLast(t) == progress = "compensating" /\ Len(done[t]) < Len(Order)

Cancelled(t) == progress = "compensating"

\* After every handler: was the saga cancelled meanwhile?
CheckCancelled(t) ==
  /\ engine = "trades" /\ caller[t] = "check"
  /\ caller' = [caller EXCEPT ![t] = CASE Cancelled(t) -> "back"
                                       [] ~Cancelled(t) /\ Len(done[t]) = Len(Order) -> "closing"
                                       [] OTHER -> "forward"]
  /\ UNCHANGED <<stepVars, progress, outcome, done, broken, heard, delays>>

\* The compensators, last step first; a failing one does not stop the others.
Compensate(t, ok) ==
  /\ engine = "trades" /\ caller[t] = "back" /\ done[t] # <<>>
  /\ LET s == done[t][Len(done[t])]
     IN  /\ s \in Compensable \/ ok
         /\ effects' = IF ok /\ s \in Compensable THEN [effects EXCEPT ![s] = @ - 1] ELSE effects
  /\ done' = [done EXCEPT ![t] = SubSeq(@, 1, Len(@) - 1)]
  /\ broken' = (broken \/ ~ok)
  /\ UNCHANGED <<position, attempt, status, undoing, spared, failedIds, misused, progress, outcome, caller, heard, delays>>

CloseSaga(t) ==
  /\ engine = "trades"
  /\ caller[t] = "closing" \/ (caller[t] = "back" /\ done[t] = <<>>)
  /\ outcome' = CASE caller[t] = "closing" -> "completed"
                  [] caller[t] = "back" /\ broken -> "failed"
                  [] OTHER -> "compensated"
  /\ progress' = None /\ caller' = [caller EXCEPT ![t] = "idle"]
  /\ done' = [done EXCEPT ![t] = <<>>]
  /\ UNCHANGED <<stepVars, broken, heard, delays>>

\* cancel_in_progress; it answers True even when the last check has passed.
CancelInProgress ==
  /\ engine = "trades" /\ progress # None
  /\ progress' = "compensating"
  /\ heard' = (heard \/ \E t \in Callers : caller[t] \in {"forward", "check"})
  /\ UNCHANGED <<stepVars, outcome, caller, done, broken, delays>>

-----------------------------------------------------------------------------
(* RetryEngine *)

AtMost(n, m) == IF n > m THEN m ELSE n

Fib[n \in Nat] == IF n < 2 THEN 1 ELSE Fib[n - 1] + Fib[n - 2]

\* FAULT: the delay is counted from the attempt that is about to be made.
DelayOfNext(strategy, n) == AtMost((n + 1) * BaseDelay, MaxDelay)

\* compute_delay without jitter; n >= 1.
ComputeDelay(strategy, n) ==
  AtMost(BaseDelay * (CASE strategy = "linear"      -> n
                        [] strategy = "exponential" -> 2 ^ (n - 1)
                        [] strategy = "fibonacci"   -> Fib[n - 1]
                        [] strategy = "constant"    -> 1), MaxDelay)

\* One attempt of execute; `effects' of the first step counts the successes.
Try(strategy, result) ==
  /\ engine = "retry" /\ attempt < MaxAttempts /\ status[Order[1]] = "pending"
  /\ attempt' = attempt + 1
  /\ delays' = IF attempt = 0 THEN delays ELSE Append(delays, ComputeDelay(strategy, attempt))
  /\ status' = [status EXCEPT ![Order[1]] =
                  CASE result = "ok" -> "completed"
                    [] result = "stop" -> "failed"   \* stop_condition
                    [] result = "error" -> IF attempt + 1 = MaxAttempts THEN "failed" ELSE "pending"]
  /\ effects' = IF result = "ok" THEN [effects EXCEPT ![Order[1]] = @ + 1] ELSE effects
  /\ UNCHANGED <<position, undoing, spared, failedIds, misused, tradeVars>>

Strategies == {"linear", "exponential", "fibonacci", "constant"}

\* A call keeps its strategy: the second delay tells it, the first is always BaseDelay.
Attempt ==
  \E strategy \in Strategies, result \in {"ok", "stop", "error"} :
    /\ \A i \in DOMAIN delays : delays[i] = ComputeDelay(strategy, i)
    /\ Try(strategy, result)

\* register_graph, a new saga id, a new call.
StartOver ==
  /\ engine = "steps" => Running /\ Over /\ undoing = None
  /\ engine = "trades" => outcome # None
  /\ engine = "retry" => status[Order[1]] # "pending"
  /\ position' = None /\ attempt' = 0 /\ delays' = <<>>
  /\ status' = [s \in Steps |-> "pending"] /\ effects' = [s \in Steps |-> 0]
  /\ failedIds' = {} /\ misused' = FALSE
  /\ outcome' = None /\ broken' = FALSE /\ heard' = FALSE
  /\ UNCHANGED <<undoing, spared, progress, caller, done>>

Next ==
  \/ RunStart \/ SkipStep \/ (\E r \in {"ok", "late", "error"} : ExecuteStep(r))
  \/ CompensateStart \/ CompensateStep(TRUE) \/ CompensateStep(FALSE) \/ CompensateEnd
  \/ CancelInProgress \/ Attempt \/ (engine \in Engines /\ StartOver)
  \/ \E t \in Callers : \/ ExecuteSaga(t) \/ CheckCancelled(t) \/ CloseSaga(t)
                        \/ \E ok \in BOOLEAN : Handle(t, ok) \/ Compensate(t, ok)

-----------------------------------------------------------------------------
(* Properties *)

\* A status tells what stands in the world: what is completed was done and stands,
\* what was skipped was not begun; and unless compensate interfered with a run,
\* nothing completed rests on a step that was undone or left out.
StatusTellsEffect ==
  engine = "steps" =>
    \A s \in Steps :
      /\ status[s] = "completed" => effects[s] >= 1
      /\ status[s] = "skipped" => effects[s] = 0
      /\ status[s] = "completed" /\ ~misused =>
           \A d \in DependsOn[s] : status[d] \notin {"pending", "skipped", "compensated"}

\* The steps of a saga run once whatever the number of callers; its outcome is true:
\* completed with all of them standing, compensated with none that can be undone;
\* and a cancellation in time is obeyed.
OutcomeTrue ==
  engine = "trades" =>
    /\ \A s \in Steps : effects[s] \in {0, 1}
    /\ outcome = "completed" => (\A s \in Steps : effects[s] = 1) /\ ~heard
    /\ outcome = "compensated" => \A s \in Compensable : effects[s] = 0
    /\ outcome = "failed" => \E s \in Compensable : effects[s] = 1

\* A call is tried no more often than configured, never after it succeeded.
RetriesBounded == engine = "retry" => effects[Order[1]] <= 1 /\ Len(delays) <= MaxAttempts - 1

\* The delay before the n-th repetition is the strategy's n-th, never falling.
DelaysGrow ==
  engine = "retry" =>
    /\ delays # <<>> => Head(delays) = AtMost(BaseDelay, MaxDelay)
    /\ \A i \in 1..(Len(delays) - 1) : delays[i] <= delays[i + 1]
=============================================================================
