----------------------------- MODULE Pipelines -----------------------------
(***************************************************************************)
(* _run_full_pipeline (tests/test_pre3_e2e_full_pipeline.py): the filter,  *)
(* a lease on the action, the workflow of the action, its saga, an event   *)
(* in the outbox.  Several processes are given the same action, with the   *)
(* lease database, the workflow's log and the saga's state file in common. *)
(* A process may stop for longer than the lease lives, or die.             *)
(* LeaseManager, DurableStateMachine, SagaEngine and Outbox are modelled   *)
(* one by one in the modules of these names; here each is what the others  *)
(* see of it.                                                              *)
(***************************************************************************)
EXTENDS Integers, Sequences, FiniteSets, FiniteSetsExt

CONSTANTS
  None,
  Processes,  \* the processes that run the pipeline for one action
  N,          \* register_kmo_phases: the number of phases of the saga
  TTL         \* ttl_sec of the lease

VARIABLES
  pc,         \* where a process is in _run_full_pipeline
  lease,      \* the row of the action: [by, left], or None
  workflow,   \* the event log of wf-<action_id>
  file,       \* the state file of saga-<action_id>, or None
  mem,        \* the SagaRun of a process
  undo,       \* the locals of its _compensate: idx, and any_undo_failed
  ran,        \* history: how often a phase was done and not undone
  published,  \* the outbox: the status of each event
  early       \* history: who lost the lease before the workflow was started

vars == <<pc, lease, workflow, file, mem, undo, ran, published, early>>

Engines == {"pipeline"}
Phases == 1..N
Settled == {"DONE", "COMPENSATED", "PARTIAL_COMPENSATION"}

Start ==
  /\ pc = [p \in Processes |-> "idle"] /\ lease = None
  /\ workflow = <<>> /\ file = None /\ mem = [p \in Processes |-> None]
  /\ undo = [p \in Processes |-> None]
  /\ ran = [k \in Phases |-> 0] /\ published = <<>> /\ early = {}

Goto(p, l) == pc' = [pc EXCEPT ![p] = l]
Save(p, run) == mem' = [mem EXCEPT ![p] = run] /\ file' = run

-----------------------------------------------------------------------------
(* Before the saga *)

\* classify_input without a frontmatter: 4 is SECRET, 1 is PUBLIC, and a
\* pipeline expects PUBLIC.
Classify(secret) == IF secret THEN 4 ELSE 1

\* acquire: an expired row makes room.  A blocked prompt and a lease conflict
\* change nothing.
Acquire(p) ==
  /\ pc[p] = "idle"
  /\ \E secret \in BOOLEAN : Classify(secret) <= 1
  /\ IF lease = None THEN TRUE ELSE lease.left = 0
  /\ lease' = [by |-> p, left |-> TTL] /\ Goto(p, "start")
  /\ UNCHANGED <<workflow, file, mem, ran, published, early, undo>>

\* FAULT: a workflow that exists is joined.
Startable == Len(workflow) >= 0

\* start_workflow fails if the workflow has a log.
NotStarted == workflow = <<>>

\* The check of start_workflow, under a lock of this process only; when it
\* raises, finally releases the lease.
CheckWorkflow(p) ==
  /\ pc[p] = "start"
  /\ Goto(p, IF NotStarted THEN "append" ELSE "release")
  /\ UNCHANGED <<lease, workflow, file, mem, ran, published, early, undo>>

\* start_workflow appends WORKFLOW_STARTED, transition_phase STATE_TRANSITION.
AppendEvent(p) ==
  /\ \/ pc[p] = "append" /\ Goto(p, "approve") /\ workflow' = Append(workflow, "started")
     \/ pc[p] = "approve" /\ Goto(p, "execute") /\ workflow' = Append(workflow, "approved")
  /\ UNCHANGED <<lease, file, mem, ran, published, early, undo>>

-----------------------------------------------------------------------------
(* SagaEngine.execute *)

NewRun == [st |-> [k \in Phases |-> "PENDING"], at |-> 1, overall |-> "PENDING"]
At(run, k, s) == [run EXCEPT !.st[k] = s]
Overall(run, s) == [run EXCEPT !.overall = s]

\* execute loads the state file, or writes a new one.
Execute(p) ==
  /\ pc[p] = "execute" /\ Goto(p, "loop")
  /\ Save(p, IF file = None THEN NewRun ELSE file)
  /\ UNCHANGED <<lease, workflow, ran, published, early, undo>>

\* _run_loop: a settled run is returned, a failed one compensated, any other
\* goes on forward.
RunLoop(p) ==
  /\ pc[p] = "loop"
  /\ CASE mem[p].overall \in Settled -> Goto(p, "publish") /\ UNCHANGED <<file, mem>>
       [] mem[p].overall = "FAILED"  -> Goto(p, "compensate") /\ UNCHANGED <<file, mem>>
       [] OTHER -> Goto(p, "phase") /\ Save(p, Overall(mem[p], "RUNNING"))
  /\ UNCHANGED <<lease, workflow, ran, published, early, undo>>

ToDo(run) == {k \in run.at..N : run.st[k] # "DONE"}

\* The next phase is RUNNING, or the run is DONE.
NextPhase(p) ==
  /\ pc[p] = "phase"
  /\ IF ToDo(mem[p]) = {}
       THEN Goto(p, "publish") /\ Save(p, Overall(mem[p], "DONE"))
       ELSE LET k == Min(ToDo(mem[p]))
            IN  Goto(p, "do") /\ Save(p, [At(mem[p], k, "RUNNING") EXCEPT !.at = k])
  /\ UNCHANGED <<lease, workflow, ran, published, early, undo>>

\* do_func.
Do(p) ==
  /\ pc[p] = "do" /\ Goto(p, "done")
  /\ ran' = [ran EXCEPT ![mem[p].at] = @ + 1]
  /\ UNCHANGED <<lease, workflow, file, mem, published, early, undo>>

SavePhase(p) ==
  /\ pc[p] = "done" /\ Goto(p, "phase")
  /\ Save(p, At(mem[p], mem[p].at, "DONE"))
  /\ UNCHANGED <<lease, workflow, ran, published, early, undo>>

\* do_func raises, or a check around it refuses.
PhaseFails(p) ==
  /\ pc[p] = "do" /\ Goto(p, "compensate")
  /\ Save(p, Overall(At(mem[p], mem[p].at, "FAILED"), "FAILED"))
  /\ UNCHANGED <<lease, workflow, ran, published, early, undo>>

Compensate(p) ==
  /\ pc[p] = "compensate" /\ Goto(p, "undo")
  /\ Save(p, Overall(mem[p], "COMPENSATING"))
  /\ undo' = [undo EXCEPT ![p] = [at |-> None, failed |-> FALSE]]
  /\ UNCHANGED <<lease, workflow, ran, published, early>>

DoneIn(run) == {k \in Phases : run.st[k] = "DONE"}

\* The last phase that is DONE is UNDOING, or the compensation is over.
NextUndo(p) ==
  /\ pc[p] = "undo"
  /\ IF DoneIn(mem[p]) # {}
       THEN LET k == Max(DoneIn(mem[p]))
            IN  /\ Goto(p, "undoing") /\ Save(p, At(mem[p], k, "UNDOING"))
                /\ undo' = [undo EXCEPT ![p].at = k]
       ELSE /\ Goto(p, "publish")
            /\ Save(p, Overall(mem[p], IF undo[p].failed THEN "PARTIAL_COMPENSATION"
                                         ELSE "COMPENSATED"))
            /\ undo' = [undo EXCEPT ![p] = None]
  /\ UNCHANGED <<lease, workflow, ran, published, early>>

\* undo_func, which may raise, and the write after it.
Undo(p) ==
  /\ pc[p] = "undoing" /\ Goto(p, "undo")
  /\ LET k == undo[p].at
     IN  \/ /\ Save(p, At(mem[p], k, "UNDONE")) /\ ran' = [ran EXCEPT ![k] = @ - 1]
            /\ UNCHANGED undo
         \/ /\ Save(p, At(mem[p], k, "UNDO_FAILED")) /\ UNCHANGED ran
            /\ undo' = [undo EXCEPT ![p].failed = TRUE]
  /\ UNCHANGED <<lease, workflow, published, early>>

-----------------------------------------------------------------------------
(* After the saga *)

Publish(p) ==
  /\ pc[p] = "publish" /\ Goto(p, "release")
  /\ published' = Append(published, mem[p].overall)
  /\ UNCHANGED <<lease, workflow, file, mem, ran, early, undo>>

\* release, in finally: only the row of this token.
Release(p) ==
  /\ pc[p] = "release" /\ Goto(p, "idle")
  /\ lease' = IF lease = None THEN None ELSE IF lease.by = p THEN None ELSE lease
  /\ mem' = [mem EXCEPT ![p] = None]
  /\ UNCHANGED <<workflow, file, ran, published, early, undo>>

\* The process dies; its lease stays.
Die(p) ==
  /\ pc[p] # "idle" /\ Goto(p, "idle")
  /\ mem' = [mem EXCEPT ![p] = None] /\ undo' = [undo EXCEPT ![p] = None]
  /\ UNCHANGED <<lease, workflow, file, ran, published, early>>

Tick ==
  /\ lease # None /\ lease.left > 0
  /\ lease' = [lease EXCEPT !.left = @ - 1]
  /\ early' = early \cup {p \in Processes : /\ p = lease.by /\ lease.left = 1
                                            /\ pc[p] \in {"start", "append"}}
  /\ UNCHANGED <<pc, workflow, file, mem, ran, published, undo>>

Step(p) ==
  \/ Acquire(p) \/ CheckWorkflow(p) \/ AppendEvent(p)
  \/ Execute(p) \/ RunLoop(p) \/ NextPhase(p) \/ Do(p) \/ SavePhase(p) \/ PhaseFails(p)
  \/ Compensate(p) \/ NextUndo(p) \/ Undo(p)
  \/ Publish(p) \/ Release(p) \/ Die(p)

Next == (\E p \in Processes : Step(p)) \/ Tick

-----------------------------------------------------------------------------
(* Properties *)

InSaga == {p \in Processes : pc[p] \notin {"idle", "start", "append", "release"}}

\* Nobody renews the lease of a pipeline, so it may lapse anywhere.  If it does
\* once the workflow is started, a second process still finds the workflow and
\* goes no further: the action is worked on by one engine, each phase is done
\* once, and the one event tells what the state file tells.  Only a lease that
\* lapses between acquire and start_workflow puts two engines on one run_id.
RunsOnceUnlessEarly ==
  early = {} =>
    /\ Cardinality(InSaga) <= 1
    /\ \A k \in Phases : ran[k] \in {0, 1}
    /\ Len(published) <= 1 /\ (published # <<>> => published[1] = file.overall)
=============================================================================
