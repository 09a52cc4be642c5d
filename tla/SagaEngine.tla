----------------------------- MODULE SagaEngine -----------------------------
(***************************************************************************)
(* One run of SagaEngine (saga-pattern/kmo_saga_engine.py): phases with a  *)
(* do and an undo function, a state file that is replaced atomically after *)
(* every transition, and a process that may die between any two writes or  *)
(* effects and is started again with execute or resume.                    *)
(*                                                                         *)
(* mem is the SagaRun object of the running engine, disk the state file.   *)
(* effect records what the do and undo functions did to the world, which   *)
(* the engine itself never sees.  One engine works on a run at a time: the *)
(* lease of the pipeline provides for that, the engine has no lock.        *)
(***************************************************************************)
EXTENDS Naturals

CONSTANTS
  N,     \* number of registered phases
  None   \* no state file, no run in memory

ASSUME PhaseAssumption == N \in Nat \ {0}

Phases == 1..N

PhaseStatus ==
  {"PENDING", "RUNNING", "DONE", "FAILED", "UNDOING", "UNDONE", "UNDO_FAILED"}
SagaStatus ==
  {"PENDING", "RUNNING", "DONE", "FAILED", "COMPENSATING", "COMPENSATED",
   "PARTIAL_COMPENSATION"}

\* A SagaRun: the status of each phase, current_phase_idx, overall_status.
SagaRun == [st: [Phases -> PhaseStatus], idx: 1..N, overall: SagaStatus]

ASSUME NoneAssumption == None \notin SagaRun

VARIABLES
  disk,        \* <run_id>-state.json
  mem,         \* the run in the memory of the engine
  pc,          \* where the engine is; "idle" after a return, "down" after a crash
  i,           \* the loop variable idx of _run_loop and _compensate
  undoFailed,  \* any_undo_failed of _compensate
  effect,      \* history: what each phase has left in the world
  interrupted, \* history: a compensation was cut short
  forgotten,   \* history: phases whose undo had failed when that happened
  restarted,   \* history: execute was called while a phase was RUNNING
  doubled      \* history: phases whose do_func ran twice with no undo between

vars == <<disk, mem, pc, i, undoFailed, effect, interrupted, forgotten, restarted, doubled>>
history == <<interrupted, forgotten, restarted>>

Stopped == {"idle", "down"}
Settled == {"DONE", "COMPENSATED", "PARTIAL_COMPENSATION"}

Init ==
  /\ disk = None /\ mem = None
  /\ pc = "idle" /\ i = 1 /\ undoFailed = FALSE
  /\ effect = [p \in Phases |-> "none"]
  /\ interrupted = FALSE /\ forgotten = {} /\ restarted = FALSE /\ doubled = {}

\* _atomic_write_state: the file is replaced by the run in memory.
Write(run) == mem' = run /\ disk' = run

SetPhase(run, p, s) == [run EXCEPT !.st[p] = s]

-----------------------------------------------------------------------------
(* Entry points *)

InitialRun == [st |-> [p \in Phases |-> "PENDING"], idx |-> 1, overall |-> "PENDING"]

RunningPhases(run) == {p \in Phases : run.st[p] = "RUNNING"}

\* execute: a new run, or the persisted one taken as it is.
Execute ==
  /\ pc \in Stopped
  /\ IF disk = None THEN Write(InitialRun) ELSE mem' = disk /\ UNCHANGED disk
  /\ restarted' = (restarted \/ (disk # None /\ RunningPhases(disk) # {}))
  /\ pc' = "loop"
  /\ UNCHANGED <<i, undoFailed, effect, interrupted, forgotten, doubled>>

\* FAULT: a phase that was RUNNING is taken up again.
RecoveredAsIs(run) == run

\* resume: the first RUNNING phase has crashed; the run is FAILED.
Recovered(run) ==
  IF RunningPhases(run) = {} THEN run
  ELSE LET p == CHOOSE q \in RunningPhases(run) : \A r \in RunningPhases(run) : q <= r
       IN  [SetPhase(run, p, "FAILED") EXCEPT !.overall = "FAILED"]

Resume ==
  /\ pc \in Stopped /\ disk # None
  /\ Write(Recovered(disk))
  /\ pc' = "loop"
  /\ UNCHANGED <<i, undoFailed, effect, history, doubled>>

-----------------------------------------------------------------------------
(* _run_loop *)

\* FAULT: a run whose compensation was cut short counts as settled.
SettledOrCompensating(s) == s \in Settled \cup {"COMPENSATING"}

IsSettled(s) == s \in Settled

\* FAULT: the phase at current_phase_idx counts as finished.
FirstIdxAfter(run) == run.idx + 1

FirstIdx(run) == run.idx

\* A settled run is returned as it is, a FAILED one is compensated, and any
\* other goes forward from current_phase_idx: a COMPENSATING one as well.
Loop ==
  /\ pc = "loop"
  /\ \/ /\ IsSettled(mem.overall)
        /\ pc' = "idle" /\ mem' = None
        /\ UNCHANGED <<disk, i>>
     \/ /\ mem.overall = "FAILED"
        /\ pc' = "compensate"
        /\ UNCHANGED <<disk, mem, i>>
     \/ /\ ~IsSettled(mem.overall) /\ mem.overall # "FAILED"
        /\ Write([mem EXCEPT !.overall = "RUNNING"])
        /\ pc' = "phase" /\ i' = FirstIdx(mem)
  /\ UNCHANGED <<undoFailed, effect, history, doubled>>

\* FAULT: current_phase_idx is already that of the next phase.
StartedNext(run, p) == [SetPhase(run, p, "RUNNING") EXCEPT !.idx = p + 1]

\* FAULT: the phase is marked DONE before do_func runs.
StartedAsDone(run, p) == [SetPhase(run, p, "DONE") EXCEPT !.idx = p]

Started(run, p) == [SetPhase(run, p, "RUNNING") EXCEPT !.idx = p]

\* DONE phases are skipped; the next one is marked RUNNING.
StartPhase(p) ==
  /\ pc = "phase"
  /\ p >= i /\ mem.st[p] # "DONE"
  /\ \A q \in i..(p - 1) : mem.st[q] = "DONE"
  /\ Write(Started(mem, p))
  /\ pc' = "do" /\ i' = p
  /\ UNCHANGED <<undoFailed, effect, history, doubled>>

\* No phase is left: the run is DONE.
FinishForward ==
  /\ pc = "phase"
  /\ \A p \in i..N : mem.st[p] = "DONE"
  /\ disk' = [mem EXCEPT !.overall = "DONE"]
  /\ pc' = "idle" /\ mem' = None
  /\ UNCHANGED <<i, undoFailed, effect, history, doubled>>

\* The admit or the input-membrane check refuses, or do_func raises.
DoFails ==
  /\ pc = "do" /\ pc' = "fail"
  /\ UNCHANGED <<disk, mem, i, undoFailed, effect, history, doubled>>

\* do_func returns an output: its effect is in the world, and not on disk.
DoReturns ==
  /\ pc = "do" /\ pc' = "check"
  /\ effect' = [effect EXCEPT ![i] = "applied"]
  /\ doubled' = IF effect[i] = "applied" THEN doubled \cup {i} ELSE doubled
  /\ UNCHANGED <<disk, mem, i, undoFailed, history>>

\* The output membrane and the exit criteria pass, and the phase is DONE.
Commit ==
  /\ pc = "check"
  /\ Write(SetPhase(mem, i, "DONE"))
  /\ pc' = "phase" /\ i' = i + 1
  /\ UNCHANGED <<undoFailed, effect, history, doubled>>

\* The output membrane or the exit criteria refuse, or the write raises: it
\* is inside the try.
CheckFails ==
  /\ pc = "check" /\ pc' = "fail"
  /\ UNCHANGED <<disk, mem, i, undoFailed, effect, history, doubled>>

\* except: the phase and the run are FAILED.  The apoptosis and wound-healing
\* hooks that follow cannot change the run or raise.
FailPhase ==
  /\ pc = "fail"
  /\ Write([SetPhase(mem, i, "FAILED") EXCEPT !.overall = "FAILED"])
  /\ pc' = "compensate"
  /\ UNCHANGED <<i, undoFailed, effect, history, doubled>>

-----------------------------------------------------------------------------
(* _compensate *)

StartCompensation ==
  /\ pc = "compensate"
  /\ Write([mem EXCEPT !.overall = "COMPENSATING"])
  /\ pc' = "undo" /\ i' = N /\ undoFailed' = FALSE
  /\ UNCHANGED <<effect, history, doubled>>

\* FAULT: range(len - 1, 0, -1) never reaches the first phase.
ToUndoButFirst == {p \in 2..i : mem.st[p] = "DONE"}

\* The phases the chain has still to undo.
ToUndo == {p \in 1..i : mem.st[p] = "DONE"}

\* FAULT: the undo chain runs in the order of execution.
NextToUndoForward(p) == p \in ToUndo /\ \A q \in ToUndo : p <= q

\* The next one: the last of them.
NextToUndo(p) == p \in ToUndo /\ \A q \in ToUndo : q <= p

StartUndo(p) ==
  /\ pc = "undo"
  /\ NextToUndo(p)
  /\ Write(SetPhase(mem, p, "UNDOING"))
  /\ pc' = "undoing" /\ i' = p
  /\ UNCHANGED <<undoFailed, effect, history, doubled>>

\* undo_func returns, or raises and leaves the effect in place.
UndoReturns ==
  /\ pc = "undoing" /\ pc' = "undone"
  /\ mem' = SetPhase(mem, i, "UNDONE")
  /\ effect' = [effect EXCEPT ![i] = "undone"]
  /\ UNCHANGED <<disk, i, undoFailed, history, doubled>>

\* FAULT: a failed undo is reported in the phase only.
UndoFailedAfter == undoFailed

UndoFailedNow == TRUE

UndoRaises ==
  /\ pc = "undoing" /\ pc' = "undone"
  /\ mem' = SetPhase(mem, i, "UNDO_FAILED")
  /\ undoFailed' = UndoFailedNow
  /\ UNCHANGED <<disk, i, effect, history, doubled>>

WriteUndo ==
  /\ pc = "undone"
  /\ Write(mem)
  /\ pc' = "undo" /\ i' = i - 1
  /\ UNCHANGED <<undoFailed, effect, history, doubled>>

\* The chain is complete.
FinishCompensation ==
  /\ pc = "undo"
  /\ ToUndo = {}
  /\ disk' = [mem EXCEPT !.overall =
                IF undoFailed THEN "PARTIAL_COMPENSATION" ELSE "COMPENSATED"]
  /\ pc' = "idle" /\ mem' = None
  /\ UNCHANGED <<i, undoFailed, effect, history, doubled>>

-----------------------------------------------------------------------------
\* The process dies, or a write outside the try raises: the run in memory is
\* lost, the file keeps its last content.
Crash ==
  /\ pc \notin Stopped
  /\ pc' = "down" /\ mem' = None
  /\ interrupted' = (interrupted \/ disk.overall = "COMPENSATING")
  /\ forgotten' = IF disk.overall # "COMPENSATING" THEN forgotten
                  ELSE forgotten \cup {p \in Phases : disk.st[p] = "UNDO_FAILED"}
  /\ UNCHANGED <<disk, i, undoFailed, effect, restarted, doubled>>

\* What the engine does by itself once execute or resume was called.
Engine ==
  \/ Loop \/ FinishForward \/ DoFails \/ DoReturns \/ Commit \/ CheckFails
  \/ FailPhase \/ StartCompensation \/ UndoReturns \/ UndoRaises \/ WriteUndo
  \/ FinishCompensation
  \/ \E p \in Phases : StartPhase(p) \/ StartUndo(p)

Next == Execute \/ Resume \/ Engine \/ Crash

Spec == Init /\ [][Next]_vars

\* A started engine takes its next step; when it is started is left open.
FairSpec == Spec /\ WF_vars(Engine)

-----------------------------------------------------------------------------
(* Properties *)

TypeOK ==
  /\ disk \in SagaRun \cup {None} /\ mem \in SagaRun \cup {None}
  /\ pc \in Stopped \cup {"loop", "phase", "do", "check", "fail", "compensate", "undo",
             "undoing", "undone"}
  /\ i \in 0..(N + 1)
  /\ undoFailed \in BOOLEAN
  /\ effect \in [Phases -> {"none", "applied", "undone"}]
  /\ interrupted \in BOOLEAN /\ forgotten \subseteq Phases
  /\ restarted \in BOOLEAN /\ doubled \subseteq Phases

\* A run that is DONE has the effect of every phase in the world ("no partial
\* commits", line 9): neither a crash nor a restart loses or skips one, unless
\* it cut a compensation short.
DoneMeansAll ==
  disk # None /\ disk.overall = "DONE" /\ ~interrupted =>
    \A p \in Phases : disk.st[p] = "DONE" /\ effect[p] = "applied"

\* The unconditional promise of line 9.
NoPartialCommit ==
  disk # None /\ disk.overall = "DONE" =>
    \A p \in Phases : effect[p] = "applied"

\* A COMPENSATED run has left nothing in the world but, at most, the effect of
\* the one phase that failed (_compensate does not undo it, it was not DONE),
\* unless a compensation of it was cut short: the next one leaves alone what
\* the first had begun, and may be COMPENSATED with that effect in the world.
CompensatedMeansNone ==
  disk # None /\ disk.overall = "COMPENSATED" /\ ~interrupted =>
    \E f \in Phases : /\ disk.st[f] = "FAILED"
                     /\ \A p \in Phases \ {f} : effect[p] # "applied"

\* A failed undo is reported: the run is PARTIAL_COMPENSATION, not COMPENSATED.
\* The one way to be forgotten is a crash in the compensation after the failure
\* was written: the next compensation skips the phase, which is not DONE, and
\* starts with any_undo_failed = False.  No other crash or restart does it.  (A
\* crash before the failure was written leaves UNDOING: nothing knows of it.)
UndoFailureReported ==
  disk # None /\ disk.overall = "COMPENSATED" =>
    {p \in Phases : disk.st[p] = "UNDO_FAILED"} \subseteq forgotten

\* The chain is undone backwards: while a phase is being undone, or is undone,
\* no later phase is DONE or at work.  A later one may have failed, or its undo
\* may have: the chain goes on past it.  After a compensation that was cut short
\* the run goes forward over undone phases, and nothing is said of it.
ReverseOrder ==
  mem # None /\ ~interrupted =>
    \A p, q \in Phases :
      p < q /\ mem.st[p] \in {"UNDOING", "UNDONE"} =>
        mem.st[q] \in {"PENDING", "FAILED", "UNDONE", "UNDO_FAILED"}

\* A do_func runs a second time on top of its own effect only when execute
\* took up a run that had crashed in that phase, or after a compensation that
\* was cut short: resume never repeats a phase.
RepeatedOnlyByExecute == doubled # {} => restarted \/ interrupted

\* A phase is started only when the effect of every earlier one is there, unless
\* a compensation was cut short: what it has undone is then gone, and the run
\* goes forward all the same (NoPartialCommit fails for that reason).
StartedInOrder ==
  [][\A p \in Phases : StartPhase(p) /\ ~interrupted =>
       \A q \in 1..(p - 1) : effect[q] = "applied"]_vars

\* Once engines no longer die, a run that is taken up whenever nobody works on
\* it settles.
Settles ==
  /\ <>[](pc # "down")
  /\ []<>(pc \notin Stopped)
  => [](disk # None => <>(disk # None /\ disk.overall \in
              {"DONE", "COMPENSATED", "PARTIAL_COMPENSATION"}))
=============================================================================
