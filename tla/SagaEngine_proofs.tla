--------------------------- MODULE SagaEngine_proofs ---------------------------
(***************************************************************************)
(* For any number of phases, crashes and restarts: a run of the saga that  *)
(* is DONE has done everything, and one that is COMPENSATED has left       *)
(* nothing but, at most, the effect of the phase that failed.              *)
(***************************************************************************)
EXTENDS SagaEngine, TLAPS

-----------------------------------------------------------------------------
(* What the helpers of the engine return *)

\* Stated for any p: a CHOOSE in resume need not be known to find its phase.
LEMMA SetPhaseTyped ==
  ASSUME NEW run \in SagaRun, NEW p, NEW s \in PhaseStatus
  PROVE  /\ SetPhase(run, p, s) \in SagaRun
         /\ SetPhase(run, p, s).idx = run.idx
         /\ SetPhase(run, p, s).overall = run.overall
         /\ \A q \in Phases : SetPhase(run, p, s).st[q] = IF q = p THEN s ELSE run.st[q]
BY DEF SagaRun, SetPhase

LEMMA OverallTyped ==
  ASSUME NEW run \in SagaRun, NEW s \in SagaStatus
  PROVE  /\ [run EXCEPT !.overall = s] \in SagaRun
         /\ [run EXCEPT !.overall = s].idx = run.idx
         /\ [run EXCEPT !.overall = s].overall = s
         /\ [run EXCEPT !.overall = s].st = run.st
BY DEF SagaRun

LEMMA StartedTyped ==
  ASSUME NEW run \in SagaRun, NEW p \in Phases
  PROVE  /\ Started(run, p) \in SagaRun
         /\ Started(run, p).idx = p
         /\ Started(run, p).overall = run.overall
         /\ \A q \in Phases : Started(run, p).st[q] = IF q = p THEN "RUNNING" ELSE run.st[q]
<1>1. SetPhase(run, p, "RUNNING") \in SagaRun
  BY SetPhaseTyped DEF PhaseStatus
<1> QED BY <1>1, SetPhaseTyped DEF Started, SagaRun, Phases, PhaseStatus

LEMMA FailedTyped ==
  ASSUME NEW run \in SagaRun, NEW p
  PROVE  LET failed == [SetPhase(run, p, "FAILED") EXCEPT !.overall = "FAILED"]
         IN  /\ failed \in SagaRun
             /\ failed.overall = "FAILED" /\ failed.idx = run.idx
             /\ \A q \in Phases : failed.st[q] = IF q = p THEN "FAILED" ELSE run.st[q]
<1>1. SetPhase(run, p, "FAILED") \in SagaRun
  BY SetPhaseTyped DEF PhaseStatus
<1> QED BY <1>1, SetPhaseTyped DEF SagaRun, SagaStatus, PhaseStatus

LEMMA InitialTyped ==
  /\ InitialRun \in SagaRun
  /\ InitialRun.idx = 1 /\ InitialRun.overall = "PENDING"
  /\ \A q \in Phases : InitialRun.st[q] = "PENDING"
BY PhaseAssumption DEF InitialRun, SagaRun, PhaseStatus, SagaStatus, Phases

\* resume either takes the run as it is, or makes it FAILED and finishes
\* nothing.
LEMMA RecoveredTyped ==
  ASSUME NEW run \in SagaRun
  PROVE  /\ Recovered(run) \in SagaRun
         /\ \/ Recovered(run) = run /\ RunningPhases(run) = {}
            \/ Recovered(run).overall = "FAILED" /\ RunningPhases(run) # {}
         /\ Recovered(run).idx = run.idx
         /\ \A q \in Phases : Recovered(run).st[q] \in {"FAILED", run.st[q]}
         /\ \A p \in Phases : RunningPhases(run) = {p} =>
              \A q \in Phases : Recovered(run).st[q] = IF q = p THEN "FAILED" ELSE run.st[q]
<1>1. CASE RunningPhases(run) = {}
  BY <1>1 DEF Recovered
<1>2. CASE RunningPhases(run) # {}
  <2> DEFINE p == CHOOSE q \in RunningPhases(run) : \A r \in RunningPhases(run) : q <= r
  <2>1. Recovered(run) = [SetPhase(run, p, "FAILED") EXCEPT !.overall = "FAILED"]
    BY <1>2 DEF Recovered
  <2>2. ASSUME NEW q \in Phases, RunningPhases(run) = {q} PROVE p = q
    BY <2>2 DEF Phases
  <2> HIDE DEF p
  <2> QED BY <1>2, <2>1, <2>2, FailedTyped
<1> QED BY <1>1, <1>2

-----------------------------------------------------------------------------
(* The invariant of the forward side *)

\* Where the loop variable is, and that the file is what the engine holds but
\* for the result of an undo that it has still to write.
InStep ==
  /\ pc \in Stopped <=> mem = None
  /\ pc \notin Stopped => disk \in SagaRun
  /\ pc \notin Stopped \cup {"undone"} => mem = disk
  /\ pc \in {"do", "check", "fail", "undoing", "undone"} => i \in Phases
  /\ pc \in {"do", "check"} => i = disk.idx
  /\ pc = "phase" => i \in 1..(N + 1)
  /\ pc = "undo" => i \in 0..N
  /\ pc = "undoing" => disk.st[i] = "UNDOING"
  /\ pc = "undone" => /\ mem.overall = disk.overall
                      /\ \A q \in Phases : mem.st[q] = "DONE" => disk.st[q] = "DONE"

\* What the file calls DONE is in the world, and at the check what do_func has
\* just returned.
DoneIsApplied ==
  /\ disk # None => \A q \in Phases : disk.st[q] = "DONE" => effect[q] = "applied"
  /\ pc = "check" => effect[i] = "applied"

\* Going forward, nothing before current_phase_idx is left out.
PrefixDone ==
  /\ disk # None /\ disk.overall \in {"PENDING", "RUNNING"} =>
       \A q \in Phases : q < disk.idx => disk.st[q] = "DONE"
  /\ pc = "phase" => \A q \in Phases : q < i => disk.st[q] = "DONE"

\* A compensation is under way only while the engine is in _compensate, and
\* forward statuses only outside of it.
Sides ==
  /\ disk # None /\ disk.overall = "COMPENSATING" => pc \in {"undo", "undoing", "undone"}
  /\ pc \in {"undo", "undoing", "undone"} => disk.overall = "COMPENSATING"
  /\ pc \in {"phase", "do", "check", "fail"} => disk.overall = "RUNNING"
  /\ pc = "compensate" => disk.overall = "FAILED"

Finished ==
  disk # None /\ disk.overall = "DONE" => \A q \in Phases : disk.st[q] = "DONE"

SagaInv ==
  /\ TypeOK /\ InStep /\ DoneIsApplied
  /\ ~interrupted => PrefixDone /\ Sides /\ Finished

LEMMA InitSagaInv == Init => SagaInv
<1> SUFFICES ASSUME Init PROVE SagaInv
  OBVIOUS
<1>0. 1 \in 0..(N + 1) /\ effect \in [Phases -> {"none", "applied", "undone"}]
  BY PhaseAssumption DEF Init
<1>1. TypeOK
  BY <1>0 DEF Init, TypeOK, Stopped
<1>2. InStep /\ DoneIsApplied /\ PrefixDone /\ Sides /\ Finished
  BY DEF Init, InStep, DoneIsApplied, PrefixDone, Sides, Finished, Stopped
<1> QED BY <1>1, <1>2 DEF SagaInv

\* The file and the run in memory are the same, and a run, in every state
\* between execute and return but the one after an undo.
LEMMA HasRun ==
  ASSUME SagaInv, pc \notin Stopped, pc # "undone"
  PROVE  disk \in SagaRun /\ mem = disk /\ disk # None
BY NoneAssumption DEF SagaInv, InStep

-----------------------------------------------------------------------------
(* execute and resume *)

LEMMA ExecuteKeeps == SagaInv /\ Execute => SagaInv'
<1> SUFFICES ASSUME SagaInv, Execute PROVE SagaInv'
  OBVIOUS
<1>1. /\ pc' = "loop" /\ UNCHANGED <<i, undoFailed, effect, interrupted, forgotten, doubled>>
      /\ pc \in Stopped /\ restarted' \in BOOLEAN
  BY DEF Execute, SagaInv, TypeOK
<1>2. disk' \in SagaRun /\ mem' = disk' /\ disk' # None
      /\ (disk' = disk \/ disk' = InitialRun)
  BY InitialTyped, NoneAssumption DEF Execute, Write, SagaInv, TypeOK
<1>3. TypeOK'
  BY <1>1, <1>2 DEF SagaInv, TypeOK, Stopped
<1>4. InStep'
  BY <1>1, <1>2 DEF InStep, Stopped
<1>5. DoneIsApplied'
  BY <1>1, <1>2, InitialTyped DEF SagaInv, DoneIsApplied
<1>6. ~interrupted => PrefixDone' /\ Sides' /\ Finished'
  <2> SUFFICES ASSUME ~interrupted PROVE PrefixDone' /\ Sides' /\ Finished'
    OBVIOUS
  <2>1. CASE disk' = disk
    BY <1>1, <1>2, <2>1 DEF SagaInv, PrefixDone, Sides, Finished, Stopped
  <2>2. CASE disk' = InitialRun
    BY <1>1, <1>2, <2>2, InitialTyped DEF PrefixDone, Sides, Finished, Phases
  <2> QED BY <1>2, <2>1, <2>2
<1> QED BY <1>1, <1>3, <1>4, <1>5, <1>6 DEF SagaInv

LEMMA ResumeKeeps == SagaInv /\ Resume => SagaInv'
<1> SUFFICES ASSUME SagaInv, Resume PROVE SagaInv'
  OBVIOUS
<1>1. /\ pc' = "loop"
      /\ UNCHANGED <<i, undoFailed, effect, interrupted, forgotten, restarted, doubled>>
      /\ pc \in Stopped /\ disk # None /\ disk' = Recovered(disk) /\ mem' = disk'
  BY DEF Resume, Write, history
<1>2. disk \in SagaRun
  BY <1>1 DEF SagaInv, TypeOK
<1>3. /\ disk' \in SagaRun /\ disk' # None
      /\ (disk' = disk \/ disk'.overall = "FAILED")
      /\ \A q \in Phases : disk'.st[q] = "DONE" => disk.st[q] = "DONE"
  BY <1>1, <1>2, RecoveredTyped, NoneAssumption
<1>4. TypeOK'
  BY <1>1, <1>3 DEF SagaInv, TypeOK, Stopped
<1>5. InStep'
  BY <1>1, <1>3 DEF InStep, Stopped
<1>6. DoneIsApplied'
  BY <1>1, <1>3 DEF SagaInv, DoneIsApplied
<1>7. ~interrupted => PrefixDone' /\ Sides' /\ Finished'
  BY <1>1, <1>3 DEF SagaInv, PrefixDone, Sides, Finished, Stopped
<1> QED BY <1>1, <1>4, <1>5, <1>6, <1>7 DEF SagaInv

-----------------------------------------------------------------------------
(* _run_loop *)

LEMMA LoopKeeps == SagaInv /\ Loop => SagaInv'
<1> SUFFICES ASSUME SagaInv, Loop PROVE SagaInv'
  OBVIOUS
<1>1. /\ pc = "loop"
      /\ UNCHANGED <<undoFailed, effect, interrupted, forgotten, restarted, doubled>>
      /\ disk \in SagaRun /\ mem = disk /\ disk # None
  BY HasRun DEF Loop, history, Stopped
<1>2. CASE pc' = "idle" /\ mem' = None /\ UNCHANGED <<disk, i>>
  <2>1. TypeOK' /\ InStep'
    BY <1>1, <1>2 DEF SagaInv, TypeOK, InStep, Stopped
  <2>2. DoneIsApplied' /\ (~interrupted => PrefixDone' /\ Sides' /\ Finished')
    BY <1>1, <1>2 DEF SagaInv, DoneIsApplied, PrefixDone, Sides, Finished
  <2> QED BY <1>1, <2>1, <2>2 DEF SagaInv
<1>3. CASE pc' = "compensate" /\ mem.overall = "FAILED" /\ UNCHANGED <<disk, mem, i>>
  <2>1. TypeOK' /\ InStep'
    BY <1>1, <1>3 DEF SagaInv, TypeOK, InStep, Stopped
  <2>2. DoneIsApplied' /\ (~interrupted => PrefixDone' /\ Sides' /\ Finished')
    BY <1>1, <1>3 DEF SagaInv, DoneIsApplied, PrefixDone, Sides, Finished
  <2> QED BY <1>1, <2>1, <2>2 DEF SagaInv
<1>4. CASE /\ ~IsSettled(mem.overall) /\ mem.overall # "FAILED"
           /\ Write([mem EXCEPT !.overall = "RUNNING"])
           /\ pc' = "phase" /\ i' = FirstIdx(mem)
  <2>1. /\ disk' \in SagaRun /\ mem' = disk' /\ disk' # None /\ pc' = "phase"
        /\ disk'.overall = "RUNNING" /\ disk'.st = disk.st /\ disk'.idx = disk.idx
        /\ i' = disk.idx /\ i' \in 1..N
    BY <1>1, <1>4, OverallTyped, NoneAssumption DEF Write, FirstIdx, SagaStatus, SagaRun
  <2>2. TypeOK' /\ InStep'
    BY <1>1, <2>1, PhaseAssumption DEF SagaInv, TypeOK, InStep, Stopped
  <2>3. DoneIsApplied'
    BY <1>1, <2>1 DEF SagaInv, DoneIsApplied
  <2>4. ~interrupted => disk.overall \in {"PENDING", "RUNNING"}
    BY <1>1, <1>4 DEF SagaInv, Sides, IsSettled, Settled, SagaRun, SagaStatus
  <2>5. ~interrupted => PrefixDone' /\ Sides' /\ Finished'
    BY <1>1, <2>1, <2>4 DEF SagaInv, PrefixDone, Sides, Finished
  <2> QED BY <1>1, <2>2, <2>3, <2>5 DEF SagaInv
<1> QED BY <1>2, <1>3, <1>4 DEF Loop

LEMMA StartPhaseKeeps ==
  ASSUME SagaInv, NEW p \in Phases, StartPhase(p) PROVE SagaInv'
<1>1. /\ pc = "phase" /\ pc' = "do" /\ i' = p /\ p >= i
      /\ UNCHANGED <<undoFailed, effect, interrupted, forgotten, restarted, doubled>>
      /\ \A q \in i..(p - 1) : disk.st[q] = "DONE"
      /\ disk \in SagaRun /\ mem = disk /\ disk # None
  BY HasRun DEF StartPhase, history, Stopped
<1>2. /\ disk' \in SagaRun /\ mem' = disk' /\ disk' # None
      /\ disk'.overall = disk.overall /\ disk'.idx = p
      /\ \A q \in Phases : disk'.st[q] = IF q = p THEN "RUNNING" ELSE disk.st[q]
  BY <1>1, StartedTyped, NoneAssumption DEF StartPhase, Write
<1>3. TypeOK' /\ InStep'
  BY <1>1, <1>2, PhaseAssumption DEF SagaInv, TypeOK, InStep, Stopped, Phases
<1>4. DoneIsApplied'
  BY <1>1, <1>2 DEF SagaInv, DoneIsApplied
<1>5. i \in 1..(N + 1)
  BY <1>1 DEF SagaInv, InStep
<1>6. ~interrupted => PrefixDone'
  BY <1>1, <1>2, <1>5, PhaseAssumption DEF SagaInv, PrefixDone, Phases
<1>7. ~interrupted => Sides' /\ Finished'
  BY <1>1, <1>2 DEF SagaInv, Sides, Finished
<1> QED BY <1>1, <1>3, <1>4, <1>6, <1>7 DEF SagaInv

LEMMA FinishForwardKeeps == SagaInv /\ FinishForward => SagaInv'
<1> SUFFICES ASSUME SagaInv, FinishForward PROVE SagaInv'
  OBVIOUS
<1>1. /\ pc = "phase" /\ pc' = "idle" /\ mem' = None
      /\ UNCHANGED <<i, undoFailed, effect, interrupted, forgotten, restarted, doubled>>
      /\ \A q \in i..N : disk.st[q] = "DONE"
      /\ disk \in SagaRun /\ mem = disk /\ disk # None
  BY HasRun DEF FinishForward, history, Stopped
<1>2. /\ disk' \in SagaRun /\ disk' # None
      /\ disk'.overall = "DONE" /\ disk'.st = disk.st
  BY <1>1, OverallTyped, NoneAssumption DEF FinishForward, SagaStatus, SagaRun
<1>3. TypeOK' /\ InStep'
  BY <1>1, <1>2 DEF SagaInv, TypeOK, InStep, Stopped
<1>4. DoneIsApplied'
  BY <1>1, <1>2 DEF SagaInv, DoneIsApplied
<1>5. i \in 1..(N + 1)
  BY <1>1 DEF SagaInv, InStep
<1>6. ~interrupted => PrefixDone' /\ Sides'
  BY <1>1, <1>2 DEF PrefixDone, Sides
<1>7. ~interrupted => Finished'
  BY <1>1, <1>2, <1>5, PhaseAssumption DEF SagaInv, PrefixDone, Finished, Phases
<1> QED BY <1>1, <1>3, <1>4, <1>6, <1>7 DEF SagaInv

\* A refusal or an exception, before or after do_func's effect.
LEMMA FailsKeep == SagaInv /\ (DoFails \/ CheckFails) => SagaInv'
<1> SUFFICES ASSUME SagaInv, DoFails \/ CheckFails PROVE SagaInv'
  OBVIOUS
<1>1. /\ pc \in {"do", "check"} /\ pc' = "fail"
      /\ UNCHANGED <<disk, mem, i, undoFailed, effect>>
      /\ UNCHANGED <<interrupted, forgotten, restarted, doubled>>
  BY DEF DoFails, CheckFails, history
<1>2. TypeOK' /\ InStep'
  BY <1>1 DEF SagaInv, TypeOK, InStep, Stopped
<1>3. DoneIsApplied' /\ (~interrupted => PrefixDone' /\ Sides' /\ Finished')
  BY <1>1 DEF SagaInv, DoneIsApplied, PrefixDone, Sides, Finished
<1> QED BY <1>1, <1>2, <1>3 DEF SagaInv

LEMMA DoReturnsKeeps == SagaInv /\ DoReturns => SagaInv'
<1> SUFFICES ASSUME SagaInv, DoReturns PROVE SagaInv'
  OBVIOUS
<1>1. /\ pc = "do" /\ pc' = "check"
      /\ UNCHANGED <<disk, mem, i, undoFailed, interrupted, forgotten, restarted>>
      /\ effect' = [effect EXCEPT ![i] = "applied"] /\ i \in Phases
  BY DEF DoReturns, history, SagaInv, InStep
<1>2. doubled' \subseteq Phases
  BY <1>1 DEF DoReturns, SagaInv, TypeOK
<1>3. effect' \in [Phases -> {"none", "applied", "undone"}] /\ effect'[i] = "applied"
      /\ \A q \in Phases : effect[q] = "applied" => effect'[q] = "applied"
  BY <1>1 DEF SagaInv, TypeOK
<1>4. TypeOK' /\ InStep'
  BY <1>1, <1>2, <1>3 DEF SagaInv, TypeOK, InStep, Stopped
<1>5. DoneIsApplied'
  BY <1>1, <1>3 DEF SagaInv, DoneIsApplied
<1>6. ~interrupted => PrefixDone' /\ Sides' /\ Finished'
  BY <1>1 DEF SagaInv, PrefixDone, Sides, Finished
<1> QED BY <1>1, <1>4, <1>5, <1>6 DEF SagaInv

LEMMA CommitKeeps == SagaInv /\ Commit => SagaInv'
<1> SUFFICES ASSUME SagaInv, Commit PROVE SagaInv'
  OBVIOUS
<1>1. /\ pc = "check" /\ pc' = "phase" /\ i' = i + 1
      /\ UNCHANGED <<undoFailed, effect, interrupted, forgotten, restarted, doubled>>
      /\ disk \in SagaRun /\ mem = disk /\ disk # None
  BY HasRun DEF Commit, history, Stopped
<1>2. i \in Phases /\ i = disk.idx
  BY <1>1 DEF SagaInv, InStep
<1>3. /\ disk' \in SagaRun /\ mem' = disk' /\ disk' # None
      /\ disk'.overall = disk.overall /\ disk'.idx = disk.idx
      /\ \A q \in Phases : disk'.st[q] = IF q = i THEN "DONE" ELSE disk.st[q]
  BY <1>1, SetPhaseTyped, NoneAssumption DEF Commit, Write, PhaseStatus
<1>4. TypeOK' /\ InStep'
  BY <1>1, <1>2, <1>3, PhaseAssumption DEF SagaInv, TypeOK, InStep, Stopped, Phases
<1>5. DoneIsApplied'
  BY <1>1, <1>3 DEF SagaInv, DoneIsApplied
<1>6. ~interrupted => PrefixDone'
  BY <1>1, <1>2, <1>3, PhaseAssumption DEF SagaInv, PrefixDone, Sides, Phases
<1>7. ~interrupted => Sides' /\ Finished'
  BY <1>1, <1>3 DEF SagaInv, Sides, Finished
<1> QED BY <1>1, <1>4, <1>5, <1>6, <1>7 DEF SagaInv

LEMMA FailPhaseKeeps == SagaInv /\ FailPhase => SagaInv'
<1> SUFFICES ASSUME SagaInv, FailPhase PROVE SagaInv'
  OBVIOUS
<1>1. /\ pc = "fail" /\ pc' = "compensate"
      /\ UNCHANGED <<i, undoFailed, effect, interrupted, forgotten, restarted, doubled>>
      /\ disk \in SagaRun /\ mem = disk /\ disk # None
  BY HasRun DEF FailPhase, history, Stopped
<1>2. /\ disk' \in SagaRun /\ mem' = disk' /\ disk' # None /\ disk'.overall = "FAILED"
      /\ \A q \in Phases : disk'.st[q] = IF q = i THEN "FAILED" ELSE disk.st[q]
  BY <1>1, FailedTyped, NoneAssumption DEF FailPhase, Write
<1>3. TypeOK' /\ InStep'
  BY <1>1, <1>2 DEF SagaInv, TypeOK, InStep, Stopped
<1>4. DoneIsApplied' /\ (~interrupted => PrefixDone' /\ Sides' /\ Finished')
  BY <1>1, <1>2 DEF SagaInv, DoneIsApplied, PrefixDone, Sides, Finished
<1> QED BY <1>1, <1>3, <1>4 DEF SagaInv

-----------------------------------------------------------------------------
(* _compensate *)

LEMMA StartCompensationKeeps == SagaInv /\ StartCompensation => SagaInv'
<1> SUFFICES ASSUME SagaInv, StartCompensation PROVE SagaInv'
  OBVIOUS
<1>1. /\ pc = "compensate" /\ pc' = "undo" /\ i' = N /\ undoFailed' = FALSE
      /\ UNCHANGED <<effect, interrupted, forgotten, restarted, doubled>>
      /\ disk \in SagaRun /\ mem = disk /\ disk # None
  BY HasRun DEF StartCompensation, history, Stopped
<1>2. /\ disk' \in SagaRun /\ mem' = disk' /\ disk' # None
      /\ disk'.overall = "COMPENSATING" /\ disk'.st = disk.st
  BY <1>1, OverallTyped, NoneAssumption DEF StartCompensation, Write, SagaStatus, SagaRun
<1>3. i' \in 0..N /\ i' \in 0..(N + 1)
  BY <1>1, PhaseAssumption
<1>4. TypeOK'
  BY <1>1, <1>2, <1>3 DEF SagaInv, TypeOK, Stopped
<1>5. InStep'
  BY <1>1, <1>2, <1>3 DEF InStep, Stopped
<1>6. DoneIsApplied' /\ (~interrupted => PrefixDone' /\ Sides' /\ Finished')
  BY <1>1, <1>2 DEF SagaInv, DoneIsApplied, PrefixDone, Sides, Finished
<1> QED BY <1>1, <1>4, <1>5, <1>6 DEF SagaInv

LEMMA StartUndoKeeps ==
  ASSUME SagaInv, NEW p \in Phases, StartUndo(p) PROVE SagaInv'
<1>1. /\ pc = "undo" /\ pc' = "undoing" /\ i' = p
      /\ UNCHANGED <<undoFailed, effect, interrupted, forgotten, restarted, doubled>>
      /\ disk \in SagaRun /\ mem = disk /\ disk # None
  BY HasRun DEF StartUndo, history, Stopped
<1>2. /\ disk' \in SagaRun /\ mem' = disk' /\ disk' # None /\ disk'.overall = disk.overall
      /\ \A q \in Phases : disk'.st[q] = IF q = p THEN "UNDOING" ELSE disk.st[q]
  BY <1>1, SetPhaseTyped, NoneAssumption DEF StartUndo, Write, PhaseStatus
<1>3. TypeOK' /\ InStep'
  BY <1>1, <1>2, PhaseAssumption DEF SagaInv, TypeOK, InStep, Stopped, Phases
<1>4. DoneIsApplied' /\ (~interrupted => PrefixDone' /\ Sides' /\ Finished')
  BY <1>1, <1>2 DEF SagaInv, DoneIsApplied, PrefixDone, Sides, Finished
<1> QED BY <1>1, <1>3, <1>4 DEF SagaInv

\* The undo ends one way or the other, and the file does not know it yet.
LEMMA UndoEndsKeeps == SagaInv /\ (UndoReturns \/ UndoRaises) => SagaInv'
<1> SUFFICES ASSUME SagaInv, UndoReturns \/ UndoRaises PROVE SagaInv'
  OBVIOUS
<1>1. /\ pc = "undoing" /\ pc' = "undone"
      /\ UNCHANGED <<disk, i, interrupted, forgotten, restarted, doubled>>
      /\ disk \in SagaRun /\ mem = disk /\ disk # None /\ i \in Phases
      /\ disk.st[i] = "UNDOING"
  BY HasRun DEF UndoReturns, UndoRaises, history, Stopped, SagaInv, InStep
<1>2. undoFailed' \in BOOLEAN /\ effect' \in [Phases -> {"none", "applied", "undone"}]
      /\ \A q \in Phases \ {i} : effect'[q] = effect[q]
  BY <1>1 DEF UndoReturns, UndoRaises, UndoFailedNow, SagaInv, TypeOK
<1>3. PICK s \in {"UNDONE", "UNDO_FAILED"} : mem' = SetPhase(mem, i, s)
  BY DEF UndoReturns, UndoRaises
<1>4. /\ mem' \in SagaRun /\ mem' # None /\ mem'.overall = disk.overall
      /\ \A q \in Phases : mem'.st[q] = IF q = i THEN s ELSE disk.st[q]
  BY <1>1, <1>3, SetPhaseTyped, NoneAssumption DEF PhaseStatus
<1>5. TypeOK' /\ InStep'
  BY <1>1, <1>2, <1>4 DEF SagaInv, TypeOK, InStep, Stopped
<1>6. DoneIsApplied'
  BY <1>1, <1>2 DEF SagaInv, DoneIsApplied
<1>7. ~interrupted => PrefixDone' /\ Sides' /\ Finished'
  BY <1>1 DEF SagaInv, PrefixDone, Sides, Finished
<1> QED BY <1>1, <1>5, <1>6, <1>7 DEF SagaInv

LEMMA WriteUndoKeeps == SagaInv /\ WriteUndo => SagaInv'
<1> SUFFICES ASSUME SagaInv, WriteUndo PROVE SagaInv'
  OBVIOUS
<1>1. /\ pc = "undone" /\ pc' = "undo" /\ i' = i - 1
      /\ UNCHANGED <<undoFailed, effect, interrupted, forgotten, restarted, doubled>>
      /\ disk' = mem /\ mem' = mem /\ i \in Phases /\ disk # None
      /\ mem \in SagaRun /\ mem # None /\ mem.overall = disk.overall
      /\ \A q \in Phases : mem.st[q] = "DONE" => disk.st[q] = "DONE"
  BY NoneAssumption DEF WriteUndo, Write, history, SagaInv, InStep, TypeOK, Stopped
<1>2. TypeOK' /\ InStep'
  BY <1>1, PhaseAssumption DEF SagaInv, TypeOK, InStep, Stopped, Phases
<1>3. DoneIsApplied' /\ (~interrupted => PrefixDone' /\ Sides' /\ Finished')
  BY <1>1 DEF SagaInv, DoneIsApplied, PrefixDone, Sides, Finished
<1> QED BY <1>1, <1>2, <1>3 DEF SagaInv

LEMMA FinishCompensationKeeps == SagaInv /\ FinishCompensation => SagaInv'
<1> SUFFICES ASSUME SagaInv, FinishCompensation PROVE SagaInv'
  OBVIOUS
<1>1. /\ pc = "undo" /\ pc' = "idle" /\ mem' = None
      /\ UNCHANGED <<i, undoFailed, effect, interrupted, forgotten, restarted, doubled>>
      /\ disk \in SagaRun /\ mem = disk /\ disk # None
  BY HasRun DEF FinishCompensation, history, Stopped
<1>2. PICK s \in {"PARTIAL_COMPENSATION", "COMPENSATED"} : disk' = [mem EXCEPT !.overall = s]
  BY DEF FinishCompensation
<1>3. disk' \in SagaRun /\ disk' # None /\ disk'.overall = s /\ disk'.st = disk.st
  BY <1>1, <1>2, OverallTyped, NoneAssumption DEF SagaStatus, SagaRun
<1>4. TypeOK' /\ InStep'
  BY <1>1, <1>3 DEF SagaInv, TypeOK, InStep, Stopped
<1>5. DoneIsApplied' /\ (~interrupted => PrefixDone' /\ Sides' /\ Finished')
  BY <1>1, <1>3 DEF SagaInv, DoneIsApplied, PrefixDone, Sides, Finished
<1> QED BY <1>1, <1>4, <1>5 DEF SagaInv

-----------------------------------------------------------------------------
LEMMA CrashKeeps == SagaInv /\ Crash => SagaInv'
<1> SUFFICES ASSUME SagaInv, Crash PROVE SagaInv'
  OBVIOUS
<1>1. /\ pc \notin Stopped /\ pc' = "down" /\ mem' = None
      /\ UNCHANGED <<disk, i, undoFailed, effect, restarted, doubled>>
      /\ interrupted' = (interrupted \/ disk.overall = "COMPENSATING")
  BY DEF Crash
<1>2. forgotten' \subseteq Phases
  BY DEF Crash, SagaInv, TypeOK
<1>3. TypeOK' /\ InStep'
  BY <1>1, <1>2 DEF SagaInv, TypeOK, InStep, Stopped
<1>4. DoneIsApplied'
  BY <1>1 DEF SagaInv, DoneIsApplied
<1>5. ~interrupted' => PrefixDone' /\ Sides' /\ Finished'
  BY <1>1 DEF SagaInv, PrefixDone, Sides, Finished
<1> QED BY <1>3, <1>4, <1>5 DEF SagaInv

LEMMA NextSagaInv == SagaInv /\ [Next]_vars => SagaInv'
<1> SUFFICES ASSUME SagaInv, [Next]_vars PROVE SagaInv'
  OBVIOUS
<1>1. CASE UNCHANGED vars
  <2>1. TypeOK' /\ InStep'
    BY <1>1 DEF vars, SagaInv, TypeOK, InStep
  <2>2. DoneIsApplied' /\ PrefixDone' = PrefixDone /\ Sides' = Sides /\ Finished' = Finished
    BY <1>1 DEF vars, SagaInv, DoneIsApplied, PrefixDone, Sides, Finished
  <2>3. interrupted' = interrupted
    BY <1>1 DEF vars
  <2> QED BY <2>1, <2>2, <2>3 DEF SagaInv
<1>2. CASE Next
  BY <1>2, ExecuteKeeps, ResumeKeeps, LoopKeeps, StartPhaseKeeps, FinishForwardKeeps,
     FailsKeep, DoReturnsKeeps, CommitKeeps, FailPhaseKeeps, StartCompensationKeeps,
     StartUndoKeeps, UndoEndsKeeps, WriteUndoKeeps, FinishCompensationKeeps, CrashKeeps
     DEF Next, Engine
<1> QED BY <1>1, <1>2

LEMMA SagaInvariant == Spec => []SagaInv
BY InitSagaInv, NextSagaInv, PTL DEF Spec

\* Every variable of the engine stays in its type, whatever crashes.
THEOREM SagaTyped == Spec => []TypeOK
<1>1. SagaInv => TypeOK
  BY DEF SagaInv
<1> QED BY SagaInvariant, <1>1, PTL

\* A run that is DONE has the effect of every phase in the world: neither a
\* crash nor a restart loses or skips one, unless it cut a compensation short.
THEOREM NothingMissing == Spec => []DoneMeansAll
<1>1. SagaInv => DoneMeansAll
  BY DEF SagaInv, DoneIsApplied, Finished, DoneMeansAll
<1> QED BY SagaInvariant, <1>1, PTL

-----------------------------------------------------------------------------
(***************************************************************************)
(* The undo side.  A run that fails was going forward: everything before   *)
(* current_phase_idx is DONE, the phase at it is the one that fails, and   *)
(* nothing after it was ever started.  That is the shape _compensate finds,*)
(* and the chain keeps it: the phases below i are still DONE, those between*)
(* i and the failed one were tried, and the failed one stays FAILED.       *)
(***************************************************************************)
Tried == {"UNDONE", "UNDO_FAILED"}

\* Nothing after current_phase_idx was started.
NothingLater(run) == \A q \in Phases : q > run.idx => run.st[q] = "PENDING"

\* The phases before current_phase_idx, and the phase at it.
Before(run, S) == \A q \in Phases : q < run.idx => run.st[q] \in S
AtIdx(run, S) == run.st[run.idx] \in S

\* The status of a run tells how far each of its phases got.
Shape(run) ==
  /\ run.overall # "DONE" => NothingLater(run)
  /\ run.overall \in {"PENDING", "RUNNING"} =>
       Before(run, {"DONE"}) /\ AtIdx(run, {"PENDING", "RUNNING", "DONE"})
  /\ run.overall = "FAILED" => Before(run, {"DONE"}) /\ AtIdx(run, {"FAILED"})
  /\ run.overall = "COMPENSATED" => Before(run, {"UNDONE"}) /\ AtIdx(run, {"FAILED"})
  /\ run.overall = "PARTIAL_COMPENSATION" => Before(run, Tried) /\ AtIdx(run, {"FAILED"})
  /\ run.overall = "DONE" => \A q \in Phases : run.st[q] = "DONE"

\* The chain has come down to i.
ChainAt ==
  /\ NothingLater(mem) /\ AtIdx(mem, {"FAILED"})
  /\ pc \in {"undoing", "undone"} => i < mem.idx
  /\ \A q \in Phases : q < mem.idx =>
       /\ q < i => mem.st[q] = "DONE"
       /\ q > i => mem.st[q] \in Tried
       /\ q = i => mem.st[q] \in CASE pc = "undo"    -> {"DONE"}
                                   [] pc = "undoing" -> {"UNDOING"}
                                   [] OTHER          -> Tried

\* What was never started has done nothing, what is UNDONE was undone.
Effects(run) ==
  \A q \in Phases : /\ run.st[q] = "PENDING" => effect[q] = "none"
                    /\ run.st[q] = "UNDONE" => effect[q] = "undone"

\* A phase that is RUNNING before the engine started it was taken up by
\* execute; one that it started itself has no effect yet.
FreshStarts ==
  /\ pc \in {"loop", "phase"} /\ RunningPhases(disk) # {} => restarted
  /\ pc = "do" => restarted \/ effect[i] # "applied"
  /\ doubled # {} => restarted

\* What the file says of a run that is not being compensated.
KnownShape == disk # None /\ disk.overall # "COMPENSATING" => Shape(disk)

KnownEffects ==
  /\ disk = None => \A q \in Phases : effect[q] = "none"
  /\ disk # None /\ mem = None => Effects(disk)
  /\ mem # None => Effects(mem)

InChain ==
  pc \in {"undo", "undoing", "undone"} =>
    /\ ChainAt
    /\ (\E q \in Phases : mem.st[q] = "UNDO_FAILED") => undoFailed

AtCurrent ==
  pc \in {"do", "check", "fail"} => i = disk.idx /\ disk.st[i] = "RUNNING"

UndoInv ==
  ~interrupted => KnownShape /\ KnownEffects /\ InChain /\ AtCurrent /\ FreshStarts

LEMMA InitUndoInv == Init => UndoInv
BY DEF Init, UndoInv, KnownShape, KnownEffects, InChain, AtCurrent, FreshStarts

\* A run that is going forward, and the phase at its current_phase_idx.
LEMMA ForwardShape ==
  ASSUME NEW run \in SagaRun, Shape(run), run.overall # "COMPENSATING"
  PROVE  /\ run.idx \in Phases
         /\ RunningPhases(run) # {} =>
              /\ run.overall \in {"PENDING", "RUNNING"}
              /\ RunningPhases(run) = {run.idx}
<1>1. run.idx \in Phases /\ run.overall \in SagaStatus
  BY DEF SagaRun, Phases
<1>2. ASSUME NEW q \in RunningPhases(run)
      PROVE  run.overall \in {"PENDING", "RUNNING"} /\ q = run.idx
  <2>1. q \in Phases /\ run.st[q] = "RUNNING"
    BY DEF RunningPhases
  <2>2. q < run.idx \/ q = run.idx \/ q > run.idx
    BY <1>1, <2>1 DEF Phases
  <2> QED BY <1>1, <2>1, <2>2 DEF Shape, NothingLater, Before, AtIdx, Tried, SagaStatus
<1> QED BY <1>1, <1>2 DEF RunningPhases

-----------------------------------------------------------------------------
(* execute and resume *)

LEMMA ExecuteKeepsUndo == SagaInv /\ UndoInv /\ Execute => UndoInv'
<1> SUFFICES ASSUME SagaInv, UndoInv, Execute, ~interrupted PROVE UndoInv'
  BY DEF Execute, UndoInv
<1>1. /\ pc' = "loop" /\ pc \in Stopped
      /\ UNCHANGED <<i, undoFailed, effect, interrupted, forgotten, doubled>>
      /\ restarted' = (restarted \/ (disk # None /\ RunningPhases(disk) # {}))
  BY DEF Execute
<1>2. CASE disk = None
  <2>1. disk' = InitialRun /\ mem' = InitialRun /\ InitialRun # None
    BY <1>2, InitialTyped, NoneAssumption DEF Execute, Write
  <2>2. Shape(InitialRun)
    BY InitialTyped, PhaseAssumption DEF Shape, NothingLater, Before, AtIdx, Phases
  <2>3. RunningPhases(InitialRun) = {}
    BY InitialTyped DEF RunningPhases
  <2>4. KnownEffects'
    BY <1>1, <1>2, <2>1, InitialTyped DEF UndoInv, KnownEffects, Effects
  <2> QED BY <1>1, <2>1, <2>2, <2>3, <2>4
          DEF UndoInv, KnownShape, InChain, AtCurrent, FreshStarts
<1>3. CASE disk # None
  <2>1. disk' = disk /\ mem' = disk /\ mem = None
    BY <1>1, <1>3 DEF Execute, SagaInv, InStep
  <2>2. KnownEffects'
    BY <1>1, <1>3, <2>1 DEF UndoInv, KnownEffects, Effects
  <2> QED BY <1>1, <1>3, <2>1, <2>2
          DEF UndoInv, KnownShape, InChain, AtCurrent, FreshStarts
<1> QED BY <1>2, <1>3

LEMMA ResumeKeepsUndo == SagaInv /\ UndoInv /\ Resume => UndoInv'
<1> SUFFICES ASSUME SagaInv, UndoInv, Resume, ~interrupted PROVE UndoInv'
  BY DEF Resume, UndoInv, history
<1>1. /\ pc' = "loop" /\ pc \in Stopped /\ mem = None
      /\ UNCHANGED <<i, undoFailed, effect, interrupted, forgotten, restarted, doubled>>
      /\ disk # None /\ disk \in SagaRun /\ disk' = Recovered(disk) /\ mem' = disk'
  BY DEF Resume, Write, history, SagaInv, TypeOK, InStep
<1>2. Shape(disk) /\ Effects(disk) /\ disk.overall # "COMPENSATING"
  BY <1>1 DEF UndoInv, KnownShape, KnownEffects, SagaInv, Sides, Stopped
<1>3. disk' \in SagaRun /\ disk' # None
  BY <1>1, RecoveredTyped, NoneAssumption
<1>4. Shape(disk') /\ disk'.overall # "COMPENSATING"
  <2>1. CASE RunningPhases(disk) = {}
    BY <1>1, <1>2, <2>1, RecoveredTyped
  <2>2. CASE RunningPhases(disk) # {}
    <3>1. /\ disk.idx \in Phases /\ RunningPhases(disk) = {disk.idx}
          /\ disk.overall \in {"PENDING", "RUNNING"}
      BY <1>1, <1>2, <2>2, ForwardShape
    <3>2. /\ disk'.overall = "FAILED" /\ disk'.idx = disk.idx
          /\ \A q \in Phases : disk'.st[q] = IF q = disk.idx THEN "FAILED" ELSE disk.st[q]
      BY <1>1, <2>2, <3>1, RecoveredTyped
    <3> QED BY <1>2, <3>1, <3>2 DEF Shape, NothingLater, Before, AtIdx
  <2> QED BY <2>1, <2>2
<1>5. KnownEffects'
  BY <1>1, <1>2, <1>3, RecoveredTyped DEF KnownEffects, Effects
<1>6. RunningPhases(disk') = {}
  <2>1. RunningPhases(disk) = {} => RunningPhases(disk') = {}
    BY <1>1, RecoveredTyped
  <2>2. RunningPhases(disk) # {} => disk'.overall = "FAILED"
    BY <1>1, RecoveredTyped
  <2> QED BY <1>3, <1>4, <2>1, <2>2, ForwardShape
<1> QED BY <1>1, <1>3, <1>4, <1>5, <1>6
        DEF UndoInv, KnownShape, InChain, AtCurrent, FreshStarts

-----------------------------------------------------------------------------
(* _run_loop *)

LEMMA LoopKeepsUndo == SagaInv /\ UndoInv /\ Loop => UndoInv'
<1> SUFFICES ASSUME SagaInv, UndoInv, Loop, ~interrupted PROVE UndoInv'
  BY DEF Loop, UndoInv, history
<1>1. /\ pc = "loop"
      /\ UNCHANGED <<undoFailed, effect, interrupted, forgotten, restarted, doubled>>
      /\ disk \in SagaRun /\ mem = disk /\ disk # None /\ mem # None
  BY HasRun DEF Loop, history, Stopped
<1>2. Shape(disk) /\ Effects(disk) /\ FreshStarts /\ disk.overall # "COMPENSATING"
  BY <1>1 DEF UndoInv, KnownShape, KnownEffects, SagaInv, Sides
<1>3. CASE pc' \in {"idle", "compensate"} /\ UNCHANGED disk /\ mem' \in {None, mem}
  <2>1. KnownShape' /\ KnownEffects'
    BY <1>1, <1>2, <1>3 DEF KnownShape, KnownEffects, Effects
  <2> QED BY <1>1, <1>2, <1>3, <2>1 DEF UndoInv, InChain, AtCurrent, FreshStarts
<1>4. CASE /\ ~IsSettled(mem.overall) /\ mem.overall # "FAILED"
           /\ Write([mem EXCEPT !.overall = "RUNNING"])
           /\ pc' = "phase"
  <2>1. /\ disk' \in SagaRun /\ mem' = disk' /\ disk' # None
        /\ disk'.overall = "RUNNING" /\ disk'.st = disk.st /\ disk'.idx = disk.idx
    BY <1>1, <1>4, OverallTyped, NoneAssumption DEF Write, SagaStatus, SagaRun
  <2>2. disk.overall \in {"PENDING", "RUNNING"}
    BY <1>1, <1>2, <1>4 DEF IsSettled, Settled, SagaRun, SagaStatus
  <2>3. Shape(disk')
    BY <1>2, <2>1, <2>2 DEF Shape, NothingLater, Before, AtIdx
  <2>4. KnownEffects' /\ RunningPhases(disk') = RunningPhases(disk)
    BY <1>1, <1>2, <2>1 DEF KnownEffects, Effects, RunningPhases
  <2> QED BY <1>1, <1>2, <1>4, <2>3, <2>4
          DEF UndoInv, KnownShape, InChain, AtCurrent, FreshStarts
<1> QED BY <1>3, <1>4 DEF Loop

LEMMA StartPhaseKeepsUndo ==
  ASSUME SagaInv, SagaInv', UndoInv, NEW p \in Phases, StartPhase(p) PROVE UndoInv'
<1> SUFFICES ASSUME ~interrupted PROVE UndoInv'
  BY DEF StartPhase, UndoInv, history
<1>1. /\ pc = "phase" /\ pc' = "do" /\ i' = p /\ disk.st[p] # "DONE"
      /\ UNCHANGED <<undoFailed, effect, interrupted, forgotten, restarted, doubled>>
      /\ disk \in SagaRun /\ mem = disk /\ disk # None
  BY HasRun DEF StartPhase, history, Stopped
<1>2. /\ disk' \in SagaRun /\ mem' = disk' /\ disk' # None
      /\ disk'.overall = "RUNNING" /\ disk'.idx = p
      /\ \A q \in Phases : disk'.st[q] = IF q = p THEN "RUNNING" ELSE disk.st[q]
  BY <1>1, StartedTyped, NoneAssumption DEF StartPhase, Write, SagaInv, Sides
<1>3. /\ Shape(disk) /\ Effects(disk) /\ FreshStarts /\ disk.overall = "RUNNING"
      /\ disk.idx \in Phases
  BY <1>1, ForwardShape DEF UndoInv, KnownShape, KnownEffects, SagaInv, Sides
<1>4. p >= disk.idx
  BY <1>1, <1>3 DEF Shape, Before, Phases
<1>5. Shape(disk')
  <2>1. NothingLater(disk')
    BY <1>2, <1>3, <1>4 DEF Shape, NothingLater, Phases
  <2>2. Before(disk', {"DONE"})
    BY <1>1, <1>2 DEF SagaInv, PrefixDone, Before
  <2> QED BY <1>2, <2>1, <2>2 DEF Shape, AtIdx
<1>6. KnownEffects'
  BY <1>1, <1>2, <1>3 DEF KnownEffects, Effects
<1>7. restarted \/ effect[p] # "applied"
  <2>1. CASE p = disk.idx
    <3>1. disk.st[p] = "RUNNING" => RunningPhases(disk) # {}
      BY DEF RunningPhases
    <3> QED BY <1>1, <1>3, <2>1, <3>1 DEF FreshStarts, Effects, Shape, AtIdx
  <2>2. CASE p > disk.idx
    BY <1>3, <2>2 DEF Effects, Shape, NothingLater
  <2> QED BY <1>3, <1>4, <2>1, <2>2 DEF Phases
<1> QED BY <1>1, <1>2, <1>3, <1>5, <1>6, <1>7
        DEF UndoInv, KnownShape, InChain, AtCurrent, FreshStarts

LEMMA FinishForwardKeepsUndo ==
  ASSUME SagaInv, SagaInv', UndoInv, FinishForward PROVE UndoInv'
<1> SUFFICES ASSUME ~interrupted PROVE UndoInv'
  BY DEF FinishForward, UndoInv, history
<1>1. /\ pc = "phase" /\ pc' = "idle" /\ mem' = None
      /\ UNCHANGED <<i, undoFailed, effect, interrupted, forgotten, restarted, doubled>>
      /\ disk \in SagaRun /\ mem = disk /\ disk # None /\ mem # None
  BY HasRun DEF FinishForward, history, Stopped
<1>2. /\ disk' \in SagaRun /\ disk' # None
      /\ disk'.overall = "DONE" /\ disk'.st = disk.st
  BY <1>1, OverallTyped, NoneAssumption DEF FinishForward, SagaStatus, SagaRun
<1>3. Shape(disk')
  BY <1>1, <1>2 DEF SagaInv, Finished, Shape
<1>4. KnownEffects'
  BY <1>1, <1>2 DEF UndoInv, KnownEffects, Effects
<1> QED BY <1>1, <1>3, <1>4 DEF UndoInv, KnownShape, InChain, AtCurrent, FreshStarts

LEMMA FailsKeepUndo == SagaInv /\ UndoInv /\ (DoFails \/ CheckFails) => UndoInv'
<1> SUFFICES ASSUME SagaInv, UndoInv, DoFails \/ CheckFails, ~interrupted PROVE UndoInv'
  BY DEF DoFails, CheckFails, UndoInv, history
<1>1. /\ pc \in {"do", "check"} /\ pc' = "fail"
      /\ UNCHANGED <<disk, mem, i, undoFailed, effect>>
      /\ UNCHANGED <<interrupted, forgotten, restarted, doubled>>
  BY DEF DoFails, CheckFails, history
<1>2. KnownShape' /\ KnownEffects'
  BY <1>1 DEF UndoInv, KnownShape, KnownEffects, Effects
<1> QED BY <1>1, <1>2 DEF UndoInv, InChain, AtCurrent, FreshStarts

\* do_func has an effect of its own phase only, and that one is RUNNING.
LEMMA DoReturnsKeepsUndo == SagaInv /\ UndoInv /\ DoReturns => UndoInv'
<1> SUFFICES ASSUME SagaInv, UndoInv, DoReturns, ~interrupted PROVE UndoInv'
  BY DEF DoReturns, UndoInv, history
<1>1. /\ pc = "do" /\ pc' = "check"
      /\ UNCHANGED <<disk, mem, i, undoFailed, interrupted, forgotten, restarted>>
      /\ effect' = [effect EXCEPT ![i] = "applied"]
      /\ doubled' = IF effect[i] = "applied" THEN doubled \cup {i} ELSE doubled
      /\ mem = disk /\ disk # None
  BY HasRun DEF DoReturns, history, Stopped
<1>2. disk.st[i] = "RUNNING" /\ \A q \in Phases : q # i => effect'[q] = effect[q]
  BY <1>1 DEF UndoInv, AtCurrent, SagaInv, TypeOK
<1>3. KnownEffects'
  BY <1>1, <1>2 DEF UndoInv, KnownEffects, Effects
<1>4. KnownShape'
  BY <1>1 DEF UndoInv, KnownShape
<1> QED BY <1>1, <1>3, <1>4 DEF UndoInv, InChain, AtCurrent, FreshStarts

LEMMA CommitKeepsUndo == SagaInv /\ UndoInv /\ Commit => UndoInv'
<1> SUFFICES ASSUME SagaInv, UndoInv, Commit, ~interrupted PROVE UndoInv'
  BY DEF Commit, UndoInv, history
<1>1. /\ pc = "check" /\ pc' = "phase"
      /\ UNCHANGED <<undoFailed, effect, interrupted, forgotten, restarted, doubled>>
      /\ disk \in SagaRun /\ mem = disk /\ disk # None
  BY HasRun DEF Commit, history, Stopped
<1>2. /\ disk' \in SagaRun /\ mem' = disk' /\ disk' # None
      /\ disk'.overall = "RUNNING" /\ disk'.idx = disk.idx
      /\ \A q \in Phases : disk'.st[q] = IF q = i THEN "DONE" ELSE disk.st[q]
  BY <1>1, SetPhaseTyped, NoneAssumption DEF Commit, Write, PhaseStatus, SagaInv, Sides
<1>3. /\ Shape(disk) /\ Effects(disk) /\ disk.overall = "RUNNING" /\ i = disk.idx
      /\ disk.idx \in Phases
  BY <1>1, ForwardShape DEF UndoInv, KnownShape, KnownEffects, AtCurrent, SagaInv, Sides
<1>4. Shape(disk')
  BY <1>2, <1>3 DEF Shape, NothingLater, Before, AtIdx, Phases
<1>5. KnownEffects'
  BY <1>1, <1>2, <1>3 DEF KnownEffects, Effects
<1>6. RunningPhases(disk') = {}
  BY <1>2, <1>3, <1>4, ForwardShape DEF RunningPhases
<1> QED BY <1>1, <1>2, <1>4, <1>5, <1>6
        DEF UndoInv, KnownShape, InChain, AtCurrent, FreshStarts

LEMMA FailPhaseKeepsUndo == SagaInv /\ UndoInv /\ FailPhase => UndoInv'
<1> SUFFICES ASSUME SagaInv, UndoInv, FailPhase, ~interrupted PROVE UndoInv'
  BY DEF FailPhase, UndoInv, history
<1>1. /\ pc = "fail" /\ pc' = "compensate"
      /\ UNCHANGED <<i, undoFailed, effect, interrupted, forgotten, restarted, doubled>>
      /\ disk \in SagaRun /\ mem = disk /\ disk # None
  BY HasRun DEF FailPhase, history, Stopped
<1>2. /\ disk' \in SagaRun /\ mem' = disk' /\ disk' # None
      /\ disk'.overall = "FAILED" /\ disk'.idx = disk.idx
      /\ \A q \in Phases : disk'.st[q] = IF q = i THEN "FAILED" ELSE disk.st[q]
  BY <1>1, FailedTyped, NoneAssumption DEF FailPhase, Write
<1>3. /\ Shape(disk) /\ Effects(disk) /\ disk.overall = "RUNNING" /\ i = disk.idx
      /\ disk.idx \in Phases
  BY <1>1, ForwardShape DEF UndoInv, KnownShape, KnownEffects, AtCurrent, SagaInv, Sides
<1>4. Shape(disk')
  BY <1>2, <1>3 DEF Shape, NothingLater, Before, AtIdx, Phases
<1>5. KnownEffects'
  BY <1>1, <1>2, <1>3 DEF KnownEffects, Effects
<1> QED BY <1>1, <1>2, <1>4, <1>5
        DEF UndoInv, KnownShape, InChain, AtCurrent, FreshStarts

-----------------------------------------------------------------------------
(* _compensate *)

LEMMA StartCompensationKeepsUndo == SagaInv /\ UndoInv /\ StartCompensation => UndoInv'
<1> SUFFICES ASSUME SagaInv, UndoInv, StartCompensation, ~interrupted PROVE UndoInv'
  <2>1. StartCompensation => interrupted' = interrupted
    BY DEF StartCompensation, history
  <2> QED BY <2>1 DEF UndoInv
<1>1. /\ pc = "compensate" /\ pc' = "undo" /\ i' = N
      /\ UNCHANGED <<effect, interrupted, forgotten, restarted, doubled>>
      /\ disk \in SagaRun /\ mem = disk /\ disk # None
  BY HasRun DEF StartCompensation, history, Stopped
<1>2. /\ disk' \in SagaRun /\ mem' = disk' /\ disk' # None
      /\ disk'.overall = "COMPENSATING" /\ disk'.st = disk.st /\ disk'.idx = disk.idx
  BY <1>1, OverallTyped, NoneAssumption DEF StartCompensation, Write, SagaStatus, SagaRun
<1>3. /\ Shape(disk) /\ Effects(disk) /\ disk.overall = "FAILED" /\ disk.idx \in Phases
  BY <1>1, ForwardShape DEF UndoInv, KnownShape, KnownEffects, SagaInv, Sides
<1>4. ChainAt'
  <2>1. \A q \in Phases : ~(q > N) /\ (q < disk.idx => disk.st[q] = "DONE")
    BY <1>3, PhaseAssumption DEF Shape, Before, Phases
  <2> QED BY <1>1, <1>2, <1>3, <2>1 DEF ChainAt, Shape, NothingLater, AtIdx
<1>5. \A q \in Phases : disk.st[q] # "UNDO_FAILED"
  <2>1. ASSUME NEW q \in Phases PROVE q < disk.idx \/ q = disk.idx \/ q > disk.idx
    BY <1>3 DEF Phases
  <2> QED BY <1>3, <2>1 DEF Shape, NothingLater, Before, AtIdx
<1>6. KnownEffects'
  BY <1>1, <1>2, <1>3 DEF KnownEffects, Effects
<1> QED BY <1>1, <1>2, <1>4, <1>5, <1>6
        DEF UndoInv, KnownShape, InChain, AtCurrent, FreshStarts

\* The chain takes the last DONE phase: all between it and the failed one were
\* tried.
LEMMA StartUndoKeepsUndo ==
  ASSUME SagaInv, UndoInv, NEW p \in Phases, StartUndo(p) PROVE UndoInv'
<1> SUFFICES ASSUME ~interrupted PROVE UndoInv'
  BY DEF StartUndo, UndoInv, history
<1>1. /\ pc = "undo" /\ pc' = "undoing" /\ i' = p
      /\ UNCHANGED <<undoFailed, effect, interrupted, forgotten, restarted, doubled>>
      /\ disk \in SagaRun /\ mem = disk /\ disk # None
      /\ disk.st[p] = "DONE" /\ p <= i
      /\ \A q \in 1..i : disk.st[q] = "DONE" => q <= p
  BY HasRun DEF StartUndo, NextToUndo, ToUndo, history, Stopped
<1>2. /\ disk' \in SagaRun /\ mem' = disk' /\ disk' # None
      /\ disk'.overall = "COMPENSATING" /\ disk'.idx = disk.idx
      /\ \A q \in Phases : disk'.st[q] = IF q = p THEN "UNDOING" ELSE disk.st[q]
  BY <1>1, SetPhaseTyped, NoneAssumption DEF StartUndo, Write, PhaseStatus, SagaInv, Sides
<1>3. ChainAt /\ Effects(disk) /\ disk.idx \in Phases /\ i \in 0..N
  BY <1>1 DEF UndoInv, InChain, KnownEffects, SagaInv, InStep, SagaRun, Phases
<1>4. p < disk.idx
  BY <1>1, <1>3 DEF ChainAt, NothingLater, AtIdx, Phases
<1>5. NothingLater(disk') /\ AtIdx(disk', {"FAILED"})
  BY <1>1, <1>2, <1>3, <1>4 DEF ChainAt, NothingLater, AtIdx, Phases
<1>6. ASSUME NEW q \in Phases, q < disk.idx
      PROVE  /\ q < p => disk'.st[q] = "DONE"
             /\ q > p => disk'.st[q] \in Tried
             /\ q = p => disk'.st[q] = "UNDOING"
  BY <1>1, <1>2, <1>3, <1>6, PhaseAssumption DEF ChainAt, Phases
<1>7. ChainAt'
  BY <1>1, <1>2, <1>4, <1>5, <1>6 DEF ChainAt
<1>8. KnownEffects'
  BY <1>1, <1>2, <1>3 DEF KnownEffects, Effects
<1> QED BY <1>1, <1>2, <1>7, <1>8
        DEF UndoInv, KnownShape, InChain, AtCurrent, FreshStarts

\* An undo that raises is remembered in undoFailed, one that returns has undone
\* the effect.
LEMMA UndoEndsKeepsUndo ==
  ASSUME SagaInv, UndoInv, UndoReturns \/ UndoRaises PROVE UndoInv'
<1> SUFFICES ASSUME ~interrupted PROVE UndoInv'
  BY DEF UndoReturns, UndoRaises, UndoInv, history
<1>1. /\ pc = "undoing" /\ pc' = "undone"
      /\ UNCHANGED <<disk, i, interrupted, forgotten, restarted, doubled>>
      /\ disk \in SagaRun /\ mem = disk /\ disk # None /\ i \in Phases
  BY HasRun DEF UndoReturns, UndoRaises, history, Stopped, SagaInv, InStep
<1>2. PICK s \in Tried : mem' = SetPhase(mem, i, s)
  BY DEF UndoReturns, UndoRaises, Tried
<1>3. /\ mem' \in SagaRun /\ mem' # None /\ mem'.idx = disk.idx
      /\ \A q \in Phases : mem'.st[q] = IF q = i THEN s ELSE disk.st[q]
  BY <1>1, <1>2, SetPhaseTyped, NoneAssumption DEF PhaseStatus, Tried
<1>4. ChainAt /\ Effects(disk) /\ disk.idx \in Phases /\ disk.overall = "COMPENSATING"
  BY <1>1 DEF UndoInv, InChain, KnownEffects, SagaInv, Sides, SagaRun, Phases
<1>5. ChainAt'
  <2>1. NothingLater(mem') /\ AtIdx(mem', {"FAILED"})
    BY <1>1, <1>3, <1>4 DEF ChainAt, NothingLater, AtIdx, Phases
  <2>2. ASSUME NEW q \in Phases, q < disk.idx
        PROVE  /\ q < i => mem'.st[q] = "DONE"
               /\ q > i => mem'.st[q] \in Tried
               /\ q = i => mem'.st[q] \in Tried
    BY <1>1, <1>3, <1>4, <2>2 DEF ChainAt, Phases
  <2> QED BY <1>1, <1>3, <1>4, <2>1, <2>2 DEF ChainAt
<1>6. (\E q \in Phases : mem'.st[q] = "UNDO_FAILED") => undoFailed'
  <2>1. CASE UndoReturns
    <3>1. mem'.st[i] = "UNDONE" /\ undoFailed' = undoFailed
      BY <1>1, <2>1, SetPhaseTyped DEF UndoReturns, PhaseStatus
    <3> QED BY <1>1, <1>3, <3>1 DEF UndoInv, InChain
  <2>2. CASE UndoRaises
    BY <2>2 DEF UndoRaises, UndoFailedNow
  <2> QED BY <2>1, <2>2
<1>7. Effects(mem)'
  <2>1. CASE UndoReturns
    <3>1. \A q \in Phases : effect'[q] = IF q = i THEN "undone" ELSE effect[q]
      BY <2>1 DEF UndoReturns, SagaInv, TypeOK
    <3> QED BY <1>1, <1>2, <1>3, <1>4, <3>1 DEF Effects, Tried
  <2>2. CASE UndoRaises
    <3>1. mem'.st[i] = "UNDO_FAILED" /\ effect' = effect
      BY <1>1, <2>2, SetPhaseTyped DEF UndoRaises, PhaseStatus
    <3> QED BY <1>1, <1>3, <1>4, <3>1 DEF Effects
  <2> QED BY <2>1, <2>2
<1> QED BY <1>1, <1>3, <1>4, <1>5, <1>6, <1>7
        DEF UndoInv, KnownShape, KnownEffects, InChain, AtCurrent, FreshStarts

LEMMA WriteUndoKeepsUndo == SagaInv /\ UndoInv /\ WriteUndo => UndoInv'
<1> SUFFICES ASSUME SagaInv, UndoInv, WriteUndo, ~interrupted PROVE UndoInv'
  BY DEF WriteUndo, UndoInv, history
<1>1. /\ pc = "undone" /\ pc' = "undo" /\ i' = i - 1 /\ i \in Phases
      /\ UNCHANGED <<undoFailed, effect, interrupted, forgotten, restarted, doubled>>
      /\ disk' = mem /\ mem' = mem /\ mem # None
      /\ disk'.overall = "COMPENSATING" /\ mem \in SagaRun /\ mem.idx \in Phases
  BY DEF WriteUndo, Write, history, SagaInv, InStep, TypeOK, Sides, Stopped, SagaRun, Phases
<1>2. ChainAt
  BY <1>1 DEF UndoInv, InChain
<1>3. ChainAt'
  <2>1. ASSUME NEW q \in Phases, q < mem.idx
        PROVE  /\ q < i - 1 => mem.st[q] = "DONE"
               /\ q > i - 1 => mem.st[q] \in Tried
               /\ q = i - 1 => mem.st[q] = "DONE"
    BY <1>1, <1>2, <2>1 DEF ChainAt, Phases
  <2> QED BY <1>1, <1>2, <2>1 DEF ChainAt, NothingLater, AtIdx
<1>4. KnownEffects'
  BY <1>1 DEF UndoInv, KnownEffects, Effects
<1> QED BY <1>1, <1>3, <1>4 DEF UndoInv, KnownShape, InChain, AtCurrent, FreshStarts

\* The chain is at its end: every phase before the failed one was tried, and
\* undone unless undoFailed says otherwise.
LEMMA FinishCompensationKeepsUndo == SagaInv /\ UndoInv /\ FinishCompensation => UndoInv'
<1> SUFFICES ASSUME SagaInv, UndoInv, FinishCompensation, ~interrupted PROVE UndoInv'
  BY DEF FinishCompensation, UndoInv, history
<1>1. /\ pc = "undo" /\ pc' = "idle" /\ mem' = None /\ ToUndo = {}
      /\ UNCHANGED <<i, undoFailed, effect, interrupted, forgotten, restarted, doubled>>
      /\ disk \in SagaRun /\ mem = disk /\ disk # None
  BY HasRun DEF FinishCompensation, history, Stopped
<1>2. PICK s \in {"PARTIAL_COMPENSATION", "COMPENSATED"} :
        /\ disk' = [mem EXCEPT !.overall = s]
        /\ s = "COMPENSATED" => ~undoFailed
  BY DEF FinishCompensation
<1>3. /\ disk' \in SagaRun /\ disk' # None /\ disk'.overall = s
      /\ disk'.st = disk.st /\ disk'.idx = disk.idx
  BY <1>1, <1>2, OverallTyped, NoneAssumption DEF SagaStatus, SagaRun
<1>4. /\ ChainAt /\ Effects(disk) /\ disk.idx \in Phases /\ i \in 0..N
      /\ (\E q \in Phases : disk.st[q] = "UNDO_FAILED") => undoFailed
  BY <1>1 DEF UndoInv, InChain, KnownEffects, SagaInv, InStep, SagaRun, Phases
<1>5. ASSUME NEW q \in Phases, q < disk.idx PROVE disk.st[q] \in Tried
  <2>1. disk.st[q] # "DONE" \/ q > i
    BY <1>1, <1>4 DEF ToUndo, Phases
  <2> QED BY <1>1, <1>4, <1>5, <2>1 DEF ChainAt, Phases
<1>6. Shape(disk')
  BY <1>1, <1>2, <1>3, <1>4, <1>5 DEF Shape, ChainAt, NothingLater, Before, AtIdx, Tried
<1>7. KnownEffects'
  BY <1>1, <1>3, <1>4 DEF KnownEffects, Effects
<1> QED BY <1>1, <1>6, <1>7 DEF UndoInv, KnownShape, InChain, AtCurrent, FreshStarts

-----------------------------------------------------------------------------
LEMMA CrashKeepsUndo == SagaInv /\ UndoInv /\ Crash => UndoInv'
<1> SUFFICES ASSUME SagaInv, UndoInv, Crash, ~interrupted' PROVE UndoInv'
  BY DEF UndoInv
<1>1. /\ pc \notin Stopped /\ pc' = "down" /\ mem' = None /\ ~interrupted
      /\ UNCHANGED <<disk, i, undoFailed, effect, restarted, doubled>>
      /\ disk.overall # "COMPENSATING"
  BY DEF Crash
<1>2. pc # "undone" /\ mem = disk /\ mem # None
  BY <1>1, HasRun DEF SagaInv, Sides
<1>3. KnownEffects'
  BY <1>1, <1>2 DEF UndoInv, KnownEffects, Effects
<1> QED BY <1>1, <1>3 DEF UndoInv, KnownShape, InChain, AtCurrent, FreshStarts

LEMMA NextUndoInv == SagaInv /\ SagaInv' /\ UndoInv /\ [Next]_vars => UndoInv'
<1> SUFFICES ASSUME SagaInv, SagaInv', UndoInv, [Next]_vars PROVE UndoInv'
  OBVIOUS
<1>1. CASE UNCHANGED vars
  BY <1>1 DEF vars, UndoInv, KnownShape, KnownEffects, Effects, InChain, ChainAt,
              AtCurrent, FreshStarts
<1>2. CASE Next
  BY <1>2, ExecuteKeepsUndo, ResumeKeepsUndo, LoopKeepsUndo, StartPhaseKeepsUndo,
     FinishForwardKeepsUndo, FailsKeepUndo, DoReturnsKeepsUndo, CommitKeepsUndo,
     FailPhaseKeepsUndo, StartCompensationKeepsUndo, StartUndoKeepsUndo,
     UndoEndsKeepsUndo, WriteUndoKeepsUndo, FinishCompensationKeepsUndo, CrashKeepsUndo
     DEF Next, Engine
<1> QED BY <1>1, <1>2

LEMMA UndoInvariant == Spec => []UndoInv
BY SagaInvariant, InitUndoInv, NextUndoInv, PTL DEF Spec

\* Where the file and the run in memory say the same.
LEMMA DiskEffects ==
  ASSUME SagaInv, UndoInv, ~interrupted, disk # None, disk.overall # "COMPENSATING"
  PROVE  disk \in SagaRun /\ disk.idx \in Phases /\ Shape(disk) /\ Effects(disk)
<1>1. disk \in SagaRun /\ Shape(disk) /\ disk.idx \in Phases
  BY ForwardShape DEF SagaInv, TypeOK, UndoInv, KnownShape
<1>2. CASE mem = None
  BY <1>1, <1>2 DEF UndoInv, KnownEffects
<1>3. CASE mem # None
  <2>1. mem = disk
    BY <1>3 DEF SagaInv, InStep, Sides
  <2> QED BY <1>1, <1>3, <2>1 DEF UndoInv, KnownEffects
<1> QED BY <1>2, <1>3

\* Unless a compensation of it was cut short, a COMPENSATED run has left nothing
\* in the world but, at most, the effect of the one phase that failed, which
\* _compensate does not undo.
THEOREM CompensatedLeavesNothing == Spec => []CompensatedMeansNone
<1>1. SagaInv /\ UndoInv => CompensatedMeansNone
  <2> SUFFICES ASSUME SagaInv, UndoInv, ~interrupted, disk # None,
                      disk.overall = "COMPENSATED"
               PROVE  /\ disk.idx \in Phases /\ disk.st[disk.idx] = "FAILED"
                      /\ \A p \in Phases \ {disk.idx} : effect[p] # "applied"
    BY DEF CompensatedMeansNone
  <2>1. disk.idx \in Phases /\ Shape(disk) /\ Effects(disk)
    BY DiskEffects
  <2>2. \A p \in Phases \ {disk.idx} : p < disk.idx \/ p > disk.idx
    BY <2>1 DEF Phases
  <2> QED BY <2>1, <2>2 DEF Shape, Effects, NothingLater, Before, AtIdx
<1> QED BY SagaInvariant, UndoInvariant, <1>1, PTL

\* The chain is undone backwards: while a phase is being undone, or is undone,
\* no later one is DONE or at work, unless a compensation was cut short.
THEOREM UndoneBackwards == Spec => []ReverseOrder
<1>1. SagaInv /\ UndoInv => ReverseOrder
  <2> SUFFICES ASSUME SagaInv, UndoInv, ~interrupted, mem # None,
                      NEW p \in Phases, NEW q \in Phases, p < q,
                      mem.st[p] \in {"UNDOING", "UNDONE"}
               PROVE  mem.st[q] \in {"PENDING", "FAILED", "UNDONE", "UNDO_FAILED"}
    BY DEF ReverseOrder
  <2>1. mem \in SagaRun /\ mem.idx \in Phases /\ mem.overall \in SagaStatus
    BY DEF SagaInv, TypeOK, SagaRun, Phases
  <2>2. (p < mem.idx \/ p = mem.idx \/ p > mem.idx)
        /\ (q < mem.idx \/ q = mem.idx \/ q > mem.idx)
    BY <2>1 DEF Phases
  <2>3. CASE pc \in {"undo", "undoing", "undone"}
    <3>1. ChainAt /\ i \in 0..N
      BY <2>3 DEF UndoInv, InChain, SagaInv, InStep, Phases
    <3> QED BY <2>1, <2>2, <2>3, <3>1 DEF ChainAt, NothingLater, AtIdx, Tried, Phases
  <2>4. CASE pc \notin {"undo", "undoing", "undone"}
    <3>1. mem = disk /\ disk.overall # "COMPENSATING"
      BY <2>4 DEF SagaInv, InStep, Sides
    <3>2. Shape(mem)
      BY <3>1 DEF UndoInv, KnownShape
    <3> QED BY <2>1, <2>2, <3>1, <3>2
            DEF Shape, NothingLater, Before, AtIdx, Tried, SagaStatus
  <2> QED BY <2>3, <2>4
<1> QED BY SagaInvariant, UndoInvariant, <1>1, PTL

\* A do_func runs on top of its own effect only when execute took up a run that
\* had crashed in that phase, or after a compensation that was cut short.
THEOREM ResumeNeverRepeats == Spec => []RepeatedOnlyByExecute
<1>1. UndoInv => RepeatedOnlyByExecute
  BY DEF UndoInv, FreshStarts, RepeatedOnlyByExecute
<1> QED BY UndoInvariant, <1>1, PTL

\* A phase is started only when the effect of every earlier one is there, unless
\* a compensation was cut short.
THEOREM PhasesInOrder == Spec => StartedInOrder
<1> DEFINE InOrder ==
      \A p \in Phases : StartPhase(p) /\ ~interrupted =>
        \A q \in 1..(p - 1) : effect[q] = "applied"
<1>1. SagaInv => InOrder
  <2> SUFFICES ASSUME SagaInv, ~interrupted, NEW p \in Phases, StartPhase(p),
                      NEW q \in 1..(p - 1)
               PROVE  effect[q] = "applied"
    OBVIOUS
  <2>1. /\ pc = "phase" /\ p >= i /\ disk # None
        /\ \A r \in i..(p - 1) : disk.st[r] = "DONE"
    BY HasRun DEF StartPhase, Stopped
  <2>2. q \in Phases /\ i \in 1..(N + 1) /\ (q < i \/ q \in i..(p - 1))
    BY <2>1, PhaseAssumption DEF SagaInv, InStep, Phases
  <2> QED BY <2>1, <2>2 DEF SagaInv, PrefixDone, DoneIsApplied
<1> QED BY SagaInvariant, <1>1, PTL DEF StartedInOrder

-----------------------------------------------------------------------------
(***************************************************************************)
(* What becomes of a failed undo, whether or not compensations are cut     *)
(* short.  While the chain runs, undoFailed knows of it; when the chain    *)
(* ends, the status does; and a crash in between forgets it.  A status of  *)
(* PARTIAL_COMPENSATION is for good, because resume finds a phase to       *)
(* recover only in a run that is RUNNING.                                  *)
(***************************************************************************)
Chain == {"undo", "undoing", "undone"}

\* Every failed undo of the run was forgotten.
Forgotten(run) == \A q \in Phases : run.st[q] = "UNDO_FAILED" => q \in forgotten

\* A RUNNING phase is the one at current_phase_idx of a run that is RUNNING.
OneRunning ==
  /\ disk # None =>
       \A q \in Phases : disk.st[q] = "RUNNING" => q = disk.idx /\ disk.overall = "RUNNING"
  /\ pc = "phase" => \A q \in Phases : disk.st[q] = "RUNNING" => q = i
  /\ pc \in {"phase", "do", "check", "fail"} => disk.overall = "RUNNING"
  /\ pc \in {"do", "check", "fail"} => i = disk.idx
  /\ pc = "compensate" => disk.overall = "FAILED"

ReportInv ==
  /\ OneRunning
  /\ pc \in Chain => /\ disk.overall = "COMPENSATING"
                     /\ undoFailed \/ Forgotten(mem)
                     /\ \A q \in Phases : mem.st[q] # "RUNNING"
  /\ disk # None => \/ pc \in Chain /\ undoFailed
                    \/ disk.overall = "PARTIAL_COMPENSATION"
                    \/ Forgotten(disk)

LEMMA InitReportInv == Init => ReportInv
BY DEF Init, ReportInv, OneRunning, Chain

LEMMA ExecuteReports == SagaInv /\ ReportInv /\ Execute => ReportInv'
<1> SUFFICES ASSUME SagaInv, ReportInv, Execute PROVE ReportInv'
  OBVIOUS
<1>1. pc' = "loop" /\ pc \in Stopped /\ UNCHANGED <<i, undoFailed, forgotten>>
  BY DEF Execute
<1>2. CASE disk = None
  <2>1. disk' = InitialRun
    BY <1>2 DEF Execute, Write
  <2> QED BY <1>1, <2>1, InitialTyped DEF ReportInv, OneRunning, Forgotten, Chain
<1>3. CASE disk # None
  BY <1>1, <1>3 DEF Execute, ReportInv, OneRunning, Forgotten, Chain, Stopped
<1> QED BY <1>2, <1>3

LEMMA ResumeReports == SagaInv /\ ReportInv /\ Resume => ReportInv'
<1> SUFFICES ASSUME SagaInv, ReportInv, Resume PROVE ReportInv'
  OBVIOUS
<1>1. /\ pc' = "loop" /\ pc \in Stopped /\ UNCHANGED <<i, undoFailed, forgotten>>
      /\ disk # None /\ disk \in SagaRun /\ disk' = Recovered(disk)
  BY DEF Resume, Write, history, SagaInv, TypeOK
<1>2. CASE RunningPhases(disk) = {}
  <2>1. disk' = disk
    BY <1>1, <1>2 DEF Recovered
  <2> QED BY <1>1, <2>1 DEF ReportInv, OneRunning, Forgotten, Chain, Stopped
<1>3. CASE RunningPhases(disk) # {}
  <2>1. RunningPhases(disk) = {disk.idx} /\ disk.idx \in Phases /\ disk.overall = "RUNNING"
    BY <1>1, <1>3 DEF RunningPhases, ReportInv, OneRunning, SagaRun, Phases
  <2>2. \A q \in Phases : disk'.st[q] = IF q = disk.idx THEN "FAILED" ELSE disk.st[q]
    BY <1>1, <2>1, RecoveredTyped
  <2>3. Forgotten(disk)
    BY <1>1, <2>1 DEF ReportInv, Chain, Stopped
  <2>4. \A q \in Phases : disk.st[q] = "RUNNING" => q = disk.idx
    BY <1>1 DEF ReportInv, OneRunning
  <2> QED BY <1>1, <2>2, <2>3, <2>4 DEF ReportInv, OneRunning, Forgotten, Chain
<1> QED BY <1>2, <1>3

\* A run that goes on has had its failed undos forgotten.
LEMMA LoopReports == SagaInv /\ ReportInv /\ Loop => ReportInv'
<1> SUFFICES ASSUME SagaInv, ReportInv, Loop PROVE ReportInv'
  OBVIOUS
<1>1. /\ pc = "loop" /\ UNCHANGED <<undoFailed, forgotten>>
      /\ disk \in SagaRun /\ mem = disk /\ disk # None
  BY HasRun DEF Loop, history, Stopped
<1>2. CASE pc' = "idle" /\ UNCHANGED <<disk, i>>
  BY <1>1, <1>2 DEF ReportInv, OneRunning, Forgotten, Chain
<1>3. CASE pc' = "compensate" /\ mem.overall = "FAILED" /\ UNCHANGED <<disk, mem, i>>
  BY <1>1, <1>3 DEF ReportInv, OneRunning, Forgotten, Chain
<1>4. CASE /\ ~IsSettled(mem.overall) /\ mem.overall # "FAILED"
           /\ Write([mem EXCEPT !.overall = "RUNNING"])
           /\ pc' = "phase" /\ i' = FirstIdx(mem)
  <2>1. /\ disk'.overall = "RUNNING" /\ disk'.st = disk.st /\ disk'.idx = disk.idx
        /\ i' = disk.idx
    BY <1>1, <1>4, OverallTyped DEF Write, FirstIdx, SagaStatus
  <2>2. Forgotten(disk)
    BY <1>1, <1>4 DEF ReportInv, Chain, IsSettled, Settled
  <2>3. OneRunning'
    <3>1. \A q \in Phases : disk.st[q] = "RUNNING" => q = disk.idx
      BY <1>1 DEF ReportInv, OneRunning
    <3> QED BY <1>4, <2>1, <3>1 DEF OneRunning
  <2>4. Forgotten(disk)'
    BY <1>1, <2>1, <2>2 DEF Forgotten
  <2> QED BY <1>4, <2>3, <2>4 DEF ReportInv, Chain
<1> QED BY <1>2, <1>3, <1>4 DEF Loop

LEMMA StartPhaseReports ==
  ASSUME SagaInv, ReportInv, NEW p \in Phases, StartPhase(p) PROVE ReportInv'
<1>1. /\ pc = "phase" /\ pc' = "do" /\ i' = p /\ p >= i
      /\ UNCHANGED <<undoFailed, forgotten>>
      /\ \A q \in i..(p - 1) : disk.st[q] = "DONE"
      /\ disk \in SagaRun /\ mem = disk /\ disk # None /\ i \in 1..(N + 1)
  BY HasRun DEF StartPhase, history, Stopped, SagaInv, InStep
<1>2. /\ disk'.overall = disk.overall /\ disk'.idx = p
      /\ \A q \in Phases : disk'.st[q] = IF q = p THEN "RUNNING" ELSE disk.st[q]
  BY <1>1, StartedTyped DEF StartPhase, Write
<1>3. disk.overall = "RUNNING" /\ Forgotten(disk)
  BY <1>1 DEF ReportInv, OneRunning, Chain
<1>4. ASSUME NEW q \in Phases, disk.st[q] = "RUNNING" PROVE q = p
  <2>1. q = i
    BY <1>1, <1>4 DEF ReportInv, OneRunning
  <2>2. p > i => i \in i..(p - 1)
    BY <1>1 DEF Phases
  <2> QED BY <1>1, <1>4, <2>1, <2>2 DEF Phases
<1> QED BY <1>1, <1>2, <1>3, <1>4 DEF ReportInv, OneRunning, Forgotten, Chain

LEMMA FinishForwardReports == SagaInv /\ ReportInv /\ FinishForward => ReportInv'
<1> SUFFICES ASSUME SagaInv, ReportInv, FinishForward PROVE ReportInv'
  OBVIOUS
<1>1. /\ pc = "phase" /\ pc' = "idle" /\ UNCHANGED <<i, undoFailed, forgotten>>
      /\ \A q \in i..N : disk.st[q] = "DONE"
      /\ disk \in SagaRun /\ mem = disk /\ disk # None /\ i \in 1..(N + 1)
  BY HasRun DEF FinishForward, history, Stopped, SagaInv, InStep
<1>2. disk'.overall = "DONE" /\ disk'.st = disk.st
  BY <1>1, OverallTyped DEF FinishForward, SagaStatus
<1>3. Forgotten(disk)
  BY <1>1 DEF ReportInv, OneRunning, Chain
<1>4. ASSUME NEW q \in Phases, disk.st[q] = "RUNNING" PROVE FALSE
  <2>1. q = i
    BY <1>1, <1>4 DEF ReportInv, OneRunning
  <2>2. i \in i..N
    BY <2>1, PhaseAssumption DEF Phases
  <2> QED BY <1>1, <1>4, <2>1, <2>2
<1> QED BY <1>1, <1>2, <1>3, <1>4 DEF ReportInv, OneRunning, Forgotten, Chain

\* do_func and its checks touch neither the statuses of the other phases nor
\* undoFailed.
LEMMA PhaseReports ==
  SagaInv /\ ReportInv /\ (DoFails \/ CheckFails \/ DoReturns) => ReportInv'
BY DEF DoFails, CheckFails, DoReturns, history, ReportInv, OneRunning, Forgotten, Chain

LEMMA CommitReports == SagaInv /\ ReportInv /\ Commit => ReportInv'
<1> SUFFICES ASSUME SagaInv, ReportInv, Commit PROVE ReportInv'
  OBVIOUS
<1>1. /\ pc = "check" /\ pc' = "phase" /\ UNCHANGED <<undoFailed, forgotten>>
      /\ disk \in SagaRun /\ mem = disk /\ disk # None
  BY HasRun DEF Commit, history, Stopped
<1>2. /\ disk'.overall = disk.overall /\ disk'.idx = disk.idx
      /\ \A q \in Phases : disk'.st[q] = IF q = i THEN "DONE" ELSE disk.st[q]
  BY <1>1, SetPhaseTyped DEF Commit, Write, PhaseStatus
<1>3. disk.overall = "RUNNING" /\ i = disk.idx /\ Forgotten(disk)
      /\ \A q \in Phases : disk.st[q] = "RUNNING" => q = disk.idx
  BY <1>1 DEF ReportInv, OneRunning, Chain
<1> QED BY <1>1, <1>2, <1>3 DEF ReportInv, OneRunning, Forgotten, Chain

LEMMA FailPhaseReports == SagaInv /\ ReportInv /\ FailPhase => ReportInv'
<1> SUFFICES ASSUME SagaInv, ReportInv, FailPhase PROVE ReportInv'
  OBVIOUS
<1>1. /\ pc = "fail" /\ pc' = "compensate" /\ UNCHANGED <<undoFailed, forgotten>>
      /\ disk \in SagaRun /\ mem = disk /\ disk # None
  BY HasRun DEF FailPhase, history, Stopped
<1>2. /\ disk'.overall = "FAILED"
      /\ \A q \in Phases : disk'.st[q] = IF q = i THEN "FAILED" ELSE disk.st[q]
  BY <1>1, FailedTyped DEF FailPhase, Write
<1>3. i = disk.idx /\ disk.overall = "RUNNING" /\ Forgotten(disk)
      /\ \A q \in Phases : disk.st[q] = "RUNNING" => q = disk.idx
  BY <1>1 DEF ReportInv, OneRunning, Chain
<1> QED BY <1>1, <1>2, <1>3 DEF ReportInv, OneRunning, Forgotten, Chain

LEMMA StartCompensationReports == SagaInv /\ ReportInv /\ StartCompensation => ReportInv'
<1> SUFFICES ASSUME SagaInv, ReportInv, StartCompensation PROVE ReportInv'
  OBVIOUS
<1>1. /\ pc = "compensate" /\ pc' = "undo" /\ forgotten' = forgotten
      /\ disk \in SagaRun /\ mem = disk /\ disk # None
  BY HasRun DEF StartCompensation, history, Stopped
<1>2. mem' = disk' /\ disk'.overall = "COMPENSATING" /\ disk'.st = disk.st
      /\ disk'.idx = disk.idx
  BY <1>1, OverallTyped DEF StartCompensation, Write, SagaStatus
<1> QED BY <1>1, <1>2 DEF ReportInv, OneRunning, Forgotten, Chain

\* ReportInv says nothing of idx while the chain runs: the phase at work is no
\* RUNNING one.
LEMMA StartUndoReports ==
  ASSUME SagaInv, ReportInv, NEW p \in Phases, StartUndo(p) PROVE ReportInv'
<1>1. /\ pc = "undo" /\ pc' = "undoing" /\ UNCHANGED <<undoFailed, forgotten>>
      /\ disk \in SagaRun /\ mem = disk /\ disk # None
  BY HasRun DEF StartUndo, history, Stopped
<1>2. /\ mem' = disk' /\ disk'.overall = disk.overall /\ disk'.idx = disk.idx
      /\ \A q \in Phases : disk'.st[q] = IF q = p THEN "UNDOING" ELSE disk.st[q]
  BY <1>1, SetPhaseTyped DEF StartUndo, Write, PhaseStatus
<1> QED BY <1>1, <1>2 DEF ReportInv, OneRunning, Forgotten, Chain

LEMMA UndoEndsReports == SagaInv /\ ReportInv /\ (UndoReturns \/ UndoRaises) => ReportInv'
<1> SUFFICES ASSUME SagaInv, ReportInv, UndoReturns \/ UndoRaises PROVE ReportInv'
  OBVIOUS
<1>1. /\ pc = "undoing" /\ pc' = "undone" /\ UNCHANGED <<disk, forgotten>>
      /\ disk \in SagaRun /\ mem = disk /\ disk # None
  BY HasRun DEF UndoReturns, UndoRaises, history, Stopped
<1>2. undoFailed' \/ Forgotten(mem)'
  <2>1. CASE UndoRaises
    BY <2>1 DEF UndoRaises, UndoFailedNow
  <2>2. CASE UndoReturns
    <3>1. \A q \in Phases : mem'.st[q] = IF q = i THEN "UNDONE" ELSE disk.st[q]
      BY <1>1, <2>2, SetPhaseTyped DEF UndoReturns, PhaseStatus
    <3>2. undoFailed' = undoFailed
      BY <2>2 DEF UndoReturns
    <3> QED BY <1>1, <3>1, <3>2 DEF ReportInv, Forgotten, Chain
  <2> QED BY <2>1, <2>2
<1>3. undoFailed => undoFailed'
  BY DEF UndoReturns, UndoRaises, UndoFailedNow
<1>4. \A q \in Phases : mem'.st[q] # "RUNNING"
  <2>1. PICK s \in {"UNDONE", "UNDO_FAILED"} : mem' = SetPhase(mem, i, s)
    BY DEF UndoReturns, UndoRaises
  <2>2. \A q \in Phases : mem'.st[q] = IF q = i THEN s ELSE disk.st[q]
    BY <1>1, <2>1, SetPhaseTyped DEF PhaseStatus
  <2> QED BY <1>1, <2>2 DEF ReportInv, Chain
<1> QED BY <1>1, <1>2, <1>3, <1>4 DEF ReportInv, OneRunning, Forgotten, Chain

LEMMA WriteUndoReports == SagaInv /\ ReportInv /\ WriteUndo => ReportInv'
<1> SUFFICES ASSUME SagaInv, ReportInv, WriteUndo PROVE ReportInv'
  OBVIOUS
<1>1. /\ pc = "undone" /\ pc' = "undo" /\ UNCHANGED <<undoFailed, forgotten>>
      /\ disk' = mem /\ mem' = mem
  BY DEF WriteUndo, Write, history
<1>2. mem.overall = "COMPENSATING" /\ \A q \in Phases : mem.st[q] # "RUNNING"
  BY <1>1 DEF ReportInv, Chain, SagaInv, InStep
<1> QED BY <1>1, <1>2 DEF ReportInv, OneRunning, Forgotten, Chain

LEMMA FinishCompensationReports == SagaInv /\ ReportInv /\ FinishCompensation => ReportInv'
<1> SUFFICES ASSUME SagaInv, ReportInv, FinishCompensation PROVE ReportInv'
  OBVIOUS
<1>1. /\ pc = "undo" /\ pc' = "idle" /\ UNCHANGED <<i, undoFailed, forgotten>>
      /\ disk \in SagaRun /\ mem = disk /\ disk # None
  BY HasRun DEF FinishCompensation, history, Stopped
<1>2. /\ disk'.overall = IF undoFailed THEN "PARTIAL_COMPENSATION" ELSE "COMPENSATED"
      /\ disk'.st = disk.st
  BY <1>1, OverallTyped DEF FinishCompensation, SagaStatus
<1>3. \A q \in Phases : disk.st[q] # "RUNNING"
  BY <1>1 DEF ReportInv, OneRunning, Chain
<1>4. undoFailed \/ Forgotten(disk)
  BY <1>1 DEF ReportInv, Chain
<1> QED BY <1>1, <1>2, <1>3, <1>4 DEF ReportInv, OneRunning, Forgotten, Chain

\* What the file says of failed undos when the chain breaks is forgotten.
LEMMA CrashReports == SagaInv /\ ReportInv /\ Crash => ReportInv'
<1> SUFFICES ASSUME SagaInv, ReportInv, Crash PROVE ReportInv'
  OBVIOUS
<1>1. pc' = "down" /\ disk' = disk
  BY DEF Crash
<1>2. CASE disk.overall = "COMPENSATING"
  <2>1. Forgotten(disk)'
    BY <1>1, <1>2 DEF Crash, Forgotten
  <2> QED BY <1>1, <2>1 DEF ReportInv, OneRunning, Chain
<1>3. CASE disk.overall # "COMPENSATING"
  <2>1. forgotten' = forgotten
    BY <1>3 DEF Crash
  <2> QED BY <1>1, <1>3, <2>1 DEF ReportInv, OneRunning, Forgotten, Chain
<1> QED BY <1>2, <1>3

LEMMA NextReportInv == SagaInv /\ ReportInv /\ [Next]_vars => ReportInv'
<1> SUFFICES ASSUME SagaInv, ReportInv, [Next]_vars PROVE ReportInv'
  OBVIOUS
<1>1. CASE UNCHANGED vars
  BY <1>1 DEF vars, ReportInv, OneRunning, Forgotten
<1>2. CASE Next
  BY <1>2, ExecuteReports, ResumeReports, LoopReports, StartPhaseReports,
     FinishForwardReports, PhaseReports, CommitReports, FailPhaseReports,
     StartCompensationReports, StartUndoReports, UndoEndsReports, WriteUndoReports,
     FinishCompensationReports, CrashReports
     DEF Next, Engine
<1> QED BY <1>1, <1>2

\* A failed undo is reported, whatever crashes and restarts: a run with one is
\* COMPENSATED only if the failure was on disk when a compensation was cut short.
THEOREM UndoFailuresReported == Spec => []UndoFailureReported
<1>1. Spec => []ReportInv
  BY SagaInvariant, InitReportInv, NextReportInv, PTL DEF Spec
<1>2. ReportInv => UndoFailureReported
  BY DEF ReportInv, Forgotten, UndoFailureReported, Chain
<1> QED BY <1>1, <1>2, PTL
================================================================================
