------------------------- MODULE DurableStateMachine -------------------------
(***************************************************************************)
(* One workflow of durable_execution/: processes append numbered events to *)
(* events.jsonl under a directory lock, snapshot the materialised run from *)
(* time to time, and rebuild it from the latest snapshot and the events    *)
(* after it.                                                               *)
(*                                                                         *)
(* An event is its sequence number and an id; a run is the sequence of the *)
(* ids applied to it, so its .sequence is its length (NoGaps).  Snapshots  *)
(* are never deleted and only the one with the highest number is read:     *)
(* that one is kept.  The lock's age is fresh or stale.  A process here is *)
(* one caller at a time, which the RLock of a real process sees to.        *)
(***************************************************************************)
EXTENDS Naturals, Sequences, FiniteSets, SequencesExt

CONSTANTS
  Procs,
  Every,       \* snapshot_every_n_events
  MaxEvents,   \* bound: lines written to the log
  MaxCrashes   \* bound: crashes of processes

ASSUME EveryAssumption == Every \in Nat \ {0}
ASSUME BoundsAssumption == MaxEvents \in Nat /\ MaxCrashes \in Nat

VARIABLES
  exists,    \* events.jsonl is there
  log,       \* its well-formed lines, in file order
  torn,      \* its last line has no newline: "part" of it or the "whole" is there
  snap,      \* the run of the latest snapshot
  lock,      \* state.lock: "free", "fresh" or "stale"
  pc,
  next,      \* next_seq of a transition
  mine,      \* id of the event a transition appended
  run,       \* the run a process is about to write as a snapshot
  lines,     \* events written so far; the last one's id
  committed, \* history: ids of the events whose transition returned
  damage,    \* history: what happened that the design does not expect
  crashes

file   == <<exists, log, torn, lines>>
locals == <<pc, next, mine, run>>
vars   == <<file, snap, lock, locals, committed, damage, crashes>>

Ids == 1..MaxEvents

\* A process between _acquire_fs_lock and _release_fs_lock.
CriticalPcs == {"read", "append", "snapshot", "autowrite", "return", "release"}
InCritical(p) == pc[p] \in CriticalPcs

Init ==
  /\ exists = FALSE /\ log = <<>> /\ torn = "no" /\ lines = 0
  /\ snap = <<>> /\ lock = "free"
  /\ pc = [p \in Procs |-> "idle"]
  /\ next = [p \in Procs |-> 0] /\ mine = [p \in Procs |-> 0]
  /\ run = [p \in Procs |-> <<>>]
  /\ committed = {} /\ damage = {} /\ crashes = 0

Goto(p, l) == pc' = [pc EXCEPT ![p] = l]

\* A call ends, and what it held in memory is gone.
Ends(p) ==
  /\ Goto(p, "idle")
  /\ next' = [next EXCEPT ![p] = 0] /\ mine' = [mine EXCEPT ![p] = 0]
  /\ run' = [run EXCEPT ![p] = <<>>]

-----------------------------------------------------------------------------
(* Reading *)

SeqsOf(l) == {l[i].seq : i \in DOMAIN l}

\* The lines are sorted by number, stably: the first line of a number wins,
\* and a later one is skipped because the run is already there.
FirstId(l, k) == l[CHOOSE i \in DOMAIN l : l[i].seq = k /\ \A j \in 1..(i-1) : l[j].seq # k].id

\* FAULT: the event the snapshot ends with is applied again.
IsNewerOrEqual(k, base) == k >= Len(base)

IsNewer(k, base) == k > Len(base)

\* The members of a set of numbers, ascending.
InOrder(S) ==
  [i \in 1..Cardinality(S) |-> CHOOSE k \in S : Cardinality({j \in S : j <= k}) = i]

Replay(base, l) ==
  LET new == InOrder({k \in SeqsOf(l) : IsNewer(k, base)})
  IN  base \o [i \in DOMAIN new |-> FirstId(l, new[i])]

\* recover.  The log only grows after the snapshot is read, so both are read
\* at once here.
Recovered == Replay(snap, log)

\* FAULT: the number is taken from the recovered run instead of the log.
NextAfterRun == Len(Recovered) + 1

\* FAULT: the lines of the file are counted on top of the events.
NextAfterLines == Len(log) + lines + 1

NextSeq == IF log = <<>> THEN 1
           ELSE 1 + CHOOSE k \in SeqsOf(log) : \A j \in SeqsOf(log) : j <= k

-----------------------------------------------------------------------------
(* Appending *)

\* A line is written in full.  After an unfinished line it becomes part of
\* that one, and what is there then does not parse.
AppendLine(s, other) ==
  /\ lines < MaxEvents
  /\ exists' = TRUE /\ torn' = "no" /\ lines' = lines + 1
  /\ log' = CASE torn = "no"    -> Append(log, [seq |-> s, id |-> lines + 1])
              [] torn = "part"  -> log
              [] torn = "whole" -> Front(log)
  /\ damage' = damage \cup other \cup (IF torn = "no" THEN {} ELSE {"merged"})

\* The write fails or the machine stops part of the way: nothing, a part of
\* the line or all of it but the newline is in the file.
AppendTears(s, other) ==
  /\ exists' = TRUE
  /\ \/ UNCHANGED <<log, torn, lines>> /\ damage' = damage \cup other
     \/ /\ torn # "whole" /\ torn' = "part"
        /\ damage' = damage \cup other /\ UNCHANGED <<log, lines>>
     \/ /\ torn = "whole" /\ torn' = "part" /\ log' = Front(log)
        /\ damage' = damage \cup other \cup {"merged"} /\ UNCHANGED lines
     \/ /\ torn = "no" /\ torn' = "whole" /\ lines < MaxEvents
        /\ log' = Append(log, [seq |-> s, id |-> lines + 1]) /\ lines' = lines + 1
        /\ damage' = damage \cup other

-----------------------------------------------------------------------------
(* start_workflow *)

StartBegin(p) ==
  /\ pc[p] = "idle" /\ ~exists
  /\ Goto(p, "start")
  /\ UNCHANGED <<file, snap, lock, next, mine, run, committed, damage, crashes>>

LateStart == IF exists THEN {"late start"} ELSE {}

\* No lock is taken: another process may have started the workflow since.
StartAppend(p) ==
  /\ pc[p] = "start" /\ Goto(p, "idle")
  /\ AppendLine(1, LateStart) \/ AppendTears(1, LateStart)
  /\ UNCHANGED <<snap, lock, next, mine, run, committed, crashes>>

-----------------------------------------------------------------------------
(* transition *)

\* FAULT: mkdir(exist_ok=True).
MkdirAlways == TRUE

MkdirSucceeds == lock = "free"

\* _acquire_fs_lock: mkdir, or find that the directory is there.
Acquire(p) ==
  /\ pc[p] = "idle" /\ exists
  /\ IF MkdirSucceeds THEN lock' = "fresh" /\ Goto(p, "read")
                      ELSE Goto(p, "stat") /\ UNCHANGED lock
  /\ UNCHANGED <<file, snap, next, mine, run, committed, damage, crashes>>

\* FAULT: the comparison with lock_stale_after_s is the wrong way round.
IsFresh == lock = "fresh"

IsStale == lock = "stale"

\* The directory's age.  If it has gone, mkdir is tried once more; if it is
\* young, ConcurrentTransitionError.
Stat(p) ==
  /\ pc[p] = "stat"
  /\ Goto(p, IF lock = "free" THEN "mkdir again" ELSE IF IsStale THEN "claim" ELSE "idle")
  /\ UNCHANGED <<file, snap, lock, next, mine, run, committed, damage, crashes>>

MkdirAgain(p) ==
  /\ pc[p] = "mkdir again"
  /\ IF lock = "free" THEN lock' = "fresh" /\ Goto(p, "read")
                      ELSE Goto(p, "idle") /\ UNCHANGED lock
  /\ UNCHANGED <<file, snap, next, mine, run, committed, damage, crashes>>

Overlap(p) == IF \E q \in Procs \ {p} : InCritical(q) THEN {"overlap"} ELSE {}

\* os.utime on the stale directory: it may be gone, or another's by now.
Claim(p) ==
  /\ pc[p] = "claim"
  /\ IF lock = "free"
       THEN Goto(p, "idle") /\ UNCHANGED <<lock, damage>>
       ELSE Goto(p, "read") /\ lock' = "fresh" /\ damage' = damage \cup Overlap(p)
  /\ UNCHANGED <<file, snap, next, mine, run, committed, crashes>>

ReadNext(p) ==
  /\ pc[p] = "read" /\ Goto(p, "append")
  /\ next' = [next EXCEPT ![p] = NextSeq]
  /\ UNCHANGED <<file, snap, lock, mine, run, committed, damage, crashes>>

AppendEvent(p) ==
  /\ pc[p] = "append"
  /\ AppendLine(next[p], {})
  /\ mine' = [mine EXCEPT ![p] = lines + 1]
  /\ next' = [next EXCEPT ![p] = 0]
  /\ Goto(p, IF next[p] % Every = 0 THEN "snapshot" ELSE "return")
  /\ UNCHANGED <<snap, lock, run, committed, crashes>>

\* FAULT: a failed write is not noticed.
AfterFailedAppendReturn == "return"

AfterFailedAppend == "release"

AppendFails(p) ==
  /\ pc[p] = "append" /\ AppendTears(next[p], {})
  /\ Goto(p, AfterFailedAppend)
  /\ next' = [next EXCEPT ![p] = 0]
  /\ UNCHANGED <<snap, lock, mine, run, committed, crashes>>

\* The automatic snapshot: recover, then write.
TakeRun(p) ==
  /\ pc[p] = "snapshot" /\ Goto(p, "autowrite")
  /\ run' = [run EXCEPT ![p] = Recovered]
  /\ UNCHANGED <<file, snap, lock, next, mine, committed, damage, crashes>>

WriteSnapshot(p) == snap' = IF Len(run[p]) >= Len(snap) THEN run[p] ELSE snap

AutoSnapshot(p) ==
  /\ pc[p] = "autowrite" /\ Goto(p, "return")
  /\ WriteSnapshot(p) /\ run' = [run EXCEPT ![p] = <<>>]
  /\ UNCHANGED <<file, lock, next, mine, committed, damage, crashes>>

\* Another failure inside the try: the log cannot be read, or the automatic
\* snapshot cannot be written.  The finally releases the lock; an event that is
\* in the log already stays there, though its transition raised.
Raises(p) ==
  /\ pc[p] \in {"read", "snapshot", "autowrite", "return"} /\ Goto(p, "release")
  /\ mine' = [mine EXCEPT ![p] = 0] /\ run' = [run EXCEPT ![p] = <<>>]
  /\ UNCHANGED <<file, snap, lock, next, committed, damage, crashes>>

\* _release_fs_lock removes whatever directory is there.
Return(p) ==
  /\ pc[p] = "return" /\ Ends(p)
  /\ lock' = "free" /\ committed' = committed \cup {mine[p]}
  /\ UNCHANGED <<file, snap, damage, crashes>>

Release(p) ==
  /\ pc[p] = "release" /\ Ends(p)
  /\ lock' = "free"
  /\ UNCHANGED <<file, snap, committed, damage, crashes>>

-----------------------------------------------------------------------------
(* snapshot, which takes no lock *)

SnapshotBegin(p) ==
  /\ pc[p] = "idle" /\ exists /\ Goto(p, "write")
  /\ run' = [run EXCEPT ![p] = Recovered]
  /\ UNCHANGED <<file, snap, lock, next, mine, committed, damage, crashes>>

\* The snapshot is written, or the write raises and leaves none.
SnapshotEnd(p) ==
  /\ pc[p] = "write" /\ Ends(p)
  /\ WriteSnapshot(p) \/ UNCHANGED snap
  /\ UNCHANGED <<file, lock, committed, damage, crashes>>

-----------------------------------------------------------------------------
(* The environment *)

Crash(p) ==
  /\ pc[p] # "idle" /\ crashes < MaxCrashes
  /\ Ends(p) /\ crashes' = crashes + 1
  /\ UNCHANGED <<file, snap, lock, committed, damage>>

\* lock_stale_after_s go by, whether or not the holder is still at work.
Age ==
  /\ lock = "fresh" /\ lock' = "stale"
  /\ UNCHANGED <<file, snap, locals, committed, damage, crashes>>

Step(p) ==
  \/ StartAppend(p) \/ Stat(p) \/ MkdirAgain(p) \/ Claim(p) \/ ReadNext(p)
  \/ AppendEvent(p) \/ AppendFails(p) \/ TakeRun(p) \/ AutoSnapshot(p)
  \/ Raises(p) \/ Return(p) \/ Release(p) \/ SnapshotEnd(p)

Next ==
  \/ \E p \in Procs : \/ StartBegin(p) \/ Acquire(p) \/ SnapshotBegin(p)
                      \/ Step(p) \/ Crash(p)
  \/ Age

Spec == Init /\ [][Next]_vars

\* Some call that has begun goes on; time passes; and some caller calls
\* transition again and again, which is what ConcurrentTransitionError leaves
\* to the callers.
Fairness ==
  /\ WF_vars(Age) /\ WF_vars(\E p \in Procs : Step(p))
  /\ SF_vars(\E p \in Procs : Acquire(p))

FairSpec == Spec /\ Fairness

-----------------------------------------------------------------------------
(* Properties *)

Event == [seq: 1..(MaxEvents + 1), id: Ids]

TypeOK ==
  /\ exists \in BOOLEAN /\ torn \in {"no", "part", "whole"}
  /\ log \in Seq(Event) /\ snap \in Seq(Ids)
  /\ lock \in {"free", "fresh", "stale"}
  /\ pc \in [Procs -> CriticalPcs \cup
               {"idle", "start", "stat", "mkdir again", "claim", "write"}]
  /\ next \in [Procs -> 0..(MaxEvents + 1)] /\ mine \in [Procs -> 0..MaxEvents]
  /\ run \in [Procs -> Seq(Ids)]
  /\ lines \in 0..MaxEvents /\ committed \subseteq 0..MaxEvents
  /\ damage \subseteq {"overlap", "late start", "merged"}
  /\ crashes \in 0..MaxCrashes

\* Two processes are inside a transition of the workflow at once only after a
\* stale lock was claimed while somebody was inside (a holder slower than
\* lock_stale_after_s, or two processes that claimed the same stale lock).
Exclusion ==
  "overlap" \notin damage =>
    \A p, q \in Procs : InCritical(p) /\ InCritical(q) => p = q

\* "keine Luecken": the numbers in the log are 1 to some n.  A line that was
\* read and later ran into another can leave a gap, but only if an overlap or
\* a late start let a second process append in between.
NoGaps ==
  ("merged" \in damage => damage = {"merged"}) => \E n \in 0..MaxEvents : SeqsOf(log) = 1..n

\* "keine Duplikate": two events share a number only after an overlap, or a
\* start_workflow that raced with another.
NoDuplicates ==
  damage \cap {"overlap", "late start"} = {} => Cardinality(SeqsOf(log)) = Len(log)

\* The run rebuilt from the snapshot and the events after it is the run
\* rebuilt from the whole log, however many processes snapshot it at whatever
\* moment, unless a line was appended to an unfinished one.
SnapshotFaithful == "merged" \notin damage => Recovered = Replay(<<>>, log)

\* The event of a transition that returned is part of every later run, unless
\* one of the three unexpected things happened.
CommittedKept == damage = {} => committed \subseteq ToSet(Recovered)

\* The same with no reservation: "crash-recovery (no lost commits)".
NoLostCommit == committed \subseteq ToSet(Recovered)

\* A lock whose holder died does not stay: somebody gets in or it is removed.
LockReclaimed ==
  lock # "free" ~> (lock = "free" \/ \E p \in Procs : InCritical(p))
=============================================================================
