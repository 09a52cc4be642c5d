----------------------------- MODULE Exclusion -----------------------------
(***************************************************************************)
(* What the repository protects against a second holder: the managers of   *)
(* keyed locks, HeyLou's rooms, the sections, and the pipeline of an       *)
(* action.  They share no state, so a behaviour is about one of them:      *)
(* `engine` says which, and the others stand still.                        *)
(***************************************************************************)
EXTENDS Integers, Sequences, FiniteSets

CONSTANTS
  None,
  Keys, Threads, HolderOf, LockTTL, LockMaxAge, Capacity,   \* KeyedLocks
  Channels, RoomTTL,                                        \* RoomLock
  Procs, SectionTTL, Refractory, SectionMaxAge, MaxBlock,   \* SectionLock
  Processes, N, PipeTTL                                     \* Pipelines

\* None is no row of a lock.  A key is a pair, a bounded manager is built with a
\* limit, and the lease of a pipeline lives for at least a second.
NoneAssumption ==
  /\ None \notin [by : Threads, left : Int] /\ None \notin [by : Procs, left : Int]
  /\ None \notin [by : Processes, left : Int]
LocksAssumption ==
  /\ \A k \in Keys : k = <<k[1], k[2]>>
  /\ IsFiniteSet(Keys) /\ LockTTL \in Nat /\ LockMaxAge \in Nat
  /\ Capacity \in [{"lock-edit", "lock-project", "lock-document"} -> Nat]
TimeAssumption ==
  /\ RoomTTL \in Nat /\ SectionTTL \in Nat /\ Refractory \in Nat /\ SectionMaxAge \in Nat
  /\ N \in Nat /\ PipeTTL \in Nat \ {0}

ASSUME NoneAssumption
ASSUME LocksAssumption
ASSUME TimeAssumption

VARIABLES
  engine,       \* the class that this behaviour is about
  \* six managers of keyed locks
  keyedLease, tokens, keyedBroken, rivals, reported,
  \* HeyLou's room lock
  roomRecord, promised,
  \* section lock and replay guard
  row, calm, sectionPc, age, token, sectionBroken, late, nonce, chain, anchor, picked,
  \* the pipeline of one action
  pipePc, pipeLease, workflow, file, mem, undo, ran, published, early

Locks == INSTANCE KeyedLocks WITH
  TTL <- LockTTL, MaxAge <- LockMaxAge, lease <- keyedLease, broken <- keyedBroken
Room == INSTANCE RoomLock WITH
  TTL <- RoomTTL, record <- roomRecord
Section == INSTANCE SectionLock WITH
  TTL <- SectionTTL, MaxAge <- SectionMaxAge, pc <- sectionPc, broken <- sectionBroken
Pipes == INSTANCE Pipelines WITH
  TTL <- PipeTTL, pc <- pipePc, lease <- pipeLease

-----------------------------------------------------------------------------
Init ==
  /\ engine \in UNION {Locks!Engines, Room!Engines, Section!Engines, Pipes!Engines}
  /\ Locks!Start /\ Room!Start /\ Section!Start /\ Pipes!Start

locksVars == <<keyedLease, tokens, keyedBroken, rivals, reported>>
roomVars == <<roomRecord, promised>>
sectionVars == <<row, calm, sectionPc, age, token, sectionBroken, late, nonce, chain, anchor,
                 picked>>
pipesVars == <<pipePc, pipeLease, workflow, file, mem, undo, ran, published, early>>

Next ==
  /\ UNCHANGED engine
  /\ IF engine \in Locks!Engines THEN Locks!Next ELSE UNCHANGED locksVars
  /\ IF engine \in Room!Engines THEN Room!Next ELSE UNCHANGED roomVars
  /\ IF engine \in Section!Engines THEN Section!Next ELSE UNCHANGED sectionVars
  /\ IF engine \in Pipes!Engines THEN Pipes!Next ELSE UNCHANGED pipesVars

vars == <<engine, locksVars, roomVars, sectionVars, pipesVars>>

Spec == Init /\ [][Next]_vars

-----------------------------------------------------------------------------
(* Properties *)

\* What was granted stays granted: a lock, a room, a section is not given to a second
\* holder, rivals are told of each other, and no manager holds more than its capacity.
GrantsHold ==
  /\ Locks!GrantKept /\ Locks!RivalsReported /\ Locks!WithinCapacity
  /\ Room!NotSoldTwice
  /\ Section!TokenKept /\ Section!NoFalseAlarm

\* A lease that lapses once the workflow of an action is started lets nobody else work on
\* the action: its saga has one engine, its phases are done once, it has one event.
RunsOnce == Pipes!RunsOnceUnlessEarly

\* The lock managers and the section lock implement ExclusiveLease; a room is freed by its
\* holder or by time, and a section's lock is only granted anew after it has rested.
ImplementLease ==
  /\ Locks!Exclusive!Spec /\ Section!Exclusive!Spec
  /\ Room!FreedByHolder /\ Section!CalmBeforeGrant
=============================================================================
