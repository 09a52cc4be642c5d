-------------------------- MODULE Exclusion_proofs --------------------------
(***************************************************************************)
(* That grants hold, that the work on an action is done once, and that the *)
(* locks implement ExclusiveLease, for any number of keys, threads,        *)
(* channels, processes and phases and for every length of a lease.         *)
(***************************************************************************)
EXTENDS Exclusion, FiniteSetTheorems, WellFoundedInduction, TLAPS

-----------------------------------------------------------------------------
(***************************************************************************)
(* The room.  Whoever was told "booked" is the holder of a record that is  *)
(* booked or in conflict; nobody but a reservation's holder may book, and  *)
(* neither state expires.                                                  *)
(***************************************************************************)

RoomInv ==
  /\ roomRecord \in [state : {"available", "reserved", "booked", "conflict"},
                     holder : Channels \cup {None}, left : Int \cup {None}]
  /\ roomRecord.state = "reserved" => roomRecord.left \in Int
  /\ promised \subseteq Channels
  /\ \A c \in promised : /\ promised = {c} /\ roomRecord.holder = c
                         /\ roomRecord.state \in {"booked", "conflict"}

LEMMA RoomStart == Room!Start => RoomInv
  BY DEF Room!Start, RoomInv, Room!Available

LEMMA RoomStep == RoomInv /\ Room!Next => RoomInv'
<1> SUFFICES ASSUME RoomInv, Room!Next PROVE RoomInv'
  OBVIOUS
<1> DEFINE Records == [state : {"available", "reserved", "booked", "conflict"},
                       holder : Channels \cup {None}, left : Int \cup {None}]
<1>1. PICK r \in Records : r = Room!Current
  BY DEF RoomInv, Room!Current, Room!ExpireIfNeeded, Room!Available
<1>2. \A c \in promised : promised = {c} /\ r.holder = c /\ r.state \in {"booked", "conflict"}
  BY <1>1 DEF RoomInv, Room!Current, Room!ExpireIfNeeded, Room!Available
<1>3. r.state = "reserved" => r.left \in Int
  BY <1>1 DEF RoomInv, Room!Current, Room!ExpireIfNeeded, Room!Available
<1>4. /\ Room!Conflict(r) \in Records /\ Room!Conflict(r).state = "conflict"
      /\ Room!Conflict(r).holder = r.holder
  BY <1>1 DEF Room!Conflict
<1> USE TimeAssumption DEF TimeAssumption
<1>5. ASSUME NEW c \in Channels, Room!Reserve(c) PROVE RoomInv'
  BY <1>1, <1>2, <1>4, <1>5 DEF Room!Reserve, RoomInv, Room!OpenTo
<1>6. ASSUME NEW c \in Channels, Room!Book(c) PROVE RoomInv'
  <2>1. CASE Room!OpenTo(r, c)
    BY <1>1, <1>2, <1>6, <1>3, <2>1 DEF Room!Book, RoomInv, Room!OpenTo
  <2>2. CASE ~Room!OpenTo(r, c)
    BY <1>1, <1>2, <1>4, <1>6, <1>3, <2>2 DEF Room!Book, RoomInv
  <2> QED BY <2>1, <2>2
<1>7. ASSUME NEW c \in Channels, Room!Release(c) PROVE RoomInv'
  BY <1>1, <1>2, <1>3, <1>7 DEF Room!Release, RoomInv, Room!Available
<1>8. CASE Room!Look
  BY <1>1, <1>2, <1>3, <1>8 DEF Room!Look, RoomInv
<1>9. CASE Room!Tick
  BY <1>9 DEF Room!Tick, RoomInv
<1> QED BY <1>5, <1>6, <1>7, <1>8, <1>9 DEF Room!Next

-----------------------------------------------------------------------------
(***************************************************************************)
(* The section lock and the replay guard.  A grant that is neither expired *)
(* nor forced open is the row; who has passed the refractory check still   *)
(* satisfies it, or a release came after; no anchor that is stored or      *)
(* about to be stored lies beyond the chain.                               *)
(***************************************************************************)

SectionTyped ==
  /\ row # None => row \in [by : Procs, left : Int]
  /\ calm \in Int
  /\ sectionPc \in [Procs -> {"idle", "now", "clear", "force", "anchor"}]
  /\ age \in [Procs -> 0..SectionMaxAge]
  /\ token \subseteq Procs
  /\ chain \in Nat
  /\ picked \in [Procs -> Nat \cup {None}]

CheckedIsCalm ==
  \A p \in Procs : sectionPc[p] = "clear" => p \in late \/ calm - age[p] >= Refractory

AnchorsInChain ==
  /\ anchor = None \/ (anchor \in Nat /\ chain >= anchor)
  /\ \A p \in Procs : sectionPc[p] = "anchor" => picked[p] \in 0..chain

SectionInv == SectionTyped /\ Section!TokenKept /\ CheckedIsCalm /\ AnchorsInChain

LEMMA SectionStart == Section!Start => SectionInv
  BY TimeAssumption DEF TimeAssumption, Section!Start, SectionInv, SectionTyped,
    Section!TokenKept, CheckedIsCalm, AnchorsInChain, Section!Long

LEMMA SectionTypedStep == SectionTyped /\ Section!Next => SectionTyped'
<1> SUFFICES ASSUME SectionTyped, Section!Next PROVE SectionTyped'
  OBVIOUS
<1> USE TimeAssumption DEF TimeAssumption, SectionTyped, Section!lockVars, Section!replayVars,
      Section!Goto, Section!Idle, Section!Record, Section!Purges
<1>1. ASSUME NEW p \in Procs, Section!Ask(p) \/ Section!CheckRefractory(p) \/ Section!ForceSelect(p)
      PROVE  SectionTyped'
  BY <1>1 DEF Section!Ask, Section!CheckRefractory, Section!ForceSelect
<1>2. ASSUME NEW p \in Procs, Section!InsertRow(p) PROVE SectionTyped'
  BY <1>2 DEF Section!InsertRow
<1>3. ASSUME NEW p \in Procs, Section!ForceDelete(p) PROVE SectionTyped'
  BY <1>3 DEF Section!ForceDelete
<1>4. ASSUME NEW p \in Procs, NEW a \in 0..SectionMaxAge, Section!Release(p, a) PROVE SectionTyped'
  BY <1>4 DEF Section!Release
<1>5. ASSUME NEW a \in 0..SectionMaxAge, Section!Status(a) PROVE SectionTyped'
  BY <1>5 DEF Section!Status
<1>6. ASSUME NEW p \in Procs, Section!MarkUsed(p) \/ Section!AnchorWrite(p) PROVE SectionTyped'
  BY <1>6 DEF Section!MarkUsed, Section!AnchorWrite
<1>7. ASSUME NEW p \in Procs, NEW i \in 0..chain, Section!AnchorRead(p, i) PROVE SectionTyped'
  BY <1>7 DEF Section!AnchorRead
<1>8. CASE Section!IsUsed \/ Section!Append
  BY <1>8 DEF Section!IsUsed, Section!Append
<1>9. CASE Section!Tick
  BY <1>9, NoneAssumption DEF Section!Tick, Section!InUse, Section!Down
<1> QED BY <1>1, <1>2, <1>3, <1>4, <1>5, <1>6, <1>7, <1>8, <1>9
          DEF Section!Next, Section!Section, Section!Replay

LEMMA TokenKeptStep == SectionTyped /\ Section!TokenKept /\ Section!Next => Section!TokenKept'
<1> SUFFICES ASSUME SectionTyped, Section!TokenKept, Section!Next PROVE Section!TokenKept'
  OBVIOUS
<1> USE TimeAssumption, NoneAssumption DEF TimeAssumption, NoneAssumption, SectionTyped,
      Section!lockVars, Section!replayVars, Section!TokenKept, Section!Verified, Section!Live
<1>1. ASSUME UNCHANGED <<row, token, sectionBroken>> PROVE Section!TokenKept'
  BY <1>1
<1>2. ASSUME NEW p \in Procs, Section!Ask(p) \/ Section!CheckRefractory(p) \/ Section!ForceSelect(p)
      PROVE  Section!TokenKept'
  BY <1>1, <1>2 DEF Section!Ask, Section!CheckRefractory, Section!ForceSelect
<1>3. ASSUME NEW p \in Procs, Section!InsertRow(p) PROVE Section!TokenKept'
  <2>1. CASE row = None \/ Section!Purges(p)
    <3>1. token \ sectionBroken = {}
      BY <2>1 DEF Section!Purges
    <3>2. row' = [by |-> p, left |-> SectionTTL - age[p]] /\ token' = token \cup {p}
      BY <1>3, <2>1 DEF Section!InsertRow
    <3>3. row'.by = p /\ row'.left = SectionTTL - age[p] /\ row' # None
      BY <3>2
    <3>4. CASE SectionTTL <= age[p]
      <4>1. sectionBroken' = sectionBroken \cup {p}
        BY <1>3, <2>1, <3>4 DEF Section!InsertRow
      <4> QED BY <3>1, <3>2, <4>1
    <3>5. CASE ~(SectionTTL <= age[p])
      <4>1. sectionBroken' = sectionBroken \ {p}
        BY <1>3, <2>1, <3>5 DEF Section!InsertRow
      <4>2. token' \ sectionBroken' = {p}
        BY <3>1, <3>2, <4>1
      <4> QED BY <3>2, <3>3, <3>5, <4>2
    <3> QED BY <3>4, <3>5
  <2>2. CASE ~(row = None \/ Section!Purges(p))
    BY <1>1, <1>3, <2>2 DEF Section!InsertRow
  <2> QED BY <2>1, <2>2
<1>4. ASSUME NEW p \in Procs, Section!ForceDelete(p) PROVE Section!TokenKept'
  BY <1>4 DEF Section!ForceDelete
<1>5. ASSUME NEW p \in Procs, NEW a \in 0..SectionMaxAge, Section!Release(p, a)
      PROVE  Section!TokenKept'
  BY <1>5 DEF Section!Release
<1>6. ASSUME NEW a \in 0..SectionMaxAge, Section!Status(a) PROVE Section!TokenKept'
  BY <1>6 DEF Section!Status
<1>7. CASE Section!Replay
  BY <1>1, <1>7 DEF Section!Replay, Section!MarkUsed, Section!AnchorWrite, Section!AnchorRead,
    Section!IsUsed, Section!Append
<1>8. CASE Section!Tick
  BY <1>8 DEF Section!Tick, Section!Down
<1> QED BY <1>2, <1>3, <1>4, <1>5, <1>6, <1>7, <1>8 DEF Section!Next, Section!Section

LEMMA CheckedIsCalmStep == SectionTyped /\ CheckedIsCalm /\ Section!Next => CheckedIsCalm'
<1> SUFFICES ASSUME SectionTyped, CheckedIsCalm, Section!Next PROVE CheckedIsCalm'
  OBVIOUS
<1> USE TimeAssumption DEF TimeAssumption, SectionTyped, CheckedIsCalm,
      Section!lockVars, Section!replayVars, Section!Goto, Section!Idle
<1>1. ASSUME NEW p \in Procs, Section!Ask(p) \/ Section!ForceSelect(p) \/ Section!InsertRow(p)
      PROVE  CheckedIsCalm'
  BY <1>1 DEF Section!Ask, Section!ForceSelect, Section!InsertRow
<1>2. ASSUME NEW p \in Procs, Section!CheckRefractory(p) PROVE CheckedIsCalm'
  BY <1>2 DEF Section!CheckRefractory, Section!InRefractory
<1>3. ASSUME NEW p \in Procs, Section!ForceDelete(p) PROVE CheckedIsCalm'
  BY <1>3 DEF Section!ForceDelete, Section!Record
<1>4. ASSUME NEW p \in Procs, NEW a \in 0..SectionMaxAge, Section!Release(p, a)
      PROVE  CheckedIsCalm'
  BY <1>4 DEF Section!Release, Section!Record
<1>5. ASSUME NEW a \in 0..SectionMaxAge, Section!Status(a) PROVE CheckedIsCalm'
  BY <1>5 DEF Section!Status
<1>6. CASE Section!Replay
  BY <1>6 DEF Section!Replay, Section!MarkUsed, Section!AnchorWrite, Section!AnchorRead,
    Section!IsUsed, Section!Append
<1>7. CASE Section!Tick
  <2> SUFFICES ASSUME NEW p \in Procs, sectionPc[p] = "clear", p \notin late
               PROVE  calm' - age'[p] >= Refractory
    BY <1>7 DEF Section!Tick
  <2>1. age'[p] = age[p] + 1 /\ age[p] < SectionMaxAge /\ calm - age[p] >= Refractory
    BY <1>7 DEF Section!Tick, Section!InUse
  <2>2. calm' = calm + 1 \/ (calm' = calm /\ calm >= Refractory + SectionMaxAge)
    BY <1>7 DEF Section!Tick, Section!Long
  <2> QED BY <2>1, <2>2
<1> QED BY <1>1, <1>2, <1>3, <1>4, <1>5, <1>6, <1>7 DEF Section!Next, Section!Section

LEMMA AnchorsStep == SectionTyped /\ AnchorsInChain /\ Section!Next => AnchorsInChain'
<1> SUFFICES ASSUME SectionTyped, AnchorsInChain, Section!Next PROVE AnchorsInChain'
  OBVIOUS
<1> USE DEF SectionTyped, AnchorsInChain, Section!lockVars, Section!replayVars, Section!Goto,
      Section!Idle
<1>1. ASSUME NEW p \in Procs, Section!Ask(p) \/ Section!CheckRefractory(p) \/ Section!InsertRow(p)
                              \/ Section!ForceSelect(p) \/ Section!ForceDelete(p)
      PROVE  AnchorsInChain'
  BY <1>1 DEF Section!Ask, Section!ForceSelect, Section!InsertRow, Section!CheckRefractory,
    Section!ForceDelete
<1>2. ASSUME NEW p \in Procs, NEW a \in 0..SectionMaxAge, Section!Release(p, a)
      PROVE  AnchorsInChain'
  BY <1>2 DEF Section!Release
<1>3. ASSUME NEW a \in 0..SectionMaxAge, Section!Status(a) PROVE AnchorsInChain'
  BY <1>3 DEF Section!Status
<1>4. ASSUME NEW p \in Procs, Section!MarkUsed(p) PROVE AnchorsInChain'
  BY <1>4 DEF Section!MarkUsed
<1>5. ASSUME NEW p \in Procs, Section!AnchorWrite(p) PROVE AnchorsInChain'
  BY <1>5 DEF Section!AnchorWrite
<1>6. ASSUME NEW p \in Procs, NEW i \in 0..chain, Section!AnchorRead(p, i) PROVE AnchorsInChain'
  BY <1>6 DEF Section!AnchorRead
<1>7. CASE Section!IsUsed \/ Section!Append
  BY <1>7 DEF Section!IsUsed, Section!Append
<1>8. CASE Section!Tick
  BY <1>8 DEF Section!Tick
<1> QED BY <1>1, <1>2, <1>3, <1>4, <1>5, <1>6, <1>7, <1>8
          DEF Section!Next, Section!Section, Section!Replay

LEMMA SectionStep == SectionInv /\ Section!Next => SectionInv'
  BY SectionTypedStep, TokenKeptStep, CheckedIsCalmStep, AnchorsStep DEF SectionInv

-----------------------------------------------------------------------------
(***************************************************************************)
(* The lock managers.  Their operations come down to seven kinds of step:  *)
(* a grant after a sweep, a sweep alone, a renewal, a release, a forced    *)
(* release, a declaration of rivals, and time.                             *)
(***************************************************************************)

LocksTyped ==
  /\ keyedLease \in [Keys -> [by : Threads, left : Int] \cup {None}]
  /\ tokens \in [Threads -> SUBSET Keys]

GoneKeys == {j \in Keys : keyedLease[j] # None /\ Locks!Gone(keyedLease[j])}

Bounded == {"lock-edit", "lock-project", "lock-document"}

\* A thread gets k after the leases of S, which have expired, were swept: k is
\* free, or has expired, or belongs to a thread of the same holder.
Granted(t, k, a, S) ==
  /\ keyedLease' = [Locks!Without(S) EXCEPT ![k] = [by |-> t, left |-> LockTTL - a]]
  /\ Locks!Success(t, k, a) /\ Locks!Quiet
  /\ S \subseteq GoneKeys
  /\ engine \in Locks!TokenStyle => a = 0
  /\ \/ k \in S \/ keyedLease[k] = None \/ k \in GoneKeys
     \/ engine \notin Locks!TokenStyle /\ Locks!Holder(k) = HolderOf[t]

\* There was room for k: it had a lease already, or some lease was swept.
HasRoom(k, S) ==
  engine \in Bounded => \/ k \in Locks!Held \ S
                        \/ S # {} /\ S \subseteq Locks!Held \ {k}
                        \/ Cardinality(Locks!Held \ (S \cup {k})) < Capacity[engine]

\* None of the leases that are left is one of the same holder at a rival.
NoRival(t, k, S) ==
  engine = "lock-document" =>
    \A j \in Locks!Held \ S :
      Locks!Holder(j) = HolderOf[t] /\ j[1] # k[1] => {j[1], k[1]} \notin rivals

Swept(S) ==
  /\ S \subseteq GoneKeys /\ keyedLease' = Locks!Without(S)
  /\ UNCHANGED <<tokens, keyedBroken>> /\ Locks!Quiet

Renewed(t, k) ==
  /\ Locks!Owns(t, k) /\ k \notin GoneKeys /\ engine \in Locks!TokenStyle
  /\ keyedLease' = [keyedLease EXCEPT ![k] = [by |-> t, left |-> LockTTL]]
  /\ UNCHANGED <<tokens, keyedBroken>> /\ Locks!Quiet

LocksCase ==
  \/ \E t \in Threads, k \in Keys, a \in 0..LockMaxAge, S \in SUBSET Keys :
       Granted(t, k, a, S) /\ HasRoom(k, S) /\ NoRival(t, k, S)
  \/ \E S \in SUBSET Keys : Swept(S)
  \/ \E t \in Threads, k \in Keys : Renewed(t, k) \/ Locks!Release(t, k)
  \/ \E k \in Keys : Locks!ForceRelease(k)
  \/ \E j, k \in Keys : engine = "lock-document" /\ Locks!DeclareRivals(j[1], k[1])
  \/ Locks!Tick

\* Cardinality as KeyedLocks has it from FiniteSets is Cardinality.
LEMMA LocksCardinality == ASSUME NEW S PROVE Locks!Cardinality(S) = Cardinality(S)
  BY DEF Locks!Cardinality, Cardinality

LEMMA WithoutNone == LocksTyped => Locks!Without({}) = keyedLease
  BY DEF LocksTyped, Locks!Without

LEMMA AcquireCase ==
  ASSUME LocksTyped, engine \in Locks!TokenStyle, NEW t \in Threads, NEW k \in Keys, Locks!Acquire(t, k)
  PROVE  Granted(t, k, 0, {})
<1>1. keyedLease' = [Locks!Without({}) EXCEPT ![k] = [by |-> t, left |-> LockTTL - 0]]
  BY WithoutNone DEF Locks!Acquire, Locks!Put
<1>2. keyedLease[k] = None \/ k \in GoneKeys
  BY DEF Locks!Acquire, Locks!Free, Locks!IsExpired, LocksTyped, GoneKeys, Locks!Gone
<1> QED BY <1>1, <1>2 DEF Granted, Locks!Acquire

LEMMA SweepCase ==
  ASSUME LocksTyped, engine \in Locks!TokenStyle, Locks!SweepExpired
  PROVE  Swept({k \in Keys : Locks!IsExpired(k, 0)})
  BY DEF LocksTyped, Locks!SweepExpired, Locks!IsExpired, GoneKeys, Locks!Gone, Swept

LEMMA RenewCase ==
  ASSUME LocksTyped, engine \in Locks!TokenStyle, NEW t \in Threads, NEW k \in Keys, Locks!Renew(t, k)
  PROVE  Renewed(t, k) \/ Swept({k})
<1>1. CASE Locks!IsExpired(k, 0)
  BY <1>1 DEF LocksTyped, Locks!Renew, Locks!IsExpired, GoneKeys, Locks!Gone, Swept
<1>2. CASE ~Locks!IsExpired(k, 0)
  <2>1. keyedLease' = [keyedLease EXCEPT ![k] = [by |-> t, left |-> LockTTL]]
    BY <1>2, LocksAssumption DEF LocksAssumption, Locks!Renew, Locks!Put
  <2>2. k \notin GoneKeys
    BY <1>2 DEF LocksTyped, Locks!IsExpired, GoneKeys, Locks!Gone
  <2> QED BY <2>1, <2>2 DEF Renewed, Locks!Renew
<1> QED BY <1>1, <1>2

LEMMA EditCase ==
  ASSUME LocksTyped, engine = "lock-edit", NEW t \in Threads, NEW k \in Keys, Locks!EditAcquire(t, k)
  PROVE  \E S \in SUBSET Keys : Swept(S) \/ (Granted(t, k, 0, S) /\ HasRoom(k, S))
<1> DEFINE others == Locks!Held \ {k}
           full   == Cardinality(others) >= Capacity[engine]
           swept  == IF full THEN {j \in others : Locks!IsExpired(j, 0)} ELSE {}
<1>1. swept \subseteq GoneKeys /\ swept \subseteq others /\ swept \in SUBSET Keys
  BY DEF LocksTyped, Locks!IsExpired, GoneKeys, Locks!Gone, Locks!TokenStyle, Locks!Held
<1>2. keyedLease[k] = None \/ k \in GoneKeys
  BY DEF Locks!EditAcquire, Locks!Free, Locks!IsExpired, LocksTyped, GoneKeys, Locks!Gone,
    Locks!TokenStyle
<1>5. /\ IF full /\ swept = {}
             THEN keyedLease' = Locks!Without({k}) /\ UNCHANGED <<tokens, keyedBroken>>
             ELSE keyedLease' = Locks!Put(Locks!Without(swept), t, k, 0) /\ Locks!Success(t, k, 0)
      /\ Locks!Quiet
  BY LocksCardinality, Zenon DEF Locks!EditAcquire
<1>3. CASE full /\ swept = {}
  <2>1. keyedLease' = Locks!Without({k}) /\ UNCHANGED <<tokens, keyedBroken>> /\ Locks!Quiet
    BY <1>3, <1>5
  <2>2. CASE keyedLease[k] = None
    <3>1. Locks!Without({k}) = Locks!Without({})
      BY <2>2 DEF Locks!Without
    <3>2. Swept({})
      BY <2>1, <3>1 DEF Swept
    <3> QED BY <3>2
  <2>3. CASE k \in GoneKeys
    <3>1. Swept({k})
      BY <2>1, <2>3 DEF Swept
    <3> QED BY <3>1
  <2> QED BY <1>2, <2>2, <2>3
<1>4. CASE ~(full /\ swept = {})
  <2>1. /\ keyedLease' = [Locks!Without(swept) EXCEPT ![k] = [by |-> t, left |-> LockTTL - 0]]
        /\ Locks!Success(t, k, 0) /\ Locks!Quiet
    BY <1>4, <1>5 DEF Locks!Put
  <2>2. Granted(t, k, 0, swept)
    BY <1>1, <1>2, <2>1 DEF Granted
  <2>3. HasRoom(k, swept)
    <3>1. CASE full
      BY <1>1, <1>4, <3>1 DEF HasRoom
    <3>2. CASE ~full
      <4>1. swept = {} /\ Locks!Held \ (swept \cup {k}) = others
        BY <3>2
      <4>2. Cardinality(others) \in Nat
        BY LocksAssumption, FS_Subset, FS_CardinalityType DEF LocksAssumption, Locks!Held
      <4>3. Cardinality(others) < Capacity[engine]
        BY <3>2, <4>2, LocksAssumption DEF LocksAssumption
      <4> QED BY <4>1, <4>3 DEF HasRoom
    <3> QED BY <3>1, <3>2
  <2> HIDE DEF swept
  <2> QED BY <1>1, <2>2, <2>3
<1> QED BY <1>3, <1>4

LEMMA ReacquireCase ==
  ASSUME LocksTyped, engine \in {"lock-project", "lock-document"}, NEW t \in Threads, NEW k \in Keys,
         NEW a \in 0..LockMaxAge, Locks!Reacquire(t, k, a), Locks!Quiet,
         NoRival(t, k, {j \in Keys : Locks!IsOver(j, a)})
  PROVE  \E S \in SUBSET Keys : Swept(S) \/ (Granted(t, k, a, S) /\ HasRoom(k, S) /\ NoRival(t, k, S))
<1> DEFINE swept == {j \in Keys : Locks!IsOver(j, a)}
           after == Locks!Without(swept)
<1>1. swept \subseteq GoneKeys /\ swept \in SUBSET Keys
  BY LocksAssumption
  DEF LocksAssumption, LocksTyped, Locks!IsOver, GoneKeys, Locks!Gone, Locks!TokenStyle
<1>2. /\ after[k] # None => k \in Locks!Held \ swept /\ after[k] = keyedLease[k]
      /\ after[k] = None => k \in swept \/ keyedLease[k] = None
  BY DEF Locks!Without, Locks!Held
<1>5. IF \/ after[k] # None /\ Locks!Holder(k) # HolderOf[t]
         \/ after[k] = None /\ Cardinality(Locks!Held \ swept) >= Capacity[engine]
        THEN keyedLease' = after /\ UNCHANGED <<tokens, keyedBroken>>
        ELSE keyedLease' = Locks!Put(after, t, k, a) /\ Locks!Success(t, k, a)
  BY LocksCardinality, Zenon DEF Locks!Reacquire
<1>6. NoRival(t, k, swept)
  OBVIOUS
<1>3. CASE \/ after[k] # None /\ Locks!Holder(k) # HolderOf[t]
           \/ after[k] = None /\ Cardinality(Locks!Held \ swept) >= Capacity[engine]
  <2>1. Swept(swept)
    BY <1>1, <1>3, <1>5 DEF Swept
  <2> HIDE DEF swept
  <2> QED BY <1>1, <2>1
<1>4. CASE ~ (\/ after[k] # None /\ Locks!Holder(k) # HolderOf[t]
              \/ after[k] = None /\ Cardinality(Locks!Held \ swept) >= Capacity[engine])
  <2>1. /\ keyedLease' = [after EXCEPT ![k] = [by |-> t, left |-> LockTTL - a]]
        /\ Locks!Success(t, k, a)
    BY <1>4, <1>5 DEF Locks!Put
  <2>2. Granted(t, k, a, swept)
    BY <1>1, <1>2, <1>4, <2>1 DEF Granted, Locks!TokenStyle
  <2>3. HasRoom(k, swept)
    <3>1. CASE after[k] # None
      BY <1>2, <3>1 DEF HasRoom
    <3>2. CASE after[k] = None
      <4>1. Locks!Held \ (swept \cup {k}) = Locks!Held \ swept
        BY <1>2, <3>2 DEF Locks!Held
      <4>2. Cardinality(Locks!Held \ swept) \in Nat
        BY LocksAssumption, FS_Subset, FS_CardinalityType DEF LocksAssumption, Locks!Held
      <4>3. Cardinality(Locks!Held \ swept) < Capacity[engine]
        BY <1>4, <3>2, <4>2, LocksAssumption DEF LocksAssumption
      <4> QED BY <4>1, <4>3 DEF HasRoom
    <3> QED BY <3>1, <3>2
  <2> HIDE DEF swept
  <2> QED BY <1>1, <1>6, <2>2, <2>3
<1> QED BY <1>3, <1>4

LEMMA DocumentCase ==
  ASSUME LocksTyped, engine = "lock-document", NEW t \in Threads, NEW k \in Keys,
         NEW a \in 0..LockMaxAge, Locks!DocumentAcquire(t, k, a)
  PROVE  \E S \in SUBSET Keys : Swept(S) \/ (Granted(t, k, a, S) /\ HasRoom(k, S) /\ NoRival(t, k, S))
<1> DEFINE swept == {j \in Keys : Locks!IsOver(j, a)}
<1>1. swept \subseteq GoneKeys /\ swept \in SUBSET Keys
  BY LocksAssumption
  DEF LocksAssumption, LocksTyped, Locks!IsOver, GoneKeys, Locks!Gone, Locks!TokenStyle
<1>2. CASE Locks!Conflicted(t, k, a)
  <2>1. Swept(swept)
    BY <1>1, <1>2 DEF Swept, Locks!DocumentAcquire
  <2> HIDE DEF swept
  <2> QED BY <1>1, <2>1
<1>3. CASE ~Locks!Conflicted(t, k, a)
  <2>1. NoRival(t, k, swept)
    BY <1>3 DEF NoRival, Locks!Conflicted, Locks!InConflict, Locks!Held
  <2>2. Locks!Reacquire(t, k, a) /\ Locks!Quiet
    BY <1>3 DEF Locks!DocumentAcquire
  <2> QED BY <2>1, <2>2, ReacquireCase
<1> QED BY <1>2, <1>3

\* Every operation of the managers is a step of one of the seven kinds.
LEMMA LocksCases == LocksTyped /\ Locks!Next => LocksCase
<1> SUFFICES ASSUME LocksTyped, Locks!Next PROVE LocksCase
  OBVIOUS
<1>1. ASSUME engine \in Locks!TokenStyle \ Bounded, NEW t \in Threads, NEW k \in Keys, Locks!Acquire(t, k)
      PROVE  LocksCase
  <2>1. Granted(t, k, 0, {})
    BY <1>1, AcquireCase
  <2>2. HasRoom(k, {}) /\ NoRival(t, k, {})
    BY <1>1 DEF HasRoom, NoRival, Bounded
  <2>3. 0 \in 0..LockMaxAge
    BY LocksAssumption DEF LocksAssumption
  <2> QED BY <2>1, <2>2, <2>3 DEF LocksCase
<1>2. ASSUME engine \in Locks!TokenStyle, NEW t \in Threads, NEW k \in Keys, Locks!Renew(t, k)
      PROVE  LocksCase
  BY <1>2, RenewCase DEF LocksCase
<1>3. ASSUME NEW t \in Threads, NEW k \in Keys, Locks!Release(t, k) PROVE LocksCase
  BY <1>3 DEF LocksCase
<1>4. ASSUME NEW k \in Keys, Locks!ForceRelease(k) PROVE LocksCase
  BY <1>4 DEF LocksCase
<1>5. ASSUME engine \in Locks!TokenStyle, Locks!SweepExpired PROVE LocksCase
  <2>1. {k \in Keys : Locks!IsExpired(k, 0)} \in SUBSET Keys
    OBVIOUS
  <2> QED BY <1>5, <2>1, SweepCase DEF LocksCase
<1>6. ASSUME NEW a \in 0..LockMaxAge, engine \in {"lock-project", "lock-document"},
             keyedLease' = Locks!Without({k \in Keys : Locks!IsOver(k, a)}),
             UNCHANGED <<tokens, keyedBroken>>, Locks!Quiet
      PROVE  LocksCase
  <2> DEFINE S == {k \in Keys : Locks!IsOver(k, a)}
  <2>1. S \subseteq GoneKeys /\ S \in SUBSET Keys
    BY <1>6, LocksAssumption
    DEF LocksAssumption, LocksTyped, Locks!IsOver, GoneKeys, Locks!Gone, Locks!TokenStyle
  <2>2. Swept(S)
    BY <1>6, <2>1 DEF Swept
  <2> HIDE DEF S
  <2> QED BY <2>1, <2>2 DEF LocksCase
<1>7. CASE Locks!Generic
  BY <1>1, <1>2, <1>3, <1>4, <1>5, <1>7 DEF Locks!Generic, Locks!TokenStyle, Bounded
<1>8. CASE Locks!Trade
  <2>1. \A k \in Keys : k = <<k[1], k[2]>>
    BY LocksAssumption DEF LocksAssumption
  <2>2. ASSUME NEW t \in Threads, NEW k \in Keys,
               Locks!TradeAcquire(t, k[1], k[2]) \/ Locks!TradeRenew(t, k[1], k[2])
                 \/ Locks!TradeRelease(t, k[1], k[2])
        PROVE  Locks!Acquire(t, k) \/ Locks!Renew(t, k) \/ Locks!Release(t, k)
    BY <2>1, <2>2 DEF Locks!TradeAcquire, Locks!TradeRenew, Locks!TradeRelease
  <2>3. ASSUME NEW k \in Keys, Locks!TradeForce(k[1], k[2]) PROVE Locks!ForceRelease(k)
    BY <2>1, <2>3 DEF Locks!TradeForce
  <2> QED BY <1>1, <1>2, <1>3, <1>4, <1>5, <1>8, <2>2, <2>3
            DEF Locks!Trade, Locks!TradeSweep, Locks!TokenStyle, Bounded
<1>9. CASE Locks!Voting
  <2>1. \A k \in Keys : k = <<k[1], k[2]>>
    BY LocksAssumption DEF LocksAssumption
  <2>2. ASSUME NEW t \in Threads, NEW k \in Keys,
               Locks!VotingAcquire(t, k[1], k[2]) \/ Locks!VotingRenew(t, k[1], k[2])
                 \/ Locks!VotingRelease(t, k[1], k[2])
        PROVE  Locks!Acquire(t, k) \/ Locks!Renew(t, k) \/ Locks!Release(t, k)
    BY <2>1, <2>2 DEF Locks!VotingAcquire, Locks!VotingRenew, Locks!VotingRelease
  <2>3. ASSUME NEW k \in Keys, Locks!VotingForce(k[1], k[2]) PROVE Locks!ForceRelease(k)
    BY <2>1, <2>3 DEF Locks!VotingForce
  <2> QED BY <1>1, <1>2, <1>3, <1>4, <1>5, <1>9, <2>2, <2>3
            DEF Locks!Voting, Locks!VotingSweep, Locks!TokenStyle, Bounded
<1>10. CASE Locks!Edit
  <2>1. engine = "lock-edit" /\ engine \in Locks!TokenStyle
    BY <1>10 DEF Locks!Edit, Locks!TokenStyle
  <2>2. ASSUME NEW t \in Threads, NEW k \in Keys, Locks!EditAcquire(t, k) PROVE LocksCase
    <3>1. PICK S \in SUBSET Keys : Swept(S) \/ (Granted(t, k, 0, S) /\ HasRoom(k, S))
      BY <2>1, <2>2, EditCase
    <3>2. NoRival(t, k, S) /\ 0 \in 0..LockMaxAge
      BY <2>1, LocksAssumption DEF NoRival, LocksAssumption
    <3> QED BY <3>1, <3>2 DEF LocksCase
  <2> QED BY <1>2, <1>3, <1>4, <1>5, <1>10, <2>1, <2>2
            DEF Locks!Edit, Locks!EditRenew, Locks!EditRelease, Locks!EditForce, Locks!EditSweep
<1>11. CASE Locks!Project
  <2>1. ASSUME NEW t \in Threads, NEW k \in Keys, NEW a \in 0..LockMaxAge, Locks!ProjectAcquire(t, k, a)
        PROVE  LocksCase
    <3>1. NoRival(t, k, {j \in Keys : Locks!IsOver(j, a)})
      BY <1>11 DEF Locks!Project, NoRival
    <3>2. PICK S \in SUBSET Keys : Swept(S) \/ (Granted(t, k, a, S) /\ HasRoom(k, S) /\ NoRival(t, k, S))
      BY <1>11, <2>1, <3>1, ReacquireCase DEF Locks!Project, Locks!ProjectAcquire
    <3> QED BY <3>2 DEF LocksCase
  <2> QED BY <1>3, <1>6, <1>11, <2>1 DEF Locks!Project, Locks!ProjectRelease, Locks!ProjectSweep
<1>12. CASE Locks!Document
  <2>1. ASSUME NEW t \in Threads, NEW k \in Keys, NEW a \in 0..LockMaxAge, Locks!DocumentAcquire(t, k, a)
        PROVE  LocksCase
    <3>1. PICK S \in SUBSET Keys : Swept(S) \/ (Granted(t, k, a, S) /\ HasRoom(k, S) /\ NoRival(t, k, S))
      BY <1>12, <2>1, DocumentCase DEF Locks!Document
    <3> QED BY <3>1 DEF LocksCase
  <2>2. ASSUME NEW j \in Keys, NEW k \in Keys, Locks!DeclareRivals(j[1], k[1]) PROVE LocksCase
    BY <1>12, <2>2 DEF Locks!Document, LocksCase
  <2>3. ASSUME Locks!DocumentSweep PROVE LocksCase
    <3>1. 0 \in 0..LockMaxAge
      BY LocksAssumption DEF LocksAssumption
    <3> QED BY <1>6, <1>12, <2>3, <3>1 DEF Locks!Document, Locks!DocumentSweep
  <2> QED BY <1>3, <1>12, <2>1, <2>2, <2>3 DEF Locks!Document, Locks!DocumentRelease
<1>13. CASE Locks!Tick
  BY <1>13 DEF LocksCase
<1> QED BY <1>7, <1>8, <1>9, <1>10, <1>11, <1>12, <1>13 DEF Locks!Next

-----------------------------------------------------------------------------
(* The invariant of the lock managers: a lease that is over is known to be   *)
(* broken, so a sweep takes nothing from a thread that still counts on it.   *)

GoneIsBroken == \A k \in GoneKeys : <<keyedLease[k].by, k>> \in keyedBroken

\* A client is no rival of itself, and only the document locks know rivals.
RivalsArePairs ==
  /\ \A r \in rivals : \E j, k \in Keys : j[1] # k[1] /\ r = {j[1], k[1]}
  /\ engine # "lock-document" => rivals = {}

LocksInv ==
  /\ LocksTyped /\ GoneIsBroken /\ Locks!GrantKept
  /\ RivalsArePairs /\ Locks!RivalsReported /\ Locks!WithinCapacity

LEMMA LocksStart == Locks!Start => LocksInv
<1> SUFFICES ASSUME Locks!Start PROVE LocksInv
  OBVIOUS
<1>1. Locks!Held = {} /\ GoneKeys = {}
  BY DEF Locks!Start, Locks!Held, GoneKeys
<1>2. Locks!WithinCapacity
  BY <1>1, LocksCardinality, FS_EmptySet, LocksAssumption DEF LocksAssumption, Locks!WithinCapacity
<1>3. LocksTyped /\ GoneIsBroken /\ Locks!GrantKept /\ RivalsArePairs /\ Locks!RivalsReported
  BY <1>1
  DEF Locks!Start, LocksTyped, GoneIsBroken, Locks!GrantKept, RivalsArePairs, Locks!RivalsReported
<1> QED BY <1>2, <1>3 DEF LocksInv

\* What a grant does to the leases.
LEMMA GrantedLeases ==
  ASSUME LocksTyped, NEW t \in Threads, NEW k \in Keys, NEW a \in 0..LockMaxAge, NEW S \in SUBSET Keys,
         Granted(t, k, a, S)
  PROVE  /\ \A j \in Keys \ {k} : keyedLease'[j] = IF j \in S THEN None ELSE keyedLease[j]
         /\ keyedLease'[k] = [by |-> t, left |-> LockTTL - a]
  BY DEF Granted, Locks!Without

\* What it does to the threads, and to their broken leases.
LEMMA GrantedFacts ==
  ASSUME LocksTyped, NEW t \in Threads, NEW k \in Keys, NEW a \in 0..LockMaxAge, NEW S \in SUBSET Keys,
         Granted(t, k, a, S)
  PROVE  /\ \A b \in keyedBroken : b # <<t, k>> => b \in keyedBroken'
         /\ engine \notin Locks!TokenStyle => \A u \in Locks!Others(t) : <<u, k>> \in keyedBroken'
         /\ LockTTL <= a => <<t, k>> \in keyedBroken'
         /\ \A u \in Threads : tokens'[u] = IF u = t THEN tokens[u] \cup {k} ELSE tokens[u]
<1>1. Locks!Success(t, k, a)
  BY DEF Granted
<1>2. /\ \A b \in keyedBroken : b # <<t, k>> => b \in keyedBroken'
      /\ engine \notin Locks!TokenStyle => \A u \in Locks!Others(t) : <<u, k>> \in keyedBroken'
      /\ LockTTL <= a => <<t, k>> \in keyedBroken'
  BY <1>1 DEF Locks!Success
<1>3. \A u \in Threads : tokens'[u] = IF u = t THEN tokens[u] \cup {k} ELSE tokens[u]
  BY <1>1 DEF LocksTyped, Locks!Success
<1> QED BY <1>2, <1>3

\* What time does to one key.
LEMMA TickFacts ==
  ASSUME LocksTyped, Locks!Tick, engine' = engine, NEW k \in Keys
  PROVE  /\ (keyedLease'[k] = None) <=> (keyedLease[k] = None)
         /\ keyedLease[k] # None =>
              /\ keyedLease'[k] \in [by : Threads, left : Int] /\ keyedLease'[k].by = keyedLease[k].by
              /\ keyedLease'[k].left <= keyedLease[k].left
         /\ k \in GoneKeys' => <<keyedLease[k].by, k>> \in keyedBroken'
<1>1. keyedLease'[k] = IF keyedLease[k] = None \/ keyedLease[k].left < 0 THEN keyedLease[k]
                       ELSE [keyedLease[k] EXCEPT !.left = @ - 1]
  BY DEF Locks!Tick
<1>2. keyedLease[k] # None => keyedLease[k] \in [by : Threads, left : Int]
  BY DEF LocksTyped
<1>3. CASE keyedLease[k] = None
  BY <1>1, <1>3 DEF GoneKeys
<1>4. CASE keyedLease[k] # None
  <2>1. /\ keyedLease'[k] \in [by : Threads, left : Int] /\ keyedLease'[k].by = keyedLease[k].by
        /\ keyedLease'[k].left <= keyedLease[k].left
    BY <1>1, <1>2, <1>4
  <2>2. keyedLease'[k] # None
    BY <2>1, NoneAssumption DEF NoneAssumption
  <2>3. k \in GoneKeys' => <<keyedLease[k].by, k>> \in keyedBroken'
    BY <1>4 DEF Locks!Tick, Locks!Held, GoneKeys, Locks!Gone
  <2> QED BY <1>4, <2>1, <2>2, <2>3
<1> QED BY <1>3, <1>4

LEMMA LocksTypedStep == LocksTyped /\ LocksCase /\ engine' = engine => LocksTyped'
<1> SUFFICES ASSUME LocksTyped, LocksCase, engine' = engine PROVE LocksTyped'
  OBVIOUS
<1>1. ASSUME NEW S \in SUBSET Keys
      PROVE  Locks!Without(S) \in [Keys -> [by : Threads, left : Int] \cup {None}]
  BY DEF LocksTyped, Locks!Without
<1>2. ASSUME NEW t \in Threads, NEW k \in Keys, NEW a \in 0..LockMaxAge, NEW S \in SUBSET Keys,
             Granted(t, k, a, S)
      PROVE  LocksTyped'
  <2>1. [by |-> t, left |-> LockTTL - a] \in [by : Threads, left : Int]
    BY LocksAssumption DEF LocksAssumption
  <2>2. keyedLease' \in [Keys -> [by : Threads, left : Int] \cup {None}]
    BY <1>1, <1>2, <2>1 DEF Granted
  <2>3. tokens' \in [Threads -> SUBSET Keys]
    BY <1>2 DEF Granted, Locks!Success, LocksTyped
  <2> QED BY <2>2, <2>3 DEF LocksTyped
<1>3. ASSUME NEW S \in SUBSET Keys, Swept(S) PROVE LocksTyped'
  BY <1>1, <1>3 DEF Swept, LocksTyped
<1>4. ASSUME NEW t \in Threads, NEW k \in Keys, Renewed(t, k) PROVE LocksTyped'
  BY <1>4, LocksAssumption DEF LocksAssumption, Renewed, LocksTyped
<1>5. ASSUME NEW t \in Threads, NEW k \in Keys, Locks!Release(t, k) PROVE LocksTyped'
  <2>1. {k} \in SUBSET Keys
    OBVIOUS
  <2>2. keyedLease' = Locks!Without({k}) \/ keyedLease' = keyedLease
    BY <1>5 DEF Locks!Release
  <2>3. tokens' \in [Threads -> SUBSET Keys]
    BY <1>5 DEF Locks!Release, LocksTyped
  <2> QED BY <1>1, <2>1, <2>2, <2>3 DEF LocksTyped
<1>6. ASSUME NEW k \in Keys, Locks!ForceRelease(k) PROVE LocksTyped'
  BY <1>1, <1>6 DEF Locks!ForceRelease, LocksTyped
<1>7. ASSUME NEW j \in Keys, NEW k \in Keys, Locks!DeclareRivals(j[1], k[1]) PROVE LocksTyped'
  BY <1>7 DEF Locks!DeclareRivals, LocksTyped
<1>8. CASE Locks!Tick
  <2>1. \A k \in Keys : keyedLease'[k] \in [by : Threads, left : Int] \cup {None}
    BY <1>8, TickFacts
  <2>2. keyedLease' = [k \in Keys |-> keyedLease'[k]]
    BY <1>8 DEF Locks!Tick
  <2>3. tokens' = tokens
    BY <1>8 DEF Locks!Tick
  <2> QED BY <2>1, <2>2, <2>3 DEF LocksTyped
<1> QED BY <1>2, <1>3, <1>4, <1>5, <1>6, <1>7, <1>8 DEF LocksCase

LEMMA GrantKeptStep ==
  LocksTyped /\ GoneIsBroken /\ Locks!GrantKept /\ LocksCase /\ engine' = engine /\ engine \in Locks!Engines
    => GoneIsBroken' /\ Locks!GrantKept'
<1> SUFFICES ASSUME LocksTyped, GoneIsBroken, Locks!GrantKept, LocksCase, engine' = engine,
                    engine \in Locks!Engines
             PROVE  GoneIsBroken' /\ Locks!GrantKept'
  OBVIOUS
<1> DEFINE Kept(t, k) == <<t, k>> \in keyedBroken \/ (keyedLease[k] # None /\ keyedLease[k].by = t)
<1>1. \A t \in Threads : \A k \in tokens[t] : Kept(t, k)
  BY DEF Locks!GrantKept, Locks!Owns
<1>2. (\A t \in Threads : \A k \in tokens'[t] : Kept(t, k)') => Locks!GrantKept'
  BY DEF Locks!GrantKept, Locks!Owns
<1>3. \A k \in Keys : keyedLease[k] # None => keyedLease[k] \in [by : Threads, left : Int]
  BY DEF LocksTyped
<1>4. \A t \in Threads : tokens[t] \subseteq Keys
  BY DEF LocksTyped
\* Sweeping what is over leaves every token with its lease, or broken.
<1>5. ASSUME NEW t \in Threads, NEW k \in tokens[t], k \in GoneKeys PROVE <<t, k>> \in keyedBroken
  BY <1>1, <1>5 DEF GoneIsBroken
<1>6. ASSUME NEW t \in Threads, NEW k \in Keys, NEW a \in 0..LockMaxAge, NEW S \in SUBSET Keys,
             Granted(t, k, a, S)
      PROVE  GoneIsBroken' /\ Locks!GrantKept'
  <2>1. /\ \A j \in Keys \ {k} : keyedLease'[j] = IF j \in S THEN None ELSE keyedLease[j]
        /\ keyedLease'[k] = [by |-> t, left |-> LockTTL - a]
        /\ \A b \in keyedBroken : b # <<t, k>> => b \in keyedBroken'
        /\ engine \notin Locks!TokenStyle => \A u \in Locks!Others(t) : <<u, k>> \in keyedBroken'
        /\ LockTTL <= a => <<t, k>> \in keyedBroken'
        /\ \A u \in Threads : tokens'[u] = IF u = t THEN tokens[u] \cup {k} ELSE tokens[u]
    BY <1>6, GrantedFacts, GrantedLeases
  <2>2. /\ S \subseteq GoneKeys /\ (engine \in Locks!TokenStyle => a = 0)
        /\ \/ k \in S \/ keyedLease[k] = None \/ k \in GoneKeys
           \/ engine \notin Locks!TokenStyle /\ Locks!Holder(k) = HolderOf[t]
    BY <1>6 DEF Granted
  <2>3. keyedLease'[k] # None /\ keyedLease'[k].by = t /\ keyedLease'[k].left = LockTTL - a
    <3>1. [by |-> t, left |-> LockTTL - a] \in [by : Threads, left : Int]
      BY LocksAssumption DEF LocksAssumption
    <3> QED BY <2>1, <3>1, NoneAssumption DEF NoneAssumption
  <2>4. ASSUME NEW j \in GoneKeys' PROVE <<keyedLease'[j].by, j>> \in keyedBroken'
    <3>1. CASE j = k
      <4>1. LockTTL <= a
        BY <2>2, <2>3, <2>4, <3>1, LocksAssumption DEF LocksAssumption, GoneKeys, Locks!Gone
      <4> QED BY <2>1, <2>3, <3>1, <4>1
    <3>2. CASE j # k
      <4>1. keyedLease'[j] = keyedLease[j] /\ j \in GoneKeys
        BY <2>1, <2>4, <3>2 DEF GoneKeys, Locks!Gone
      <4>2. <<keyedLease[j].by, j>> \in keyedBroken /\ <<keyedLease[j].by, j>> # <<t, k>>
        BY <3>2, <4>1 DEF GoneIsBroken
      <4> QED BY <2>1, <4>1, <4>2
    <3> QED BY <3>1, <3>2
  <2>5. ASSUME NEW u \in Threads, NEW j \in tokens'[u] PROVE Kept(u, j)'
    <3>1. CASE u = t /\ j = k
      BY <2>3, <3>1
    <3>2. CASE ~(u = t /\ j = k)
      <4>1. j \in tokens[u] /\ j \in Keys
        BY <1>4, <2>1, <2>5, <3>2
      <4>2. CASE <<u, j>> \in keyedBroken
        BY <2>1, <3>2, <4>2
      <4>3. CASE <<u, j>> \notin keyedBroken
        <5>1. keyedLease[j] # None /\ keyedLease[j].by = u /\ j \notin GoneKeys
          BY <1>1, <1>5, <4>1, <4>3
        <5>2. CASE j # k
          BY <2>1, <2>2, <4>1, <5>1, <5>2
        <5>3. CASE j = k
          <6>1. engine \notin Locks!TokenStyle /\ HolderOf[u] = HolderOf[t]
            BY <2>2, <5>1, <5>3 DEF Locks!Holder
          <6>2. u \in Locks!Others(t)
            BY <3>2, <5>3, <6>1 DEF Locks!Others
          <6> QED BY <2>1, <5>3, <6>1, <6>2
        <5> QED BY <5>2, <5>3
      <4> QED BY <4>2, <4>3
    <3> QED BY <3>1, <3>2
  <2> HIDE DEF Kept
  <2> QED BY <1>2, <2>4, <2>5 DEF GoneIsBroken
<1>7. ASSUME NEW S \in SUBSET Keys, Swept(S) PROVE GoneIsBroken' /\ Locks!GrantKept'
  <2>1. /\ \A j \in Keys : keyedLease'[j] = IF j \in S THEN None ELSE keyedLease[j]
        /\ S \subseteq GoneKeys /\ tokens' = tokens /\ keyedBroken' = keyedBroken
    BY <1>7 DEF Swept, Locks!Without
  <2>2. GoneIsBroken'
    BY <2>1 DEF GoneIsBroken, GoneKeys, Locks!Gone
  <2>3. \A t \in Threads : \A k \in tokens'[t] : Kept(t, k)'
    BY <1>1, <1>4, <1>5, <2>1
  <2> QED BY <1>2, <2>2, <2>3
<1>8. ASSUME NEW t \in Threads, NEW k \in Keys, Renewed(t, k) PROVE GoneIsBroken' /\ Locks!GrantKept'
  <2>1. /\ \A j \in Keys \ {k} : keyedLease'[j] = keyedLease[j]
        /\ keyedLease'[k] = [by |-> t, left |-> LockTTL]
        /\ keyedLease[k].by = t /\ engine \in Locks!TokenStyle
        /\ tokens' = tokens /\ keyedBroken' = keyedBroken
    BY <1>8 DEF Renewed, LocksTyped, Locks!Owns
  <2>2. keyedLease'[k] # None /\ keyedLease'[k].by = t /\ keyedLease'[k].left = LockTTL
    <3>1. [by |-> t, left |-> LockTTL] \in [by : Threads, left : Int]
      BY LocksAssumption DEF LocksAssumption
    <3> QED BY <2>1, <3>1, NoneAssumption DEF NoneAssumption
  <2>3. k \notin GoneKeys'
    BY <2>1, <2>2, LocksAssumption DEF LocksAssumption, GoneKeys, Locks!Gone
  <2>4. GoneIsBroken'
    BY <2>1, <2>3 DEF GoneIsBroken, GoneKeys, Locks!Gone
  <2>5. ASSUME NEW u \in Threads, NEW j \in tokens'[u] PROVE Kept(u, j)'
    <3>1. j \in tokens[u] /\ j \in Keys /\ Kept(u, j)
      BY <1>1, <1>4, <2>1
    <3>2. CASE j = k
      BY <2>1, <2>2, <3>1, <3>2
    <3>3. CASE j # k
      BY <2>1, <3>1, <3>3
    <3> QED BY <3>2, <3>3
  <2> HIDE DEF Kept
  <2> QED BY <1>2, <2>4, <2>5
<1>9. ASSUME NEW t \in Threads, NEW k \in Keys, Locks!Release(t, k)
      PROVE  GoneIsBroken' /\ Locks!GrantKept'
  <2>1. /\ \A j \in Keys : keyedLease'[j] =
             IF j = k /\ keyedLease[k] # None /\ keyedLease[k].by = t THEN None ELSE keyedLease[j]
        /\ \A u \in Threads : tokens'[u] = IF u = t THEN tokens[u] \ {k} ELSE tokens[u]
        /\ keyedBroken' = keyedBroken \ {<<t, k>>}
    BY <1>9 DEF Locks!Release, Locks!Without, Locks!Owns, LocksTyped
  <2>2. GoneIsBroken'
    BY <2>1 DEF GoneIsBroken, GoneKeys, Locks!Gone
  <2>3. ASSUME NEW u \in Threads, NEW j \in tokens'[u] PROVE Kept(u, j)'
    <3>1. j \in tokens[u] /\ j \in Keys /\ Kept(u, j) /\ ~(u = t /\ j = k)
      BY <1>1, <1>4, <2>1
    <3>2. CASE <<u, j>> \in keyedBroken
      BY <2>1, <3>1, <3>2
    <3>3. CASE keyedLease[j] # None /\ keyedLease[j].by = u
      BY <2>1, <3>1, <3>3
    <3> QED BY <3>1, <3>2, <3>3
  <2> HIDE DEF Kept
  <2> QED BY <1>2, <2>2, <2>3
<1>10. ASSUME NEW k \in Keys, Locks!ForceRelease(k) PROVE GoneIsBroken' /\ Locks!GrantKept'
  <2>1. /\ \A j \in Keys : keyedLease'[j] = IF j = k THEN None ELSE keyedLease[j]
        /\ tokens' = tokens /\ keyedBroken' = keyedBroken \cup {<<keyedLease[k].by, k>>}
    BY <1>10 DEF Locks!ForceRelease, Locks!Without
  <2>2. GoneIsBroken'
    BY <2>1 DEF GoneIsBroken, GoneKeys, Locks!Gone
  <2>3. \A u \in Threads : \A j \in tokens'[u] : Kept(u, j)'
    BY <1>1, <1>4, <2>1
  <2> QED BY <1>2, <2>2, <2>3
<1>11. ASSUME NEW j \in Keys, NEW k \in Keys, Locks!DeclareRivals(j[1], k[1])
       PROVE  GoneIsBroken' /\ Locks!GrantKept'
  <2>1. keyedLease' = keyedLease /\ tokens' = tokens /\ keyedBroken' = keyedBroken
    BY <1>11 DEF Locks!DeclareRivals
  <2> QED BY <1>1, <1>2, <2>1 DEF GoneIsBroken, GoneKeys, Locks!Gone
<1>12. CASE Locks!Tick
  <2>1. /\ \A k \in Keys : (keyedLease'[k] = None) <=> (keyedLease[k] = None)
        /\ \A k \in Keys : keyedLease[k] # None => keyedLease'[k].by = keyedLease[k].by
        /\ \A k \in Keys : k \in GoneKeys' => <<keyedLease[k].by, k>> \in keyedBroken'
    BY <1>12, TickFacts
  <2>2. tokens' = tokens /\ keyedBroken \subseteq keyedBroken'
    BY <1>12 DEF Locks!Tick
  <2>3. GoneIsBroken'
    BY <2>1 DEF GoneIsBroken, GoneKeys
  <2>4. \A u \in Threads : \A j \in tokens'[u] : Kept(u, j)'
    BY <1>1, <1>4, <2>1, <2>2
  <2> QED BY <1>2, <2>3, <2>4
<1> QED BY <1>6, <1>7, <1>8, <1>9, <1>10, <1>11, <1>12 DEF LocksCase

LEMMA RivalsStep ==
  /\ LocksTyped /\ RivalsArePairs /\ Locks!RivalsReported /\ LocksCase /\ engine' = engine
  => RivalsArePairs' /\ Locks!RivalsReported'
<1> SUFFICES ASSUME LocksTyped, RivalsArePairs, Locks!RivalsReported, LocksCase, engine' = engine
             PROVE  RivalsArePairs' /\ Locks!RivalsReported'
  OBVIOUS
\* A step that leaves every lease with its holder, or takes it away.
<1>1. ASSUME rivals' = rivals, reported' = reported,
             \A j \in Keys : keyedLease'[j] # None =>
                              keyedLease[j] # None /\ keyedLease'[j].by = keyedLease[j].by
      PROVE  RivalsArePairs' /\ Locks!RivalsReported'
  <2>1. Locks!Held' \subseteq Locks!Held /\ \A j \in Locks!Held' : Locks!Holder(j)' = Locks!Holder(j)
    BY <1>1 DEF Locks!Held, Locks!Holder
  <2>2. Locks!RivalsReported'
    BY <1>1, <2>1 DEF Locks!RivalsReported
  <2> QED BY <1>1, <2>2 DEF RivalsArePairs
<1>2. ASSUME NEW t \in Threads, NEW k \in Keys, NEW a \in 0..LockMaxAge, NEW S \in SUBSET Keys,
             Granted(t, k, a, S), NoRival(t, k, S)
      PROVE  RivalsArePairs' /\ Locks!RivalsReported'
  <2>1. /\ \A j \in Keys \ {k} : keyedLease'[j] = IF j \in S THEN None ELSE keyedLease[j]
        /\ keyedLease'[k] = [by |-> t, left |-> LockTTL - a]
    BY <1>2, GrantedLeases
  <2>2. rivals' = rivals /\ reported' = reported
    BY <1>2 DEF Granted, Locks!Quiet
  <2>3. RivalsArePairs'
    BY <2>2 DEF RivalsArePairs
  <2>4. Locks!Holder(k)' = HolderOf[t]
    BY <2>1 DEF Locks!Holder
  <2>5. \A j \in Locks!Held' \ {k} : /\ j \in Locks!Held \ S /\ Locks!Holder(j)' = Locks!Holder(j)
    BY <2>1 DEF Locks!Held, Locks!Holder
  <2>6. ASSUME NEW j \in Locks!Held' \ {k}, {j[1], k[1]} \in rivals, Locks!Holder(j)' = HolderOf[t]
        PROVE  FALSE
    <3>1. engine = "lock-document" /\ j[1] # k[1]
      BY <2>6 DEF RivalsArePairs
    <3> QED BY <1>2, <2>5, <2>6, <3>1 DEF NoRival
  <2>7. {k[1], k[1]} \notin rivals
    BY DEF RivalsArePairs
  <2>8. ASSUME NEW j \in Locks!Held', NEW l \in Locks!Held', {j[1], l[1]} \in rivals,
               Locks!Holder(j)' = Locks!Holder(l)'
        PROVE  Locks!Holder(l)' \in reported
    <3>1. CASE j # k /\ l # k
      BY <2>5, <2>8, <3>1 DEF Locks!RivalsReported
    <3>2. CASE j = k /\ l # k
      <4>1. {l[1], k[1]} = {j[1], l[1]}
        BY <3>2
      <4> QED BY <2>4, <2>6, <2>8, <3>2, <4>1
    <3>3. CASE j # k /\ l = k
      BY <2>4, <2>6, <2>8, <3>3
    <3>4. CASE j = k /\ l = k
      BY <2>7, <2>8, <3>4
    <3> QED BY <3>1, <3>2, <3>3, <3>4
  <2>9. Locks!RivalsReported'
    BY <2>2, <2>8 DEF Locks!RivalsReported
  <2> QED BY <2>3, <2>9
<1>3. ASSUME NEW S \in SUBSET Keys, Swept(S) PROVE RivalsArePairs' /\ Locks!RivalsReported'
  BY <1>1, <1>3 DEF Swept, Locks!Without, Locks!Quiet
<1>4. ASSUME NEW t \in Threads, NEW k \in Keys, Renewed(t, k)
      PROVE  RivalsArePairs' /\ Locks!RivalsReported'
  BY <1>1, <1>4 DEF Renewed, Locks!Owns, Locks!Quiet, LocksTyped
<1>5. ASSUME NEW k \in Keys, (\E t \in Threads : Locks!Release(t, k)) \/ Locks!ForceRelease(k)
      PROVE  RivalsArePairs' /\ Locks!RivalsReported'
  BY <1>1, <1>5 DEF Locks!Release, Locks!ForceRelease, Locks!Without, Locks!Quiet
<1>6. ASSUME NEW i \in Keys, NEW k \in Keys, engine = "lock-document", Locks!DeclareRivals(i[1], k[1])
      PROVE  RivalsArePairs' /\ Locks!RivalsReported'
  <2> DEFINE At(o) == {Locks!Holder(j) : j \in {l \in Locks!Held : l[1] = o}}
  <2>1. /\ i[1] # k[1] /\ rivals' = rivals \cup {{i[1], k[1]}} /\ keyedLease' = keyedLease
        /\ reported' = reported \cup (At(i[1]) \cap At(k[1]))
    BY <1>6, Zenon DEF Locks!DeclareRivals
  <2>2. RivalsArePairs'
    BY <1>6, <2>1 DEF RivalsArePairs
  <2>3. Locks!Held' = Locks!Held /\ \A j : Locks!Holder(j)' = Locks!Holder(j)
    BY <2>1 DEF Locks!Held, Locks!Holder
  <2>4. ASSUME NEW j \in Locks!Held, NEW l \in Locks!Held, {j[1], l[1]} \in rivals',
               Locks!Holder(j) = Locks!Holder(l)
        PROVE  Locks!Holder(l) \in reported'
    <3>1. CASE {j[1], l[1]} \in rivals
      BY <2>1, <2>4, <3>1 DEF Locks!RivalsReported
    <3>2. CASE {j[1], l[1]} = {i[1], k[1]}
      <4>1. (j[1] = i[1] /\ l[1] = k[1]) \/ (j[1] = k[1] /\ l[1] = i[1])
        BY <2>1, <3>2
      <4>2. Locks!Holder(l) \in At(i[1]) /\ Locks!Holder(l) \in At(k[1])
        BY <2>4, <4>1
      <4> QED BY <2>1, <4>2
    <3> QED BY <2>1, <2>4, <3>1, <3>2
  <2>5. Locks!RivalsReported'
    BY <2>3, <2>4 DEF Locks!RivalsReported
  <2> QED BY <2>2, <2>5
<1>7. CASE Locks!Tick
  <2>1. rivals' = rivals /\ reported' = reported
    BY <1>7 DEF Locks!Tick, Locks!Quiet
  <2>2. \A j \in Keys : keyedLease'[j] # None =>
                          keyedLease[j] # None /\ keyedLease'[j].by = keyedLease[j].by
    BY <1>7, TickFacts
  <2> QED BY <1>1, <2>1, <2>2
<1> QED BY <1>2, <1>3, <1>4, <1>5, <1>6, <1>7 DEF LocksCase

LEMMA CapacityStep ==
  LocksTyped /\ Locks!WithinCapacity /\ LocksCase /\ engine' = engine => Locks!WithinCapacity'
<1> SUFFICES ASSUME LocksTyped, Locks!WithinCapacity, LocksCase, engine' = engine, engine \in Bounded
             PROVE  Cardinality(Locks!Held') <= Capacity[engine]
  BY LocksCardinality DEF Locks!WithinCapacity, Bounded
<1>1. IsFiniteSet(Locks!Held) /\ Cardinality(Locks!Held) \in Nat /\ Capacity[engine] \in Nat
  BY LocksAssumption, FS_Subset, FS_CardinalityType DEF LocksAssumption, Locks!Held, Bounded
<1>2. Cardinality(Locks!Held) <= Capacity[engine]
  BY LocksCardinality DEF Locks!WithinCapacity, Bounded
<1>3. ASSUME Locks!Held' \subseteq Locks!Held PROVE Cardinality(Locks!Held') <= Capacity[engine]
  BY <1>1, <1>2, <1>3, FS_Subset, FS_CardinalityType
<1>4. ASSUME NEW t \in Threads, NEW k \in Keys, NEW a \in 0..LockMaxAge, NEW S \in SUBSET Keys,
             Granted(t, k, a, S), HasRoom(k, S)
      PROVE  Cardinality(Locks!Held') <= Capacity[engine]
  <2> DEFINE others == Locks!Held \ (S \cup {k})
  <2>1. Locks!Held' \subseteq others \cup {k}
    <3>1. \A j \in Keys \ {k} : keyedLease'[j] = IF j \in S THEN None ELSE keyedLease[j]
      BY <1>4, GrantedLeases
    <3> QED BY <3>1 DEF Locks!Held
  <2>2. IsFiniteSet(others) /\ Cardinality(others) \in Nat
    BY <1>1, FS_Subset, FS_CardinalityType
  <2>3. IsFiniteSet(others \cup {k}) /\ Cardinality(others \cup {k}) = Cardinality(others) + 1
    <3>1. k \notin others
      OBVIOUS
    <3> HIDE DEF others
    <3> QED BY <2>2, <3>1, FS_AddElement
  <2>4. Cardinality(Locks!Held') \in Nat /\ Cardinality(Locks!Held') <= Cardinality(others) + 1
    <3> HIDE DEF others
    <3> QED BY <2>1, <2>3, FS_Subset, FS_CardinalityType
  <2>5. CASE k \in Locks!Held \ S
    BY <1>3, <2>1, <2>5
  <2>6. CASE S # {} /\ S \subseteq Locks!Held \ {k}
    <3>1. others \subseteq Locks!Held /\ others # Locks!Held
      BY <2>6
    <3>2. Cardinality(others) < Cardinality(Locks!Held)
      <4> HIDE DEF others
      <4>1. Cardinality(others) <= Cardinality(Locks!Held)
        BY <1>1, <3>1, FS_Subset
      <4>2. Cardinality(others) # Cardinality(Locks!Held)
        BY <1>1, <3>1, FS_Subset
      <4> QED BY <1>1, <2>2, <4>1, <4>2
    <3> HIDE DEF others
    <3> QED BY <1>1, <1>2, <2>2, <2>4, <3>2
  <2>7. CASE Cardinality(others) < Capacity[engine]
    <3> HIDE DEF others
    <3> QED BY <1>1, <2>2, <2>4, <2>7
  <2> QED BY <1>4, <2>5, <2>6, <2>7 DEF HasRoom
<1>5. ASSUME NEW S \in SUBSET Keys, Swept(S) PROVE Cardinality(Locks!Held') <= Capacity[engine]
  BY <1>3, <1>5 DEF Swept, Locks!Without, Locks!Held
<1>6. ASSUME NEW t \in Threads, NEW k \in Keys, Renewed(t, k)
      PROVE  Cardinality(Locks!Held') <= Capacity[engine]
  BY <1>3, <1>6 DEF Renewed, Locks!Owns, LocksTyped, Locks!Held
<1>7. ASSUME NEW k \in Keys, (\E t \in Threads : Locks!Release(t, k)) \/ Locks!ForceRelease(k)
      PROVE  Cardinality(Locks!Held') <= Capacity[engine]
  BY <1>3, <1>7 DEF Locks!Release, Locks!ForceRelease, Locks!Without, Locks!Held
<1>8. ASSUME NEW j \in Keys, NEW k \in Keys, Locks!DeclareRivals(j[1], k[1])
      PROVE  Cardinality(Locks!Held') <= Capacity[engine]
  BY <1>3, <1>8 DEF Locks!DeclareRivals, Locks!Held
<1>9. CASE Locks!Tick
  <2>1. \A k \in Keys : (keyedLease'[k] = None) <=> (keyedLease[k] = None)
    BY <1>9, TickFacts
  <2> QED BY <1>3, <2>1 DEF Locks!Held
<1> QED BY <1>4, <1>5, <1>6, <1>7, <1>8, <1>9 DEF LocksCase

LEMMA LocksStep == LocksInv /\ Locks!Next /\ engine' = engine /\ engine \in Locks!Engines => LocksInv'
  BY LocksCases, LocksTypedStep, GrantKeptStep, RivalsStep, CapacityStep DEF LocksInv

-----------------------------------------------------------------------------
(***************************************************************************)
(* The pipeline.  As long as nobody lost the lease before the workflow was *)
(* started, the first to append to the workflow found it empty, and is the *)
(* only one who ever enters the saga: what the others find is a workflow   *)
(* that exists.  It never resumes, so the state file is its SagaRun, and   *)
(* the statuses in it tell how often each phase was done.                  *)
(***************************************************************************)

PhaseStates == {"PENDING", "RUNNING", "DONE", "FAILED", "UNDOING", "UNDONE", "UNDO_FAILED"}
RunStates == {"PENDING", "RUNNING", "DONE", "FAILED", "COMPENSATING", "COMPENSATED",
              "PARTIAL_COMPENSATION"}
Runs == [st : [1..N -> PhaseStates], at : Nat \ {0}, overall : RunStates]
UndoLocals == [at : (1..N) \cup {None}, failed : BOOLEAN]

Working == {"loop", "phase", "do", "done", "compensate", "undo", "undoing", "publish"}
InSaga == {p \in Processes : pipePc[p] \in {"approve", "execute"} \cup Working}

PipesTyped ==
  /\ pipePc \in [Processes -> {"idle", "start", "append", "release", "approve", "execute"} \cup Working]
  /\ pipeLease = None \/ pipeLease \in [by : Processes, left : Nat]
  /\ workflow \in Seq({"started", "approved"})
  /\ mem \in [Processes -> Runs \cup {None}]
  /\ undo \in [Processes -> UndoLocals \cup {None}]
  /\ ran \in [1..N -> {0, 1}]

\* Between acquire and the first event the lease is alive, and nobody wrote an event.
StarterHolds ==
  \A p \in Processes :
    /\ pipePc[p] \in {"start", "append"} =>
         pipeLease # None /\ pipeLease.by = p /\ pipeLease.left > 0
    /\ pipePc[p] = "append" => workflow = <<>>

\* Nothing has happened before the first event, or before the state file is written.
Untouched == file = None /\ published = <<>> /\ \A k \in 1..N : ran[k] = 0

FirstEngine ==
  /\ workflow = <<>> => InSaga = {} /\ Untouched
  /\ \A p, q \in InSaga : p = q
  /\ \A p \in Processes : pipePc[p] \in {"approve", "execute"} => Untouched

\* The event is the last thing the engine does.
EventIsLast ==
  published # <<>> => /\ InSaga = {}
                      /\ Len(published) = 1 /\ published[1] = file.overall

\* What the statuses tell of the phases done.
Counted(run) ==
  \A k \in 1..N : /\ run.st[k] = "DONE" => ran[k] = 1
                  /\ run.st[k] = "PENDING" => ran[k] = 0
Forward(run, S) == \A k \in (1..N) \ S : run.st[k] \in {"PENDING", "DONE"}

Tally(p) ==
  /\ mem[p] = file /\ file \in Runs /\ Counted(file)
  /\ pipePc[p] = "loop" => file.overall = "PENDING"
  /\ pipePc[p] \in {"loop", "phase"} => Forward(file, {})
  /\ pipePc[p] \in {"do", "done"} => /\ file.at \in 1..N /\ Forward(file, {file.at})
                                    /\ file.st[file.at] = "RUNNING"
  /\ pipePc[p] = "do" => ran[file.at] = 0
  /\ pipePc[p] = "done" => ran[file.at] = 1
  /\ pipePc[p] \in {"undo", "undoing"} => undo[p] \in UndoLocals
  /\ pipePc[p] = "undoing" => undo[p].at \in 1..N /\ ran[undo[p].at] = 1

Tallied == \A p \in Processes : pipePc[p] \in Working => Tally(p)

Alone == PipesTyped /\ StarterHolds /\ FirstEngine /\ EventIsLast /\ Tallied
PipesInv == early = {} => Alone

LEMMA LessIsWellFounded == IsWellFoundedOn({ss \in Nat \X Nat : ss[1] < ss[2]}, Nat)
BY NatLessThanWellFounded, Zenon DEF OpToRel

\* A set of naturals that is not empty has a least element.
LEMMA Least ==
  ASSUME NEW T, T \subseteq Nat, T # {}
  PROVE  \E x \in T : \A y \in T : x <= y
<1> DEFINE R == {ss \in Nat \X Nat : ss[1] < ss[2]}
<1>1. IsWellFoundedOn(R, Nat)
  BY LessIsWellFounded
<1>2. \A x, y \in T : <<y, x>> \notin R => x <= y
  OBVIOUS
<1> HIDE DEF R
<1>3. \E x \in T : \A y \in T : ~ (<<y, x>> \in R)
  BY <1>1, WFMin, Zenon
<1> QED BY <1>2, <1>3

\* And a greatest one, if it is bounded.
LEMMA Greatest ==
  ASSUME NEW T, T \subseteq Nat, T # {}, NEW b \in Nat, \A x \in T : x <= b
  PROVE  \E x \in T : \A y \in T : y <= x
<1> DEFINE U == {b - x : x \in T}
<1>1. U \subseteq Nat /\ U # {}
  <2>1. \A x \in T : b - x \in Nat
    OBVIOUS
  <2> QED BY <2>1
<1>2. PICK u \in U : \A v \in U : u <= v
  BY <1>1, Least
<1>3. PICK x \in T : u = b - x
  OBVIOUS
<1>4. \A y \in T : u <= b - y
  BY <1>2
<1>5. \A y \in T : y <= x
  BY <1>3, <1>4
<1> QED BY <1>5

\* Min, Max and Cardinality as Pipelines has them from the library.
LEMMA PipesCardinality == ASSUME NEW S PROVE Pipes!Cardinality(S) = Cardinality(S)
  BY DEF Pipes!Cardinality, Cardinality

LEMMA MinMax ==
  ASSUME NEW S \in SUBSET (1..N), S # {}
  PROVE  Pipes!Min(S) \in S /\ Pipes!Max(S) \in S
<1>1. S \subseteq Nat /\ \A x \in S : x <= N
  BY TimeAssumption DEF TimeAssumption
<1>2. \E x \in S : \A y \in S : x <= y
  BY <1>1, Least
<1>3. \E x \in S : \A y \in S : y <= x
  BY <1>1, Greatest, TimeAssumption DEF TimeAssumption
<1>4. Pipes!Min(S) \in S
  BY <1>2 DEF Pipes!Min
<1>5. Pipes!Max(S) \in S
  <2>1. \E x \in S : \A y \in S : x >= y
    BY <1>1, <1>3
  <2> QED BY <2>1 DEF Pipes!Max
<1> QED BY <1>4, <1>5

\* Setting the status of a phase, or of the run.
LEMMA AtFacts ==
  ASSUME NEW r \in Runs, NEW k \in 1..N, NEW s \in PhaseStates
  PROVE  /\ Pipes!At(r, k, s) \in Runs /\ Pipes!At(r, k, s).at = r.at
         /\ Pipes!At(r, k, s).overall = r.overall
         /\ Pipes!At(r, k, s).st[k] = s
         /\ \A j \in (1..N) \ {k} : Pipes!At(r, k, s).st[j] = r.st[j]
  BY DEF Runs, Pipes!At

LEMMA OverallFacts ==
  ASSUME NEW r \in Runs, NEW s \in RunStates
  PROVE  /\ Pipes!Overall(r, s) \in Runs /\ Pipes!Overall(r, s).at = r.at
         /\ Pipes!Overall(r, s).st = r.st
  BY DEF Runs, Pipes!Overall

LEMMA PipesStart == Pipes!Start => PipesInv
  BY DEF Pipes!Start, PipesInv, Alone, PipesTyped, StarterHolds, FirstEngine, EventIsLast, Tallied,
    InSaga, Working, Untouched, Pipes!Phases

\* A step within the saga is right if it leaves its own run and tally in order.
LEMMA SagaMove ==
  ASSUME Alone, NEW p \in InSaga, NEW l \in Working, Pipes!Goto(p, l),
         UNCHANGED <<pipeLease, workflow, published, early>>,
         ran' \in [1..N -> {0, 1}], mem' \in [Processes -> Runs \cup {None}],
         undo' \in [Processes -> UndoLocals \cup {None}], Tally(p)'
  PROVE  Alone'
<1>1. p \in Processes /\ pipePc' = [pipePc EXCEPT ![p] = l] /\ pipePc'[p] = l
  BY DEF InSaga, Alone, PipesTyped, Pipes!Goto
<1>2. \A q \in Processes \ {p} : q \notin InSaga /\ pipePc'[q] = pipePc[q]
  BY <1>1 DEF Alone, FirstEngine, PipesTyped
<1>3. InSaga' = {p}
  BY <1>1, <1>2 DEF InSaga
<1>4. published = <<>> /\ workflow # <<>>
  BY DEF Alone, EventIsLast, FirstEngine
<1>5. PipesTyped'
  BY <1>1 DEF Alone, PipesTyped, Working
<1>6. StarterHolds'
  BY <1>1, <1>2 DEF Alone, StarterHolds, Working
<1>7. FirstEngine'
  <2>1. pipePc'[p] \notin {"approve", "execute"}
    BY <1>1 DEF Working
  <2>2. \A q \in Processes : pipePc'[q] \notin {"approve", "execute"}
    BY <1>2, <2>1 DEF InSaga
  <2> QED BY <1>3, <1>4, <2>2 DEF FirstEngine
<1>8. EventIsLast'
  BY <1>4 DEF EventIsLast
<1>9. Tallied'
  <2>1. \A q \in Processes \ {p} : pipePc'[q] \notin Working
    BY <1>2 DEF InSaga
  <2> QED BY <2>1 DEF Tallied
<1> QED BY <1>5, <1>6, <1>7, <1>8, <1>9 DEF Alone

\* acquire: whoever is between acquire and the first event has a live lease.
LEMMA AcquireStep == ASSUME Alone, NEW p \in Processes, Pipes!Acquire(p) PROVE Alone'
<1>1. /\ pipePc[p] = "idle" /\ pipePc' = [pipePc EXCEPT ![p] = "start"]
      /\ pipeLease = None \/ pipeLease.left = 0
      /\ pipeLease' = [by |-> p, left |-> PipeTTL]
      /\ UNCHANGED <<workflow, file, mem, ran, published, undo>>
  BY DEF Pipes!Acquire, Pipes!Goto
<1>2. pipeLease' \in [by : Processes, left : Nat]
  BY <1>1, TimeAssumption DEF TimeAssumption
<1>3. pipeLease' # None /\ pipeLease'.by = p /\ pipeLease'.left > 0
  <2>1. pipeLease' \in [by : Processes, left : Int]
    BY <1>2
  <2> QED BY <1>1, <2>1, NoneAssumption, TimeAssumption DEF NoneAssumption, TimeAssumption
<1>4. /\ pipePc'[p] = "start" /\ \A q \in Processes \ {p} : pipePc'[q] = pipePc[q]
      /\ \A q \in Processes : pipePc[q] \notin {"start", "append"}
  BY <1>1 DEF Alone, PipesTyped, StarterHolds
<1>5. InSaga' = InSaga
  BY <1>1, <1>4 DEF InSaga, Working
<1>6. PipesTyped'
  BY <1>1, <1>2 DEF Alone, PipesTyped
<1>7. StarterHolds'
  BY <1>3, <1>4 DEF StarterHolds
<1>8. FirstEngine'
  BY <1>1, <1>4, <1>5 DEF Alone, FirstEngine, Untouched
<1>9. EventIsLast'
  BY <1>1, <1>5 DEF Alone, EventIsLast
<1>10. Tallied'
  BY <1>1, <1>4 DEF Alone, Tallied, Tally, Working, Counted, Forward
<1> QED BY <1>6, <1>7, <1>8, <1>9, <1>10 DEF Alone

\* start_workflow finds a workflow, or goes on to write its first event.
LEMMA CheckStep == ASSUME Alone, NEW p \in Processes, Pipes!CheckWorkflow(p) PROVE Alone'
<1> DEFINE l == IF workflow = <<>> THEN "append" ELSE "release"
<1>1. /\ pipePc[p] = "start" /\ pipePc' = [pipePc EXCEPT ![p] = l]
      /\ UNCHANGED <<pipeLease, workflow, file, mem, ran, published, undo>>
  BY DEF Pipes!CheckWorkflow, Pipes!Goto, Pipes!NotStarted
<1>2. /\ pipePc'[p] = l /\ \A q \in Processes \ {p} : pipePc'[q] = pipePc[q]
  BY <1>1 DEF Alone, PipesTyped
<1>3. InSaga' = InSaga
  BY <1>1, <1>2 DEF InSaga, Working
<1>4. PipesTyped'
  BY <1>1 DEF Alone, PipesTyped
<1>5. StarterHolds'
  BY <1>1, <1>2 DEF Alone, StarterHolds
<1>6. FirstEngine'
  BY <1>1, <1>2, <1>3 DEF Alone, FirstEngine, Untouched
<1>7. EventIsLast'
  BY <1>1, <1>3 DEF Alone, EventIsLast
<1>8. Tallied'
  BY <1>1, <1>2 DEF Alone, Tallied, Tally, Working, Counted, Forward
<1> QED BY <1>4, <1>5, <1>6, <1>7, <1>8 DEF Alone

\* The first event makes its writer the engine; the second is the engine's own.
LEMMA AppendStep == ASSUME Alone, NEW p \in Processes, Pipes!AppendEvent(p) PROVE Alone'
<1>1. UNCHANGED <<pipeLease, file, mem, ran, published, undo>>
  BY DEF Pipes!AppendEvent
<1>2. CASE pipePc[p] = "append"
  <2>1. pipePc' = [pipePc EXCEPT ![p] = "approve"] /\ workflow' = Append(workflow, "started")
    BY <1>2 DEF Pipes!AppendEvent, Pipes!Goto
  <2>2. workflow = <<>> /\ InSaga = {} /\ Untouched
    BY <1>2 DEF Alone, StarterHolds, FirstEngine
  <2>3. workflow' \in Seq({"started", "approved"}) /\ workflow' # <<>>
    BY <2>1, <2>2
  <2>4. pipePc'[p] = "approve" /\ \A q \in Processes \ {p} : pipePc'[q] = pipePc[q]
    BY <2>1 DEF Alone, PipesTyped
  <2>5. InSaga' = {p}
    BY <2>2, <2>4 DEF InSaga
  <2>6. PipesTyped'
    BY <1>1, <2>1, <2>3 DEF Alone, PipesTyped
  <2>7. StarterHolds'
    <3>1. \A q \in Processes \ {p} : pipePc[q] \notin {"start", "append"}
      BY <1>2 DEF Alone, StarterHolds
    <3> QED BY <2>4, <3>1 DEF StarterHolds
  <2>8. FirstEngine'
    BY <1>1, <2>2, <2>3, <2>5 DEF FirstEngine, Untouched
  <2>9. EventIsLast'
    BY <1>1, <2>2 DEF EventIsLast, Untouched
  <2>10. Tallied'
    BY <2>2, <2>4 DEF Tallied, InSaga, Working
  <2> QED BY <2>6, <2>7, <2>8, <2>9, <2>10 DEF Alone
<1>3. CASE pipePc[p] = "approve"
  <2>1. pipePc' = [pipePc EXCEPT ![p] = "execute"] /\ workflow' = Append(workflow, "approved")
    BY <1>3 DEF Pipes!AppendEvent, Pipes!Goto
  <2>2. p \in InSaga /\ workflow # <<>> /\ Untouched
    BY <1>3 DEF Alone, FirstEngine, InSaga
  <2>3. workflow' \in Seq({"started", "approved"}) /\ workflow' # <<>>
    <3>1. workflow \in Seq({"started", "approved"})
      BY DEF Alone, PipesTyped
    <3> QED BY <2>1, <3>1
  <2>4. pipePc'[p] = "execute" /\ \A q \in Processes \ {p} : pipePc'[q] = pipePc[q]
    BY <2>1 DEF Alone, PipesTyped
  <2>5. InSaga' = InSaga /\ InSaga = {p}
    BY <2>2, <2>4 DEF InSaga, Alone, FirstEngine
  <2>6. PipesTyped'
    BY <1>1, <2>1, <2>3 DEF Alone, PipesTyped
  <2>7. StarterHolds'
    <3>1. \A q \in Processes : pipePc[q] # "append"
      BY <2>2 DEF Alone, StarterHolds
    <3> QED BY <1>1, <2>4, <3>1 DEF Alone, StarterHolds
  <2>8. FirstEngine'
    BY <1>1, <2>2, <2>3, <2>5 DEF FirstEngine, Untouched
  <2>9. EventIsLast'
    BY <1>1, <2>2 DEF EventIsLast, Untouched
  <2>10. Tallied'
    <3>1. \A q \in Processes \ {p} : pipePc'[q] \notin Working
      BY <2>4, <2>5 DEF InSaga
    <3> QED BY <2>4, <3>1 DEF Tallied, Working
  <2> QED BY <2>6, <2>7, <2>8, <2>9, <2>10 DEF Alone
<1> QED BY <1>2, <1>3 DEF Pipes!AppendEvent

\* What a write of the run to memory and disk is.
LEMMA SaveFacts ==
  ASSUME PipesTyped, NEW p \in Processes, NEW r \in Runs, Pipes!Save(p, r)
  PROVE  mem'[p] = r /\ file' = r /\ mem' \in [Processes -> Runs \cup {None}]
  BY DEF PipesTyped, Pipes!Save

\* execute finds no state file.
LEMMA ExecuteStep == ASSUME Alone, NEW p \in Processes, Pipes!Execute(p) PROVE Alone'
<1> DEFINE r == Pipes!NewRun
<1>1. Untouched /\ p \in InSaga
  BY DEF Alone, FirstEngine, InSaga, Pipes!Execute
<1>2. /\ r \in Runs /\ r.overall = "PENDING" /\ \A k \in 1..N : r.st[k] = "PENDING"
  BY DEF Pipes!NewRun, Runs, PhaseStates, RunStates, Pipes!Phases
<1>3. /\ Pipes!Save(p, r) /\ Pipes!Goto(p, "loop")
      /\ UNCHANGED <<pipeLease, workflow, ran, published, early, undo>>
  BY <1>1 DEF Untouched, Pipes!Execute
<1> HIDE DEF r
<1>4. mem'[p] = r /\ file' = r /\ mem' \in [Processes -> Runs \cup {None}]
  BY <1>2, <1>3, SaveFacts DEF Alone
<1>5. pipePc'[p] = "loop"
  BY <1>3 DEF Alone, PipesTyped, Pipes!Goto
<1>6. Tally(p)'
  BY <1>1, <1>2, <1>3, <1>4, <1>5 DEF Tally, Counted, Forward, Untouched
<1>7. ran' \in [1..N -> {0, 1}] /\ undo' \in [Processes -> UndoLocals \cup {None}]
  BY <1>3 DEF Alone, PipesTyped
<1>8. "loop" \in Working
  BY DEF Working
<1> QED BY <1>1, <1>3, <1>4, <1>6, <1>7, <1>8, SagaMove

\* The run of the engine, at any of its steps.
LEMMA EngineFacts ==
  ASSUME Alone, NEW p \in Processes, pipePc[p] \in Working
  PROVE  /\ p \in InSaga /\ Tally(p) /\ mem[p] = file /\ file \in Runs /\ Counted(file)
         /\ ran \in [1..N -> {0, 1}] /\ undo \in [Processes -> UndoLocals \cup {None}]
         /\ PipesTyped
         /\ \A l : Pipes!Goto(p, l) => pipePc'[p] = l
  BY DEF Alone, Tallied, InSaga, Tally, PipesTyped, Pipes!Goto

LEMMA RunLoopStep == ASSUME Alone, NEW p \in Processes, Pipes!RunLoop(p) PROVE Alone'
<1>1. pipePc[p] = "loop" /\ pipePc[p] \in Working /\ "phase" \in Working
  BY DEF Pipes!RunLoop, Working
<1>2. /\ p \in InSaga /\ mem[p] = file /\ file \in Runs /\ Counted(file) /\ file.overall = "PENDING"
      /\ Forward(file, {})
      /\ ran \in [1..N -> {0, 1}] /\ undo \in [Processes -> UndoLocals \cup {None}]
  BY <1>1, EngineFacts DEF Tally
<1>3. /\ Pipes!Goto(p, "phase") /\ Pipes!Save(p, Pipes!Overall(file, "RUNNING"))
      /\ UNCHANGED <<pipeLease, workflow, ran, published, early, undo>>
  BY <1>2 DEF Pipes!RunLoop, Pipes!Settled
<1>4. PICK r \in Runs : r = Pipes!Overall(file, "RUNNING") /\ r.st = file.st
  BY <1>2, OverallFacts DEF RunStates
<1>5. mem'[p] = r /\ file' = r /\ mem' \in [Processes -> Runs \cup {None}]
  BY <1>1, <1>3, <1>4, EngineFacts, SaveFacts
<1>6. pipePc'[p] = "phase"
  BY <1>1, <1>3, EngineFacts
<1>7. Tally(p)'
  BY <1>2, <1>3, <1>4, <1>5, <1>6 DEF Tally, Counted, Forward
<1> QED BY <1>1, <1>2, <1>3, <1>5, <1>7, SagaMove

LEMMA NextPhaseStep == ASSUME Alone, NEW p \in Processes, Pipes!NextPhase(p) PROVE Alone'
<1>1. pipePc[p] = "phase" /\ pipePc[p] \in Working /\ {"do", "publish"} \subseteq Working
  BY DEF Pipes!NextPhase, Working
<1>2. /\ p \in InSaga /\ mem[p] = file /\ file \in Runs /\ Counted(file) /\ Forward(file, {})
      /\ ran \in [1..N -> {0, 1}] /\ undo \in [Processes -> UndoLocals \cup {None}]
  BY <1>1, EngineFacts DEF Tally
<1>3. UNCHANGED <<pipeLease, workflow, ran, published, early, undo>>
  BY DEF Pipes!NextPhase
<1>4. CASE Pipes!ToDo(file) = {}
  <2>1. Pipes!Goto(p, "publish") /\ Pipes!Save(p, Pipes!Overall(file, "DONE"))
    BY <1>2, <1>4 DEF Pipes!NextPhase
  <2>2. PICK r \in Runs : r = Pipes!Overall(file, "DONE") /\ r.st = file.st
    BY <1>2, OverallFacts DEF RunStates
  <2>3. mem'[p] = r /\ file' = r /\ mem' \in [Processes -> Runs \cup {None}]
    BY <1>1, <2>1, <2>2, EngineFacts, SaveFacts
  <2>4. pipePc'[p] = "publish"
    BY <1>1, <2>1, EngineFacts
  <2>5. Tally(p)'
    BY <1>2, <1>3, <2>2, <2>3, <2>4 DEF Tally, Counted
  <2> QED BY <1>1, <1>2, <1>3, <2>1, <2>3, <2>5, SagaMove
<1>5. CASE Pipes!ToDo(file) # {}
  <2> DEFINE k == Pipes!Min(Pipes!ToDo(file))
  <2>1. k \in 1..N /\ file.st[k] # "DONE"
    <3>1. Pipes!ToDo(file) \in SUBSET (1..N)
      BY <1>2, TimeAssumption DEF TimeAssumption, Pipes!ToDo, Runs
    <3>2. k \in Pipes!ToDo(file)
      BY <1>5, <3>1, MinMax
    <3> HIDE DEF k
    <3> QED BY <3>1, <3>2 DEF Pipes!ToDo
  <2>2. /\ Pipes!Goto(p, "do")
        /\ Pipes!Save(p, [Pipes!At(file, k, "RUNNING") EXCEPT !.at = k])
    BY <1>2, <1>5 DEF Pipes!NextPhase
  <2> HIDE DEF k
  <2>3. ran[k] = 0
    BY <1>2, <2>1 DEF Counted, Forward
  <2>4. PICK u \in Runs : /\ u = Pipes!At(file, k, "RUNNING") /\ u.st[k] = "RUNNING"
                          /\ \A j \in (1..N) \ {k} : u.st[j] = file.st[j]
    <3>1. "RUNNING" \in PhaseStates
      BY DEF PhaseStates
    <3>2. /\ Pipes!At(file, k, "RUNNING") \in Runs /\ Pipes!At(file, k, "RUNNING").st[k] = "RUNNING"
          /\ \A j \in (1..N) \ {k} : Pipes!At(file, k, "RUNNING").st[j] = file.st[j]
      BY <1>2, <2>1, <3>1, AtFacts
    <3> QED BY <3>2
  <2>5. PICK r \in Runs : r = [u EXCEPT !.at = k] /\ r.at = k /\ r.st = u.st
    <3>1. k \in Nat \ {0}
      BY <2>1, TimeAssumption DEF TimeAssumption
    <3>2. [u EXCEPT !.at = k] \in Runs
      BY <3>1 DEF Runs
    <3>3. [u EXCEPT !.at = k].at = k /\ [u EXCEPT !.at = k].st = u.st
      BY DEF Runs
    <3> QED BY <3>2, <3>3
  <2>6. mem'[p] = r /\ file' = r /\ mem' \in [Processes -> Runs \cup {None}]
    BY <1>1, <2>2, <2>4, <2>5, EngineFacts, SaveFacts
  <2>7. pipePc'[p] = "do"
    BY <1>1, <2>2, EngineFacts
  <2>8. Counted(r) /\ Forward(r, {k})
    BY <1>2, <2>4, <2>5 DEF Counted, Forward
  <2>9. Tally(p)'
    BY <1>3, <2>1, <2>3, <2>4, <2>5, <2>6, <2>7, <2>8 DEF Tally, Counted, Forward
  <2> QED BY <1>1, <1>2, <1>3, <2>2, <2>6, <2>9, SagaMove
<1> QED BY <1>4, <1>5

LEMMA DoStep == ASSUME Alone, NEW p \in Processes, Pipes!Do(p) PROVE Alone'
<1>1. pipePc[p] = "do" /\ pipePc[p] \in Working /\ "done" \in Working
  BY DEF Pipes!Do, Working
<1>2. /\ p \in InSaga /\ mem[p] = file /\ file \in Runs /\ Counted(file)
      /\ file.at \in 1..N /\ Forward(file, {file.at}) /\ ran[file.at] = 0
      /\ ran \in [1..N -> {0, 1}] /\ undo \in [Processes -> UndoLocals \cup {None}]
      /\ mem \in [Processes -> Runs \cup {None}]
  BY <1>1, EngineFacts DEF Tally, PipesTyped
<1>3. /\ Pipes!Goto(p, "done") /\ ran' = [ran EXCEPT ![file.at] = @ + 1]
      /\ UNCHANGED <<pipeLease, workflow, file, mem, published, early, undo>>
  BY <1>2 DEF Pipes!Do
<1>4. /\ ran' \in [1..N -> {0, 1}] /\ ran'[file.at] = 1
      /\ \A j \in (1..N) \ {file.at} : ran'[j] = ran[j]
  BY <1>2, <1>3
<1>5. pipePc'[p] = "done"
  BY <1>1, <1>3, EngineFacts
<1>6. file.st[file.at] = "RUNNING"
  BY <1>1, EngineFacts DEF Tally
<1>7. Tally(p)'
  BY <1>2, <1>3, <1>4, <1>5, <1>6 DEF Tally, Counted, Forward
<1> QED BY <1>1, <1>2, <1>3, <1>4, <1>7, SagaMove

LEMMA SavePhaseStep == ASSUME Alone, NEW p \in Processes, Pipes!SavePhase(p) PROVE Alone'
<1>1. pipePc[p] = "done" /\ pipePc[p] \in Working /\ "phase" \in Working
  BY DEF Pipes!SavePhase, Working
<1>2. /\ p \in InSaga /\ mem[p] = file /\ file \in Runs /\ Counted(file)
      /\ file.at \in 1..N /\ Forward(file, {file.at}) /\ ran[file.at] = 1
      /\ ran \in [1..N -> {0, 1}] /\ undo \in [Processes -> UndoLocals \cup {None}]
  BY <1>1, EngineFacts DEF Tally
<1>3. /\ Pipes!Goto(p, "phase") /\ Pipes!Save(p, Pipes!At(file, file.at, "DONE"))
      /\ UNCHANGED <<pipeLease, workflow, ran, published, early, undo>>
  BY <1>2 DEF Pipes!SavePhase
<1>4. PICK r \in Runs : /\ r = Pipes!At(file, file.at, "DONE") /\ r.st[file.at] = "DONE"
                        /\ \A j \in (1..N) \ {file.at} : r.st[j] = file.st[j]
  <2>1. "DONE" \in PhaseStates
    BY DEF PhaseStates
  <2> QED BY <1>2, <2>1, AtFacts
<1>5. mem'[p] = r /\ file' = r /\ mem' \in [Processes -> Runs \cup {None}]
  BY <1>1, <1>3, <1>4, EngineFacts, SaveFacts
<1>6. pipePc'[p] = "phase"
  BY <1>1, <1>3, EngineFacts
<1>7. Counted(r) /\ Forward(r, {})
  BY <1>2, <1>4 DEF Counted, Forward
<1>8. Tally(p)'
  BY <1>3, <1>5, <1>6, <1>7 DEF Tally, Counted, Forward
<1> QED BY <1>1, <1>2, <1>3, <1>5, <1>8, SagaMove

LEMMA PhaseFailsStep == ASSUME Alone, NEW p \in Processes, Pipes!PhaseFails(p) PROVE Alone'
<1>1. pipePc[p] = "do" /\ pipePc[p] \in Working /\ "compensate" \in Working
  BY DEF Pipes!PhaseFails, Working
<1>2. /\ p \in InSaga /\ mem[p] = file /\ file \in Runs /\ Counted(file) /\ file.at \in 1..N
      /\ ran \in [1..N -> {0, 1}] /\ undo \in [Processes -> UndoLocals \cup {None}]
  BY <1>1, EngineFacts DEF Tally
<1>3. /\ Pipes!Goto(p, "compensate")
      /\ Pipes!Save(p, Pipes!Overall(Pipes!At(file, file.at, "FAILED"), "FAILED"))
      /\ UNCHANGED <<pipeLease, workflow, ran, published, early, undo>>
  BY <1>2 DEF Pipes!PhaseFails
<1>4. PICK u \in Runs : /\ u = Pipes!At(file, file.at, "FAILED") /\ u.st[file.at] = "FAILED"
                        /\ \A j \in (1..N) \ {file.at} : u.st[j] = file.st[j]
  <2>1. "FAILED" \in PhaseStates
    BY DEF PhaseStates
  <2> QED BY <1>2, <2>1, AtFacts
<1>5. PICK r \in Runs : r = Pipes!Overall(u, "FAILED") /\ r.st = u.st
  BY OverallFacts DEF RunStates
<1>6. mem'[p] = r /\ file' = r /\ mem' \in [Processes -> Runs \cup {None}]
  BY <1>1, <1>3, <1>4, <1>5, EngineFacts, SaveFacts
<1>7. pipePc'[p] = "compensate"
  BY <1>1, <1>3, EngineFacts
<1>8. Counted(r)
  BY <1>2, <1>4, <1>5 DEF Counted
<1>9. Tally(p)'
  BY <1>3, <1>6, <1>7, <1>8 DEF Tally, Counted
<1> QED BY <1>1, <1>2, <1>3, <1>6, <1>9, SagaMove

LEMMA CompensateStep == ASSUME Alone, NEW p \in Processes, Pipes!Compensate(p) PROVE Alone'
<1>1. pipePc[p] = "compensate" /\ pipePc[p] \in Working /\ "undo" \in Working
  BY DEF Pipes!Compensate, Working
<1>2. /\ p \in InSaga /\ mem[p] = file /\ file \in Runs /\ Counted(file)
      /\ ran \in [1..N -> {0, 1}] /\ undo \in [Processes -> UndoLocals \cup {None}]
  BY <1>1, EngineFacts DEF Tally
<1>3. /\ Pipes!Goto(p, "undo") /\ Pipes!Save(p, Pipes!Overall(file, "COMPENSATING"))
      /\ undo' = [undo EXCEPT ![p] = [at |-> None, failed |-> FALSE]]
      /\ UNCHANGED <<pipeLease, workflow, ran, published, early>>
  BY <1>2 DEF Pipes!Compensate
<1>4. PICK r \in Runs : r = Pipes!Overall(file, "COMPENSATING") /\ r.st = file.st
  BY <1>2, OverallFacts DEF RunStates
<1>5. mem'[p] = r /\ file' = r /\ mem' \in [Processes -> Runs \cup {None}]
  BY <1>1, <1>3, <1>4, EngineFacts, SaveFacts
<1>6. pipePc'[p] = "undo"
  BY <1>1, <1>3, EngineFacts
<1>7. undo'[p] \in UndoLocals /\ undo' \in [Processes -> UndoLocals \cup {None}]
  <2>1. [at |-> None, failed |-> FALSE] \in UndoLocals
    BY DEF UndoLocals
  <2> QED BY <1>2, <1>3, <2>1
<1>8. Tally(p)'
  BY <1>2, <1>3, <1>4, <1>5, <1>6, <1>7 DEF Tally, Counted
<1> QED BY <1>1, <1>2, <1>3, <1>5, <1>7, <1>8, SagaMove

LEMMA NextUndoStep == ASSUME Alone, NEW p \in Processes, Pipes!NextUndo(p) PROVE Alone'
<1>1. pipePc[p] = "undo" /\ pipePc[p] \in Working /\ {"undoing", "publish"} \subseteq Working
  BY DEF Pipes!NextUndo, Working
<1>2. /\ p \in InSaga /\ mem[p] = file /\ file \in Runs /\ Counted(file) /\ undo[p] \in UndoLocals
      /\ ran \in [1..N -> {0, 1}] /\ undo \in [Processes -> UndoLocals \cup {None}]
  BY <1>1, EngineFacts DEF Tally
<1>3. UNCHANGED <<pipeLease, workflow, ran, published, early>>
  BY DEF Pipes!NextUndo
<1>4. CASE Pipes!DoneIn(file) # {}
  <2> DEFINE k == Pipes!Max(Pipes!DoneIn(file))
  <2>1. k \in 1..N /\ file.st[k] = "DONE"
    <3>1. Pipes!DoneIn(file) \in SUBSET (1..N)
      BY DEF Pipes!DoneIn, Pipes!Phases
    <3>2. k \in Pipes!DoneIn(file)
      BY <1>4, <3>1, MinMax
    <3> HIDE DEF k
    <3> QED BY <3>1, <3>2 DEF Pipes!DoneIn
  <2>2. /\ Pipes!Goto(p, "undoing") /\ Pipes!Save(p, Pipes!At(file, k, "UNDOING"))
        /\ undo' = [undo EXCEPT ![p].at = k]
    BY <1>2, <1>4 DEF Pipes!NextUndo
  <2> HIDE DEF k
  <2>3. ran[k] = 1
    BY <1>2, <2>1 DEF Counted
  <2>4. PICK r \in Runs : /\ r = Pipes!At(file, k, "UNDOING") /\ r.st[k] = "UNDOING"
                          /\ \A j \in (1..N) \ {k} : r.st[j] = file.st[j]
    <3>1. "UNDOING" \in PhaseStates
      BY DEF PhaseStates
    <3> QED BY <1>2, <2>1, <3>1, AtFacts
  <2>5. mem'[p] = r /\ file' = r /\ mem' \in [Processes -> Runs \cup {None}]
    BY <1>1, <2>2, <2>4, EngineFacts, SaveFacts
  <2>6. pipePc'[p] = "undoing"
    BY <1>1, <2>2, EngineFacts
  <2>7. Counted(r)
    BY <1>2, <2>4 DEF Counted
  <2>8. /\ undo'[p] \in UndoLocals /\ undo'[p].at = k
        /\ undo' \in [Processes -> UndoLocals \cup {None}]
    <3>1. [undo[p] EXCEPT !.at = k] \in UndoLocals /\ [undo[p] EXCEPT !.at = k].at = k
      BY <1>2, <2>1 DEF UndoLocals
    <3> QED BY <1>2, <2>2, <3>1
  <2>9. Tally(p)'
    BY <1>3, <2>1, <2>3, <2>5, <2>6, <2>7, <2>8 DEF Tally, Counted
  <2> QED BY <1>1, <1>2, <1>3, <2>2, <2>5, <2>8, <2>9, SagaMove
<1>5. CASE Pipes!DoneIn(file) = {}
  <2> DEFINE s == IF undo[p].failed THEN "PARTIAL_COMPENSATION" ELSE "COMPENSATED"
  <2>1. /\ Pipes!Goto(p, "publish") /\ Pipes!Save(p, Pipes!Overall(file, s))
        /\ undo' = [undo EXCEPT ![p] = None]
    BY <1>2, <1>5 DEF Pipes!NextUndo
  <2>2. s \in RunStates
    BY DEF RunStates
  <2> HIDE DEF s
  <2>3. PICK r \in Runs : r = Pipes!Overall(file, s) /\ r.st = file.st
    BY <1>2, <2>2, OverallFacts
  <2>4. mem'[p] = r /\ file' = r /\ mem' \in [Processes -> Runs \cup {None}]
    BY <1>1, <2>1, <2>3, EngineFacts, SaveFacts
  <2>5. pipePc'[p] = "publish"
    BY <1>1, <2>1, EngineFacts
  <2>6. undo' \in [Processes -> UndoLocals \cup {None}]
    BY <1>2, <2>1
  <2>7. Tally(p)'
    BY <1>2, <1>3, <2>3, <2>4, <2>5 DEF Tally, Counted
  <2> QED BY <1>1, <1>2, <1>3, <2>1, <2>4, <2>6, <2>7, SagaMove
<1> QED BY <1>4, <1>5

LEMMA UndoStep == ASSUME Alone, NEW p \in Processes, Pipes!Undo(p) PROVE Alone'
<1>1. pipePc[p] = "undoing" /\ pipePc[p] \in Working /\ "undo" \in Working
  BY DEF Pipes!Undo, Working
<1> DEFINE k == undo[p].at
<1>2. /\ p \in InSaga /\ mem[p] = file /\ file \in Runs /\ Counted(file) /\ undo[p] \in UndoLocals
      /\ k \in 1..N /\ ran[k] = 1
      /\ ran \in [1..N -> {0, 1}] /\ undo \in [Processes -> UndoLocals \cup {None}]
  BY <1>1, EngineFacts DEF Tally
<1>3. /\ Pipes!Goto(p, "undo") /\ UNCHANGED <<pipeLease, workflow, published, early>>
      /\ \/ /\ Pipes!Save(p, Pipes!At(file, k, "UNDONE")) /\ ran' = [ran EXCEPT ![k] = @ - 1]
            /\ undo' = undo
         \/ /\ Pipes!Save(p, Pipes!At(file, k, "UNDO_FAILED")) /\ ran' = ran
            /\ undo' = [undo EXCEPT ![p].failed = TRUE]
  BY <1>2 DEF Pipes!Undo
<1>4. pipePc'[p] = "undo"
  BY <1>1, <1>3, EngineFacts
<1> HIDE DEF k
<1>5. PICK s \in {"UNDONE", "UNDO_FAILED"} : Pipes!Save(p, Pipes!At(file, k, s))
  BY <1>3
<1>6. /\ ran' \in [1..N -> {0, 1}] /\ \A j \in (1..N) \ {k} : ran'[j] = ran[j]
  <2>1. ran' = [ran EXCEPT ![k] = @ - 1] \/ ran' = ran
    BY <1>3
  <2>2. [ran EXCEPT ![k] = @ - 1] = [ran EXCEPT ![k] = 0]
    BY <1>2
  <2> QED BY <1>2, <2>1, <2>2
<1>7. PICK r \in Runs : /\ r = Pipes!At(file, k, s) /\ r.st[k] = s
                        /\ \A j \in (1..N) \ {k} : r.st[j] = file.st[j]
  <2>1. s \in PhaseStates
    BY DEF PhaseStates
  <2> QED BY <1>2, <2>1, AtFacts
<1>8. mem'[p] = r /\ file' = r /\ mem' \in [Processes -> Runs \cup {None}]
  BY <1>1, <1>5, <1>7, EngineFacts, SaveFacts
<1>9. Counted(r)'
  BY <1>2, <1>6, <1>7 DEF Counted
<1>10. undo'[p] \in UndoLocals /\ undo' \in [Processes -> UndoLocals \cup {None}]
  <2>1. [undo[p] EXCEPT !.failed = TRUE] \in UndoLocals
    BY <1>2 DEF UndoLocals
  <2> QED BY <1>2, <1>3, <2>1
<1>11. Tally(p)'
  BY <1>4, <1>8, <1>9, <1>10 DEF Tally, Counted
<1> QED BY <1>1, <1>2, <1>3, <1>6, <1>8, <1>10, <1>11, SagaMove

\* The event of the engine: it tells the last status of the state file.
LEMMA PublishStep == ASSUME Alone, NEW p \in Processes, Pipes!Publish(p) PROVE Alone'
<1>1. pipePc[p] = "publish" /\ pipePc[p] \in Working
  BY DEF Pipes!Publish, Working
<1>2. p \in InSaga /\ mem[p] = file
  BY <1>1, EngineFacts
<1>3. /\ pipePc' = [pipePc EXCEPT ![p] = "release"] /\ published' = Append(published, file.overall)
      /\ UNCHANGED <<pipeLease, workflow, file, mem, ran, undo>>
  BY <1>2 DEF Pipes!Publish, Pipes!Goto
<1>4. pipePc'[p] = "release" /\ \A q \in Processes \ {p} : pipePc'[q] = pipePc[q] /\ q \notin InSaga
  BY <1>2, <1>3 DEF Alone, PipesTyped, FirstEngine
<1>5. InSaga' = {} /\ workflow # <<>> /\ published = <<>>
  BY <1>2, <1>4 DEF InSaga, Working, Alone, FirstEngine, EventIsLast
<1>6. PipesTyped'
  BY <1>3 DEF Alone, PipesTyped
<1>7. StarterHolds'
  BY <1>3, <1>4 DEF Alone, StarterHolds
<1>8. FirstEngine'
  <2>1. \A q \in Processes : pipePc'[q] \notin {"approve", "execute"}
    BY <1>5 DEF InSaga
  <2> QED BY <1>3, <1>5, <2>1 DEF FirstEngine
<1>9. EventIsLast'
  <2>1. Len(published') = 1 /\ published'[1] = file'.overall
    BY <1>3, <1>5
  <2> QED BY <1>5, <2>1 DEF EventIsLast
<1>10. Tallied'
  BY <1>5 DEF Tallied, InSaga
<1> QED BY <1>6, <1>7, <1>8, <1>9, <1>10 DEF Alone

\* A process that leaves takes no row but its own, and no state but its memory.
LEMMA LeaveStep ==
  ASSUME Alone, NEW p \in Processes, pipePc[p] # "idle", pipePc' = [pipePc EXCEPT ![p] = "idle"],
         mem' = [mem EXCEPT ![p] = None], undo' \in {undo, [undo EXCEPT ![p] = None]},
         \/ pipeLease' = pipeLease
         \/ pipeLease' = None /\ pipeLease # None /\ pipeLease.by = p,
         UNCHANGED <<workflow, file, ran, published>>
  PROVE  Alone'
<1>1. /\ pipePc'[p] = "idle"
      /\ \A q \in Processes \ {p} : /\ pipePc'[q] = pipePc[q] /\ mem'[q] = mem[q]
                                    /\ undo'[q] = undo[q]
  BY DEF Alone, PipesTyped
<1>2. InSaga' = InSaga \ {p}
  BY <1>1 DEF InSaga, Working
<1>3. PipesTyped'
  BY DEF Alone, PipesTyped
<1>4. StarterHolds'
  BY <1>1 DEF Alone, StarterHolds
<1>5. FirstEngine'
  BY <1>1, <1>2 DEF Alone, FirstEngine, Untouched
<1>6. EventIsLast'
  BY <1>2 DEF Alone, EventIsLast
<1>7. Tallied'
  <2> SUFFICES ASSUME NEW q \in Processes, pipePc'[q] \in Working PROVE Tally(q)'
    BY DEF Tallied
  <2>1. q # p /\ Tally(q)
    BY <1>1 DEF Working, Alone, Tallied
  <2> QED BY <1>1, <2>1 DEF Tally, Counted, Forward
<1> QED BY <1>3, <1>4, <1>5, <1>6, <1>7 DEF Alone

LEMMA TimeStep == ASSUME Alone, Pipes!Tick, early' = {} PROVE Alone'
<1>1. /\ pipeLease # None /\ pipeLease \in [by : Processes, left : Nat] /\ pipeLease.left > 0
      /\ pipeLease' = [pipeLease EXCEPT !.left = @ - 1]
      /\ UNCHANGED <<pipePc, workflow, file, mem, ran, published, undo>>
  BY DEF Alone, PipesTyped, Pipes!Tick
<1>2. /\ pipeLease' \in [by : Processes, left : Nat] /\ pipeLease'.by = pipeLease.by
      /\ pipeLease'.left = pipeLease.left - 1
  BY <1>1
<1>3. pipeLease' # None
  BY <1>2, NoneAssumption DEF NoneAssumption
<1>4. \A q \in Processes : pipePc[q] \in {"start", "append"} => pipeLease.left > 1
  <2> SUFFICES ASSUME NEW q \in Processes, pipePc[q] \in {"start", "append"}, pipeLease.left = 1
               PROVE  FALSE
    BY <1>1
  <2>1. pipeLease.by = q
    BY DEF Alone, StarterHolds
  <2> QED BY <2>1 DEF Pipes!Tick
<1>5. PipesTyped'
  BY <1>1, <1>2 DEF Alone, PipesTyped
<1>6. StarterHolds'
  BY <1>1, <1>2, <1>3, <1>4 DEF Alone, StarterHolds
<1>7. InSaga' = InSaga
  BY <1>1 DEF InSaga
<1>8. FirstEngine' /\ EventIsLast'
  BY <1>1, <1>7 DEF Alone, FirstEngine, EventIsLast, Untouched
<1>9. Tallied'
  BY <1>1 DEF Alone, Tallied, Tally, Counted, Forward
<1> QED BY <1>5, <1>6, <1>8, <1>9 DEF Alone

LEMMA PipesStep == PipesInv /\ Pipes!Next => PipesInv'
<1> SUFFICES ASSUME PipesInv, Pipes!Next, early' = {} PROVE Alone'
  BY DEF PipesInv
<1>1. CASE Pipes!Tick
  <2>1. early = {}
    BY <1>1 DEF Pipes!Tick
  <2> QED BY <1>1, <2>1, TimeStep DEF PipesInv
<1>2. ASSUME NEW p \in Processes, Pipes!Step(p) PROVE Alone'
  <2>1. early = {}
    BY <1>2
    DEF Pipes!Step, Pipes!Acquire, Pipes!CheckWorkflow, Pipes!AppendEvent, Pipes!Execute,
      Pipes!RunLoop, Pipes!NextPhase, Pipes!Do, Pipes!SavePhase, Pipes!PhaseFails,
      Pipes!Compensate, Pipes!NextUndo, Pipes!Undo, Pipes!Publish, Pipes!Release, Pipes!Die
  <2>2. Alone
    BY <2>1 DEF PipesInv
  <2>3. CASE Pipes!Release(p)
    <3>1. /\ pipePc[p] # "idle" /\ pipePc' = [pipePc EXCEPT ![p] = "idle"]
          /\ mem' = [mem EXCEPT ![p] = None] /\ undo' = undo
          /\ UNCHANGED <<workflow, file, ran, published>>
          /\ \/ pipeLease' = pipeLease
             \/ pipeLease' = None /\ pipeLease # None /\ pipeLease.by = p
      BY <2>3 DEF Pipes!Release, Pipes!Goto
    <3> QED BY <2>2, <3>1, LeaveStep
  <2>4. CASE Pipes!Die(p)
    <3>1. /\ pipePc[p] # "idle" /\ pipePc' = [pipePc EXCEPT ![p] = "idle"]
          /\ mem' = [mem EXCEPT ![p] = None] /\ undo' = [undo EXCEPT ![p] = None]
          /\ UNCHANGED <<workflow, file, ran, published>> /\ pipeLease' = pipeLease
      BY <2>4 DEF Pipes!Die, Pipes!Goto
    <3> QED BY <2>2, <3>1, LeaveStep
  <2> QED BY <1>2, <2>2, <2>3, <2>4, AcquireStep, CheckStep, AppendStep, ExecuteStep, RunLoopStep,
             NextPhaseStep, DoStep, SavePhaseStep, PhaseFailsStep, CompensateStep, NextUndoStep,
             UndoStep, PublishStep DEF Pipes!Step
<1> QED BY <1>1, <1>2 DEF Pipes!Next

LEMMA PipesOnce == PipesInv => Pipes!RunsOnceUnlessEarly
<1> SUFFICES ASSUME Alone
             PROVE  /\ Cardinality(Pipes!InSaga) <= 1
                    /\ \A k \in Pipes!Phases : ran[k] \in {0, 1}
                    /\ Len(published) <= 1 /\ (published # <<>> => published[1] = file.overall)
  BY PipesCardinality DEF PipesInv, Pipes!RunsOnceUnlessEarly
<1>1. Pipes!InSaga = InSaga
  BY DEF Pipes!InSaga, InSaga, Working, Alone, PipesTyped
<1>2. Cardinality(InSaga) <= 1
  <2>1. CASE InSaga = {}
    BY <2>1, FS_EmptySet
  <2>2. CASE InSaga # {}
    <3>1. PICK p \in InSaga : InSaga = {p}
      BY <2>2 DEF Alone, FirstEngine
    <3>2. Cardinality({p}) = 1
      BY FS_Singleton
    <3> HIDE DEF InSaga
    <3> QED BY <3>1, <3>2
  <2> QED BY <2>1, <2>2
<1>3. \A k \in Pipes!Phases : ran[k] \in {0, 1}
  BY DEF Alone, PipesTyped, Pipes!Phases
<1>4. Len(published) <= 1 /\ (published # <<>> => published[1] = file.overall)
  BY DEF Alone, EventIsLast
<1> QED BY <1>1, <1>2, <1>3, <1>4

-----------------------------------------------------------------------------
(***************************************************************************)
(* All of them together, and the two invariants of the specification.      *)
(***************************************************************************)

IInv == LocksInv /\ RoomInv /\ SectionInv /\ PipesInv

LEMMA Initially == Init => IInv
  BY LocksStart, RoomStart, SectionStart, PipesStart DEF Init, IInv

\* A class that does not run stands still.
LEMMA StandsStill ==
  /\ LocksInv /\ UNCHANGED <<engine, locksVars>> => LocksInv'
  /\ RoomInv /\ UNCHANGED roomVars => RoomInv'
  /\ SectionInv /\ UNCHANGED sectionVars => SectionInv'
  /\ PipesInv /\ UNCHANGED pipesVars => PipesInv'
<1>1. LocksInv /\ UNCHANGED <<engine, locksVars>> => LocksInv'
  BY DEF locksVars, LocksInv, LocksTyped, GoneIsBroken, GoneKeys, Locks!Gone, Locks!GrantKept,
    Locks!Owns, RivalsArePairs, Locks!RivalsReported, Locks!WithinCapacity, Locks!Held, Locks!Holder
<1>2. RoomInv /\ UNCHANGED roomVars => RoomInv'
  BY DEF roomVars, RoomInv
<1>3. SectionInv /\ UNCHANGED sectionVars => SectionInv'
  BY DEF sectionVars, SectionInv, SectionTyped, Section!TokenKept, Section!Verified, Section!Live,
    CheckedIsCalm, AnchorsInChain
<1>4. PipesInv /\ UNCHANGED pipesVars => PipesInv'
  BY DEF pipesVars, PipesInv, Alone, PipesTyped, StarterHolds, FirstEngine, Untouched, EventIsLast,
    Tallied, Tally, Counted, Forward, InSaga
<1> QED BY <1>1, <1>2, <1>3, <1>4

LEMMA Inductive == IInv /\ [Next]_vars => IInv'
<1> SUFFICES ASSUME IInv, [Next]_vars PROVE IInv'
  OBVIOUS
<1>1. LocksInv'
  BY StandsStill, LocksStep DEF IInv, Next, vars
<1>2. RoomInv'
  BY StandsStill, RoomStep DEF IInv, Next, vars
<1>3. SectionInv'
  BY StandsStill, SectionStep DEF IInv, Next, vars
<1>4. PipesInv'
  BY StandsStill, PipesStep DEF IInv, Next, vars
<1> QED BY <1>1, <1>2, <1>3, <1>4 DEF IInv

LEMMA Invariance == Spec => []IInv
  BY Initially, Inductive, PTL DEF Spec

\* What was granted stays granted.  A thread has the lease of its token unless the
\* lease expired, was forced open or was taken over for the same holder; no lawyer
\* has leases at two rivals without being reported; no manager exceeds its limit; a
\* room is promised to one channel; a section's token verifies until its row is over;
\* and no chain is taken for truncated.
THEOREM GrantsHoldAlways == Spec => []GrantsHold
<1>1. IInv => GrantsHold
  BY DEF IInv, LocksInv, RoomInv, Room!NotSoldTwice, SectionInv, AnchorsInChain,
    Section!NoFalseAlarm, Section!VerifyAgainstAnchor, GrantsHold
<1> QED BY <1>1, Invariance, PTL

\* The pipeline of an action that does not lose its lease before the workflow is
\* started has one engine and one event, and does no phase twice, however late its
\* lease lapses and whoever dies.
THEOREM RunsOnceAlways == Spec => []RunsOnce
<1>1. IInv => RunsOnce
  BY PipesOnce DEF IInv, RunsOnce
<1> QED BY <1>1, Invariance, PTL

-----------------------------------------------------------------------------
(***************************************************************************)
(* The locks are exclusive leases: a key or a section has one holder until *)
(* there was a moment without one.                                         *)
(***************************************************************************)

KeyHolders == [k \in Keys |-> IF Locks!Live(k) THEN Locks!Holder(k) ELSE None]

LEMMA KeysEnd ==
  ASSUME \A k \in Keys : KeyHolders'[k] \in {KeyHolders[k], None}
  PROVE  Locks!Exclusive!Next
<1> DEFINE S == {k \in Keys : KeyHolders'[k] = None}
<1>1. KeyHolders' = [r \in Keys |-> IF r \in S THEN None ELSE KeyHolders[r]]
  <2>1. KeyHolders' = [r \in Keys |-> KeyHolders'[r]]
    BY DEF KeyHolders
  <2>2. \A r \in Keys : KeyHolders'[r] = IF r \in S THEN None ELSE KeyHolders[r]
    OBVIOUS
  <2> QED BY <2>1, <2>2
<1>2. Locks!Exclusive!End(S)
  BY <1>1 DEF Locks!Exclusive!End, KeyHolders
<1> QED BY <1>2 DEF Locks!Exclusive!Next

LEMMA KeysGrant ==
  ASSUME NEW k \in Keys, NEW t \in Threads, KeyHolders[k] = None, KeyHolders'[k] = HolderOf[t],
         \A j \in Keys \ {k} : KeyHolders'[j] = KeyHolders[j]
  PROVE  Locks!Exclusive!Next
<1>1. KeyHolders' = [KeyHolders EXCEPT ![k] = HolderOf[t]]
  BY DEF KeyHolders
<1>2. Locks!Exclusive!Grant(k, HolderOf[t])
  BY <1>1 DEF Locks!Exclusive!Grant, KeyHolders
<1> QED BY <1>2 DEF Locks!Exclusive!Next

LEMMA KeysStep == LocksTyped /\ LocksCase /\ engine' = engine => Locks!Exclusive!Next
<1> SUFFICES ASSUME LocksTyped, LocksCase, engine' = engine PROVE Locks!Exclusive!Next
  OBVIOUS
<1> DEFINE Open(k) == keyedLease[k] # None /\ k \notin GoneKeys
<1>1. \A k \in Keys : KeyHolders[k] = IF Open(k) THEN HolderOf[keyedLease[k].by] ELSE None
  BY DEF KeyHolders, GoneKeys, Locks!Live, Locks!Holder
<1>2. \A k \in Keys : KeyHolders'[k] = IF Open(k)' THEN HolderOf[keyedLease'[k].by] ELSE None
  BY DEF KeyHolders, GoneKeys, Locks!Live, Locks!Holder
\* A lease that stays as it is has the same holder.
<1>3. ASSUME NEW k \in Keys, keyedLease'[k] = keyedLease[k] PROVE KeyHolders'[k] = KeyHolders[k]
  <2>1. Open(k)' <=> Open(k)
    BY <1>3 DEF GoneKeys, Locks!Gone
  <2> HIDE DEF Open
  <2> QED BY <1>1, <1>2, <1>3, <2>1
<1>4. ASSUME NEW k \in Keys, keyedLease'[k] = None PROVE KeyHolders'[k] = None
  BY <1>2, <1>4
<1>5. ASSUME NEW k \in GoneKeys PROVE KeyHolders[k] = None
  BY <1>1 DEF GoneKeys
<1> HIDE DEF Open
<1>6. ASSUME NEW t \in Threads, NEW k \in Keys, NEW a \in 0..LockMaxAge, NEW S \in SUBSET Keys,
             Granted(t, k, a, S)
      PROVE  Locks!Exclusive!Next
  <2>1. /\ \A j \in Keys \ {k} : keyedLease'[j] = IF j \in S THEN None ELSE keyedLease[j]
        /\ keyedLease'[k] = [by |-> t, left |-> LockTTL - a]
    BY <1>6, GrantedLeases
  <2>2. \A j \in Keys \ {k} : KeyHolders'[j] = KeyHolders[j]
    <3> TAKE j \in Keys \ {k}
    <3>1. CASE j \in S
      <4>1. j \in GoneKeys
        BY <1>6, <3>1 DEF Granted
      <4> QED BY <1>4, <1>5, <2>1, <3>1, <4>1
    <3>2. CASE j \notin S
      BY <1>3, <2>1, <3>2
    <3> QED BY <3>1, <3>2
  <2>3. KeyHolders'[k] \in {HolderOf[t], None}
    BY <1>2, <2>1
  <2>4. CASE KeyHolders'[k] = None
    BY <2>2, <2>4, KeysEnd
  <2>5. CASE KeyHolders'[k] = HolderOf[t] /\ KeyHolders[k] = None
    BY <2>2, <2>5, KeysGrant
  <2>6. CASE KeyHolders'[k] = HolderOf[t] /\ KeyHolders[k] # None
    <3>1. Open(k)
      BY <1>1, <2>6
    <3>2. HolderOf[keyedLease[k].by] = HolderOf[t]
      BY <1>6, <3>1 DEF Open, Granted, Locks!Holder
    <3>3. KeyHolders'[k] = KeyHolders[k]
      BY <1>1, <2>6, <3>1, <3>2
    <3> QED BY <2>2, <3>3, KeysEnd
  <2> QED BY <2>3, <2>4, <2>5, <2>6
<1>7. ASSUME NEW S \in SUBSET Keys, Swept(S) PROVE Locks!Exclusive!Next
  <2>1. \A k \in Keys : keyedLease'[k] = None \/ keyedLease'[k] = keyedLease[k]
    BY <1>7 DEF Swept, Locks!Without
  <2> QED BY <1>3, <1>4, <2>1, KeysEnd
<1>8. ASSUME NEW t \in Threads, NEW k \in Keys, Renewed(t, k) PROVE Locks!Exclusive!Next
  <2>1. /\ \A j \in Keys \ {k} : keyedLease'[j] = keyedLease[j]
        /\ keyedLease'[k].by = t /\ keyedLease[k].by = t /\ Open(k)
    BY <1>8 DEF Renewed, LocksTyped, Locks!Owns, Open
  <2>2. KeyHolders[k] = HolderOf[t] /\ KeyHolders'[k] \in {HolderOf[t], None}
    BY <1>1, <1>2, <2>1
  <2>3. \A j \in Keys : KeyHolders'[j] \in {KeyHolders[j], None}
    BY <1>3, <2>1, <2>2
  <2> QED BY <2>3, KeysEnd
<1>9. ASSUME NEW k \in Keys, (\E t \in Threads : Locks!Release(t, k)) \/ Locks!ForceRelease(k)
      PROVE  Locks!Exclusive!Next
  <2>1. \A j \in Keys : keyedLease'[j] = None \/ keyedLease'[j] = keyedLease[j]
    BY <1>9 DEF Locks!Release, Locks!ForceRelease, Locks!Without
  <2> QED BY <1>3, <1>4, <2>1, KeysEnd
<1>10. ASSUME NEW j \in Keys, NEW k \in Keys, Locks!DeclareRivals(j[1], k[1])
       PROVE  Locks!Exclusive!Next
  <2>1. keyedLease' = keyedLease
    BY <1>10 DEF Locks!DeclareRivals
  <2> QED BY <1>3, <2>1, KeysEnd
<1>11. CASE Locks!Tick
  <2> SUFFICES ASSUME NEW k \in Keys PROVE KeyHolders'[k] \in {KeyHolders[k], None}
    BY KeysEnd
  <2>1. CASE keyedLease[k] = None
    BY <1>4, <1>11, <2>1, TickFacts
  <2>2. CASE keyedLease[k] # None
    <3>1. /\ keyedLease'[k].by = keyedLease[k].by /\ keyedLease'[k].left <= keyedLease[k].left
          /\ keyedLease'[k].left \in Int /\ keyedLease[k].left \in Int
      BY <1>11, <2>2, TickFacts DEF LocksTyped
    <3>2. Open(k)' => Open(k)
      BY <2>2, <3>1 DEF Open, GoneKeys, Locks!Gone
    <3> QED BY <1>1, <1>2, <3>1, <3>2
  <2> QED BY <2>1, <2>2
<1> QED BY <1>6, <1>7, <1>8, <1>9, <1>10, <1>11 DEF LocksCase

SectionHolder == [s \in {"section"} |-> IF Section!Live THEN row.by ELSE None]

LEMMA SectionEnd ==
  ASSUME Section!Live' => Section!Live /\ row'.by = row.by
  PROVE  Section!Exclusive!Next
<1> DEFINE S == IF Section!Live' THEN {} ELSE {"section"}
<1>1. SectionHolder' = [r \in {"section"} |-> IF r \in S THEN None ELSE SectionHolder[r]]
  BY DEF SectionHolder
<1>2. Section!Exclusive!End(S) /\ S \in SUBSET {"section"}
  BY <1>1 DEF Section!Exclusive!End, SectionHolder
<1> QED BY <1>2 DEF Section!Exclusive!Next

LEMMA SectionLeaseStep == SectionTyped /\ Section!Next => Section!Exclusive!Next
<1> SUFFICES ASSUME SectionTyped, Section!Next PROVE Section!Exclusive!Next
  OBVIOUS
<1>1. ASSUME row' = row \/ row' = None PROVE Section!Exclusive!Next
  BY <1>1, SectionEnd DEF Section!Live
<1>2. ASSUME NEW p \in Procs, Section!InsertRow(p) PROVE Section!Exclusive!Next
  <2>1. CASE row = None \/ Section!Purges(p)
    <3>1. ~Section!Live
      BY <2>1 DEF Section!Live, Section!Purges, SectionTyped
    <3>2. row'.by = p
      BY <1>2, <2>1 DEF Section!InsertRow
    <3>3. CASE Section!Live'
      <4>1. SectionHolder["section"] = None /\ SectionHolder' = [SectionHolder EXCEPT !["section"] = p]
        BY <3>1, <3>2, <3>3 DEF SectionHolder
      <4>2. Section!Exclusive!Grant("section", p)
        BY <4>1 DEF Section!Exclusive!Grant, SectionHolder
      <4> QED BY <4>2 DEF Section!Exclusive!Next
    <3>4. CASE ~Section!Live'
      BY <3>4, SectionEnd
    <3> QED BY <3>3, <3>4
  <2>2. CASE ~(row = None \/ Section!Purges(p))
    BY <1>1, <1>2, <2>2 DEF Section!InsertRow
  <2> QED BY <2>1, <2>2
<1>3. ASSUME NEW p \in Procs, Section!Ask(p) \/ Section!CheckRefractory(p) \/ Section!ForceSelect(p)
                              \/ Section!ForceDelete(p)
      PROVE  Section!Exclusive!Next
  BY <1>1, <1>3 DEF Section!Ask, Section!CheckRefractory, Section!ForceSelect, Section!ForceDelete,
    Section!lockVars
<1>4. ASSUME NEW p \in Procs, NEW a \in 0..SectionMaxAge, Section!Release(p, a)
      PROVE  Section!Exclusive!Next
  BY <1>1, <1>4 DEF Section!Release
<1>5. ASSUME NEW a \in 0..SectionMaxAge, Section!Status(a) PROVE Section!Exclusive!Next
  BY <1>1, <1>5 DEF Section!Status
<1>6. CASE Section!Replay
  BY <1>1, <1>6 DEF Section!Replay, Section!MarkUsed, Section!AnchorWrite, Section!AnchorRead,
    Section!IsUsed, Section!Append, Section!lockVars
<1>7. CASE Section!Tick
  <2>1. row # None => row'.by = row.by /\ row'.left <= row.left
    BY <1>7 DEF Section!Tick, Section!Down, SectionTyped
  <2>2. row = None => row' = None
    BY <1>7 DEF Section!Tick
  <2>3. row # None => row'.left \in Int /\ row.left \in Int
    BY <1>7 DEF Section!Tick, Section!Down, SectionTyped
  <2> QED BY <2>1, <2>2, <2>3, SectionEnd DEF Section!Live
<1> QED BY <1>2, <1>3, <1>4, <1>5, <1>6, <1>7 DEF Section!Next, Section!Section

\* Nobody but its holder or time frees a room.
LEMMA RoomFreed ==
  RoomInv /\ Room!Next /\ roomRecord.holder # None /\ roomRecord'.holder # roomRecord.holder
    => \/ roomRecord.state = "reserved" /\ roomRecord.left <= 0
       \/ Room!Release(roomRecord.holder)
<1> SUFFICES ASSUME RoomInv, Room!Next, roomRecord.holder # None,
                    roomRecord'.holder # roomRecord.holder,
                    ~(roomRecord.state = "reserved" /\ roomRecord.left <= 0)
             PROVE  Room!Release(roomRecord.holder)
  OBVIOUS
<1>1. Room!Current = roomRecord
  BY DEF Room!Current, Room!ExpireIfNeeded
<1>2. Room!Conflict(roomRecord).holder = roomRecord.holder
  BY DEF Room!Conflict, RoomInv
<1>3. ASSUME NEW c \in Channels, Room!Reserve(c) \/ Room!Book(c) PROVE FALSE
  <2>1. CASE Room!OpenTo(roomRecord, c)
    BY <1>1, <1>3, <2>1 DEF Room!Reserve, Room!Book, Room!OpenTo
  <2>2. CASE ~Room!OpenTo(roomRecord, c)
    BY <1>1, <1>2, <1>3, <2>2 DEF Room!Reserve, Room!Book
  <2> QED BY <2>1, <2>2
<1>4. ASSUME NEW c \in Channels, Room!Release(c) PROVE c = roomRecord.holder
  BY <1>1, <1>4 DEF Room!Release
<1>5. ~Room!Look /\ ~Room!Tick
  BY <1>1 DEF Room!Look, Room!Tick, RoomInv
<1> QED BY <1>3, <1>4, <1>5 DEF Room!Next

\* A section is granted to who found it calm, or was overtaken by a release.
LEMMA GrantedCalm ==
  SectionInv /\ Section!Next =>
    \A p \in Procs : p \notin token /\ p \in token' => p \in late \/ calm - age[p] >= Refractory
<1> SUFFICES ASSUME SectionInv, Section!Next, NEW p \in Procs, p \notin token, p \in token'
             PROVE  p \in late \/ calm - age[p] >= Refractory
  OBVIOUS
<1>1. ASSUME NEW q \in Procs, Section!InsertRow(q) PROVE q = p /\ sectionPc[p] = "clear"
  BY <1>1 DEF Section!InsertRow
<1>2. \E q \in Procs : Section!InsertRow(q)
  BY DEF Section!Next, Section!Section, Section!Replay, Section!Tick, Section!Ask,
    Section!CheckRefractory, Section!ForceSelect, Section!ForceDelete, Section!Release,
    Section!Status, Section!MarkUsed, Section!AnchorWrite, Section!AnchorRead, Section!IsUsed,
    Section!Append, Section!lockVars
<1> QED BY <1>1, <1>2 DEF SectionInv, CheckedIsCalm

LEMMA LeasesStep ==
  IInv /\ [Next]_vars =>
    /\ [Locks!Exclusive!Next]_KeyHolders
    /\ [Section!Exclusive!Next]_SectionHolder
    /\ [roomRecord.holder # None /\ roomRecord'.holder # roomRecord.holder =>
          \/ roomRecord.state = "reserved" /\ roomRecord.left <= 0
          \/ Room!Release(roomRecord.holder)]_(Room!vars)
    /\ [\A p \in Procs : p \notin token /\ p \in token' =>
          p \in late \/ calm - age[p] >= Refractory]_(Section!vars)
<1> SUFFICES ASSUME IInv, [Next]_vars
             PROVE  /\ [Locks!Exclusive!Next]_KeyHolders
                    /\ [Section!Exclusive!Next]_SectionHolder
                    /\ [roomRecord.holder # None /\ roomRecord'.holder # roomRecord.holder =>
                          \/ roomRecord.state = "reserved" /\ roomRecord.left <= 0
                          \/ Room!Release(roomRecord.holder)]_(Room!vars)
                    /\ [\A p \in Procs : p \notin token /\ p \in token' =>
                          p \in late \/ calm - age[p] >= Refractory]_(Section!vars)
  OBVIOUS
<1>1. [Locks!Exclusive!Next]_KeyHolders
  <2>1. CASE engine' = engine /\ Locks!Next
    BY <2>1, LocksCases, KeysStep DEF IInv, LocksInv
  <2>2. CASE UNCHANGED <<engine, locksVars>>
    <3>1. KeyHolders' = KeyHolders
      BY <2>2 DEF locksVars, KeyHolders, Locks!Live, Locks!Gone, Locks!Holder
    <3> QED BY <3>1
  <2> QED BY <2>1, <2>2 DEF Next, vars
<1>2. [Section!Exclusive!Next]_SectionHolder
  <2>1. CASE Section!Next
    BY <2>1, SectionLeaseStep DEF IInv, SectionInv
  <2>2. CASE UNCHANGED sectionVars
    <3>1. SectionHolder' = SectionHolder
      BY <2>2 DEF sectionVars, SectionHolder, Section!Live
    <3> QED BY <3>1
  <2> QED BY <2>1, <2>2 DEF Next, vars
<1>3. [roomRecord.holder # None /\ roomRecord'.holder # roomRecord.holder =>
          \/ roomRecord.state = "reserved" /\ roomRecord.left <= 0
          \/ Room!Release(roomRecord.holder)]_(Room!vars)
  BY RoomFreed DEF IInv, Next, vars, roomVars, Room!vars
<1>4. [\A p \in Procs : p \notin token /\ p \in token' =>
          p \in late \/ calm - age[p] >= Refractory]_(Section!vars)
  BY GrantedCalm DEF IInv, Next, vars, sectionVars, Section!vars
<1> QED BY <1>1, <1>2, <1>3, <1>4

LEMMA LeasesInit == Init => Locks!Exclusive!Init /\ Section!Exclusive!Init
  BY DEF Init, Locks!Start, Section!Start, Locks!Exclusive!Init, Section!Exclusive!Init, Locks!Live,
    Section!Live

\* Every lock manager and the section lock implement ExclusiveLease, a room is freed by
\* its holder or by time, and a section rests before it is granted anew.
THEOREM LocksImplementLease == Spec => ImplementLease
  BY Invariance, LeasesInit, LeasesStep, PTL
  DEF Spec, ImplementLease, Locks!Exclusive!Spec, Section!Exclusive!Spec, Room!FreedByHolder,
    Section!CalmBeforeGrant, KeyHolders, SectionHolder

=============================================================================
