---------------------- MODULE DurableStateMachine_proofs ----------------------
(***************************************************************************)
(* For any number of processes, events and crashes: the directory lock     *)
(* keeps the transitions of a workflow apart, as long as no stale lock is  *)
(* claimed under a transition that is still at work; the events are        *)
(* numbered without gaps or duplicates; and the run rebuilt from a         *)
(* snapshot is the one rebuilt from the whole log, with the events of      *)
(* every transition that returned.                                         *)
(***************************************************************************)
EXTENDS DurableStateMachine, FiniteSetTheorems, SequenceTheorems,
        WellFoundedInduction, TLAPS

-----------------------------------------------------------------------------
(* The lock *)

\* While nothing overlapped, the process inside owns a directory: this is what
\* makes the next mkdir fail, and what the removal on release may rely on.
HolderHasLock == \A p \in Procs : InCritical(p) => lock # "free"

IInv ==
  /\ DOMAIN pc = Procs /\ pc = [p \in Procs |-> pc[p]]
  /\ "overlap" \notin damage =>
       /\ \A p, q \in Procs : InCritical(p) /\ InCritical(q) => p = q
       /\ HolderHasLock

LEMMA InitIInv == Init => IInv
BY DEF Init, IInv, HolderHasLock, InCritical, CriticalPcs

\* A step of a process that neither enters nor touches the lock.
LEMMA StayPut ==
  ASSUME IInv, NEW p \in Procs, NEW l, Goto(p, l), UNCHANGED lock,
         damage \subseteq damage', InCritical(p) \/ l \notin CriticalPcs
  PROVE  IInv'
BY DEF IInv, HolderHasLock, InCritical, Goto

\* mkdir: whoever makes the directory finds nobody inside.
LEMMA Entering ==
  ASSUME IInv, NEW p \in Procs, Goto(p, "read"), lock = "free", lock' = "fresh",
         damage \subseteq damage'
  PROVE  IInv'
BY DEF IInv, HolderHasLock, InCritical, Goto, CriticalPcs

\* Leaving removes the directory, and nobody else is inside to miss it.
LEMMA Leaving ==
  ASSUME IInv, NEW p \in Procs, Goto(p, "idle"), InCritical(p), damage \subseteq damage'
  PROVE  IInv'
BY DEF IInv, HolderHasLock, InCritical, Goto, CriticalPcs

\* A claim either finds nobody else inside, or is recorded as an overlap.
LEMMA Claiming ==
  ASSUME IInv, NEW p \in Procs, Claim(p)
  PROVE  IInv'
<1>1. CASE lock = "free"
  <2>1. Goto(p, "idle") /\ UNCHANGED <<lock, damage>>
    BY <1>1 DEF Claim
  <2>2. "idle" \notin CriticalPcs
    BY DEF CriticalPcs
  <2> QED BY <2>1, <2>2, StayPut
<1>2. CASE lock # "free"
  <2>1. Goto(p, "read") /\ lock' = "fresh" /\ damage' = damage \cup Overlap(p)
    BY <1>2 DEF Claim
  <2>2. "overlap" \notin damage' =>
          "overlap" \notin damage /\ \A q \in Procs \ {p} : ~InCritical(q)
    BY <2>1 DEF Overlap
  <2>3. \A q \in Procs \ {p} : InCritical(q)' <=> InCritical(q)
    BY <2>1 DEF IInv, InCritical, Goto
  <2>4. "overlap" \notin damage' => \A q \in Procs \ {p} : ~InCritical(q)'
    BY <2>2, <2>3
  <2>5. pc' = [pc EXCEPT ![p] = "read"]
    BY <2>1 DEF Goto
  <2>6. HolderHasLock'
    BY <2>1 DEF HolderHasLock
  <2> QED BY <2>4, <2>5, <2>6 DEF IInv
<1> QED BY <1>1, <1>2

LEMMA AppendLineKeepsDamage ==
  ASSUME NEW s, NEW other, AppendLine(s, other) \/ AppendTears(s, other)
  PROVE  damage \subseteq damage'
BY DEF AppendLine, AppendTears

LEMMA NextIInv == IInv /\ [Next]_vars => IInv'
<1> SUFFICES ASSUME IInv, [Next]_vars PROVE IInv'
  OBVIOUS
<1>p. ASSUME NEW p \in Procs,
             \/ StartBegin(p) \/ Acquire(p) \/ SnapshotBegin(p) \/ Step(p) \/ Crash(p)
      PROVE  IInv'
  <2>1. CASE StartBegin(p)
    BY <2>1, StayPut DEF StartBegin, CriticalPcs
  <2>2. CASE StartAppend(p)
    BY <2>2, StayPut, AppendLineKeepsDamage DEF StartAppend, CriticalPcs
  <2>3. CASE Acquire(p)
    <3>1. CASE lock = "free"
      BY <2>3, <3>1, Entering DEF Acquire, MkdirSucceeds
    <3>2. CASE lock # "free"
      <4>1. Goto(p, "stat") /\ UNCHANGED lock /\ damage \subseteq damage'
        BY <2>3, <3>2 DEF Acquire, MkdirSucceeds
      <4> QED BY <4>1, StayPut DEF CriticalPcs
    <3> QED BY <3>1, <3>2
  <2>4. CASE Stat(p)
    <3>1. PICK l \in {"mkdir again", "claim", "idle"} : Goto(p, l)
      BY <2>4 DEF Stat
    <3>2. UNCHANGED lock /\ damage \subseteq damage' /\ l \notin CriticalPcs
      BY <2>4 DEF Stat, CriticalPcs
    <3> QED BY <3>1, <3>2, StayPut
  <2>5. CASE MkdirAgain(p)
    <3>1. CASE lock = "free"
      BY <2>5, <3>1, Entering DEF MkdirAgain
    <3>2. CASE lock # "free"
      <4>1. Goto(p, "idle") /\ UNCHANGED lock /\ damage \subseteq damage'
        BY <2>5, <3>2 DEF MkdirAgain
      <4> QED BY <4>1, StayPut DEF CriticalPcs
    <3> QED BY <3>1, <3>2
  <2>6. CASE Claim(p)
    BY <2>6, Claiming
  <2>7. CASE ReadNext(p)
    BY <2>7, StayPut DEF ReadNext, InCritical, CriticalPcs
  <2>8. CASE AppendEvent(p)
    <3>1. PICK l \in {"snapshot", "return"} : Goto(p, l)
      BY <2>8 DEF AppendEvent
    <3>2. UNCHANGED lock /\ damage \subseteq damage' /\ InCritical(p)
      BY <2>8, AppendLineKeepsDamage DEF AppendEvent, InCritical, CriticalPcs
    <3> QED BY <3>1, <3>2, StayPut
  <2>9. CASE AppendFails(p)
    BY <2>9, StayPut, AppendLineKeepsDamage DEF AppendFails, InCritical, CriticalPcs
  <2>10. CASE TakeRun(p)
    BY <2>10, StayPut DEF TakeRun, InCritical, CriticalPcs
  <2>11. CASE AutoSnapshot(p)
    BY <2>11, StayPut DEF AutoSnapshot, InCritical, CriticalPcs
  <2>12. CASE Return(p) \/ Release(p)
    BY <2>12, Leaving DEF Return, Release, Ends, InCritical, CriticalPcs
  <2>13. CASE SnapshotBegin(p)
    BY <2>13, StayPut DEF SnapshotBegin, CriticalPcs
  <2>14. CASE SnapshotEnd(p)
    BY <2>14, StayPut DEF SnapshotEnd, Ends, CriticalPcs
  <2>15. CASE Crash(p)
    BY <2>15, StayPut DEF Crash, Ends, CriticalPcs
  <2>16. CASE Raises(p)
    BY <2>16, StayPut DEF Raises, InCritical, CriticalPcs
  <2> QED
    BY <1>p, <2>1, <2>2, <2>3, <2>4, <2>5, <2>6, <2>7, <2>8, <2>9, <2>10,
       <2>11, <2>12, <2>13, <2>14, <2>15, <2>16 DEF Step
<1>1. CASE Age
  BY <1>1 DEF Age, locals, IInv, HolderHasLock, InCritical
<1>2. CASE UNCHANGED vars
  BY <1>2 DEF vars, locals, IInv, HolderHasLock, InCritical
<1> QED BY <1>p, <1>1, <1>2 DEF Next

LEMMA Invariance == Spec => []IInv
BY InitIInv, NextIInv, PTL DEF Spec

\* Two processes are inside a transition at once only after a stale lock was
\* claimed while somebody was inside.
THEOREM TransitionsExclude == Spec => []Exclusion
<1>1. IInv => Exclusion
  BY DEF IInv, Exclusion
<1> QED BY Invariance, <1>1, PTL

\* Under the same reservation, a process inside a transition still has its
\* directory: nobody's release has removed the lock of somebody else.
THEOREM LockStaysWithHolder == Spec => []("overlap" \notin damage => HolderHasLock)
<1>1. IInv => ("overlap" \notin damage => HolderHasLock)
  BY DEF IInv
<1> QED BY Invariance, <1>1, PTL

-----------------------------------------------------------------------------
(* Sets of numbers *)

LEMMA LessIsWellFounded == IsWellFoundedOn({ss \in Nat \X Nat : ss[1] < ss[2]}, Nat)
BY NatLessThanWellFounded, Zenon DEF OpToRel

\* A set of naturals that is not empty has a least element.
LEMMA Least ==
  ASSUME NEW T, T \subseteq Nat, T # {}
  PROVE  \E x \in T : \A y \in T : x <= y
<1> DEFINE R == {ss \in Nat \X Nat : ss[1] < ss[2]}
<1>1. IsWellFoundedOn(R, Nat)
  BY LessIsWellFounded
<1>2. \A x, y \in T : <<y, x>> \notin R => x <= y
  OBVIOUS
<1> HIDE DEF R
<1>3. \E x \in T : \A y \in T : ~ (<<y, x>> \in R)
  BY <1>1, WFMin, Zenon
<1> QED BY <1>2, <1>3

\* And a greatest one, if it is bounded.
LEMMA Greatest ==
  ASSUME NEW T, T \subseteq Nat, T # {}, NEW b \in Nat, \A x \in T : x <= b
  PROVE  \E x \in T : \A y \in T : y <= x
<1> DEFINE U == {b - x : x \in T}
<1>1. U \subseteq Nat /\ U # {}
  <2>1. \A x \in T : b - x \in Nat
    OBVIOUS
  <2> QED BY <2>1
<1>2. PICK u \in U : \A v \in U : u <= v
  BY <1>1, Least
<1>3. PICK x \in T : u = b - x
  OBVIOUS
<1>4. \A y \in T : u <= b - y
  BY <1>2
<1>5. \A y \in T : y <= x
  BY <1>3, <1>4
<1> QED BY <1>5

\* InOrder returns members of the set.
LEMMA InOrderTyped ==
  ASSUME NEW S, S \subseteq Nat, NEW b \in Nat, \A x \in S : x <= b
  PROVE  /\ IsFiniteSet(S) /\ Cardinality(S) \in Nat
         /\ InOrder(S) \in [1..Cardinality(S) -> S]
<1>1. IsFiniteSet(S) /\ Cardinality(S) \in Nat
  BY FS_BoundedSetOfNaturals, FS_CardinalityType
<1> DEFINE Upto(k) == {j \in S : j <= k}
           Rank(k) == Cardinality(Upto(k))
<1>2. \A k : Rank(k) \in Nat /\ IsFiniteSet(Upto(k))
  <2> TAKE k
  <2>1. Upto(k) \in SUBSET S
    OBVIOUS
  <2> QED BY <1>1, <2>1, FS_Subset, FS_CardinalityType
<1>3. ASSUME NEW i \in 1..Cardinality(S)
      PROVE  \E k \in S : Rank(k) = i
  <2> DEFINE T == {k \in Nat : Rank(k) >= i}
  <2>1. b \in T
    <3>1. Upto(b) = S
      OBVIOUS
    <3> QED BY <1>1, <3>1
  <2>2. PICK k \in T : \A m \in T : k <= m
    BY <2>1, Least
  <2>3. k \in Nat /\ Rank(k) >= i /\ \A m \in Nat : Rank(m) >= i => k <= m
    BY <2>2
  <2>4. ASSUME k \notin S PROVE FALSE
    <3>1. CASE k = 0
      <4>1. Upto(k) = {}
        <5>1. \A j \in S : ~(j <= k)
          BY <2>4, <3>1
        <5> QED BY <5>1
      <4>2. Rank(k) = 0
        BY <4>1, FS_EmptySet
      <4> HIDE DEF Rank
      <4> QED BY <2>3, <4>2
    <3>2. CASE k # 0
      <4>1. k - 1 \in Nat
        BY <2>3, <3>2
      <4>2. Upto(k) = Upto(k - 1)
        <5>1. \A j \in S : j <= k <=> j <= k - 1
          BY <2>3, <2>4, <4>1
        <5> QED BY <5>1
      <4>3. Rank(k - 1) >= i
        BY <2>3, <4>2
      <4> HIDE DEF Rank
      <4> QED BY <2>3, <4>1, <4>3
    <3> QED BY <3>1, <3>2
  <2>5. Rank(k) <= i
    <3>1. Upto(k) = Upto(k - 1) \cup {k} /\ k \notin Upto(k - 1)
      <4>1. \A j \in S : j <= k <=> (j <= k - 1 \/ j = k)
        BY <2>3
      <4>2. ~(k <= k - 1)
        BY <2>3
      <4> QED BY <2>4, <4>1, <4>2
    <3>2. IsFiniteSet(Upto(k - 1)) /\ Rank(k - 1) \in Nat
      BY <1>2
    <3>3. Cardinality(Upto(k)) = Cardinality(Upto(k - 1)) + 1
      <4> HIDE DEF Upto, Rank
      <4>1. Cardinality(Upto(k - 1) \cup {k}) = Cardinality(Upto(k - 1)) + 1
        BY <3>1, <3>2, FS_AddElement
      <4> QED BY <3>1, <4>1
    <3>4. Rank(k) = Rank(k - 1) + 1
      BY <3>3
    <3>5. Rank(k - 1) < i
      <4>1. CASE k = 0
        <5>1. Upto(k - 1) = {}
          <6>1. \A j \in S : ~(j <= k - 1)
            BY <4>1
          <6> QED BY <6>1
        <5>2. Rank(k - 1) = 0
          BY <5>1, FS_EmptySet
        <5> HIDE DEF Rank
        <5> QED BY <5>2
      <4>2. CASE k # 0
        <5>1. k - 1 \in Nat /\ ~(k <= k - 1)
          BY <2>3, <4>2
        <5>2. ~(Rank(k - 1) >= i)
          BY <2>3, <5>1
        <5> HIDE DEF Rank
        <5> QED BY <3>2, <5>2
      <4> QED BY <4>1, <4>2
    <3> HIDE DEF Rank
    <3> QED BY <3>2, <3>4, <3>5
  <2>6. Rank(k) = i
    <3>1. Rank(k) \in Nat
      BY <1>2
    <3> HIDE DEF Rank
    <3> QED BY <2>3, <2>5, <3>1
  <2> QED BY <2>4, <2>6
<1>4. InOrder(S) = [i \in 1..Cardinality(S) |-> CHOOSE k \in S : Rank(k) = i]
  BY DEF InOrder
<1> HIDE DEF Rank
<1>5. \A i \in 1..Cardinality(S) : (CHOOSE k \in S : Rank(k) = i) \in S
  BY <1>3
<1>6. InOrder(S) \in [1..Cardinality(S) -> S]
  BY <1>4, <1>5
<1> QED BY <1>1, <1>6

\* And of the numbers from a + 1 to n, all of them in their order.
LEMMA InOrderInterval ==
  ASSUME NEW a \in Nat, NEW n \in Nat, a <= n
  PROVE  InOrder((a + 1)..n) = [i \in 1..(n - a) |-> a + i]
<1> DEFINE S == (a + 1)..n
           Upto(k) == {j \in S : j <= k}
<1>1. Cardinality(S) = n - a
  <2>1. Cardinality(S) = IF a + 1 > n THEN 0 ELSE n - (a + 1) + 1
    BY FS_Interval
  <2> QED BY <2>1
<1>2. \A k \in S : Cardinality(Upto(k)) = k - a
  <2> TAKE k \in S
  <2>1. Upto(k) = (a + 1)..k
    OBVIOUS
  <2>2. Cardinality((a + 1)..k) = IF a + 1 > k THEN 0 ELSE k - (a + 1) + 1
    BY FS_Interval
  <2>3. k \in Nat /\ a + 1 <= k
    OBVIOUS
  <2>4. Cardinality((a + 1)..k) = k - a
    BY <2>2, <2>3
  <2> HIDE DEF Upto
  <2> QED BY <2>1, <2>4
<1>3. InOrder(S) = [i \in 1..Cardinality(S) |-> CHOOSE k \in S : Cardinality(Upto(k)) = i]
  BY DEF InOrder
<1>4. ASSUME NEW i \in 1..(n - a)
      PROVE  (CHOOSE k \in S : Cardinality(Upto(k)) = i) = a + i
  <2>1. a + i \in S /\ \A k \in S : Cardinality(Upto(k)) = i <=> k = a + i
    BY <1>2
  <2> HIDE DEF S, Upto
  <2> QED BY <2>1
<1> HIDE DEF S, Upto
<1>5. InOrder(S) = [i \in 1..(n - a) |-> a + i]
  BY <1>1, <1>3, <1>4
<1> QED BY <1>5 DEF S

-----------------------------------------------------------------------------
(* Reading the log *)

LEMMA Widen ==
  ASSUME NEW m \in Nat, NEW n \in Nat, m <= n
  PROVE  \A k \in 1..(m + 1) : k \in 1..(n + 1)
OBVIOUS

LEMMA FcnIsSeq ==
  ASSUME NEW S, NEW n \in Nat, NEW f \in [1..n -> S]
  PROVE  f \in Seq(S) /\ Len(f) = n
<1>1. f \in Seq(S)
  BY SeqDef
<1>2. DOMAIN f = 1..n /\ DOMAIN f = 1..Len(f) /\ Len(f) \in Nat
  BY <1>1, LenProperties
<1> QED BY <1>1, <1>2

LEMMA LineTyped ==
  ASSUME NEW l \in Seq(Event), NEW i \in DOMAIN l
  PROVE  l[i] \in Event /\ l[i].seq \in 1..(MaxEvents + 1) /\ l[i].id \in Ids
<1>1. l[i] \in Event
  BY ElementOfSeq
<1> QED BY <1>1 DEF Event

LEMMA FrontTyped ==
  ASSUME NEW l \in Seq(Event)
  PROVE  /\ Front(l) \in Seq(Event)
         /\ \A i \in DOMAIN Front(l) : i \in DOMAIN l /\ Front(l)[i] = l[i]
         /\ l # <<>> => Len(Front(l)) = Len(l) - 1
<1> DEFINE n == Len(l) - 1
<1>1. Len(l) \in Nat /\ DOMAIN l = 1..Len(l) /\ n \in Int /\ (l # <<>> => Len(l) # 0)
  BY LenProperties, EmptySeq
<1>2. \A i \in 1..n : l[i] \in Event
  BY <1>1, ElementOfSeq
<1>3. Front(l) = SubSeq(l, 1, n)
  BY DEF Front
<1> HIDE DEF n
<1>4. /\ Front(l) \in Seq(Event) /\ Len(Front(l)) = IF 1 <= n THEN n - 1 + 1 ELSE 0
      /\ \A i \in 1..(n - 1 + 1) : Front(l)[i] = l[1 + i - 1]
  BY <1>1, <1>2, <1>3, SubSeqProperties
<1>5. n < 1 => DOMAIN Front(l) = {}
  BY <1>1, <1>4
<1>6. n >= 1 => DOMAIN Front(l) = 1..n
  BY <1>1, <1>4
<1>7. n = Len(l) - 1
  BY DEF n
<1>8. \A i \in 1..n : i \in DOMAIN l /\ i \in 1..(n - 1 + 1) /\ 1 + i - 1 = i
  BY <1>1, <1>7
<1>9. \A i \in 1..n : i \in DOMAIN l /\ Front(l)[i] = l[i]
  BY <1>4, <1>8
<1>10. l # <<>> => Len(Front(l)) = Len(l) - 1
  <2> SUFFICES ASSUME l # <<>> PROVE Len(Front(l)) = Len(l) - 1
    OBVIOUS
  <2>1. n \in Nat
    BY <1>1, <1>7
  <2>2. n >= 1 => Len(Front(l)) = n
    BY <1>1, <1>4
  <2>3. n = 0 => Len(Front(l)) = n
    BY <1>4
  <2> QED BY <1>7, <2>1, <2>2, <2>3
<1>11. \A i \in DOMAIN Front(l) : i \in 1..n
  BY <1>1, <1>5, <1>6
<1> QED BY <1>4, <1>9, <1>10, <1>11

LEMMA SeqsOfTyped ==
  ASSUME NEW l \in Seq(Event)
  PROVE  SeqsOf(l) \subseteq Nat /\ \A k \in SeqsOf(l) : k <= MaxEvents + 1
<1>1. \A i \in DOMAIN l : l[i].seq \in Nat /\ l[i].seq <= MaxEvents + 1
  BY LineTyped, BoundsAssumption
<1> QED BY <1>1 DEF SeqsOf

\* The CHOOSE of FirstId finds the first line of a number.
LEMMA FirstIndex ==
  ASSUME NEW l \in Seq(Event), NEW k \in SeqsOf(l)
  PROVE  \E i \in DOMAIN l : /\ l[i].seq = k /\ FirstId(l, k) = l[i].id
                            /\ \A j \in 1..(i - 1) : l[j].seq # k
<1> DEFINE T == {i \in DOMAIN l : l[i].seq = k}
           First(i) == l[i].seq = k /\ \A j \in 1..(i - 1) : l[j].seq # k
<1>1. T \subseteq Nat /\ T # {} /\ DOMAIN l = 1..Len(l) /\ Len(l) \in Nat
  BY DEF SeqsOf
<1>2. PICK x \in T : \A y \in T : x <= y
  BY <1>1, Least
<1>3. x \in DOMAIN l /\ First(x)
  BY <1>1, <1>2
<1>4. \E i \in DOMAIN l : First(i)
  BY <1>3
<1>5. FirstId(l, k) = l[CHOOSE i \in DOMAIN l : First(i)].id
  BY DEF FirstId
<1> DEFINE f == CHOOSE i \in DOMAIN l : First(i)
<1>6. f \in DOMAIN l /\ First(f)
  <2> HIDE DEF First
  <2> QED BY <1>4
<1>7. FirstId(l, k) = l[f].id
  BY <1>5
<1> HIDE DEF f
<1> QED BY <1>6, <1>7

\* There is only one first line.
LEMMA FirstIdIs ==
  ASSUME NEW l \in Seq(Event), NEW i \in DOMAIN l,
         \A j \in 1..(i - 1) : l[j].seq # l[i].seq
  PROVE  FirstId(l, l[i].seq) = l[i].id
<1>1. l[i].seq \in SeqsOf(l)
  BY DEF SeqsOf
<1>2. PICK m \in DOMAIN l : /\ l[m].seq = l[i].seq /\ FirstId(l, l[i].seq) = l[m].id
                            /\ \A j \in 1..(m - 1) : l[j].seq # l[i].seq
  BY <1>1, FirstIndex
<1>3. m \in 1..Len(l) /\ i \in 1..Len(l) /\ Len(l) \in Nat
  OBVIOUS
<1>4. m = i
  BY <1>2, <1>3
<1> QED BY <1>2, <1>4

\* A line that is appended does not change what the others say.
LEMMA FirstIdAppend ==
  ASSUME NEW l \in Seq(Event), NEW e \in Event, NEW k \in SeqsOf(l)
  PROVE  FirstId(Append(l, e), k) = FirstId(l, k)
<1>1. PICK i \in DOMAIN l : /\ l[i].seq = k /\ FirstId(l, k) = l[i].id
                            /\ \A j \in 1..(i - 1) : l[j].seq # k
  BY FirstIndex
<1> DEFINE a == Append(l, e)
<1>2. /\ a \in Seq(Event) /\ i \in DOMAIN a /\ \A j \in 1..i : a[j] = l[j]
      /\ i \in 1..Len(l)
  BY AppendProperties
<1> HIDE DEF a
<1>3. a[i].seq = k /\ a[i].id = l[i].id /\ \A j \in 1..(i - 1) : a[j].seq # a[i].seq
  BY <1>1, <1>2
<1>4. FirstId(a, a[i].seq) = a[i].id
  BY <1>2, <1>3, FirstIdIs
<1> QED BY <1>1, <1>3, <1>4 DEF a

\* A rebuilt run is a sequence of ids of the log.
LEMMA ReplayTyped ==
  ASSUME NEW l \in Seq(Event), NEW base \in Seq(Ids)
  PROVE  Replay(base, l) \in Seq(Ids)
<1> DEFINE S == {k \in SeqsOf(l) : IsNewer(k, base)}
           c == Cardinality(S)
           ids == [i \in DOMAIN InOrder(S) |-> FirstId(l, InOrder(S)[i])]
<1>1. S \subseteq Nat /\ \A k \in S : k <= MaxEvents + 1
  BY SeqsOfTyped
<1>2. c \in Nat /\ InOrder(S) \in [1..c -> S]
  <2>1. MaxEvents + 1 \in Nat
    BY BoundsAssumption
  <2> HIDE DEF S
  <2> QED BY <1>1, <2>1, InOrderTyped
<1>3. \A k \in S : FirstId(l, k) \in Ids
  BY FirstIndex, LineTyped
<1>4. ids \in [1..c -> Ids]
  BY <1>2, <1>3
<1>5. ids \in Seq(Ids)
  BY <1>2, <1>4, FcnIsSeq
<1>6. Replay(base, l) = base \o ids
  BY DEF Replay
<1> HIDE DEF ids
<1> QED BY <1>5, <1>6, ConcatProperties

\* Of a log without gaps the run has one id for each number, whatever run the
\* snapshot holds, as long as that one agrees with the log.
Agrees(base, l) ==
  \A k \in 1..Len(base) : k \in SeqsOf(l) /\ base[k] = FirstId(l, k)

LEMMA ReplayIs ==
  ASSUME NEW l \in Seq(Event), NEW n \in Nat, SeqsOf(l) = 1..n,
         NEW base \in Seq(Ids), Agrees(base, l)
  PROVE  Replay(base, l) = [k \in 1..n |-> FirstId(l, k)]
<1> DEFINE b == Len(base)
           S == {k \in SeqsOf(l) : IsNewer(k, base)}
           ids == [i \in DOMAIN InOrder(S) |-> FirstId(l, InOrder(S)[i])]
           whole == [k \in 1..n |-> FirstId(l, k)]
<1>1. b \in Nat /\ b <= n
  <2>1. b \in Nat
    OBVIOUS
  <2>2. b # 0 => b \in SeqsOf(l)
    BY <2>1 DEF Agrees
  <2> QED BY <2>1, <2>2
<1>2. S = (b + 1)..n
  BY <1>1 DEF IsNewer
<1>3. InOrder(S) = [i \in 1..(n - b) |-> b + i]
  <2> HIDE DEF b, S
  <2> QED BY <1>1, <1>2, InOrderInterval
<1>4. ids = [i \in 1..(n - b) |-> FirstId(l, b + i)]
  <2> HIDE DEF b, S
  <2> QED BY <1>3
<1>5. \A k \in 1..n : FirstId(l, k) \in Ids
  BY FirstIndex, LineTyped
<1>6. ids \in Seq(Ids) /\ Len(ids) = n - b /\ \A i \in 1..(n - b) : ids[i] = FirstId(l, b + i)
  <2>1. n - b \in Nat /\ ids \in [1..(n - b) -> Ids]
    <3> HIDE DEF b, ids
    <3> QED BY <1>1, <1>4, <1>5
  <2> HIDE DEF b, ids
  <2> QED BY <1>4, <2>1, FcnIsSeq
<1>7. whole \in Seq(Ids) /\ Len(whole) = n
  BY <1>5, FcnIsSeq
<1>8. Replay(base, l) = base \o ids
  BY DEF Replay
<1>9. /\ base \o ids \in Seq(Ids) /\ Len(base \o ids) = n
      /\ \A k \in 1..n : (base \o ids)[k] = IF k <= b THEN base[k] ELSE ids[k - b]
  <2> HIDE DEF ids
  <2> QED BY <1>1, <1>6, ConcatProperties
<1>10. \A k \in 1..n : (base \o ids)[k] = FirstId(l, k)
  <2> TAKE k \in 1..n
  <2>1. CASE k <= b
    BY <1>1, <1>9, <2>1 DEF Agrees
  <2>2. CASE ~(k <= b)
    <3>1. k - b \in 1..(n - b) /\ b + (k - b) = k
      BY <1>1, <2>2
    <3> HIDE DEF b, ids
    <3> QED BY <1>6, <1>9, <2>2, <3>1
  <2> QED BY <2>1, <2>2
<1>11. base \o ids = whole
  <2>1. \A k \in 1..n : whole[k] = (base \o ids)[k]
    BY <1>10
  <2> HIDE DEF ids, whole
  <2> QED BY <1>7, <1>9, <2>1, SeqEqual
<1> QED BY <1>8, <1>11

-----------------------------------------------------------------------------
(* Types *)

\* No number runs ahead of the lines that were written.
FileTyped ==
  /\ exists \in BOOLEAN /\ torn \in {"no", "part", "whole"}
  /\ log \in Seq(Event) /\ lines \in 0..MaxEvents
  /\ \A i \in DOMAIN log : log[i].seq \in 1..lines

Places == CriticalPcs \cup {"idle", "start", "stat", "mkdir again", "claim", "write"}

LocalsTyped ==
  /\ pc \in [Procs -> Places]
  /\ next \in [Procs -> 0..(MaxEvents + 1)] /\ mine \in [Procs -> 0..MaxEvents]
  /\ \A p \in Procs : pc[p] = "append" => next[p] \in 1..(lines + 1)

RunsTyped == snap \in Seq(Ids) /\ run \in [Procs -> Seq(Ids)]

RestTyped ==
  /\ lock \in {"free", "fresh", "stale"} /\ committed \subseteq 0..MaxEvents
  /\ damage \subseteq {"overlap", "late start", "merged"}
  /\ crashes \in 0..MaxCrashes

TypeInv == FileTyped /\ LocalsTyped /\ RunsTyped /\ RestTyped

LEMMA TypeInvIsTypeOK == TypeInv => TypeOK
BY DEF TypeInv, FileTyped, LocalsTyped, RunsTyped, RestTyped, TypeOK, Places

\* A write, complete or not, adds a line, or leaves the lines as they are, or
\* runs into the last one.
Added(s)  == /\ log' = Append(log, [seq |-> s, id |-> lines + 1])
             /\ lines < MaxEvents /\ lines' = lines + 1
Kept      == log' = log /\ (lines' = lines \/ (lines < MaxEvents /\ lines' = lines + 1))
Spoilt    == /\ log' = Front(log) /\ torn = "whole"
             /\ (lines' = lines \/ (lines < MaxEvents /\ lines' = lines + 1))

\* The steps that write to the file, and the numbers they write.
Writes(p, s) ==
  \/ s = 1 /\ StartAppend(p)
  \/ s = next[p] /\ (AppendEvent(p) \/ AppendFails(p))

\* What a write may add to the history of damage.
Worn == damage \subseteq damage' /\ damage' \subseteq damage \cup {"late start", "merged"}

LEMMA LineSteps ==
  ASSUME NEW s, NEW other, torn \in {"no", "part", "whole"},
         AppendLine(s, other) \/ AppendTears(s, other)
  PROVE  /\ torn' \in {"no", "part", "whole"}
         /\ Added(s) \/ Kept \/ Spoilt
         /\ damage' \in {damage \cup other, damage \cup other \cup {"merged"}}
         /\ Added(s) \/ Kept \/ "merged" \in damage'
<1>1. CASE AppendLine(s, other)
  <2>1. CASE torn = "no"
    BY <1>1, <2>1 DEF AppendLine, Added
  <2>2. CASE torn = "part"
    BY <1>1, <2>2 DEF AppendLine, Kept
  <2>3. CASE torn = "whole"
    BY <1>1, <2>3 DEF AppendLine, Spoilt
  <2> QED BY <2>1, <2>2, <2>3
<1>2. CASE AppendTears(s, other)
  <2>1. torn' \in {"no", "part", "whole"}
    BY <1>2 DEF AppendTears
  <2>2. damage' \in {damage \cup other, damage \cup other \cup {"merged"}}
    BY <1>2 DEF AppendTears
  <2>3. (Added(s) \/ Kept \/ Spoilt) /\ (Added(s) \/ Kept \/ "merged" \in damage')
    BY <1>2 DEF AppendTears, Added, Kept, Spoilt
  <2> QED BY <2>1, <2>2, <2>3
<1> QED BY <1>1, <1>2

LEMMA WritingSteps ==
  ASSUME NEW p \in Procs, NEW s, torn \in {"no", "part", "whole"}, Writes(p, s)
  PROVE  /\ torn' \in {"no", "part", "whole"}
         /\ Added(s) \/ Kept \/ Spoilt
         /\ Added(s) \/ Kept \/ "merged" \in damage'
<1>0. PICK other : /\ AppendLine(s, other) \/ AppendTears(s, other)
                   /\ other \subseteq {"late start"}
  <2>1. CASE s = 1 /\ StartAppend(p)
    <3>1. LateStart \subseteq {"late start"}
      BY DEF LateStart
    <3> QED BY <2>1, <3>1 DEF StartAppend
  <2>2. CASE s = next[p] /\ (AppendEvent(p) \/ AppendFails(p))
    <3>1. PICK none : none = {}
      OBVIOUS
    <3>2. AppendLine(s, none) \/ AppendTears(s, none)
      BY <2>2, <3>1 DEF AppendEvent, AppendFails
    <3>3. none \subseteq {"late start"}
      BY <3>1
    <3> QED BY <3>2, <3>3
  <2> QED BY <2>1, <2>2 DEF Writes
<1>1. AppendLine(s, other) \/ AppendTears(s, other)
  BY <1>0
<1>2. torn' \in {"no", "part", "whole"}
  BY <1>1, LineSteps
<1>3. Added(s) \/ Kept \/ Spoilt
  BY <1>1, LineSteps
<1>4. Added(s) \/ Kept \/ "merged" \in damage'
  BY <1>1, LineSteps
<1> QED BY <1>2, <1>3, <1>4

LEMMA WritingDamage ==
  ASSUME NEW p \in Procs, NEW s, torn \in {"no", "part", "whole"}, Writes(p, s)
  PROVE  Worn
<1>0. PICK other : /\ AppendLine(s, other) \/ AppendTears(s, other)
                   /\ other \subseteq {"late start"}
  <2>1. CASE s = 1 /\ StartAppend(p)
    <3>1. LateStart \subseteq {"late start"}
      BY DEF LateStart
    <3> QED BY <2>1, <3>1 DEF StartAppend
  <2>2. CASE s = next[p] /\ (AppendEvent(p) \/ AppendFails(p))
    <3>1. PICK none : none = {}
      OBVIOUS
    <3>2. AppendLine(s, none) \/ AppendTears(s, none)
      BY <2>2, <3>1 DEF AppendEvent, AppendFails
    <3>3. none \subseteq {"late start"}
      BY <3>1
    <3> QED BY <3>2, <3>3
  <2> QED BY <2>1, <2>2 DEF Writes
<1>1. AppendLine(s, other) \/ AppendTears(s, other)
  BY <1>0
<1>2. damage' \in {damage \cup other, damage \cup other \cup {"merged"}}
  BY <1>1, LineSteps
<1> QED BY <1>0, <1>2 DEF Worn

LEMMA WritesMake ==
  ASSUME NEW p \in Procs, NEW s, Writes(p, s)
  PROVE  exists' = TRUE
BY DEF Writes, StartAppend, AppendEvent, AppendFails, AppendLine, AppendTears

LEMMA WritingTyped ==
  ASSUME log \in Seq(Event), lines \in 0..MaxEvents,
         \A i \in DOMAIN log : log[i].seq \in 1..lines,
         NEW s \in 1..(lines + 1), Added(s) \/ Kept \/ Spoilt
  PROVE  /\ log' \in Seq(Event) /\ \A i \in DOMAIN log' : log'[i].seq \in 1..lines'
         /\ lines' \in 0..MaxEvents /\ lines <= lines'
<1>1. /\ lines \in Nat /\ MaxEvents \in Nat /\ lines <= MaxEvents /\ Len(log) \in Nat
      /\ DOMAIN log = 1..Len(log)
  BY BoundsAssumption, LenProperties
<1>2. lines' \in 0..MaxEvents /\ lines <= lines'
  BY <1>1 DEF Added, Kept, Spoilt
<1>3. \A k \in 1..lines : k \in 1..lines'
  BY <1>1, <1>2
<1>4. CASE Added(s)
  <2> DEFINE e == [seq |-> s, id |-> lines + 1]
  <2>1. s \in 1..lines' /\ s \in 1..(MaxEvents + 1) /\ lines + 1 \in Ids
    BY <1>1, <1>4 DEF Added, Ids
  <2>2. e \in Event /\ e.seq \in 1..lines'
    BY <2>1 DEF Event
  <2>3. log' = Append(log, e)
    BY <1>4 DEF Added
  <2> HIDE DEF e
  <2>4. /\ log' \in Seq(Event) /\ DOMAIN log' = 1..(Len(log) + 1)
        /\ \A i \in 1..Len(log) : log'[i] = log[i]
        /\ log'[Len(log) + 1] = e
    BY <2>2, <2>3, AppendProperties, LenProperties
  <2>5. \A i \in DOMAIN log' : i \in DOMAIN log \/ i = Len(log) + 1
    BY <1>1, <2>4
  <2>6. \A i \in DOMAIN log : log'[i].seq \in 1..lines'
    BY <1>1, <1>3, <2>4
  <2> QED BY <1>2, <2>2, <2>4, <2>5, <2>6
<1>5. CASE Kept
  BY <1>2, <1>3, <1>5 DEF Kept
<1>6. CASE Spoilt
  <2>1. /\ log' \in Seq(Event) /\ \A i \in DOMAIN log' : i \in DOMAIN log /\ log'[i] = log[i]
    BY <1>6, FrontTyped DEF Spoilt
  <2> QED BY <1>2, <1>3, <2>1
<1> QED BY <1>4, <1>5, <1>6

\* The next number is one more than the highest in the log.
LEMMA NextSeqIs ==
  ASSUME log \in Seq(Event)
  PROVE  /\ log = <<>> => NextSeq = 1
         /\ log # <<>> => \E k \in SeqsOf(log) : /\ NextSeq = 1 + k
                                               /\ \A j \in SeqsOf(log) : j <= k
<1>1. CASE log = <<>>
  BY <1>1 DEF NextSeq
<1>2. CASE log # <<>>
  <2> DEFINE Top(k) == \A j \in SeqsOf(log) : j <= k
             top == CHOOSE k \in SeqsOf(log) : Top(k)
  <2>1. SeqsOf(log) # {}
    <3>1. 1 \in DOMAIN log
      BY <1>2, EmptySeq
    <3> QED BY <3>1 DEF SeqsOf
  <2>2. SeqsOf(log) \subseteq Nat /\ \A k \in SeqsOf(log) : k <= MaxEvents + 1
    BY SeqsOfTyped
  <2>3. \E k \in SeqsOf(log) : Top(k)
    <3>1. MaxEvents + 1 \in Nat
      BY BoundsAssumption
    <3> QED BY <2>1, <2>2, <3>1, Greatest
  <2>4. top \in SeqsOf(log) /\ Top(top)
    <3> HIDE DEF Top
    <3> QED BY <2>3
  <2>5. NextSeq = 1 + top
    BY <1>2 DEF NextSeq
  <2> HIDE DEF top
  <2> QED BY <1>2, <2>4, <2>5
<1> QED BY <1>1, <1>2

LEMMA InitTypeInv == Init => TypeInv
<1> SUFFICES ASSUME Init PROVE TypeInv
  OBVIOUS
<1>1. 0 \in 0..MaxEvents /\ 0 \in 0..(MaxEvents + 1) /\ 0 \in 0..MaxCrashes
  BY BoundsAssumption
<1>2. log \in Seq(Event) /\ DOMAIN log = {} /\ snap \in Seq(Ids) /\ <<>> \in Seq(Ids)
  BY DEF Init
<1>3. FileTyped /\ RunsTyped
  BY <1>1, <1>2 DEF Init, FileTyped, RunsTyped
<1>4. LocalsTyped
  BY <1>1 DEF Init, LocalsTyped, Places
<1>5. RestTyped
  BY <1>1 DEF Init, RestTyped
<1> QED BY <1>3, <1>4, <1>5 DEF TypeInv

LEMMA StepsThatWrite ==
  ASSUME [Next]_vars
  PROVE  UNCHANGED file \/ \E p \in Procs : Writes(p, 1) \/ Writes(p, next[p])
<1>1. CASE UNCHANGED vars \/ Age
  BY <1>1 DEF vars, Age
<1>2. ASSUME NEW p \in Procs,
             StartBegin(p) \/ Acquire(p) \/ SnapshotBegin(p) \/ Step(p) \/ Crash(p)
      PROVE  UNCHANGED file \/ Writes(p, 1) \/ Writes(p, next[p])
  BY <1>2 DEF StartBegin, Acquire, SnapshotBegin, Step, Crash, Stat, MkdirAgain, Claim,
     ReadNext, TakeRun, AutoSnapshot, Raises, Return, Release, SnapshotEnd, Writes
<1> QED BY <1>1, <1>2 DEF Next

LEMMA WritesWithin ==
  ASSUME TypeInv, NEW p \in Procs, NEW s, Writes(p, s)
  PROVE  s \in 1..(lines + 1)
<1>1. lines \in Nat
  BY BoundsAssumption DEF TypeInv, FileTyped
<1>2. s = 1 \/ (pc[p] = "append" /\ s = next[p])
  BY DEF Writes, AppendEvent, AppendFails
<1>3. pc[p] = "append" => next[p] \in 1..(lines + 1)
  BY DEF TypeInv, LocalsTyped
<1> QED BY <1>1, <1>2, <1>3

LEMMA NextFileTyped == TypeInv /\ [Next]_vars => FileTyped' /\ lines <= lines'
<1> SUFFICES ASSUME TypeInv, [Next]_vars PROVE FileTyped' /\ lines <= lines'
  OBVIOUS
<1>1. CASE UNCHANGED file
  <2>1. lines \in Nat
    BY BoundsAssumption DEF TypeInv, FileTyped
  <2> QED BY <1>1, <2>1 DEF file, TypeInv, FileTyped
<1>2. ASSUME NEW p \in Procs, NEW s, Writes(p, s) PROVE FileTyped' /\ lines <= lines'
  <2>2. s \in 1..(lines + 1)
    BY <1>2, WritesWithin
  <2>3. /\ exists' = TRUE /\ torn' \in {"no", "part", "whole"}
        /\ Added(s) \/ Kept \/ Spoilt
    <3>1. torn \in {"no", "part", "whole"}
      BY DEF TypeInv, FileTyped
    <3>2. torn' \in {"no", "part", "whole"} /\ (Added(s) \/ Kept \/ Spoilt)
      <4>1. torn' \in {"no", "part", "whole"}
        BY <1>2, <3>1, WritingSteps
      <4>2. Added(s) \/ Kept \/ Spoilt
        BY <1>2, <3>1, WritingSteps
      <4> QED BY <4>1, <4>2
    <3> QED BY <1>2, <3>2, WritesMake
  <2>4. /\ log' \in Seq(Event) /\ \A i \in DOMAIN log' : log'[i].seq \in 1..lines'
        /\ lines' \in 0..MaxEvents /\ lines <= lines'
    BY <2>2, <2>3, WritingTyped DEF TypeInv, FileTyped
  <2> QED BY <2>3, <2>4 DEF FileTyped
<1> QED BY <1>1, <1>2, StepsThatWrite

LEMMA ReadsWithin == TypeInv => NextSeq \in 1..(lines + 1)
<1> SUFFICES ASSUME TypeInv PROVE NextSeq \in 1..(lines + 1)
  OBVIOUS
<1>1. lines \in Nat /\ \A k \in SeqsOf(log) : k \in 1..lines
  BY BoundsAssumption DEF TypeInv, FileTyped, SeqsOf
<1>2. NextSeq = 1 \/ \E k \in SeqsOf(log) : NextSeq = 1 + k
  BY NextSeqIs DEF TypeInv, FileTyped
<1> QED BY <1>1, <1>2

LEMMA NextLocalsTyped == TypeInv /\ [Next]_vars => LocalsTyped'
<1> SUFFICES ASSUME TypeInv, [Next]_vars PROVE LocalsTyped'
  OBVIOUS
<1>1. lines \in Nat /\ MaxEvents \in Nat /\ lines <= MaxEvents
  BY BoundsAssumption DEF TypeInv, FileTyped
<1>2. /\ pc \in [Procs -> Places] /\ next \in [Procs -> 0..(MaxEvents + 1)]
      /\ mine \in [Procs -> 0..MaxEvents]
      /\ \A p \in Procs : pc[p] = "append" => next[p] \in 1..(lines + 1)
  BY DEF TypeInv, LocalsTyped
<1>3. lines <= lines' /\ lines' \in Nat
  BY NextFileTyped, BoundsAssumption DEF FileTyped
<1>4. \A k \in 1..(lines + 1) : k \in 1..(lines' + 1)
  BY <1>1, <1>3, Widen
<1>5. ASSUME NEW p \in Procs,
             StartBegin(p) \/ Acquire(p) \/ SnapshotBegin(p) \/ Step(p) \/ Crash(p)
      PROVE  LocalsTyped'
  <2>1. PICK l \in Places : /\ pc' = [pc EXCEPT ![p] = l]
                            /\ l = "append" => ReadNext(p)
    BY <1>5 DEF StartBegin, Acquire, SnapshotBegin, Step, Crash, Stat, MkdirAgain, Claim,
       ReadNext, TakeRun, AutoSnapshot, Raises, Return, Release, SnapshotEnd, StartAppend,
       AppendEvent, AppendFails, AfterFailedAppend, Ends, Goto, Places, CriticalPcs
  <2>2. \/ next' = next /\ ~ReadNext(p)
        \/ next' = [next EXCEPT ![p] = 0] /\ ~ReadNext(p)
        \/ next' = [next EXCEPT ![p] = NextSeq] /\ ReadNext(p)
    <3>1. CASE ReadNext(p)
      BY <3>1 DEF ReadNext
    <3>2. CASE ~ReadNext(p)
      BY <1>5, <3>2 DEF StartBegin, Acquire, SnapshotBegin, Step, Crash, Stat, MkdirAgain, Claim,
       TakeRun, AutoSnapshot, Raises, Return, Release, SnapshotEnd, StartAppend,
       AppendEvent, AppendFails, Ends
    <3> QED BY <3>1, <3>2
  <2>3. \/ mine' = mine \/ mine' = [mine EXCEPT ![p] = 0]
        \/ lines < MaxEvents /\ mine' = [mine EXCEPT ![p] = lines + 1]
    BY <1>5 DEF StartBegin, Acquire, SnapshotBegin, Step, Crash, Stat, MkdirAgain, Claim,
       ReadNext, TakeRun, AutoSnapshot, Raises, Return, Release, SnapshotEnd, StartAppend,
       AppendEvent, AppendFails, AppendLine, Ends
  <2>4. pc' \in [Procs -> Places]
    BY <1>2, <2>1
  <2>5. NextSeq \in 1..(lines + 1) /\ NextSeq \in 0..(MaxEvents + 1)
    <3>1. \A k \in 1..(lines + 1) : k \in 0..(MaxEvents + 1)
      BY <1>1
    <3> QED BY <3>1, ReadsWithin
  <2>6. next' \in [Procs -> 0..(MaxEvents + 1)]
    <3>1. 0 \in 0..(MaxEvents + 1)
      BY <1>1
    <3> QED BY <1>2, <2>2, <2>5, <3>1
  <2>7. mine' \in [Procs -> 0..MaxEvents]
    <3>1. 0 \in 0..MaxEvents /\ (lines < MaxEvents => lines + 1 \in 0..MaxEvents)
      BY <1>1
    <3> QED BY <1>2, <2>3, <3>1
  <2>8. ASSUME NEW q \in Procs, pc'[q] = "append" PROVE next'[q] \in 1..(lines' + 1)
    <3>1. CASE q = p
      <4>1. ReadNext(p)
        BY <1>2, <2>1, <2>8, <3>1
      <4> QED BY <1>2, <1>4, <2>2, <2>5, <3>1, <4>1
    <3>2. CASE q # p
      BY <1>2, <1>4, <2>1, <2>2, <2>8, <3>2
    <3> QED BY <3>1, <3>2
  <2> QED BY <2>4, <2>6, <2>7, <2>8 DEF LocalsTyped
<1>6. CASE Age \/ UNCHANGED vars
  <2>1. UNCHANGED <<pc, next, mine, lines>>
    BY <1>6 DEF Age, vars, locals, file
  <2> QED BY <1>2, <2>1 DEF LocalsTyped
<1> QED BY <1>5, <1>6 DEF Next

LEMMA NextRunsTyped == TypeInv /\ [Next]_vars => RunsTyped'
<1> SUFFICES ASSUME TypeInv, [Next]_vars PROVE RunsTyped'
  OBVIOUS
<1>1. Recovered \in Seq(Ids) /\ <<>> \in Seq(Ids) /\ RunsTyped
  BY ReplayTyped DEF TypeInv, FileTyped, RunsTyped, Recovered
<1>2. ASSUME NEW p \in Procs,
             StartBegin(p) \/ Acquire(p) \/ SnapshotBegin(p) \/ Step(p) \/ Crash(p)
      PROVE  RunsTyped'
  <2>1. \/ run' = run \/ run' = [run EXCEPT ![p] = <<>>]
        \/ run' = [run EXCEPT ![p] = Recovered]
    BY <1>2 DEF StartBegin, Acquire, SnapshotBegin, Step, Crash, Stat, MkdirAgain, Claim,
       ReadNext, TakeRun, AutoSnapshot, Raises, Return, Release, SnapshotEnd, StartAppend,
       AppendEvent, AppendFails, Ends
  <2>2. snap' = snap \/ snap' = run[p]
    BY <1>2 DEF StartBegin, Acquire, SnapshotBegin, Step, Crash, Stat, MkdirAgain, Claim,
       ReadNext, TakeRun, AutoSnapshot, Raises, Return, Release, SnapshotEnd, StartAppend,
       AppendEvent, AppendFails, WriteSnapshot
  <2> QED BY <1>1, <2>1, <2>2 DEF RunsTyped
<1>3. CASE Age \/ UNCHANGED vars
  BY <1>1, <1>3 DEF Age, vars, locals, RunsTyped
<1> QED BY <1>2, <1>3 DEF Next

LEMMA NextRestTyped == TypeInv /\ [Next]_vars => RestTyped'
<1> SUFFICES ASSUME TypeInv, [Next]_vars PROVE RestTyped'
  OBVIOUS
<1>1. /\ lock \in {"free", "fresh", "stale"} /\ committed \subseteq 0..MaxEvents
      /\ damage \subseteq {"overlap", "late start", "merged"} /\ crashes \in 0..MaxCrashes
  BY DEF TypeInv, RestTyped
<1>2. ASSUME NEW p \in Procs,
             StartBegin(p) \/ Acquire(p) \/ SnapshotBegin(p) \/ Step(p) \/ Crash(p)
      PROVE  RestTyped'
  <2>1. lock' \in {"free", "fresh", lock}
    BY <1>2 DEF StartBegin, Acquire, SnapshotBegin, Step, Crash, Stat, MkdirAgain, Claim,
       ReadNext, TakeRun, AutoSnapshot, Raises, Return, Release, SnapshotEnd, StartAppend,
       AppendEvent, AppendFails
  <2>2. committed' = committed \/ committed' = committed \cup {mine[p]}
    BY <1>2 DEF StartBegin, Acquire, SnapshotBegin, Step, Crash, Stat, MkdirAgain, Claim,
       ReadNext, TakeRun, AutoSnapshot, Raises, Return, Release, SnapshotEnd, StartAppend,
       AppendEvent, AppendFails
  <2>3. crashes' = crashes \/ (crashes < MaxCrashes /\ crashes' = crashes + 1)
    BY <1>2 DEF StartBegin, Acquire, SnapshotBegin, Step, Crash, Stat, MkdirAgain, Claim,
       ReadNext, TakeRun, AutoSnapshot, Raises, Return, Release, SnapshotEnd, StartAppend,
       AppendEvent, AppendFails
  <2>4. damage' \subseteq {"overlap", "late start", "merged"}
    <3>1. CASE StartAppend(p) \/ AppendEvent(p) \/ AppendFails(p)
      <4>1. Writes(p, 1) \/ Writes(p, next[p])
        BY <3>1 DEF Writes
      <4>2. damage' \subseteq damage \cup {"late start", "merged"}
        <5>1. torn \in {"no", "part", "whole"}
          BY DEF TypeInv, FileTyped
        <5>2. Writes(p, 1) => Worn
          BY <5>1, WritingDamage
        <5>3. ASSUME Writes(p, next[p]) PROVE Worn
          <6>1. PICK s : s = next[p]
            OBVIOUS
          <6>2. Writes(p, s)
            BY <5>3, <6>1
          <6> QED BY <5>1, <6>2, WritingDamage
        <5> QED BY <4>1, <5>2, <5>3 DEF Worn
      <4> QED BY <1>1, <4>2
    <3>2. CASE ~(StartAppend(p) \/ AppendEvent(p) \/ AppendFails(p))
      <4>1. damage' = damage \/ damage' = damage \cup {"overlap"}
        BY <1>2, <3>2 DEF StartBegin, Acquire, SnapshotBegin, Step, Crash, Stat, MkdirAgain,
           Claim, ReadNext, TakeRun, AutoSnapshot, Raises, Return, Release, SnapshotEnd, Overlap
      <4> QED BY <1>1, <4>1
    <3> QED BY <3>1, <3>2
  <2>5. crashes' \in 0..MaxCrashes
    <3>1. crashes \in Nat /\ MaxCrashes \in Nat /\ crashes <= MaxCrashes
      <4>1. crashes \in 0..MaxCrashes
        BY DEF TypeInv, RestTyped
      <4> QED BY <4>1, BoundsAssumption
    <3>2. crashes' \in Nat /\ crashes' <= MaxCrashes
      BY <2>3, <3>1
    <3> QED BY <3>1, <3>2
  <2>6. mine[p] \in 0..MaxEvents
    BY DEF TypeInv, LocalsTyped
  <2> QED BY <1>1, <2>1, <2>2, <2>4, <2>5, <2>6 DEF RestTyped
<1>3. CASE Age \/ UNCHANGED vars
  BY <1>1, <1>3 DEF Age, vars, locals, RestTyped
<1> QED BY <1>2, <1>3 DEF Next

LEMMA NextTypeInv == TypeInv /\ [Next]_vars => TypeInv'
BY NextFileTyped, NextLocalsTyped, NextRunsTyped, NextRestTyped DEF TypeInv

LEMMA TypeInvariant == Spec => []TypeInv
BY InitTypeInv, NextTypeInv, PTL DEF Spec

\* Every variable keeps its type, and no event's number runs ahead of the
\* lines that were written.
THEOREM DurableTyped == Spec => []TypeOK
BY TypeInvariant, TypeInvIsTypeOK, PTL

-----------------------------------------------------------------------------
(* The numbers have no gaps *)

LEMMA DamageGrows == [Next]_vars => damage \subseteq damage'
<1> SUFFICES ASSUME [Next]_vars PROVE damage \subseteq damage'
  OBVIOUS
<1>1. ASSUME NEW p \in Procs,
             StartBegin(p) \/ Acquire(p) \/ SnapshotBegin(p) \/ Step(p) \/ Crash(p)
      PROVE  damage \subseteq damage'
  BY <1>1, AppendLineKeepsDamage DEF StartBegin, Acquire, SnapshotBegin, Step, Crash, Stat,
     MkdirAgain, Claim, ReadNext, TakeRun, AutoSnapshot, Raises, Return, Release, SnapshotEnd,
     StartAppend, AppendEvent, AppendFails
<1>2. CASE Age \/ UNCHANGED vars
  BY <1>2 DEF Age, vars
<1> QED BY <1>1, <1>2 DEF Next

\* As long as no line runs into another, the log grows by one line at a time.
LEMMA LogSteps ==
  ASSUME TypeInv, [Next]_vars, "merged" \notin damage'
  PROVE  \/ log' = log
         \/ \E p \in Procs : \E s \in 1..(lines + 1) : Writes(p, s) /\ Added(s)
<1>1. torn \in {"no", "part", "whole"}
  BY DEF TypeInv, FileTyped
<1>2. ASSUME NEW p \in Procs, NEW s, Writes(p, s)
      PROVE  log' = log \/ (s \in 1..(lines + 1) /\ Added(s))
  <2>1. Added(s) \/ Kept \/ "merged" \in damage'
    BY <1>1, <1>2, WritingSteps
  <2>2. s \in 1..(lines + 1)
    BY <1>2, WritesWithin
  <2> QED BY <2>1, <2>2 DEF Kept
<1>3. UNCHANGED file => log' = log
  BY DEF file
<1>4. ASSUME NEW p \in Procs, Writes(p, 1) \/ Writes(p, next[p])
      PROVE  \/ log' = log
             \/ \E s \in 1..(lines + 1) : Writes(p, s) /\ Added(s)
  <2>1. PICK s : Writes(p, s)
    BY <1>4
  <2> QED BY <1>2, <2>1
<1> QED BY <1>3, <1>4, StepsThatWrite

LEMMA AddedLine ==
  ASSUME TypeInv, NEW s \in 1..(lines + 1), Added(s)
  PROVE  \E e \in Event : e.seq = s /\ e.id = lines + 1 /\ log' = Append(log, e)
<1> DEFINE e == [seq |-> s, id |-> lines + 1]
<1>1. lines \in Nat /\ MaxEvents \in Nat /\ lines < MaxEvents
  BY BoundsAssumption DEF TypeInv, FileTyped, Added
<1>2. s \in 1..(MaxEvents + 1) /\ lines + 1 \in Ids
  BY <1>1 DEF Ids
<1>3. e \in Event /\ e.seq = s /\ e.id = lines + 1
  BY <1>2 DEF Event
<1>4. log' = Append(log, e)
  BY DEF Added
<1> HIDE DEF e
<1> QED BY <1>3, <1>4

LEMMA AppendSeqs ==
  ASSUME NEW l \in Seq(Event), NEW e \in Event
  PROVE  SeqsOf(Append(l, e)) = SeqsOf(l) \cup {e.seq}
<1> DEFINE a == Append(l, e)
<1>1. /\ a \in Seq(Event) /\ DOMAIN a = 1..(Len(l) + 1) /\ DOMAIN l = 1..Len(l)
      /\ Len(l) \in Nat /\ \A i \in 1..Len(l) : a[i] = l[i]
      /\ a[Len(l) + 1] = e
  BY AppendProperties, LenProperties
<1>2. \A i \in DOMAIN a : i \in DOMAIN l \/ i = Len(l) + 1
  BY <1>1
<1>3. \A i \in DOMAIN l : i \in DOMAIN a /\ a[i] = l[i]
  BY <1>1
<1>4. Len(l) + 1 \in DOMAIN a
  BY <1>1
<1>5. SeqsOf(a) = {a[i].seq : i \in DOMAIN a} /\ SeqsOf(l) = {l[i].seq : i \in DOMAIN l}
  BY DEF SeqsOf
<1> HIDE DEF a
<1>6. SeqsOf(a) \subseteq SeqsOf(l) \cup {e.seq}
  BY <1>1, <1>2, <1>3, <1>5
<1>7. SeqsOf(l) \subseteq SeqsOf(a) /\ e.seq \in SeqsOf(a)
  BY <1>1, <1>3, <1>4, <1>5
<1>8. SeqsOf(a) = SeqsOf(l) \cup {e.seq}
  BY <1>6, <1>7
<1> QED BY <1>8 DEF a

\* Below every number of the log there are all the others.
DownClosed(l) == \A k \in SeqsOf(l) : \A j \in 1..k : j \in SeqsOf(l)
Covers(n, l)  == \A j \in 1..(n - 1) : j \in SeqsOf(l)

LEMMA DownClosedAppend ==
  ASSUME NEW l \in Seq(Event), NEW e \in Event, DownClosed(l), Covers(e.seq, l)
  PROVE  DownClosed(Append(l, e))
<1>1. SeqsOf(Append(l, e)) = SeqsOf(l) \cup {e.seq}
  BY AppendSeqs
<1>2. e.seq \in Nat
  BY BoundsAssumption DEF Event
<1>3. \A j \in 1..(e.seq) : j = e.seq \/ j \in 1..(e.seq - 1)
  BY <1>2
<1>4. \A j \in 1..(e.seq) : j \in SeqsOf(l) \cup {e.seq}
  BY <1>3 DEF Covers
<1> QED BY <1>1, <1>4 DEF DownClosed

LEMMA CoversNext ==
  ASSUME log \in Seq(Event), DownClosed(log)
  PROVE  Covers(NextSeq, log)
<1>1. CASE log = <<>>
  <2>1. NextSeq = 1
    BY <1>1, NextSeqIs
  <2> QED BY <2>1 DEF Covers
<1>2. CASE log # <<>>
  <2>1. PICK k \in SeqsOf(log) : NextSeq = 1 + k
    BY <1>2, NextSeqIs
  <2>2. k \in Nat
    BY SeqsOfTyped
  <2>3. 1..(NextSeq - 1) = 1..k
    BY <2>1, <2>2
  <2> QED BY <2>3 DEF Covers, DownClosed
<1> QED BY <1>1, <1>2

\* The process that is about to append saw the numbers below its own.
Contiguous == DownClosed(log) /\ \A p \in Procs : pc[p] = "append" => Covers(next[p], log)

GapInv == "merged" \notin damage => Contiguous

LEMMA Appenders ==
  ASSUME TypeInv, [Next]_vars, NEW q \in Procs, pc'[q] = "append"
  PROVE  \/ ReadNext(q) /\ next'[q] = NextSeq /\ log' = log
         \/ pc[q] = "append" /\ next'[q] = next[q]
<1>1. pc \in [Procs -> Places] /\ next \in [Procs -> 0..(MaxEvents + 1)]
  BY DEF TypeInv, LocalsTyped
<1>2. ASSUME NEW p \in Procs,
             StartBegin(p) \/ Acquire(p) \/ SnapshotBegin(p) \/ Step(p) \/ Crash(p)
      PROVE  \/ ReadNext(q) /\ next'[q] = NextSeq /\ log' = log
             \/ pc[q] = "append" /\ next'[q] = next[q]
  <2>1. PICK l \in Places : /\ pc' = [pc EXCEPT ![p] = l]
                            /\ l = "append" => ReadNext(p)
    BY <1>2 DEF StartBegin, Acquire, SnapshotBegin, Step, Crash, Stat, MkdirAgain, Claim,
       ReadNext, TakeRun, AutoSnapshot, Raises, Return, Release, SnapshotEnd, StartAppend,
       AppendEvent, AppendFails, AfterFailedAppend, Ends, Goto, Places, CriticalPcs
  <2>2. \/ next' = next \/ next' = [next EXCEPT ![p] = 0]
        \/ next' = [next EXCEPT ![p] = NextSeq]
    BY <1>2 DEF StartBegin, Acquire, SnapshotBegin, Step, Crash, Stat, MkdirAgain, Claim,
       ReadNext, TakeRun, AutoSnapshot, Raises, Return, Release, SnapshotEnd, StartAppend,
       AppendEvent, AppendFails, Ends
  <2>3. CASE q = p
    <3>1. ReadNext(p)
      BY <1>1, <2>1, <2>3
    <3>2. next' = [next EXCEPT ![p] = NextSeq] /\ log' = log
      BY <3>1 DEF ReadNext, file
    <3> QED BY <1>1, <2>3, <3>1, <3>2
  <2>4. CASE q # p
    BY <1>1, <2>1, <2>2, <2>4
  <2> QED BY <2>3, <2>4
<1>3. CASE Age \/ UNCHANGED vars
  BY <1>3 DEF Age, vars, locals
<1> QED BY <1>2, <1>3 DEF Next

LEMMA NextGapInv == TypeInv /\ GapInv /\ [Next]_vars => GapInv'
<1> SUFFICES ASSUME TypeInv, GapInv, [Next]_vars, "merged" \notin damage'
             PROVE  Contiguous'
  BY DEF GapInv
<1>1. Contiguous
  BY DamageGrows DEF GapInv
<1>2. log \in Seq(Event)
  BY DEF TypeInv, FileTyped
<1>3. CASE log' = log
  <2>1. DownClosed(log')
    BY <1>1, <1>3 DEF Contiguous
  <2>2. ASSUME NEW q \in Procs, pc'[q] = "append" PROVE Covers(next'[q], log')
    <3>1. CASE ReadNext(q) /\ next'[q] = NextSeq /\ log' = log
      BY <1>1, <1>2, <3>1, CoversNext DEF Contiguous
    <3>2. CASE pc[q] = "append" /\ next'[q] = next[q]
      BY <1>1, <1>3, <3>2 DEF Contiguous
    <3> QED BY <2>2, <3>1, <3>2, Appenders
  <2> QED BY <2>1, <2>2 DEF Contiguous
<1>4. ASSUME NEW p \in Procs, NEW s \in 1..(lines + 1), Writes(p, s), Added(s)
      PROVE  Contiguous'
  <2>1. PICK e \in Event : e.seq = s /\ log' = Append(log, e)
    BY <1>4, AddedLine
  <2>2. Covers(s, log)
    <3>1. CASE s = 1
      BY <3>1 DEF Covers
    <3>2. CASE s = next[p] /\ pc[p] = "append"
      BY <1>1, <3>2 DEF Contiguous
    <3> QED BY <1>4, <3>1, <3>2 DEF Writes, AppendEvent, AppendFails
  <2>3. DownClosed(log')
    BY <1>1, <1>2, <2>1, <2>2, DownClosedAppend DEF Contiguous
  <2>4. SeqsOf(log) \subseteq SeqsOf(log')
    BY <1>2, <2>1, AppendSeqs
  <2>5. ASSUME NEW q \in Procs, pc'[q] = "append" PROVE Covers(next'[q], log')
    <3>1. CASE log' = log
      BY <1>3, <2>5, <3>1 DEF Contiguous
    <3>2. CASE pc[q] = "append" /\ next'[q] = next[q]
      <4>1. Covers(next[q], log)
        BY <1>1, <3>2 DEF Contiguous
      <4> QED BY <2>4, <3>2, <4>1 DEF Covers
    <3> QED BY <2>5, <3>1, <3>2, Appenders
  <2> QED BY <2>3, <2>5 DEF Contiguous
<1> QED BY <1>3, <1>4, LogSteps

-----------------------------------------------------------------------------
(* Every event is at the place its number says *)

\* Nobody is inside a transition or a snapshot before there is a file.
Started == \A p \in Procs : pc[p] \notin {"idle", "start"} => exists

LEMMA InitStarted == Init => Started
BY DEF Init, Started

LEMMA NextStarted == TypeInv /\ Started /\ [Next]_vars => Started'
<1> SUFFICES ASSUME TypeInv, Started, [Next]_vars PROVE Started'
  OBVIOUS
<1>1. pc \in [Procs -> Places]
  BY DEF TypeInv, LocalsTyped
<1>2. ASSUME NEW p \in Procs,
             StartBegin(p) \/ Acquire(p) \/ SnapshotBegin(p) \/ Step(p) \/ Crash(p)
      PROVE  Started'
  <2>1. PICK l \in Places : /\ pc' = [pc EXCEPT ![p] = l]
                            /\ l \in {"idle", "start"} \/ pc[p] \notin {"idle", "start"} \/ exists
    BY <1>2 DEF StartBegin, Acquire, SnapshotBegin, Step, Crash, Stat, MkdirAgain, Claim,
       ReadNext, TakeRun, AutoSnapshot, Raises, Return, Release, SnapshotEnd, StartAppend,
       AppendEvent, AppendFails, AfterFailedAppend, Ends, Goto, Places, CriticalPcs
  <2>2. exists' = exists \/ exists'
    BY <1>2 DEF StartBegin, Acquire, SnapshotBegin, Step, Crash, Stat, MkdirAgain, Claim,
       ReadNext, TakeRun, AutoSnapshot, Raises, Return, Release, SnapshotEnd, StartAppend,
       AppendEvent, AppendFails, AppendLine, AppendTears, file
  <2>3. \A q \in Procs : pc'[q] \notin {"idle", "start"} => exists
    BY <1>1, <2>1 DEF Started
  <2> QED BY <2>2, <2>3 DEF Started
<1>3. CASE Age \/ UNCHANGED vars
  BY <1>3 DEF Age, vars, locals, file, Started
<1> QED BY <1>2, <1>3 DEF Next

Calm(d) == d \cap {"overlap", "late start"} = {}

InPlace(l) == \A i \in DOMAIN l : l[i].seq = i

Position ==
  /\ InPlace(log)
  /\ \A p \in Procs : pc[p] = "append" => next[p] = Len(log) + 1
  /\ ~exists => log = <<>>

PositionInv == Calm(damage) => Position

LEMMA InPlaceSeqs ==
  ASSUME NEW l \in Seq(Event), InPlace(l)
  PROVE  SeqsOf(l) = 1..Len(l)
<1>1. DOMAIN l = 1..Len(l)
  OBVIOUS
<1> QED BY <1>1 DEF SeqsOf, InPlace

LEMMA InPlaceNext ==
  ASSUME log \in Seq(Event), InPlace(log)
  PROVE  NextSeq = Len(log) + 1
<1>1. SeqsOf(log) = 1..Len(log) /\ Len(log) \in Nat
  BY InPlaceSeqs
<1>2. CASE log = <<>>
  <2>1. NextSeq = 1 /\ Len(log) = 0
    BY <1>2, NextSeqIs
  <2> QED BY <2>1
<1>3. CASE log # <<>>
  <2>1. Len(log) # 0
    BY <1>3, EmptySeq
  <2>2. PICK k \in SeqsOf(log) : NextSeq = 1 + k /\ \A j \in SeqsOf(log) : j <= k
    BY <1>3, NextSeqIs
  <2>3. Len(log) <= k /\ k <= Len(log) /\ k \in Nat
    BY <1>1, <2>1, <2>2
  <2>4. k = Len(log)
    BY <1>1, <2>3
  <2> QED BY <1>1, <2>2, <2>4
<1> QED BY <1>2, <1>3

\* A write leaves nobody else about to append, and what it adds is in place.
LEMMA CalmWrite ==
  ASSUME TypeInv, IInv, Started, Position, NEW p \in Procs, NEW s, Writes(p, s),
         Calm(damage), Calm(damage')
  PROVE  /\ s = Len(log) + 1
         /\ \A q \in Procs : pc'[q] # "append"
<1>1. pc \in [Procs -> Places]
  BY DEF TypeInv, LocalsTyped
<1>2. CASE s = 1 /\ StartAppend(p)
  <2>1. ~exists
    <3>1. SUFFICES ASSUME exists PROVE FALSE
      OBVIOUS
    <3>2. LateStart = {"late start"}
      BY <3>1 DEF LateStart
    <3>3. "late start" \in damage'
      BY <1>2, <3>2 DEF StartAppend, AppendLine, AppendTears
    <3> QED BY <3>3 DEF Calm
  <2>2. Len(log) = 0
    BY <2>1 DEF Position
  <2>3. pc' = [pc EXCEPT ![p] = "idle"]
    BY <1>2 DEF StartAppend, Goto
  <2>4. \A q \in Procs : pc[q] # "append"
    BY <2>1 DEF Started
  <2> QED BY <1>1, <1>2, <2>2, <2>3, <2>4
<1>3. CASE s = next[p] /\ (AppendEvent(p) \/ AppendFails(p))
  <2>1. pc[p] = "append" /\ \E l \in Places : l # "append" /\ pc' = [pc EXCEPT ![p] = l]
    BY <1>3 DEF AppendEvent, AppendFails, AfterFailedAppend, Goto, Places, CriticalPcs
  <2>2. s = Len(log) + 1
    BY <1>3, <2>1 DEF Position
  <2>3. \A q \in Procs : pc[q] = "append" => q = p
    BY <2>1 DEF IInv, Calm, InCritical, CriticalPcs
  <2>4. \A q \in Procs : pc'[q] # "append"
    BY <1>1, <2>1, <2>3
  <2> QED BY <2>2, <2>4
<1> QED BY <1>2, <1>3 DEF Writes

LEMMA InPlaceAppend ==
  ASSUME NEW l \in Seq(Event), NEW e \in Event, InPlace(l), e.seq = Len(l) + 1
  PROVE  InPlace(Append(l, e))
<1> DEFINE a == Append(l, e)
<1>1. /\ DOMAIN a = 1..(Len(l) + 1) /\ DOMAIN l = 1..Len(l) /\ Len(l) \in Nat
      /\ \A i \in 1..Len(l) : a[i] = l[i]
      /\ a[Len(l) + 1] = e
  BY AppendProperties, LenProperties
<1>2. \A i \in DOMAIN a : i \in DOMAIN l \/ i = Len(l) + 1
  BY <1>1
<1> HIDE DEF a
<1>3. InPlace(a)
  BY <1>1, <1>2 DEF InPlace
<1> QED BY <1>3 DEF a

LEMMA NextPositionInv ==
  TypeInv /\ IInv /\ Started /\ PositionInv /\ [Next]_vars => PositionInv'
<1> SUFFICES ASSUME TypeInv, IInv, Started, PositionInv, [Next]_vars, Calm(damage')
             PROVE  Position'
  BY DEF PositionInv
<1>1. Calm(damage) /\ Position
  BY DamageGrows DEF PositionInv, Calm
<1>2. log \in Seq(Event) /\ torn \in {"no", "part", "whole"}
  BY DEF TypeInv, FileTyped
<1>3. CASE UNCHANGED file
  <2>1. log' = log /\ exists' = exists
    BY <1>3 DEF file
  <2>2. \A q \in Procs : pc'[q] = "append" => next'[q] = Len(log) + 1
    <3>1. NextSeq = Len(log) + 1
      BY <1>1, <1>2, InPlaceNext DEF Position
    <3> QED BY <1>1, <3>1, Appenders DEF Position
  <2> QED BY <1>1, <2>1, <2>2 DEF Position
<1>4. ASSUME NEW p \in Procs, NEW s, Writes(p, s) PROVE Position'
  <2>1. s = Len(log) + 1
    BY <1>1, <1>4, CalmWrite
  <2>2. \A q \in Procs : pc'[q] # "append"
    BY <1>1, <1>4, CalmWrite
  <2>3. exists'
    BY <1>4, WritesMake
  <2>4. CASE Added(s)
    <3>1. s \in 1..(lines + 1)
      BY <1>4, WritesWithin
    <3>2. PICK e \in Event : e.seq = s /\ log' = Append(log, e)
      BY <2>4, <3>1, AddedLine
    <3>3. InPlace(log')
      BY <1>1, <1>2, <2>1, <3>2, InPlaceAppend DEF Position
    <3> QED BY <2>2, <2>3, <3>3 DEF Position
  <2>5. CASE Kept
    <3>1. InPlace(log')
      BY <1>1, <2>5 DEF Kept, Position
    <3> QED BY <2>2, <2>3, <3>1 DEF Position
  <2>6. CASE Spoilt
    <3>1. log' = Front(log)
      BY <2>6 DEF Spoilt
    <3>2. \A i \in DOMAIN Front(log) : i \in DOMAIN log /\ Front(log)[i] = log[i]
      BY <1>2, FrontTyped
    <3>3. InPlace(log')
      BY <1>1, <3>1, <3>2 DEF InPlace, Position
    <3> QED BY <2>2, <2>3, <3>3 DEF Position
  <2>7. Added(s) \/ Kept \/ Spoilt
    BY <1>2, <1>4, WritingSteps
  <2> QED BY <2>4, <2>5, <2>6, <2>7
<1>5. ASSUME NEW p \in Procs, Writes(p, 1) \/ Writes(p, next[p]) PROVE Position'
  <2>1. PICK s : Writes(p, s)
    BY <1>5
  <2> QED BY <1>4, <2>1
<1> QED BY <1>3, <1>5, StepsThatWrite

LogInv == TypeInv /\ IInv /\ Started /\ GapInv /\ PositionInv

LEMMA InitLogInv == Init => LogInv
<1> SUFFICES ASSUME Init PROVE LogInv
  OBVIOUS
<1>1. log = <<>> /\ \A p \in Procs : pc[p] = "idle"
  BY DEF Init
<1>2. GapInv
  BY <1>1 DEF GapInv, Contiguous, DownClosed, SeqsOf
<1>3. PositionInv
  BY <1>1 DEF PositionInv, Position, InPlace
<1> QED BY <1>2, <1>3, InitTypeInv, InitIInv, InitStarted DEF LogInv

LEMMA LogInvariant == Spec => []LogInv
<1>1. LogInv /\ [Next]_vars => LogInv'
  BY NextTypeInv, NextIInv, NextStarted, NextGapInv, NextPositionInv DEF LogInv
<1> QED BY InitLogInv, <1>1, PTL DEF Spec

\* A contiguous log has the numbers from 1 to some n.
LEMMA Bounds ==
  ASSUME TypeInv, DownClosed(log)
  PROVE  \E n \in 0..MaxEvents : SeqsOf(log) = 1..n
<1>1. lines \in Nat /\ MaxEvents \in Nat /\ lines <= MaxEvents
  BY BoundsAssumption DEF TypeInv, FileTyped
<1>2. \A k \in SeqsOf(log) : k \in 1..lines
  BY DEF TypeInv, FileTyped, SeqsOf
<1>3. CASE SeqsOf(log) = {}
  <2>1. 0 \in 0..MaxEvents /\ 1..0 = {}
    BY <1>1
  <2> QED BY <1>3, <2>1
<1>4. CASE SeqsOf(log) # {}
  <2>1. SeqsOf(log) \subseteq Nat /\ \A k \in SeqsOf(log) : k <= lines
    BY <1>1, <1>2
  <2>2. PICK n \in SeqsOf(log) : \A k \in SeqsOf(log) : k <= n
    BY <1>1, <1>4, <2>1, Greatest
  <2>3. n \in 0..MaxEvents
    BY <1>1, <1>2
  <2>4. \A k \in SeqsOf(log) : k \in 1..n
    BY <1>1, <1>2, <2>2
  <2>5. \A k \in 1..n : k \in SeqsOf(log)
    BY DEF DownClosed
  <2> QED BY <2>3, <2>4, <2>5
<1> QED BY <1>3, <1>4

\* "keine Luecken": the numbers in the log are 1 to some n, however many
\* processes append, crash and leave half a line, unless a line ran into an
\* unfinished one and, besides, two transitions overlapped or a start was late.
THEOREM LogHasNoGaps == Spec => []NoGaps
<1>1. LogInv => NoGaps
  <2> SUFFICES ASSUME LogInv, "merged" \in damage => damage = {"merged"}
               PROVE  \E n \in 0..MaxEvents : SeqsOf(log) = 1..n
    BY DEF NoGaps
  <2>1. TypeInv /\ log \in Seq(Event)
    BY DEF LogInv, TypeInv, FileTyped
  <2>2. DownClosed(log)
    <3>1. CASE "merged" \notin damage
      BY <3>1 DEF LogInv, GapInv, Contiguous
    <3>2. CASE damage = {"merged"}
      <4>1. InPlace(log)
        BY <3>2 DEF LogInv, PositionInv, Position, Calm
      <4>2. SeqsOf(log) = 1..Len(log) /\ Len(log) \in Nat
        BY <2>1, <4>1, InPlaceSeqs
      <4> QED BY <4>2 DEF DownClosed
    <3> QED BY <3>1, <3>2
  <2> QED BY <2>1, <2>2, Bounds
<1> QED BY LogInvariant, <1>1, PTL

\* "keine Duplikate": two events share a number only after an overlap, or a
\* start_workflow that raced with another.
THEOREM LogHasNoDuplicates == Spec => []NoDuplicates
<1>1. LogInv => NoDuplicates
  <2> SUFFICES ASSUME LogInv, Calm(damage)
               PROVE  Cardinality(SeqsOf(log)) = Len(log)
    BY DEF NoDuplicates, Calm
  <2>1. log \in Seq(Event) /\ InPlace(log)
    BY DEF LogInv, TypeInv, FileTyped, PositionInv, Position
  <2>2. SeqsOf(log) = 1..Len(log) /\ Len(log) \in Nat
    BY <2>1, InPlaceSeqs
  <2>3. Cardinality(1..Len(log)) = IF 1 > Len(log) THEN 0 ELSE Len(log) - 1 + 1
    BY <2>2, FS_Interval
  <2> QED BY <2>2, <2>3
<1> QED BY LogInvariant, <1>1, PTL

-----------------------------------------------------------------------------
(* Snapshots agree with the log *)

LEMMA AgreesAppend ==
  ASSUME NEW l \in Seq(Event), NEW e \in Event, NEW base, Agrees(base, l)
  PROVE  Agrees(base, Append(l, e))
<1>1. SeqsOf(Append(l, e)) = SeqsOf(l) \cup {e.seq}
  BY AppendSeqs
<1>2. \A k \in SeqsOf(l) : FirstId(Append(l, e), k) = FirstId(l, k)
  BY FirstIdAppend
<1> QED BY <1>1, <1>2 DEF Agrees

\* From a snapshot that agrees with a contiguous log, the whole run comes back.
LEMMA RecoveredIs ==
  ASSUME TypeInv, DownClosed(log), Agrees(snap, log)
  PROVE  \E n \in Nat : /\ SeqsOf(log) = 1..n
                        /\ Recovered = [k \in 1..n |-> FirstId(log, k)]
<1>1. PICK n \in 0..MaxEvents : SeqsOf(log) = 1..n
  BY Bounds
<1>2. n \in Nat
  BY BoundsAssumption
<1>3. log \in Seq(Event) /\ snap \in Seq(Ids)
  BY DEF TypeInv, FileTyped, RunsTyped
<1>4. Replay(snap, log) = [k \in 1..n |-> FirstId(log, k)]
  BY <1>1, <1>2, <1>3, ReplayIs
<1> QED BY <1>1, <1>2, <1>4 DEF Recovered

LEMMA RecoveredAgrees ==
  ASSUME TypeInv, DownClosed(log), Agrees(snap, log)
  PROVE  Agrees(Recovered, log)
<1>1. PICK n \in Nat : /\ SeqsOf(log) = 1..n
                       /\ Recovered = [k \in 1..n |-> FirstId(log, k)]
  BY RecoveredIs
<1>2. Recovered \in Seq(Ids)
  BY ReplayTyped DEF TypeInv, FileTyped, RunsTyped, Recovered
<1>3. DOMAIN Recovered = 1..n /\ DOMAIN Recovered = 1..Len(Recovered)
  BY <1>1, <1>2
<1>4. \A k \in 1..Len(Recovered) : k \in SeqsOf(log) /\ Recovered[k] = FirstId(log, k)
  BY <1>1, <1>3
<1> QED BY <1>4 DEF Agrees

Faithful == Agrees(snap, log) /\ \A p \in Procs : Agrees(run[p], log)

SnapInv == "merged" \notin damage => Faithful

LEMMA RunSteps ==
  ASSUME TypeInv, [Next]_vars
  PROVE  /\ snap' = snap \/ \E p \in Procs : snap' = run[p]
         /\ \A q \in Procs : \/ run'[q] = run[q] \/ run'[q] = <<>>
                             \/ run'[q] = Recovered /\ log' = log
<1>1. run \in [Procs -> Seq(Ids)]
  BY DEF TypeInv, RunsTyped
<1>2. ASSUME NEW p \in Procs,
             StartBegin(p) \/ Acquire(p) \/ SnapshotBegin(p) \/ Step(p) \/ Crash(p)
      PROVE  /\ snap' = snap \/ snap' = run[p]
             /\ \A q \in Procs : \/ run'[q] = run[q] \/ run'[q] = <<>>
                                 \/ run'[q] = Recovered /\ log' = log
  <2>1. \/ run' = run \/ run' = [run EXCEPT ![p] = <<>>]
        \/ run' = [run EXCEPT ![p] = Recovered] /\ log' = log
    BY <1>2 DEF StartBegin, Acquire, SnapshotBegin, Step, Crash, Stat, MkdirAgain, Claim,
       ReadNext, TakeRun, AutoSnapshot, Raises, Return, Release, SnapshotEnd, StartAppend,
       AppendEvent, AppendFails, Ends, file
  <2>2. snap' = snap \/ snap' = run[p]
    BY <1>2 DEF StartBegin, Acquire, SnapshotBegin, Step, Crash, Stat, MkdirAgain, Claim,
       ReadNext, TakeRun, AutoSnapshot, Raises, Return, Release, SnapshotEnd, StartAppend,
       AppendEvent, AppendFails, WriteSnapshot
  <2>3. ASSUME NEW q \in Procs
        PROVE  \/ run'[q] = run[q] \/ run'[q] = <<>>
               \/ run'[q] = Recovered /\ log' = log
    BY <1>1, <2>1
  <2> QED BY <2>2, <2>3
<1>3. CASE Age \/ UNCHANGED vars
  BY <1>3 DEF Age, vars, locals
<1> QED BY <1>2, <1>3 DEF Next

LEMMA NextSnapInv ==
  TypeInv /\ GapInv /\ SnapInv /\ [Next]_vars => SnapInv'
<1> SUFFICES ASSUME TypeInv, GapInv, SnapInv, [Next]_vars, "merged" \notin damage'
             PROVE  Faithful'
  BY DEF SnapInv
<1>1. "merged" \notin damage
  BY DamageGrows
<1>2. DownClosed(log) /\ Agrees(snap, log) /\ \A p \in Procs : Agrees(run[p], log)
  BY <1>1 DEF GapInv, Contiguous, SnapInv, Faithful
<1>3. \A base : Agrees(base, log) => Agrees(base, log')
  <2>1. ASSUME NEW p \in Procs, NEW s \in 1..(lines + 1), Added(s), NEW base, Agrees(base, log)
        PROVE  Agrees(base, log')
    <3>1. PICK e \in Event : log' = Append(log, e)
      BY <2>1, AddedLine
    <3> QED BY <2>1, <3>1, AgreesAppend DEF TypeInv, FileTyped
  <2>2. log' = log => \A base : Agrees(base, log) => Agrees(base, log')
    OBVIOUS
  <2> QED BY <2>1, <2>2, LogSteps
<1>4. Agrees(<<>>, log) /\ Agrees(Recovered, log)
  BY <1>2, RecoveredAgrees DEF Agrees
<1>5. Agrees(snap', log')
  BY <1>2, <1>3, RunSteps
<1>6. ASSUME NEW q \in Procs PROVE Agrees(run'[q], log')
  <2>1. run'[q] = run[q] \/ run'[q] = <<>> \/ run'[q] = Recovered
    BY RunSteps
  <2> QED BY <1>2, <1>3, <1>4, <2>1
<1> QED BY <1>5, <1>6 DEF Faithful

-----------------------------------------------------------------------------
(* Nothing that returned is lost *)

Has(l, c) == \E i \in DOMAIN l : l[i].id = c

\* A transition whose line is complete.
HasAppended(p) == pc[p] \in {"snapshot", "autowrite", "return"}

AllKept ==
  /\ \A c \in committed : Has(log, c)
  /\ \A p \in Procs : HasAppended(p) => Has(log, mine[p])

KeptInv == damage = {} => AllKept

LEMMA HasAppend ==
  ASSUME NEW l \in Seq(Event), NEW e \in Event
  PROVE  /\ \A c : Has(l, c) => Has(Append(l, e), c)
         /\ Has(Append(l, e), e.id)
<1> DEFINE a == Append(l, e)
<1>1. /\ DOMAIN a = 1..(Len(l) + 1) /\ DOMAIN l = 1..Len(l) /\ Len(l) \in Nat
      /\ \A i \in 1..Len(l) : a[i] = l[i]
      /\ a[Len(l) + 1] = e
  BY AppendProperties, LenProperties
<1>2. \A i \in DOMAIN l : i \in DOMAIN a /\ a[i] = l[i]
  BY <1>1
<1>3. Len(l) + 1 \in DOMAIN a
  BY <1>1
<1> HIDE DEF a
<1>4. (\A c : Has(l, c) => Has(a, c)) /\ Has(a, e.id)
  BY <1>1, <1>2, <1>3 DEF Has
<1> QED BY <1>4 DEF a

\* A line that does not run into another is there when AppendEvent is over.
LEMMA AppendedLine ==
  ASSUME TypeInv, NEW p \in Procs, AppendEvent(p), "merged" \notin damage'
  PROVE  Has(log', lines + 1)
<1>1. PICK s : s = next[p]
  OBVIOUS
<1>2. AppendLine(s, {}) /\ Writes(p, s)
  BY <1>1 DEF AppendEvent, Writes
<1>3. Added(s)
  <2>1. torn = "no"
    <3>1. torn # "no" => damage' = damage \cup {} \cup {"merged"}
      BY <1>2 DEF AppendLine
    <3> QED BY <3>1
  <2> QED BY <1>2, <2>1 DEF AppendLine, Added
<1>4. s \in 1..(lines + 1)
  BY <1>2, WritesWithin
<1>5. PICK e \in Event : e.id = lines + 1 /\ log' = Append(log, e)
  BY <1>3, <1>4, AddedLine
<1> QED BY <1>5, HasAppend DEF TypeInv, FileTyped

LEMMA MineSteps ==
  ASSUME TypeInv, [Next]_vars, NEW q \in Procs, HasAppended(q)'
  PROVE  \/ HasAppended(q) /\ mine'[q] = mine[q]
         \/ AppendEvent(q) /\ mine'[q] = lines + 1
<1>1. pc \in [Procs -> Places] /\ mine \in [Procs -> 0..MaxEvents]
  BY DEF TypeInv, LocalsTyped
<1>2. ASSUME NEW p \in Procs,
             StartBegin(p) \/ Acquire(p) \/ SnapshotBegin(p) \/ Step(p) \/ Crash(p)
      PROVE  \/ HasAppended(q) /\ mine'[q] = mine[q]
             \/ AppendEvent(q) /\ mine'[q] = lines + 1
  <2>1. PICK l \in Places :
          /\ pc' = [pc EXCEPT ![p] = l]
          /\ l \in {"snapshot", "autowrite", "return"} =>
               AppendEvent(p) \/ (HasAppended(p) /\ mine' = mine)
    <3>1. CASE AppendEvent(p)
      BY <3>1 DEF AppendEvent, Goto, Places, CriticalPcs
    <3>2. CASE TakeRun(p) \/ AutoSnapshot(p)
      BY <3>2 DEF TakeRun, AutoSnapshot, Goto, Places, CriticalPcs, HasAppended
    <3>3. CASE ~AppendEvent(p) /\ ~TakeRun(p) /\ ~AutoSnapshot(p)
      <4>1. \E l \in Places \ {"snapshot", "autowrite", "return"} : pc' = [pc EXCEPT ![p] = l]
        BY <1>2, <3>3 DEF StartBegin, Acquire, SnapshotBegin, Step, Crash, Stat, MkdirAgain,
           Claim, ReadNext, Raises, Return, Release, SnapshotEnd, StartAppend,
           AppendFails, AfterFailedAppend, Ends, Goto, Places, CriticalPcs
      <4> QED BY <4>1
    <3> QED BY <3>1, <3>2, <3>3
  <2>2. \/ mine' = mine \/ mine' = [mine EXCEPT ![p] = 0]
        \/ mine' = [mine EXCEPT ![p] = lines + 1]
    BY <1>2 DEF StartBegin, Acquire, SnapshotBegin, Step, Crash, Stat, MkdirAgain, Claim,
       ReadNext, TakeRun, AutoSnapshot, Raises, Return, Release, SnapshotEnd, StartAppend,
       AppendEvent, AppendFails, AppendLine, Ends
  <2>3. CASE q = p
    <3>1. AppendEvent(p) => mine' = [mine EXCEPT ![p] = lines + 1]
      BY DEF AppendEvent
    <3> QED BY <1>1, <2>1, <2>3, <3>1 DEF HasAppended
  <2>4. CASE q # p
    <3>1. pc'[q] = pc[q] /\ mine'[q] = mine[q]
      BY <1>1, <2>1, <2>2, <2>4
    <3> QED BY <3>1 DEF HasAppended
  <2> QED BY <2>3, <2>4
<1>3. CASE Age \/ UNCHANGED vars
  BY <1>3 DEF Age, vars, locals, HasAppended
<1> QED BY <1>2, <1>3 DEF Next

LEMMA CommittedSteps ==
  ASSUME [Next]_vars
  PROVE  \/ committed' = committed
         \/ \E p \in Procs : HasAppended(p) /\ committed' = committed \cup {mine[p]}
<1>1. ASSUME NEW p \in Procs,
             StartBegin(p) \/ Acquire(p) \/ SnapshotBegin(p) \/ Step(p) \/ Crash(p)
      PROVE  \/ committed' = committed
             \/ HasAppended(p) /\ committed' = committed \cup {mine[p]}
  BY <1>1 DEF StartBegin, Acquire, SnapshotBegin, Step, Crash, Stat, MkdirAgain, Claim,
     ReadNext, TakeRun, AutoSnapshot, Raises, Return, Release, SnapshotEnd, StartAppend,
     AppendEvent, AppendFails, HasAppended
<1>2. CASE Age \/ UNCHANGED vars
  BY <1>2 DEF Age, vars
<1> QED BY <1>1, <1>2 DEF Next

LEMMA NextKeptInv == TypeInv /\ KeptInv /\ [Next]_vars => KeptInv'
<1> SUFFICES ASSUME TypeInv, KeptInv, [Next]_vars, damage' = {}
             PROVE  AllKept'
  BY DEF KeptInv
<1>1. damage = {} /\ "merged" \notin damage'
  BY DamageGrows
<1>2. (\A c \in committed : Has(log, c)) /\ \A p \in Procs : HasAppended(p) => Has(log, mine[p])
  BY <1>1 DEF KeptInv, AllKept
<1>3. \A c : Has(log, c) => Has(log', c)
  <2>1. ASSUME NEW s \in 1..(lines + 1), Added(s) PROVE \A c : Has(log, c) => Has(log', c)
    <3>1. PICK e \in Event : log' = Append(log, e)
      BY <2>1, AddedLine
    <3> QED BY <3>1, HasAppend DEF TypeInv, FileTyped
  <2>2. log' = log => \A c : Has(log, c) => Has(log', c)
    OBVIOUS
  <2> QED BY <1>1, <2>1, <2>2, LogSteps
<1>4. \A c \in committed' : Has(log', c)
  BY <1>2, <1>3, CommittedSteps
<1>5. ASSUME NEW q \in Procs, HasAppended(q)' PROVE Has(log', mine'[q])
  <2>1. CASE HasAppended(q) /\ mine'[q] = mine[q]
    BY <1>2, <1>3, <2>1
  <2>2. CASE AppendEvent(q) /\ mine'[q] = lines + 1
    BY <1>1, <2>2, AppendedLine
  <2> QED BY <1>5, <2>1, <2>2, MineSteps
<1> QED BY <1>4, <1>5 DEF AllKept

-----------------------------------------------------------------------------
(* What a recovery rebuilds *)

RecoveryInv == LogInv /\ SnapInv /\ KeptInv

LEMMA RecoveryInvariant == Spec => []RecoveryInv
<1>1. Init => SnapInv /\ KeptInv
  BY DEF Init, SnapInv, KeptInv, Faithful, AllKept, Agrees, HasAppended
<1>2. LogInv /\ RecoveryInv /\ [Next]_vars => SnapInv' /\ KeptInv'
  BY NextSnapInv, NextKeptInv DEF LogInv, RecoveryInv
<1> QED BY <1>1, <1>2, LogInvariant, PTL DEF Spec, RecoveryInv

\* The run rebuilt from the snapshot and the events after it is the run
\* rebuilt from the whole log, however many processes snapshot it at whatever
\* moment, unless a line was appended to an unfinished one.
THEOREM SnapshotsFaithful == Spec => []SnapshotFaithful
<1>1. RecoveryInv => SnapshotFaithful
  <2> SUFFICES ASSUME RecoveryInv, "merged" \notin damage
               PROVE  Recovered = Replay(<<>>, log)
    BY DEF SnapshotFaithful
  <2>1. TypeInv /\ DownClosed(log) /\ Agrees(snap, log)
    BY DEF RecoveryInv, LogInv, GapInv, Contiguous, SnapInv, Faithful
  <2>2. PICK n \in Nat : /\ SeqsOf(log) = 1..n
                         /\ Recovered = [k \in 1..n |-> FirstId(log, k)]
    BY <2>1, RecoveredIs
  <2>3. log \in Seq(Event) /\ <<>> \in Seq(Ids) /\ Agrees(<<>>, log)
    BY <2>1 DEF TypeInv, FileTyped, Agrees
  <2>4. Replay(<<>>, log) = [k \in 1..n |-> FirstId(log, k)]
    BY <2>2, <2>3, ReplayIs
  <2> QED BY <2>2, <2>4
<1> QED BY RecoveryInvariant, <1>1, PTL

\* The event of a transition that returned is part of every later run, unless
\* a stale lock was claimed under its holder, a start was late or a line ran
\* into another.
THEOREM CommitsKept == Spec => []CommittedKept
<1>1. RecoveryInv => CommittedKept
  <2> SUFFICES ASSUME RecoveryInv, damage = {}, NEW c \in committed
               PROVE  c \in ToSet(Recovered)
    BY DEF CommittedKept
  <2>1. TypeInv /\ log \in Seq(Event) /\ InPlace(log) /\ DownClosed(log) /\ Agrees(snap, log)
    BY DEF RecoveryInv, LogInv, TypeInv, FileTyped, GapInv, Contiguous, PositionInv, Position,
           Calm, SnapInv, Faithful
  <2>2. PICK i \in DOMAIN log : log[i].id = c
    BY DEF RecoveryInv, KeptInv, AllKept, Has
  <2>3. PICK n \in Nat : /\ SeqsOf(log) = 1..n
                         /\ Recovered = [k \in 1..n |-> FirstId(log, k)]
    BY <2>1, RecoveredIs
  <2>4. log[i].seq = i /\ \A j \in 1..(i - 1) : log[j].seq # log[i].seq
    <3>1. i \in 1..Len(log) /\ Len(log) \in Nat /\ DOMAIN log = 1..Len(log)
      BY <2>1
    <3>2. \A j \in 1..(i - 1) : j \in DOMAIN log /\ j # i
      BY <3>1
    <3> QED BY <2>1, <3>2 DEF InPlace
  <2>5. FirstId(log, i) = c
    BY <2>1, <2>2, <2>4, FirstIdIs
  <2>6. i \in 1..n
    BY <2>3, <2>4 DEF SeqsOf
  <2>7. i \in DOMAIN Recovered /\ Recovered[i] = c
    BY <2>3, <2>5, <2>6
  <2> QED BY <2>7 DEF ToSet
<1> QED BY RecoveryInvariant, <1>1, PTL
=============================================================================
