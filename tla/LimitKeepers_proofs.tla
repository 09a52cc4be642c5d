------------------------ MODULE LimitKeepers_proofs ------------------------
(***************************************************************************)
(* That the limits of LimitKeepers hold, and that its decisions are sound: *)
(* for each class an inductive invariant, which its own steps keep and the *)
(* steps of the others do not touch, and at the end all of them together.  *)
(***************************************************************************)
EXTENDS LimitKeepers, FiniteSetTheorems, SequenceTheorems, WellFoundedInduction, TLAPS

LEMMA AssumptionsHold ==
  /\ FlowAssumption /\ BucketAssumption /\ SagaAssumption /\ ChaosAssumption
  /\ GuestAssumption /\ ShardAssumption /\ SignalAssumption
  /\ OverAssumption /\ RollAssumption /\ BusAssumption /\ ApaleoAssumption
  /\ HomeoAssumption
BY Assumptions, Zenon

\* A finite set with one more or one less element.
LEMMA OneMore ==
  ASSUME NEW S, IsFiniteSet(S), NEW x, x \notin S, NEW T, T = S \cup {x}
  PROVE  IsFiniteSet(T) /\ Cardinality(T) = Cardinality(S) + 1 /\ Cardinality(S) \in Nat
BY FS_AddElement, FS_CardinalityType

LEMMA OneLess ==
  ASSUME NEW S, IsFiniteSet(S), NEW x \in S, NEW T, T = S \ {x}
  PROVE  IsFiniteSet(T) /\ Cardinality(T) = Cardinality(S) - 1 /\ Cardinality(S) \in Nat
BY FS_RemoveElement, FS_CardinalityType

LEMMA PartIsSmaller ==
  ASSUME NEW S, IsFiniteSet(S), NEW T, T \subseteq S
  PROVE  IsFiniteSet(T) /\ Cardinality(T) <= Cardinality(S) /\ Cardinality(T) \in Nat
         /\ Cardinality(S) \in Nat
BY FS_Subset, FS_CardinalityType

-----------------------------------------------------------------------------
(* Sums over finite sets, and the elements of a sequence at chosen places. *)

LEMMA LessIsWellFounded == IsWellFoundedOn({ss \in Nat \X Nat : ss[1] < ss[2]}, Nat)
BY NatLessThanWellFounded, Zenon DEF OpToRel

\* A set of naturals that is not empty has a least element.
LEMMA LeastOf ==
  ASSUME NEW T, T \subseteq Nat, T # {}
  PROVE  \E x \in T : \A y \in T : x <= y
<1> DEFINE R == {ss \in Nat \X Nat : ss[1] < ss[2]}
<1>1. IsWellFoundedOn(R, Nat)
  BY LessIsWellFounded
<1>2. \A x, y \in T : <<y, x>> \notin R => x <= y
  OBVIOUS
<1> HIDE DEF R
<1>3. \E x \in T : \A y \in T : ~ (<<y, x>> \in R)
  BY <1>1, WFMin, Zenon
<1> QED BY <1>2, <1>3

\* What holds of 0, and of a number if it holds of those below, is a set of all naturals.
LEMMA AllNaturals ==
  ASSUME NEW T, 0 \in T, \A n \in Nat : n \in T => n + 1 \in T
  PROVE  Nat \subseteq T
<1> SUFFICES ASSUME Nat \ T # {} PROVE FALSE
  OBVIOUS
<1>1. PICK x \in Nat \ T : \A y \in Nat \ T : x <= y
  BY LeastOf
<1>2. x # 0 /\ x - 1 \in Nat
  BY <1>1
<1>3. x - 1 \in T
  BY <1>1, <1>2
<1>4. (x - 1) + 1 \in T
  BY <1>2, <1>3
<1> QED BY <1>1, <1>4

\* The sum of f over S, as the folds of the models compute it.
SumOver(f, S) ==
  LET iter[s \in SUBSET S] ==
        IF s = {} THEN 0 ELSE LET x == CHOOSE x \in s : TRUE IN f[x] + iter[s \ {x}]
  IN  iter[S]

\* The equation of that fold, on the subsets of at most n elements.
Sums(f, S, n) == {g \in [{s \in SUBSET S : Cardinality(s) <= n} -> Int] :
  \A s \in SUBSET S : Cardinality(s) <= n =>
    g[s] = IF s = {} THEN 0 ELSE f[CHOOSE x \in s : TRUE] + g[s \ {CHOOSE x \in s : TRUE}]}

LEMMA SumsExist ==
  ASSUME NEW S, IsFiniteSet(S), NEW f, \A x \in S : f[x] \in Int, NEW n \in Nat
  PROVE  Sums(f, S, n) # {}
<1> DEFINE T == {m \in Nat : Sums(f, S, m) # {}}
           First(s) == CHOOSE x \in s : TRUE
           Part(m) == {s \in SUBSET S : Cardinality(s) <= m}
<1>1. \A s \in SUBSET S : /\ IsFiniteSet(s) /\ Cardinality(s) \in Nat /\ (Cardinality(s) = 0 <=> s = {})
                          /\ s # {} => First(s) \in s /\ Cardinality(s \ {First(s)}) = Cardinality(s) - 1
  <2> TAKE s \in SUBSET S
  <2>1. IsFiniteSet(s)
    BY FS_Subset
  <2>2. s # {} => First(s) \in s
    OBVIOUS
  <2> QED BY <2>1, <2>2, FS_CardinalityType, FS_EmptySet, FS_RemoveElement
<1>2. \A m : Sums(f, S, m) = {g \in [Part(m) -> Int] : \A s \in SUBSET S : Cardinality(s) <= m =>
                 g[s] = IF s = {} THEN 0 ELSE f[First(s)] + g[s \ {First(s)}]}
  BY DEF Sums
<1> HIDE DEF First
<1>3. 0 \in T
  <2> DEFINE g == [s \in Part(0) |-> 0]
  <2>1. g \in [Part(0) -> Int]
    OBVIOUS
  <2>2. ASSUME NEW s \in SUBSET S, Cardinality(s) <= 0 PROVE s = {}
    <3>1. Cardinality(s) \in Nat /\ (Cardinality(s) = 0 <=> s = {})
      BY <1>1
    <3> QED BY <2>2, <3>1
  <2>3. {} \in Part(0)
    BY FS_EmptySet
  <2>4. g \in Sums(f, S, 0)
    BY <1>2, <2>1, <2>2, <2>3
  <2> QED BY <2>4
<1>4. ASSUME NEW m \in Nat, m \in T PROVE m + 1 \in T
  <2>1. PICK h : h \in Sums(f, S, m)
    BY <1>4
  <2>2. /\ h \in [Part(m) -> Int]
        /\ \A s \in SUBSET S : Cardinality(s) <= m =>
                 h[s] = IF s = {} THEN 0 ELSE f[First(s)] + h[s \ {First(s)}]
    BY <1>2, <2>1
  <2> DEFINE g == [s \in Part(m + 1) |-> IF s = {} THEN 0 ELSE f[First(s)] + h[s \ {First(s)}]]
  <2>3. ASSUME NEW s \in SUBSET S, Cardinality(s) <= m + 1, s # {}
        PROVE  /\ s \in Part(m + 1) /\ s \ {First(s)} \in Part(m) /\ s \ {First(s)} \in Part(m + 1)
               /\ f[First(s)] \in Int /\ h[s \ {First(s)}] \in Int
    BY <1>1, <2>2, <2>3
  <2>4. g \in [Part(m + 1) -> Int]
    BY <2>3
  <2>5. ASSUME NEW s \in Part(m) PROVE s \in Part(m + 1) /\ g[s] = h[s]
    <3>1. Cardinality(s) \in Nat /\ Cardinality(s) <= m /\ s \in SUBSET S
      BY <1>1
    <3>2. s \in Part(m + 1)
      BY <3>1
    <3> QED BY <2>2, <3>1, <3>2
  <2>6. ASSUME NEW s \in SUBSET S, Cardinality(s) <= m + 1
        PROVE  g[s] = IF s = {} THEN 0 ELSE f[First(s)] + g[s \ {First(s)}]
    <3>1. s \in Part(m + 1)
      BY <2>6
    <3>2. CASE s = {}
      BY <3>1, <3>2
    <3>3. CASE s # {}
      <4>1. g[s \ {First(s)}] = h[s \ {First(s)}]
        BY <2>3, <2>5, <2>6, <3>3
      <4>2. g[s] = f[First(s)] + h[s \ {First(s)}]
        BY <3>1, <3>3
      <4> QED BY <3>3, <4>1, <4>2
    <3> QED BY <3>2, <3>3
  <2> HIDE DEF g
  <2>7. g \in Sums(f, S, m + 1)
    BY <1>2, <2>4, <2>6
  <2> QED BY <2>7
<1> HIDE DEF T
<1>5. n \in T
  BY <1>3, <1>4, AllNaturals
<1> QED BY <1>5 DEF T

SolvesSum(f, S, g) ==
  /\ \A s \in SUBSET S : g[s] \in Int
  /\ \A s \in SUBSET S : g[s] = IF s = {} THEN 0 ELSE
       f[CHOOSE x \in s : TRUE] + g[s \ {CHOOSE x \in s : TRUE}]

\* Any function that solves the equation of the fold gives the same sum.
LEMMA SumSolves ==
  ASSUME NEW S, IsFiniteSet(S), NEW f, \A x \in S : f[x] \in Int
  PROVE  \E g : SolvesSum(f, S, g) /\ SumOver(f, S) = g[S]
<1> DEFINE Solves(g) == g = [s \in SUBSET S |-> IF s = {} THEN 0 ELSE
                               f[CHOOSE x \in s : TRUE] + g[s \ {CHOOSE x \in s : TRUE}]]
           it == CHOOSE g : Solves(g)
<1>1. SumOver(f, S) = it[S]
  BY DEF SumOver
<1>2. Cardinality(S) \in Nat /\ \A s \in SUBSET S : Cardinality(s) <= Cardinality(S)
  BY FS_CardinalityType, FS_Subset
<1>3. PICK h : h \in Sums(f, S, Cardinality(S))
  BY <1>2, SumsExist
<1>4. /\ h \in [SUBSET S -> Int]
      /\ \A s \in SUBSET S : h[s] = IF s = {} THEN 0 ELSE
                      f[CHOOSE x \in s : TRUE] + h[s \ {CHOOSE x \in s : TRUE}]
  <2>1. {s \in SUBSET S : Cardinality(s) <= Cardinality(S)} = SUBSET S
    BY <1>2
  <2> QED BY <1>2, <1>3, <2>1 DEF Sums
<1>5. Solves(h)
  BY <1>4
<1>6. Solves(it)
  BY <1>5
<1> HIDE DEF it
<1>7. \A s \in SUBSET S : it[s] = IF s = {} THEN 0 ELSE
                      f[CHOOSE x \in s : TRUE] + it[s \ {CHOOSE x \in s : TRUE}]
  BY <1>6
<1>8. \A s \in SUBSET S : it[s] \in Int
  <2> DEFINE T == {n \in Nat : \A s \in SUBSET S : Cardinality(s) = n => it[s] \in Int}
  <2>1. \A s \in SUBSET S : IsFiniteSet(s) /\ Cardinality(s) \in Nat /\ (Cardinality(s) = 0 <=> s = {})
    BY FS_Subset, FS_CardinalityType, FS_EmptySet
  <2>2. 0 \in T
    <3>1. it[{}] = 0
      BY <1>7
    <3> QED BY <2>1, <3>1
  <2>3. ASSUME NEW n \in Nat, n \in T PROVE n + 1 \in T
    <3> SUFFICES ASSUME NEW s \in SUBSET S, Cardinality(s) = n + 1 PROVE it[s] \in Int
      OBVIOUS
    <3>1. s # {}
      BY <2>1
    <3> DEFINE c == CHOOSE x \in s : TRUE
    <3>2. c \in s
      BY <3>1
    <3>3. it[s] = f[c] + it[s \ {c}]
      BY <1>7, <3>1
    <3> HIDE DEF c
    <3>4. Cardinality(s \ {c}) = n
      <4>1. IsFiniteSet(s)
        BY <2>1
      <4>2. n \in Nat
        BY <2>3
      <4>3. Cardinality(s \ {c}) = Cardinality(s) - 1
        BY <3>2, <4>1, FS_RemoveElement
      <4> QED BY <4>2, <4>3
    <3>5. it[s \ {c}] \in Int
      BY <2>3, <3>4
    <3> QED BY <3>2, <3>3, <3>5
  <2> HIDE DEF T
  <2>4. Nat \subseteq T
    BY <2>2, <2>3, AllNaturals
  <2> QED BY <2>1, <2>4 DEF T
<1> QED BY <1>1, <1>7, <1>8 DEF SolvesSum

LEMMA SumOfNone ==
  ASSUME NEW f  PROVE SumOver(f, {}) = 0
<1>1. IsFiniteSet({}) /\ \A x \in {} : f[x] \in Int
  BY FS_EmptySet
<1>2. PICK g : SolvesSum(f, {}, g) /\ SumOver(f, {}) = g[{}]
  BY <1>1, SumSolves
<1> QED BY <1>2 DEF SolvesSum

LEMMA SumIsInt ==
  ASSUME NEW S, IsFiniteSet(S), NEW f, \A x \in S : f[x] \in Int
  PROVE  SumOver(f, S) \in Int
<1>1. PICK g : SolvesSum(f, S, g) /\ SumOver(f, S) = g[S]
  BY SumSolves
<1> QED BY <1>1 DEF SolvesSum

\* The fold's own step, between two sets.
LEMMA SumStep ==
  ASSUME NEW S, IsFiniteSet(S), NEW f, \A x \in S : f[x] \in Int, S # {}
  PROVE  \E x \in S : SumOver(f, S) = f[x] + SumOver(f, S \ {x})
<1> DEFINE c(s) == CHOOSE x \in s : TRUE
           x == c(S)
<1>0. \A s : s # {} => c(s) \in s
  OBVIOUS
<1>1. PICK g : SolvesSum(f, S, g) /\ SumOver(f, S) = g[S]
  BY SumSolves
<1>2. \A s \in SUBSET S : g[s] = IF s = {} THEN 0 ELSE f[c(s)] + g[s \ {c(s)}]
  BY <1>1 DEF SolvesSum
<1> HIDE DEF c
<1>3. x \in S /\ IsFiniteSet(S \ {x}) /\ \A y \in S \ {x} : f[y] \in Int
  BY <1>0, FS_RemoveElement
<1>4. PICK h : SolvesSum(f, S \ {x}, h) /\ SumOver(f, S \ {x}) = h[S \ {x}]
  BY <1>3, SumSolves
<1>6. \A s \in SUBSET (S \ {x}) : h[s] = IF s = {} THEN 0 ELSE f[c(s)] + h[s \ {c(s)}]
  BY <1>4 DEF SolvesSum, c
<1>5. \A s \in SUBSET (S \ {x}) : g[s] = h[s]
  <2> DEFINE T == {n \in Nat : \A s \in SUBSET (S \ {x}) : Cardinality(s) = n => g[s] = h[s]}
  <2>1. \A s \in SUBSET (S \ {x}) : IsFiniteSet(s) /\ Cardinality(s) \in Nat /\ (Cardinality(s) = 0 <=> s = {})
    BY <1>3, FS_Subset, FS_CardinalityType, FS_EmptySet
  <2>2. 0 \in T
    <3>1. g[{}] = 0 /\ h[{}] = 0
      BY <1>2, <1>6
    <3> QED BY <2>1, <3>1
  <2>3. ASSUME NEW n \in Nat, n \in T PROVE n + 1 \in T
    <3> SUFFICES ASSUME NEW s \in SUBSET (S \ {x}), Cardinality(s) = n + 1 PROVE g[s] = h[s]
      OBVIOUS
    <3>0. n \in Nat
      BY <2>3
    <3>1. s # {}
      BY <2>1, <3>0
    <3>2. c(s) \in s
      BY <1>0, <3>1
    <3>3. g[s] = f[c(s)] + g[s \ {c(s)}] /\ h[s] = f[c(s)] + h[s \ {c(s)}]
      BY <1>2, <1>6, <3>1
    <3>4. Cardinality(s \ {c(s)}) = n
      <4>1. IsFiniteSet(s)
        BY <2>1
      <4>2. Cardinality(s \ {c(s)}) = Cardinality(s) - 1
        BY <3>2, <4>1, FS_RemoveElement
      <4> QED BY <3>0, <4>2
    <3>5. g[s \ {c(s)}] = h[s \ {c(s)}]
      BY <2>3, <3>4
    <3> QED BY <3>3, <3>5
  <2> HIDE DEF T
  <2>4. Nat \subseteq T
    BY <2>2, <2>3, AllNaturals
  <2>5. ASSUME NEW s \in SUBSET (S \ {x}) PROVE g[s] = h[s]
    <3>1. Cardinality(s) \in T
      BY <2>1, <2>4
    <3> QED BY <3>1 DEF T
  <2> QED BY <2>5
<1> QED BY <1>0, <1>1, <1>2, <1>3, <1>4, <1>5

\* Any element can be taken from a sum.
LEMMA SumTake ==
  ASSUME NEW S, IsFiniteSet(S), NEW f, \A x \in S : f[x] \in Int, NEW y \in S
  PROVE  SumOver(f, S) = f[y] + SumOver(f, S \ {y})
<1> DEFINE T == {n \in Nat : \A U \in SUBSET S : Cardinality(U) = n =>
                   \A z \in U : SumOver(f, U) = f[z] + SumOver(f, U \ {z})}
<1>1. \A U \in SUBSET S : /\ IsFiniteSet(U) /\ Cardinality(U) \in Nat /\ (Cardinality(U) = 0 <=> U = {})
                          /\ SumOver(f, U) \in Int
  BY FS_Subset, FS_CardinalityType, FS_EmptySet, SumIsInt
<1>2. 0 \in T
  BY <1>1
<1>3. ASSUME NEW n \in Nat, n \in T PROVE n + 1 \in T
  <2> SUFFICES ASSUME NEW U \in SUBSET S, Cardinality(U) = n + 1, NEW z \in U
               PROVE  SumOver(f, U) = f[z] + SumOver(f, U \ {z})
    OBVIOUS
  <2>1. PICK x \in U : SumOver(f, U) = f[x] + SumOver(f, U \ {x})
    BY <1>1, SumStep
  <2>2. CASE x = z
    BY <2>1, <2>2
  <2>3. CASE x # z
    <3>0. n \in Nat /\ IsFiniteSet(U)
      BY <1>1, <1>3
    <3>1. Cardinality(U \ {x}) = Cardinality(U) - 1 /\ Cardinality(U \ {z}) = Cardinality(U) - 1
      BY <3>0, FS_RemoveElement
    <3>2. Cardinality(U \ {x}) = n /\ Cardinality(U \ {z}) = n
      BY <3>0, <3>1
    <3>3. SumOver(f, U \ {x}) = f[z] + SumOver(f, (U \ {x}) \ {z})
      BY <1>3, <2>3, <3>2
    <3>4. SumOver(f, U \ {z}) = f[x] + SumOver(f, (U \ {z}) \ {x})
      BY <1>3, <2>3, <3>2
    <3>5. (U \ {x}) \ {z} = (U \ {z}) \ {x}
      OBVIOUS
    <3>6. SumOver(f, (U \ {x}) \ {z}) \in Int
      BY <1>1
    <3>7. SumOver(f, U) = f[x] + (f[z] + SumOver(f, (U \ {x}) \ {z}))
      BY <2>1, <3>3
    <3>8. SumOver(f, U \ {z}) = f[x] + SumOver(f, (U \ {x}) \ {z})
      BY <3>4, <3>5
    <3> QED BY <3>6, <3>7, <3>8
  <2> QED BY <2>2, <2>3
<1> HIDE DEF T
<1>4. Nat \subseteq T
  BY <1>2, <1>3, AllNaturals
<1>5. Cardinality(S) \in T
  BY <1>1, <1>4
<1> QED BY <1>5 DEF T

\* Sums compare as their terms do.
LEMMA SumAtLeast ==
  ASSUME NEW S, IsFiniteSet(S), NEW f, \A x \in S : f[x] \in Int, NEW a \in Int, NEW b \in Int,
         \A x \in S : a * f[x] >= b
  PROVE  a * SumOver(f, S) >= b * Cardinality(S)
<1> DEFINE T == {n \in Nat : \A U \in SUBSET S : Cardinality(U) = n => a * SumOver(f, U) >= b * n}
<1>1. \A U \in SUBSET S : /\ IsFiniteSet(U) /\ Cardinality(U) \in Nat /\ (Cardinality(U) = 0 <=> U = {})
                          /\ SumOver(f, U) \in Int
  BY FS_Subset, FS_CardinalityType, FS_EmptySet, SumIsInt
<1>2. 0 \in T
  <2> SUFFICES ASSUME NEW U \in SUBSET S, Cardinality(U) = 0 PROVE a * SumOver(f, U) >= b * 0
    OBVIOUS
  <2>1. SumOver(f, U) = 0
    BY <1>1, SumOfNone
  <2> QED BY <2>1
<1>3. ASSUME NEW n \in Nat, n \in T PROVE n + 1 \in T
  <2> SUFFICES ASSUME NEW U \in SUBSET S, Cardinality(U) = n + 1
               PROVE  a * SumOver(f, U) >= b * (n + 1)
    OBVIOUS
  <2>0. n \in Nat /\ IsFiniteSet(U) /\ U # {}
    BY <1>1, <1>3
  <2>1. PICK x \in U : TRUE
    BY <2>0
  <2>2. SumOver(f, U) = f[x] + SumOver(f, U \ {x})
    BY <2>0, SumTake
  <2>3. Cardinality(U \ {x}) = n
    <3>1. Cardinality(U \ {x}) = Cardinality(U) - 1
      BY <2>0, FS_RemoveElement
    <3> QED BY <2>0, <3>1
  <2>4. a * SumOver(f, U \ {x}) >= b * n
    BY <1>3, <2>3
  <2>5. SumOver(f, U \ {x}) \in Int /\ f[x] \in Int /\ a * f[x] >= b
    BY <1>1
  <2> DEFINE r == SumOver(f, U \ {x})
             v == f[x]
  <2>6. a * (v + r) = a * v + a * r /\ b * (n + 1) = b * n + b
    BY <2>0, <2>5
  <2>7. a * v \in Int /\ a * r \in Int /\ b * n \in Int
    BY <2>0, <2>5
  <2> QED BY <2>2, <2>4, <2>5, <2>6, <2>7
<1> HIDE DEF T
<1>4. Nat \subseteq T
  BY <1>2, <1>3, AllNaturals
<1>5. Cardinality(S) \in T
  BY <1>1, <1>4
<1> QED BY <1>5 DEF T

LEMMA SumMonotone ==
  ASSUME NEW S, IsFiniteSet(S), NEW f, \A x \in S : f[x] \in Int, NEW g, \A x \in S : g[x] \in Int,
         \A x \in S : f[x] <= g[x]
  PROVE  SumOver(f, S) <= SumOver(g, S)
<1> DEFINE T == {n \in Nat : \A U \in SUBSET S : Cardinality(U) = n => SumOver(f, U) <= SumOver(g, U)}
<1>1. \A U \in SUBSET S : /\ IsFiniteSet(U) /\ Cardinality(U) \in Nat /\ (Cardinality(U) = 0 <=> U = {})
                          /\ SumOver(f, U) \in Int /\ SumOver(g, U) \in Int
  BY FS_Subset, FS_CardinalityType, FS_EmptySet, SumIsInt
<1>2. 0 \in T
  BY <1>1, SumOfNone
<1>3. ASSUME NEW n \in Nat, n \in T PROVE n + 1 \in T
  <2> SUFFICES ASSUME NEW U \in SUBSET S, Cardinality(U) = n + 1
               PROVE  SumOver(f, U) <= SumOver(g, U)
    OBVIOUS
  <2>0. n \in Nat /\ IsFiniteSet(U) /\ U # {}
    BY <1>1, <1>3
  <2>1. PICK x \in U : TRUE
    BY <2>0
  <2>2. SumOver(f, U) = f[x] + SumOver(f, U \ {x}) /\ SumOver(g, U) = g[x] + SumOver(g, U \ {x})
    BY <2>0, SumTake
  <2>3. Cardinality(U \ {x}) = n
    <3>1. Cardinality(U \ {x}) = Cardinality(U) - 1
      BY <2>0, FS_RemoveElement
    <3> QED BY <2>0, <3>1
  <2>4. SumOver(f, U \ {x}) <= SumOver(g, U \ {x})
    BY <1>3, <2>3
  <2>5. SumOver(f, U \ {x}) \in Int /\ SumOver(g, U \ {x}) \in Int /\ f[x] \in Int /\ g[x] \in Int
        /\ f[x] <= g[x]
    BY <1>1
  <2> QED BY <2>2, <2>4, <2>5
<1> HIDE DEF T
<1>4. Nat \subseteq T
  BY <1>2, <1>3, AllNaturals
<1>5. Cardinality(S) \in T
  BY <1>1, <1>4
<1> QED BY <1>5 DEF T

LEMMA SumSame ==
  ASSUME NEW S, IsFiniteSet(S), NEW f, \A x \in S : f[x] \in Int, NEW g, \A x \in S : g[x] = f[x]
  PROVE  SumOver(g, S) = SumOver(f, S)
<1>1. SumOver(f, S) <= SumOver(g, S) /\ SumOver(g, S) <= SumOver(f, S)
  BY SumMonotone
<1> QED BY <1>1, SumIsInt

\* One term changes.
LEMMA SumChanges ==
  ASSUME NEW S, IsFiniteSet(S), NEW f, \A x \in S : f[x] \in Int,
         NEW g, NEW y \in S, g[y] \in Int, \A x \in S \ {y} : g[x] = f[x]
  PROVE  SumOver(g, S) = SumOver(f, S) - f[y] + g[y]
<1>1. IsFiniteSet(S \ {y}) /\ \A x \in S : g[x] \in Int
  BY FS_RemoveElement
<1>2. SumOver(g, S \ {y}) = SumOver(f, S \ {y})
  BY <1>1, SumSame
<1>3. SumOver(f, S) = f[y] + SumOver(f, S \ {y}) /\ SumOver(g, S) = g[y] + SumOver(g, S \ {y})
  BY <1>1, SumTake
<1>4. SumOver(f, S \ {y}) \in Int
  BY <1>1, SumIsInt
<1> QED BY <1>2, <1>3, <1>4

LEMMA SumLess ==
  ASSUME NEW S, IsFiniteSet(S), NEW f, \A x \in S : f[x] \in Int, NEW g, \A x \in S : g[x] \in Int,
         \A x \in S : f[x] <= g[x], NEW y \in S, f[y] < g[y]
  PROVE  SumOver(f, S) < SumOver(g, S)
<1>1. IsFiniteSet(S \ {y})
  BY FS_RemoveElement
<1>2. SumOver(f, S \ {y}) <= SumOver(g, S \ {y})
  BY <1>1, SumMonotone
<1>3. SumOver(f, S) = f[y] + SumOver(f, S \ {y}) /\ SumOver(g, S) = g[y] + SumOver(g, S \ {y})
  BY SumTake
<1>4. SumOver(f, S \ {y}) \in Int /\ SumOver(g, S \ {y}) \in Int
  BY <1>1, SumIsInt
<1> QED BY <1>2, <1>3, <1>4

LEMMA UpTo ==
  ASSUME NEW n \in Nat
  PROVE  IsFiniteSet(1..n) /\ Cardinality(1..n) = n
<1>1. 1 \in Int /\ n \in Int
  OBVIOUS
<1>2. IsFiniteSet(1..n) /\ Cardinality(1..n) = IF 1 > n THEN 0 ELSE n - 1 + 1
  BY <1>1, FS_Interval, Zenon
<1> QED BY <1>2

\* The element of rank n among the numbers of I.
RankIn(I, i) == Cardinality({j \in I : j <= i})
Place(I, n)  == CHOOSE i \in I : RankIn(I, i) = n

LEMMA RankGrows ==
  ASSUME NEW I, I \subseteq Nat, IsFiniteSet(I), NEW i \in I, NEW j \in I
  PROVE  RankIn(I, i) \in 1..Cardinality(I) /\ (i < j <=> RankIn(I, i) < RankIn(I, j))
<1> DEFINE Upto(k) == {m \in I : m <= k}
<1>1. \A k \in I : IsFiniteSet(Upto(k)) /\ Cardinality(Upto(k)) \in Nat
                   /\ Cardinality(Upto(k)) <= Cardinality(I) /\ Cardinality(Upto(k)) > 0
  <2> TAKE k \in I
  <2>1. Upto(k) \subseteq I /\ k \in Upto(k)
    OBVIOUS
  <2> HIDE DEF Upto
  <2>2. IsFiniteSet(Upto(k)) /\ Cardinality(Upto(k)) <= Cardinality(I)
    BY <2>1, FS_Subset
  <2> QED BY <2>1, <2>2, FS_CardinalityType, FS_EmptySet
<1>2. ASSUME NEW x \in I, NEW y \in I, x < y PROVE Cardinality(Upto(x)) < Cardinality(Upto(y))
  <2>0. x \in Nat /\ y \in Nat
    OBVIOUS
  <2>1. Upto(x) \subseteq Upto(y) /\ y \in Upto(y) /\ y \notin Upto(x)
    <3>1. ASSUME NEW m \in I, m <= x PROVE m <= y
      <4>1. m \in Nat
        OBVIOUS
      <4> QED BY <1>2, <2>0, <3>1, <4>1
    <3>2. Upto(x) \subseteq Upto(y)
      BY <3>1
    <3>3. ~(y <= x) /\ y <= y
      BY <1>2, <2>0
    <3> QED BY <3>2, <3>3
  <2> HIDE DEF Upto
  <2>2. /\ Cardinality(Upto(x)) <= Cardinality(Upto(y))
        /\ Cardinality(Upto(x)) = Cardinality(Upto(y)) => Upto(x) = Upto(y)
    BY <1>1, <2>1, FS_Subset
  <2> QED BY <1>1, <2>1, <2>2
<1>3. RankIn(I, i) = Cardinality(Upto(i)) /\ RankIn(I, j) = Cardinality(Upto(j))
  BY DEF RankIn
<1>4. Cardinality(I) \in Nat /\ i \in Nat /\ j \in Nat
  BY FS_CardinalityType
<1> HIDE DEF Upto
<1>5. CASE i < j
  BY <1>1, <1>2, <1>3, <1>4, <1>5
<1>6. CASE j < i
  <2>1. Cardinality(Upto(j)) < Cardinality(Upto(i))
    BY <1>2, <1>6
  <2> QED BY <1>1, <1>3, <1>4, <1>6, <2>1
<1>7. CASE i = j
  BY <1>1, <1>3, <1>4, <1>7
<1> QED BY <1>4, <1>5, <1>6, <1>7

LEMMA PlaceIs ==
  ASSUME NEW I, I \subseteq Nat, IsFiniteSet(I), NEW n \in 1..Cardinality(I)
  PROVE  Place(I, n) \in I /\ RankIn(I, Place(I, n)) = n
<1>0. Cardinality(I) \in Nat
  BY FS_CardinalityType
<1>1. \E i \in I : RankIn(I, i) = n
  <2> DEFINE T == {RankIn(I, i) : i \in I}
             f == [i \in I |-> RankIn(I, i)]
  <2>1. f \in [I -> 1..Cardinality(I)]
    BY RankGrows
  <2>2. \A i, j \in I : f[i] = f[j] => i = j
    <3> TAKE i, j \in I
    <3>0. RankIn(I, i) \in 1..Cardinality(I) /\ RankIn(I, j) \in 1..Cardinality(I)
      BY RankGrows
    <3>1. i \in Nat /\ j \in Nat /\ RankIn(I, i) \in Nat /\ RankIn(I, j) \in Nat
      BY <1>0, <3>0
    <3>2. i < j => RankIn(I, i) < RankIn(I, j)
      BY RankGrows
    <3>3. j < i => RankIn(I, j) < RankIn(I, i)
      BY RankGrows
    <3> QED BY <3>1, <3>2, <3>3
  <2>3. f \in Injection(I, 1..Cardinality(I))
    <3> HIDE DEF f
    <3> QED BY <2>1, <2>2 DEF Injection, IsInjective
  <2>4. IsFiniteSet(1..Cardinality(I)) /\ Cardinality(1..Cardinality(I)) = Cardinality(I)
    BY <1>0, FS_Interval
  <2>5. f \in Surjection(I, 1..Cardinality(I))
    BY <2>3, <2>4, FS_Injection
  <2>6. PICK i \in I : f[i] = n
    <3> HIDE DEF f
    <3> QED BY <2>5 DEF Surjection
  <2> QED BY <2>6
<1> QED BY <1>1 DEF Place

\* The elements of a sequence at the places of I, in their order.
Picked(seq, I) == [n \in 1..Cardinality(I) |-> seq[Place(I, n)]]

LEMMA PickedIs ==
  ASSUME NEW S, NEW s \in Seq(S), NEW I, I \subseteq DOMAIN s
  PROVE  /\ IsFiniteSet(I) /\ Cardinality(I) \in Nat /\ Cardinality(I) <= Len(s)
         /\ Picked(s, I) \in Seq(S) /\ Len(Picked(s, I)) = Cardinality(I)
         /\ DOMAIN Picked(s, I) = 1..Cardinality(I)
         /\ \A n \in 1..Cardinality(I) : Place(I, n) \in I /\ Picked(s, I)[n] = s[Place(I, n)]
         /\ \A i \in I : RankIn(I, i) \in 1..Cardinality(I) /\ Picked(s, I)[RankIn(I, i)] = s[i]
<1>1. DOMAIN s = 1..Len(s) /\ Len(s) \in Nat
  BY LenProperties
<1>2. IsFiniteSet(1..Len(s)) /\ Cardinality(1..Len(s)) = Len(s)
  BY <1>1, UpTo
<1>3. IsFiniteSet(I) /\ Cardinality(I) \in Nat /\ Cardinality(I) <= Len(s) /\ I \subseteq Nat
  BY <1>1, <1>2, FS_Subset, FS_CardinalityType
<1>4. \A n \in 1..Cardinality(I) : Place(I, n) \in I /\ RankIn(I, Place(I, n)) = n /\ s[Place(I, n)] \in S
  BY <1>1, <1>3, PlaceIs, ElementOfSeq
<1>5. Picked(s, I) \in [1..Cardinality(I) -> S]
  BY <1>4 DEF Picked
<1>6. Picked(s, I) \in Seq(S) /\ Len(Picked(s, I)) = Cardinality(I)
  BY <1>3, <1>5
<1>7. ASSUME NEW i \in I
      PROVE  RankIn(I, i) \in 1..Cardinality(I) /\ Picked(s, I)[RankIn(I, i)] = s[i]
  <2>1. RankIn(I, i) \in 1..Cardinality(I)
    BY <1>3, RankGrows
  <2> DEFINE j == Place(I, RankIn(I, i))
  <2>2. j \in I /\ RankIn(I, j) = RankIn(I, i)
    BY <1>4, <2>1
  <2> HIDE DEF j
  <2>3. ~(i < j) /\ ~(j < i)
    BY <1>3, <2>1, <2>2, RankGrows
  <2>4. i = j
    BY <1>3, <2>2, <2>3
  <2> QED BY <2>1, <2>4 DEF j, Picked
<1> QED BY <1>3, <1>4, <1>5, <1>6, <1>7 DEF Picked

-----------------------------------------------------------------------------
(* Backpressure.  A caller that was let through found room for one order; until all of *)
(* them have recorded, what is recorded and what is let through exceed the limit by    *)
(* no more than one each.                                                              *)

Through == {c \in FlowCallers : flowVerdict[c] # None}
Oldest == Flow!Span(Global) = MinSpan /\ Global \notin blurred


FlowInv ==
  /\ flowVerdict \in [FlowCallers -> Flow!Keys \cup {None}]
  /\ DOMAIN buffer = Flow!Keys
  /\ buffer[Global] \in Seq(Int)
  /\ engine = "flow-orders" /\ Oldest =>
       Len(buffer[Global]) + Cardinality(Through) <= FlowLimit * MinSpan + Cardinality(FlowCallers) - 1

LEMMA GlobalIsKey == Global \in Flow!Keys /\ Global # None
BY AssumptionsHold DEF Flow!Keys, FlowAssumption

LEMMA LimitsAreNat ==
  /\ FlowWindow \in Nat /\ FlowWindow > 0 /\ MinSpan \in Nat /\ MinSpan > 0
  /\ FlowLimit \in Nat /\ FlowLimit > 0
  /\ FlowLimit * MinSpan \in Nat /\ FlowLimit * MinSpan > 0
  /\ IsFiniteSet(FlowCallers) /\ Cardinality(FlowCallers) \in Nat
<1>1. /\ FlowWindow \in Nat /\ FlowWindow > 0 /\ MinSpan \in Nat /\ MinSpan > 0
      /\ FlowLimit \in Nat /\ FlowLimit > 0 /\ IsFiniteSet(FlowCallers)
  BY AssumptionsHold DEF FlowAssumption
<1>2. FlowLimit * MinSpan \in Nat /\ FlowLimit * MinSpan > 0
  BY <1>1
<1> QED BY <1>1, <1>2, FS_CardinalityType

LEMMA ThroughFinite ==
  IsFiniteSet(Through) /\ Cardinality(Through) <= Cardinality(FlowCallers) /\ Cardinality(Through) \in Nat
BY LimitsAreNat, PartIsSmaller DEF Through

LEMMA EvaluateStep ==
  ASSUME FlowInv, engine' = engine, engine = "flow-orders", NEW c \in FlowCallers,
         Flow!Evaluate(c, Global)
  PROVE  FlowInv'
<1>1. /\ flowVerdict' = flowVerdict \/ (flowVerdict' = [flowVerdict EXCEPT ![c] = Global] /\ ~Flow!Blocked(Global))
      /\ flowVerdict[c] = None /\ buffer' = buffer /\ blurred' = blurred
  BY DEF Flow!Evaluate, Flow!Classify
<1>2. flowVerdict' \in [FlowCallers -> Flow!Keys \cup {None}]
  BY <1>1, GlobalIsKey DEF FlowInv
<1>3. CASE flowVerdict' = flowVerdict
  BY <1>1, <1>3 DEF FlowInv, Through, Oldest, Flow!Span
<1>4. CASE flowVerdict' = [flowVerdict EXCEPT ![c] = Global] /\ ~Flow!Blocked(Global)
  <2>1. Oldest' = Oldest
    BY <1>1 DEF Oldest, Flow!Span
  <2>2. Oldest => Len(buffer[Global]) <= FlowLimit * MinSpan - 1
    <3>1. Len(buffer[Global]) \in Nat
      BY DEF FlowInv
    <3> QED BY <1>4, <3>1, LimitsAreNat DEF Oldest, Flow!Blocked
  <2>3. Cardinality(Through') <= Cardinality(FlowCallers) /\ Cardinality(Through') \in Nat
    BY LimitsAreNat, PartIsSmaller DEF Through
  <2>4. Oldest => Len(buffer[Global]) + Cardinality(Through')
                    <= FlowLimit * MinSpan + Cardinality(FlowCallers) - 1
    <3>1. Len(buffer[Global]) \in Nat
      BY DEF FlowInv
    <3> QED BY <2>2, <2>3, <3>1, LimitsAreNat
  <2> QED BY <1>1, <1>2, <2>1, <2>4 DEF FlowInv
<1> QED BY <1>1, <1>3, <1>4

LEMMA RecordStep ==
  ASSUME FlowInv, engine' = engine, NEW c \in FlowCallers, Flow!Record(c)
  PROVE  FlowInv'
<1> DEFINE b == buffer[Global]
           mine == {Global} \cup KeysOf[c]
           old == IF Len(b) >= FlowWindow THEN Tail(b) ELSE b
<1>1. flowVerdict[c] # None /\ flowVerdict' = [flowVerdict EXCEPT ![c] = None]
      /\ blurred' = blurred \cup {k \in mine : Len(buffer[k]) >= FlowWindow}
  BY DEF Flow!Record
<1>2. DOMAIN buffer' = Flow!Keys /\ buffer'[Global] = Append(old, 0)
  BY GlobalIsKey DEF Flow!Record
<1>3. b \in Seq(Int) /\ Len(b) \in Nat
  BY DEF FlowInv
<1>4. old \in Seq(Int)
  BY <1>3, LimitsAreNat
<1>5. buffer'[Global] \in Seq(Int)
  BY <1>2, <1>4
<1>6. flowVerdict' \in [FlowCallers -> Flow!Keys \cup {None}]
  BY <1>1 DEF FlowInv
<1>7. Cardinality(Through') = Cardinality(Through) - 1
  <2>1. c \in Through /\ Through' = Through \ {c}
    BY <1>1 DEF Through, FlowInv
  <2> QED BY <2>1, OneLess, ThroughFinite
<1>8. ASSUME Oldest' PROVE Oldest /\ Len(buffer'[Global]) = Len(b) + 1
  <2>1. Global \notin blurred /\ ~(Len(b) >= FlowWindow)
    BY <1>1, <1>8 DEF Oldest
  <2>2. buffer'[Global] = Append(b, 0)
    BY <1>2, <2>1
  <2>3. Len(buffer'[Global]) = Len(b) + 1
    BY <1>3, <2>2
  <2>4. b # <<>> => Head(buffer'[Global]) = Head(b)
    BY <1>3, <2>2
  <2>5. Flow!Span(Global) = MinSpan
    <3>1. buffer'[Global] # <<>>
      BY <1>3, <2>2
    <3>2. IF Head(buffer'[Global]) < MinSpan THEN TRUE ELSE Head(buffer'[Global]) = MinSpan
      BY <1>8, <3>1 DEF Oldest, Flow!Span
    <3> QED BY <2>4, <3>2 DEF Flow!Span
  <2> QED BY <2>1, <2>3, <2>5 DEF Oldest
<1>9. ASSUME engine = "flow-orders", Oldest'
      PROVE  Len(buffer'[Global]) + Cardinality(Through') <= FlowLimit * MinSpan + Cardinality(FlowCallers) - 1
  <2>1. Len(b) + Cardinality(Through) <= FlowLimit * MinSpan + Cardinality(FlowCallers) - 1
    BY <1>8, <1>9 DEF FlowInv
  <2> QED BY <1>3, <1>7, <1>8, <1>9, <2>1, ThroughFinite, LimitsAreNat
<1> QED BY <1>2, <1>5, <1>6, <1>9 DEF FlowInv

LEMMA ResetStep ==
  ASSUME FlowInv, engine' = engine, Flow!ResetFlow
  PROVE  FlowInv'
<1>1. buffer'[Global] = <<>> /\ DOMAIN buffer' = Flow!Keys /\ flowVerdict' = flowVerdict
  BY GlobalIsKey DEF Flow!ResetFlow
<1>2. Through' = Through
  BY <1>1 DEF Through
<1>3. Len(buffer'[Global]) + Cardinality(Through') <= FlowLimit * MinSpan + Cardinality(FlowCallers) - 1
  <2>1. Len(buffer'[Global]) = 0
    BY <1>1
  <2> QED BY <1>2, <2>1, ThroughFinite, LimitsAreNat
<1> QED BY <1>1, <1>3 DEF FlowInv

LEMMA AgeStep ==
  ASSUME FlowInv, engine' = engine, Flow!Age
  PROVE  FlowInv'
<1> DEFINE b == buffer[Global]
           n == Len(b)
<1>1. buffer'[Global] = [i \in DOMAIN b |-> IF b[i] <= MinSpan THEN b[i] + 1 ELSE b[i]]
      /\ DOMAIN buffer' = Flow!Keys /\ flowVerdict' = flowVerdict /\ blurred' = blurred
  BY GlobalIsKey DEF Flow!Age
<1>2. b \in Seq(Int) /\ n \in Nat /\ DOMAIN b = 1..n
  BY DEF FlowInv
<1>3. /\ buffer'[Global] = [i \in 1..n |-> IF b[i] <= MinSpan THEN b[i] + 1 ELSE b[i]]
      /\ \A i \in 1..n : b[i] \in Int
  BY <1>1, <1>2
<1> HIDE DEF b, n
<1>4. buffer'[Global] \in Seq(Int) /\ Len(buffer'[Global]) = n
  <2>1. \A i \in 1..n : (IF b[i] <= MinSpan THEN b[i] + 1 ELSE b[i]) \in Int
    BY <1>3, LimitsAreNat
  <2>2. buffer'[Global] \in [1..n -> Int]
    BY <1>3, <2>1
  <2> QED BY <1>2, <2>2
<1>5. ASSUME Oldest' PROVE Oldest
  <2>1. CASE n = 0
    <3>1. b = <<>>
      BY <1>2, <2>1
    <3> QED BY <1>1, <1>5, <3>1 DEF Oldest, Flow!Span, b
  <2>2. CASE n > 0
    <3>a. 1 \in 1..n
      BY <1>2, <2>2
    <3>b. b[1] \in Int /\ buffer'[Global][1] = IF b[1] <= MinSpan THEN b[1] + 1 ELSE b[1]
      BY <1>3, <3>a
    <3>c. Head(b) = b[1] /\ b # <<>>
      BY <1>2, <2>2
    <3>d. Head(buffer'[Global]) = buffer'[Global][1] /\ buffer'[Global] # <<>>
      BY <1>4, <1>2, <2>2
    <3>1. /\ Head(b) = b[1] /\ Head(buffer'[Global]) = buffer'[Global][1]
          /\ b[1] \in Int /\ buffer'[Global][1] = IF b[1] <= MinSpan THEN b[1] + 1 ELSE b[1]
          /\ buffer'[Global] # <<>> /\ b # <<>>
      BY <3>b, <3>c, <3>d
    <3>2. buffer'[Global][1] <= MinSpan
      BY <1>3, <1>5, <3>1, LimitsAreNat DEF Oldest, Flow!Span
    <3>3. b[1] < MinSpan
      BY <3>1, <3>2, LimitsAreNat
    <3> QED BY <1>1, <1>5, <3>1, <3>3 DEF Oldest, Flow!Span, b
  <2> QED BY <1>2, <2>1, <2>2
<1>6. Through' = Through
  BY <1>1 DEF Through
<1> QED BY <1>1, <1>4, <1>5, <1>6 DEF FlowInv, b, n

LEMMA SetBackStep ==
  ASSUME FlowInv, engine' = engine, Flow!SetBack
  PROVE  FlowInv'
<1> DEFINE b == buffer[Global]
           n == Len(b)
<1>1. /\ buffer'[Global] = [i \in DOMAIN b |-> b[i] - 1]
      /\ DOMAIN buffer' = Flow!Keys /\ flowVerdict' = flowVerdict
      /\ Flow!Span(Global) > MinSpan \/ Global \in blurred => Global \in blurred'
  BY GlobalIsKey DEF Flow!SetBack
<1>2. b \in Seq(Int) /\ n \in Nat /\ DOMAIN b = 1..n
  BY DEF FlowInv
<1>3. /\ buffer'[Global] = [i \in 1..n |-> b[i] - 1]
      /\ \A i \in 1..n : b[i] \in Int
  BY <1>1, <1>2
<1> HIDE DEF b, n
<1>4. buffer'[Global] \in Seq(Int) /\ Len(buffer'[Global]) = n
  BY <1>2, <1>3
<1>5. ASSUME Oldest' PROVE Oldest
  <2>1. ~(Flow!Span(Global) > MinSpan) /\ Global \notin blurred
    BY <1>1, <1>5 DEF Oldest
  <2>2. Flow!Span(Global) \in Int /\ Flow!Span(Global) >= MinSpan
    <3>1. b # <<>> => Head(b) \in Int
      BY <1>2
    <3> QED BY <3>1, LimitsAreNat DEF Flow!Span, b
  <2> QED BY <2>1, <2>2, LimitsAreNat DEF Oldest
<1>6. Through' = Through
  BY <1>1 DEF Through
<1> QED BY <1>1, <1>4, <1>5, <1>6 DEF FlowInv, b, n

\* What the proofs need of one evaluation, whatever axis it is of.
LEMMA EvaluateTyped ==
  ASSUME FlowInv, engine' = engine, engine # "flow-orders", NEW c \in FlowCallers,
         NEW k \in Flow!Keys, Flow!Evaluate(c, k)
  PROVE  FlowInv'
<1>1. /\ flowVerdict' = flowVerdict \/ flowVerdict' = [flowVerdict EXCEPT ![c] = k]
      /\ buffer' = buffer
  BY DEF Flow!Evaluate
<1>2. flowVerdict' \in [FlowCallers -> Flow!Keys \cup {None}]
  BY <1>1 DEF FlowInv
<1> QED BY <1>1, <1>2 DEF FlowInv

LEMMA FlowInvStart ==
  ASSUME Flow!Start  PROVE FlowInv
<1>1. flowVerdict = [c \in FlowCallers |-> None] /\ buffer = [k \in Flow!Keys |-> <<>>]
  BY DEF Flow!Start
<1>2. buffer[Global] = <<>>
  BY <1>1, GlobalIsKey
<1>3. Through = {}
  BY <1>1 DEF Through
<1>4. Len(buffer[Global]) = 0 /\ Cardinality(Through) = 0 /\ buffer[Global] \in Seq(Int)
  BY <1>2, <1>3, FS_EmptySet
<1>5. flowVerdict \in [FlowCallers -> Flow!Keys \cup {None}] /\ DOMAIN buffer = Flow!Keys
  BY <1>1
<1>6. Len(buffer[Global]) + Cardinality(Through) <= FlowLimit * MinSpan + Cardinality(FlowCallers) - 1
  BY <1>4, LimitsAreNat
<1> QED BY <1>4, <1>5, <1>6 DEF FlowInv

LEMMA FlowInvUnchanged ==
  ASSUME FlowInv, engine' = engine, UNCHANGED <<buffer, flow, flowVerdict, blurred>>
  PROVE  FlowInv'
BY DEF FlowInv, Through, Oldest, Flow!Span

LEMMA OrderFlowStep ==
  ASSUME FlowInv, engine' = engine, Flow!OrderFlow
  PROVE  FlowInv'
<1>1. engine = "flow-orders" /\ ((\E c \in FlowCallers : Flow!Evaluate(c, Global) \/ Flow!Record(c))
                                  \/ Flow!ResetFlow \/ Flow!Age \/ Flow!SetBack)
  BY DEF Flow!OrderFlow
<1>2. ASSUME NEW c \in FlowCallers, Flow!Evaluate(c, Global) PROVE FlowInv'
  BY <1>1, <1>2, EvaluateStep
<1>3. ASSUME NEW c \in FlowCallers, Flow!Record(c) PROVE FlowInv'
  BY <1>3, RecordStep
<1> QED BY <1>1, <1>2, <1>3, ResetStep, AgeStep, SetBackStep

LEMMA SlotFlowStep ==
  ASSUME FlowInv, engine' = engine, Flow!SlotFlow
  PROVE  FlowInv'
<1>1. engine = "flow-slots"
      /\ ((\E c \in FlowCallers : Flow!EvaluateSlot(c) \/ Flow!RecordAdmission(c))
          \/ Flow!ResetSlots \/ Flow!Age \/ Flow!SetBack)
  BY DEF Flow!SlotFlow
<1>2. ASSUME NEW c \in FlowCallers, Flow!EvaluateSlot(c) PROVE FlowInv'
  <2>1. PICK k \in {Global} \cup KeysOf[c] : Flow!Evaluate(c, k)
    BY <1>2 DEF Flow!EvaluateSlot
  <2>2. k \in Flow!Keys
    BY DEF Flow!Keys
  <2>3. engine # "flow-orders"
    BY <1>1
  <2> QED BY <2>1, <2>2, <2>3, EvaluateTyped
<1>3. ASSUME NEW c \in FlowCallers, Flow!RecordAdmission(c) PROVE FlowInv'
  BY <1>3, RecordStep DEF Flow!RecordAdmission
<1> QED BY <1>1, <1>2, <1>3, ResetStep, AgeStep, SetBackStep DEF Flow!ResetSlots

-----------------------------------------------------------------------------
(* Capacities and the guarded queue. *)

BandInv ==
  /\ level \in {"low", "band", "high"} /\ capacity \in Int
  /\ Flow!AtMost(FlowLeast, Base) <= capacity /\ capacity <= Flow!AtLeast(Most, FlowLeast)
  /\ engine = "pressure" => capacity <= Flow!AtLeast(Base, FlowLeast)
  /\ flowQueue \in Seq(Int) /\ drained \in Seq(Int) /\ offered \in Int
  /\ Len(flowQueue) <= MaxDepth /\ accepted = drained \o flowQueue

LEMMA BandIsNat ==
  /\ Base \in Nat /\ FlowLeast \in Nat /\ Most \in Nat /\ MaxDepth \in Nat /\ Base <= Most
BY AssumptionsHold DEF FlowAssumption

LEMMA QueueAppend ==
  ASSUME NEW d \in Seq(Int), NEW q \in Seq(Int), NEW x \in Int
  PROVE  Append(d \o q, x) = d \o Append(q, x)
<1>1. d \o q \in Seq(Int) /\ <<x>> \in Seq(Int)
  OBVIOUS
<1>2. Append(d \o q, x) = (d \o q) \o <<x>> /\ Append(q, x) = q \o <<x>>
  BY <1>1, AppendIsConcat
<1>3. (d \o q) \o <<x>> = d \o (q \o <<x>>)
  BY <1>1, ConcatAssociative
<1> QED BY <1>2, <1>3, Zenon

LEMMA QueueTail ==
  ASSUME NEW d \in Seq(Int), NEW q \in Seq(Int), q # <<>>
  PROVE  d \o q = Append(d, Head(q)) \o Tail(q)
OBVIOUS

LEMMA BandStart ==
  ASSUME Flow!Start  PROVE BandInv
<1>1. capacity = Base /\ level = "low" /\ flowQueue = <<>> /\ offered = 0 /\ accepted = <<>> /\ drained = <<>>
  BY DEF Flow!Start
<1>2. accepted = drained \o flowQueue
  BY <1>1
<1> QED BY <1>1, <1>2, BandIsNat DEF BandInv, Flow!AtMost, Flow!AtLeast

LEMMA TickStep ==
  ASSUME BandInv, engine' = engine, Flow!TickController
  PROVE  BandInv'
<1>1. engine = "pressure" /\ level' = level /\ UNCHANGED <<flowQueue, offered, accepted, drained>>
      /\ (capacity' = Flow!Decrease(capacity) \/ capacity' = Flow!Recover(capacity) \/ capacity' = capacity)
  BY DEF Flow!TickController, BandInv, Flow!queues
<1>2. capacity \in Int /\ Flow!AtMost(FlowLeast, Base) <= capacity /\ capacity <= Flow!AtLeast(Base, FlowLeast)
  BY <1>1 DEF BandInv
<1>3. /\ capacity' \in Int /\ Flow!AtMost(FlowLeast, Base) <= capacity'
      /\ capacity' <= Flow!AtLeast(Base, FlowLeast)
  <2>1. CASE capacity' = Flow!Decrease(capacity)
    BY <1>2, <2>1, BandIsNat DEF Flow!Decrease, Flow!AtLeast, Flow!AtMost
  <2>2. CASE capacity' = Flow!Recover(capacity)
    BY <1>2, <2>2, BandIsNat DEF Flow!Recover, Flow!AtLeast, Flow!AtMost
  <2> QED BY <1>1, <1>2, <2>1, <2>2
<1>4. Flow!AtLeast(Base, FlowLeast) <= Flow!AtLeast(Most, FlowLeast)
  BY BandIsNat DEF Flow!AtLeast
<1>5. capacity' <= Flow!AtLeast(Most, FlowLeast)
  BY <1>3, <1>4, BandIsNat DEF Flow!AtLeast
<1> QED BY <1>1, <1>3, <1>5 DEF BandInv

LEMMA ThrottleStep ==
  ASSUME BandInv, engine' = engine, Flow!AdjustThrottle \/ Flow!ResetThrottle
  PROVE  BandInv'
<1>1. engine = "throttle" /\ level' \in {"low", "band", "high"}
      /\ UNCHANGED <<flowQueue, offered, accepted, drained>>
      /\ \/ capacity' = Flow!Decrease(capacity) \/ capacity' = Flow!AtMost(capacity * 2, Most)
         \/ capacity' = capacity \/ capacity' = Base
  BY DEF Flow!AdjustThrottle, Flow!ResetThrottle, BandInv, Flow!queues
<1>2. capacity \in Int /\ Flow!AtMost(FlowLeast, Base) <= capacity /\ capacity <= Flow!AtLeast(Most, FlowLeast)
  BY DEF BandInv
<1>3. /\ capacity' \in Int /\ Flow!AtMost(FlowLeast, Base) <= capacity'
      /\ capacity' <= Flow!AtLeast(Most, FlowLeast)
  <2>1. CASE capacity' = Flow!Decrease(capacity)
    BY <1>2, <2>1, BandIsNat DEF Flow!Decrease, Flow!AtLeast, Flow!AtMost
  <2>2. CASE capacity' = Flow!AtMost(capacity * 2, Most)
    BY <1>2, <2>2, BandIsNat DEF Flow!AtLeast, Flow!AtMost
  <2>3. CASE capacity' = Base
    BY <2>3, BandIsNat DEF Flow!AtLeast, Flow!AtMost
  <2> QED BY <1>1, <1>2, <2>1, <2>2, <2>3
<1> QED BY <1>1, <1>3 DEF BandInv

LEMMA EnqueueStep ==
  ASSUME BandInv, engine' = engine, Flow!TryEnqueue
  PROVE  BandInv'
<1>1. /\ offered' = offered + 1 /\ UNCHANGED <<level, capacity, drained>>
      /\ \/ UNCHANGED <<flowQueue, accepted>>
         \/ /\ ~(Len(flowQueue) >= MaxDepth) /\ flowQueue' = Append(flowQueue, offered + 1)
            /\ accepted' = Append(accepted, offered + 1)
  BY DEF Flow!TryEnqueue, Flow!flows
<1>2. offered' \in Int
  BY <1>1 DEF BandInv
<1>3. CASE UNCHANGED <<flowQueue, accepted>>
  BY <1>1, <1>2, <1>3 DEF BandInv
<1>4. CASE /\ ~(Len(flowQueue) >= MaxDepth) /\ flowQueue' = Append(flowQueue, offered + 1)
           /\ accepted' = Append(accepted, offered + 1)
  <2>1. flowQueue \in Seq(Int) /\ drained \in Seq(Int) /\ accepted = drained \o flowQueue
        /\ Len(flowQueue) \in Nat
    BY DEF BandInv
  <2>2. accepted' = drained \o flowQueue'
    BY <1>1, <1>2, <1>4, <2>1, QueueAppend
  <2>3. flowQueue' \in Seq(Int) /\ Len(flowQueue') <= MaxDepth
    BY <1>1, <1>2, <1>4, <2>1, BandIsNat
  <2> QED BY <1>1, <1>2, <2>2, <2>3 DEF BandInv
<1> QED BY <1>1, <1>3, <1>4

LEMMA DrainStep ==
  ASSUME BandInv, engine' = engine, Flow!DrainOne
  PROVE  BandInv'
<1>1. /\ flowQueue # <<>> /\ flowQueue' = Tail(flowQueue)
      /\ drained' = Append(drained, Head(flowQueue))
      /\ UNCHANGED <<level, capacity, offered, accepted>>
  BY DEF Flow!DrainOne, Flow!flows
<1>2. flowQueue \in Seq(Int) /\ drained \in Seq(Int) /\ accepted = drained \o flowQueue
      /\ Len(flowQueue) \in Nat /\ Len(flowQueue) <= MaxDepth
  BY DEF BandInv
<1>3. accepted' = drained' \o flowQueue'
  BY <1>1, <1>2, QueueTail
<1>4. flowQueue' \in Seq(Int) /\ drained' \in Seq(Int) /\ Len(flowQueue') <= MaxDepth
  BY <1>1, <1>2, BandIsNat
<1> QED BY <1>1, <1>3, <1>4 DEF BandInv

LEMMA SenseStep ==
  ASSUME BandInv, engine' = engine, Flow!Sense
  PROVE  BandInv'
<1>1. /\ level' \in {"low", "band", "high"}
      /\ UNCHANGED <<capacity, flowQueue, offered, accepted, drained>>
  BY DEF Flow!Sense, Flow!Measure, Flow!queues
<1> QED BY <1>1 DEF BandInv

LEMMA FlowStep ==
  ASSUME FlowInv, BandInv, engine' = engine, Flow!Next
  PROVE  FlowInv' /\ BandInv'
<1>1. CASE Flow!OrderFlow \/ Flow!SlotFlow
  <2>1. UNCHANGED <<level, capacity, flowQueue, offered, accepted, drained>>
    BY <1>1 DEF Flow!OrderFlow, Flow!SlotFlow, Flow!queues
  <2>2. BandInv'
    BY <2>1 DEF BandInv
  <2> QED BY <1>1, <2>2, OrderFlowStep, SlotFlowStep
<1>2. CASE \/ Flow!Sense \/ Flow!TickController \/ Flow!AdjustThrottle \/ Flow!ResetThrottle
           \/ Flow!TryEnqueue \/ Flow!DrainOne
  <2>1. UNCHANGED <<buffer, flow, flowVerdict, blurred>>
    BY <1>2 DEF Flow!Sense, Flow!Measure, Flow!TickController, Flow!AdjustThrottle,
                Flow!ResetThrottle, Flow!TryEnqueue, Flow!DrainOne, Flow!flows
  <2>2. FlowInv'
    BY <2>1, FlowInvUnchanged
  <2> QED BY <1>2, <2>2, SenseStep, TickStep, ThrottleStep, EnqueueStep, DrainStep
<1> QED BY <1>1, <1>2 DEF Flow!Next

LEMMA FlowStands ==
  ASSUME FlowInv, BandInv, engine' = engine, UNCHANGED flowVars
  PROVE  FlowInv' /\ BandInv'
<1>1. UNCHANGED <<buffer, flow, flowVerdict, blurred>>
      /\ UNCHANGED <<level, capacity, flowQueue, offered, accepted, drained>>
  BY DEF flowVars
<1> QED BY <1>1, FlowInvUnchanged DEF BandInv

LEMMA FlowCounts ==
  ASSUME NEW S  PROVE Flow!Cardinality(S) = Cardinality(S)
BY DEF Flow!Cardinality, Cardinality

LEMMA FlowLimits ==
  ASSUME FlowInv, BandInv  PROVE Flow!OvershootBounded /\ Flow!WithinBand
<1>1. Flow!WithinBand
  BY DEF BandInv, Flow!WithinBand
<1>2. ASSUME engine = "flow-orders", Oldest
      PROVE  Len(buffer[Global]) <= FlowLimit * MinSpan + Cardinality(FlowCallers) - 1
  <2>1. Len(buffer[Global]) \in Nat
    BY DEF FlowInv
  <2> QED BY <1>2, <2>1, ThroughFinite, LimitsAreNat DEF FlowInv
<1> QED BY <1>1, <1>2, FlowCounts DEF Flow!OvershootBounded, Oldest
-----------------------------------------------------------------------------
(* Token buckets.  What the next refill will add is paid for by the time that has      *)
(* passed since the last one; a clock that goes back pays for itself once more.        *)

Elapsed == IF wall > filled THEN wall - filled ELSE 0

BucketInv ==
  /\ tokens \in Int /\ wall \in Int /\ filled \in Int /\ back \in Int
  /\ granted \in Int /\ released \in Int
  /\ granted + tokens + Rate * Elapsed <= BucketFull + Rate * (wall + back) + released

LEMMA BucketIsNat ==
  /\ BucketFull \in Nat /\ Rate \in Nat /\ IoCap \in Nat /\ IoWindow \in Nat
  /\ Budget \in [BucketKinds -> Nat]
BY AssumptionsHold DEF BucketAssumption

LEMMA TimesGrows ==
  ASSUME NEW r \in Nat, NEW a \in Int, NEW b \in Int, a <= b
  PROVE  r * a \in Int /\ r * b \in Int /\ r * a <= r * b
<1>1. b - a \in Nat
  OBVIOUS
<1>2. r * (b - a) >= 0
  BY <1>1
<1>3. r * (b - a) = r * b - r * a
  OBVIOUS
<1>4. r * a \in Int /\ r * b \in Int
  OBVIOUS
<1> QED BY <1>2, <1>3, <1>4

LEMMA TimesNext ==
  ASSUME NEW r \in Nat, NEW a \in Int
  PROVE  r * (a + 1) = r * a + r /\ r * a \in Int
OBVIOUS

LEMMA BucketStart ==
  ASSUME Buckets!Start  PROVE BucketInv
<1>1. /\ tokens = BucketFull /\ wall = 0 /\ filled = 0 /\ back = 0
      /\ granted = 0 /\ released = 0
  BY DEF Buckets!Start
<1>2. Elapsed = 0 /\ Rate * Elapsed = 0 /\ Rate * (wall + back) = 0
  BY <1>1, BucketIsNat DEF Elapsed
<1> QED BY <1>1, <1>2, BucketIsNat DEF BucketInv

LEMMA RefillStep ==
  ASSUME BucketInv, NEW n \in Int, Buckets!Refill(n), granted' = granted + n,
         UNCHANGED <<wall, back, released>>
  PROVE  BucketInv'
<1>1. tokens' = Buckets!Available - n /\ filled' = wall
  BY DEF Buckets!Refill
<1>2. Elapsed \in Int /\ Rate * Elapsed \in Int /\ Rate * (wall + back) \in Int
  BY BucketIsNat, TimesNext DEF BucketInv, Elapsed
<1>3. Buckets!Available \in Int /\ Buckets!Available <= tokens + Rate * Elapsed
  BY <1>2, BucketIsNat DEF Buckets!Available, Buckets!AtMost, BucketInv, Elapsed
<1>4. Elapsed' = 0 /\ Rate * Elapsed' = 0
  BY <1>1, BucketIsNat DEF Elapsed, BucketInv
<1>5. Rate * (wall' + back') = Rate * (wall + back)
  OBVIOUS
<1>6. granted' + tokens' + Rate * Elapsed' <= BucketFull + Rate * (wall' + back') + released'
  BY <1>1, <1>2, <1>3, <1>4, <1>5, BucketIsNat DEF BucketInv
<1> QED BY <1>1, <1>3, <1>6 DEF BucketInv

LEMMA ReleaseStep ==
  ASSUME BucketInv, NEW n \in 1..2, Buckets!Release(n)
  PROVE  BucketInv'
<1>1. /\ tokens' = Buckets!AtMost(tokens + n, BucketFull) /\ released' = released + n
      /\ UNCHANGED <<wall, filled, back, granted>>
  BY DEF Buckets!Release
<1>2. Elapsed \in Int /\ Rate * Elapsed \in Int /\ Rate * (wall + back) \in Int
  BY BucketIsNat, TimesNext DEF BucketInv, Elapsed
<1>3. Elapsed' = Elapsed
  BY <1>1 DEF Elapsed
<1>4. tokens' \in Int /\ tokens' <= tokens + n
  BY <1>1, BucketIsNat DEF BucketInv, Buckets!AtMost
<1>5. granted' + tokens' + Rate * Elapsed' <= BucketFull + Rate * (wall' + back') + released'
  BY <1>1, <1>2, <1>3, <1>4, BucketIsNat DEF BucketInv
<1> QED BY <1>1, <1>4, <1>5 DEF BucketInv

LEMMA WallClockStep ==
  ASSUME BucketInv, Buckets!WallClock
  PROVE  BucketInv'
<1>1. UNCHANGED <<tokens, filled, granted, released>>
  BY DEF Buckets!WallClock
<1>2. Elapsed \in Int /\ Rate * Elapsed \in Int /\ Rate * (wall + back) \in Int
  BY BucketIsNat, TimesNext DEF BucketInv, Elapsed
<1>3. CASE wall' = wall + 1 /\ back' = back
  <2>1. Elapsed' \in Int /\ Elapsed' <= Elapsed + 1 /\ wall' + back' = (wall + back) + 1
    BY <1>1, <1>3 DEF BucketInv, Elapsed
  <2>2. Rate * Elapsed' <= Rate * Elapsed + Rate
    <3>1. Elapsed + 1 \in Int /\ Rate \in Nat
      BY <2>1, BucketIsNat DEF BucketInv, Elapsed
    <3>2. Rate * Elapsed' <= Rate * (Elapsed + 1)
      BY <2>1, <3>1, TimesGrows
    <3>3. Rate * (Elapsed + 1) = Rate * Elapsed + Rate
      <4>1. Elapsed \in Int
        BY DEF BucketInv, Elapsed
      <4> QED BY <3>1, <4>1, TimesNext
    <3> QED BY <3>2, <3>3
  <2>3. Rate * (wall' + back') = Rate * (wall + back) + Rate
    <3>1. wall + back \in Int
      BY DEF BucketInv
    <3> QED BY <2>1, <3>1, BucketIsNat, TimesNext
  <2>4. Rate * Elapsed' \in Int
    BY <2>1, BucketIsNat, TimesNext
  <2>5. granted' + tokens' + Rate * Elapsed' <= BucketFull + Rate * (wall' + back') + released'
    BY <1>1, <1>2, <2>2, <2>3, <2>4, BucketIsNat DEF BucketInv
  <2> QED BY <1>1, <1>3, <2>5 DEF BucketInv
<1>4. ASSUME NEW d \in 1..Buckets!AtMost(wall, MaxBack - back), wall' = wall - d, back' = back + d
      PROVE  BucketInv'
  <2>1. d \in Int /\ d >= 1 /\ wall' \in Int /\ back' \in Int
    BY <1>4 DEF BucketInv
  <2>2. Elapsed' \in Int /\ Elapsed' <= Elapsed /\ wall' + back' = wall + back
    BY <1>1, <1>4, <2>1 DEF BucketInv, Elapsed
  <2>3. Rate * Elapsed' <= Rate * Elapsed /\ Rate * Elapsed' \in Int
    BY <1>2, <2>2, BucketIsNat, TimesGrows
  <2>4. granted' + tokens' + Rate * Elapsed' <= BucketFull + Rate * (wall' + back') + released'
    BY <1>1, <1>2, <2>2, <2>3, BucketIsNat DEF BucketInv
  <2> QED BY <1>1, <2>1, <2>4 DEF BucketInv
<1> QED BY <1>3, <1>4 DEF Buckets!WallClock

LEMMA AcquireStep ==
  ASSUME BucketInv, NEW n \in 1..2, Buckets!Acquire(n)
  PROVE  BucketInv'
<1> DEFINE m == IF Buckets!Available >= n THEN n ELSE 0
<1>1. m \in Int
  OBVIOUS
<1>2. Buckets!Refill(m) /\ granted' = granted + m /\ UNCHANGED <<wall, back, released>>
  BY DEF Buckets!Acquire
<1> QED BY <1>1, <1>2, RefillStep

LEMMA GetStateStep ==
  ASSUME BucketInv, Buckets!GetState
  PROVE  BucketInv'
<1>1. Buckets!Refill(0) /\ UNCHANGED <<wall, back, granted, released>>
  BY DEF Buckets!GetState
<1>2. granted' = granted + 0
  BY <1>1 DEF BucketInv
<1> QED BY <1>1, <1>2, RefillStep

-----------------------------------------------------------------------------
(* The quotas of a cell. *)

Young == {i \in DOMAIN calls : calls[i] <= IoWindow}
Aged  == {i \in DOMAIN calls : calls[i] > IoWindow}

QuotaInv ==
  /\ consumed \in [BucketKinds -> Int] /\ \A k \in BucketKinds : consumed[k] <= Budget[k]
  /\ apoptosed \in BOOLEAN /\ fired = IF apoptosed THEN 1 ELSE 0
  /\ calls \in Seq(Int) /\ Cardinality(Young) <= IoCap

LEMMA BucketsCount ==
  ASSUME NEW S  PROVE Buckets!Cardinality(S) = Cardinality(S)
BY DEF Buckets!Cardinality, Cardinality

LEMMA DomainFinite ==
  ASSUME NEW S, NEW s \in Seq(S), NEW T, T \subseteq DOMAIN s
  PROVE  IsFiniteSet(T) /\ Cardinality(T) \in Nat /\ Cardinality(T) <= Len(s)
<1>1. DOMAIN s = 1..Len(s) /\ Len(s) \in Nat
  OBVIOUS
<1>2. IsFiniteSet(1..Len(s)) /\ Cardinality(1..Len(s)) = Len(s)
  BY <1>1, UpTo
<1> QED BY <1>1, <1>2, PartIsSmaller

LEMMA YoungAndAged ==
  ASSUME QuotaInv
  PROVE  /\ Cardinality(Young) + Cardinality(Aged) = Len(calls)
         /\ Cardinality(Young) \in Nat /\ Cardinality(Aged) \in Nat
<1>1. /\ IsFiniteSet(Young) /\ Cardinality(Young) \in Nat /\ IsFiniteSet(Aged)
      /\ Cardinality(Aged) \in Nat
  BY DomainFinite DEF QuotaInv, Young, Aged
<1>2. Young \cup Aged = 1..Len(calls) /\ Young \cap Aged = {} /\ Len(calls) \in Nat
  BY BucketIsNat DEF QuotaInv, Young, Aged
<1>3. Cardinality(1..Len(calls)) = Len(calls)
  BY <1>2, UpTo
<1>4. Cardinality(Young \cup Aged) = Cardinality(Young) + Cardinality(Aged) - Cardinality(Young \cap Aged)
  BY <1>1, FS_Union
<1>5. Cardinality(Young \cup Aged) = Len(calls) /\ Cardinality(Young \cap Aged) = 0
  BY <1>2, <1>3, FS_EmptySet, Zenon
<1> QED BY <1>1, <1>4, <1>5

LEMMA QuotaStart ==
  ASSUME Buckets!Start  PROVE QuotaInv
<1>1. consumed = [k \in BucketKinds |-> 0] /\ calls = <<>> /\ apoptosed = FALSE /\ fired = 0
  BY DEF Buckets!Start
<1>2. Young = {}
  BY <1>1 DEF Young
<1>3. Cardinality(Young) <= IoCap
  BY <1>2, FS_EmptySet, BucketIsNat
<1>4. apoptosed \in BOOLEAN
  BY <1>1, Zenon
<1>5. consumed \in [BucketKinds -> Int] /\ \A k \in BucketKinds : consumed[k] <= Budget[k]
  BY <1>1, BucketIsNat
<1> QED BY <1>1, <1>3, <1>4, <1>5 DEF QuotaInv

LEMMA TriggerStep ==
  ASSUME QuotaInv, Buckets!TriggerApoptose
  PROVE  apoptosed' \in BOOLEAN /\ fired' = IF apoptosed' THEN 1 ELSE 0
<1>1. apoptosed' = TRUE
  BY DEF Buckets!TriggerApoptose
<1>2. fired' = 1
  BY DEF Buckets!TriggerApoptose, QuotaInv
<1>3. apoptosed' \in BOOLEAN
  BY <1>1, Zenon
<1> QED BY <1>1, <1>2, <1>3

LEMMA ConsumeStep ==
  ASSUME QuotaInv, NEW w, NEW k, NEW n \in 1..2, Buckets!Consume(w, k, n)
  PROVE  QuotaInv'
<1>1. calls' = calls /\ Young' = Young
  BY DEF Buckets!Consume, Young
<1>2. CASE Buckets!Over(k, n)
  <2>1. Buckets!TriggerApoptose /\ consumed' = consumed
    BY <1>2 DEF Buckets!Consume
  <2> QED BY <1>1, <2>1, TriggerStep DEF QuotaInv
<1>3. CASE ~Buckets!Over(k, n)
  <2>1. consumed' = [consumed EXCEPT ![k] = @ + n] /\ UNCHANGED <<apoptosed, fired>>
    BY <1>3 DEF Buckets!Consume
  <2>2. consumed' \in [BucketKinds -> Int] /\ \A j \in BucketKinds : consumed'[j] <= Budget[j]
    <3>1. consumed \in [BucketKinds -> Int] /\ Budget \in [BucketKinds -> Nat]
          /\ \A j \in BucketKinds : consumed[j] <= Budget[j]
      BY BucketIsNat DEF QuotaInv
    <3>2. ~(consumed[k] + n > Budget[k])
      BY <1>3 DEF Buckets!Over
    <3>3. consumed' \in [BucketKinds -> Int]
      <4>1. k \in BucketKinds => consumed[k] + n \in Int
        BY <3>1
      <4> QED BY <2>1, <3>1, <4>1
    <3>4. ASSUME NEW j \in BucketKinds PROVE consumed'[j] <= Budget[j]
      <4>1. consumed'[j] = IF j = k THEN consumed[k] + n ELSE consumed[j]
        BY <2>1, <3>1
      <4> QED BY <3>1, <3>2, <4>1
    <3> QED BY <3>3, <3>4
  <2> QED BY <1>1, <2>1, <2>2 DEF QuotaInv
<1> QED BY <1>2, <1>3

LEMMA IoCallStep ==
  ASSUME QuotaInv, Buckets!RecordIoCall
  PROVE  QuotaInv'
<1> DEFINE r == Buckets!Recent
           a == Cardinality(Aged)
<1>1. consumed' = consumed
  BY DEF Buckets!RecordIoCall
<1>2. calls \in Seq(Int) /\ Len(calls) \in Nat /\ a \in Nat /\ Len(calls) - a = Cardinality(Young)
      /\ Cardinality(Young) \in Nat
  BY YoungAndAged DEF QuotaInv
<1>3. r = SubSeq(calls, a + 1, Len(calls))
  BY BucketsCount DEF Buckets!Recent, Aged
<1> HIDE DEF r, a
<1>4. r \in Seq(Int) /\ Len(r) = Cardinality(Young)
  <2>1. a + 1 \in 1..(Len(calls) + 1) /\ Len(calls) \in (a + 1 - 1)..Len(calls)
    BY <1>2
  <2> QED BY <1>2, <1>3, <2>1, SubSeqProperties
<1>5. CASE Len(r) + 1 > IoCap
  <2>1. calls' = r /\ Buckets!TriggerApoptose
    BY <1>5 DEF Buckets!RecordIoCall, r
  <2>2. Cardinality(Young') <= Len(r) /\ Cardinality(Young') \in Nat
    <3>1. Young' \subseteq DOMAIN r
      BY <2>1 DEF Young
    <3> QED BY <1>4, <3>1, DomainFinite
  <2>3. Cardinality(Young') <= IoCap
    BY <1>2, <1>4, <2>2, BucketIsNat DEF QuotaInv
  <2> QED BY <1>1, <1>4, <2>1, <2>3, TriggerStep DEF QuotaInv
<1>6. CASE ~(Len(r) + 1 > IoCap)
  <2>1. calls' = Append(r, 0) /\ UNCHANGED <<apoptosed, fired>>
    BY <1>6 DEF Buckets!RecordIoCall, r
  <2>2. calls' \in Seq(Int) /\ Len(calls') = Len(r) + 1
    BY <1>4, <2>1
  <2>3. Cardinality(Young') <= Len(calls') /\ Cardinality(Young') \in Nat
    <3>1. Young' \subseteq DOMAIN calls'
      BY DEF Young
    <3> QED BY <2>2, <3>1, DomainFinite
  <2>4. Cardinality(Young') <= IoCap
    BY <1>2, <1>4, <1>6, <2>2, <2>3, BucketIsNat
  <2> QED BY <1>1, <2>1, <2>2, <2>4 DEF QuotaInv
<1> QED BY <1>5, <1>6

LEMMA IoTickStep ==
  ASSUME QuotaInv, Buckets!IoTick
  PROVE  QuotaInv'
<1>1. UNCHANGED <<consumed, apoptosed, fired>>
      /\ calls' = [i \in DOMAIN calls |-> Buckets!AtMost(calls[i] + 1, IoWindow + 1)]
  BY DEF Buckets!IoTick
<1>2. calls \in Seq(Int) /\ Len(calls) \in Nat /\ DOMAIN calls = 1..Len(calls)
  BY DEF QuotaInv
<1>3. \A i \in 1..Len(calls) : calls[i] \in Int /\ calls'[i] = Buckets!AtMost(calls[i] + 1, IoWindow + 1)
  BY <1>1, <1>2
<1>4. \A i \in 1..Len(calls) : calls'[i] \in Int /\ (calls'[i] <= IoWindow => calls[i] <= IoWindow)
  BY <1>3, BucketIsNat DEF Buckets!AtMost
<1>5. DOMAIN calls' = 1..Len(calls)
  BY <1>1, <1>2
<1>6. calls' \in Seq(Int)
  BY <1>1, <1>2, <1>4, <1>5
<1>7. Young' \subseteq Young
  BY <1>2, <1>4, <1>5 DEF Young
<1>8. Cardinality(Young') <= Cardinality(Young) /\ Cardinality(Young') \in Nat /\ Cardinality(Young) \in Nat
  <2>1. IsFiniteSet(Young)
    BY <1>2, DomainFinite DEF Young
  <2> QED BY <1>7, <2>1, PartIsSmaller
<1>9. Cardinality(Young') <= IoCap
  BY <1>8, BucketIsNat DEF QuotaInv
<1> QED BY <1>1, <1>6, <1>9 DEF QuotaInv

LEMMA BucketInvUnchanged ==
  ASSUME BucketInv, UNCHANGED <<tokens, wall, filled, back, granted, released>>
  PROVE  BucketInv'
BY DEF BucketInv, Elapsed

LEMMA QuotaInvUnchanged ==
  ASSUME QuotaInv, UNCHANGED <<consumed, calls, apoptosed, fired>>
  PROVE  QuotaInv'
BY DEF QuotaInv, Young

LEMMA BucketsStep ==
  ASSUME BucketInv, QuotaInv, Buckets!Next
  PROVE  BucketInv' /\ QuotaInv'
<1>1. CASE Buckets!GetState \/ Buckets!WallClock \/ (\E n \in 1..2 : Buckets!Acquire(n) \/ Buckets!Release(n))
  <2>1. UNCHANGED <<consumed, calls, apoptosed, fired>>
    BY <1>1 DEF Buckets!GetState, Buckets!WallClock, Buckets!Acquire, Buckets!Release, Buckets!cell
  <2> QED BY <1>1, <2>1, QuotaInvUnchanged, GetStateStep, WallClockStep, AcquireStep, ReleaseStep
<1>2. ASSUME NEW w \in BucketWorkers,
             \/ Buckets!ChargeTokens(w) \/ Buckets!ChargeCpu(w) \/ Buckets!ChargeMemory(w)
      PROVE  BucketInv' /\ QuotaInv'
  <2>1. \E k, n : n \in 1..2 /\ Buckets!Consume(w, k, n)
    BY <1>2 DEF Buckets!ChargeTokens, Buckets!ChargeCpu, Buckets!ChargeMemory
  <2>2. PICK k, n : n \in 1..2 /\ Buckets!Consume(w, k, n)
    BY <2>1
  <2>3. UNCHANGED <<tokens, wall, filled, back, granted, released>>
    BY <2>2 DEF Buckets!Consume, Buckets!bucket
  <2> QED BY <2>2, <2>3, BucketInvUnchanged, ConsumeStep
<1>3. ASSUME NEW w \in BucketWorkers, Buckets!AppendEvent(w)
      PROVE  BucketInv' /\ QuotaInv'
  BY <1>3, BucketInvUnchanged, QuotaInvUnchanged DEF Buckets!AppendEvent, Buckets!bucket
<1>4. CASE Buckets!RecordIoCall \/ Buckets!IoTick \/ Buckets!PurgeHotel
  <2>1. UNCHANGED <<tokens, wall, filled, back, granted, released>>
    BY <1>4 DEF Buckets!RecordIoCall, Buckets!IoTick, Buckets!PurgeHotel, Buckets!bucket
  <2>2. CASE Buckets!PurgeHotel
    BY <2>1, <2>2, BucketInvUnchanged, QuotaInvUnchanged DEF Buckets!PurgeHotel
  <2> QED BY <1>4, <2>1, <2>2, BucketInvUnchanged, IoCallStep, IoTickStep
<1> QED BY <1>1, <1>2, <1>3, <1>4 DEF Buckets!Next

LEMMA BucketsStand ==
  ASSUME BucketInv, QuotaInv, UNCHANGED bucketsVars
  PROVE  BucketInv' /\ QuotaInv'
<1>1. UNCHANGED <<tokens, wall, filled, back, granted, released>> /\ UNCHANGED <<consumed, calls, apoptosed, fired>>
  BY DEF bucketsVars
<1> QED BY <1>1, BucketInvUnchanged, QuotaInvUnchanged

LEMMA BucketsLimits ==
  ASSUME BucketInv, QuotaInv  PROVE Buckets!PaidFor /\ Buckets!QuotaKept
<1>1. Rate * Elapsed \in Nat /\ Rate * (wall + back) \in Int
  <2>1. Elapsed \in Nat /\ wall + back \in Int
    BY DEF BucketInv, Elapsed
  <2> QED BY <2>1, BucketIsNat
<1>2. Buckets!PaidFor
  BY <1>1, BucketIsNat DEF BucketInv, Buckets!PaidFor
<1>3. Buckets!QuotaKept
  BY BucketsCount DEF QuotaInv, Buckets!QuotaKept, Young
<1> QED BY <1>2, <1>3
-----------------------------------------------------------------------------
(* The retried call: as long as it may be tried again it has not succeeded, and only a *)
(* repetition is preceded by a delay.                                                   *)

First == Order[1]

RetryInv ==
  engine = "retry" =>
    /\ DOMAIN sagaStatus = Sagas!Steps /\ DOMAIN sagaEffects = Sagas!Steps
    /\ sagaEffects[First] \in {0, 1}
    /\ sagaStatus[First] = "pending" => sagaEffects[First] = 0
    /\ attempt \in Nat /\ attempt <= SagaMaxAttempts
    /\ \E n \in Nat : DOMAIN delays = 1..n /\ (n = 0 \/ n < attempt)

LEMMA FirstIsStep == First \in Sagas!Steps /\ SagaMaxAttempts \in Nat /\ SagaMaxAttempts > 0
BY AssumptionsHold DEF SagaAssumption, Sagas!Steps, First

LEMMA RetryFresh ==
  ASSUME attempt = 0, delays = <<>>, sagaStatus = [s \in Sagas!Steps |-> "pending"],
         sagaEffects = [s \in Sagas!Steps |-> 0]
  PROVE  RetryInv
<1>1. DOMAIN delays = 1..0
  OBVIOUS
<1>2. \E n \in Nat : DOMAIN delays = 1..n /\ (n = 0 \/ n < attempt)
  BY <1>1
<1>3. sagaEffects[First] = 0
  BY FirstIsStep
<1> QED BY <1>2, <1>3, FirstIsStep DEF RetryInv

LEMMA TryStep ==
  ASSUME RetryInv, engine' = engine, NEW y, NEW r \in {"ok", "stop", "error"}, Sagas!Try(y, r)
  PROVE  RetryInv'
<1>1. /\ engine = "retry" /\ attempt < SagaMaxAttempts /\ sagaStatus[First] = "pending"
      /\ attempt' = attempt + 1
      /\ delays' = delays \/ (attempt # 0 /\ \E d : delays' = Append(delays, d))
      /\ sagaEffects' = IF r = "ok" THEN [sagaEffects EXCEPT ![First] = @ + 1] ELSE sagaEffects
      /\ \E v : sagaStatus' = [sagaStatus EXCEPT ![First] = v]
  BY DEF Sagas!Try, First
<1>2. r = "ok" => sagaStatus'[First] = "completed"
  BY <1>1, FirstIsStep DEF Sagas!Try, First, RetryInv
<1>3. DOMAIN sagaStatus' = Sagas!Steps /\ DOMAIN sagaEffects' = Sagas!Steps
  BY <1>1 DEF RetryInv
<1>4. sagaEffects'[First] = IF r = "ok" THEN 1 ELSE 0
  <2>1. sagaEffects[First] = 0 /\ First \in DOMAIN sagaEffects
    BY <1>1, FirstIsStep DEF RetryInv
  <2> QED BY <1>1, <2>1
<1>5. attempt' \in Nat /\ attempt' <= SagaMaxAttempts
  BY <1>1, FirstIsStep DEF RetryInv
<1>6. \E n \in Nat : DOMAIN delays' = 1..n /\ (n = 0 \/ n < attempt')
  <2>1. PICK n \in Nat : DOMAIN delays = 1..n /\ (n = 0 \/ n < attempt)
    BY <1>1 DEF RetryInv
  <2>2. attempt \in Nat /\ attempt' = attempt + 1
    BY <1>1 DEF RetryInv
  <2>3. CASE delays' = delays
    BY <2>1, <2>2, <2>3
  <2>4. CASE attempt # 0 /\ \E d : delays' = Append(delays, d)
    <3>1. PICK d : delays' = Append(delays, d)
      BY <2>4
    <3>2. DOMAIN delays' = 1..(n + 1)
      BY <2>1, <3>1
    <3>3. n + 1 < attempt'
      BY <2>1, <2>2, <2>4
    <3> QED BY <3>2, <3>3
  <2> QED BY <1>1, <2>3, <2>4
<1>7. sagaStatus'[First] = "pending" => sagaEffects'[First] = 0
  BY <1>2, <1>4
<1> QED BY <1>3, <1>4, <1>5, <1>6, <1>7 DEF RetryInv

LEMMA RetryUnchanged ==
  ASSUME RetryInv, engine' = engine, UNCHANGED <<sagaStatus, sagaEffects, attempt, delays>>
  PROVE  RetryInv'
BY DEF RetryInv

\* What is not the retried call is another class.
LEMMA OtherSagasStep ==
  ASSUME engine' = engine,
         \/ Sagas!RunStart \/ Sagas!SkipStep
         \/ \E r \in {"ok", "late", "error"} : Sagas!ExecuteStep(r)
         \/ Sagas!CompensateStart \/ Sagas!CompensateStep(TRUE) \/ Sagas!CompensateStep(FALSE)
         \/ Sagas!CompensateEnd \/ Sagas!CancelInProgress
  PROVE  RetryInv'
<1>1. engine = "steps" \/ engine = "trades"
  BY DEF Sagas!RunStart, Sagas!SkipStep, Sagas!ExecuteStep, Sagas!CompensateStart,
         Sagas!CompensateStep, Sagas!CompensateEnd, Sagas!CancelInProgress
<1> QED BY <1>1 DEF RetryInv

LEMMA SagasStep ==
  ASSUME RetryInv, engine' = engine, Sagas!Next
  PROVE  RetryInv'
<1>1. CASE Sagas!Attempt
  <2>1. PICK y \in Sagas!Strategies, r \in {"ok", "stop", "error"} : Sagas!Try(y, r)
    BY <1>1 DEF Sagas!Attempt
  <2> QED BY <2>1, TryStep
<1>2. CASE Sagas!StartOver
  <2>1. /\ attempt' = 0 /\ delays' = <<>>
        /\ sagaStatus' = [s \in Sagas!Steps |-> "pending"]
        /\ sagaEffects' = [s \in Sagas!Steps |-> 0]
    BY <1>2 DEF Sagas!StartOver
  <2>2. DOMAIN delays' = 1..0 /\ sagaEffects'[First] = 0
    BY <2>1, FirstIsStep
  <2>3. \E n \in Nat : DOMAIN delays' = 1..n /\ (n = 0 \/ n < attempt')
    BY <2>2
  <2> QED BY <2>1, <2>2, <2>3, FirstIsStep DEF RetryInv
<1>3. ASSUME NEW t \in SagaCallers,
             \/ Sagas!ExecuteSaga(t) \/ Sagas!CheckCancelled(t) \/ Sagas!CloseSaga(t)
             \/ \E ok \in BOOLEAN : Sagas!Handle(t, ok) \/ Sagas!Compensate(t, ok)
      PROVE  RetryInv'
  <2>1. engine = "trades"
    BY <1>3 DEF Sagas!ExecuteSaga, Sagas!CheckCancelled, Sagas!CloseSaga, Sagas!Handle,
                Sagas!Compensate
  <2> QED BY <2>1 DEF RetryInv
<1>4. CASE ~Sagas!Attempt /\ ~Sagas!StartOver
           /\ ~(\E t \in SagaCallers :
                  \/ Sagas!ExecuteSaga(t) \/ Sagas!CheckCancelled(t) \/ Sagas!CloseSaga(t)
                  \/ \E ok \in BOOLEAN : Sagas!Handle(t, ok) \/ Sagas!Compensate(t, ok))
  <2>1. \/ Sagas!RunStart \/ Sagas!SkipStep
        \/ \E r \in {"ok", "late", "error"} : Sagas!ExecuteStep(r)
        \/ Sagas!CompensateStart \/ Sagas!CompensateStep(TRUE) \/ Sagas!CompensateStep(FALSE)
        \/ Sagas!CompensateEnd \/ Sagas!CancelInProgress
    BY <1>4, Zenon DEF Sagas!Next
  <2> QED BY <2>1, OtherSagasStep
<1> QED BY <1>1, <1>2, <1>3, <1>4, Zenon

LEMMA SagasStart ==
  ASSUME Sagas!Start  PROVE RetryInv
BY RetryFresh DEF Sagas!Start

LEMMA SagasStand ==
  ASSUME RetryInv, engine' = engine, UNCHANGED sagasVars
  PROVE  RetryInv'
BY RetryUnchanged DEF sagasVars

LEMMA SagasLimits ==
  ASSUME RetryInv  PROVE Sagas!RetriesBounded
<1>1. ASSUME engine = "retry" PROVE sagaEffects[First] <= 1 /\ Len(delays) <= SagaMaxAttempts - 1
  <2>1. PICK n \in Nat : DOMAIN delays = 1..n /\ (n = 0 \/ n < attempt)
    BY <1>1 DEF RetryInv
  <2>2. Len(delays) = n
    BY <2>1
  <2>3. n <= SagaMaxAttempts - 1 /\ sagaEffects[First] <= 1
    BY <1>1, <2>1, FirstIsStep DEF RetryInv
  <2> QED BY <2>2, <2>3
<1> QED BY <1>1 DEF Sagas!RetriesBounded, First
-----------------------------------------------------------------------------
(* Chaos engines.  The count is never below the handlers that run; a killed handler    *)
(* leaves it too high, unless a "finally" counts out.                                  *)

Run     == [target : ChaosTargets, id : ChaosIds, result : RunResults]
CountedIn(r) == r.result = "running" \/ r.result = "ok" \/ r.result = "failed"
                \/ r.result = "recorded" \/ r.result = "killed"
InHandler == {t \in ChaosThreads : chaosRuns[t] # None /\ CountedIn(chaosRuns[t])}

ChaosInv ==
  /\ chaosRuns \in [ChaosThreads -> Run \cup {None}]
  /\ chaosActive \in Int
  /\ Cardinality(InHandler) <= chaosActive /\ chaosActive <= MaxConcurrent
  /\ engine \in Faults!WithFinally => chaosActive = Cardinality(InHandler)

TurnInv == DOMAIN turn = {"at", "attempts"} /\ turn.attempts \in 0..ChaosMaxAttempts

LEMMA ChaosLimits0 ==
  /\ IsFiniteSet(ChaosThreads) /\ MaxConcurrent \in Nat
  /\ ChaosMaxAttempts \in Nat /\ ChaosMaxAttempts > 0
BY AssumptionsHold DEF ChaosAssumption

LEMMA NoneIsNoRun == None \notin Run
BY AssumptionsHold DEF ChaosAssumption, Run

LEMMA InHandlerFinite == IsFiniteSet(InHandler) /\ Cardinality(InHandler) \in Nat
BY ChaosLimits0, PartIsSmaller DEF InHandler

LEMMA InHandlerIsRunning == Faults!Running = InHandler
BY DEF Faults!Running, InHandler, CountedIn

LEMMA FaultsCounts ==
  ASSUME NEW S  PROVE Faults!Cardinality(S) = Cardinality(S)
BY DEF Faults!Cardinality, Cardinality

LEMMA ChaosStart ==
  ASSUME Faults!Start  PROVE ChaosInv /\ TurnInv
<1>1. chaosRuns = [t \in ChaosThreads |-> None] /\ chaosActive = 0 /\ turn = [at |-> 0, attempts |-> 0]
  BY DEF Faults!Start
<1>2. InHandler = {}
  BY <1>1 DEF InHandler
<1>3. Cardinality(InHandler) = 0
  BY <1>2, FS_EmptySet
<1>4. TurnInv
  BY <1>1, ChaosLimits0 DEF TurnInv
<1> QED BY <1>1, <1>3, <1>4, ChaosLimits0 DEF ChaosInv

\* One thread's run is replaced by another that is, like the first, counted in or not.
LEMMA RunGoesOn ==
  ASSUME ChaosInv, engine' = engine, NEW t \in ChaosThreads, NEW r \in Run \cup {None},
         chaosRuns' = [chaosRuns EXCEPT ![t] = r], chaosActive' = chaosActive,
         t \in InHandler <=> r # None /\ CountedIn(r)
  PROVE  ChaosInv'
<1>1. chaosRuns' \in [ChaosThreads -> Run \cup {None}]
  BY DEF ChaosInv
<1>2. InHandler' = InHandler
  BY DEF InHandler, ChaosInv
<1> QED BY <1>1, <1>2 DEF ChaosInv

LEMMA RunLeaves ==
  ASSUME ChaosInv, engine' = engine, NEW t \in InHandler, NEW r \in Run \cup {None},
         chaosRuns' = [chaosRuns EXCEPT ![t] = r],
         \/ chaosActive' = chaosActive - 1
         \/ chaosActive' = chaosActive /\ engine \notin Faults!WithFinally,
         ~(r # None /\ CountedIn(r))
  PROVE  ChaosInv'
<1>1. chaosRuns' \in [ChaosThreads -> Run \cup {None}]
  BY DEF ChaosInv, InHandler
<1>2. InHandler' = InHandler \ {t}
  BY DEF InHandler, ChaosInv
<1>3. Cardinality(InHandler') = Cardinality(InHandler) - 1 /\ Cardinality(InHandler) \in Nat
  BY <1>2, InHandlerFinite, OneLess
<1> QED BY <1>1, <1>3, ChaosLimits0 DEF ChaosInv

LEMMA BeginStep ==
  ASSUME ChaosInv, engine' = engine, NEW t \in ChaosThreads, NEW x \in ChaosTargets,
         NEW id \in ChaosIds, Faults!Begin(t, x, id)
  PROVE  ChaosInv' /\ turn' = turn
<1> DEFINE r == [target |-> x, id |-> id, result |-> "running"]
<1>1. /\ chaosRuns[t] = None /\ chaosActive < MaxConcurrent
      /\ chaosActive' = chaosActive + 1 /\ chaosRuns' = [chaosRuns EXCEPT ![t] = r]
      /\ turn' = turn
  BY DEF Faults!Begin, Faults!Admitted, Faults!Free, Faults!monkeyVars
<1>2. r \in Run /\ CountedIn(r)
  BY DEF Run, RunResults, CountedIn
<1>3. r # None
  BY <1>2, NoneIsNoRun
<1> HIDE DEF r
<1>4. chaosRuns' \in [ChaosThreads -> Run \cup {None}]
  BY <1>1, <1>2 DEF ChaosInv
<1>5. t \notin InHandler /\ InHandler' = InHandler \cup {t}
  BY <1>1, <1>2, <1>3 DEF InHandler, ChaosInv
<1>6. Cardinality(InHandler') = Cardinality(InHandler) + 1 /\ Cardinality(InHandler) \in Nat
  BY <1>5, InHandlerFinite, OneMore
<1> QED BY <1>1, <1>4, <1>6, ChaosLimits0 DEF ChaosInv

\* A thread that is about its business: what its run is, and what its record becomes.
LEMMA ResultChanges ==
  ASSUME ChaosInv, NEW t \in ChaosThreads, chaosRuns[t] # None, NEW v \in RunResults
  PROVE  /\ chaosRuns[t] \in Run /\ [chaosRuns[t] EXCEPT !.result = v] \in Run
         /\ [chaosRuns[t] EXCEPT !.result = v] # None
         /\ [chaosRuns[t] EXCEPT !.result = v].result = v
         /\ t \in InHandler <=> CountedIn(chaosRuns[t])
<1>1. chaosRuns[t] \in Run
  BY DEF ChaosInv
<1>2. [chaosRuns[t] EXCEPT !.result = v] \in Run
  BY <1>1 DEF Run
<1>3. [chaosRuns[t] EXCEPT !.result = v].result = v
  BY <1>1 DEF Run
<1>4. t \in InHandler <=> CountedIn(chaosRuns[t])
  BY DEF InHandler
<1> QED BY <1>1, <1>2, <1>3, <1>4, NoneIsNoRun

LEMMA StaysIn ==
  ASSUME ChaosInv, engine' = engine, NEW t \in ChaosThreads, chaosRuns[t] # None,
         CountedIn(chaosRuns[t]),
         NEW v \in {"ok", "failed", "recorded", "killed"},
         chaosRuns' = [chaosRuns EXCEPT ![t].result = v], chaosActive' = chaosActive
  PROVE  ChaosInv'
<1> DEFINE r == [chaosRuns[t] EXCEPT !.result = v]
<1>1. v \in RunResults
  BY DEF RunResults
<1>2. r \in Run /\ r # None /\ r.result = v /\ t \in InHandler
  BY <1>1, ResultChanges
<1>3. chaosRuns' = [chaosRuns EXCEPT ![t] = r]
  OBVIOUS
<1>4. CountedIn(r)
  BY <1>2 DEF CountedIn
<1> HIDE DEF r
<1> QED BY <1>2, <1>3, <1>4, RunGoesOn

LEMMA HandlerStep ==
  ASSUME ChaosInv, engine' = engine, NEW t \in ChaosThreads,
         \/ \E v \in {"ok", "failed", "killed"} : Faults!HandlerEnds(t, v)
         \/ \E f \in BOOLEAN : Faults!Evaluate(t, f)
         \/ Faults!RecordFailed(t)
  PROVE  ChaosInv' /\ turn' = turn
<1>1. PICK v \in {"ok", "failed", "recorded", "killed"} :
        /\ chaosRuns[t] # None /\ CountedIn(chaosRuns[t])
        /\ chaosRuns' = [chaosRuns EXCEPT ![t].result = v]
        /\ chaosActive' = chaosActive /\ turn' = turn
  <2>1. CASE \E v \in {"ok", "failed", "killed"} : Faults!HandlerEnds(t, v)
    BY <2>1 DEF Faults!HandlerEnds, Faults!monkeyVars, CountedIn
  <2>2. CASE \E f \in BOOLEAN : Faults!Evaluate(t, f)
    BY <2>2 DEF Faults!Evaluate, Faults!monkeyVars, CountedIn
  <2>3. CASE Faults!RecordFailed(t)
    BY <2>3 DEF Faults!RecordFailed, Faults!monkeyVars, CountedIn
  <2> QED BY <2>1, <2>2, <2>3
<1> QED BY <1>1, StaysIn

LEMMA CountOutStep ==
  ASSUME ChaosInv, engine' = engine, NEW t \in ChaosThreads, Faults!CountOut(t)
  PROVE  ChaosInv' /\ turn' = turn
<1>1. chaosRuns[t] # None /\ CountedIn(chaosRuns[t]) /\ chaosActive' = chaosActive - 1 /\ turn' = turn
  BY DEF Faults!CountOut, Faults!monkeyVars, CountedIn
<1>2. t \in InHandler
  BY <1>1 DEF InHandler
<1>3. \/ chaosRuns' = [chaosRuns EXCEPT ![t] = [@ EXCEPT !.result = "out_ok"]]
      \/ chaosRuns' = [chaosRuns EXCEPT ![t] = [@ EXCEPT !.result = "out_failed"]]
      \/ chaosRuns' = [chaosRuns EXCEPT ![t] = None]
  BY <1>1 DEF Faults!CountOut, ChaosInv, Run
<1>4. ASSUME NEW v \in {"out_ok", "out_failed"},
             chaosRuns' = [chaosRuns EXCEPT ![t] = [@ EXCEPT !.result = v]]
      PROVE  ChaosInv'
  <2> DEFINE r == [chaosRuns[t] EXCEPT !.result = v]
  <2>1. v \in RunResults
    BY DEF RunResults
  <2>2. r \in Run /\ r.result = v
    BY <1>1, <2>1, ResultChanges
  <2>3. chaosRuns' = [chaosRuns EXCEPT ![t] = r]
    BY <1>4
  <2>4. ~CountedIn(r)
    BY <2>2 DEF CountedIn
  <2> HIDE DEF r
  <2> QED BY <1>1, <1>2, <2>2, <2>3, <2>4, RunLeaves
<1>5. CASE chaosRuns' = [chaosRuns EXCEPT ![t] = None]
  BY <1>1, <1>2, <1>5, RunLeaves
<1> QED BY <1>1, <1>3, <1>4, <1>5

LEMMA RecordIndexedStep ==
  ASSUME ChaosInv, engine' = engine, NEW t \in ChaosThreads, Faults!RecordIndexed(t)
  PROVE  ChaosInv' /\ turn' = turn
<1>1. /\ chaosRuns[t].result = "out_ok" \/ chaosRuns[t].result = "out_failed"
      /\ chaosActive' = chaosActive /\ turn' = turn /\ chaosRuns' = [chaosRuns EXCEPT ![t] = None]
  BY DEF Faults!RecordIndexed, Faults!monkeyVars
<1>2. t \notin InHandler
  BY <1>1 DEF InHandler, CountedIn
<1> QED BY <1>1, <1>2, RunGoesOn

LEMMA LastStep ==
  ASSUME ChaosInv, engine' = engine, NEW t \in ChaosThreads,
         (\E d \in Decays : Faults!CountOutAndRecord(t, d)) \/ Faults!Killed(t)
  PROVE  ChaosInv' /\ turn' = turn
<1>1. /\ chaosRuns[t] # None /\ CountedIn(chaosRuns[t]) /\ turn' = turn
      /\ chaosRuns' = [chaosRuns EXCEPT ![t] = None]
      /\ \/ chaosActive' = chaosActive - 1
         \/ chaosActive' = chaosActive /\ engine \in Faults!CountedOut
  BY DEF Faults!CountOutAndRecord, Faults!Killed, Faults!monkeyVars, CountedIn
<1>2. t \in InHandler
  BY <1>1 DEF InHandler
<1>3. engine \in Faults!CountedOut => engine \notin Faults!WithFinally
  BY DEF Faults!CountedOut, Faults!WithFinally
<1> QED BY <1>1, <1>2, <1>3, RunLeaves

LEMMA RestartStep ==
  ASSUME ChaosInv, engine' = engine, Faults!Restart
  PROVE  ChaosInv' /\ turn' = turn
<1>1. /\ chaosRuns' = chaosRuns /\ \A t \in ChaosThreads : chaosRuns[t] = None
      /\ chaosActive' = 0 /\ turn' = turn
  BY DEF Faults!Restart, Faults!monkeyVars
<1>2. InHandler' = {}
  BY <1>1 DEF InHandler
<1>3. Cardinality(InHandler') = 0
  BY <1>2, FS_EmptySet
<1> QED BY <1>1, <1>3, ChaosLimits0 DEF ChaosInv

LEMMA ChaosUnchanged ==
  ASSUME ChaosInv, engine' = engine, UNCHANGED <<chaosRuns, chaosActive>>
  PROVE  ChaosInv'
BY DEF ChaosInv, InHandler

LEMMA TurnUnchanged ==
  ASSUME TurnInv, turn' = turn  PROVE TurnInv'
BY DEF TurnInv

LEMMA MonkeyStep ==
  ASSUME TurnInv,
         Faults!RunAll \/ \E ok \in BOOLEAN : Faults!Strike(ok) \/ Faults!Verify(ok)
  PROVE  TurnInv'
<1>1. DOMAIN turn = {"at", "attempts"} /\ turn.attempts \in 0..ChaosMaxAttempts
  BY DEF TurnInv
<1>2. CASE Faults!RunAll
  BY <1>2, ChaosLimits0 DEF Faults!RunAll, TurnInv
<1>3. ASSUME NEW s, Faults!Ends(s) PROVE TurnInv'
  BY <1>3, ChaosLimits0 DEF Faults!Ends, TurnInv
<1>4. ASSUME turn' = [turn EXCEPT !.attempts = 1] PROVE TurnInv'
  <2>1. DOMAIN turn' = {"at", "attempts"} /\ turn'.attempts = 1
    BY <1>1, <1>4
  <2> QED BY <2>1, ChaosLimits0 DEF TurnInv
<1>5. ASSUME turn' = [turn EXCEPT !.attempts = @ + 1], ~Faults!LastAttempt PROVE TurnInv'
  <2>1. DOMAIN turn' = {"at", "attempts"} /\ turn'.attempts = turn.attempts + 1
    BY <1>1, <1>5
  <2>2. turn.attempts # ChaosMaxAttempts
    BY <1>1, <1>5 DEF Faults!LastAttempt
  <2>3. turn'.attempts \in 0..ChaosMaxAttempts
    BY <1>1, <2>1, <2>2, ChaosLimits0
  <2> QED BY <2>1, <2>3 DEF TurnInv
<1>6. ASSUME NEW ok \in BOOLEAN, Faults!Strike(ok) PROVE TurnInv'
  <2>1. Faults!Ends("success") \/ turn' = [turn EXCEPT !.attempts = 1]
    BY <1>6 DEF Faults!Strike
  <2> QED BY <1>3, <1>4, <2>1
<1>7. ASSUME NEW ok \in BOOLEAN, Faults!Verify(ok) PROVE TurnInv'
  <2>1. \/ Faults!Ends("recovered") \/ Faults!Ends("failure")
        \/ ~Faults!LastAttempt /\ turn' = [turn EXCEPT !.attempts = @ + 1]
    BY <1>7, Zenon DEF Faults!Verify
  <2> QED BY <1>3, <1>5, <2>1
<1> QED BY <1>2, <1>6, <1>7

\* The steps that neither begin nor end an injection.
LEMMA QuietStep ==
  ASSUME ChaosInv, TurnInv, engine' = engine,
         \/ \E x \in ChaosTargets : Faults!Register(x) \/ Faults!Schedule(x)
         \/ \E p \in BOOLEAN : Faults!SetPaused(p)
         \/ \E t \in ChaosThreads, x \in ChaosTargets, id \in ChaosIds : Faults!Refuse(t, x, id)
         \/ \E x \in ChaosTargets, id \in ChaosIds : Faults!InjectFactory(x, id)
         \/ Faults!ResetMonkey
  PROVE  ChaosInv' /\ TurnInv'
<1>1. UNCHANGED <<chaosRuns, chaosActive>> /\ turn' = turn
  BY DEF Faults!Register, Faults!Schedule, Faults!SetPaused, Faults!Refuse,
         Faults!InjectFactory, Faults!ResetMonkey, Faults!monkeyVars, Faults!injectVars
<1> QED BY <1>1, ChaosUnchanged, TurnUnchanged

LEMMA FaultsStep ==
  ASSUME ChaosInv, TurnInv, engine' = engine, Faults!Next
  PROVE  ChaosInv' /\ TurnInv'
<1> DEFINE A == \E t \in ChaosThreads, x \in ChaosTargets, id \in ChaosIds :
                  \/ Faults!Begin(t, x, id)
                  \/ Faults!InjectRandomSlot(t, x, id) \/ Faults!InjectRandomStrategy(t, x, id)
           B == \/ \E t \in ChaosThreads, r \in {"ok", "failed", "killed"} : Faults!HandlerEnds(t, r)
                \/ \E t \in ChaosThreads, f \in BOOLEAN : Faults!Evaluate(t, f)
                \/ \E t \in ChaosThreads : \/ Faults!CountOut(t) \/ Faults!RecordIndexed(t)
                                           \/ Faults!RecordFailed(t) \/ Faults!Killed(t)
                \/ \E t \in ChaosThreads, d \in Decays : Faults!CountOutAndRecord(t, d)
           C == \/ \E x \in ChaosTargets : Faults!Register(x) \/ Faults!Schedule(x)
                \/ \E p \in BOOLEAN : Faults!SetPaused(p)
                \/ \E t \in ChaosThreads, x \in ChaosTargets, id \in ChaosIds : Faults!Refuse(t, x, id)
                \/ \E x \in ChaosTargets, id \in ChaosIds : Faults!InjectFactory(x, id)
                \/ Faults!ResetMonkey
           D == Faults!RunAll \/ \E ok \in BOOLEAN : Faults!Strike(ok) \/ Faults!Verify(ok)
<1>1. A \/ B \/ C \/ D \/ Faults!Restart
  BY DEF Faults!Next
<1>2. CASE A
  <2>1. PICK t \in ChaosThreads, x \in ChaosTargets, id \in ChaosIds : Faults!Begin(t, x, id)
    BY <1>2 DEF Faults!InjectRandomSlot, Faults!InjectRandomStrategy
  <2> QED BY <2>1, BeginStep, TurnUnchanged
<1>3. CASE B
  <2>1. ChaosInv' /\ turn' = turn
    BY <1>3, HandlerStep, CountOutStep, RecordIndexedStep, LastStep
  <2> QED BY <2>1, TurnUnchanged
<1>4. CASE C
  BY <1>4, QuietStep
<1>5. CASE D
  <2>1. UNCHANGED <<chaosRuns, chaosActive>>
    BY <1>5 DEF Faults!RunAll, Faults!Strike, Faults!Verify, Faults!injectVars
  <2> QED BY <1>5, <2>1, ChaosUnchanged, MonkeyStep
<1>6. CASE Faults!Restart
  BY <1>6, RestartStep, TurnUnchanged
<1> HIDE DEF A, B, C, D
<1> QED BY <1>1, <1>2, <1>3, <1>4, <1>5, <1>6

LEMMA FaultsStands ==
  ASSUME ChaosInv, TurnInv, engine' = engine, UNCHANGED faultsVars
  PROVE  ChaosInv' /\ TurnInv'
<1>1. UNCHANGED <<chaosRuns, chaosActive>> /\ turn' = turn
  BY DEF faultsVars
<1> QED BY <1>1, ChaosUnchanged, TurnUnchanged

LEMMA FaultsLimits ==
  ASSUME ChaosInv, TurnInv  PROVE Faults!ChaosBounded /\ Faults!AttemptsBounded
<1>1. Faults!ChaosBounded
  <2>1. Cardinality(InHandler) <= MaxConcurrent
    BY InHandlerFinite, ChaosLimits0 DEF ChaosInv
  <2> QED BY <2>1, InHandlerIsRunning, FaultsCounts DEF ChaosInv, Faults!ChaosBounded
<1>2. Faults!AttemptsBounded
  BY ChaosLimits0 DEF TurnInv, Faults!AttemptsBounded
<1> QED BY <1>1, <1>2
-----------------------------------------------------------------------------
(* Messages in a minute.  What was read from the clock within the last minute is still *)
(* stamped, so that whoever passes has counted it.                                      *)

Passed(from) == {i \in GuestIds : sentAt[i] # None /\ sentAt[i][1] >= from /\ sentAt[i][2] <= from + Minute}

RateInv ==
  /\ guestClock \in Nat
  /\ read \in [GuestThreads -> Nat \cup {None}]
  /\ \A t \in GuestThreads : read[t] # None => read[t] <= guestClock
  /\ stamps \in [GuestIds -> Nat \cup {None}]
  /\ sentAt \in [GuestIds -> (Nat \X Nat) \cup {None}]
  /\ \A i \in GuestIds : sentAt[i] # None =>
       /\ sentAt[i][1] <= sentAt[i][2] /\ sentAt[i][2] <= guestClock
       /\ guestClock - Minute <= sentAt[i][1] => stamps[i] = sentAt[i][1]
  /\ \A from \in Nat : Cardinality(Passed(from)) <= GuestLimit

LEMMA GuestLimits0 ==
  IsFiniteSet(GuestIds) /\ GuestLimit \in Nat /\ Minute \in Nat /\ None \notin Int
BY AssumptionsHold DEF GuestAssumption

LEMMA GuestsCount ==
  ASSUME NEW S  PROVE Guests!Cardinality(S) = Cardinality(S)
BY DEF Guests!Cardinality, Cardinality

LEMMA PassedFinite ==
  ASSUME NEW from  PROVE IsFiniteSet(Passed(from)) /\ Cardinality(Passed(from)) \in Nat
BY GuestLimits0, PartIsSmaller DEF Passed

LEMMA GuestsStart ==
  ASSUME Guests!Start  PROVE RateInv
<1>1. /\ guestClock = 0 /\ read = [t \in GuestThreads |-> None]
      /\ stamps = [i \in GuestIds |-> None] /\ sentAt = [i \in GuestIds |-> None]
  BY DEF Guests!Start
<1>2. ASSUME NEW from \in Nat PROVE Cardinality(Passed(from)) <= GuestLimit
  <2>1. Passed(from) = {}
    BY <1>1 DEF Passed
  <2> QED BY <2>1, FS_EmptySet, GuestLimits0
<1> QED BY <1>1, <1>2 DEF RateInv

LEMMA TickKeepsRate ==
  ASSUME RateInv, Guests!Tick  PROVE RateInv'
<1>1. guestClock' = guestClock + 1 /\ UNCHANGED <<read, stamps, sentAt>>
  BY DEF Guests!Tick
<1>2. guestClock' \in Nat /\ \A t \in GuestThreads : read'[t] # None => read'[t] <= guestClock'
  <2>1. \A t \in GuestThreads : read[t] # None => read[t] \in Nat
    BY DEF RateInv
  <2> QED BY <1>1, <2>1 DEF RateInv
<1>3. ASSUME NEW i \in GuestIds, sentAt[i] # None
      PROVE  /\ sentAt[i][1] <= sentAt[i][2] /\ sentAt[i][2] <= guestClock'
             /\ guestClock' - Minute <= sentAt[i][1] => stamps[i] = sentAt[i][1]
  <2>1. sentAt[i][1] \in Nat /\ sentAt[i][2] \in Nat
    BY <1>3 DEF RateInv
  <2> QED BY <1>1, <1>3, <2>1, GuestLimits0 DEF RateInv
<1>4. ASSUME NEW from \in Nat PROVE Cardinality(Passed(from)') <= GuestLimit
  <2>1. Passed(from)' = Passed(from)
    BY <1>1 DEF Passed
  <2> QED BY <2>1 DEF RateInv
<1> QED BY <1>1, <1>2, <1>3, <1>4 DEF RateInv

LEMMA ReadKeepsRate ==
  ASSUME RateInv, NEW t \in GuestThreads, Guests!ReadClock(t)  PROVE RateInv'
<1>1. read' = [read EXCEPT ![t] = guestClock] /\ UNCHANGED <<guestClock, stamps, sentAt>>
  BY DEF Guests!ReadClock
<1>2. read' \in [GuestThreads -> Nat \cup {None}]
      /\ \A u \in GuestThreads : read'[u] # None => read'[u] <= guestClock
  BY <1>1 DEF RateInv
<1>3. ASSUME NEW from \in Nat PROVE Cardinality(Passed(from)') <= GuestLimit
  <2>1. Passed(from)' = Passed(from)
    BY <1>1 DEF Passed
  <2> QED BY <2>1 DEF RateInv
<1> QED BY <1>1, <1>2, <1>3 DEF RateInv

LEMMA CheckKeepsRate ==
  ASSUME RateInv, NEW t \in GuestThreads, Guests!CheckRateLimit(t)  PROVE RateInv'
<1> DEFINE now == read[t]
           recent == {i \in GuestIds : stamps[i] # None /\ stamps[i] >= now - Minute}
           kept == [i \in GuestIds |-> IF i \in recent THEN stamps[i] ELSE None]
<1>1. /\ read[t] # None /\ guestClock' = guestClock /\ read' = [read EXCEPT ![t] = None]
      /\ \/ stamps' = kept /\ sentAt' = sentAt
         \/ /\ ~(Cardinality(recent) >= GuestLimit)
            /\ \E i \in GuestIds : /\ stamps' = [kept EXCEPT ![i] = now]
                                   /\ sentAt' = [sentAt EXCEPT ![i] = <<now, guestClock>>]
  BY GuestsCount DEF Guests!CheckRateLimit, Guests!Window
<1>2. now \in Nat /\ now <= guestClock /\ guestClock \in Nat
  BY <1>1 DEF RateInv
<1>3. read' \in [GuestThreads -> Nat \cup {None}]
      /\ \A u \in GuestThreads : read'[u] # None => read'[u] <= guestClock'
  BY <1>1 DEF RateInv
<1>4. kept \in [GuestIds -> Nat \cup {None}]
  BY DEF RateInv
<1>5. ASSUME NEW i \in GuestIds, sentAt[i] # None, guestClock - Minute <= sentAt[i][1]
      PROVE  i \in recent /\ kept[i] = sentAt[i][1]
  <2>1. stamps[i] = sentAt[i][1] /\ sentAt[i][1] \in Nat
    BY <1>5 DEF RateInv
  <2>2. stamps[i] >= now - Minute /\ stamps[i] # None
    BY <1>2, <1>5, <2>1, GuestLimits0
  <2> QED BY <2>1, <2>2
<1>6. IsFiniteSet(recent) /\ Cardinality(recent) \in Nat
  BY GuestLimits0, PartIsSmaller
<1> HIDE DEF now, recent, kept
<1>7. CASE stamps' = kept /\ sentAt' = sentAt
  <2>1. \A i \in GuestIds : sentAt'[i] # None =>
          /\ sentAt'[i][1] <= sentAt'[i][2] /\ sentAt'[i][2] <= guestClock'
          /\ guestClock' - Minute <= sentAt'[i][1] => stamps'[i] = sentAt'[i][1]
    BY <1>1, <1>5, <1>7 DEF RateInv
  <2>2. ASSUME NEW from \in Nat PROVE Cardinality(Passed(from)') <= GuestLimit
    <3>1. Passed(from)' = Passed(from)
      BY <1>7 DEF Passed
    <3> QED BY <3>1 DEF RateInv
  <2> QED BY <1>1, <1>3, <1>4, <1>7, <2>1, <2>2 DEF RateInv
<1>8. ASSUME ~(Cardinality(recent) >= GuestLimit), NEW i \in GuestIds,
             stamps' = [kept EXCEPT ![i] = now], sentAt' = [sentAt EXCEPT ![i] = <<now, guestClock>>]
      PROVE  RateInv'
  <2>1. stamps' \in [GuestIds -> Nat \cup {None}]
        /\ sentAt' \in [GuestIds -> (Nat \X Nat) \cup {None}]
    <3>1. sentAt \in [GuestIds -> (Nat \X Nat) \cup {None}]
      BY DEF RateInv
    <3> QED BY <1>2, <1>4, <1>8, <3>1
  <2>2. /\ sentAt'[i] = <<now, guestClock>> /\ stamps'[i] = now
        /\ \A j \in GuestIds \ {i} : sentAt'[j] = sentAt[j] /\ stamps'[j] = kept[j]
    BY <1>4, <1>8 DEF RateInv
  <2>3. ASSUME NEW j \in GuestIds, sentAt'[j] # None
        PROVE  /\ sentAt'[j][1] <= sentAt'[j][2] /\ sentAt'[j][2] <= guestClock'
               /\ guestClock' - Minute <= sentAt'[j][1] => stamps'[j] = sentAt'[j][1]
    <3>1. CASE j = i
      BY <1>1, <1>2, <2>2, <3>1
    <3>2. CASE j # i
      BY <1>1, <1>5, <2>2, <2>3, <3>2 DEF RateInv
    <3> QED BY <3>1, <3>2
  <2>4. ASSUME NEW from \in Nat PROVE Cardinality(Passed(from)') <= GuestLimit
    <3>1. CASE i \notin Passed(from)'
      <4>1. Passed(from)' \subseteq Passed(from)
        BY <2>2, <3>1 DEF Passed
      <4>2. Cardinality(Passed(from)') <= Cardinality(Passed(from)) /\ Cardinality(Passed(from)') \in Nat
            /\ Cardinality(Passed(from)) \in Nat
        BY <4>1, PassedFinite, PartIsSmaller
      <4>3. Cardinality(Passed(from)) <= GuestLimit
        BY DEF RateInv
      <4> QED BY <4>2, <4>3, GuestLimits0
    <3>2. CASE i \in Passed(from)'
      <4>1. from <= now /\ guestClock <= from + Minute
        BY <2>2, <3>2 DEF Passed
      <4>2. ASSUME NEW j \in Passed(from)', j # i PROVE j \in recent
        <5>1. j \in GuestIds /\ sentAt[j] # None /\ sentAt[j][1] >= from
          BY <2>2, <4>2 DEF Passed
        <5>2. sentAt[j][1] \in Nat
          BY <5>1 DEF RateInv
        <5>3. guestClock - Minute <= sentAt[j][1]
          BY <1>2, <4>1, <5>1, <5>2, GuestLimits0
        <5> QED BY <1>5, <5>1, <5>3
      <4>3. Passed(from)' \subseteq recent \cup {i}
        BY <4>2
      <4>4. IsFiniteSet(recent \cup {i}) /\ Cardinality(recent \cup {i}) <= Cardinality(recent) + 1
            /\ Cardinality(recent \cup {i}) \in Nat
        <5>1. CASE i \in recent
          <6>1. recent \cup {i} = recent
            BY <5>1
          <6> QED BY <1>6, <6>1
        <5>2. CASE i \notin recent
          BY <1>6, <5>2, OneMore
        <5> QED BY <5>1, <5>2
      <4>5. Cardinality(Passed(from)') <= Cardinality(recent \cup {i}) /\ Cardinality(Passed(from)') \in Nat
        BY <4>3, <4>4, PartIsSmaller
      <4> QED BY <1>6, <1>8, <4>4, <4>5, GuestLimits0
    <3> QED BY <3>1, <3>2
  <2> QED BY <1>1, <1>2, <1>3, <2>1, <2>3, <2>4 DEF RateInv
<1> QED BY <1>1, <1>7, <1>8

LEMMA RateUnchanged ==
  ASSUME RateInv, UNCHANGED <<guestClock, read, stamps, sentAt>>  PROVE RateInv'
BY DEF RateInv, Passed

\* Everything but messages.
LEMMA OtherGuestsStep ==
  ASSUME RateInv,
         \/ \E i \in GuestIds, k \in GuestKeys \cup {None} :
              \/ Guests!CreatePaymentIntent(i, k) \/ Guests!CapturePayment(i, k)
              \/ \E a \in 1..Amount : Guests!RefundPayment(i, a, k)
         \/ Guests!Answer \/ Guests!ListDeals \/ Guests!MessageHistory
         \/ Guests!PostUpdate \/ Guests!Recommend
         \/ \E e \in Emails : Guests!SendEmail(e) \/ \E on \in BOOLEAN : Guests!SuppressionHandling(e, on)
  PROVE  RateInv'
<1>1. UNCHANGED <<guestClock, read, stamps, sentAt>>
  BY DEF Guests!CreatePaymentIntent, Guests!CapturePayment, Guests!RefundPayment, Guests!Answer,
         Guests!ListDeals, Guests!MessageHistory, Guests!PostUpdate, Guests!Recommend,
         Guests!SendEmail, Guests!SuppressionHandling, Guests!vars, Guests!sendVars
<1> QED BY <1>1, RateUnchanged

LEMMA ContactsStep ==
  ASSUME RateInv, NEW i \in GuestIds,
         \/ \E e \in Emails : \/ Guests!CreateContact(i, e) \/ Guests!UpdateContact(i, e)
                              \/ Guests!CreateList(i, e)
                              \/ \E keep \in BOOLEAN : Guests!UpdateList(i, e, keep)
         \/ Guests!CreateDeal(i) \/ Guests!LogActivity(i) \/ Guests!DeleteList(i)
         \/ \E s \in {"delivered", "failed"} : Guests!StatusCallback(i, s)
  PROVE  RateInv'
<1>1. UNCHANGED <<guestClock, read, stamps, sentAt>>
  BY DEF Guests!CreateContact, Guests!UpdateContact, Guests!CreateList, Guests!UpdateList,
         Guests!CreateDeal, Guests!LogActivity, Guests!AddRecord, Guests!DeleteList,
         Guests!StatusCallback, Guests!sendVars
<1> QED BY <1>1, RateUnchanged

LEMMA ChannelsStep ==
  ASSUME RateInv,
         \/ \E t \in GuestThreads : \/ Guests!Distributed(t)
                                    \/ \E v \in GuestThreads : Guests!DistributeAri(t, v)
                                    \/ \E c \in Channels : Guests!PushToChannel(t, c)
         \/ \E c \in Channels, v \in GuestThreads :
              \/ Guests!ReceiveBooking(c, v) \/ Guests!ReplyToReview(c, v)
              \/ Guests!PushRateDecision(c, v)
  PROVE  RateInv'
<1>1. UNCHANGED <<guestClock, read, stamps, sentAt>>
  BY DEF Guests!Distributed, Guests!DistributeAri, Guests!PushToChannel, Guests!ReceiveBooking,
         Guests!ReplyToReview, Guests!PushRateDecision, Guests!Overwrite, Guests!sendVars
<1> QED BY <1>1, RateUnchanged

LEMMA GuestsStep ==
  ASSUME RateInv, Guests!Next  PROVE RateInv'
<1> DEFINE A == \/ \E i \in GuestIds, k \in GuestKeys \cup {None} :
                     \/ Guests!CreatePaymentIntent(i, k) \/ Guests!CapturePayment(i, k)
                     \/ \E a \in 1..Amount : Guests!RefundPayment(i, a, k)
                \/ Guests!Answer \/ Guests!ListDeals \/ Guests!MessageHistory
                \/ Guests!PostUpdate \/ Guests!Recommend
                \/ \E e \in Emails : Guests!SendEmail(e) \/ \E on \in BOOLEAN : Guests!SuppressionHandling(e, on)
           B == \E i \in GuestIds :
                  \/ \E e \in Emails : \/ Guests!CreateContact(i, e) \/ Guests!UpdateContact(i, e)
                                       \/ Guests!CreateList(i, e)
                                       \/ \E keep \in BOOLEAN : Guests!UpdateList(i, e, keep)
                  \/ Guests!CreateDeal(i) \/ Guests!LogActivity(i) \/ Guests!DeleteList(i)
                  \/ \E s \in {"delivered", "failed"} : Guests!StatusCallback(i, s)
           C == \/ \E t \in GuestThreads : \/ Guests!Distributed(t)
                                           \/ \E v \in GuestThreads : Guests!DistributeAri(t, v)
                                           \/ \E c \in Channels : Guests!PushToChannel(t, c)
                \/ \E c \in Channels, v \in GuestThreads :
                     \/ Guests!ReceiveBooking(c, v) \/ Guests!ReplyToReview(c, v)
                     \/ Guests!PushRateDecision(c, v)
           D == \E t \in GuestThreads : Guests!ReadClock(t) \/ Guests!CheckRateLimit(t)
<1>1. A \/ B \/ C \/ D \/ Guests!Tick
  BY DEF Guests!Next
<1>2. A => RateInv'
  BY OtherGuestsStep
<1>3. B => RateInv'
  BY ContactsStep
<1>4. C => RateInv'
  BY ChannelsStep
<1>5. D => RateInv'
  BY ReadKeepsRate, CheckKeepsRate
<1> HIDE DEF A, B, C, D
<1> QED BY <1>1, <1>2, <1>3, <1>4, <1>5, TickKeepsRate

LEMMA GuestsStand ==
  ASSUME RateInv, UNCHANGED guestsVars  PROVE RateInv'
<1>1. UNCHANGED <<guestClock, read, stamps, sentAt>>
  BY DEF guestsVars
<1> QED BY <1>1, RateUnchanged

LEMMA GuestsLimits ==
  ASSUME RateInv  PROVE Guests!RateKept
<1>1. ASSUME NEW from \in 0..guestClock PROVE Cardinality(Passed(from)) <= GuestLimit
  <2>1. from \in Nat
    BY DEF RateInv
  <2> QED BY <2>1 DEF RateInv
<1> QED BY <1>1, GuestsCount DEF Guests!RateKept, Passed
-----------------------------------------------------------------------------
(* Pods.  A thread that was admitted saw room for one pod. *)

Live == {p \in Pods \ revived : pods[p] # None /\ pods[p].condition # "terminated"}

PodInv ==
  engine = "pods" =>
    /\ DOMAIN pods = Pods
    /\ \A p \in Pods : pods[p] # None => DOMAIN pods[p] = {"phase", "condition"}
    /\ admitted \subseteq ShardThreads
    /\ Cardinality(Live) + Cardinality(admitted) <= MaxPods + Cardinality(ShardThreads) - 1

LEMMA ShardLimits0 ==
  /\ IsFiniteSet(ShardThreads) /\ Cardinality(ShardThreads) \in Nat
  /\ IsFiniteSet(Pods) /\ MaxPods \in Nat /\ MaxPods > 0
BY AssumptionsHold, FS_CardinalityType DEF ShardAssumption

LEMMA ShardsCount ==
  ASSUME NEW S  PROVE Shards!Cardinality(S) = Cardinality(S)
BY DEF Shards!Cardinality, Cardinality

LEMMA LiveFinite == IsFiniteSet(Live) /\ Cardinality(Live) \in Nat
BY ShardLimits0, PartIsSmaller DEF Live

LEMMA AdmittedFinite ==
  ASSUME admitted \subseteq ShardThreads
  PROVE  IsFiniteSet(admitted) /\ Cardinality(admitted) \in Nat
         /\ Cardinality(admitted) <= Cardinality(ShardThreads)
BY ShardLimits0, PartIsSmaller

LEMMA ShardsStart ==
  ASSUME Shards!Start  PROVE PodInv
<1>1. pods = [p \in Pods |-> None] /\ admitted = {}
  BY DEF Shards!Start
<1>2. Live = {}
  BY <1>1 DEF Live
<1>3. Cardinality(Live) = 0 /\ Cardinality(admitted) = 0
  BY <1>1, <1>2, FS_EmptySet
<1> QED BY <1>1, <1>3, ShardLimits0 DEF PodInv

LEMMA AdmitStep ==
  ASSUME PodInv, engine' = engine, NEW t \in ShardThreads, Shards!AdmitPod(t)
  PROVE  PodInv'
<1>1. /\ engine = "pods" /\ admitted' = admitted \cup {t} /\ UNCHANGED <<pods, revived>>
      /\ Cardinality(Shards!Active) < MaxPods
  BY ShardsCount DEF Shards!AdmitPod
<1>2. admitted' \subseteq ShardThreads
  BY <1>1 DEF PodInv
<1>3. Cardinality(Live) <= Cardinality(Shards!Active) /\ Cardinality(Shards!Active) \in Nat
  <2>1. Live \subseteq Shards!Active /\ Shards!Active \subseteq Pods
    BY DEF Live, Shards!Active
  <2> QED BY <2>1, ShardLimits0, PartIsSmaller
<1>4. Live' = Live
  BY <1>1 DEF Live
<1>5. Cardinality(admitted') \in Nat /\ Cardinality(admitted') <= Cardinality(ShardThreads)
  BY <1>2, ShardLimits0, PartIsSmaller
<1>6. Cardinality(Live') + Cardinality(admitted') <= MaxPods + Cardinality(ShardThreads) - 1
  BY <1>1, <1>3, <1>4, <1>5, LiveFinite, ShardLimits0
<1> QED BY <1>1, <1>2, <1>6 DEF PodInv

LEMMA CreateStep ==
  ASSUME PodInv, engine' = engine, NEW t \in ShardThreads, NEW p \in Pods, Shards!CreatePod(t, p)
  PROVE  PodInv'
<1>1. /\ engine = "pods" /\ t \in admitted /\ admitted' = admitted \ {t} /\ revived' = revived
      /\ pods' = [pods EXCEPT ![p] = [phase |-> "pending", condition |-> "healthy"]]
  BY DEF Shards!CreatePod
<1>2. /\ DOMAIN pods' = Pods
      /\ \A q \in Pods : pods'[q] # None => DOMAIN pods'[q] = {"phase", "condition"}
  BY <1>1 DEF PodInv
<1>3. Live' \subseteq Live \cup {p}
  BY <1>1 DEF PodInv, Live
<1>4. Cardinality(Live') <= Cardinality(Live) + 1 /\ Cardinality(Live') \in Nat
  <2>1. IsFiniteSet(Live \cup {p}) /\ Cardinality(Live \cup {p}) \in Nat
        /\ Cardinality(Live \cup {p}) <= Cardinality(Live) + 1
    <3>1. CASE p \in Live
      <4>1. Live \cup {p} = Live
        BY <3>1
      <4>2. Cardinality(Live) <= Cardinality(Live) + 1
        BY LiveFinite
      <4> QED BY <4>1, <4>2, LiveFinite, Zenon
    <3>2. CASE p \notin Live
      BY <3>2, LiveFinite, OneMore
    <3> QED BY <3>1, <3>2
  <2>2. Cardinality(Live') <= Cardinality(Live \cup {p}) /\ Cardinality(Live') \in Nat
    BY <1>3, <2>1, PartIsSmaller
  <2> QED BY <2>1, <2>2, LiveFinite
<1>5. Cardinality(admitted') = Cardinality(admitted) - 1 /\ Cardinality(admitted) \in Nat
  BY <1>1, AdmittedFinite, OneLess DEF PodInv
<1>6. Cardinality(Live') + Cardinality(admitted') <= MaxPods + Cardinality(ShardThreads) - 1
  BY <1>1, <1>4, <1>5, LiveFinite, ShardLimits0 DEF PodInv
<1>7. admitted' \subseteq ShardThreads
  BY <1>1 DEF PodInv
<1> QED BY <1>1, <1>2, <1>6, <1>7 DEF PodInv

\* No other step makes a pod count, except one that was terminated.
LEMMA NoMoreLive ==
  ASSUME PodInv, engine' = engine, engine = "pods", admitted' = admitted, Live' \subseteq Live,
         DOMAIN pods' = Pods,
         \A p \in Pods : pods'[p] # None => DOMAIN pods'[p] = {"phase", "condition"}
  PROVE  PodInv'
<1>1. Cardinality(Live') <= Cardinality(Live) /\ Cardinality(Live') \in Nat
  BY LiveFinite, PartIsSmaller
<1>2. Cardinality(admitted) \in Nat
  BY AdmittedFinite DEF PodInv
<1> QED BY <1>1, <1>2, LiveFinite, ShardLimits0 DEF PodInv

LEMMA PodStep ==
  ASSUME PodInv, engine' = engine, NEW p \in Pods,
         \/ Shards!TransitionToRunning(p) \/ Shards!ProtectPod(p) \/ Shards!ProtectionExpires(p)
         \/ Shards!Terminate(p)
         \/ \E x \in BOOLEAN : Shards!UpdateUsage(p, x) \/ Shards!EvaluateTrigger(p, x)
  PROVE  PodInv'
<1>0. engine = "pods" /\ admitted' = admitted
  BY DEF Shards!TransitionToRunning, Shards!ProtectPod, Shards!ProtectionExpires, Shards!Terminate,
         Shards!UpdateUsage, Shards!EvaluateTrigger
<1>1. /\ DOMAIN pods = Pods
      /\ \A q \in Pods : pods[q] # None => DOMAIN pods[q] = {"phase", "condition"}
  BY <1>0 DEF PodInv
<1> DEFINE Goal == /\ Live' \subseteq Live /\ DOMAIN pods' = Pods
                   /\ \A q \in Pods : pods'[q] # None => DOMAIN pods'[q] = {"phase", "condition"}
<1> SUFFICES Goal
  BY <1>0, NoMoreLive
<1>2. CASE Shards!TransitionToRunning(p)
  BY <1>1, <1>2 DEF Shards!TransitionToRunning, Live
<1>3. CASE Shards!ProtectPod(p) \/ Shards!ProtectionExpires(p)
  BY <1>1, <1>3 DEF Shards!ProtectPod, Shards!ProtectionExpires, Live
<1>4. CASE Shards!Terminate(p)
  BY <1>1, <1>4 DEF Shards!Terminate, Live
<1>5. ASSUME NEW x \in BOOLEAN, Shards!UpdateUsage(p, x)
      PROVE  Goal
  BY <1>1, <1>5 DEF Shards!UpdateUsage, Live
<1>6. ASSUME NEW x \in BOOLEAN, Shards!EvaluateTrigger(p, x)
      PROVE  Goal
  BY <1>1, <1>6 DEF Shards!EvaluateTrigger, Live
<1> HIDE DEF Goal
<1> QED BY <1>2, <1>3, <1>4, <1>5, <1>6

LEMMA CleanupStep ==
  ASSUME PodInv, engine' = engine, Shards!CleanupTerminated
  PROVE  PodInv'
<1>1. /\ engine = "pods" /\ UNCHANGED <<admitted, revived>>
      /\ pods' = [p \in Pods |-> IF p \in Shards!Active THEN pods[p] ELSE None]
  BY DEF Shards!CleanupTerminated
<1>2. Live' \subseteq Live
  BY <1>1 DEF Live
<1>3. /\ DOMAIN pods' = Pods
      /\ \A p \in Pods : pods'[p] # None => DOMAIN pods'[p] = {"phase", "condition"}
  BY <1>1 DEF PodInv
<1> QED BY <1>1, <1>2, <1>3, NoMoreLive

LEMMA ShardsStep ==
  ASSUME PodInv, engine' = engine, Shards!Next  PROVE PodInv'
<1>1. CASE engine # "pods"
  BY <1>1 DEF PodInv
<1>2. CASE engine = "pods"
  <2>1. \/ \E t \in ShardThreads : Shards!AdmitPod(t) \/ \E p \in Pods : Shards!CreatePod(t, p)
        \/ Shards!CleanupTerminated
        \/ \E p \in Pods :
             \/ Shards!TransitionToRunning(p) \/ Shards!ProtectPod(p) \/ Shards!ProtectionExpires(p)
             \/ Shards!Terminate(p)
             \/ \E x \in BOOLEAN : Shards!UpdateUsage(p, x) \/ Shards!EvaluateTrigger(p, x)
    BY <1>2 DEF Shards!Next, Shards!ExecuteMitose, Shards!RunCycle, Shards!SplitShard,
                Shards!PopKeys, Shards!PromoteDaughter, Shards!PlaceKey, Shards!ReadTopology,
                Shards!CascadeApoptosis
  <2> QED BY <2>1, AdmitStep, CreateStep, CleanupStep, PodStep
<1> QED BY <1>1, <1>2

LEMMA ShardsStand ==
  ASSUME PodInv, engine' = engine, UNCHANGED shardsVars  PROVE PodInv'
<1>1. UNCHANGED <<pods, revived, admitted>>
  BY DEF shardsVars
<1> QED BY <1>1 DEF PodInv, Live

LEMMA ShardsLimits ==
  ASSUME PodInv  PROVE Shards!QuotaAlmostKept
BY ShardsCount DEF PodInv, Live, Shards!QuotaAlmostKept
-----------------------------------------------------------------------------
(* The coordinator of the modes keeps its distance, and a month's action is begun once. *)

HastyInv ==
  /\ signalClock \in 0..SignalMaxTime /\ switchedAt \in Int
  /\ ~hasty.early /\ hasty.at = IF switchedAt = -1 THEN -Refractory ELSE switchedAt
  /\ reacting # "none" /\ reacting # "emergency" =>
       switchedAt = -1 \/ signalClock - switchedAt >= Refractory

MonthInv ==
  /\ signalClock \in 0..SignalMaxTime
  /\ DOMAIN month = {"last", "depth", "runs"}
  /\ month.last \in Int /\ month.last <= signalClock
  /\ month.runs \in [0..SignalMaxTime -> Int]
  /\ \A t \in 0..SignalMaxTime :
       /\ month.runs[t] <= 1
       /\ t > signalClock \/ (t = signalClock /\ month.last # signalClock) => month.runs[t] = 0

LEMMA SignalLimits0 == Refractory \in Nat /\ SignalMaxTime \in Nat
BY AssumptionsHold DEF SignalAssumption

LEMMA SignalStart ==
  ASSUME Signal!Start  PROVE HastyInv /\ MonthInv
<1>1. /\ signalClock = 0 /\ switchedAt = -1 /\ reacting = "none"
      /\ hasty = [at |-> -Refractory, early |-> FALSE]
      /\ month = [last |-> -1, depth |-> 0, runs |-> [t \in 0..SignalMaxTime |-> 0]]
  BY DEF Signal!Start
<1>2. ~hasty.early
  BY <1>1
<1>3. HastyInv
  BY <1>1, <1>2, SignalLimits0 DEF HastyInv
<1>4. MonthInv
  BY <1>1, SignalLimits0 DEF MonthInv
<1> QED BY <1>3, <1>4

LEMMA ClockStep ==
  ASSUME HastyInv, MonthInv, Signal!Tick  PROVE HastyInv' /\ MonthInv'
<1>1. /\ signalClock < SignalMaxTime /\ signalClock' = signalClock + 1
      /\ UNCHANGED <<switchedAt, hasty, reacting, month>>
  BY DEF Signal!Tick, Signal!modeVars
<1>2. signalClock \in Int /\ signalClock' \in 0..SignalMaxTime
  BY <1>1, SignalLimits0 DEF HastyInv
<1>3. HastyInv'
  BY <1>1, <1>2, SignalLimits0 DEF HastyInv
<1>4. MonthInv'
  <2>1. ASSUME NEW t \in 0..SignalMaxTime, t > signalClock' \/ (t = signalClock' /\ month.last # signalClock')
        PROVE  month.runs[t] = 0
    <3>1. t > signalClock
      BY <1>1, <1>2, <2>1
    <3> QED BY <3>1 DEF MonthInv
  <2>2. month.last <= signalClock'
    BY <1>1, <1>2 DEF MonthInv
  <2> QED BY <1>1, <1>2, <2>1, <2>2 DEF MonthInv
<1> QED BY <1>3, <1>4

LEMMA HastyUnchanged ==
  ASSUME HastyInv, UNCHANGED <<signalClock, switchedAt, hasty, reacting>>  PROVE HastyInv'
BY DEF HastyInv

LEMMA MonthUnchanged ==
  ASSUME MonthInv, UNCHANGED <<signalClock, month>>  PROVE MonthInv'
BY DEF MonthInv

LEMMA ReactToHealthStep ==
  ASSUME HastyInv, NEW s, Signal!ReactToHealth(s)  PROVE HastyInv'
<1>1. /\ reacting' = s /\ UNCHANGED <<signalClock, switchedAt, hasty>>
      /\ s = "emergency" \/ ~Signal!RefractoryActive
  BY DEF Signal!ReactToHealth, Signal!Others
<1>2. ~Signal!RefractoryActive => switchedAt = -1 \/ signalClock - switchedAt >= Refractory
  BY SignalLimits0 DEF Signal!RefractoryActive, HastyInv
<1> QED BY <1>1, <1>2 DEF HastyInv

LEMMA SwitchStep ==
  ASSUME HastyInv, NEW m, Signal!Switch(m), reacting # "none", reacting' = "none",
         signalClock' = signalClock
  PROVE  HastyInv'
<1>1. /\ switchedAt' = signalClock
      /\ hasty' = [at |-> signalClock,
                   early |-> hasty.early \/ (reacting # "emergency" /\ signalClock - hasty.at < Refractory)]
  BY DEF Signal!Switch, Signal!RecordSwitch
<1>2. ~(reacting # "emergency" /\ signalClock - hasty.at < Refractory)
  BY SignalLimits0 DEF HastyInv
<1>3. ~hasty.early
  BY DEF HastyInv
<1>4. hasty'.early = (hasty.early \/ (reacting # "emergency" /\ signalClock - hasty.at < Refractory))
      /\ hasty'.at = signalClock
  BY <1>1
<1>5. ~hasty'.early
  BY <1>2, <1>3, <1>4, Zenon
<1>6. switchedAt' # -1 /\ switchedAt' \in Int
  BY <1>1 DEF HastyInv
<1> QED BY <1>1, <1>4, <1>5, <1>6 DEF HastyInv

LEMMA ReactStep ==
  ASSUME HastyInv, Signal!React  PROVE HastyInv'
<1>1. reacting # "none" /\ reacting' = "none" /\ signalClock' = signalClock
  BY DEF Signal!React, Signal!Others
<1>2. \/ Signal!Switch("sleep") \/ Signal!Switch("peak_load") \/ Signal!Switch("incident")
      \/ UNCHANGED <<mode, switchedAt, hasty>>
  BY Zenon DEF Signal!React
<1>3. CASE UNCHANGED <<mode, switchedAt, hasty>>
  BY <1>1, <1>3 DEF HastyInv
<1> QED BY <1>1, <1>2, <1>3, SwitchStep

LEMMA TriggerStepMonth ==
  ASSUME MonthInv, Signal!TriggerMonthly  PROVE MonthInv'
<1>1. /\ month.last # signalClock /\ signalClock' = signalClock
      /\ month' = [last |-> signalClock, depth |-> month.depth + 1,
                   runs |-> [month.runs EXCEPT ![signalClock] = @ + 1]]
  BY DEF Signal!TriggerMonthly, Signal!MarkNow
<1>2. /\ DOMAIN month' = {"last", "depth", "runs"} /\ month'.last = signalClock
      /\ month'.runs = [month.runs EXCEPT ![signalClock] = @ + 1]
  BY <1>1
<1>3. signalClock \in 0..SignalMaxTime /\ signalClock \in Int
  BY SignalLimits0 DEF MonthInv
<1>4. month.runs[signalClock] = 0
  BY <1>1, <1>3 DEF MonthInv
<1>5. month.runs \in [0..SignalMaxTime -> Int]
  BY DEF MonthInv
<1>7. month'.runs \in [0..SignalMaxTime -> Int]
  <2>1. month.runs[signalClock] + 1 \in Int
    BY <1>4
  <2> QED BY <1>2, <1>3, <1>5, <2>1
<1>8. month'.runs[signalClock] = 1
  <2>1. month'.runs[signalClock] = month.runs[signalClock] + 1
    BY <1>2, <1>3, <1>5, Zenon
  <2> QED BY <1>4, <2>1
<1>9. ASSUME NEW t \in 0..SignalMaxTime, t # signalClock
      PROVE  month'.runs[t] = month.runs[t]
  BY <1>2, <1>5, <1>9
<1>6. ASSUME NEW t \in 0..SignalMaxTime
      PROVE  /\ month'.runs[t] <= 1
             /\ t > signalClock' \/ (t = signalClock' /\ month'.last # signalClock') => month'.runs[t] = 0
  <2>1. CASE t = signalClock
    BY <1>1, <1>2, <1>3, <1>8, <2>1
  <2>2. CASE t # signalClock
    BY <1>1, <1>2, <1>9, <2>2 DEF MonthInv
  <2> QED BY <2>1, <2>2
<1> QED BY <1>1, <1>2, <1>3, <1>6, <1>7 DEF MonthInv

LEMMA EndMonthlyStep ==
  ASSUME MonthInv, Signal!EndMonthly  PROVE MonthInv'
<1>1. signalClock' = signalClock /\ month' = [month EXCEPT !.depth = @ - 1]
  BY DEF Signal!EndMonthly
<1>2. DOMAIN month' = {"last", "depth", "runs"} /\ month'.last = month.last /\ month'.runs = month.runs
  BY <1>1 DEF MonthInv
<1> QED BY <1>1, <1>2 DEF MonthInv

\* Pools, logs, policies and genomes.
LEMMA OtherSignalsStep ==
  ASSUME HastyInv, MonthInv,
         \/ \E d \in SignalDfs, s \in 1..2 : Signal!EmitSignal(d, s)
         \/ Signal!PurgeTissue
         \/ \E w \in Writers : \/ Signal!PassGate(w) \/ Signal!Return(w) \/ Signal!CheckAndDampen(w)
                               \/ Signal!EmitHormone(w) \/ Signal!RecordFailure(w)
                               \/ \E k \in Signal!Kinds : Signal!ReadClock(w, k)
         \/ Signal!PruneHormones \/ Signal!FailureCountInWindow
         \/ \E s \in Scores : Signal!TickPolicy(s)
         \/ \E p \in {"aggressive", "moderate", "conservative", "emergency", "maintenance"} :
              Signal!ForcePolicy(p)
         \/ \E c \in [1..SignalSize -> Fitness \X Fitness] : Signal!Step(c)
         \/ Signal!AlreadyRun
  PROVE  HastyInv' /\ MonthInv'
<1>1. UNCHANGED <<signalClock, switchedAt, hasty, reacting, month>>
  BY DEF Signal!EmitSignal, Signal!PurgeTissue, Signal!PassGate, Signal!Return,
         Signal!CheckAndDampen, Signal!EmitHormone, Signal!RecordFailure, Signal!Write,
         Signal!ReadClock, Signal!PruneHormones, Signal!FailureCountInWindow, Signal!Prune,
         Signal!TickPolicy, Signal!ForcePolicy, Signal!Step, Signal!AlreadyRun,
         Signal!modeVars, Signal!vars
<1> QED BY <1>1, HastyUnchanged, MonthUnchanged

LEMMA ModesStep ==
  ASSUME HastyInv, MonthInv,
         \/ \E b \in BOOLEAN : Signal!UpdateLoad(b)
         \/ Signal!SignalIncident \/ Signal!RecoveryStart \/ Signal!SignalEnd
         \/ Signal!MaintenanceStart \/ Signal!SleepStart
         \/ \E m \in {"normal", "peak_load", "incident", "recovery", "maintenance", "sleep"} :
              Signal!ForceMode(m)
  PROVE  HastyInv' /\ MonthInv'
<1>1. UNCHANGED <<signalClock, switchedAt, hasty, reacting, month>>
  BY DEF Signal!UpdateLoad, Signal!SignalIncident, Signal!RecoveryStart, Signal!SignalEnd,
         Signal!MaintenanceStart, Signal!SleepStart, Signal!ForceMode, Signal!Become, Signal!Others
<1> QED BY <1>1, HastyUnchanged, MonthUnchanged

LEMMA CoordinatorStep ==
  ASSUME HastyInv, MonthInv,
         \/ \E s \in {"healthy", "critical", "emergency"} : Signal!ReactToHealth(s)
         \/ Signal!React
  PROVE  HastyInv' /\ MonthInv'
<1>1. UNCHANGED <<signalClock, month>>
  BY DEF Signal!ReactToHealth, Signal!React, Signal!Others
<1> QED BY <1>1, MonthUnchanged, ReactToHealthStep, ReactStep

LEMMA MonthlyStep ==
  ASSUME HastyInv, MonthInv, Signal!TriggerMonthly \/ Signal!EndMonthly
  PROVE  HastyInv' /\ MonthInv'
<1>1. UNCHANGED <<signalClock, switchedAt, hasty, reacting>>
  BY DEF Signal!TriggerMonthly, Signal!EndMonthly, Signal!modeVars
<1> QED BY <1>1, HastyUnchanged, TriggerStepMonth, EndMonthlyStep

LEMMA SignalStep ==
  ASSUME HastyInv, MonthInv, Signal!Next  PROVE HastyInv' /\ MonthInv'
<1> DEFINE A == \/ \E d \in SignalDfs, s \in 1..2 : Signal!EmitSignal(d, s)
                \/ Signal!PurgeTissue
                \/ \E w \in Writers : \/ Signal!PassGate(w) \/ Signal!Return(w) \/ Signal!CheckAndDampen(w)
                                      \/ Signal!EmitHormone(w) \/ Signal!RecordFailure(w)
                                      \/ \E k \in Signal!Kinds : Signal!ReadClock(w, k)
                \/ Signal!PruneHormones \/ Signal!FailureCountInWindow
                \/ \E s \in Scores : Signal!TickPolicy(s)
                \/ \E p \in {"aggressive", "moderate", "conservative", "emergency", "maintenance"} :
                     Signal!ForcePolicy(p)
                \/ \E c \in [1..SignalSize -> Fitness \X Fitness] : Signal!Step(c)
                \/ Signal!AlreadyRun
           B == \/ \E b \in BOOLEAN : Signal!UpdateLoad(b)
                \/ Signal!SignalIncident \/ Signal!RecoveryStart \/ Signal!SignalEnd
                \/ Signal!MaintenanceStart \/ Signal!SleepStart
                \/ \E m \in {"normal", "peak_load", "incident", "recovery", "maintenance", "sleep"} :
                     Signal!ForceMode(m)
           C == \/ \E s \in {"healthy", "critical", "emergency"} : Signal!ReactToHealth(s)
                \/ Signal!React
<1>1. A \/ B \/ C \/ Signal!TriggerMonthly \/ Signal!EndMonthly \/ Signal!Tick
  BY Zenon DEF Signal!Next
<1>2. A => HastyInv' /\ MonthInv'
  BY OtherSignalsStep
<1>3. B => HastyInv' /\ MonthInv'
  BY ModesStep
<1>4. C => HastyInv' /\ MonthInv'
  BY CoordinatorStep
<1> HIDE DEF A, B, C
<1> QED BY <1>1, <1>2, <1>3, <1>4, MonthlyStep, ClockStep

LEMMA SignalStands ==
  ASSUME HastyInv, MonthInv, UNCHANGED signalVars  PROVE HastyInv' /\ MonthInv'
<1>1. UNCHANGED <<signalClock, switchedAt, hasty, reacting, month>>
  BY DEF signalVars
<1> QED BY <1>1, HastyUnchanged, MonthUnchanged

LEMMA SignalLimits ==
  ASSUME HastyInv, MonthInv  PROVE Signal!NeverHasty /\ Signal!OncePerMonth
BY DEF HastyInv, MonthInv, Signal!NeverHasty, Signal!OncePerMonth
-----------------------------------------------------------------------------
(* The classes together: each moves by its own steps or stands still. *)

KeepersInv ==
  /\ FlowInv /\ BandInv
  /\ BucketInv /\ QuotaInv
  /\ RetryInv
  /\ ChaosInv /\ TurnInv
  /\ RateInv
  /\ PodInv
  /\ HastyInv /\ MonthInv

LEMMA KeepersStart ==
  ASSUME KeepersInit  PROVE KeepersInv
<1>1. /\ Flow!Start /\ Buckets!Start /\ Sagas!Start /\ Faults!Start /\ Guests!Start
      /\ Shards!Start /\ Signal!Start
  BY DEF KeepersInit
<1> QED BY <1>1, FlowInvStart, BandStart, BucketStart, QuotaStart, SagasStart, ChaosStart,
           GuestsStart, ShardsStart, SignalStart DEF KeepersInv

LEMMA KeepersStep ==
  ASSUME KeepersInv, KeepersNext  PROVE KeepersInv'
<1>1. engine' = engine
  BY DEF KeepersNext
<1>2. FlowInv' /\ BandInv'
  <2>1. Flow!Next \/ UNCHANGED flowVars
    BY DEF KeepersNext
  <2> QED BY <1>1, <2>1, FlowStep, FlowStands DEF KeepersInv
<1>3. BucketInv' /\ QuotaInv'
  <2>1. Buckets!Next \/ UNCHANGED bucketsVars
    BY DEF KeepersNext
  <2> QED BY <2>1, BucketsStep, BucketsStand DEF KeepersInv
<1>4. RetryInv'
  <2>1. Sagas!Next \/ UNCHANGED sagasVars
    BY DEF KeepersNext
  <2> QED BY <1>1, <2>1, SagasStep, SagasStand DEF KeepersInv
<1>5. ChaosInv' /\ TurnInv'
  <2>1. Faults!Next \/ UNCHANGED faultsVars
    BY DEF KeepersNext
  <2> QED BY <1>1, <2>1, FaultsStep, FaultsStands DEF KeepersInv
<1>6. RateInv'
  <2>1. Guests!Next \/ UNCHANGED guestsVars
    BY DEF KeepersNext
  <2> QED BY <2>1, GuestsStep, GuestsStand DEF KeepersInv
<1>7. PodInv'
  <2>1. Shards!Next \/ UNCHANGED shardsVars
    BY DEF KeepersNext
  <2> QED BY <1>1, <2>1, ShardsStep, ShardsStand DEF KeepersInv
<1>8. HastyInv' /\ MonthInv'
  <2>1. Signal!Next \/ UNCHANGED signalVars
    BY DEF KeepersNext
  <2> QED BY <2>1, SignalStep, SignalStands DEF KeepersInv
<1> QED BY <1>2, <1>3, <1>4, <1>5, <1>6, <1>7, <1>8 DEF KeepersInv

LEMMA KeepersStand ==
  ASSUME KeepersInv, UNCHANGED keepersVars  PROVE KeepersInv'
<1>1. /\ engine' = engine
      /\ UNCHANGED <<flowVars, bucketsVars, sagasVars, faultsVars, guestsVars, shardsVars, signalVars>>
  BY DEF keepersVars
<1> QED BY <1>1, FlowStands, BucketsStand, SagasStand, FaultsStands, GuestsStand, ShardsStand,
           SignalStands DEF KeepersInv

LEMMA KeepersInvariant == KeepersSpec => []KeepersInv
<1>1. KeepersInit => KeepersInv
  BY KeepersStart
<1>2. KeepersInv /\ [KeepersNext]_keepersVars => KeepersInv'
  BY KeepersStep, KeepersStand
<1> QED BY <1>1, <1>2, PTL DEF KeepersSpec

\* Every class that keeps a limit keeps it, whatever the callers interleave: the orders in
\* flight and the throttle's band, the tokens and the quotas, the attempts and their delays,
\* the experiments running at once, the messages in a minute, the pods, the time between two
\* switches and the actions of a month.
THEOREM LimitsKept == KeepersSpec => []LimitsHold
<1>1. KeepersInv => LimitsHold
  BY FlowLimits, BucketsLimits, SagasLimits, FaultsLimits, GuestsLimits, ShardsLimits,
     SignalLimits DEF KeepersInv, LimitsHold
<1> QED BY <1>1, KeepersInvariant, PTL
-----------------------------------------------------------------------------
(* The policy and the mode *)

PolicyNames == {"aggressive", "moderate", "conservative", "emergency", "maintenance"}

\* What the score s makes of the policy p.
After(p, s) ==
  IF p = "aggressive" THEN IF s < 65 THEN "moderate" ELSE p
  ELSE IF p = "moderate" THEN IF s >= 80 THEN "aggressive" ELSE IF s < 40 THEN "conservative" ELSE p
  ELSE IF p = "conservative" THEN IF s >= 50 THEN "moderate" ELSE IF s < 20 THEN "emergency" ELSE p
  ELSE IF p = "emergency" THEN IF s >= 35 THEN "conservative" ELSE p
  ELSE IF s >= 30 THEN "conservative" ELSE p

\* The policy is what the last score made of the one before.
SettledInv ==
  /\ policy \in PolicyNames /\ before.score \in Int
  /\ before.state # "none" => before.state \in PolicyNames /\ policy = After(before.state, before.score)
  /\ forced \in BOOLEAN

LEMMA NextPolicyIs ==
  ASSUME policy \in PolicyNames, NEW s \in Int
  PROVE  Signal!NextPolicy(s) = After(policy, s)
<1>1. CASE policy = "aggressive"
  BY <1>1 DEF Signal!NextPolicy, After
<1>2. CASE policy = "moderate"
  BY <1>2 DEF Signal!NextPolicy, After
<1>3. CASE policy = "conservative"
  BY <1>3 DEF Signal!NextPolicy, After
<1>4. CASE policy = "emergency"
  BY <1>4 DEF Signal!NextPolicy, After
<1>5. CASE policy = "maintenance"
  BY <1>5 DEF Signal!NextPolicy, After
<1> QED BY <1>1, <1>2, <1>3, <1>4, <1>5 DEF PolicyNames

LEMMA TickPolicyStep ==
  ASSUME SettledInv, NEW s \in Scores, Signal!TickPolicy(s)
  PROVE  SettledInv' /\ Signal!PolicySettles
<1>1. s \in Int
  BY AssumptionsHold DEF SignalAssumption
<1>2. policy' = After(policy, s)
  BY <1>1, NextPolicyIs DEF Signal!TickPolicy, SettledInv
<1>3. /\ before'.score = s
      /\ before'.state = IF policy' = policy /\ before.score = s THEN before.state ELSE policy
  BY DEF Signal!TickPolicy
<1>4. policy \in PolicyNames /\ policy' \in PolicyNames
  BY <1>2 DEF SettledInv, After, PolicyNames
<1>5. forced' \in BOOLEAN
  BY DEF Signal!TickPolicy, Signal!modeVars, SettledInv
<1>6. SettledInv'
  BY <1>1, <1>2, <1>3, <1>4, <1>5 DEF SettledInv
<1>7. Signal!PolicySettles
  <2> SUFFICES ASSUME policy' # policy, before'.score = before.score PROVE policy' # before.state
    BY DEF Signal!PolicySettles
  <2>1. s = before.score
    BY <1>3
  <2>2. CASE before.state = "none"
    BY <2>2, <1>4 DEF PolicyNames
  <2>3. CASE before.state # "none"
    <3>1. before.state \in PolicyNames /\ policy = After(before.state, s)
      BY <2>1, <2>3 DEF SettledInv
    <3>2. \A p \in PolicyNames : After(p, s) # p => After(After(p, s), s) # p
      BY <1>1 DEF After, PolicyNames
    <3>3. policy # before.state \/ policy' # before.state
      OBVIOUS
    <3> QED BY <1>2, <3>1, <3>2
  <2> QED BY <2>2, <2>3
<1> QED BY <1>6, <1>7

LEMMA ModeKept ==
  ASSUME forced \in BOOLEAN, Signal!Next
  PROVE  forced' \in BOOLEAN /\ Signal!IncidentHolds
<1> DEFINE Goal == forced' \in BOOLEAN /\ Signal!IncidentHolds
<1> SUFFICES Goal
  OBVIOUS
<1> USE DEF Signal!IncidentHolds
<1>1. CASE UNCHANGED <<mode, forced>>
  BY <1>1
<1>2. ASSUME NEW b \in BOOLEAN, Signal!UpdateLoad(b) PROVE Goal
  BY <1>2 DEF Signal!UpdateLoad, Signal!Become
<1>3. CASE Signal!SignalIncident \/ Signal!RecoveryStart \/ Signal!SignalEnd
  BY <1>3 DEF Signal!SignalIncident, Signal!RecoveryStart, Signal!SignalEnd, Signal!Become
<1>4. CASE Signal!MaintenanceStart \/ Signal!SleepStart
  BY <1>4 DEF Signal!MaintenanceStart, Signal!SleepStart, Signal!Become, Signal!MayRest
<1>5. ASSUME NEW m, Signal!ForceMode(m) PROVE Goal
  BY <1>5 DEF Signal!ForceMode
<1>6. CASE Signal!React
  <2>1. \/ Signal!MayRest \/ mode = "normal"
        \/ reacting = "emergency" /\ mode # "incident"
        \/ UNCHANGED <<mode, switchedAt, hasty>>
    BY <1>6, Zenon DEF Signal!React
  <2>2. mode = "incident" => mode' = mode
    BY <2>1 DEF Signal!MayRest
  <2>3. forced' = forced
    BY <1>6 DEF Signal!React
  <2> QED BY <2>2, <2>3
<1>7. UNCHANGED <<mode, forced>> \/
        \/ \E b \in BOOLEAN : Signal!UpdateLoad(b)
        \/ Signal!SignalIncident \/ Signal!RecoveryStart \/ Signal!SignalEnd
        \/ Signal!MaintenanceStart \/ Signal!SleepStart
        \/ \E m : Signal!ForceMode(m)
        \/ Signal!React
  <2> USE DEF Signal!modeVars
  <2>1. ASSUME \/ Signal!Tick \/ \E d \in SignalDfs, s \in 1..2 : Signal!EmitSignal(d, s)
               \/ Signal!PurgeTissue \/ Signal!PruneHormones \/ Signal!FailureCountInWindow
               \/ \E w \in Writers : \/ Signal!PassGate(w) \/ Signal!Return(w)
                    \/ Signal!CheckAndDampen(w) \/ Signal!EmitHormone(w)
                    \/ Signal!RecordFailure(w) \/ \E k \in Signal!Kinds : Signal!ReadClock(w, k)
        PROVE  UNCHANGED <<mode, forced>>
    BY <2>1 DEF Signal!Tick, Signal!EmitSignal, Signal!PurgeTissue, Signal!PruneHormones, Signal!Prune,
      Signal!FailureCountInWindow, Signal!PassGate, Signal!Return, Signal!CheckAndDampen,
      Signal!EmitHormone, Signal!RecordFailure, Signal!Write, Signal!ReadClock
  <2>2. ASSUME \/ \E s \in Scores : Signal!TickPolicy(s)
               \/ \E p \in PolicyNames : Signal!ForcePolicy(p)
               \/ Signal!TriggerMonthly \/ Signal!EndMonthly \/ Signal!AlreadyRun
               \/ \E c \in [1..SignalSize -> Fitness \X Fitness] : Signal!Step(c)
               \/ \E s \in {"healthy", "critical", "emergency"} : Signal!ReactToHealth(s)
        PROVE  UNCHANGED <<mode, forced>>
    BY <2>2 DEF Signal!TickPolicy, Signal!ForcePolicy, Signal!TriggerMonthly, Signal!EndMonthly,
      Signal!AlreadyRun, Signal!vars, Signal!Step, Signal!ReactToHealth
  <2> QED BY <2>1, <2>2 DEF Signal!Next, PolicyNames
<1> HIDE DEF Goal
<1> QED BY <1>1, <1>2, <1>3, <1>4, <1>5, <1>6, <1>7

LEMMA PolicyKept ==
  ASSUME SettledInv, Signal!Next
  PROVE  SettledInv' /\ Signal!PolicySettles
<1>1. forced' \in BOOLEAN
  BY ModeKept DEF SettledInv
<1>2. CASE UNCHANGED <<policy, before>>
  BY <1>1, <1>2 DEF SettledInv, Signal!PolicySettles
<1>3. ASSUME NEW s \in Scores, Signal!TickPolicy(s) PROVE SettledInv' /\ Signal!PolicySettles
  BY <1>3, TickPolicyStep
<1>4. ASSUME NEW p \in PolicyNames, Signal!ForcePolicy(p) PROVE SettledInv' /\ Signal!PolicySettles
  BY <1>1, <1>4 DEF Signal!ForcePolicy, SettledInv, Signal!PolicySettles, PolicyNames
<1>5. UNCHANGED <<policy, before>> \/ (\E s \in Scores : Signal!TickPolicy(s))
        \/ \E p \in PolicyNames : Signal!ForcePolicy(p)
  <2> USE DEF Signal!policyVars
  <2>1. ASSUME \/ Signal!Tick \/ \E d \in SignalDfs, s \in 1..2 : Signal!EmitSignal(d, s)
               \/ Signal!PurgeTissue \/ Signal!PruneHormones \/ Signal!FailureCountInWindow
               \/ \E w \in Writers : \/ Signal!PassGate(w) \/ Signal!Return(w)
                    \/ Signal!CheckAndDampen(w) \/ Signal!EmitHormone(w)
                    \/ Signal!RecordFailure(w) \/ \E k \in Signal!Kinds : Signal!ReadClock(w, k)
        PROVE  UNCHANGED <<policy, before>>
    BY <2>1 DEF Signal!Tick, Signal!EmitSignal, Signal!PurgeTissue, Signal!PruneHormones, Signal!Prune,
      Signal!FailureCountInWindow, Signal!PassGate, Signal!Return, Signal!CheckAndDampen,
      Signal!EmitHormone, Signal!RecordFailure, Signal!Write, Signal!ReadClock
  <2>2. ASSUME \/ \E b \in BOOLEAN : Signal!UpdateLoad(b)
               \/ Signal!SignalIncident \/ Signal!RecoveryStart \/ Signal!SignalEnd
               \/ Signal!MaintenanceStart \/ Signal!SleepStart
               \/ \E m \in {"normal", "peak_load", "incident", "recovery", "maintenance", "sleep"} :
                    Signal!ForceMode(m)
               \/ Signal!React \/ Signal!TriggerMonthly \/ Signal!EndMonthly \/ Signal!AlreadyRun
               \/ \E c \in [1..SignalSize -> Fitness \X Fitness] : Signal!Step(c)
               \/ \E s \in {"healthy", "critical", "emergency"} : Signal!ReactToHealth(s)
        PROVE  UNCHANGED <<policy, before>>
    BY <2>2 DEF Signal!UpdateLoad, Signal!SignalIncident, Signal!RecoveryStart, Signal!SignalEnd,
      Signal!MaintenanceStart, Signal!SleepStart, Signal!ForceMode, Signal!React, Signal!Others,
      Signal!TriggerMonthly, Signal!EndMonthly,
      Signal!AlreadyRun, Signal!vars, Signal!Step, Signal!ReactToHealth
  <2> QED BY <2>1, <2>2 DEF Signal!Next, PolicyNames
<1> QED BY <1>2, <1>3, <1>4, <1>5

LEMMA SettledInvariant == KeepersSpec => []SettledInv
<1>1. KeepersInit => SettledInv
  <2> SUFFICES ASSUME KeepersInit PROVE SettledInv
    OBVIOUS
  <2>1. policy = "moderate" /\ before = [state |-> "none", score |-> 0] /\ forced = FALSE
    BY DEF KeepersInit, Signal!Start
  <2>2. before.state = "none" /\ before.score = 0
    BY <2>1
  <2>3. forced \in BOOLEAN
    BY <2>1, Zenon
  <2>4. policy \in PolicyNames
    BY <2>1 DEF PolicyNames
  <2> QED BY <2>2, <2>3, <2>4 DEF SettledInv
<1>2. SettledInv /\ [KeepersNext]_keepersVars => SettledInv'
  <2>1. CASE UNCHANGED signalVars
    BY <2>1 DEF SettledInv, signalVars
  <2> QED BY <2>1, PolicyKept DEF KeepersNext, keepersVars
<1> QED BY <1>1, <1>2, PTL DEF KeepersSpec

\* A policy does not swing between two states at one score, and an incident ends only by a
\* signal of its own: whatever the other cells do in between.
THEOREM SignalsSettle ==
  KeepersSpec => [][Signal!PolicySettles /\ Signal!IncidentHolds]_signalVars
<1>1. SettledInv /\ [KeepersNext]_keepersVars => [Signal!PolicySettles /\ Signal!IncidentHolds]_signalVars
  BY PolicyKept, ModeKept DEF KeepersNext, keepersVars, SettledInv
<1> QED BY <1>1, SettledInvariant, PTL DEF KeepersSpec
-----------------------------------------------------------------------------
(* What the keepers decide: which chaos scenario a kept outcome belongs to, which pods die, *)
(* when a quorum's gate opens, what evolution keeps.                                         *)

Outcome == [id : ChaosIds, ok : BOOLEAN]
IdsOf(s) == {s[i].id : i \in DOMAIN s}

OutcomesInv ==
  engine \in {"aiops", "trading"} =>
    /\ outcomes \in Seq(Outcome) /\ Len(outcomes) <= MaxHistory
    /\ IdsOf(outcomes) \subseteq chaosIndex
    /\ engine = "aiops" => chaosIndex \subseteq IdsOf(outcomes)

LEMMA IdsAppend ==
  ASSUME NEW s \in Seq(Outcome), NEW o \in Outcome
  PROVE  IdsOf(Append(s, o)) = IdsOf(s) \cup {o.id}
<1>1. /\ Len(s) \in Nat /\ DOMAIN s = 1..Len(s) /\ DOMAIN Append(s, o) = 1..(Len(s) + 1)
      /\ Append(s, o)[Len(s) + 1] = o /\ \A i \in 1..Len(s) : Append(s, o)[i] = s[i]
  BY AppendProperties, LenProperties
<1>2. ASSUME NEW x \in IdsOf(Append(s, o)) PROVE x \in IdsOf(s) \cup {o.id}
  <2>1. PICK i \in 1..(Len(s) + 1) : x = Append(s, o)[i].id
    BY <1>1 DEF IdsOf
  <2>2. CASE i \in 1..Len(s)
    BY <1>1, <2>1, <2>2 DEF IdsOf
  <2>3. CASE i = Len(s) + 1
    BY <1>1, <2>1, <2>3
  <2> QED BY <1>1, <2>2, <2>3
<1>3. \A i \in 1..Len(s) : s[i].id \in IdsOf(Append(s, o))
  <2> TAKE i \in 1..Len(s)
  <2>1. i \in 1..(Len(s) + 1) /\ Append(s, o)[i] = s[i]
    BY <1>1
  <2> QED BY <1>1, <2>1 DEF IdsOf
<1>4. o.id \in IdsOf(Append(s, o))
  <2>1. Len(s) + 1 \in 1..(Len(s) + 1)
    BY <1>1
  <2> QED BY <1>1, <2>1 DEF IdsOf
<1> QED BY <1>1, <1>2, <1>3, <1>4 DEF IdsOf

LEMMA IdsTail ==
  ASSUME NEW s \in Seq(Outcome), s # <<>>
  PROVE  IdsOf(s) = IdsOf(Tail(s)) \cup {Head(s).id}
<1>1. /\ Len(s) \in Nat /\ Len(s) > 0 /\ DOMAIN s = 1..Len(s) /\ DOMAIN Tail(s) = 1..(Len(s) - 1)
      /\ Head(s) = s[1] /\ \A i \in 1..(Len(s) - 1) : Tail(s)[i] = s[i + 1]
  BY HeadTailProperties, LenProperties, EmptySeq
<1>2. ASSUME NEW i \in 1..Len(s) PROVE s[i].id \in IdsOf(Tail(s)) \cup {Head(s).id}
  <2>1. CASE i = 1
    BY <1>1, <2>1
  <2>2. CASE i # 1
    <3>1. i - 1 \in 1..(Len(s) - 1) /\ (i - 1) + 1 = i
      BY <1>1, <2>2
    <3> QED BY <1>1, <3>1 DEF IdsOf
  <2> QED BY <2>1, <2>2
<1>3. ASSUME NEW i \in 1..(Len(s) - 1) PROVE Tail(s)[i].id \in IdsOf(s)
  <2>1. i + 1 \in 1..Len(s)
    BY <1>1
  <2> QED BY <1>1, <2>1 DEF IdsOf
<1>4. Head(s).id \in IdsOf(s)
  <2>1. 1 \in 1..Len(s)
    BY <1>1
  <2> QED BY <1>1, <2>1 DEF IdsOf
<1> QED BY <1>1, <1>2, <1>3, <1>4 DEF IdsOf

LEMMA IndexedStep ==
  ASSUME ChaosInv, OutcomesInv, engine' = engine, NEW t \in ChaosThreads, Faults!RecordIndexed(t)
  PROVE  OutcomesInv'
<1> DEFINE r == chaosRuns[t]
           o == [id |-> r.id, ok |-> r.result = "out_ok"]
<1>1. engine \in {"aiops", "trading"} /\ r # None
  BY DEF Faults!RecordIndexed
<1>2. outcomes' = Faults!Recorded(o) /\ chaosIndex' = Faults!Indexed(r.id)
  BY DEF Faults!RecordIndexed
<1>3. r \in Run
  BY <1>1 DEF ChaosInv
<1>4. o \in Outcome
  <2>1. o.ok \in BOOLEAN
    BY Zenon
  <2>2. r.id \in ChaosIds
    BY <1>3 DEF Run
  <2> QED BY <2>1, <2>2 DEF Outcome
<1>5. /\ outcomes \in Seq(Outcome) /\ Len(outcomes) \in Nat /\ Len(outcomes) <= MaxHistory
      /\ MaxHistory \in Nat /\ MaxHistory > 0
      /\ IdsOf(outcomes) \subseteq chaosIndex /\ (engine = "aiops" => chaosIndex = IdsOf(outcomes))
  <2>1. MaxHistory \in Nat \ {0}
    BY AssumptionsHold DEF ChaosAssumption
  <2>2. outcomes \in Seq(Outcome) /\ Len(outcomes) <= MaxHistory /\ IdsOf(outcomes) \subseteq chaosIndex
        /\ (engine = "aiops" => chaosIndex \subseteq IdsOf(outcomes))
    BY <1>1 DEF OutcomesInv
  <2>3. Len(outcomes) \in Nat
    BY <2>2, LenProperties
  <2>4. engine = "aiops" => chaosIndex = IdsOf(outcomes)
    BY <2>2, Zenon
  <2>5. MaxHistory \in Nat /\ MaxHistory > 0
    BY <2>1
  <2> QED BY <2>2, <2>3, <2>4, <2>5, Zenon
<1>6. o.id = r.id
  OBVIOUS
<1> HIDE DEF o, r
<1>7. CASE Len(outcomes) = MaxHistory
  <2>1. outcomes # <<>>
    BY <1>5, <1>7, EmptySeq
  <2>2. Tail(outcomes) \in Seq(Outcome) /\ Len(Tail(outcomes)) = Len(outcomes) - 1
    BY <1>5, <2>1, HeadTailProperties
  <2>3. outcomes' = Append(Tail(outcomes), o)
    BY <1>2, <1>7 DEF Faults!Recorded
  <2>4. outcomes' \in Seq(Outcome) /\ Len(outcomes') = Len(outcomes)
    BY <1>4, <1>5, <2>2, <2>3, AppendProperties
  <2>5. IdsOf(outcomes') = IdsOf(Tail(outcomes)) \cup {r.id}
    BY <1>4, <1>6, <2>2, <2>3, IdsAppend
  <2>6. IdsOf(outcomes) = IdsOf(Tail(outcomes)) \cup {Head(outcomes).id}
    BY <1>5, <2>1, IdsTail
  <2>7. CASE engine = "aiops"
    <3> DEFINE e == [id |-> r.id, ok |-> TRUE]
               l == Tail(outcomes) \o <<e>>
    <3>1. e \in Outcome /\ e.id = r.id
      BY <1>4, <1>6 DEF Outcome
    <3> HIDE DEF e
    <3>2. l = Append(Tail(outcomes), e)
      BY <2>2, <3>1, AppendIsConcat
    <3>3. IdsOf(l) = IdsOf(Tail(outcomes)) \cup {r.id}
      BY <2>2, <3>1, <3>2, IdsAppend
    <3>4. chaosIndex' = (chaosIndex \cup {r.id}) \ ({Head(outcomes).id} \ IdsOf(l))
      BY <1>2, <1>7, <2>7 DEF Faults!Indexed, Faults!Forgotten, IdsOf, e
    <3> HIDE DEF l
    <3>5. chaosIndex' = IdsOf(outcomes')
      BY <1>5, <2>5, <2>6, <2>7, <3>3, <3>4
    <3> QED BY <1>5, <2>4, <3>5 DEF OutcomesInv, IdsOf
  <2>8. CASE engine = "trading"
    <3>1. chaosIndex' = chaosIndex \cup {r.id}
      BY <1>2, <2>8 DEF Faults!Indexed
    <3>2. IdsOf(outcomes') \subseteq chaosIndex'
      BY <1>5, <2>5, <2>6, <3>1
    <3> QED BY <1>5, <2>4, <2>8, <3>2 DEF OutcomesInv, IdsOf
  <2> QED BY <1>1, <2>7, <2>8
<1>8. CASE Len(outcomes) # MaxHistory
  <2>1. outcomes' = Append(outcomes, o)
    BY <1>2, <1>8 DEF Faults!Recorded
  <2>2. outcomes' \in Seq(Outcome) /\ Len(outcomes') = Len(outcomes) + 1
    BY <1>4, <1>5, <2>1, AppendProperties
  <2>3. IdsOf(outcomes') = IdsOf(outcomes) \cup {r.id}
    BY <1>4, <1>5, <1>6, <2>1, IdsAppend
  <2>4. Len(outcomes) < MaxHistory
    BY <1>5, <1>8
  <2>5. chaosIndex' = chaosIndex \cup {r.id}
    BY <1>1, <1>2, <2>4, <1>8 DEF Faults!Indexed
  <2>6. Len(outcomes') <= MaxHistory
    BY <1>5, <2>2, <2>4
  <2>7. IdsOf(outcomes') \subseteq chaosIndex' /\ (engine = "aiops" => chaosIndex' = IdsOf(outcomes'))
    BY <1>5, <2>3, <2>5
  <2>8. IdsOf(outcomes)' = IdsOf(outcomes')
    BY DEF IdsOf
  <2> QED BY <2>2, <2>6, <2>7, <2>8 DEF OutcomesInv
<1> QED BY <1>7, <1>8

LEMMA OutcomesStep ==
  ASSUME ChaosInv, OutcomesInv, engine' = engine, Faults!Next
  PROVE  OutcomesInv'
<1>1. CASE engine \notin {"aiops", "trading"}
  BY <1>1 DEF OutcomesInv
<1>2. CASE engine \in {"aiops", "trading"}
  <2>1. (\E t \in ChaosThreads : Faults!RecordIndexed(t)) \/ UNCHANGED <<outcomes, chaosIndex>>
    <3> DEFINE A == \/ \E x \in ChaosTargets : Faults!Register(x) \/ Faults!Schedule(x)
                    \/ \E p \in BOOLEAN : Faults!SetPaused(p)
                    \/ \E t \in ChaosThreads, x \in ChaosTargets, id \in ChaosIds :
                         \/ Faults!Begin(t, x, id) \/ Faults!Refuse(t, x, id)
                         \/ Faults!InjectRandomSlot(t, x, id) \/ Faults!InjectRandomStrategy(t, x, id)
               B == \/ \E t \in ChaosThreads, r \in {"ok", "failed", "killed"} : Faults!HandlerEnds(t, r)
                    \/ \E t \in ChaosThreads, f \in BOOLEAN : Faults!Evaluate(t, f)
                    \/ \E t \in ChaosThreads : Faults!CountOut(t) \/ Faults!RecordFailed(t) \/ Faults!Killed(t)
                    \/ \E t \in ChaosThreads, d \in Decays : Faults!CountOutAndRecord(t, d)
               C == \/ Faults!Restart
                    \/ \E x \in ChaosTargets, id \in ChaosIds : Faults!InjectFactory(x, id)
                    \/ Faults!RunAll
                    \/ \E ok \in BOOLEAN : Faults!Strike(ok) \/ Faults!Verify(ok)
                    \/ Faults!ResetMonkey
    <3>1. (\E t \in ChaosThreads : Faults!RecordIndexed(t)) \/ A \/ B \/ C
      BY DEF Faults!Next
    <3>2. A => UNCHANGED <<outcomes, chaosIndex>>
      BY <1>2 DEF Faults!Register, Faults!Schedule, Faults!SetPaused, Faults!Begin, Faults!Refuse,
        Faults!InjectRandomSlot, Faults!InjectRandomStrategy, Faults!injectVars,
        Faults!WithFinally, Faults!CountedOut
    <3>3. B => UNCHANGED <<outcomes, chaosIndex>>
      BY <1>2 DEF Faults!HandlerEnds, Faults!Evaluate, Faults!CountOut, Faults!RecordFailed,
        Faults!Killed, Faults!CountOutAndRecord, Faults!CountedOut
    <3>4. C => UNCHANGED <<outcomes, chaosIndex>>
      BY <1>2 DEF Faults!Restart, Faults!InjectFactory, Faults!RunAll, Faults!Strike, Faults!Verify,
        Faults!ResetMonkey, Faults!injectVars, Faults!CountedOut
    <3> HIDE DEF A, B, C
    <3> QED BY <3>1, <3>2, <3>3, <3>4
  <2>2. ASSUME UNCHANGED <<outcomes, chaosIndex>> PROVE OutcomesInv'
    BY <2>2 DEF OutcomesInv, IdsOf
  <2> QED BY <2>1, <2>2, IndexedStep
<1> QED BY <1>1, <1>2

LEMMA OutcomesStart ==
  ASSUME Faults!Start  PROVE OutcomesInv
<1>1. outcomes = <<>> /\ chaosIndex = {}
  BY DEF Faults!Start
<1>2. outcomes \in Seq(Outcome) /\ Len(outcomes) = 0 /\ IdsOf(outcomes) = {}
  BY <1>1 DEF IdsOf
<1>3. MaxHistory \in Nat
  BY AssumptionsHold DEF ChaosAssumption
<1> QED BY <1>1, <1>2, <1>3 DEF OutcomesInv

\* A pod that is protected is not slain.
SlainInv == engine = "pods" => slain = {}

LEMMA SlainStep ==
  ASSUME SlainInv, engine' = engine, Shards!Next  PROVE SlainInv'
<1>1. CASE engine # "pods"
  BY <1>1 DEF SlainInv
<1>2. CASE engine = "pods"
  <2>1. \/ \E t \in ShardThreads : Shards!AdmitPod(t) \/ \E p \in Pods : Shards!CreatePod(t, p)
        \/ Shards!CleanupTerminated
        \/ \E p \in Pods :
             \/ Shards!TransitionToRunning(p) \/ Shards!ProtectPod(p) \/ Shards!ProtectionExpires(p)
             \/ Shards!Terminate(p)
             \/ \E x \in BOOLEAN : Shards!UpdateUsage(p, x) \/ Shards!EvaluateTrigger(p, x)
    BY <1>2 DEF Shards!Next, Shards!ExecuteMitose, Shards!RunCycle, Shards!SplitShard,
                Shards!PopKeys, Shards!PromoteDaughter, Shards!PlaceKey, Shards!ReadTopology,
                Shards!CascadeApoptosis
  <2>2. \A p, x : Shards!EvaluateTrigger(p, x) => slain' = slain
    BY DEF Shards!EvaluateTrigger, Shards!Dies
  <2>3. slain' = slain
    BY <2>1, <2>2 DEF Shards!AdmitPod, Shards!CreatePod, Shards!CleanupTerminated,
      Shards!TransitionToRunning, Shards!ProtectPod, Shards!ProtectionExpires, Shards!Terminate,
      Shards!UpdateUsage
  <2> QED BY <1>2, <2>3 DEF SlainInv
<1> QED BY <1>1, <1>2
-----------------------------------------------------------------------------
(* The quorum's gate and the best of evolution. *)

GateInv ==
  engine = "quorum" =>
    /\ signalClock \in Nat /\ latest \in [SignalDfs -> Int]
    /\ \A d \in SignalDfs : latest[d] <= signalClock
    /\ pool.by \in Seq([df : SignalDfs, at : Int])
    /\ \A i \in DOMAIN pool.by : pool.by[i].at <= latest[pool.by[i].df]
    /\ DOMAIN gate = Writers
    /\ \A w \in Writers : gate[w] # {} => Cardinality(gate[w] \ {"open"}) >= MinDfs

LEMMA SignalSizes ==
  /\ MinDfs \in Nat /\ SignalRecent \in Nat /\ IsFiniteSet(SignalDfs) /\ "open" \notin SignalDfs
  /\ SignalSize \in Nat /\ SignalSize > 0 /\ Fitness \subseteq Int
BY AssumptionsHold DEF SignalAssumption

LEMMA SignalsCount ==
  ASSUME NEW S  PROVE Signal!Cardinality(S) = Cardinality(S)
BY DEF Signal!Cardinality, Cardinality

LEMMA GateStart ==
  ASSUME Signal!Start  PROVE GateInv
<1>1. /\ signalClock = 0 /\ pool = [conc |-> 0, at |-> 0, by |-> <<>>]
      /\ latest = [d \in SignalDfs |-> -100] /\ gate = [w \in Writers |-> {}]
  BY DEF Signal!Start
<1>2. pool.by \in Seq([df : SignalDfs, at : Int]) /\ \A i \in DOMAIN pool.by : FALSE
  BY <1>1
<1> QED BY <1>1, <1>2 DEF GateInv

LEMMA EmitSignalStep ==
  ASSUME GateInv, engine' = engine, NEW d \in SignalDfs, NEW s, Signal!EmitSignal(d, s)
  PROVE  GateInv'
<1> DEFINE e == [df |-> d, at |-> signalClock]
           R == [df : SignalDfs, at : Int]
<1>1. /\ engine = "quorum" /\ signalClock' = signalClock /\ gate' = gate
      /\ pool'.by = Append(pool.by, e) /\ latest' = [latest EXCEPT ![d] = signalClock]
  BY DEF Signal!EmitSignal
<1>2. /\ signalClock \in Nat /\ latest \in [SignalDfs -> Int] /\ pool.by \in Seq(R)
      /\ \A i \in DOMAIN pool.by : pool.by[i].at <= latest[pool.by[i].df]
      /\ \A c \in SignalDfs : latest[c] <= signalClock
  BY <1>1 DEF GateInv
<1>3. e \in R /\ e.df = d /\ e.at = signalClock
  BY <1>2
<1>4. \A r \in R : r.df \in SignalDfs /\ r.at \in Int
  OBVIOUS
<1> HIDE DEF e, R
<1>5. pool'.by \in Seq(R) /\ DOMAIN pool.by = 1..Len(pool.by) /\ DOMAIN pool'.by = 1..(Len(pool.by) + 1)
      /\ Len(pool.by) \in Nat /\ pool'.by[Len(pool.by) + 1] = e
      /\ \A i \in 1..Len(pool.by) : pool'.by[i] = pool.by[i] /\ pool.by[i] \in R
  BY <1>1, <1>2, <1>3, AppendProperties, LenProperties, ElementOfSeq
<1>6. latest' \in [SignalDfs -> Int] /\ \A c \in SignalDfs : latest'[c] <= signalClock /\ latest[c] <= latest'[c]
      /\ latest'[d] = signalClock
  BY <1>1, <1>2
<1>7. ASSUME NEW i \in DOMAIN pool'.by PROVE pool'.by[i].at <= latest'[pool'.by[i].df]
  <2>1. CASE i = Len(pool.by) + 1
    BY <1>2, <1>3, <1>5, <1>6, <2>1
  <2>2. CASE i \in 1..Len(pool.by)
    <3>1. pool.by[i].df \in SignalDfs /\ pool.by[i].at \in Int /\ pool'.by[i] = pool.by[i]
      BY <1>4, <1>5, <2>2
    <3>2. pool.by[i].at <= latest[pool.by[i].df]
      BY <1>2, <1>5, <2>2
    <3> QED BY <1>2, <1>6, <3>1, <3>2
  <2> QED BY <1>5, <2>1, <2>2
<1>8. DOMAIN gate' = Writers /\ \A w \in Writers : gate'[w] # {} => Cardinality(gate'[w] \ {"open"}) >= MinDfs
  BY <1>1 DEF GateInv
<1> QED BY <1>1, <1>2, <1>5, <1>6, <1>7, <1>8 DEF GateInv, R

LEMMA PassGateStep ==
  ASSUME GateInv, engine' = engine, NEW w \in Writers, Signal!PassGate(w)
  PROVE  GateInv'
<1> DEFINE live == {d \in SignalDfs : latest[d] >= signalClock - SignalRecent}
           fresh == {c.df : c \in {c \in Signal!Range(pool.by) : c.at >= signalClock - SignalRecent}}
<1>1. /\ engine = "quorum" /\ UNCHANGED <<signalClock, pool, latest>>
      /\ gate' = [gate EXCEPT ![w] = {"open"} \cup live]
      /\ Signal!Cardinality(fresh) >= MinDfs
  BY DEF Signal!PassGate, Signal!UniqueDfCount
<1>2. /\ signalClock \in Nat /\ latest \in [SignalDfs -> Int]
      /\ pool.by \in Seq([df : SignalDfs, at : Int])
      /\ \A i \in DOMAIN pool.by : pool.by[i].at <= latest[pool.by[i].df]
      /\ DOMAIN gate = Writers
      /\ \A v \in Writers : gate[v] # {} => Cardinality(gate[v] \ {"open"}) >= MinDfs
  BY <1>1 DEF GateInv
<1>3. fresh \subseteq live
  <2> SUFFICES ASSUME NEW i \in DOMAIN pool.by, pool.by[i].at >= signalClock - SignalRecent
               PROVE  pool.by[i].df \in live
    BY DEF Signal!Range
  <2>0. i \in 1..Len(pool.by)
    BY <1>2, LenProperties
  <2>4. pool.by[i] \in [df : SignalDfs, at : Int]
    BY <1>2, <2>0, ElementOfSeq
  <2>1. pool.by[i].df \in SignalDfs /\ pool.by[i].at \in Int
    BY <2>4
  <2>2. pool.by[i].at <= latest[pool.by[i].df] /\ latest[pool.by[i].df] \in Int
    BY <1>2, <2>1
  <2> QED BY <1>2, <2>1, <2>2, SignalSizes
<1>4. ({"open"} \cup live) \ {"open"} = live /\ live \subseteq SignalDfs
  BY SignalSizes
<1> HIDE DEF live, fresh
<1>5. Cardinality(live) >= MinDfs
  <2>1. IsFiniteSet(live) /\ Cardinality(live) \in Nat
    BY <1>4, SignalSizes, PartIsSmaller
  <2>2. Cardinality(fresh) <= Cardinality(live) /\ Cardinality(fresh) \in Nat
    BY <1>3, <2>1, PartIsSmaller
  <2> QED BY <1>1, <2>1, <2>2, SignalSizes, SignalsCount
<1>6. ASSUME NEW v \in Writers, gate'[v] # {} PROVE Cardinality(gate'[v] \ {"open"}) >= MinDfs
  <2>1. CASE v = w
    BY <1>1, <1>2, <1>4, <1>5, <2>1
  <2>2. CASE v # w
    BY <1>1, <1>2, <1>6, <2>2
  <2> QED BY <2>1, <2>2
<1>7. DOMAIN gate' = Writers
  BY <1>1, <1>2
<1> QED BY <1>1, <1>6, <1>7 DEF GateInv

LEMMA GateStep ==
  ASSUME GateInv, engine' = engine, Signal!Next  PROVE GateInv'
<1>1. CASE engine # "quorum"
  BY <1>1 DEF GateInv
<1>2. CASE engine = "quorum"
  <2> DEFINE A == \/ \E w \in Writers : \/ Signal!CheckAndDampen(w) \/ Signal!EmitHormone(w)
                       \/ Signal!RecordFailure(w) \/ \E k \in Signal!Kinds : Signal!ReadClock(w, k)
                  \/ Signal!PruneHormones \/ Signal!FailureCountInWindow
                  \/ \E s \in Scores : Signal!TickPolicy(s)
                  \/ \E p \in {"aggressive", "moderate", "conservative", "emergency", "maintenance"} : Signal!ForcePolicy(p)
             B == \/ \E b \in BOOLEAN : Signal!UpdateLoad(b)
                  \/ Signal!SignalIncident \/ Signal!RecoveryStart \/ Signal!SignalEnd
                  \/ Signal!MaintenanceStart \/ Signal!SleepStart
                  \/ \E m \in {"normal", "peak_load", "incident", "recovery", "maintenance", "sleep"} : Signal!ForceMode(m)
                  \/ \E s \in {"healthy", "critical", "emergency"} : Signal!ReactToHealth(s)
                  \/ Signal!React \/ Signal!TriggerMonthly \/ Signal!EndMonthly \/ Signal!AlreadyRun
                  \/ \E c \in [1..SignalSize -> Fitness \X Fitness] : Signal!Step(c)
  <2>1. \/ Signal!Tick \/ \E d \in SignalDfs, s \in 1..2 : Signal!EmitSignal(d, s)
        \/ Signal!PurgeTissue \/ (\E w \in Writers : Signal!PassGate(w) \/ Signal!Return(w))
        \/ A \/ B
    BY DEF Signal!Next
  <2>2. A => UNCHANGED <<signalClock, pool, latest, gate>>
    BY <1>2 DEF Signal!CheckAndDampen, Signal!EmitHormone, Signal!RecordFailure, Signal!ReadClock,
      Signal!PruneHormones, Signal!FailureCountInWindow, Signal!TickPolicy, Signal!ForcePolicy
  <2>3. B => UNCHANGED <<signalClock, pool, latest, gate>>
    BY <1>2 DEF Signal!UpdateLoad, Signal!SignalIncident, Signal!RecoveryStart, Signal!SignalEnd,
      Signal!MaintenanceStart, Signal!SleepStart, Signal!ForceMode, Signal!ReactToHealth, Signal!React,
      Signal!TriggerMonthly, Signal!EndMonthly, Signal!AlreadyRun, Signal!Step, Signal!Others,
      Signal!poolVars, Signal!vars
  <2> HIDE DEF A, B
  <2>4. ASSUME UNCHANGED <<signalClock, pool, latest, gate>> PROVE GateInv'
    BY <2>4 DEF GateInv
  <2>5. CASE Signal!Tick
    <3>1. signalClock' = signalClock + 1 /\ UNCHANGED <<pool, latest, gate>>
      BY <2>5 DEF Signal!Tick, Signal!poolVars
    <3>2. signalClock \in Nat /\ \A d \in SignalDfs : latest[d] \in Int /\ latest[d] <= signalClock
      BY <1>2 DEF GateInv
    <3>3. signalClock' \in Nat /\ \A d \in SignalDfs : latest[d] <= signalClock'
      BY <3>1, <3>2
    <3> QED BY <3>1, <3>3 DEF GateInv
  <2>6. CASE Signal!PurgeTissue
    <3>1. pool'.by = <<>> /\ UNCHANGED <<signalClock, latest, gate>>
      BY <2>6 DEF Signal!PurgeTissue
    <3>2. pool'.by \in Seq([df : SignalDfs, at : Int]) /\ \A i \in DOMAIN pool'.by : FALSE
      BY <3>1
    <3> QED BY <3>1, <3>2 DEF GateInv
  <2>7. ASSUME NEW w \in Writers, Signal!Return(w) PROVE GateInv'
    <3>1. gate' = [gate EXCEPT ![w] = {}] /\ UNCHANGED <<signalClock, latest, pool>>
      BY <2>7 DEF Signal!Return
    <3> QED BY <3>1 DEF GateInv
  <2> QED BY <2>1, <2>2, <2>3, <2>4, <2>5, <2>6, <2>7, EmitSignalStep, PassGateStep
<1> QED BY <1>1, <1>2

LEMMA GateOpens ==
  ASSUME GateInv  PROVE Signal!LoneDfNeverActs
BY SignalsCount DEF GateInv, Signal!LoneDfNeverActs

\* A finite set of numbers that is not empty has a greatest element.
LEMMA GreatestOf ==
  ASSUME NEW T, T \subseteq Int, IsFiniteSet(T), T # {}
  PROVE  \E x \in T : \A y \in T : x >= y
<1> DEFINE N == {n \in Nat : \A U \in SUBSET T : Cardinality(U) = n + 1 => \E x \in U : \A y \in U : x >= y}
<1>1. \A U \in SUBSET T : IsFiniteSet(U) /\ Cardinality(U) \in Nat /\ (Cardinality(U) = 0 <=> U = {})
  BY FS_Subset, FS_CardinalityType, FS_EmptySet
<1>2. 0 \in N
  <2> SUFFICES ASSUME NEW U \in SUBSET T, Cardinality(U) = 1 PROVE \E x \in U : \A y \in U : x >= y
    OBVIOUS
  <2>1. PICK x : U = {x}
    BY <1>1, FS_Singleton
  <2>2. x >= x
    BY <2>1
  <2> QED BY <2>1, <2>2
<1>3. ASSUME NEW n \in Nat, n \in N PROVE n + 1 \in N
  <2> SUFFICES ASSUME NEW U \in SUBSET T, Cardinality(U) = (n + 1) + 1 PROVE \E x \in U : \A y \in U : x >= y
    OBVIOUS
  <2>0. n \in Nat /\ IsFiniteSet(U) /\ U # {}
    BY <1>1, <1>3
  <2>1. PICK z \in U : TRUE
    BY <2>0
  <2>2. Cardinality(U \ {z}) = n + 1
    <3>1. Cardinality(U \ {z}) = Cardinality(U) - 1
      BY <2>0, FS_RemoveElement
    <3> QED BY <2>0, <3>1
  <2>3. PICK x \in U \ {z} : \A y \in U \ {z} : x >= y
    BY <1>3, <2>2
  <2>4. x \in Int /\ z \in Int /\ \A y \in U : y \in Int
    OBVIOUS
  <2>5. CASE x >= z
    <3>1. \A y \in U : x >= y
      BY <2>3, <2>5
    <3> QED BY <3>1
  <2>6. CASE ~(x >= z)
    <3>1. \A y \in U : z >= y
      BY <2>3, <2>4, <2>6
    <3> QED BY <3>1
  <2> QED BY <2>5, <2>6
<1> HIDE DEF N
<1>4. Nat \subseteq N
  BY <1>2, <1>3, AllNaturals
<1>5. Cardinality(T) \in Nat /\ Cardinality(T) # 0
  BY <1>1
<1>6. Cardinality(T) - 1 \in N /\ Cardinality(T) = (Cardinality(T) - 1) + 1
  BY <1>4, <1>5
<1> QED BY <1>6 DEF N

MaxIs(T, x) == x \in T /\ \A y \in T : x >= y

LEMMA SignalMax ==
  ASSUME NEW T, T \subseteq Int, IsFiniteSet(T), T # {}
  PROVE  MaxIs(T, Signal!Max(T)) /\ \A x : MaxIs(T, x) => x = Signal!Max(T)
<1>1. \E x \in T : \A y \in T : x >= y
  BY GreatestOf
<1>2. MaxIs(T, Signal!Max(T))
  BY <1>1 DEF Signal!Max, MaxIs
<1>3. ASSUME NEW x, MaxIs(T, x) PROVE x = Signal!Max(T)
  <2>1. x >= Signal!Max(T) /\ Signal!Max(T) >= x /\ x \in Int /\ Signal!Max(T) \in Int
    BY <1>2, <1>3 DEF MaxIs
  <2> QED BY <2>1
<1> QED BY <1>2, <1>3

Genome  == Fitness \X Fitness
Genes(s, k) == {g[k] : g \in Signal!Range(s)}

PopulationInv ==
  engine = "evolution" =>
    population \in Seq(Genome) /\ Len(population) = SignalSize /\ signalRecord = Signal!Bests(population)

LEMMA GenesFinite ==
  ASSUME NEW s \in Seq(Genome), Len(s) > 0, NEW k \in 1..2
  PROVE  Genes(s, k) \subseteq Int /\ IsFiniteSet(Genes(s, k)) /\ Genes(s, k) # {}
<1>1. DOMAIN s = 1..Len(s) /\ Len(s) \in Nat /\ \A i \in 1..Len(s) : s[i] \in Genome
  BY LenProperties, ElementOfSeq
<1>2. \A g \in Genome : g[1] \in Int /\ g[2] \in Int
  BY SignalSizes DEF Genome
<1>3. Genes(s, k) = {s[i][k] : i \in 1..Len(s)}
  BY <1>1 DEF Genes, Signal!Range
<1>4. IsFiniteSet(1..Len(s))
  BY <1>1, UpTo
<1> DEFINE f == [i \in 1..Len(s) |-> s[i][k]]
<1>5. IsFiniteSet(Genes(s, k))
  <2>1. f \in Surjection(1..Len(s), Genes(s, k))
    BY <1>3 DEF Surjection
  <2> QED BY <1>4, <2>1, FS_Surjection
<1>6. \A i \in 1..Len(s) : s[i][k] \in Int
  BY <1>1, <1>2
<1>7. 1 \in 1..Len(s)
  BY <1>1
<1> QED BY <1>3, <1>5, <1>6, <1>7

LEMMA BestsAre ==
  ASSUME NEW s \in Seq(Genome), Len(s) > 0
  PROVE  /\ Signal!Bests(s) = [k \in 1..2 |-> Signal!Max(Genes(s, k))]
         /\ \A k \in 1..2 : MaxIs(Genes(s, k), Signal!Bests(s)[k]) /\ Signal!Bests(s)[k] \in Int
<1>1. Signal!Bests(s) = [k \in 1..2 |-> Signal!Max(Genes(s, k))]
  BY DEF Signal!Bests, Genes
<1>2. \A k \in 1..2 : MaxIs(Genes(s, k), Signal!Max(Genes(s, k))) /\ Genes(s, k) \subseteq Int
  BY GenesFinite, SignalMax
<1>3. \A k \in 1..2 : Signal!Bests(s)[k] = Signal!Max(Genes(s, k))
  BY <1>1
<1>4. \A k \in 1..2 : Signal!Bests(s)[k] \in Int
  BY <1>2, <1>3 DEF MaxIs
<1> QED BY <1>1, <1>2, <1>3, <1>4

\* Of the genomes that are best in objective k, one that is best in the other is dominated by none.
LEMMA BestInFront ==
  ASSUME NEW s \in Seq(Genome), Len(s) > 0, NEW k \in 1..2
  PROVE  \E i \in DOMAIN s : /\ s[i][k] = Signal!Bests(s)[k]
                             /\ \A o \in Signal!Range(s) : ~Signal!Dominates(o, s[i])
<1> DEFINE j == 3 - k
           m == Signal!Bests(s)[k]
           U == {g \in Signal!Range(s) : g[k] = m}
           V == {g[j] : g \in U}
<1>0. j \in 1..2 /\ j # k /\ {j, k} = {1, 2}
  OBVIOUS
<1>1. m \in Genes(s, k) /\ m \in Int /\ \A y \in Genes(s, k) : m >= y
  BY BestsAre DEF MaxIs
<1>2. \A g \in Signal!Range(s) : g \in Genome
  BY LenProperties, ElementOfSeq DEF Signal!Range
<1>3. \A g \in Genome : g = <<g[1], g[2]>> /\ g[1] \in Int /\ g[2] \in Int
  <2> TAKE g \in Genome
  <2>1. PICK a \in Fitness, b \in Fitness : g = <<a, b>>
    BY DEF Genome
  <2> QED BY <2>1, SignalSizes
<1> HIDE DEF m, j
<1>4. V \subseteq Genes(s, j) /\ V # {}
  BY <1>1 DEF Genes
<1>5. V \subseteq Int /\ IsFiniteSet(V)
  BY <1>0, <1>4, GenesFinite, FS_Subset
<1>6. PICK v \in V : \A y \in V : v >= y
  BY <1>4, <1>5, GreatestOf
<1>7. PICK g \in Signal!Range(s) : g[k] = m /\ g[j] = v
  OBVIOUS
<1>8. ASSUME NEW o \in Signal!Range(s), Signal!Dominates(o, g) PROVE FALSE
  <2>1. o[k] >= g[k] /\ o[j] >= g[j] /\ o # g
    BY <1>0, <1>8 DEF Signal!Dominates
  <2>2. o[k] \in Int /\ o[j] \in Int /\ v \in Int
    BY <1>0, <1>2, <1>3, <1>5
  <2>3. o[k] = m
    <3>1. m >= o[k]
      BY <1>1 DEF Genes
    <3> QED BY <1>1, <1>7, <2>1, <2>2, <3>1
  <2>4. o[j] = v
    <3>1. v >= o[j]
      BY <1>6, <2>3
    <3> QED BY <1>7, <2>1, <2>2, <3>1
  <2>5. o[1] = g[1] /\ o[2] = g[2]
    BY <1>0, <1>7, <2>3, <2>4
  <2>6. o = <<o[1], o[2]>> /\ g = <<g[1], g[2]>>
    BY <1>2, <1>3
  <2> QED BY <2>1, <2>5, <2>6
<1>9. PICK i \in DOMAIN s : g = s[i]
  BY DEF Signal!Range
<1> QED BY <1>7, <1>8, <1>9 DEF m

LEMMA PopulationStart ==
  ASSUME Signal!Start  PROVE PopulationInv
<1>1. population \in [1..SignalSize -> Genome] /\ signalRecord = Signal!Bests(population)
  BY DEF Signal!Start, Genome
<1>2. population \in Seq(Genome) /\ Len(population) = SignalSize
  BY <1>1, SignalSizes
<1> QED BY <1>1, <1>2 DEF PopulationInv

LEMMA EvolveStep ==
  ASSUME PopulationInv, engine' = engine, NEW c \in [1..SignalSize -> Genome], Signal!Step(c)
  PROVE  PopulationInv'
<1> DEFINE front == Signal!ParetoFront
           kept == {i \in DOMAIN population : \A o \in Signal!Range(population) : ~Signal!Dominates(o, population[i])}
           rest == SubSeq(c, 1, SignalSize - Len(front))
           new == front \o rest
<1>1. engine = "evolution"
  BY DEF Signal!Step
<1>2. population \in Seq(Genome) /\ Len(population) = SignalSize /\ signalRecord = Signal!Bests(population)
  BY <1>1 DEF PopulationInv
<1>3. front = Picked(population, kept)
  BY DEF Signal!ParetoFront, Signal!Select, Picked, Place, RankIn, Signal!Cardinality, Cardinality
<1>4. /\ front \in Seq(Genome) /\ Len(front) \in Nat /\ Len(front) <= SignalSize
      /\ DOMAIN front = 1..Len(front)
      /\ \A i \in kept : \E n \in DOMAIN front : front[n] = population[i]
  <2>1. kept \subseteq DOMAIN population
    OBVIOUS
  <2> HIDE DEF kept
  <2>2. /\ Cardinality(kept) \in Nat /\ Cardinality(kept) <= Len(population)
        /\ front \in Seq(Genome) /\ Len(front) = Cardinality(kept)
        /\ DOMAIN front = 1..Cardinality(kept)
        /\ \A i \in kept : RankIn(kept, i) \in 1..Cardinality(kept) /\ front[RankIn(kept, i)] = population[i]
    <3> HIDE DEF front
    <3> QED BY <1>2, <1>3, <2>1, PickedIs
  <2> HIDE DEF front
  <2> QED BY <1>2, <2>2
<1> HIDE DEF front
<1>5. rest \in Seq(Genome) /\ Len(rest) = SignalSize - Len(front)
  <2> DEFINE m == SignalSize - Len(front)
  <2>1. m \in Nat /\ m \in Int /\ 1 \in Int /\ \A i \in 1..m : c[i] \in Genome
    BY <1>4, SignalSizes
  <2> HIDE DEF m
  <2>2. SubSeq(c, 1, m) \in Seq(Genome) /\ Len(SubSeq(c, 1, m)) = IF 1 <= m THEN m - 1 + 1 ELSE 0
    <3> DEFINE C == 1
    <3>1. C \in Int /\ \A i \in C..m : c[i] \in Genome
      BY <2>1
    <3> HIDE DEF C
    <3>2. SubSeq(c, C, m) \in Seq(Genome) /\ Len(SubSeq(c, C, m)) = IF C <= m THEN m - C + 1 ELSE 0
      BY <2>1, <3>1, SubSeqProperties
    <3> QED BY <3>2 DEF C
  <2>3. Len(SubSeq(c, 1, m)) = m
    BY <2>1, <2>2
  <2> QED BY <2>2, <2>3 DEF m
<1> HIDE DEF rest
<1>6. new \in Seq(Genome) /\ Len(new) = SignalSize /\ DOMAIN new = 1..SignalSize
      /\ \A n \in 1..Len(front) : new[n] = front[n]
  <2>1. /\ new \in Seq(Genome) /\ Len(new) = Len(front) + Len(rest)
        /\ \A n \in 1..(Len(front) + Len(rest)) : new[n] = IF n <= Len(front) THEN front[n] ELSE rest[n - Len(front)]
    BY <1>4, <1>5, ConcatProperties
  <2>2. Len(new) = SignalSize
    BY <1>4, <1>5, <2>1, SignalSizes
  <2>3. \A n \in 1..Len(front) : new[n] = front[n]
    BY <1>4, <1>5, <2>1, SignalSizes
  <2> QED BY <2>1, <2>2, <2>3, LenProperties
<1>7. UNCHANGED <<population, signalRecord>> \/ (population' = new /\ signalRecord' = Signal!Raised(signalRecord, new))
  BY DEF Signal!Step, Signal!evolveVars, front, rest
<1> HIDE DEF new, kept
<1>8. ASSUME NEW k \in 1..2 PROVE Signal!Max({signalRecord[k], Signal!Bests(new)[k]}) = Signal!Bests(new)[k]
  <2>1. PICK i \in DOMAIN population : /\ population[i][k] = signalRecord[k]
                                       /\ \A o \in Signal!Range(population) : ~Signal!Dominates(o, population[i])
    BY <1>2, BestInFront, SignalSizes
  <2>2. i \in kept
    BY <2>1 DEF kept
  <2>3. PICK n \in 1..Len(front) : front[n] = population[i]
    BY <1>4, <2>2
  <2>4. n \in DOMAIN new /\ new[n] = population[i]
    BY <1>4, <1>6, <2>3, SignalSizes
  <2>5. signalRecord[k] \in Genes(new, k)
    BY <2>1, <2>4 DEF Genes, Signal!Range
  <2>6. MaxIs(Genes(new, k), Signal!Bests(new)[k]) /\ Signal!Bests(new)[k] \in Int /\ signalRecord[k] \in Int
    BY <1>2, <1>6, BestsAre, SignalSizes
  <2> DEFINE T == {signalRecord[k], Signal!Bests(new)[k]}
  <2>7. T \subseteq Int /\ IsFiniteSet(T) /\ T # {}
    <3>1. ASSUME NEW a, NEW b PROVE IsFiniteSet({a, b})
      <4>1. {a, b} = {a} \cup {b}
        OBVIOUS
      <4>2. IsFiniteSet({a})
        BY FS_Singleton
      <4>3. IsFiniteSet({a} \cup {b})
        BY <4>2, FS_AddElement
      <4> QED BY <4>1, <4>3
    <3>3. IsFiniteSet(T)
      BY <3>1
    <3> QED BY <2>6, <3>3
  <2>8. MaxIs(T, Signal!Bests(new)[k])
    BY <2>5, <2>6 DEF MaxIs
  <2> HIDE DEF T
  <2>9. Signal!Bests(new)[k] = Signal!Max(T)
    BY <2>7, <2>8, SignalMax
  <2> QED BY <2>9 DEF T
<1>9. Signal!Raised(signalRecord, new) = Signal!Bests(new)
  <2>1. Signal!Bests(new) = [k \in 1..2 |-> Signal!Bests(new)[k]]
    BY DEF Signal!Bests
  <2>2. Signal!Raised(signalRecord, new) = [k \in 1..2 |-> Signal!Max({signalRecord[k], Signal!Bests(new)[k]})]
    BY DEF Signal!Raised
  <2> QED BY <1>8, <2>1, <2>2
<1>10. CASE UNCHANGED <<population, signalRecord>>
  BY <1>2, <1>10 DEF PopulationInv, Signal!Bests, Signal!Range
<1>11. CASE population' = new /\ signalRecord' = Signal!Raised(signalRecord, new)
  <2>1. signalRecord' = Signal!Bests(population')
    BY <1>9, <1>11
  <2>2. Signal!Bests(population') = Signal!Bests(population)'
    BY DEF Signal!Bests, Signal!Range
  <2> QED BY <1>6, <1>11, <2>1, <2>2 DEF PopulationInv
<1> QED BY <1>7, <1>10, <1>11

LEMMA PopulationStep ==
  ASSUME PopulationInv, engine' = engine, Signal!Next  PROVE PopulationInv'
<1>1. CASE engine # "evolution"
  BY <1>1 DEF PopulationInv
<1>2. CASE engine = "evolution"
  <2> DEFINE A == \/ Signal!Tick \/ \E d \in SignalDfs, s \in 1..2 : Signal!EmitSignal(d, s)
                  \/ Signal!PurgeTissue
                  \/ \E w \in Writers : \/ Signal!PassGate(w) \/ Signal!Return(w)
                       \/ Signal!CheckAndDampen(w) \/ Signal!EmitHormone(w)
                       \/ Signal!RecordFailure(w) \/ \E k \in Signal!Kinds : Signal!ReadClock(w, k)
                  \/ Signal!PruneHormones \/ Signal!FailureCountInWindow
                  \/ \E s \in Scores : Signal!TickPolicy(s)
                  \/ \E p \in {"aggressive", "moderate", "conservative", "emergency", "maintenance"} : Signal!ForcePolicy(p)
             B == \/ \E b \in BOOLEAN : Signal!UpdateLoad(b)
                  \/ Signal!SignalIncident \/ Signal!RecoveryStart \/ Signal!SignalEnd
                  \/ Signal!MaintenanceStart \/ Signal!SleepStart
                  \/ \E m \in {"normal", "peak_load", "incident", "recovery", "maintenance", "sleep"} : Signal!ForceMode(m)
                  \/ \E s \in {"healthy", "critical", "emergency"} : Signal!ReactToHealth(s)
                  \/ Signal!React \/ Signal!TriggerMonthly \/ Signal!EndMonthly \/ Signal!AlreadyRun
  <2>1. (\E c \in [1..SignalSize -> Genome] : Signal!Step(c)) \/ A \/ B
    BY DEF Signal!Next, Genome
  <2>2. A => UNCHANGED <<population, signalRecord>>
    BY <1>2 DEF Signal!Tick, Signal!EmitSignal, Signal!PurgeTissue, Signal!PassGate, Signal!Return,
      Signal!CheckAndDampen, Signal!EmitHormone, Signal!RecordFailure, Signal!ReadClock,
      Signal!PruneHormones, Signal!FailureCountInWindow, Signal!TickPolicy, Signal!ForcePolicy,
      Signal!evolveVars
  <2>3. B => UNCHANGED <<population, signalRecord>>
    BY <1>2 DEF Signal!UpdateLoad, Signal!SignalIncident, Signal!RecoveryStart, Signal!SignalEnd,
      Signal!MaintenanceStart, Signal!SleepStart, Signal!ForceMode, Signal!ReactToHealth, Signal!React,
      Signal!TriggerMonthly, Signal!EndMonthly, Signal!AlreadyRun, Signal!Others,
      Signal!evolveVars, Signal!vars
  <2> HIDE DEF A, B
  <2>4. ASSUME UNCHANGED <<population, signalRecord>> PROVE PopulationInv'
    BY <2>4 DEF PopulationInv, Signal!Bests, Signal!Range
  <2> QED BY <2>1, <2>2, <2>3, <2>4, EvolveStep
<1> QED BY <1>1, <1>2

LEMMA BestStays ==
  ASSUME PopulationInv  PROVE Signal!BestKept
BY DEF PopulationInv, Signal!BestKept

-----------------------------------------------------------------------------
(***************************************************************************)
(* Flags and canaries.  What a caller has read stays with it until it is   *)
(* answered; an emergency that is not cleared is the state; a canary's     *)
(* shares are percentages that fit together.                               *)
(***************************************************************************)

AskedTyped ==
  /\ rule \in Roll!Rules \cup {None}
  /\ DOMAIN asked = RollCallers
  /\ engine = "flags" => \A c \in RollCallers :
       asked[c] # None => asked[c].user \in Roll!Users /\ asked[c].rule \in Roll!Rules \cup {None}

AskedInEmergency ==
  /\ tripped => rollState = "emergency_off"
  /\ engine = "trade-flags" => \A c \in RollCallers :
       asked[c] # None => (asked[c].tripped => asked[c].state = "emergency_off")

AuditTyped == rollAudit \in Seq([old : Roll!States, new : Roll!States]) /\ rollState \in Roll!States

SharesTyped ==
  /\ traffic = [canary |-> traffic.canary, other |-> traffic.other]
  /\ traffic.canary \in 0..100 /\ traffic.other \in 0..100 /\ step \in Nat

RollInv ==
  /\ AskedTyped /\ AskedInEmergency /\ AuditTyped /\ SharesTyped
  /\ Roll!WholeAndNone /\ Roll!EmergencyHolds /\ Roll!AuditGapless
  /\ Roll!RolledBackForGood /\ Roll!OverrideKept

LEMMA RollStart == Roll!Start => RollInv
<1> SUFFICES ASSUME Roll!Start PROVE RollInv
  OBVIOUS
<1>1. AskedTyped /\ AskedInEmergency /\ Roll!WholeAndNone /\ Roll!EmergencyHolds
  BY DEF Roll!Start, AskedTyped, AskedInEmergency, Roll!WholeAndNone, Roll!EmergencyHolds
<1>2. AuditTyped /\ Roll!AuditGapless
  BY DEF Roll!Start, AuditTyped, Roll!AuditGapless, Roll!States
<1>3. SharesTyped /\ Roll!RolledBackForGood /\ Roll!OverrideKept
  <2>1. traffic = [canary |-> 0, other |-> 0] /\ step = 0 /\ rolledBack = FALSE /\ wanted = FALSE
    BY DEF Roll!Start
  <2>2. traffic.canary = 0 /\ traffic.other = 0
    BY <2>1
  <2> QED BY <2>1, <2>2 DEF SharesTyped, Roll!RolledBackForGood, Roll!OverrideKept
<1> QED BY <1>1, <1>2, <1>3 DEF RollInv

LEMMA PercentageReaches ==
  ASSUME NEW r \in Roll!Rules \cup {None}, r # None, r.kind = "percentage", NEW u \in Roll!Users
  PROVE  /\ r.pct = 0 => ~Roll!Enabled(r, u)
         /\ r.pct = 100 => Roll!Enabled(r, u)
<1>1. Roll!Enabled(r, u) <=> Roll!Within(u, r.pct)
  BY Zenon DEF Roll!Enabled
<1>2. Bucket[u] \in 0..99
  BY AssumptionsHold DEF RollAssumption, Roll!Users
<1> QED BY <1>1, <1>2 DEF Roll!Within

\* What is answered goes by the rule that was read.
LEMMA AnsweredByRule ==
  ASSUME RollInv, engine = "flags", NEW c \in RollCallers, Roll!GetValue(c)
  PROVE  Roll!WholeAndNone'
<1> DEFINE r == asked[c].rule
           u == asked[c].user
<1>1. told' = [rule |-> r, value |-> Roll!Value(c)] /\ r \in Roll!Rules \cup {None} /\ u \in Roll!Users
  BY DEF Roll!GetValue, RollInv, AskedTyped
<1>2. Roll!Value(c) = IF ~Roll!Enabled(r, u) THEN "off" ELSE IF variants THEN "variant" ELSE "on"
  BY Zenon DEF Roll!Value
<1> HIDE DEF r, u
<1>3. ASSUME r # None, r.kind = "percentage"
      PROVE  /\ r.pct = 0 => Roll!Value(c) = "off"
             /\ r.pct = 100 => Roll!Value(c) # "off"
  BY <1>1, <1>2, <1>3, PercentageReaches
<1> QED BY <1>1, <1>3 DEF Roll!WholeAndNone

LEMMA FlagsStep == RollInv /\ engine' = engine /\ Roll!Next => AskedTyped' /\ Roll!WholeAndNone'
<1> SUFFICES ASSUME RollInv, engine' = engine, Roll!Next PROVE AskedTyped' /\ Roll!WholeAndNone'
  OBVIOUS
<1> USE DEF RollInv, AskedTyped
<1>1. CASE UNCHANGED <<rule, asked, told>>
  BY <1>1 DEF Roll!WholeAndNone
<1>2. ASSUME NEW r \in Roll!Rules \cup {None}, Roll!SetRule(r)
      PROVE  AskedTyped' /\ Roll!WholeAndNone'
  BY <1>2 DEF Roll!SetRule, Roll!callVars, Roll!WholeAndNone
<1>3. ASSUME NEW c \in RollCallers, NEW u \in Roll!Users, Roll!ReadRule(c, u)
      PROVE  AskedTyped' /\ Roll!WholeAndNone'
  BY <1>3 DEF Roll!ReadRule, Roll!flagVars, Roll!WholeAndNone
<1>4. ASSUME NEW c \in RollCallers, NEW u \in Roll!Users, Roll!ReadState(c, u)
      PROVE  AskedTyped' /\ Roll!WholeAndNone'
  BY <1>4 DEF Roll!ReadState, Roll!flagVars, Roll!WholeAndNone
<1>5. ASSUME NEW c \in RollCallers, Roll!GetValue(c) PROVE AskedTyped' /\ Roll!WholeAndNone'
  <2>1. AskedTyped'
    BY <1>5 DEF Roll!GetValue, Roll!flagVars
  <2>2. engine = "flags"
    BY <1>5 DEF Roll!GetValue
  <2> QED BY <1>5, <2>1, <2>2, AnsweredByRule
<1>6. ASSUME NEW c \in RollCallers, Roll!Decide(c) PROVE AskedTyped' /\ Roll!WholeAndNone'
  BY <1>6 DEF Roll!Decide, Roll!flagVars, Roll!WholeAndNone
<1>7. UNCHANGED <<rule, asked, told>> \/
      \/ \E r \in Roll!Rules \cup {None} : Roll!SetRule(r)
      \/ \E c \in RollCallers, u \in Roll!Users : Roll!ReadRule(c, u) \/ Roll!ReadState(c, u)
      \/ \E c \in RollCallers : Roll!GetValue(c) \/ Roll!Decide(c)
  BY DEF Roll!Next, Roll!RegisterVariants, Roll!SetState, Roll!SetPercentageRollout,
    Roll!RegisterOther, Roll!EmergencyOff, Roll!ClearEmergency, Roll!UnregisterOther,
    Roll!Advance, Roll!TriggerManualOverride, Roll!CheckRollback, Roll!Tick, Roll!NewRollout,
    Roll!RecordOutcome, Roll!DeployCanary, Roll!RecordPerformance, Roll!callVars, Roll!flagVars
<1> QED BY <1>1, <1>2, <1>3, <1>4, <1>5, <1>6, <1>7

LEMMA EmergencyStep ==
  RollInv /\ engine' = engine /\ Roll!Next => AskedInEmergency' /\ Roll!EmergencyHolds'
<1> SUFFICES ASSUME RollInv, engine' = engine, Roll!Next
             PROVE  AskedInEmergency' /\ Roll!EmergencyHolds'
  OBVIOUS
<1> USE DEF RollInv, AskedInEmergency, Roll!EmergencyHolds
<1>1. CASE UNCHANGED <<rollState, tripped, asked, told>>
  BY <1>1
<1>2. ASSUME NEW s \in Roll!States, Roll!SetState(s) PROVE AskedInEmergency' /\ Roll!EmergencyHolds'
  BY <1>2 DEF Roll!SetState, Roll!Leaves, Roll!callVars
<1>3. CASE Roll!EmergencyOff \/ Roll!ClearEmergency
  BY <1>3 DEF Roll!EmergencyOff, Roll!ClearEmergency, Roll!callVars
<1>4. ASSUME NEW c \in RollCallers, NEW u \in Roll!Users, Roll!ReadRule(c, u)
      PROVE  AskedInEmergency' /\ Roll!EmergencyHolds'
  BY <1>4 DEF Roll!ReadRule, Roll!tradeVars, AskedTyped
<1>5. ASSUME NEW c \in RollCallers, NEW u \in Roll!Users, Roll!ReadState(c, u)
      PROVE  AskedInEmergency' /\ Roll!EmergencyHolds'
  BY <1>5 DEF Roll!ReadState, Roll!tradeVars, AskedTyped
<1>6. ASSUME NEW c \in RollCallers, Roll!GetValue(c) PROVE AskedInEmergency' /\ Roll!EmergencyHolds'
  BY <1>6 DEF Roll!GetValue, Roll!tradeVars, AskedTyped
<1>7. ASSUME NEW c \in RollCallers, Roll!Decide(c) PROVE AskedInEmergency' /\ Roll!EmergencyHolds'
  BY <1>7 DEF Roll!Decide, Roll!Decision, Roll!tradeVars, AskedTyped
<1>8. UNCHANGED <<rollState, tripped, asked, told>> \/
      \/ \E s \in Roll!States : Roll!SetState(s)
      \/ Roll!EmergencyOff \/ Roll!ClearEmergency
      \/ \E c \in RollCallers, u \in Roll!Users : Roll!ReadRule(c, u) \/ Roll!ReadState(c, u)
      \/ \E c \in RollCallers : Roll!GetValue(c) \/ Roll!Decide(c)
  BY DEF Roll!Next, Roll!RegisterVariants, Roll!SetRule, Roll!SetPercentageRollout,
    Roll!RegisterOther, Roll!UnregisterOther, Roll!Advance, Roll!TriggerManualOverride,
    Roll!CheckRollback, Roll!Tick, Roll!NewRollout, Roll!RecordOutcome, Roll!DeployCanary,
    Roll!RecordPerformance, Roll!callVars, Roll!tradeVars
<1> QED BY <1>1, <1>2, <1>3, <1>4, <1>5, <1>6, <1>7, <1>8

\* An event that starts where the last one ended leaves the audit gapless, whether the
\* oldest one is dropped or not.
LEMMA AuditedGapless ==
  ASSUME RollInv, NEW new \in Roll!States, rollAudit' = Roll!Audited(new), rollState' = new
  PROVE  AuditTyped' /\ Roll!AuditGapless'
<1> DEFINE e == [old |-> rollState, new |-> new]
           ext == Append(rollAudit, e)
           Events_ == [old : Roll!States, new : Roll!States]
<1>1. ext \in Seq(Events_) /\ Len(ext) = Len(rollAudit) + 1 /\ Len(rollAudit) \in Nat
      /\ ext[Len(ext)] = e /\ \A i \in 1..Len(rollAudit) : ext[i] = rollAudit[i]
  BY DEF RollInv, AuditTyped
<1>2. \A i \in 1..Len(ext) : i > 1 => ext[i].old = ext[i - 1].new
  <2> SUFFICES ASSUME NEW i \in 1..Len(ext), i > 1 PROVE ext[i].old = ext[i - 1].new
    OBVIOUS
  <2>1. i - 1 \in 1..Len(rollAudit) /\ ext[i - 1] = rollAudit[i - 1]
    BY <1>1
  <2>2. CASE i = Len(ext)
    <3>1. rollAudit[Len(rollAudit)].new = rollState
      BY <1>1, <2>1 DEF RollInv, AuditTyped, Roll!AuditGapless
    <3> QED BY <1>1, <2>1, <2>2, <3>1
  <2>3. CASE i # Len(ext)
    <3>1. i \in DOMAIN rollAudit /\ ext[i] = rollAudit[i]
      BY <1>1, <2>3 DEF RollInv, AuditTyped
    <3> QED BY <2>1, <3>1 DEF RollInv, Roll!AuditGapless
  <2> QED BY <2>2, <2>3
<1>3. rollAudit' = ext \/ rollAudit' = Tail(ext)
  BY DEF Roll!Audited
<1> HIDE DEF ext
<1>4. CASE rollAudit' = ext
  BY <1>1, <1>2, <1>4 DEF AuditTyped, Roll!AuditGapless
<1>5. CASE rollAudit' = Tail(ext)
  <2>1. Tail(ext) \in Seq(Events_) /\ Len(Tail(ext)) = Len(ext) - 1
        /\ \A i \in 1..Len(Tail(ext)) : Tail(ext)[i] = ext[i + 1]
    BY <1>1
  <2>2. \A i \in DOMAIN Tail(ext) : i > 1 => Tail(ext)[i].old = Tail(ext)[i - 1].new
    <3> SUFFICES ASSUME NEW i \in 1..Len(Tail(ext)), i > 1
                 PROVE  Tail(ext)[i].old = Tail(ext)[i - 1].new
      BY <2>1
    <3>1. Tail(ext)[i] = ext[i + 1] /\ Tail(ext)[i - 1] = ext[(i + 1) - 1] /\ i + 1 \in 1..Len(ext)
      BY <1>1, <2>1
    <3> QED BY <1>2, <3>1
  <2>3. Tail(ext) # <<>> => Tail(ext)[Len(Tail(ext))].new = new
    BY <1>1, <2>1
  <2> QED BY <1>5, <2>1, <2>2, <2>3 DEF AuditTyped, Roll!AuditGapless
<1> QED BY <1>3, <1>4, <1>5

LEMMA AuditStep == RollInv /\ Roll!Next => AuditTyped' /\ Roll!AuditGapless'
<1> SUFFICES ASSUME RollInv, Roll!Next PROVE AuditTyped' /\ Roll!AuditGapless'
  OBVIOUS
<1>1. CASE UNCHANGED <<rollState, rollAudit>>
  BY <1>1 DEF RollInv, AuditTyped, Roll!AuditGapless
<1>2. UNCHANGED <<rollState, rollAudit>> \/
      \E new \in Roll!States : rollAudit' = Roll!Audited(new) /\ rollState' = new
  <2>1. ASSUME NEW s \in Roll!States, Roll!SetState(s)
        PROVE  rollAudit' = Roll!Audited(s) /\ rollState' = s
    BY <2>1 DEF Roll!SetState
  <2>2. ASSUME NEW pct \in Percents, Roll!SetPercentageRollout(pct)
        PROVE  rollAudit' = Roll!Audited(rollState) /\ rollState' = rollState /\ rollState \in Roll!States
    BY <2>2 DEF Roll!SetPercentageRollout, RollInv, AuditTyped
  <2>3. Roll!EmergencyOff => /\ rollAudit' = Roll!Audited("emergency_off") /\ rollState' = "emergency_off"
                             /\ "emergency_off" \in Roll!States
    BY DEF Roll!EmergencyOff, Roll!States
  <2>4. Roll!ClearEmergency => /\ rollAudit' = Roll!Audited("disabled") /\ rollState' = "disabled"
                               /\ "disabled" \in Roll!States
    BY DEF Roll!ClearEmergency, Roll!States
  <2>5. UNCHANGED <<rollState, rollAudit>> \/
        \/ \E s \in Roll!States : Roll!SetState(s)
        \/ \E pct \in Percents : Roll!SetPercentageRollout(pct)
        \/ Roll!EmergencyOff \/ Roll!ClearEmergency
    BY DEF Roll!Next, Roll!RegisterVariants, Roll!SetRule, Roll!ReadRule, Roll!ReadState,
      Roll!GetValue, Roll!Decide, Roll!RegisterOther, Roll!UnregisterOther, Roll!Advance,
      Roll!TriggerManualOverride, Roll!CheckRollback, Roll!Tick, Roll!NewRollout,
      Roll!RecordOutcome, Roll!DeployCanary, Roll!RecordPerformance, Roll!tradeVars
  <2> QED BY <2>1, <2>2, <2>3, <2>4, <2>5
<1> QED BY <1>1, <1>2, AuditedGapless

CanaryInv == SharesTyped /\ Roll!RolledBackForGood /\ Roll!OverrideKept

LEMMA CanaryStep == CanaryInv /\ Roll!Next => CanaryInv'
<1> SUFFICES ASSUME CanaryInv, Roll!Next PROVE CanaryInv'
  OBVIOUS
<1>a. /\ traffic = [canary |-> traffic.canary, other |-> traffic.other]
      /\ traffic.canary \in 0..100 /\ traffic.other \in 0..100 /\ step \in Nat
      /\ rolledBack => traffic.canary = 0
      /\ traffic.canary + traffic.other <= 100
      /\ wanted => override
  BY DEF CanaryInv, SharesTyped, Roll!RolledBackForGood, Roll!OverrideKept
<1>b. Percents \subseteq 0..100 /\ RollSchedule \in Seq(0..100)
  BY AssumptionsHold DEF RollAssumption
\* What the new shares have to be.
<1> DEFINE Become(c, o) == /\ c \in 0..100 /\ o \in 0..100 /\ c + o <= 100
                           /\ traffic' = [canary |-> c, other |-> o] /\ step' \in Nat
                           /\ rolledBack' => c = 0
                           /\ wanted' => override'
<1>c. ASSUME NEW c, NEW o, Become(c, o) PROVE CanaryInv'
  <2>1. traffic'.canary = c /\ traffic'.other = o
    BY <1>c
  <2> QED BY <1>c, <2>1 DEF CanaryInv, SharesTyped, Roll!RolledBackForGood, Roll!OverrideKept
<1>d. \A x : /\ [traffic EXCEPT !.canary = x] = [canary |-> x, other |-> traffic.other]
             /\ [traffic EXCEPT !.other = x] = [canary |-> traffic.canary, other |-> x]
  BY <1>a
<1>1. CASE UNCHANGED <<traffic, step, rolledBack, override, wanted>>
  BY <1>1 DEF CanaryInv, SharesTyped, Roll!RolledBackForGood, Roll!OverrideKept
<1>2. ASSUME NEW pct \in Percents, Roll!RegisterOther(pct) PROVE CanaryInv'
  <2>1. pct \in 0..100 /\ pct + traffic.canary <= 100
    BY <1>2, <1>b DEF Roll!RegisterOther, Roll!Fits
  <2>2. traffic' = [canary |-> traffic.canary, other |-> pct]
        /\ UNCHANGED <<step, rolledBack, override, wanted>>
    BY <1>2, <1>d DEF Roll!RegisterOther
  <2>9. Become(traffic.canary, pct)
    BY <1>a, <2>1, <2>2
  <2> QED BY <1>c, <2>9
<1>3. CASE Roll!UnregisterOther
  <2>1. traffic' = [canary |-> traffic.canary, other |-> 0]
        /\ UNCHANGED <<step, rolledBack, override, wanted>>
    BY <1>3, <1>d DEF Roll!UnregisterOther
  <2>9. Become(traffic.canary, 0)
    BY <1>a, <2>1
  <2> QED BY <1>c, <2>9
<1>4. CASE Roll!Advance
  <2> DEFINE p == RollSchedule[step + 1]
  <2>1. ~rolledBack /\ step < Len(RollSchedule) /\ step' = step + 1
        /\ UNCHANGED <<rolledBack, override, wanted>>
    BY <1>4 DEF Roll!Advance, Roll!GoesOn
  <2>2. p \in 0..100
    <3>1. step + 1 \in 1..Len(RollSchedule)
      BY <1>a, <1>b, <2>1
    <3> QED BY <1>b, <3>1, ElementOfSeq
  <2>3. \/ traffic' = traffic
        \/ /\ traffic' = [traffic EXCEPT !.canary = p]
           /\ p <= 0 \/ p + traffic.other <= 100
    BY <1>4 DEF Roll!Advance, Roll!Fits
  <2> HIDE DEF p
  <2>4. traffic' = [canary |-> p, other |-> traffic.other] \/ traffic' = traffic
    BY <1>d, <2>3
  <2>5. CASE traffic' = traffic
    <3>9. Become(traffic.canary, traffic.other)
      BY <1>a, <2>1, <2>5
    <3> QED BY <1>c, <3>9
  <2>6. CASE traffic' # traffic
    <3>1. p + traffic.other <= 100 /\ traffic' = [canary |-> p, other |-> traffic.other]
      BY <1>a, <2>2, <2>3, <2>4, <2>6
    <3>9. Become(p, traffic.other)
      BY <1>a, <2>1, <2>2, <3>1
    <3> QED BY <1>c, <3>9
  <2> QED BY <2>5, <2>6
<1>5. CASE Roll!TriggerManualOverride
  <2>1. override' = TRUE /\ UNCHANGED <<traffic, step, rolledBack>>
    BY <1>5 DEF Roll!TriggerManualOverride
  <2>9. Become(traffic.canary, traffic.other)
    BY <1>a, <2>1
  <2> QED BY <1>c, <2>9
<1>6. CASE Roll!CheckRollback
  <2>1. override' = (override /\ Roll!Cooling) /\ step' = step
    BY <1>6 DEF Roll!CheckRollback, Roll!KeptWhileCooling
  <2>2. CASE ~Roll!Cooling /\ (override \/ Roll!Unhealthy)
    <3>1. wanted' = FALSE /\ traffic' = [canary |-> 0, other |-> traffic.other]
      BY <1>6, <1>d, <2>2 DEF Roll!CheckRollback
    <3>9. Become(0, traffic.other)
      BY <1>a, <2>1, <3>1
    <3> QED BY <1>c, <3>9
  <2>3. CASE ~(~Roll!Cooling /\ (override \/ Roll!Unhealthy))
    <3>1. UNCHANGED <<wanted, rolledBack, traffic>>
      BY <1>6, <2>3 DEF Roll!CheckRollback
    <3>9. Become(traffic.canary, traffic.other)
      BY <1>a, <2>1, <2>3, <3>1
    <3> QED BY <1>c, <3>9
  <2> QED BY <2>2, <2>3
<1>7. CASE Roll!NewRollout
  <2>1. /\ traffic' = [canary |-> 0, other |-> traffic.other]
        /\ step' = 0 /\ UNCHANGED <<override, wanted>>
    BY <1>7, <1>d DEF Roll!NewRollout
  <2>9. Become(0, traffic.other)
    BY <1>a, <2>1
  <2> QED BY <1>c, <2>9
<1>8. UNCHANGED <<traffic, step, rolledBack, override, wanted>> \/
      \/ \E pct \in Percents : Roll!RegisterOther(pct)
      \/ Roll!UnregisterOther \/ Roll!Advance \/ Roll!TriggerManualOverride
      \/ Roll!CheckRollback \/ Roll!NewRollout
  BY DEF Roll!Next, Roll!RegisterVariants, Roll!SetRule, Roll!ReadRule, Roll!ReadState,
    Roll!GetValue, Roll!Decide, Roll!SetState, Roll!SetPercentageRollout, Roll!EmergencyOff,
    Roll!ClearEmergency, Roll!Tick, Roll!RecordOutcome, Roll!DeployCanary,
    Roll!RecordPerformance, Roll!canaryVars
<1> QED BY <1>1, <1>2, <1>3, <1>4, <1>5, <1>6, <1>7, <1>8

LEMMA RollStep ==
  ASSUME RollInv, engine' = engine, Roll!Next  PROVE RollInv'
BY FlagsStep, EmergencyStep, AuditStep, CanaryStep DEF RollInv, CanaryInv

LEMMA RollStands ==
  ASSUME RollInv, UNCHANGED <<engine, rollVars>>  PROVE RollInv'
<1> USE DEF rollVars, RollInv
<1>1. AskedTyped' /\ AskedInEmergency' /\ Roll!WholeAndNone' /\ Roll!EmergencyHolds'
  BY DEF AskedTyped, AskedInEmergency, Roll!WholeAndNone, Roll!EmergencyHolds
<1>2. AuditTyped' /\ Roll!AuditGapless'
  BY DEF AuditTyped, Roll!AuditGapless
<1>3. SharesTyped' /\ Roll!RolledBackForGood' /\ Roll!OverrideKept'
  BY DEF SharesTyped, Roll!RolledBackForGood, Roll!OverrideKept
<1> QED BY <1>1, <1>2, <1>3

-----------------------------------------------------------------------------
(* Failover *)

CountsOver(f) == DOMAIN f = Over!Nodes /\ \A n \in Over!Nodes : f[n] \in Nat

\* Why a standby is active.
PairInv ==
  engine \in Over!Pairs =>
    /\ CountsOver(fails)
    /\ overActive # Primary => cause /\ overState # "primary"

IsBroker(r) == r = [priority |-> r.priority, sequence |-> r.sequence]
               /\ r.priority \in Nat /\ r.sequence \in Nat

\* Why an order goes to a broker.
BrokerInv ==
  engine = "brokers" =>
    /\ DOMAIN brokers = Over!Nodes
    /\ \A n \in Over!Nodes : brokers[n] # None => IsBroker(brokers[n])
    /\ DOMAIN grade = Over!Nodes /\ \A n \in Over!Nodes : grade[n] \in {"healthy", "degraded", "failed"}
    /\ routed # None =>
         /\ grade[routed] # "failed"
         /\ grade[routed] = "degraded" => \A n \in Over!Registered : grade[n] # "healthy"
         /\ \A n \in Over!Registered : grade[n] = grade[routed] => Over!Before(routed, n)

\* Why a circuit is not closed: the failures since it was closed are no fewer than those
\* since the last success.
CircuitInv ==
  engine = "adapters" =>
    /\ CountsOver(fails) /\ CountsOver(overTally) /\ DOMAIN circuit = Over!Nodes
    /\ \A n \in Over!Nodes : /\ fails[n] <= overTally[n]
                             /\ circuit[n] # "closed" => overTally[n] >= OverThreshold

OverInv == PairInv /\ BrokerInv /\ CircuitInv

\* Finitely many places hold finitely many values.
LEMMA RangeFinite ==
  ASSUME NEW f, NEW S, IsFiniteSet(S), f = [x \in S |-> f[x]]
  PROVE  IsFiniteSet({f[x] : x \in S})
<1> DEFINE T == {f[x] : x \in S}
<1>1. f \in [S -> T]
  OBVIOUS
<1>2. \A t \in T : \E x \in S : f[x] = t
  OBVIOUS
<1> HIDE DEF T
<1>3. f \in Surjection(S, T)
  BY <1>1, <1>2 DEF Surjection
<1>4. IsFiniteSet(T)
  BY <1>3, FS_Surjection
<1> QED BY <1>4 DEF T

LEMMA NodesFinite == IsFiniteSet(Over!Nodes)
<1>1. OverThreshold \in Nat /\ DOMAIN Standbys = 1..Len(Standbys) /\ Len(Standbys) \in Nat
  BY AssumptionsHold DEF OverAssumption
<1> DEFINE k == Len(Standbys) + 1
<1>2. k \in Nat /\ DOMAIN Over!Targets = 1..k
  BY <1>1 DEF Over!Targets
<1> HIDE DEF k
<1>3. IsFiniteSet(1..k)
  BY <1>2, FS_Interval
<1>4. Over!Nodes = {Over!Targets[i] : i \in 1..k}
  BY <1>2 DEF Over!Nodes, Over!Range
<1>5. IsFiniteSet({Over!Targets[i] : i \in 1..k})
  <2>1. Over!Targets = [i \in 1..k |-> Over!Targets[i]]
    BY <1>1, <1>2 DEF Over!Targets, k
  <2> QED BY <1>3, <2>1, RangeFinite
<1> QED BY <1>4, <1>5

LEMMA PriorityFirst ==
  ASSUME BrokerInv, engine = "brokers", NEW T \in SUBSET Over!Registered, T # {}
  PROVE  \E n \in T : \A m \in T : Over!Before(n, m)
<1> DEFINE P == {brokers[n].priority : n \in T}
<1>1. T \subseteq Over!Nodes /\ \A n \in T : brokers[n] # None
  BY DEF Over!Registered
<1>2. \A n \in T : brokers[n].priority \in Nat /\ brokers[n].sequence \in Nat
  BY <1>1 DEF BrokerInv, IsBroker
<1>3. P \subseteq Nat /\ P # {}
  BY <1>2
<1>4. PICK p \in P : \A q \in P : p <= q
  BY <1>3, LeastOf
<1> DEFINE U == {n \in T : brokers[n].priority = p}
           Q == {brokers[n].sequence : n \in U}
<1>5. Q \subseteq Nat /\ Q # {}
  BY <1>2, <1>4
<1>6. PICK s \in Q : \A q \in Q : s <= q
  BY <1>5, LeastOf
<1>7. PICK n \in U : brokers[n].sequence = s
  BY <1>6
<1>8. ASSUME NEW m \in T PROVE Over!Before(n, m)
  <2>1. p <= brokers[m].priority /\ brokers[n].priority = p /\ p \in Nat
    BY <1>3, <1>4, <1>7
  <2>2. CASE brokers[m].priority = p
    <3>1. s <= brokers[m].sequence
      BY <1>6, <2>2
    <3> QED BY <1>7, <2>1, <2>2, <3>1 DEF Over!Before
  <2>3. CASE brokers[m].priority # p
    BY <1>2, <2>1, <2>3 DEF Over!Before
  <2> QED BY <2>2, <2>3
<1> QED BY <1>7, <1>8

\* route_order takes the first of those that may be taken.
LEMMA RouteOrderStep ==
  ASSUME OverInv, engine' = engine, Over!RouteOrder  PROVE BrokerInv'
<1> DEFINE healthy == {n \in Over!Registered : grade[n] = "healthy"}
           n == routed'
<1>1. engine = "brokers" /\ UNCHANGED <<grade, brokers>>
      /\ routed' = IF Over!Ranked = {} THEN None
                   ELSE CHOOSE i \in Over!Ranked : \A m \in Over!Ranked : Over!Before(i, m)
  BY DEF Over!RouteOrder
<1>2. BrokerInv
  BY DEF OverInv
<1>3. Over!Ranked \in SUBSET Over!Registered
  BY DEF Over!Ranked
<1>4. ASSUME n # None PROVE n \in Over!Ranked /\ \A m \in Over!Ranked : Over!Before(n, m)
  <2>1. Over!Ranked # {}
    BY <1>1, <1>4
  <2>2. \E i \in Over!Ranked : \A m \in Over!Ranked : Over!Before(i, m)
    BY <1>1, <1>2, <1>3, <2>1, PriorityFirst
  <2> QED BY <1>1, <2>1, <2>2
<1>5. ASSUME n # None
      PROVE  /\ grade[n] # "failed"
             /\ grade[n] = "degraded" => \A m \in Over!Registered : grade[m] # "healthy"
             /\ \A m \in Over!Registered : grade[m] = grade[n] => Over!Before(n, m)
  <2>1. n \in Over!Ranked /\ \A m \in Over!Ranked : Over!Before(n, m)
    BY <1>4, <1>5
  <2> HIDE DEF n
  <2>2. CASE healthy # {}
    <3>1. Over!Ranked = healthy
      BY <2>2 DEF Over!Ranked
    <3> QED BY <2>1, <3>1
  <2>3. CASE healthy = {}
    <3>1. Over!Ranked = {i \in Over!Registered : grade[i] # "failed"}
      BY <2>3 DEF Over!Ranked
    <3> QED BY <2>1, <2>3, <3>1
  <2> QED BY <2>2, <2>3
<1>6. Over!Registered' = Over!Registered /\ \A i, j : Over!Before(i, j)' = Over!Before(i, j)
  BY <1>1 DEF Over!Registered, Over!Before
<1> QED BY <1>1, <1>2, <1>5, <1>6 DEF BrokerInv

LEMMA RegisterBrokerStep ==
  ASSUME OverInv, engine' = engine, NEW n \in Over!Nodes, NEW p \in 1..MaxPriority,
         Over!RegisterBroker(n, p)
  PROVE  BrokerInv'
<1> DEFINE s == IF n \in Over!Registered THEN brokers[n].sequence ELSE Cardinality(Over!Registered)
<1>1. engine = "brokers" /\ UNCHANGED grade /\ routed' = None
  BY DEF Over!RegisterBroker
<1>2. Over!Cardinality(Over!Registered) = Cardinality(Over!Registered)
  BY DEF Over!Cardinality, Cardinality
<1>3. brokers' = [brokers EXCEPT ![n] = [priority |-> p, sequence |-> s]]
  BY <1>2 DEF Over!RegisterBroker
<1>4. s \in Nat /\ p \in Nat
  <2>1. Over!Registered \subseteq Over!Nodes
    BY DEF Over!Registered
  <2>2. Cardinality(Over!Registered) \in Nat
    BY <2>1, NodesFinite, FS_Subset, FS_CardinalityType
  <2>3. n \in Over!Registered => brokers[n].sequence \in Nat
    BY <1>1 DEF OverInv, BrokerInv, Over!Registered, IsBroker
  <2> QED BY <2>2, <2>3
<1> HIDE DEF s
<1>5. IsBroker([priority |-> p, sequence |-> s])
  BY <1>4 DEF IsBroker
<1> QED BY <1>1, <1>3, <1>5 DEF OverInv, BrokerInv

LEMMA BrokerStep == ASSUME OverInv, engine' = engine, Over!Next PROVE BrokerInv'
<1>1. CASE engine # "brokers"
  BY <1>1 DEF BrokerInv
<1>2. CASE engine = "brokers"
  <2>1. \/ Over!RouteOrder
        \/ \E n \in Over!Nodes, p \in 1..MaxPriority : Over!RegisterBroker(n, p)
        \/ \E n \in Over!Nodes, g \in {"healthy", "degraded", "failed"} : Over!BrokerHealth(n, g)
    <3> DEFINE A == \/ Over!RouteNode \/ Over!RouteStrategy \/ Over!RouteOta \/ Over!PromoteNode
                    \/ Over!PromoteStrategy \/ Over!PromoteOta
                    \/ \E n \in Over!Nodes, ok \in BOOLEAN :
                         Over!RecordNodeHealth(n, ok) \/ Over!RecordTradeOutcome(n, ok)
                         \/ Over!RecordBookingOutcome(n, ok)
               B == \/ \E n \in Over!Nodes : Over!ForceClose(n)
                    \/ Over!CircuitTick
                    \/ \E c \in OverCallers : Over!CallAdapters(c) \/ Over!AskMonitor(c)
                         \/ Over!RecordSuccess(c) \/ Over!RecordFailure(c)
               C == \/ Over!RouteOrder
                    \/ \E n \in Over!Nodes, p \in 1..MaxPriority : Over!RegisterBroker(n, p)
                    \/ \E n \in Over!Nodes, g \in {"healthy", "degraded", "failed"} : Over!BrokerHealth(n, g)
    <3>1. A \/ B \/ C
      BY DEF Over!Next
    <3>2. ~A
      BY <1>2 DEF Over!RouteNode, Over!RouteStrategy, Over!RouteOta, Over!PromoteNode,
        Over!PromoteStrategy, Over!PromoteOta, Over!RecordNodeHealth, Over!RecordTradeOutcome,
        Over!RecordBookingOutcome
    <3>3. ~B
      BY <1>2 DEF Over!ForceClose, Over!CircuitTick, Over!CallAdapters, Over!AskMonitor,
        Over!RecordSuccess, Over!RecordFailure
    <3> HIDE DEF A, B
    <3> QED BY <3>1, <3>2, <3>3
  <2>2. ASSUME NEW n \in Over!Nodes, NEW g \in {"healthy", "degraded", "failed"}, Over!BrokerHealth(n, g)
        PROVE  BrokerInv'
    <3>1. grade' = [grade EXCEPT ![n] = g] /\ routed' = None /\ UNCHANGED brokers
      BY <2>2 DEF Over!BrokerHealth
    <3> QED BY <1>2, <3>1 DEF OverInv, BrokerInv
  <2> QED BY <2>1, <2>2, RouteOrderStep, RegisterBrokerStep
<1> QED BY <1>1, <1>2

LEMMA StatusDown ==
  ASSUME CountsOver(fails), NEW n \in Over!Nodes, Over!Status(n) = "down"
  PROVE  fails[n] >= OverThreshold
<1>1. fails[n] \in Nat /\ OverThreshold \in Nat \ {0}
  BY AssumptionsHold DEF OverAssumption, CountsOver
<1>2. CASE fails[n] = 0
  <2>1. Over!Status(n) = "healthy"
    BY <1>1, <1>2 DEF Over!Status
  <2> QED BY <2>1
<1>3. CASE fails[n] > 0 /\ fails[n] < OverThreshold
  <2>1. Over!Status(n) = "degraded"
    BY <1>1, <1>3 DEF Over!Status
  <2> QED BY <2>1
<1> QED BY <1>1, <1>2, <1>3

LEMMA PairStep == ASSUME OverInv, engine' = engine, Over!Next PROVE PairInv'
<1>1. CASE engine \notin Over!Pairs
  BY <1>1 DEF PairInv
<1>2. CASE engine \in Over!Pairs
  <2>0. PairInv /\ engine \notin {"brokers", "adapters"}
    BY <1>2 DEF OverInv, Over!Pairs
  <2>1. \/ Over!Route \/ Over!PromoteToPrimary
        \/ \E n \in Over!Nodes, ok \in BOOLEAN : Over!RecordHealth(n, ok)
    <3> DEFINE A == \/ Over!RouteNode \/ Over!RouteStrategy \/ Over!RouteOta \/ Over!PromoteNode
                    \/ Over!PromoteStrategy \/ Over!PromoteOta
                    \/ \E n \in Over!Nodes, ok \in BOOLEAN :
                         Over!RecordNodeHealth(n, ok) \/ Over!RecordTradeOutcome(n, ok)
                         \/ Over!RecordBookingOutcome(n, ok)
               B == \/ \E n \in Over!Nodes : Over!ForceClose(n)
                    \/ Over!CircuitTick \/ Over!RouteOrder
                    \/ \E c \in OverCallers : Over!CallAdapters(c) \/ Over!AskMonitor(c)
                         \/ Over!RecordSuccess(c) \/ Over!RecordFailure(c)
                    \/ \E n \in Over!Nodes, p \in 1..MaxPriority : Over!RegisterBroker(n, p)
                    \/ \E n \in Over!Nodes, g \in {"healthy", "degraded", "failed"} : Over!BrokerHealth(n, g)
    <3>1. A \/ B
      BY DEF Over!Next
    <3>2. ~B
      BY <2>0 DEF Over!ForceClose, Over!CircuitTick, Over!CallAdapters, Over!AskMonitor,
        Over!RecordSuccess, Over!RecordFailure, Over!RouteOrder, Over!RegisterBroker, Over!BrokerHealth
    <3>3. A => \/ Over!Route \/ Over!PromoteToPrimary
               \/ \E n \in Over!Nodes, ok \in BOOLEAN : Over!RecordHealth(n, ok)
      BY DEF Over!RouteNode, Over!RouteStrategy, Over!RouteOta, Over!PromoteNode,
        Over!PromoteStrategy, Over!PromoteOta, Over!RecordNodeHealth, Over!RecordTradeOutcome,
        Over!RecordBookingOutcome
    <3> HIDE DEF A, B
    <3> QED BY <3>1, <3>2, <3>3
  <2>2. ASSUME NEW n \in Over!Nodes, NEW ok \in BOOLEAN, Over!RecordHealth(n, ok) PROVE PairInv'
    <3> DEFINE k == IF ok THEN 0 ELSE Over!Saturated(fails[n] + 1)
    <3>1. fails' = [fails EXCEPT ![n] = k] /\ UNCHANGED <<overState, overActive, cause>>
      BY <2>2 DEF Over!RecordHealth, Over!pairVars
    <3>2. k \in Nat
      BY <1>2, <2>0, AssumptionsHold DEF OverAssumption, Over!Saturated, PairInv, CountsOver
    <3> HIDE DEF k
    <3> QED BY <1>2, <2>0, <3>1, <3>2 DEF PairInv, CountsOver
  <2>3. CASE Over!PromoteToPrimary
    BY <1>2, <2>0, <2>3 DEF Over!PromoteToPrimary, PairInv, CountsOver
  <2>4. CASE Over!Route
    <3>1. fails' = fails
      BY <2>4 DEF Over!Route
    <3>2. CASE Over!Status(Primary) = "down"
      <4>1. Primary \in Over!Nodes
        <5>1. Over!Targets[1] = Primary /\ 1 \in DOMAIN Over!Targets
          BY AssumptionsHold DEF OverAssumption, Over!Targets
        <5> QED BY <5>1 DEF Over!Nodes, Over!Range
      <4>2. fails[Primary] >= OverThreshold
        BY <1>2, <2>0, <3>2, <4>1, StatusDown DEF PairInv
      <4>3. Over!RouteAround
        BY <2>4, <3>2 DEF Over!Route
      <4>4. UNCHANGED <<overState, overActive, cause>> \/ (cause' /\ overState' = "failed_over")
        BY <4>2, <4>3 DEF Over!RouteAround, Over!pairVars
      <4> QED BY <1>2, <2>0, <3>1, <4>4 DEF PairInv, CountsOver
    <3>3. CASE Over!Status(Primary) # "down"
      <4>1. Over!RouteBack
        BY <2>4, <3>3 DEF Over!Route
      <4> QED BY <1>2, <2>0, <3>1, <4>1 DEF PairInv, CountsOver, Over!RouteBack
    <3> QED BY <3>2, <3>3
  <2> QED BY <2>1, <2>2, <2>3, <2>4
<1> QED BY <1>1, <1>2

LEMMA CircuitStep == ASSUME OverInv, engine' = engine, Over!Next PROVE CircuitInv'
<1>1. CASE engine # "adapters"
  BY <1>1 DEF CircuitInv
<1>2. CASE engine = "adapters"
  <2>0. /\ CountsOver(fails) /\ CountsOver(overTally) /\ DOMAIN circuit = Over!Nodes
        /\ \A n \in Over!Nodes : /\ fails[n] <= overTally[n]
                                 /\ circuit[n] # "closed" => overTally[n] >= OverThreshold
        /\ OverThreshold \in Nat \ {0} /\ engine \notin Over!Pairs
    BY <1>2, AssumptionsHold DEF OverAssumption, OverInv, CircuitInv, Over!Pairs
  <2>1. \/ \E n \in Over!Nodes : Over!ForceClose(n)
        \/ Over!CircuitTick
        \/ \E c \in OverCallers : Over!CallAdapters(c) \/ Over!AskMonitor(c)
              \/ Over!RecordSuccess(c) \/ Over!RecordFailure(c)
    <3> DEFINE A == \/ Over!RouteNode \/ Over!RouteStrategy \/ Over!RouteOta \/ Over!PromoteNode
                    \/ Over!PromoteStrategy \/ Over!PromoteOta
                    \/ \E n \in Over!Nodes, ok \in BOOLEAN :
                         Over!RecordNodeHealth(n, ok) \/ Over!RecordTradeOutcome(n, ok)
                         \/ Over!RecordBookingOutcome(n, ok)
               C == \/ Over!RouteOrder
                    \/ \E n \in Over!Nodes, p \in 1..MaxPriority : Over!RegisterBroker(n, p)
                    \/ \E n \in Over!Nodes, g \in {"healthy", "degraded", "failed"} : Over!BrokerHealth(n, g)
               B == \/ \E n \in Over!Nodes : Over!ForceClose(n)
                    \/ Over!CircuitTick
                    \/ \E c \in OverCallers : Over!CallAdapters(c) \/ Over!AskMonitor(c)
                          \/ Over!RecordSuccess(c) \/ Over!RecordFailure(c)
    <3>1. A \/ B \/ C
      BY DEF Over!Next
    <3>2. ~A
      BY <1>2 DEF Over!RouteNode, Over!RouteStrategy, Over!RouteOta, Over!PromoteNode,
        Over!PromoteStrategy, Over!PromoteOta, Over!RecordNodeHealth, Over!RecordTradeOutcome,
        Over!RecordBookingOutcome
    <3>3. ~C
      BY <1>2 DEF Over!RouteOrder, Over!RegisterBroker, Over!BrokerHealth
    <3> HIDE DEF A, C
    <3> QED BY <3>1, <3>2, <3>3
  <2>2. ASSUME NEW n \in Over!Nodes, Over!ForceClose(n) PROVE CircuitInv'
    <3>1. /\ fails' = [fails EXCEPT ![n] = 0] /\ overTally' = [overTally EXCEPT ![n] = 0]
          /\ circuit' = [circuit EXCEPT ![n] = "closed"]
      BY <2>2 DEF Over!ForceClose
    <3> QED BY <2>0, <3>1 DEF CircuitInv, CountsOver
  <2>3. CASE UNCHANGED <<fails, overTally, circuit>>
    BY <2>0, <2>3 DEF CircuitInv, CountsOver
  <2>4. Over!CircuitTick \/ (\E c \in OverCallers : Over!CallAdapters(c)) => UNCHANGED <<fails, overTally, circuit>>
    BY DEF Over!CircuitTick, Over!CallAdapters
  <2>5. ASSUME NEW c \in OverCallers, Over!AskMonitor(c) PROVE CircuitInv'
    <3> DEFINE n == Head(overCall[c].left)
    <3>1. /\ UNCHANGED <<fails, overTally>>
          /\ circuit' = circuit \/ circuit' = [circuit EXCEPT ![n] = IF circuit[n] = "open" THEN "half_open" ELSE circuit[n]]
      BY <2>5 DEF Over!AskMonitor
    <3> HIDE DEF n
    <3>2. DOMAIN circuit' = Over!Nodes /\ \A i \in Over!Nodes : circuit'[i] # "closed" => circuit[i] # "closed"
      BY <2>0, <3>1
    <3> QED BY <2>0, <3>1, <3>2 DEF CircuitInv, CountsOver
  <2>6. ASSUME NEW c \in OverCallers, Over!RecordSuccess(c) PROVE CircuitInv'
    <3> DEFINE n == Head(overCall[c].left)
               closes == circuit[n] = "half_open"
    <3>1. /\ fails' = [fails EXCEPT ![n] = 0]
          /\ circuit' = [circuit EXCEPT ![n] = IF closes THEN "closed" ELSE circuit[n]]
          /\ overTally' = [overTally EXCEPT ![n] = IF closes THEN 0 ELSE overTally[n]]
      BY <2>6 DEF Over!RecordSuccess
    <3> HIDE DEF n, closes
    <3> QED BY <2>0, <3>1 DEF CircuitInv, CountsOver
  <2>7. ASSUME NEW c \in OverCallers, Over!RecordFailure(c) PROVE CircuitInv'
    <3> DEFINE n == Head(overCall[c].left)
    <3>1. /\ fails' = [fails EXCEPT ![n] = Over!Saturated(fails[n] + 1)]
          /\ overTally' = [overTally EXCEPT ![n] = Over!Saturated(overTally[n] + 1)]
          /\ circuit' = [circuit EXCEPT ![n] = IF Over!Opens(n) THEN "open" ELSE circuit[n]]
      BY <2>7 DEF Over!RecordFailure
    <3> HIDE DEF n
    <3>2. CASE n \in Over!Nodes
      <4>1. /\ fails[n] \in Nat /\ overTally[n] \in Nat /\ fails[n] <= overTally[n]
            /\ circuit[n] # "closed" => overTally[n] >= OverThreshold
        BY <2>0, <3>2 DEF CountsOver
      <4>2. /\ Over!Saturated(fails[n] + 1) \in Nat /\ Over!Saturated(overTally[n] + 1) \in Nat
            /\ Over!Saturated(fails[n] + 1) <= Over!Saturated(overTally[n] + 1)
            /\ Over!Opens(n) \/ circuit[n] # "closed" => Over!Saturated(overTally[n] + 1) >= OverThreshold
        BY <2>0, <4>1 DEF Over!Saturated, Over!Opens
      <4>3. /\ fails'[n] = Over!Saturated(fails[n] + 1) /\ overTally'[n] = Over!Saturated(overTally[n] + 1)
            /\ circuit'[n] = IF Over!Opens(n) THEN "open" ELSE circuit[n]
        BY <2>0, <3>1, <3>2 DEF CountsOver
      <4>4. /\ DOMAIN fails' = Over!Nodes /\ DOMAIN overTally' = Over!Nodes /\ DOMAIN circuit' = Over!Nodes
            /\ \A i \in Over!Nodes \ {n} : /\ fails'[i] = fails[i] /\ overTally'[i] = overTally[i]
                                           /\ circuit'[i] = circuit[i]
        BY <2>0, <3>1 DEF CountsOver
      <4> QED BY <2>0, <4>2, <4>3, <4>4 DEF CircuitInv, CountsOver
    <3>3. CASE n \notin Over!Nodes
      <4>1. /\ DOMAIN fails' = Over!Nodes /\ DOMAIN overTally' = Over!Nodes /\ DOMAIN circuit' = Over!Nodes
            /\ \A i \in Over!Nodes : /\ fails'[i] = fails[i] /\ overTally'[i] = overTally[i]
                                     /\ circuit'[i] = circuit[i]
        BY <2>0, <3>1, <3>3 DEF CountsOver
      <4> QED BY <2>0, <4>1 DEF CircuitInv, CountsOver
    <3> QED BY <3>2, <3>3
  <2> QED BY <2>1, <2>2, <2>3, <2>4, <2>5, <2>6, <2>7
<1> QED BY <1>1, <1>2

LEMMA OverStart == Over!Start => OverInv
<1> SUFFICES ASSUME Over!Start PROVE OverInv
  OBVIOUS
<1>1. /\ fails = [n \in Over!Nodes |-> 0] /\ overTally = [n \in Over!Nodes |-> 0]
      /\ circuit = [n \in Over!Nodes |-> "closed"] /\ grade = [n \in Over!Nodes |-> "healthy"]
      /\ brokers = [n \in Over!Nodes |-> None] /\ routed = None /\ overActive = Primary
  BY DEF Over!Start
<1> QED BY <1>1 DEF OverInv, PairInv, BrokerInv, CircuitInv, CountsOver

LEMMA OverStep ==
  ASSUME OverInv, engine' = engine, Over!Next  PROVE OverInv'
BY BrokerStep, PairStep, CircuitStep DEF OverInv

LEMMA OverStands ==
  ASSUME OverInv, UNCHANGED <<engine, overVars>>  PROVE OverInv'
<1> USE DEF overVars, OverInv
<1>1. PairInv'
  BY DEF PairInv, CountsOver
<1>2. BrokerInv'
  BY DEF BrokerInv, Over!Registered, Over!Before
<1>3. CircuitInv'
  BY DEF CircuitInv, CountsOver
<1> QED BY <1>1, <1>2, <1>3

LEMMA OverHolds ==
  ASSUME OverInv  PROVE Over!FailoverForCause /\ Over!CircuitForCause
BY DEF OverInv, PairInv, BrokerInv, CircuitInv, CountsOver, Over!FailoverForCause, Over!CircuitForCause

-----------------------------------------------------------------------------
(* Dispatch and vote *)

NoLater(n, k) == n \in Nat /\ n <= k
IsTask(r) == r = [msg |-> r.msg, to |-> r.to, failed |-> r.failed, todo |-> r.todo]
Busy == {s \in Senders : task[s] # None}

\* A message is one sender's.
MessagesApart ==
  /\ sent \in Nat /\ DOMAIN task = Senders
  /\ \A s \in Busy : IsTask(task[s]) /\ NoLater(task[s].msg, sent)
  /\ \A s, t \in Busy : s # t => task[s].msg # task[t].msg
  /\ \A m \in dfQueue : NoLater(m[2], sent)
  /\ \A p \in dfHeard \cup shunned : NoLater(p[2], sent)

\* While it is dispatched, the breakers that were open all through are still open, and
\* those still to be reached had theirs closed at one moment.
ShunnedSpared ==
  /\ \A m \in dfQueue : <<m[1], m[2]>> \notin shunned
  /\ \A p \in dfHeard : p \notin shunned
  /\ \A s \in Busy : \A d : <<d, task[s].msg>> \in shunned => d \in open
  /\ \A s \in Busy : task[s].failed # None => \A d \in task[s].todo : <<d, task[s].msg>> \notin shunned

\* A message to one is with nobody as long as somebody is still to be reached.
OneIsOne ==
  \A s \in Busy : task[s].to = "one" =>
    /\ task[s].todo \subseteq Capable
    /\ \A m \in dfQueue : m[2] = task[s].msg => m[1] \in Capable /\ task[s].todo = {}
    /\ \A m, n \in dfQueue : m[2] = task[s].msg /\ n[2] = task[s].msg => m[1] = n[1]

RouteInv == MessagesApart /\ ShunnedSpared /\ OneIsOne

LEMMA BeginDispatchStep ==
  ASSUME RouteInv, NEW s \in Senders, NEW to \in {"one", "all"}, Bus!Dispatch(s, to)
  PROVE  RouteInv'
<1> DEFINE r == [msg |-> sent + 1, to |-> to, failed |-> None,
                 todo |-> IF to = "one" THEN Bus!Registered \cap Capable ELSE Bus!Registered]
           k == sent + 1
<1>1. /\ sent' = k /\ task' = [task EXCEPT ![s] = r] /\ task[s] = None
      /\ shunned' = shunned \cup {<<d, k>> : d \in open}
      /\ UNCHANGED <<open, dfQueue, dfHeard>>
  BY DEF Bus!Dispatch
<1>2. /\ r.msg = k /\ r.to = to /\ r.failed = None /\ IsTask(r)
      /\ to = "one" => r.todo \subseteq Capable
  BY DEF IsTask
<1>3. /\ MessagesApart /\ ShunnedSpared /\ OneIsOne
      /\ DOMAIN task = Senders /\ sent \in Nat /\ sent' \in Nat
  BY <1>1 DEF RouteInv, MessagesApart
<1>4. task'[s] = r /\ DOMAIN task' = Senders /\ \A t \in Senders \ {s} : task'[t] = task[t]
  BY <1>1, <1>3
<1>5. \A n : NoLater(n, sent) => NoLater(n, k) /\ n # k
  BY <1>3 DEF NoLater
<1>6. NoLater(k, k)
  BY <1>3 DEF NoLater
<1> HIDE DEF r, k
<1>7. Busy' \subseteq Busy \cup {s} /\ s \notin Busy /\ \A t \in Busy : task'[t] = task[t]
  BY <1>1, <1>4 DEF Busy
<1>8. \A d, n : <<d, n>> \in shunned' <=> <<d, n>> \in shunned \/ (d \in open /\ n = k)
  BY <1>1
<1>9. \A p \in shunned' : p \in shunned \/ p[2] = k
  BY <1>1
<1>10. MessagesApart'
  <2>1. \A t \in Busy : IsTask(task[t]) /\ NoLater(task[t].msg, k) /\ task[t].msg # k
    BY <1>3, <1>5 DEF MessagesApart
  <2>2. \A m \in dfQueue : NoLater(m[2], k)
    BY <1>3, <1>5 DEF MessagesApart
  <2>3. \A p \in dfHeard \cup shunned' : NoLater(p[2], k)
    BY <1>3, <1>5, <1>6, <1>9 DEF MessagesApart
  <2> QED BY <1>1, <1>2, <1>3, <1>4, <1>6, <1>7, <2>1, <2>2, <2>3 DEF MessagesApart
<1>11. ShunnedSpared'
  <2>1. \A t \in Busy : task[t].msg # k
    BY <1>3, <1>5 DEF MessagesApart
  <2>2. \A m \in dfQueue : <<m[1], m[2]>> \notin shunned'
    <3> TAKE m \in dfQueue
    <3>1. m[2] # k /\ <<m[1], m[2]>> \notin shunned
      BY <1>3, <1>5 DEF MessagesApart, ShunnedSpared
    <3> QED BY <1>8, <3>1
  <2>3. \A p \in dfHeard : p \notin shunned'
    <3> TAKE p \in dfHeard
    <3>1. p[2] # k /\ p \notin shunned
      BY <1>3, <1>5 DEF MessagesApart, ShunnedSpared
    <3> QED BY <1>9, <3>1
  <2>4. ASSUME NEW t \in Busy', NEW d, <<d, task'[t].msg>> \in shunned' PROVE d \in open
    <3>1. CASE t = s
      <4>1. ~ <<d, k>> \in shunned
        <5>1. <<d, k>> \in shunned => NoLater(<<d, k>>[2], sent)
          BY <1>3 DEF MessagesApart
        <5>2. <<d, k>>[2] = k
          OBVIOUS
        <5> QED BY <1>5, <5>1, <5>2
      <4> QED BY <1>2, <1>4, <1>8, <2>4, <3>1, <4>1
    <3>2. CASE t \in Busy
      BY <1>3, <1>7, <1>8, <2>1, <2>4, <3>2 DEF ShunnedSpared
    <3> QED BY <1>7, <3>1, <3>2
  <2>5. ASSUME NEW t \in Busy', task'[t].failed # None, NEW d \in task'[t].todo
        PROVE  <<d, task'[t].msg>> \notin shunned'
    <3>1. t \in Busy /\ task'[t] = task[t]
      BY <1>2, <1>4, <1>7, <2>5
    <3>2. task[t].msg # k /\ <<d, task[t].msg>> \notin shunned
      BY <1>3, <2>1, <2>5, <3>1 DEF ShunnedSpared
    <3> QED BY <1>8, <3>1, <3>2
  <2> QED BY <1>1, <2>2, <2>3, <2>4, <2>5 DEF ShunnedSpared
<1>12. OneIsOne'
  <2>1. \A m \in dfQueue : m[2] # k
    BY <1>3, <1>5 DEF MessagesApart
  <2>2. ASSUME NEW t \in Busy', task'[t].to = "one"
        PROVE  /\ task'[t].todo \subseteq Capable
               /\ \A m \in dfQueue : m[2] = task'[t].msg => m[1] \in Capable /\ task'[t].todo = {}
               /\ \A m, n \in dfQueue : m[2] = task'[t].msg /\ n[2] = task'[t].msg => m[1] = n[1]
    <3>1. CASE t = s
      BY <1>2, <1>4, <2>1, <2>2, <3>1
    <3>2. CASE t \in Busy
      BY <1>3, <1>7, <2>2, <3>2 DEF OneIsOne
    <3> QED BY <1>7, <3>1, <3>2
  <2> QED BY <1>1, <2>2 DEF OneIsOne
<1> QED BY <1>10, <1>11, <1>12 DEF RouteInv

Selected(r, f, T) == [r EXCEPT !.failed = f, !.todo = T]

LEMMA TaskExcept ==
  ASSUME NEW r, IsTask(r), NEW f, NEW T
  PROVE  /\ IsTask(Selected(r, f, T)) /\ Selected(r, f, T).msg = r.msg
         /\ Selected(r, f, T).to = r.to /\ Selected(r, f, T).failed = f /\ Selected(r, f, T).todo = T
<1> DEFINE q == Selected(r, f, T)
<1>1. PICK a, b, c, e : r = [msg |-> a, to |-> b, failed |-> c, todo |-> e]
  BY DEF IsTask
<1> DEFINE p == [msg |-> a, to |-> b, failed |-> f, todo |-> e]
<1>2. [r EXCEPT !.failed = f] = p
  BY <1>1
<1>3. [p EXCEPT !.todo = T] = [msg |-> a, to |-> b, failed |-> f, todo |-> T]
  OBVIOUS
<1> HIDE DEF p
<1>4. [r EXCEPT !.failed = f, !.todo = T] = [[r EXCEPT !.failed = f] EXCEPT !.todo = T]
  OBVIOUS
<1>5. q = [msg |-> a, to |-> b, failed |-> f, todo |-> T]
  BY <1>2, <1>3, <1>4 DEF Selected
<1>6. r.msg = a /\ r.to = b
  BY <1>1
<1> HIDE DEF q
<1>7. IsTask(q) /\ q.msg = r.msg /\ q.to = r.to /\ q.failed = f /\ q.todo = T
  BY <1>5, <1>6 DEF IsTask
<1> QED BY <1>7 DEF q

\* What keeps the invariant: fewer dispatches, every message was there before, and the open
\* breakers that matter are still open.
LEMMA RouteShrinks ==
  ASSUME RouteInv, sent' = sent, DOMAIN task' = Senders,
         \A t \in Senders : task'[t] # None => task'[t] = task[t],
         dfHeard' \subseteq dfHeard, shunned' \subseteq shunned,
         \A m \in dfQueue' : \E n \in dfQueue : m[1] = n[1] /\ m[2] = n[2],
         \A d, t : t \in Busy' /\ <<d, task'[t].msg>> \in shunned' /\ d \in open => d \in open'
  PROVE  RouteInv'
<1>1. MessagesApart /\ ShunnedSpared /\ OneIsOne
  BY DEF RouteInv
<1>2. Busy' \subseteq Busy /\ \A t \in Busy' : task'[t] = task[t]
  BY DEF Busy
<1>3. MessagesApart'
  <2>1. \A m \in dfQueue' : NoLater(m[2], sent)
    BY <1>1 DEF MessagesApart
  <2>2. \A p \in dfHeard' \cup shunned' : NoLater(p[2], sent)
    BY <1>1 DEF MessagesApart
  <2> QED BY <1>1, <1>2, <2>1, <2>2 DEF MessagesApart
<1>4. ShunnedSpared'
  <2>1. \A m \in dfQueue' : <<m[1], m[2]>> \notin shunned'
    <3> TAKE m \in dfQueue'
    <3>1. PICK n \in dfQueue : m[1] = n[1] /\ m[2] = n[2]
      OBVIOUS
    <3> QED BY <1>1, <3>1 DEF ShunnedSpared
  <2>2. \A p \in dfHeard' : p \notin shunned'
    BY <1>1 DEF ShunnedSpared
  <2>3. \A t \in Busy' : \A d : <<d, task'[t].msg>> \in shunned' => d \in open'
    BY <1>1, <1>2 DEF ShunnedSpared
  <2>4. \A t \in Busy' : task'[t].failed # None => \A d \in task'[t].todo : <<d, task'[t].msg>> \notin shunned'
    BY <1>1, <1>2 DEF ShunnedSpared
  <2> QED BY <2>1, <2>2, <2>3, <2>4 DEF ShunnedSpared
<1>5. OneIsOne'
  <2>1. ASSUME NEW t \in Busy', task'[t].to = "one"
        PROVE  /\ task'[t].todo \subseteq Capable
               /\ \A m \in dfQueue' : m[2] = task'[t].msg => m[1] \in Capable /\ task'[t].todo = {}
               /\ \A m, n \in dfQueue' : m[2] = task'[t].msg /\ n[2] = task'[t].msg => m[1] = n[1]
    <3>1. t \in Busy /\ task'[t] = task[t] /\ task[t].to = "one"
      BY <1>2, <2>1
    <3>2. /\ task[t].todo \subseteq Capable
          /\ \A m \in dfQueue : m[2] = task[t].msg => m[1] \in Capable /\ task[t].todo = {}
          /\ \A m, n \in dfQueue : m[2] = task[t].msg /\ n[2] = task[t].msg => m[1] = n[1]
      BY <1>1, <3>1 DEF OneIsOne
    <3> QED BY <3>1, <3>2
  <2> QED BY <2>1 DEF OneIsOne
<1> QED BY <1>3, <1>4, <1>5 DEF RouteInv

LEMMA SelectStep ==
  ASSUME RouteInv, NEW s \in Senders, Bus!Select(s)  PROVE RouteInv'
<1> DEFINE r == task[s]
           T == {d \in r.todo : Bus!IsAlive(d) /\ d \notin open}
           q == [r EXCEPT !.failed = open, !.todo = T]
<1>1. MessagesApart /\ ShunnedSpared /\ OneIsOne /\ DOMAIN task = Senders
  BY DEF RouteInv, MessagesApart
<1>2. /\ r # None /\ task' = [task EXCEPT ![s] = q]
      /\ UNCHANGED <<open, dfQueue, sent, dfHeard, shunned>>
  <2>1. r # None /\ UNCHANGED <<open, dfQueue, sent, dfHeard, shunned>>
    BY DEF Bus!Select
  <2>2. task' = [task EXCEPT ![s] = q]
    BY Zenon DEF Bus!Select, Bus!FailedDfs
  <2> QED BY <2>1, <2>2
<1>3. s \in Busy /\ IsTask(r)
  BY <1>1, <1>2 DEF Busy, MessagesApart
<1>0. T \subseteq r.todo /\ \A d \in T : d \notin open
  OBVIOUS
<1> HIDE DEF T
<1>4. IsTask(q) /\ q.msg = r.msg /\ q.to = r.to /\ q.failed = open /\ q.todo = T
  <2>1. q = Selected(r, open, T)
    BY DEF Selected
  <2> HIDE DEF q, r
  <2> QED BY <1>3, <2>1, TaskExcept
<1> HIDE DEF q
<1>5. task'[s] = q /\ DOMAIN task' = Senders /\ \A t \in Senders \ {s} : task'[t] = task[t]
  BY <1>1, <1>2
<1>6. Busy' \subseteq Busy
  BY <1>3, <1>5 DEF Busy
<1>7. MessagesApart'
  <2>1. \A t \in Busy' : IsTask(task'[t]) /\ NoLater(task'[t].msg, sent) /\ task'[t].msg = task[t].msg
    BY <1>1, <1>3, <1>4, <1>5, <1>6 DEF MessagesApart, Busy
  <2> QED BY <1>1, <1>2, <1>5, <1>6, <2>1 DEF MessagesApart
<1>8. ShunnedSpared'
  <2>1. \A t \in Busy' : \A d : <<d, task'[t].msg>> \in shunned => d \in open
    BY <1>1, <1>3, <1>4, <1>5, <1>6 DEF ShunnedSpared, Busy
  <2>2. ASSUME NEW t \in Busy', task'[t].failed # None, NEW d \in task'[t].todo
        PROVE  <<d, task'[t].msg>> \notin shunned
    <3>1. CASE t = s
      <4>1. d \notin open
        BY <1>0, <1>4, <1>5, <2>2, <3>1
      <4> QED BY <2>1, <4>1
    <3>2. CASE t # s
      BY <1>1, <1>5, <1>6, <2>2, <3>2 DEF ShunnedSpared, Busy
    <3> QED BY <3>1, <3>2
  <2> QED BY <1>1, <1>2, <2>1, <2>2 DEF ShunnedSpared
<1>9. OneIsOne'
  <2>1. ASSUME NEW t \in Busy', task'[t].to = "one"
        PROVE  /\ task'[t].todo \subseteq Capable
               /\ \A m \in dfQueue : m[2] = task'[t].msg => m[1] \in Capable /\ task'[t].todo = {}
               /\ \A m, n \in dfQueue : m[2] = task'[t].msg /\ n[2] = task'[t].msg => m[1] = n[1]
    <3>1. /\ t \in Busy /\ task'[t].msg = task[t].msg /\ task[t].to = "one"
          /\ task'[t].todo \subseteq task[t].todo
      BY <1>0, <1>3, <1>4, <1>5, <1>6, <2>1 DEF Busy
    <3>2. /\ task[t].todo \subseteq Capable
          /\ \A m \in dfQueue : m[2] = task[t].msg => m[1] \in Capable /\ task[t].todo = {}
          /\ \A m, n \in dfQueue : m[2] = task[t].msg /\ n[2] = task[t].msg => m[1] = n[1]
      BY <1>1, <3>1 DEF OneIsOne
    <3> QED BY <3>1, <3>2
  <2> QED BY <1>2, <2>1 DEF OneIsOne
<1> QED BY <1>7, <1>8, <1>9 DEF RouteInv

LEMMA DeliverStep ==
  ASSUME RouteInv, NEW s \in Senders, NEW x \in DfDfs, Bus!Deliver(s, x)  PROVE RouteInv'
<1> DEFINE r == task[s]
           q == [r EXCEPT !.todo = IF r.to = "one" THEN {} ELSE r.todo \ {x}]
           new == <<x, r.msg, 0>>
<1>1. MessagesApart /\ ShunnedSpared /\ OneIsOne /\ DOMAIN task = Senders
  BY DEF RouteInv, MessagesApart
<1>2. /\ r # None /\ r.failed # None /\ x \in r.todo /\ task' = [task EXCEPT ![s] = q]
      /\ dfQueue' = dfQueue \cup {new}
      /\ dfHeard' \subseteq dfHeard \cup {<<x, r.msg>>}
      /\ UNCHANGED <<open, sent, shunned>>
  BY DEF Bus!Deliver
<1>3. s \in Busy /\ IsTask(r) /\ NoLater(r.msg, sent)
  BY <1>1, <1>2 DEF Busy, MessagesApart
<1>4. /\ IsTask(q) /\ q.msg = r.msg /\ q.to = r.to /\ q.failed = r.failed
      /\ q.todo = IF r.to = "one" THEN {} ELSE r.todo \ {x}
  BY <1>3 DEF IsTask
<1>5. new[1] = x /\ new[2] = r.msg
  OBVIOUS
<1> HIDE DEF q, new
<1>6. task'[s] = q /\ DOMAIN task' = Senders /\ \A t \in Senders \ {s} : task'[t] = task[t]
  BY <1>1, <1>2
<1>7. Busy' \subseteq Busy
  BY <1>3, <1>6 DEF Busy
<1>8. \A t \in Busy' : /\ task'[t].msg = task[t].msg /\ task'[t].to = task[t].to
                       /\ task'[t].failed = task[t].failed /\ task'[t].todo \subseteq task[t].todo
                       /\ IsTask(task[t]) => IsTask(task'[t])
  BY <1>4, <1>6 DEF Busy
<1>9. <<x, r.msg>> \notin shunned
  BY <1>1, <1>2, <1>3 DEF ShunnedSpared
<1>10. MessagesApart'
  <2>1. \A p \in dfHeard' \cup shunned : NoLater(p[2], sent)
    <3> TAKE p \in dfHeard' \cup shunned
    <3>1. CASE p \in dfHeard \cup shunned
      BY <1>1, <3>1 DEF MessagesApart
    <3>2. CASE p = <<x, r.msg>>
      <4>1. p[2] = r.msg
        BY <3>2
      <4> QED BY <1>3, <4>1
    <3> QED BY <1>2, <3>1, <3>2
  <2> QED BY <1>1, <1>2, <1>3, <1>5, <1>6, <1>7, <1>8, <2>1 DEF MessagesApart
<1>11. ShunnedSpared'
  <2>1. \A m \in dfQueue' : <<m[1], m[2]>> \notin shunned
    BY <1>1, <1>2, <1>5, <1>9 DEF ShunnedSpared
  <2>2. \A p \in dfHeard' : p \notin shunned
    BY <1>1, <1>2, <1>9 DEF ShunnedSpared
  <2> QED BY <1>1, <1>2, <1>7, <1>8, <2>1, <2>2 DEF ShunnedSpared
<1>12. OneIsOne'
  <2>1. ASSUME NEW t \in Busy', task'[t].to = "one"
        PROVE  /\ task'[t].todo \subseteq Capable
               /\ \A m \in dfQueue' : m[2] = task'[t].msg => m[1] \in Capable /\ task'[t].todo = {}
               /\ \A m, n \in dfQueue' : m[2] = task'[t].msg /\ n[2] = task'[t].msg => m[1] = n[1]
    <3>1. t \in Busy /\ task'[t].msg = task[t].msg /\ task[t].to = "one" /\ task'[t].todo \subseteq task[t].todo
      BY <1>7, <1>8, <2>1
    <3>2. /\ task[t].todo \subseteq Capable
          /\ \A m \in dfQueue : m[2] = task[t].msg => m[1] \in Capable /\ task[t].todo = {}
          /\ \A m, n \in dfQueue : m[2] = task[t].msg /\ n[2] = task[t].msg => m[1] = n[1]
      BY <1>1, <3>1 DEF OneIsOne
    <3>3. CASE t = s
      <4>1. q.todo = {} /\ task'[t].todo = {}
        BY <1>4, <1>6, <3>1, <3>3
      <4>2. \A m \in dfQueue : m[2] # r.msg
        BY <1>2, <3>2, <3>3
      <4>3. \A m \in dfQueue' : m[2] = r.msg => m = new
        BY <1>2, <4>2
      <4> QED BY <1>2, <1>5, <3>1, <3>2, <3>3, <4>1, <4>3
    <3>4. CASE t # s
      <4>1. r.msg # task[t].msg
        BY <1>1, <1>3, <3>1, <3>4 DEF MessagesApart
      <4>2. \A m \in dfQueue' : m[2] = task[t].msg => m \in dfQueue
        BY <1>2, <1>5, <4>1
      <4>3. task'[t] = task[t]
        BY <1>6, <3>4 DEF Busy
      <4> QED BY <3>2, <4>2, <4>3
    <3> QED BY <3>3, <3>4
  <2> QED BY <2>1 DEF OneIsOne
<1> QED BY <1>10, <1>11, <1>12 DEF RouteInv

LEMMA DispatchStep ==
  ASSUME RouteInv, Bus!Dispatching  PROVE RouteInv'
<1>0. DOMAIN task = Senders
  BY DEF RouteInv, MessagesApart
<1>1. ASSUME NEW d \in DfDfs, Bus!RegisterDf(d) \/ Bus!Heartbeat(d) \/ Bus!Unsubscribe(d)
      PROVE  RouteInv'
  <2>1. UNCHANGED <<open, dfQueue, sent, task, dfHeard, shunned>>
    BY <1>1 DEF Bus!RegisterDf, Bus!Heartbeat, Bus!Unsubscribe
  <2> QED BY <1>0, <2>1, RouteShrinks
<1>2. ASSUME NEW d \in DfDfs, Bus!BreakerTrips(d) PROVE RouteInv'
  <2>1. open \subseteq open' /\ UNCHANGED <<dfQueue, sent, task, dfHeard, shunned>>
    BY <1>2 DEF Bus!BreakerTrips
  <2> QED BY <1>0, <2>1, RouteShrinks
<1>3. ASSUME NEW d \in DfDfs, Bus!BreakerCloses(d) PROVE RouteInv'
  <2>1. open' = open \ {d} /\ UNCHANGED <<dfQueue, sent, task, dfHeard>> /\ shunned' \subseteq shunned
        /\ \A p \in shunned' : p[1] # d \/ \A s \in Senders : task[s] = None \/ p[2] # task[s].msg
    BY <1>3 DEF Bus!BreakerCloses
  <2>2. ASSUME NEW e, NEW t, t \in Busy', <<e, task'[t].msg>> \in shunned', e \in open PROVE e \in open'
    <3>1. t \in Senders /\ task[t] # None
      BY <2>1, <2>2 DEF Busy
    <3>2. <<e, task[t].msg>> \in shunned' /\ <<e, task[t].msg>>[1] = e /\ <<e, task[t].msg>>[2] = task[t].msg
      BY <2>1, <2>2
    <3>3. e # d
      BY <2>1, <3>1, <3>2
    <3> QED BY <2>1, <2>2, <3>3
  <2> QED BY <1>0, <2>1, <2>2, RouteShrinks
<1>4. ASSUME NEW s \in Senders, Bus!Delivered(s) PROVE RouteInv'
  <2>1. task' = [task EXCEPT ![s] = None] /\ UNCHANGED <<open, dfQueue, sent, dfHeard, shunned>>
    BY <1>4 DEF Bus!Delivered
  <2>2. DOMAIN task' = Senders /\ \A t \in Senders : task'[t] # None => task'[t] = task[t]
    BY <1>0, <2>1
  <2> QED BY <2>1, <2>2, RouteShrinks
<1>5. CASE Bus!PruneExpired
  <2>1. dfQueue' \subseteq dfQueue /\ UNCHANGED <<open, task, sent, dfHeard, shunned>>
    BY <1>5 DEF Bus!PruneExpired
  <2> QED BY <1>0, <2>1, RouteShrinks
<1>6. CASE Bus!DispatchTick
  <2>1. UNCHANGED <<open, task, sent, dfHeard, shunned>>
    BY <1>6 DEF Bus!DispatchTick
  <2>2. \A m \in dfQueue' : \E n \in dfQueue : m[1] = n[1] /\ m[2] = n[2]
    BY <1>6 DEF Bus!DispatchTick
  <2> QED BY <1>0, <2>1, <2>2, RouteShrinks
<1> QED BY <1>1, <1>2, <1>3, <1>4, <1>5, <1>6, BeginDispatchStep, SelectStep, DeliverStep
        DEF Bus!Dispatching

LEMMA RouteStart == ASSUME Bus!Start PROVE RouteInv
<1>1. /\ dfQueue = {} /\ sent = 0 /\ task = [s \in Senders |-> None] /\ dfHeard = {} /\ shunned = {}
  BY DEF Bus!Start
<1>2. Busy = {} /\ DOMAIN task = Senders
  BY <1>1 DEF Busy
<1> QED BY <1>1, <1>2 DEF RouteInv, MessagesApart, ShunnedSpared, OneIsOne

LEMMA RouteStands ==
  ASSUME RouteInv, UNCHANGED Bus!dispatch  PROVE RouteInv'
<1>1. UNCHANGED <<open, dfQueue, sent, task, dfHeard, shunned>>
  BY DEF Bus!dispatch
<1>2. DOMAIN task = Senders
  BY DEF RouteInv, MessagesApart
<1> QED BY <1>1, <1>2, RouteShrinks

LEMMA RouteHolds == ASSUME RouteInv PROVE Bus!RoutedToHealthy
<1>1. ShunnedSpared /\ OneIsOne
  BY DEF RouteInv
<1>2. \A m \in dfQueue : <<m[1], m[2]>> \notin shunned
  BY <1>1 DEF ShunnedSpared
<1>3. \A p \in dfHeard : p \notin shunned
  BY <1>1 DEF ShunnedSpared
<1>4. ASSUME NEW s \in Senders, task[s] # None, task[s].to = "one",
             NEW m \in dfQueue, NEW n \in dfQueue, m[2] = task[s].msg, n[2] = task[s].msg
      PROVE  m[1] = n[1] /\ m[1] \in Capable
  BY <1>1, <1>4 DEF OneIsOne, Busy
<1> QED BY <1>2, <1>3, <1>4 DEF Bus!RoutedToHealthy

\* The voter: who said v, and the two answers that bind.
Voters(v) == {d \in DfDfs : ballot[d] # None /\ ballot[d] = v}
VoteInv ==
  /\ DOMAIN ballot = DfDfs
  /\ "yes" \in answered => Cardinality(Voters(TRUE)) >= Bus!NeedYes
  /\ "no" \in answered => Cardinality(DfDfs) - Cardinality(Voters(FALSE)) < Bus!NeedYes

LEMMA CountIs == ASSUME NEW v PROVE Bus!Count(v) = Cardinality(Voters(v))
<1>1. {d \in DfDfs : ballot[d] # None /\ (ballot[d] # None => ballot[d] = v)} = Voters(v)
  BY DEF Voters
<1>2. Bus!Cardinality(Voters(v)) = Cardinality(Voters(v))
  BY DEF Bus!Cardinality, Cardinality
<1> QED BY <1>1, <1>2 DEF Bus!Count

LEMMA AllDfs == Bus!Cardinality(DfDfs) = Cardinality(DfDfs)
BY DEF Bus!Cardinality, Cardinality

LEMMA NeedIsNumber == Bus!NeedYes \in Int
<1> DEFINE n == Cardinality(DfDfs)
           a == DfHalf.num
           b == DfHalf.den
<1>1. n \in Nat /\ a \in Nat /\ b \in Nat \ {0}
  BY AssumptionsHold, FS_CardinalityType DEF BusAssumption
<1> HIDE DEF n, a, b
<1>2. n * a \in Int
  BY <1>1
<1>3. (n * a + b - 1) \in Int
  BY <1>1, <1>2
<1>4. (n * a + b - 1) \div b \in Int
  BY <1>1, <1>3
<1> DEFINE m == (n * a + b - 1) \div b
<1>5. Bus!NeedYes = IF m < 1 THEN 1 ELSE m
  BY AllDfs DEF Bus!NeedYes, n, a, b
<1> HIDE DEF m
<1> QED BY <1>4, <1>5 DEF m

\* Each DF votes once: the two sides do not overlap.
LEMMA VotersApart ==
  /\ IsFiniteSet(DfDfs) /\ Cardinality(DfDfs) \in Nat
  /\ \A v \in BOOLEAN : /\ Voters(v) \subseteq DfDfs /\ IsFiniteSet(Voters(v))
                        /\ Cardinality(Voters(v)) \in Nat
  /\ Cardinality(Voters(TRUE)) + Cardinality(Voters(FALSE)) <= Cardinality(DfDfs)
<1>1. IsFiniteSet(DfDfs) /\ Cardinality(DfDfs) \in Nat
  BY AssumptionsHold, FS_CardinalityType DEF BusAssumption
<1>2. \A v \in BOOLEAN : Voters(v) \subseteq DfDfs
  BY DEF Voters
<1>3. \A v \in BOOLEAN : IsFiniteSet(Voters(v)) /\ Cardinality(Voters(v)) \in Nat
  BY <1>1, <1>2, FS_Subset, FS_CardinalityType
<1> DEFINE A == Voters(TRUE)
           B == Voters(FALSE)
<1>4. A \cap B = {} /\ A \cup B \subseteq DfDfs /\ IsFiniteSet(A) /\ IsFiniteSet(B)
      /\ Cardinality(A) \in Nat /\ Cardinality(B) \in Nat
  BY <1>2, <1>3 DEF Voters
<1> HIDE DEF A, B
<1>5. Cardinality(A \cup B) = Cardinality(A) + Cardinality(B) - Cardinality(A \cap B)
      /\ IsFiniteSet(A \cup B)
  BY <1>4, FS_Union
<1>6. Cardinality(A \cap B) = 0
  BY <1>4, FS_EmptySet
<1>7. Cardinality(A \cup B) <= Cardinality(DfDfs)
  BY <1>1, <1>4, FS_Subset
<1>8. Cardinality(A) + Cardinality(B) <= Cardinality(DfDfs)
  BY <1>1, <1>4, <1>5, <1>6, <1>7
<1> QED BY <1>1, <1>2, <1>3, <1>8 DEF A, B

LEMMA AnswerIs ==
  /\ Bus!Answer = "yes" <=> Cardinality(Voters(TRUE)) >= Bus!NeedYes
  /\ Bus!Answer = "no" <=> Cardinality(DfDfs) - Cardinality(Voters(FALSE)) < Bus!NeedYes
<1> DEFINE y == Cardinality(Voters(TRUE))
           f == Cardinality(Voters(FALSE))
           n == Cardinality(DfDfs)
           k == Bus!NeedYes
<1>1. y \in Nat /\ f \in Nat /\ n \in Nat /\ k \in Int /\ y + f <= n
  BY VotersApart, NeedIsNumber
<1>2. Bus!Count(TRUE) = y /\ Bus!Count(FALSE) = f /\ Bus!Cardinality(DfDfs) = n
  BY CountIs, AllDfs
<1>3. Bus!Answer = CASE y >= k -> "yes"
                     [] y < k /\ y + (n - y - f) < k -> "no"
                     [] y < k /\ y + (n - y - f) >= k -> IF dfAge > VoteTime THEN "late" ELSE "undecided"
  BY <1>2 DEF Bus!Answer
<1> DEFINE a == Bus!Answer
<1> HIDE DEF y, f, n, k, a
<1>4. ASSUME y >= k PROVE a = "yes"
  <2>1. ~(y < k)
    BY <1>1, <1>4
  <2> QED BY <1>3, <1>4, <2>1 DEF a
<1>5. ASSUME y < k, y + (n - y - f) < k PROVE a = "no"
  <2>1. ~(y >= k) /\ ~(y + (n - y - f) >= k)
    BY <1>1, <1>5
  <2> QED BY <1>3, <1>5, <2>1 DEF a
<1>6. ASSUME y < k, y + (n - y - f) >= k PROVE a # "yes" /\ a # "no"
  <2>1. ~(y >= k) /\ ~(y + (n - y - f) < k)
    BY <1>1, <1>6
  <2>2. a = IF dfAge > VoteTime THEN "late" ELSE "undecided"
    BY <1>3, <1>6, <2>1 DEF a
  <2> QED BY <2>2
<1>7. (a = "yes" <=> y >= k) /\ (a = "no" <=> n - f < k)
  BY <1>1, <1>4, <1>5, <1>6
<1> QED BY <1>7 DEF y, f, n, k, a

LEMMA VoteStart == ASSUME Bus!Start PROVE VoteInv
<1>1. ballot = [d \in DfDfs |-> None] /\ answered = {}
  BY DEF Bus!Start
<1> QED BY <1>1 DEF VoteInv

LEMMA VotersGrow ==
  ASSUME NEW v \in BOOLEAN, Voters(v) \subseteq Voters(v)', Voters(v)' \subseteq DfDfs
  PROVE  /\ Cardinality(Voters(v)) \in Nat /\ Cardinality(Voters(v)') \in Nat
         /\ Cardinality(Voters(v)) <= Cardinality(Voters(v)')
<1>1. IsFiniteSet(Voters(v)')
  BY VotersApart, FS_Subset
<1> QED BY <1>1, FS_Subset, FS_CardinalityType

LEMMA VoteStep == ASSUME VoteInv, Bus!Voting PROVE VoteInv'
<1>1. Bus!NeedYes' = Bus!NeedYes /\ Bus!NeedYes \in Int
  BY NeedIsNumber DEF Bus!NeedYes, Bus!Cardinality
<1>2. Cardinality(DfDfs) \in Nat
  BY VotersApart
<1>3. ASSUME NEW d \in DfDfs, NEW v \in BOOLEAN, Bus!RecordVote(d, v) PROVE VoteInv'
  <2>1. ballot[d] = None /\ ballot' = [ballot EXCEPT ![d] = v] /\ answered' = answered
    BY <1>3 DEF Bus!RecordVote
  <2>2. DOMAIN ballot' = DfDfs /\ \A e \in DfDfs : e # d => ballot'[e] = ballot[e]
    BY <2>1 DEF VoteInv
  <2>3. \A w \in BOOLEAN : Voters(w) \subseteq Voters(w)' /\ Voters(w)' \subseteq DfDfs
    BY <2>1, <2>2 DEF Voters
  <2>4. /\ Cardinality(Voters(TRUE)) \in Nat /\ Cardinality(Voters(TRUE)') \in Nat
        /\ Cardinality(Voters(TRUE)) <= Cardinality(Voters(TRUE)')
    BY <2>3, VotersGrow
  <2>5. /\ Cardinality(Voters(FALSE)) \in Nat /\ Cardinality(Voters(FALSE)') \in Nat
        /\ Cardinality(Voters(FALSE)) <= Cardinality(Voters(FALSE)')
    BY <2>3, VotersGrow
  <2>6. "yes" \in answered => Cardinality(Voters(TRUE)') >= Bus!NeedYes
    <3> DEFINE x == Cardinality(Voters(TRUE))
               z == Cardinality(Voters(TRUE)')
               k == Bus!NeedYes
    <3>1. "yes" \in answered => x >= k
      BY DEF VoteInv
    <3>2. x \in Nat /\ z \in Nat /\ x <= z /\ k \in Int
      BY <1>1, <2>4
    <3> HIDE DEF x, z, k
    <3>3. "yes" \in answered => z >= k
      BY <3>1, <3>2
    <3> QED BY <3>3 DEF z, k
  <2>7. "no" \in answered => Cardinality(DfDfs) - Cardinality(Voters(FALSE)') < Bus!NeedYes
    <3> DEFINE x == Cardinality(Voters(FALSE))
               z == Cardinality(Voters(FALSE)')
               n == Cardinality(DfDfs)
               k == Bus!NeedYes
    <3>1. "no" \in answered => n - x < k
      BY DEF VoteInv
    <3>2. x \in Nat /\ z \in Nat /\ x <= z /\ k \in Int /\ n \in Nat
      BY <1>1, <1>2, <2>5
    <3> HIDE DEF x, z, k, n
    <3>3. "no" \in answered => n - z < k
      BY <3>1, <3>2
    <3> QED BY <3>3 DEF z, k, n
  <2>8. VoteInv' <=> /\ DOMAIN ballot' = DfDfs
                     /\ "yes" \in answered' => Cardinality(Voters(TRUE)') >= Bus!NeedYes'
                     /\ "no" \in answered' => Cardinality(DfDfs) - Cardinality(Voters(FALSE)') < Bus!NeedYes'
    BY DEF VoteInv
  <2> QED BY <1>1, <2>1, <2>2, <2>6, <2>7, <2>8
<1>4. ASSUME ballot' = ballot, answered' = answered \/ answered' = answered \cup {Bus!Answer} PROVE VoteInv'
  <2>1. Voters(TRUE)' = Voters(TRUE) /\ Voters(FALSE)' = Voters(FALSE)
    BY <1>4 DEF Voters
  <2>2. /\ "yes" \in answered' => Cardinality(Voters(TRUE)) >= Bus!NeedYes
        /\ "no" \in answered' => Cardinality(DfDfs) - Cardinality(Voters(FALSE)) < Bus!NeedYes
    BY <1>4, AnswerIs DEF VoteInv
  <2>3. VoteInv' <=> /\ DOMAIN ballot' = DfDfs
                     /\ "yes" \in answered' => Cardinality(Voters(TRUE)') >= Bus!NeedYes'
                     /\ "no" \in answered' => Cardinality(DfDfs) - Cardinality(Voters(FALSE)') < Bus!NeedYes'
    BY DEF VoteInv
  <2> QED BY <1>1, <1>4, <2>1, <2>2, <2>3 DEF VoteInv
<1> QED BY <1>3, <1>4 DEF Bus!Voting, Bus!IsConsensusReached, Bus!VoteTick

LEMMA VoteStands == ASSUME VoteInv, UNCHANGED <<ballot, answered>> PROVE VoteInv'
<1>1. Bus!NeedYes' = Bus!NeedYes
  BY DEF Bus!NeedYes, Bus!Cardinality
<1>2. Voters(TRUE)' = Voters(TRUE) /\ Voters(FALSE)' = Voters(FALSE)
  BY DEF Voters
<1> QED BY <1>1, <1>2 DEF VoteInv

LEMMA VoteHolds == ASSUME VoteInv PROVE Bus!ConsensusFinal
BY AnswerIs DEF VoteInv, Bus!ConsensusFinal

BusInv == RouteInv /\ VoteInv

LEMMA BusStart == ASSUME Bus!Start PROVE BusInv
BY RouteStart, VoteStart DEF BusInv

LEMMA BusStep == ASSUME BusInv, Bus!Next PROVE BusInv'
<1>1. CASE Bus!Dispatching
  <2>1. UNCHANGED <<ballot, answered>>
    BY <1>1 DEF Bus!Dispatching, Bus!vote
  <2> QED BY <1>1, <2>1, DispatchStep, VoteStands DEF BusInv
<1>2. CASE Bus!Voting
  <2>1. UNCHANGED Bus!dispatch
    BY <1>2 DEF Bus!Voting
  <2> QED BY <1>2, <2>1, RouteStands, VoteStep DEF BusInv
<1> QED BY <1>1, <1>2 DEF Bus!Next

LEMMA BusStands == ASSUME BusInv, UNCHANGED busVars PROVE BusInv'
<1>1. UNCHANGED <<ballot, answered>> /\ UNCHANGED Bus!dispatch
  BY DEF busVars, Bus!dispatch
<1> QED BY <1>1, RouteStands, VoteStands DEF BusInv

LEMMA BusHolds == ASSUME BusInv PROVE Bus!RoutedToHealthy /\ Bus!ConsensusFinal
BY RouteHolds, VoteHolds DEF BusInv

-----------------------------------------------------------------------------
(* The Apaleo adapter and its breaker *)

Changes == {"update", "delete"}
Requests == {"create", "read", "update", "delete"}

IsCall(c) ==
  c = [op |-> c.op, then |-> c.then, id |-> c.id, tries |-> c.tries, second |-> c.second]

\* A call that is past the comparison of the hotels, also while it waits for its token.
ActsOn(c) == c.op \in Changes \/ (c.op = "refresh" /\ c.then[1] \in Changes)

\* With B the bookings and n the next number: a booking that id names, now or ever, is t's.
Own(t, id, n, B) == id \in Nat /\ id < n /\ \A b \in B : b[1] = id => b[2] = HotelOf[t]

\* A read of an update or a delete knows what comes next.
Planned(op, then) == op \in Requests /\ (op = "read" /\ then # None => then \in Changes)

CallRight(t, c, n, B) ==
  /\ IsCall(c)
  /\ Planned(c.op, c.then) \/ (c.op = "refresh" /\ Planned(c.then[1], c.then[2]))
  /\ ActsOn(c) => Own(t, c.id, n, B)

BookingsApart ==
  /\ nextId \in Nat
  /\ \A b \in apaleoBookings : b = <<b[1], b[2]>> /\ b[1] \in Nat /\ b[1] < nextId
  /\ \A b, d \in apaleoBookings : b[1] = d[1] => b = d

CallsRight ==
  /\ DOMAIN apaleoCall = ApaleoThreads
  /\ \A t \in ApaleoThreads :
       apaleoCall[t] # None => CallRight(t, apaleoCall[t], nextId, apaleoBookings)

AdapterInv == BookingsApart /\ CallsRight /\ Apaleo!OwnHotelOnly

\* The calls of all but t stay, and what is booked of a number stays or goes.
LEMMA CallBecomes ==
  ASSUME AdapterInv, NEW t \in ApaleoThreads, NEW c, apaleoCall' = [apaleoCall EXCEPT ![t] = c],
         nextId' \in Nat, nextId <= nextId',
         \A b \in apaleoBookings' : b \in apaleoBookings \/ b[1] = nextId,
         c # None => CallRight(t, c, nextId', apaleoBookings')
  PROVE  CallsRight'
<1>1. nextId \in Nat /\ CallsRight
  BY DEF AdapterInv, BookingsApart
<1>2. DOMAIN apaleoCall' = ApaleoThreads
      /\ \A s \in ApaleoThreads : apaleoCall'[s] = IF s = t THEN c ELSE apaleoCall[s]
  BY <1>1 DEF CallsRight
<1>3. ASSUME NEW s, NEW id, Own(s, id, nextId, apaleoBookings)
      PROVE  Own(s, id, nextId', apaleoBookings')
  BY <1>1, <1>3 DEF Own
<1>4. ASSUME NEW s \in ApaleoThreads, s # t, apaleoCall[s] # None
      PROVE  CallRight(s, apaleoCall[s], nextId', apaleoBookings')
  <2>1. CallRight(s, apaleoCall[s], nextId, apaleoBookings)
    BY <1>1, <1>4 DEF CallsRight
  <2> DEFINE d == apaleoCall[s]
  <2>2. Own(s, d.id, nextId, apaleoBookings) => Own(s, d.id, nextId', apaleoBookings')
    BY <1>1, <1>3 DEF Own
  <2> QED BY <2>1, <2>2 DEF CallRight
<1>5. \A s \in ApaleoThreads :
        apaleoCall'[s] # None => CallRight(s, apaleoCall'[s], nextId', apaleoBookings')
  BY <1>2, <1>4
<1> QED BY <1>2, <1>5 DEF CallsRight

\* A call that changes in itself only.
LEMMA CallGoesOn ==
  ASSUME AdapterInv, NEW t \in ApaleoThreads, NEW c, c # None => CallRight(t, c, nextId, apaleoBookings),
         apaleoCall' = [apaleoCall EXCEPT ![t] = c],
         UNCHANGED <<apaleoBookings, nextId, touched>>
  PROVE  AdapterInv'
<1>1. BookingsApart' /\ Apaleo!OwnHotelOnly' /\ nextId \in Nat
  BY DEF AdapterInv, BookingsApart, Apaleo!OwnHotelOnly
<1>3. c # None => CallRight(t, c, nextId', apaleoBookings')
  OBVIOUS
<1>4. nextId' \in Nat /\ nextId <= nextId' /\ \A b \in apaleoBookings' : b \in apaleoBookings \/ b[1] = nextId
  BY <1>1
<1>2. CallsRight'
  BY <1>3, <1>4, CallBecomes
<1> QED BY <1>1, <1>2 DEF AdapterInv

\* What becomes of the record when it begins, is retried, waits for a token and goes on.
LEMMA CallBegins ==
  ASSUME NEW op, NEW then, NEW id, NEW k, NEW b
  PROVE  LET c == [op |-> op, then |-> then, id |-> id, tries |-> k, second |-> b]
         IN  IsCall(c) /\ c.op = op /\ c.then = then /\ c.id = id
BY DEF IsCall

Retried(c, k) == [c EXCEPT !.tries = k]
LEMMA CallRetried ==
  ASSUME NEW c, IsCall(c), NEW k
  PROVE  /\ IsCall(Retried(c, k)) /\ Retried(c, k).op = c.op
         /\ Retried(c, k).then = c.then /\ Retried(c, k).id = c.id
<1>1. PICK o, h, i, n, s : c = [op |-> o, then |-> h, id |-> i, tries |-> n, second |-> s]
  BY DEF IsCall
<1> DEFINE q == Retried(c, k)
<1>2. q = [op |-> o, then |-> h, id |-> i, tries |-> k, second |-> s]
  BY <1>1 DEF Retried
<1>3. c.op = o /\ c.then = h /\ c.id = i
  BY <1>1
<1> HIDE DEF q
<1>4. IsCall(q) /\ q.op = c.op /\ q.then = c.then /\ q.id = c.id
  BY <1>2, <1>3 DEF IsCall
<1> QED BY <1>4 DEF q

Waiting(c, w) == [c EXCEPT !.op = "refresh", !.then = w]
LEMMA CallWaits ==
  ASSUME NEW c, IsCall(c), NEW w
  PROVE  /\ IsCall(Waiting(c, w)) /\ Waiting(c, w).op = "refresh"
         /\ Waiting(c, w).then = w /\ Waiting(c, w).id = c.id
<1>1. PICK o, h, i, n, s : c = [op |-> o, then |-> h, id |-> i, tries |-> n, second |-> s]
  BY DEF IsCall
<1> DEFINE q == Waiting(c, w)
           p == [op |-> "refresh", then |-> h, id |-> i, tries |-> n, second |-> s]
<1>2. [c EXCEPT !.op = "refresh"] = p
  BY <1>1
<1>3. [p EXCEPT !.then = w] = [op |-> "refresh", then |-> w, id |-> i, tries |-> n, second |-> s]
  OBVIOUS
<1> HIDE DEF p
<1>4. q = [[c EXCEPT !.op = "refresh"] EXCEPT !.then = w]
  BY DEF Waiting
<1>5. q = [op |-> "refresh", then |-> w, id |-> i, tries |-> n, second |-> s] /\ c.id = i
  BY <1>1, <1>2, <1>3, <1>4
<1> HIDE DEF q
<1>6. IsCall(q) /\ q.op = "refresh" /\ q.then = w /\ q.id = c.id
  BY <1>5 DEF IsCall
<1> QED BY <1>6 DEF q

Resumed(c, o, w) == [c EXCEPT !.op = o, !.then = w, !.tries = 0, !.second = TRUE]
LEMMA CallResumes ==
  ASSUME NEW c, IsCall(c), NEW o, NEW w
  PROVE  /\ IsCall(Resumed(c, o, w)) /\ Resumed(c, o, w).op = o
         /\ Resumed(c, o, w).then = w /\ Resumed(c, o, w).id = c.id
<1>1. PICK oo, h, i, n, s : c = [op |-> oo, then |-> h, id |-> i, tries |-> n, second |-> s]
  BY DEF IsCall
<1> DEFINE q == Resumed(c, o, w)
<1>2. /\ DOMAIN c = {"op", "then", "id", "tries", "second"}
      /\ c.id = i
  BY <1>1
<1>3. q = [x \in DOMAIN c |-> IF x = "op" THEN o ELSE IF x = "then" THEN w
             ELSE IF x = "tries" THEN 0 ELSE IF x = "second" THEN TRUE ELSE c[x]]
  BY <1>1 DEF Resumed
<1>4. q = [op |-> o, then |-> w, id |-> i, tries |-> 0, second |-> TRUE]
  BY <1>2, <1>3
<1> HIDE DEF q
<1>5. IsCall(q) /\ q.op = o /\ q.then = w /\ q.id = c.id
  BY <1>2, <1>4 DEF IsCall
<1> QED BY <1>5 DEF q

LEMMA CallStarts ==
  ASSUME AdapterInv, NEW t \in ApaleoThreads, NEW op \in {"create", "read"}, NEW then, NEW id,
         op = "read" /\ then # None => then \in Changes, Apaleo!Begin(t, op, then, id)
  PROVE  AdapterInv'
<1> DEFINE c == [op |-> op, then |-> then, id |-> id, tries |-> 0, second |-> FALSE]
<1>1. apaleoCall' = [apaleoCall EXCEPT ![t] = c] /\ UNCHANGED <<apaleoBookings, nextId, touched>>
  BY DEF Apaleo!Begin
<1>2. IsCall(c) /\ c.op = op /\ c.then = then
  BY CallBegins
<1> HIDE DEF c
<1>3. CallRight(t, c, nextId, apaleoBookings)
  BY <1>2 DEF CallRight, ActsOn, Requests, Changes, Planned
<1> QED BY <1>1, <1>3, CallGoesOn

LEMMA RetryStep ==
  ASSUME AdapterInv, NEW t \in ApaleoThreads,
         Apaleo!ServerError(t) \/ Apaleo!Unauthorized(t) \/ Apaleo!RateLimited(t) \/ Apaleo!Refresh(t)
  PROVE  AdapterInv'
<1> DEFINE c == apaleoCall[t]
<1>1. UNCHANGED <<apaleoBookings, nextId, touched>> /\ c # None
  BY DEF Apaleo!ServerError, Apaleo!Unauthorized, Apaleo!RateLimited, Apaleo!Refresh, Apaleo!Running
<1>2. CallRight(t, c, nextId, apaleoBookings)
  BY <1>1 DEF AdapterInv, CallsRight
<1>3. \/ apaleoCall' = [apaleoCall EXCEPT ![t] = None]
      \/ \E k : apaleoCall' = [apaleoCall EXCEPT ![t] = Retried(c, k)]
      \/ /\ c.op \in Requests
         /\ apaleoCall' = [apaleoCall EXCEPT ![t] = Waiting(c, <<c.op, c.then>>)]
      \/ /\ c.op = "refresh"
         /\ apaleoCall' = [apaleoCall EXCEPT ![t] = Resumed(c, c.then[1], c.then[2])]
  <2>1. CASE Apaleo!ServerError(t)
    BY <2>1 DEF Apaleo!ServerError, Apaleo!Return, Retried
  <2>2. CASE Apaleo!Unauthorized(t)
    BY <2>2 DEF Apaleo!Unauthorized, Apaleo!Return, Apaleo!Running, Waiting, Requests
  <2>3. CASE Apaleo!RateLimited(t)
    BY <2>3 DEF Apaleo!RateLimited, Apaleo!Return
  <2>4. CASE Apaleo!Refresh(t)
    BY <2>4 DEF Apaleo!Refresh, Apaleo!Return, Apaleo!Running, Resumed
  <2> QED BY <2>1, <2>2, <2>3, <2>4
<1> HIDE DEF c
<1>4. CASE apaleoCall' = [apaleoCall EXCEPT ![t] = None]
  BY <1>1, <1>4, CallGoesOn
<1>5. ASSUME NEW k, apaleoCall' = [apaleoCall EXCEPT ![t] = Retried(c, k)] PROVE AdapterInv'
  <2> DEFINE q == Retried(c, k)
  <2>1. IsCall(q) /\ q.op = c.op /\ q.then = c.then /\ q.id = c.id
    BY <1>2, CallRetried DEF CallRight
  <2> HIDE DEF q
  <2>2. CallRight(t, q, nextId, apaleoBookings)
    BY <1>2, <2>1 DEF CallRight, ActsOn
  <2>3. apaleoCall' = [apaleoCall EXCEPT ![t] = q]
    BY <1>5 DEF q
  <2> QED BY <1>1, <2>2, <2>3, CallGoesOn
<1>6. ASSUME c.op \in Requests, apaleoCall' = [apaleoCall EXCEPT ![t] = Waiting(c, <<c.op, c.then>>)]
      PROVE  AdapterInv'
  <2> DEFINE q == Waiting(c, <<c.op, c.then>>)
  <2>1. IsCall(q) /\ q.op = "refresh" /\ q.then = <<c.op, c.then>> /\ q.id = c.id
    BY <1>2, CallWaits DEF CallRight
  <2>2. q.then[1] = c.op /\ q.then[2] = c.then
    BY <2>1
  <2> HIDE DEF q
  <2>3. CallRight(t, q, nextId, apaleoBookings)
    BY <1>2, <1>6, <2>1, <2>2 DEF CallRight, ActsOn, Requests, Changes, Planned
  <2>4. apaleoCall' = [apaleoCall EXCEPT ![t] = q]
    BY <1>6 DEF q
  <2> QED BY <1>1, <2>3, <2>4, CallGoesOn
<1>7. ASSUME c.op = "refresh", apaleoCall' = [apaleoCall EXCEPT ![t] = Resumed(c, c.then[1], c.then[2])]
      PROVE  AdapterInv'
  <2> DEFINE q == Resumed(c, c.then[1], c.then[2])
  <2>1. IsCall(q) /\ q.op = c.then[1] /\ q.then = c.then[2] /\ q.id = c.id
    BY <1>2, CallResumes DEF CallRight
  <2> HIDE DEF q
  <2>2. CallRight(t, q, nextId, apaleoBookings)
    BY <1>2, <1>7, <2>1 DEF CallRight, ActsOn, Requests, Changes, Planned
  <2>3. apaleoCall' = [apaleoCall EXCEPT ![t] = q]
    BY <1>7 DEF q
  <2> QED BY <1>1, <2>2, <2>3, CallGoesOn
<1> QED BY <1>3, <1>4, <1>5, <1>6, <1>7

LEMMA ServeStep ==
  ASSUME AdapterInv, NEW t \in ApaleoThreads, Apaleo!Serve(t)  PROVE AdapterInv'
<1> DEFINE c == apaleoCall[t]
           there == \E b \in apaleoBookings : b[1] = c.id
           q == [op |-> c.then, then |-> None, id |-> c.id, tries |-> 0, second |-> FALSE]
<1>1. c # None /\ c.op \in Requests
  BY DEF Apaleo!Serve, Apaleo!Running, Requests
<1>2. CallRight(t, c, nextId, apaleoBookings) /\ BookingsApart /\ Apaleo!OwnHotelOnly
  BY <1>1 DEF AdapterInv, CallsRight
<1>3. CASE c.op = "create"
  <2>1. /\ apaleoBookings' = apaleoBookings \cup {<<nextId, HotelOf[t]>>} /\ nextId' = nextId + 1
        /\ apaleoCall' = [apaleoCall EXCEPT ![t] = None] /\ UNCHANGED touched
    BY <1>3 DEF Apaleo!Serve, Apaleo!Return
  <2>2. BookingsApart'
    BY <1>2, <2>1 DEF BookingsApart
  <2>3. nextId' \in Nat /\ nextId <= nextId' /\ \A b \in apaleoBookings' : b \in apaleoBookings \/ b[1] = nextId
    BY <1>2, <2>1 DEF BookingsApart
  <2>4. CallsRight'
    BY <2>1, <2>3, CallBecomes
  <2> QED BY <1>2, <2>1, <2>2, <2>4 DEF AdapterInv, Apaleo!OwnHotelOnly
<1>4. CASE c.op = "read"
  <2>1. UNCHANGED <<apaleoBookings, nextId, touched>>
    BY <1>4 DEF Apaleo!Serve
  <2>2. \/ apaleoCall' = [apaleoCall EXCEPT ![t] = None]
        \/ there /\ c.then # None /\ <<c.id, HotelOf[t]>> \in apaleoBookings
           /\ apaleoCall' = [apaleoCall EXCEPT ![t] = q]
    BY <1>4 DEF Apaleo!Serve, Apaleo!Return
  <2>3. CASE apaleoCall' = [apaleoCall EXCEPT ![t] = None]
    BY <2>1, <2>3, CallGoesOn
  <2>4. CASE c.then # None /\ <<c.id, HotelOf[t]>> \in apaleoBookings /\ apaleoCall' = [apaleoCall EXCEPT ![t] = q]
    <3>1. IsCall(q) /\ q.op = c.then /\ q.then = None /\ q.id = c.id
      BY CallBegins
    <3>2. Own(t, c.id, nextId, apaleoBookings)
      <4>1. PICK b \in apaleoBookings : b = <<c.id, HotelOf[t]>>
        BY <2>4
      <4>2. b[1] = c.id /\ b[2] = HotelOf[t]
        BY <4>1
      <4> QED BY <1>2, <4>1, <4>2 DEF Own, BookingsApart
    <3>3. c.then \in Changes
      BY <1>2, <1>4, <2>4 DEF CallRight, Planned
    <3>4. apaleoCall' = [apaleoCall EXCEPT ![t] = q]
      BY <2>4
    <3> HIDE DEF c, q
    <3>5. CallRight(t, q, nextId, apaleoBookings)
      BY <3>1, <3>2, <3>3 DEF CallRight, Planned, Changes, Requests
    <3> QED BY <2>1, <3>4, <3>5, CallGoesOn
  <2> QED BY <2>2, <2>3, <2>4
<1>5. CASE c.op \in Changes
  <2>1. /\ nextId' = nextId /\ apaleoBookings' \subseteq apaleoBookings
        /\ apaleoCall' = [apaleoCall EXCEPT ![t] = None]
        /\ touched' = IF there THEN touched \cup {<<t, Apaleo!Hotel(c.id)>>} ELSE touched
    BY <1>5 DEF Apaleo!Serve, Apaleo!Return, Changes
  <2>2. there => Apaleo!Hotel(c.id) = HotelOf[t]
    <3> SUFFICES ASSUME there PROVE Apaleo!Hotel(c.id) = HotelOf[t]
      OBVIOUS
    <3>1. PICK b \in apaleoBookings : b[1] = c.id
      OBVIOUS
    <3>2. b = <<c.id, HotelOf[t]>>
      BY <1>2, <1>5, <3>1 DEF CallRight, ActsOn, Own, BookingsApart
    <3> DEFINE H == {d[2] : d \in apaleoBookings}
               h == HotelOf[t]
    <3>3. h \in H /\ <<c.id, h>> \in apaleoBookings
      BY <3>1, <3>2
    <3>4. \A g \in H : <<c.id, g>> \in apaleoBookings => g = h
      BY <1>2, <3>1, <3>2 DEF BookingsApart
    <3> HIDE DEF H, h
    <3>5. (CHOOSE g \in H : <<c.id, g>> \in apaleoBookings) = h
      BY <3>3, <3>4
    <3> QED BY <3>5 DEF Apaleo!Hotel, H, h
  <2>3. Apaleo!OwnHotelOnly'
    BY <1>2, <2>1, <2>2 DEF Apaleo!OwnHotelOnly
  <2>4. BookingsApart'
    BY <1>2, <2>1 DEF BookingsApart
  <2>5. nextId' \in Nat /\ nextId <= nextId' /\ \A b \in apaleoBookings' : b \in apaleoBookings \/ b[1] = nextId
    BY <1>2, <2>1 DEF BookingsApart
  <2>6. CallsRight'
    BY <2>1, <2>5, CallBecomes
  <2> QED BY <2>3, <2>4, <2>6 DEF AdapterInv
<1> QED BY <1>1, <1>3, <1>4, <1>5 DEF Requests, Changes

LEMMA AdapterStep ==
  ASSUME AdapterInv, Apaleo!Adapter  PROVE AdapterInv'
<1>1. ASSUME NEW t \in ApaleoThreads, Apaleo!CreateBooking(t) PROVE AdapterInv'
  BY <1>1, CallStarts DEF Apaleo!CreateBooking
<1>2. ASSUME NEW t \in ApaleoThreads, NEW id,
             Apaleo!ReadBooking(t, id) \/ Apaleo!UpdateBooking(t, id) \/ Apaleo!DeleteBooking(t, id)
      PROVE  AdapterInv'
  BY <1>2, CallStarts DEF Apaleo!ReadBooking, Apaleo!UpdateBooking, Apaleo!DeleteBooking, Changes
<1>3. CASE Apaleo!Expire
  <2>1. UNCHANGED <<apaleoBookings, nextId, apaleoCall, touched>>
    BY <1>3 DEF Apaleo!Expire
  <2> QED BY <2>1 DEF AdapterInv, BookingsApart, CallsRight, Apaleo!OwnHotelOnly
<1> QED BY <1>1, <1>2, <1>3, RetryStep, ServeStep DEF Apaleo!Adapter

BreakerInv ==
  /\ failures \in Nat /\ streak = failures
  /\ failures >= ApaleoThreshold => apaleoState # "closed"

LEMMA BreakerStep == ASSUME BreakerInv, Apaleo!Breaker PROVE BreakerInv'
<1>1. ApaleoThreshold \in Nat \ {0}
  BY AssumptionsHold DEF ApaleoAssumption
<1>2. ASSUME NEW t \in ApaleoThreads, Apaleo!Enter(t) PROVE BreakerInv'
  BY <1>2 DEF BreakerInv, Apaleo!Enter
<1>3. ASSUME NEW t \in ApaleoThreads, Apaleo!Fail(t) PROVE BreakerInv'
  BY <1>1, <1>3 DEF BreakerInv, Apaleo!Fail, Apaleo!Trips
<1>4. ASSUME NEW t \in ApaleoThreads, Apaleo!Succeed(t) PROVE BreakerInv'
  BY <1>1, <1>4 DEF BreakerInv, Apaleo!Succeed
<1>5. CASE Apaleo!Reset \/ Apaleo!Wait
  BY <1>1, <1>5 DEF BreakerInv, Apaleo!Reset, Apaleo!Wait
<1> QED BY <1>2, <1>3, <1>4, <1>5 DEF Apaleo!Breaker

ApaleoInv == AdapterInv /\ BreakerInv

LEMMA ApaleoStart == ASSUME Apaleo!Start PROVE ApaleoInv
<1>1. ApaleoThreshold \in Nat \ {0}
  BY AssumptionsHold DEF ApaleoAssumption
<1>2. BreakerInv
  BY <1>1 DEF Apaleo!Start, BreakerInv
<1>3. BookingsApart /\ CallsRight /\ Apaleo!OwnHotelOnly
  BY DEF Apaleo!Start, BookingsApart, CallsRight, Apaleo!OwnHotelOnly
<1> QED BY <1>2, <1>3 DEF ApaleoInv, AdapterInv

LEMMA ApaleoStep == ASSUME ApaleoInv, Apaleo!Next PROVE ApaleoInv'
<1>1. CASE Apaleo!Adapter
  BY <1>1, AdapterStep DEF ApaleoInv, Apaleo!Adapter, Apaleo!breaker, BreakerInv
<1>2. CASE Apaleo!Breaker
  <2>1. UNCHANGED <<apaleoBookings, nextId, apaleoCall, touched>>
    BY <1>2 DEF Apaleo!Breaker, Apaleo!adapter
  <2>2. AdapterInv'
    BY <2>1 DEF ApaleoInv, AdapterInv, BookingsApart, CallsRight, Apaleo!OwnHotelOnly
  <2> QED BY <1>2, <2>2, BreakerStep DEF ApaleoInv
<1> QED BY <1>1, <1>2 DEF Apaleo!Next

LEMMA ApaleoStands == ASSUME ApaleoInv, UNCHANGED apaleoVars PROVE ApaleoInv'
BY DEF apaleoVars, ApaleoInv, AdapterInv, BookingsApart, CallsRight, BreakerInv, Apaleo!OwnHotelOnly

LEMMA ApaleoHolds == ASSUME ApaleoInv PROVE Apaleo!OwnHotelOnly /\ Apaleo!OpensAtThreshold
BY DEF ApaleoInv, AdapterInv, BreakerInv, Apaleo!OpensAtThreshold

-----------------------------------------------------------------------------
(* Averages and their deviation *)

\* A series of values; the drift of one value, in the unit of Deviation; and the bound that a
\* percentage sets to it.
Series(ser) == /\ Len(ser) \in Nat \ {0} /\ DOMAIN ser = 1..Len(ser)
               /\ \A i \in DOMAIN ser : ser[i].value \in Int
Drift(v) == (v - setpoint) * 100000
Bound(pct) == pct * Homeo!Scale
SetpointRight == setpoint \in Int /\ (engine \notin {"metric", "slots"} => setpoint >= 0)

LEMMA HomeoLimits == /\ Setpoints \subseteq Int /\ Values \subseteq Int /\ HomeoWindow \in Nat \ {0}
                     /\ HomeoHalf \in Int /\ Mild \in Int /\ HomeoCritical \in Int
                     /\ 0 < Mild /\ Mild < HomeoCritical
BY AssumptionsHold DEF HomeoAssumption

LEMMA ScalePositive == ASSUME SetpointRight PROVE Homeo!Scale \in Int /\ Homeo!Scale > 0
<1> DEFINE a == IF setpoint < 0 THEN -setpoint ELSE setpoint
<1>1. a \in Int /\ (setpoint # 0 => a > 0)
  BY DEF SetpointRight
<1>2. Homeo!Size(setpoint) = a
  BY DEF Homeo!Size, Homeo!Abs
<1> HIDE DEF a
<1>3. CASE engine = "metric"
  BY <1>1, <1>2, <1>3 DEF SetpointRight, Homeo!Scale
<1>4. CASE engine = "slots"
  BY <1>4 DEF Homeo!Scale
<1>5. CASE engine = "allocation"
  BY <1>5 DEF Homeo!Scale
<1>6. CASE engine \notin {"metric", "slots", "allocation"}
  <2>1. Homeo!Scale = IF setpoint = 0 THEN 1 ELSE 1000 * setpoint
    BY <1>6 DEF Homeo!Scale
  <2> QED BY <1>6, <2>1 DEF SetpointRight
<1> QED BY <1>3, <1>4, <1>5, <1>6

LEMMA BoundIsInt == ASSUME SetpointRight, NEW pct \in Int
                    PROVE  Bound(pct) \in Int /\ (pct > 0 => Bound(pct) > 0)
<1> DEFINE k == Homeo!Scale
<1>1. k \in Int /\ k > 0
  BY ScalePositive
<1> HIDE DEF k
<1>2. pct * k \in Int /\ (pct > 0 => pct * k > 0)
  BY <1>1
<1> QED BY <1>2 DEF Bound, k

LEMMA BoundsOrdered ==
  ASSUME SetpointRight
  PROVE  0 < Bound(Mild) /\ Bound(Mild) < Bound(HomeoCritical)
<1> DEFINE k == Homeo!Scale
           m == Mild
           c == HomeoCritical
<1>1. k \in Int /\ k > 0 /\ m \in Int /\ c \in Int /\ 0 < m /\ m < c
  BY ScalePositive, HomeoLimits
<1> HIDE DEF k, m, c
<1>2. m * k > 0 /\ (c - m) * k > 0 /\ (c - m) * k = c * k - m * k /\ m * k \in Int /\ c * k \in Int
  BY <1>1
<1> QED BY <1>2 DEF Bound, k, m, c

LEMMA SumIs ==
  ASSUME NEW ser, Series(ser)
  PROVE  /\ Homeo!Sum(ser) = SumOver(Homeo!Held(ser), DOMAIN ser)
         /\ DOMAIN Homeo!Held(ser) = DOMAIN ser
         /\ \A i \in DOMAIN ser : Homeo!Held(ser)[i] = ser[i].value
         /\ IsFiniteSet(DOMAIN ser) /\ Cardinality(DOMAIN ser) = Len(ser)
         /\ Homeo!Sum(ser) \in Int
<1>1. DOMAIN Homeo!Held(ser) = DOMAIN ser /\ \A i \in DOMAIN ser : Homeo!Held(ser)[i] = ser[i].value
  BY DEF Homeo!Held
<1>2. IsFiniteSet(DOMAIN ser) /\ Cardinality(DOMAIN ser) = Len(ser)
  BY UpTo DEF Series
<1> DEFINE f == Homeo!Held(ser)
           S == DOMAIN ser
<1>3. Homeo!SumFunction(f) = SumOver(f, DOMAIN f)
  BY DEF Homeo!SumFunction, Homeo!SumFunctionOnSet, Homeo!FoldFunctionOnSet, Homeo!MapThenFoldSet, SumOver
<1>4. Homeo!Sum(ser) = SumOver(f, S)
  BY <1>1, <1>3 DEF Homeo!Sum
<1>5. \A i \in S : f[i] \in Int
  BY <1>1 DEF Series
<1> HIDE DEF f, S
<1>6. SumOver(f, S) \in Int
  BY <1>2, <1>5, SumIsInt DEF S
<1> QED BY <1>1, <1>2, <1>4, <1>6 DEF f, S

LEMMA DeviationIs ==
  ASSUME SetpointRight, NEW ser, Series(ser)
  PROVE  /\ Homeo!Deviation(ser) = (Homeo!Sum(ser) - Len(ser) * setpoint) * 100000
         /\ Homeo!Deviation(ser) \in Int
         /\ \A pct \in Int : Homeo!Limit(pct, ser) = Bound(pct) * Len(ser)
<1> DEFINE k == Homeo!Scale
           n == Len(ser)
           s == Homeo!Sum(ser)
<1>1. k \in Int /\ k > 0 /\ n \in Nat /\ s \in Int /\ setpoint \in Int
  BY ScalePositive, SumIs DEF Series, SetpointRight
<1>2. Homeo!Deviation(ser) = (IF k < 0 THEN -(s - n * setpoint) ELSE s - n * setpoint) * 100000
  BY DEF Homeo!Deviation, Homeo!Offset, Homeo!Count
<1>3. \A pct : Homeo!Limit(pct, ser) = pct * n * (IF k < 0 THEN -k ELSE k)
  BY DEF Homeo!Limit, Homeo!Abs, Homeo!Count
<1>4. \A pct : Bound(pct) = pct * k
  BY DEF Bound
<1> HIDE DEF k, n, s
<1>5. n * setpoint \in Int
  BY <1>1
<1>6. Homeo!Deviation(ser) = (s - n * setpoint) * 100000
  BY <1>1, <1>2
<1>7. (s - n * setpoint) * 100000 \in Int
  BY <1>1, <1>5
<1>8. \A pct \in Int : pct * n * k = pct * k * n
  BY <1>1
<1>9. \A pct \in Int : Homeo!Limit(pct, ser) = Bound(pct) * n
  BY <1>1, <1>3, <1>4, <1>8
<1> QED BY <1>6, <1>7, <1>9 DEF n, s

\* The deviation of the mean lies where the drifts of the values lie.
LEMMA MeanAbove ==
  ASSUME SetpointRight, NEW ser, Series(ser), NEW c \in Int, \A i \in DOMAIN ser : Drift(ser[i].value) >= c
  PROVE  Homeo!Deviation(ser) >= c * Len(ser)
<1> DEFINE f == Homeo!Held(ser)
           S == DOMAIN ser
           n == Len(ser)
           s == Homeo!Sum(ser)
           a == 100000
           b == c + a * setpoint
<1>1. setpoint \in Int /\ n \in Nat /\ s \in Int /\ b \in Int
  <2>1. s \in Int
    BY SumIs, Zenon
  <2>2. setpoint \in Int /\ n \in Nat
    BY Zenon DEF Series, SetpointRight
  <2> QED BY <2>1, <2>2
<1>2. ASSUME NEW i \in S PROVE f[i] \in Int /\ a * f[i] >= b
  <2> DEFINE v == f[i]
  <2>1. v = ser[i].value /\ v \in Int
    BY SumIs DEF Series
  <2>2. (v - setpoint) * 100000 >= c
    BY <2>1 DEF Drift
  <2> HIDE DEF v
  <2>3. a * v >= b
    BY <1>1, <2>1, <2>2
  <2> QED BY <2>1, <2>3 DEF v
<1>3. IsFiniteSet(S) /\ Cardinality(S) = n /\ s = SumOver(f, S)
  BY SumIs
<1>4. Homeo!Deviation(ser) = (s - n * setpoint) * 100000
  BY DeviationIs
<1> HIDE DEF f, S, n, s, a, b
<1>5. a * SumOver(f, S) >= b * Cardinality(S)
  <2>1. a \in Int
    BY DEF a
  <2> QED BY <1>1, <1>2, <1>3, <2>1, SumAtLeast
<1>6. a * s >= b * n
  BY <1>3, <1>5
<1>7. b * n = c * n + 100000 * (n * setpoint) /\ n * setpoint \in Int /\ c * n \in Int
  BY <1>1 DEF a, b
<1>8. (s - n * setpoint) * 100000 >= c * n
  BY <1>1, <1>6, <1>7 DEF a
<1> QED BY <1>4, <1>8 DEF n

LEMMA MeanBelow ==
  ASSUME SetpointRight, NEW ser, Series(ser), NEW c \in Int, \A i \in DOMAIN ser : Drift(ser[i].value) <= c
  PROVE  Homeo!Deviation(ser) <= c * Len(ser)
<1> DEFINE f == Homeo!Held(ser)
           S == DOMAIN ser
           n == Len(ser)
           s == Homeo!Sum(ser)
           b == -c - 100000 * setpoint
           a == -100000
<1>1. setpoint \in Int /\ n \in Nat /\ s \in Int /\ b \in Int /\ a \in Int
  BY SumIs DEF Series, SetpointRight
<1>2. ASSUME NEW i \in S PROVE f[i] \in Int /\ a * f[i] >= b
  <2> DEFINE v == f[i]
  <2>1. v = ser[i].value /\ v \in Int
    BY SumIs DEF Series
  <2>2. (v - setpoint) * 100000 <= c
    BY <2>1 DEF Drift
  <2> HIDE DEF v
  <2>3. a * v >= b
    BY <1>1, <2>1, <2>2
  <2> QED BY <2>1, <2>3 DEF v
<1>3. IsFiniteSet(S) /\ Cardinality(S) = n /\ s = SumOver(f, S)
  BY SumIs
<1>4. Homeo!Deviation(ser) = (s - n * setpoint) * 100000
  BY DeviationIs
<1> HIDE DEF f, S, n, s, b, a
<1>5. a * SumOver(f, S) >= b * Cardinality(S)
  BY <1>1, <1>2, <1>3, SumAtLeast
<1>6. a * s >= b * n
  BY <1>3, <1>5
<1>7. b * n = -(c * n) - 100000 * (n * setpoint) /\ n * setpoint \in Int /\ c * n \in Int
  BY <1>1 DEF b
<1>8. (s - n * setpoint) * 100000 <= c * n
  BY <1>1, <1>6, <1>7 DEF a
<1> QED BY <1>4, <1>8 DEF n

LEMMA FarIs ==
  ASSUME SetpointRight, NEW ser, Series(ser)
  PROVE  LET x == Homeo!Deviation(ser)  n == Len(ser)  IN
         /\ x \in Int
         /\ \A pct \in Int :
              /\ Bound(pct) * n \in Int
              /\ Homeo!AtLeast(pct, ser) <=> (x >= Bound(pct) * n \/ -x >= Bound(pct) * n)
              /\ Homeo!Beyond(pct, ser) <=> (x > Bound(pct) * n \/ -x > Bound(pct) * n)
         /\ 0 < Bound(Mild) * n
         /\ Homeo!AtLeast(HomeoCritical, ser) => Homeo!AtLeast(Mild, ser) /\ Homeo!Beyond(Mild, ser)
<1> DEFINE x == Homeo!Deviation(ser)
           n == Len(ser)
           m == Bound(Mild)
           c == Bound(HomeoCritical)
<1>1. x \in Int /\ n \in Nat /\ n > 0
  BY DeviationIs DEF Series
<1>2. m \in Int /\ c \in Int /\ 0 < m /\ m < c
  BY HomeoLimits, BoundIsInt, BoundsOrdered
<1>3. ASSUME NEW pct \in Int
      PROVE  /\ Bound(pct) * n \in Int
             /\ Homeo!AtLeast(pct, ser) <=> (x >= Bound(pct) * n \/ -x >= Bound(pct) * n)
             /\ Homeo!Beyond(pct, ser) <=> (x > Bound(pct) * n \/ -x > Bound(pct) * n)
  <2> DEFINE b == Bound(pct)
             d == b * n
  <2>1. b \in Int
    BY BoundIsInt
  <2>2. /\ Homeo!AtLeast(pct, ser) <=> (IF x < 0 THEN -x ELSE x) >= d
        /\ Homeo!Beyond(pct, ser) <=> (IF x < 0 THEN -x ELSE x) > d
    BY DeviationIs DEF Homeo!AtLeast, Homeo!Beyond, Homeo!Abs
  <2> HIDE DEF b, x, n
  <2>3. d \in Int
    BY <1>1, <2>1
  <2> HIDE DEF d
  <2>4. /\ Homeo!AtLeast(pct, ser) <=> (x >= d \/ -x >= d)
        /\ Homeo!Beyond(pct, ser) <=> (x > d \/ -x > d)
    BY <1>1, <2>2, <2>3 DEF d
  <2> QED BY <2>3, <2>4 DEF d, b
<1>4. Mild \in Int /\ HomeoCritical \in Int
  BY HomeoLimits
<1> HIDE DEF x, n, m, c
<1>5. m * n > 0 /\ (c - m) * n > 0 /\ (c - m) * n = c * n - m * n /\ m * n \in Int /\ c * n \in Int
  BY <1>1, <1>2
<1>6. Homeo!AtLeast(HomeoCritical, ser) => Homeo!AtLeast(Mild, ser) /\ Homeo!Beyond(Mild, ser)
  <2>1. Homeo!AtLeast(HomeoCritical, ser) <=> (x >= c * n \/ -x >= c * n)
    BY <1>3, <1>4 DEF c
  <2>2. /\ Homeo!AtLeast(Mild, ser) <=> (x >= m * n \/ -x >= m * n)
        /\ Homeo!Beyond(Mild, ser) <=> (x > m * n \/ -x > m * n)
    BY <1>3, <1>4 DEF m
  <2> QED BY <1>1, <1>5, <2>1, <2>2
<1> QED BY <1>1, <1>3, <1>5, <1>6 DEF x, n, m

\* What the seven classifications have in common.
CriticalOf(ser) ==
  Homeo!AtLeast(HomeoCritical, ser) /\ (engine = "df-health" => Homeo!Deviation(ser) < 0)
NormalOf(ser) ==
  /\ engine # "velocity" /\ (engine = "df-health" => Homeo!Deviation(ser) < 0) => ~Homeo!AtLeast(Mild, ser)
  /\ engine \in {"family", "royalty", "df-health"} => ~Homeo!AtLeast(HomeoHalf, ser)
  /\ engine = "velocity" => /\ ~Homeo!AtLeast(HomeoCritical, ser)
                            /\ ~Homeo!Beyond(Mild, ser) /\ ~Homeo!Beyond(HomeoHalf, ser)

ClassOf(ser, st, alarm) ==
  /\ st = "critical" <=> CriticalOf(ser) \/ alarm
  /\ st = "normal" <=> NormalOf(ser) /\ ~alarm
  /\ st = "high" => Homeo!Deviation(ser) > 0
  /\ st = "low" => Homeo!Deviation(ser) < 0

LEMMA ClassifyIs ==
  ASSUME SetpointRight, NEW ser, Series(ser), engine \in Homeo!Engines, NEW blocked \in BOOLEAN
  PROVE  ClassOf(ser, Homeo!Classify(ser, blocked), engine = "velocity" /\ blocked)
<1> DEFINE x == Homeo!Deviation(ser)
           n == Len(ser)
           m == Bound(Mild) * n
           M == Homeo!AtLeast(Mild, ser)
           C == Homeo!AtLeast(HomeoCritical, ser)
           H == Homeo!AtLeast(HomeoHalf, ser)
           N == Homeo!Beyond(Mild, ser)
           G == Homeo!Beyond(HomeoHalf, ser)
           side == Homeo!Side(ser)
<1>1. x \in Int /\ m \in Int /\ 0 < m /\ (C => M /\ N)
  BY FarIs, HomeoLimits
<1>2. (M <=> x >= m \/ -x >= m) /\ (N <=> x > m \/ -x > m)
  BY FarIs, HomeoLimits
<1>3. side = IF x > 0 THEN "high" ELSE "low"
  BY DEF Homeo!Side
<1>4. ser # <<>>
  BY DEF Series
<1>5. Homeo!ThreeStates(ser) = IF C THEN "critical" ELSE IF M THEN side ELSE "normal"
  BY DEF Homeo!ThreeStates
<1>6. Homeo!WithMild(ser) = IF C THEN "critical" ELSE IF M THEN side ELSE IF H THEN "mild" ELSE "normal"
  BY <1>3, <1>5 DEF Homeo!WithMild
<1>7. Homeo!OneSided(ser) = IF x < 0 /\ C THEN "critical" ELSE IF x < 0 /\ M THEN "low"
                            ELSE IF H THEN "mild" ELSE "normal"
  BY <1>1 DEF Homeo!OneSided
<1>8. Homeo!WithBlocked(ser, blocked) = IF C \/ blocked THEN "critical" ELSE IF N THEN side
                                        ELSE IF G THEN "mild" ELSE "normal"
  BY <1>1 DEF Homeo!WithBlocked
<1> DEFINE st == Homeo!Classify(ser, blocked)
<1>9. /\ engine \in {"metric", "slots", "allocation"} => st = Homeo!ThreeStates(ser)
      /\ engine \in {"family", "royalty"} => st = Homeo!WithMild(ser)
      /\ engine = "df-health" => st = Homeo!OneSided(ser)
      /\ engine = "velocity" => st = Homeo!WithBlocked(ser, blocked)
  BY <1>4 DEF Homeo!Classify, Homeo!Engines
<1>10. /\ CriticalOf(ser) <=> C /\ (engine = "df-health" => x < 0)
       /\ NormalOf(ser) <=> /\ engine # "velocity" /\ (engine = "df-health" => x < 0) => ~M
                            /\ engine \in {"family", "royalty", "df-health"} => ~H
                            /\ engine = "velocity" => ~C /\ ~N /\ ~G
  BY DEF CriticalOf, NormalOf
<1> HIDE DEF x, m, n, M, C, H, N, G, side, st
<1>11. CASE engine \in {"metric", "slots", "allocation"}
  <2>1. st = IF C THEN "critical" ELSE IF M THEN side ELSE "normal"
    BY <1>5, <1>9, <1>11
  <2> QED BY <1>1, <1>2, <1>3, <1>10, <1>11, <2>1 DEF ClassOf, st, x
<1>12. CASE engine \in {"family", "royalty"}
  <2>1. st = IF C THEN "critical" ELSE IF M THEN side ELSE IF H THEN "mild" ELSE "normal"
    BY <1>6, <1>9, <1>12
  <2> QED BY <1>1, <1>2, <1>3, <1>10, <1>12, <2>1 DEF ClassOf, st, x
<1>13. CASE engine = "df-health"
  <2>1. st = IF x < 0 /\ C THEN "critical" ELSE IF x < 0 /\ M THEN "low" ELSE IF H THEN "mild" ELSE "normal"
    BY <1>7, <1>9, <1>13
  <2> QED BY <1>1, <1>2, <1>3, <1>10, <1>13, <2>1 DEF ClassOf, st, x
<1>14. CASE engine = "velocity"
  <2>1. st = IF C \/ blocked THEN "critical" ELSE IF N THEN side ELSE IF G THEN "mild" ELSE "normal"
    BY <1>8, <1>9, <1>14
  <2> QED BY <1>1, <1>2, <1>3, <1>10, <1>14, <2>1 DEF ClassOf, st, x
<1> QED BY <1>11, <1>12, <1>13, <1>14 DEF Homeo!Engines

\* One value alone.
One(v) == <<[subject |-> None, value |-> v]>>

LEMMA OneIs ==
  ASSUME SetpointRight, NEW v \in Int
  PROVE  Series(One(v)) /\ Len(One(v)) = 1 /\ Homeo!Deviation(One(v)) = Drift(v) /\ Drift(v) \in Int
<1> DEFINE q == One(v)
<1>1. Len(q) = 1 /\ DOMAIN q = 1..1 /\ \A i \in DOMAIN q : q[i].value = v
  BY DEF One
<1> HIDE DEF q
<1>2. Series(q)
  BY <1>1 DEF Series
<1>3. Drift(v) \in Int
  BY DEF Drift, SetpointRight
<1>4. \A i \in DOMAIN q : Drift(q[i].value) = Drift(v)
  BY <1>1
<1> DEFINE c == Drift(v)
<1>5. c \in Int /\ (\A i \in DOMAIN q : Drift(q[i].value) >= c) /\ (\A i \in DOMAIN q : Drift(q[i].value) <= c)
  BY <1>3, <1>4
<1> HIDE DEF c
<1>6. Homeo!Deviation(q) >= c * Len(q) /\ Homeo!Deviation(q) <= c * Len(q) /\ Homeo!Deviation(q) \in Int
  BY <1>2, <1>5, MeanAbove, MeanBelow, DeviationIs
<1>7. Homeo!Deviation(q) = c
  BY <1>1, <1>5, <1>6
<1> QED BY <1>1, <1>2, <1>3, <1>7 DEF q, c

\* Values that are near, each alone, are near in the mean.
LEMMA MeanNotFar ==
  ASSUME SetpointRight, NEW ser, Series(ser), NEW pct \in Int
  PROVE  /\ (\A i \in DOMAIN ser : ~Homeo!AtLeast(pct, One(ser[i].value))) => ~Homeo!AtLeast(pct, ser)
         /\ (\A i \in DOMAIN ser : ~Homeo!Beyond(pct, One(ser[i].value))) => ~Homeo!Beyond(pct, ser)
<1> DEFINE x == Homeo!Deviation(ser)
           n == Len(ser)
           b == Bound(pct)
           d(i) == Drift(ser[i].value)
<1>1. x \in Int /\ n \in Nat /\ n > 0 /\ b \in Int
  <2>1. x \in Int
    BY DeviationIs
  <2>2. n \in Nat /\ n > 0
    BY DEF Series
  <2>3. b \in Int
    BY BoundIsInt
  <2> QED BY <2>1, <2>2, <2>3
<1>2. /\ Homeo!AtLeast(pct, ser) <=> (x >= b * n \/ -x >= b * n)
      /\ Homeo!Beyond(pct, ser) <=> (x > b * n \/ -x > b * n)
  BY FarIs
<1>3. ASSUME NEW i \in DOMAIN ser
      PROVE  /\ d(i) \in Int
             /\ Homeo!AtLeast(pct, One(ser[i].value)) <=> (d(i) >= b \/ -d(i) >= b)
             /\ Homeo!Beyond(pct, One(ser[i].value)) <=> (d(i) > b \/ -d(i) > b)
  <2> DEFINE q == One(ser[i].value)
  <2>1. Series(q) /\ Len(q) = 1 /\ Homeo!Deviation(q) = d(i) /\ d(i) \in Int
    BY OneIs DEF Series
  <2> HIDE DEF q, d
  <2>2. /\ Homeo!AtLeast(pct, q) <=> (d(i) >= b * 1 \/ -d(i) >= b * 1)
        /\ Homeo!Beyond(pct, q) <=> (d(i) > b * 1 \/ -d(i) > b * 1)
    BY <2>1, FarIs
  <2>3. b * 1 = b
    BY <1>1
  <2> QED BY <2>1, <2>2, <2>3 DEF q
<1>4. \A c \in Int : (\A i \in DOMAIN ser : d(i) >= c) => x >= c * n
  BY MeanAbove
<1>5. \A c \in Int : (\A i \in DOMAIN ser : d(i) <= c) => x <= c * n
  BY MeanBelow
<1> HIDE DEF x, n, b, d
<1>6. b * n \in Int
  BY <1>1
<1>7. ASSUME \A i \in DOMAIN ser : ~Homeo!AtLeast(pct, One(ser[i].value)) PROVE ~Homeo!AtLeast(pct, ser)
  <2> DEFINE c == b - 1
             e == 1 - b
  <2>1. \A i \in DOMAIN ser : d(i) <= c /\ d(i) >= e
    BY <1>1, <1>3, <1>7
  <2>2. c \in Int /\ e \in Int
    BY <1>1
  <2>3. c * n = b * n - n /\ e * n = n - b * n
    BY <1>1
  <2> HIDE DEF c, e
  <2>4. x <= c * n /\ x >= e * n
    BY <1>4, <1>5, <2>1, <2>2
  <2> QED BY <1>1, <1>2, <1>6, <2>3, <2>4
<1>8. ASSUME \A i \in DOMAIN ser : ~Homeo!Beyond(pct, One(ser[i].value)) PROVE ~Homeo!Beyond(pct, ser)
  <2> DEFINE e == -b
  <2>1. \A i \in DOMAIN ser : d(i) <= b /\ d(i) >= e
    BY <1>1, <1>3, <1>8
  <2>2. e \in Int /\ e * n = -(b * n)
    BY <1>1
  <2> HIDE DEF e
  <2>4. x <= b * n /\ x >= e * n
    BY <1>1, <1>4, <1>5, <2>1, <2>2
  <2> QED BY <1>1, <1>2, <1>6, <2>2, <2>4
<1> QED BY <1>7, <1>8

LEMMA MeanNotLow ==
  ASSUME SetpointRight, NEW ser, Series(ser),
         \A i \in DOMAIN ser : Homeo!Deviation(One(ser[i].value)) < 0
                                 => ~Homeo!AtLeast(Mild, One(ser[i].value))
  PROVE  Homeo!Deviation(ser) < 0 => ~Homeo!AtLeast(Mild, ser)
<1> DEFINE x == Homeo!Deviation(ser)
           n == Len(ser)
           b == Bound(Mild)
           d(i) == Drift(ser[i].value)
           e == 1 - b
<1>1. x \in Int /\ n \in Nat /\ n > 0 /\ b \in Int /\ b > 0 /\ b * n > 0 /\ b * n \in Int
  <2>1. x \in Int
    BY DeviationIs
  <2>2. n \in Nat /\ n > 0
    BY DEF Series
  <2>3. b \in Int /\ b > 0
    BY BoundIsInt, HomeoLimits
  <2> HIDE DEF b, n, x
  <2>4. b * n > 0 /\ b * n \in Int
    BY <2>2, <2>3
  <2> QED BY <2>1, <2>2, <2>3, <2>4
<1>2. Homeo!AtLeast(Mild, ser) <=> (x >= b * n \/ -x >= b * n)
  BY FarIs, HomeoLimits
<1>3. ASSUME NEW i \in DOMAIN ser PROVE d(i) >= e
  <2> DEFINE q == One(ser[i].value)
  <2>1. Series(q) /\ Len(q) = 1 /\ Homeo!Deviation(q) = d(i) /\ d(i) \in Int
    BY OneIs DEF Series
  <2>0. d(i) < 0 => ~Homeo!AtLeast(Mild, q)
    BY <2>1
  <2> HIDE DEF q, d
  <2>2. Homeo!AtLeast(Mild, q) <=> (d(i) >= b * 1 \/ -d(i) >= b * 1)
    BY <2>1, FarIs, HomeoLimits
  <2>3. b * 1 = b
    BY <1>1
  <2> QED BY <1>1, <2>0, <2>1, <2>2, <2>3
<1>4. (\A i \in DOMAIN ser : d(i) >= e) /\ e \in Int
  BY <1>1, <1>3
<1>5. e * n = n - b * n
  BY <1>1
<1> HIDE DEF b, e
<1>6. x >= e * n
  BY <1>4, MeanAbove
<1> HIDE DEF x, n, d
<1> QED BY <1>1, <1>2, <1>5, <1>6 DEF x

LEMMA MeanNormal ==
  ASSUME SetpointRight, NEW ser, Series(ser), \A i \in DOMAIN ser : NormalOf(One(ser[i].value))
  PROVE  NormalOf(ser)
<1>1. Mild \in Int /\ HomeoCritical \in Int /\ HomeoHalf \in Int
  BY HomeoLimits
<1>2. CASE engine = "velocity"
  <2>1. \A i \in DOMAIN ser : /\ ~Homeo!AtLeast(HomeoCritical, One(ser[i].value))
                              /\ ~Homeo!Beyond(Mild, One(ser[i].value))
                              /\ ~Homeo!Beyond(HomeoHalf, One(ser[i].value))
    BY <1>2 DEF NormalOf
  <2>2. ~Homeo!AtLeast(HomeoCritical, ser) /\ ~Homeo!Beyond(Mild, ser) /\ ~Homeo!Beyond(HomeoHalf, ser)
    BY <1>1, <2>1, MeanNotFar
  <2> QED BY <1>2, <2>2 DEF NormalOf
<1>3. CASE engine = "df-health"
  <2>1. \A i \in DOMAIN ser : /\ ~Homeo!AtLeast(HomeoHalf, One(ser[i].value))
                              /\ Homeo!Deviation(One(ser[i].value)) < 0
                                   => ~Homeo!AtLeast(Mild, One(ser[i].value))
    BY <1>3 DEF NormalOf
  <2>2. ~Homeo!AtLeast(HomeoHalf, ser)
    BY <1>1, <2>1, MeanNotFar
  <2>3. Homeo!Deviation(ser) < 0 => ~Homeo!AtLeast(Mild, ser)
    BY <2>1, MeanNotLow
  <2> QED BY <1>3, <2>2, <2>3 DEF NormalOf
<1>4. CASE engine \notin {"velocity", "df-health"}
  <2>1. \A i \in DOMAIN ser : /\ ~Homeo!AtLeast(Mild, One(ser[i].value))
                              /\ engine \in {"family", "royalty"} => ~Homeo!AtLeast(HomeoHalf, One(ser[i].value))
    BY <1>4 DEF NormalOf
  <2>2. ~Homeo!AtLeast(Mild, ser)
    BY <1>1, <2>1, MeanNotFar
  <2>3. engine \in {"family", "royalty"} => ~Homeo!AtLeast(HomeoHalf, ser)
    BY <1>1, <2>1, MeanNotFar
  <2> QED BY <1>4, <2>2, <2>3 DEF NormalOf
<1> QED BY <1>2, <1>3, <1>4

LEMMA MeanCritical ==
  ASSUME SetpointRight, NEW ser, Series(ser), \A i \in DOMAIN ser : CriticalOf(One(ser[i].value)),
         (\A i \in DOMAIN ser : ser[i].value > setpoint) \/ (\A i \in DOMAIN ser : ser[i].value < setpoint)
  PROVE  CriticalOf(ser)
<1> DEFINE x == Homeo!Deviation(ser)
           n == Len(ser)
           b == Bound(HomeoCritical)
           v(i) == ser[i].value
           d(i) == Drift(v(i))
<1>0. HomeoCritical \in Int /\ Mild \in Int /\ setpoint \in Int
  BY HomeoLimits DEF SetpointRight
<1>1. x \in Int /\ n \in Nat /\ n > 0 /\ b \in Int /\ b > 0 /\ DOMAIN ser = 1..n
  <2>1. x \in Int
    BY DeviationIs
  <2>2. n \in Nat /\ n > 0 /\ DOMAIN ser = 1..n
    BY DEF Series
  <2>3. HomeoCritical \in Int /\ HomeoCritical > 0
    BY HomeoLimits
  <2>4. b \in Int /\ b > 0
    BY <2>3, BoundIsInt
  <2> QED BY <2>1, <2>2, <2>4
<1>2. Homeo!AtLeast(HomeoCritical, ser) <=> (x >= b * n \/ -x >= b * n)
  BY FarIs, <1>0
<1>3. ASSUME NEW i \in DOMAIN ser
      PROVE  /\ d(i) \in Int /\ d(i) = (v(i) - setpoint) * 100000 /\ v(i) \in Int
             /\ d(i) >= b \/ -d(i) >= b
             /\ engine = "df-health" => d(i) < 0
  <2> DEFINE q == One(ser[i].value)
  <2>1. Series(q) /\ Len(q) = 1 /\ Homeo!Deviation(q) = d(i) /\ d(i) \in Int /\ v(i) \in Int
    BY OneIs DEF Series
  <2>0. CriticalOf(q) /\ d(i) = (v(i) - setpoint) * 100000
    BY DEF Drift
  <2> HIDE DEF q, d
  <2>2. Homeo!AtLeast(HomeoCritical, q) <=> (d(i) >= b * 1 \/ -d(i) >= b * 1)
    BY <1>0, <2>1, FarIs
  <2>3. b * 1 = b
    BY <1>1
  <2> QED BY <1>1, <2>0, <2>1, <2>2, <2>3 DEF CriticalOf
<1>4. \A c \in Int : (\A i \in DOMAIN ser : d(i) >= c) => x >= c * n
  BY MeanAbove
<1>5. \A c \in Int : (\A i \in DOMAIN ser : d(i) <= c) => x <= c * n
  BY MeanBelow
<1>6. (\A i \in DOMAIN ser : v(i) > setpoint) \/ (\A i \in DOMAIN ser : v(i) < setpoint)
  OBVIOUS
<1> HIDE DEF x, n, b, d, v
<1>7. b * n \in Int /\ b * n > 0
  BY <1>1
<1>8. CASE \A i \in DOMAIN ser : v(i) > setpoint
  <2>1. \A i \in DOMAIN ser : d(i) >= b /\ d(i) > 0
    BY <1>0, <1>1, <1>3, <1>8
  <2>2. x >= b * n
    BY <1>1, <1>4, <2>1
  <2>3. \E i \in DOMAIN ser : d(i) \in Int /\ d(i) > 0 /\ (engine = "df-health" => d(i) < 0)
    <3>1. (n - n) + 1 \in DOMAIN ser
      BY <1>1
    <3> QED BY <1>3, <2>1, <3>1
  <2>4. engine # "df-health"
    BY <2>3
  <2> QED BY <1>2, <2>2, <2>4 DEF CriticalOf
<1>9. CASE \A i \in DOMAIN ser : v(i) < setpoint
  <2> DEFINE e == -b
  <2>1. \A i \in DOMAIN ser : d(i) <= e
    BY <1>0, <1>1, <1>3, <1>9
  <2>2. e \in Int /\ e * n = -(b * n)
    BY <1>1
  <2> HIDE DEF e
  <2>3. x <= e * n
    BY <1>5, <2>1, <2>2
  <2>4. -x >= b * n /\ x < 0
    BY <1>1, <1>7, <2>2, <2>3
  <2> QED BY <1>2, <2>4 DEF CriticalOf, x
<1> QED BY <1>6, <1>8, <1>9

-----------------------------------------------------------------------------
(* Decisions *)

Measured == [subject : HomeoSubjects, value : Int]
DirectedRight(d) ==
  /\ d.state = "high" => Homeo!Total(d) > Len(d.from) * setpoint
  /\ d.state = "low"  => Homeo!Total(d) < Len(d.from) * setpoint
AlarmRight(d) ==
  LET vs == Homeo!Range(d.from)
  IN  /\ (/\ \A v \in vs : Homeo!Alone(v, "critical")
          /\ (\A v \in vs : v > setpoint) \/ (\A v \in vs : v < setpoint)) => d.state = "critical"
      /\ (\A v \in vs : Homeo!Alone(v, "normal")) /\ ~d.blocked => d.state = "normal"
Decides(d) == d.from # <<>> => DirectedRight(d) /\ AlarmRight(d)

HomeoInv ==
  /\ SetpointRight
  /\ samples \in Seq(Measured)
  /\ decision # None => Decides(decision)

LEMMA DecidedRight ==
  ASSUME SetpointRight, engine \in Homeo!Engines, NEW ser \in Seq(Measured), NEW blocked \in BOOLEAN
  PROVE  Decides(Homeo!Decided(ser, blocked))
<1> DEFINE d == Homeo!Decided(ser, blocked)
           st == Homeo!Classify(ser, blocked)
           f == Homeo!Held(ser)
           n == Len(ser)
<1>1. d.from = f /\ d.blocked = blocked /\ d.state = st
  BY DEF Homeo!Decided
<1>2. n \in Nat /\ DOMAIN ser = 1..n /\ \A i \in 1..n : ser[i] \in Measured
  BY LenProperties, ElementOfSeq
<1>3. f = [i \in 1..n |-> ser[i].value] /\ \A i \in 1..n : ser[i].value \in Int
  BY <1>2 DEF Homeo!Held, Measured
<1> HIDE DEF n, f, d, st
<1>4. f \in [1..n -> Int] /\ f \in Seq(Int) /\ Len(f) = n
  BY <1>2, <1>3
<1>5. SUFFICES ASSUME f # <<>> PROVE DirectedRight(d) /\ AlarmRight(d)
  BY <1>1 DEF Decides, d
<1>6. n \in Nat \ {0}
  BY <1>4, <1>5, EmptySeq
<1>7. Series(ser)
  BY <1>2, <1>3, <1>6 DEF Series, n
<1>8. ClassOf(ser, st, engine = "velocity" /\ blocked)
  BY <1>7, ClassifyIs DEF st
<1>9. DirectedRight(d)
  <2> DEFINE s == Homeo!Sum(ser)
             x == Homeo!Deviation(ser)
  <2>1. x = (s - n * setpoint) * 100000 /\ s \in Int /\ setpoint \in Int
    BY <1>7, SumIs, DeviationIs DEF n, SetpointRight
  <2>2. Homeo!Total(d) = s /\ Len(d.from) = n
    BY <1>1, <1>4 DEF Homeo!Total, Homeo!Sum, f
  <2>3. (st = "high" => x > 0) /\ (st = "low" => x < 0)
    BY <1>8 DEF ClassOf
  <2> HIDE DEF s, x
  <2>4. n * setpoint \in Int
    BY <1>2, <2>1
  <2>5. (st = "high" => s > n * setpoint) /\ (st = "low" => s < n * setpoint)
    BY <2>1, <2>3, <2>4
  <2> QED BY <1>1, <2>2, <2>5 DEF DirectedRight
<1>10. ASSUME NEW i \in DOMAIN ser
       PROVE  LET v == ser[i].value IN
              /\ v \in Homeo!Range(f) /\ v \in Int
              /\ Homeo!Alone(v, "critical") <=> CriticalOf(One(v))
              /\ Homeo!Alone(v, "normal") <=> NormalOf(One(v))
  <2> DEFINE v == ser[i].value
  <2>1. v \in Int /\ f[i] = v /\ i \in DOMAIN f
    BY <1>2, <1>3
  <2>2. v \in Homeo!Range(f)
    BY <2>1 DEF Homeo!Range
  <2>3. Series(One(v))
    BY <2>1, OneIs
  <2>4. ClassOf(One(v), Homeo!Classify(One(v), FALSE), FALSE)
    <3>1. ClassOf(One(v), Homeo!Classify(One(v), FALSE), engine = "velocity" /\ FALSE)
      BY <2>3, ClassifyIs
    <3>2. (engine = "velocity" /\ FALSE) = FALSE
      OBVIOUS
    <3> QED BY <3>1, <3>2
  <2>5. \A c : Homeo!Alone(v, c) <=> Homeo!Classify(One(v), FALSE) = c
    BY DEF Homeo!Alone, One
  <2> QED BY <2>1, <2>2, <2>4, <2>5 DEF ClassOf
<1>11. AlarmRight(d)
  <2>1. ASSUME \A v \in Homeo!Range(f) : Homeo!Alone(v, "critical"),
               (\A v \in Homeo!Range(f) : v > setpoint) \/ (\A v \in Homeo!Range(f) : v < setpoint)
        PROVE  st = "critical"
    <3>1. \A i \in DOMAIN ser : CriticalOf(One(ser[i].value))
      BY <1>10, <2>1
    <3>2. (\A i \in DOMAIN ser : ser[i].value > setpoint) \/ (\A i \in DOMAIN ser : ser[i].value < setpoint)
      BY <1>10, <2>1
    <3>3. CriticalOf(ser)
      BY <1>7, <3>1, <3>2, MeanCritical
    <3> QED BY <1>8, <3>3 DEF ClassOf
  <2>2. ASSUME \A v \in Homeo!Range(f) : Homeo!Alone(v, "normal"), ~blocked PROVE st = "normal"
    <3>1. \A i \in DOMAIN ser : NormalOf(One(ser[i].value))
      BY <1>10, <2>2
    <3>2. NormalOf(ser)
      BY <1>7, <3>1, MeanNormal
    <3> QED BY <1>8, <2>2, <3>2 DEF ClassOf
  <2> QED BY <1>1, <2>1, <2>2 DEF AlarmRight
<1> QED BY <1>9, <1>11

LEMMA SelectIsPicked ==
  ASSUME NEW ser \in Seq(Measured), NEW I, I \subseteq DOMAIN ser
  PROVE  Picked(ser, I) \in Seq(Measured)
BY PickedIs

LEMMA RelevantIs ==
  ASSUME NEW s, NEW ser \in Seq(Measured)
  PROVE  Homeo!Relevant(s, ser) \in Seq(Measured)
<1> DEFINE I == {i \in DOMAIN ser :
                  (engine \in {"slots", "velocity", "df-health", "royalty", "allocation"} /\ s # None)
                    => ser[i].subject = s}
<1>1. Homeo!Relevant(s, ser) = Picked(ser, I)
  BY DEF Homeo!Relevant, Homeo!Select, Picked, Place, RankIn, Homeo!Cardinality, Cardinality
<1>2. I \subseteq DOMAIN ser
  OBVIOUS
<1> HIDE DEF I
<1> QED BY <1>1, <1>2, SelectIsPicked

LEMMA RecordedIs ==
  ASSUME samples \in Seq(Measured), NEW x \in Measured
  PROVE  Homeo!Recorded(x) \in Seq(Measured)
<1> DEFINE D == Homeo!SameDeque(x.subject)
           n == Len(samples)
           o == CHOOSE i \in D : \A j \in D : i <= j
           harder == SubSeq(samples, 1, o - 1)
           after == SubSeq(samples, o + 1, n)
<1>1. n \in Nat /\ DOMAIN samples = 1..n /\ \A i \in 1..n : samples[i] \in Measured
  BY LenProperties, ElementOfSeq
<1>2. D \subseteq 1..n
  BY <1>1 DEF Homeo!SameDeque
<1>3. Homeo!Recorded(x) = IF Cardinality(D) < HomeoWindow THEN Append(samples, x)
                          ELSE Append(harder \o after, x)
  BY DEF Homeo!Recorded, Homeo!Cardinality, Cardinality
<1> HIDE DEF D, n
<1>4. CASE Cardinality(D) < HomeoWindow
  BY <1>3, <1>4
<1>5. CASE ~(Cardinality(D) < HomeoWindow)
  <2>1. D # {}
    <3>1. D = {} => Cardinality(D) = 0
      BY FS_EmptySet
    <3> QED BY <1>5, <3>1, HomeoLimits
  <2>2. o \in 1..n
    <3>1. D \subseteq Nat
      BY <1>1, <1>2
    <3>2. \E i \in D : \A j \in D : i <= j
      BY <2>1, <3>1, LeastOf
    <3>3. o \in D
      BY <3>2
    <3> QED BY <1>2, <3>3
  <2> HIDE DEF o
  <2> DEFINE a == 1
             b == o - 1
             c == o + 1
  <2>3. a \in Int /\ b \in Int /\ c \in Int /\ n \in Int
        /\ (\A i \in a..b : i \in 1..n) /\ \A i \in c..n : i \in 1..n
    BY <1>1, <2>2
  <2>4. harder = SubSeq(samples, a, b) /\ after = SubSeq(samples, c, n)
    OBVIOUS
  <2> HIDE DEF a, b, c, harder, after
  <2>5. harder \in Seq(Measured) /\ after \in Seq(Measured)
    BY <1>1, <2>3, <2>4, SubSeqProperties
  <2>6. harder \o after \in Seq(Measured)
    BY <2>5, ConcatProperties
  <2>7. Append(harder \o after, x) \in Seq(Measured)
    BY <2>6, AppendProperties
  <2> QED BY <1>3, <1>5, <2>7 DEF harder, after
<1> QED BY <1>4, <1>5

LEMMA HomeoStart == ASSUME Homeo!Start PROVE HomeoInv
<1>1. setpoint \in Setpoints /\ Homeo!Legal(setpoint) /\ samples = <<>> /\ decision = None
  BY DEF Homeo!Start
<1>2. SetpointRight
  BY <1>1, HomeoLimits DEF Homeo!Legal, SetpointRight
<1>3. samples \in Seq(Measured)
  BY <1>1, EmptySeq
<1> QED BY <1>1, <1>2, <1>3 DEF HomeoInv

\* What is said of a decision rests on the class and its setpoint, which stay.
LEMMA AloneStays ==
  ASSUME UNCHANGED <<engine, setpoint>>, NEW v, NEW c
  PROVE  Homeo!Alone(v, c)' <=> Homeo!Alone(v, c)
<1>1. Homeo!Scale' = Homeo!Scale
  BY DEF Homeo!Scale, Homeo!Size, Homeo!Abs
<1>2. ASSUME NEW ser, NEW pct
      PROVE  /\ Homeo!Deviation(ser)' = Homeo!Deviation(ser)
             /\ Homeo!Limit(pct, ser)' = Homeo!Limit(pct, ser)
  BY <1>1 DEF Homeo!Deviation, Homeo!Offset, Homeo!Sum, Homeo!Count, Homeo!Limit, Homeo!Abs, Homeo!Held
<1>3. ASSUME NEW ser, NEW pct
      PROVE  /\ Homeo!AtLeast(pct, ser)' <=> Homeo!AtLeast(pct, ser)
             /\ Homeo!Beyond(pct, ser)' <=> Homeo!Beyond(pct, ser)
  BY <1>2 DEF Homeo!AtLeast, Homeo!Beyond, Homeo!Abs
<1>4. ASSUME NEW ser PROVE Homeo!Side(ser)' = Homeo!Side(ser)
  BY <1>2 DEF Homeo!Side
<1>5. ASSUME NEW ser PROVE Homeo!ThreeStates(ser)' = Homeo!ThreeStates(ser)
  BY <1>3, <1>4 DEF Homeo!ThreeStates
<1>6. ASSUME NEW ser
      PROVE  /\ Homeo!WithMild(ser)' = Homeo!WithMild(ser) /\ Homeo!OneSided(ser)' = Homeo!OneSided(ser)
             /\ \A b : Homeo!WithBlocked(ser, b)' = Homeo!WithBlocked(ser, b)
  BY <1>2, <1>3, <1>4, <1>5 DEF Homeo!WithMild, Homeo!OneSided, Homeo!WithBlocked
<1>7. ASSUME NEW ser, NEW b PROVE Homeo!Classify(ser, b)' = Homeo!Classify(ser, b)
  BY <1>5, <1>6 DEF Homeo!Classify
<1> QED BY <1>7 DEF Homeo!Alone

\* Nothing but the samples and the decision matters.
LEMMA HomeoMoves ==
  ASSUME HomeoInv, UNCHANGED <<engine, setpoint>>, samples' \in Seq(Measured),
         decision' # None => Decides(decision')
  PROVE  HomeoInv'
<1>1. SetpointRight'
  BY DEF HomeoInv, SetpointRight
<1>2. decision' # None => Decides(decision)'
  BY AloneStays DEF Decides, DirectedRight, AlarmRight, Homeo!Total
<1> QED BY <1>1, <1>2 DEF HomeoInv

LEMMA HomeoStands == ASSUME HomeoInv, engine' = engine, UNCHANGED homeoVars PROVE HomeoInv'
BY HomeoMoves DEF homeoVars, HomeoInv

LEMMA EvaluateRight ==
  ASSUME HomeoInv, engine' = engine, engine \in Homeo!Engines, NEW s, Homeo!Evaluate(s)
  PROVE  HomeoInv'
<1>1. /\ decision' = Homeo!Decided(Homeo!Relevant(s, samples), FALSE)
      /\ UNCHANGED <<engine, setpoint, samples>>
  BY DEF Homeo!Evaluate
<1>2. SetpointRight /\ samples \in Seq(Measured)
  BY DEF HomeoInv
<1>3. Decides(decision')
  BY <1>1, <1>2, RelevantIs, DecidedRight
<1> QED BY <1>1, <1>2, <1>3, HomeoMoves

LEMMA RecordSampleRight ==
  ASSUME HomeoInv, engine' = engine, engine \in Homeo!Engines,
         NEW s \in HomeoSubjects, NEW v \in Values, NEW b \in BOOLEAN, Homeo!RecordSample(s, v, b)
  PROVE  HomeoInv'
<1> DEFINE x == [subject |-> s, value |-> v]
           new == Homeo!Recorded(x)
<1>1. samples' = new /\ UNCHANGED <<engine, setpoint>>
  BY DEF Homeo!RecordSample
<1>2. decision' = Homeo!Decided(Homeo!Relevant(s, samples'), b)
  BY DEF Homeo!RecordSample
<1>3. SetpointRight /\ samples \in Seq(Measured) /\ x \in Measured
  BY HomeoLimits DEF HomeoInv, Measured
<1> HIDE DEF x
<1>4. new \in Seq(Measured)
  BY <1>3, RecordedIs
<1> HIDE DEF new
<1>5. Homeo!Relevant(s, samples') = Homeo!Relevant(s, new)
  BY <1>1
<1>6. Decides(decision')
  BY <1>2, <1>3, <1>4, <1>5, RelevantIs, DecidedRight
<1> QED BY <1>1, <1>4, <1>6, HomeoMoves

LEMMA RecordRight ==
  ASSUME HomeoInv, engine' = engine, NEW s \in HomeoSubjects, NEW v \in Values, Homeo!Record(s, v)
  PROVE  HomeoInv'
<1> DEFINE x == [subject |-> s, value |-> v]
<1>1. samples' = Homeo!Recorded(x) /\ decision' = None /\ UNCHANGED <<engine, setpoint>>
  BY DEF Homeo!Record
<1>2. samples \in Seq(Measured) /\ x \in Measured
  BY HomeoLimits DEF HomeoInv, Measured
<1> HIDE DEF x
<1> QED BY <1>1, <1>2, RecordedIs, HomeoMoves

LEMMA ResetTeamRight ==
  ASSUME HomeoInv, engine' = engine, NEW s, Homeo!ResetTeam(s)  PROVE HomeoInv'
<1> DEFINE I == {i \in DOMAIN samples : samples[i].subject # s}
<1>1. samples' = Picked(samples, I)
  BY DEF Homeo!ResetTeam, Homeo!Select, Picked, Place, RankIn, Homeo!Cardinality, Cardinality
<1>2. decision' = None /\ UNCHANGED <<engine, setpoint>> /\ samples \in Seq(Measured)
  BY DEF Homeo!ResetTeam, HomeoInv
<1>3. I \subseteq DOMAIN samples
  OBVIOUS
<1> HIDE DEF I
<1> QED BY <1>1, <1>2, <1>3, SelectIsPicked, HomeoMoves

LEMMA HomeoStep == ASSUME HomeoInv, engine' = engine, Homeo!Next PROVE HomeoInv'
<1>1. ASSUME NEW s \in HomeoSubjects, NEW v \in Values,
             Homeo!RecordMetric(s, v) \/ Homeo!RecordGovernance(s, v) \/ Homeo!RecordAllocation(s, v)
      PROVE  HomeoInv'
  BY <1>1, RecordRight DEF Homeo!RecordMetric, Homeo!RecordGovernance, Homeo!RecordAllocation
<1>2. ASSUME NEW s \in HomeoSubjects, NEW v \in Values,
             Homeo!RecordLoad(s, v) \/ Homeo!RecordHealth(s, v) \/ Homeo!RecordRoyalty(s, v)
      PROVE  HomeoInv'
  BY <1>2, RecordSampleRight DEF Homeo!RecordLoad, Homeo!RecordHealth, Homeo!RecordRoyalty, Homeo!Engines
<1>3. ASSUME NEW s \in HomeoSubjects, NEW v \in Values, NEW b \in BOOLEAN, Homeo!RecordVelocity(s, v, b)
      PROVE  HomeoInv'
  BY <1>3, RecordSampleRight DEF Homeo!RecordVelocity, Homeo!Engines
<1>4. ASSUME NEW s \in HomeoSubjects, Homeo!EvaluateSlot(s) \/ Homeo!ResetTeam(s) PROVE HomeoInv'
  BY <1>4, EvaluateRight, ResetTeamRight DEF Homeo!EvaluateSlot, Homeo!Engines
<1>5. CASE Homeo!EvaluateMetric \/ Homeo!EvaluateAllSlots \/ Homeo!EvaluateAllocation
  BY <1>5, EvaluateRight DEF Homeo!EvaluateMetric, Homeo!EvaluateAllSlots, Homeo!EvaluateAllocation, Homeo!Engines
<1>6. CASE (\E st \in Homeo!States : Homeo!RegisterAction(st)) \/ Homeo!PublishCritical \/ Homeo!Reset
  <2>1. decision' = None /\ UNCHANGED <<engine, setpoint>> /\ (samples' = samples \/ samples' = <<>>)
    BY <1>6 DEF Homeo!RegisterAction, Homeo!PublishCritical, Homeo!Reset
  <2>2. samples' \in Seq(Measured)
    BY <2>1, EmptySeq DEF HomeoInv
  <2> QED BY <2>1, <2>2, HomeoMoves
<1> QED BY <1>1, <1>2, <1>3, <1>4, <1>5, <1>6 DEF Homeo!Next

LEMMA HomeoHolds == ASSUME HomeoInv PROVE Homeo!DirectionRight /\ Homeo!AlarmsSound
<1>1. Homeo!DirectionRight
  BY DEF HomeoInv, Decides, DirectedRight, Homeo!DirectionRight, Homeo!Mean
<1>2. Homeo!AlarmsSound
  BY DEF HomeoInv, Decides, AlarmRight, Homeo!AlarmsSound, Homeo!Mean
<1> QED BY <1>1, <1>2
-----------------------------------------------------------------------------
\* What the keepers decide.
KeepersDecide ==
  /\ Faults!ScenarioKnown /\ Shards!ProtectedPodsLive
  /\ Signal!LoneDfNeverActs /\ Signal!BestKept
  /\ Over!FailoverForCause /\ Over!CircuitForCause
  /\ Roll!WholeAndNone /\ Roll!EmergencyHolds /\ Roll!RolledBackForGood /\ Roll!OverrideKept
  /\ Bus!RoutedToHealthy /\ Bus!ConsensusFinal
  /\ Apaleo!OwnHotelOnly /\ Apaleo!OpensAtThreshold
  /\ Homeo!DirectionRight /\ Homeo!AlarmsSound

\* Traffic, shares, votes, bookings, drifts: the invariants of the classes that act at a limit.
TrafficInv == OverInv /\ RollInv /\ BusInv /\ ApaleoInv /\ HomeoInv

LEMMA TrafficStart == KeepersInit => TrafficInv
BY OverStart, RollStart, BusStart, ApaleoStart, HomeoStart DEF KeepersInit, TrafficInv

LEMMA TrafficStep ==
  ASSUME TrafficInv, [KeepersNext]_keepersVars  PROVE TrafficInv'
<1>1. engine' = engine
  BY DEF KeepersNext, keepersVars
<1>2. (Over!Next \/ UNCHANGED overVars) /\ (Roll!Next \/ UNCHANGED rollVars)
      /\ (Bus!Next \/ UNCHANGED busVars) /\ (Apaleo!Next \/ UNCHANGED apaleoVars)
      /\ (Homeo!Next \/ UNCHANGED homeoVars)
  BY DEF KeepersNext, keepersVars
<1>3. OverInv'
  BY <1>1, <1>2, OverStep, OverStands DEF TrafficInv
<1>4. RollInv'
  BY <1>1, <1>2, RollStep, RollStands DEF TrafficInv
<1>5. BusInv'
  BY <1>2, BusStep, BusStands DEF TrafficInv
<1>6. ApaleoInv'
  BY <1>2, ApaleoStep, ApaleoStands DEF TrafficInv
<1>7. HomeoInv'
  BY <1>1, <1>2, HomeoStep, HomeoStands DEF TrafficInv
<1> QED BY <1>3, <1>4, <1>5, <1>6, <1>7 DEF TrafficInv

LEMMA TrafficInvariant == KeepersSpec => []TrafficInv
BY TrafficStart, TrafficStep, PTL DEF KeepersSpec

LEMMA TrafficHolds ==
  ASSUME TrafficInv
  PROVE  /\ Over!FailoverForCause /\ Over!CircuitForCause
         /\ Roll!WholeAndNone /\ Roll!EmergencyHolds
         /\ Roll!RolledBackForGood /\ Roll!OverrideKept
         /\ Bus!RoutedToHealthy /\ Bus!ConsensusFinal
         /\ Apaleo!OwnHotelOnly /\ Apaleo!OpensAtThreshold
         /\ Homeo!DirectionRight /\ Homeo!AlarmsSound
<1>1. Over!FailoverForCause /\ Over!CircuitForCause
  BY OverHolds DEF TrafficInv
<1>2. Roll!WholeAndNone /\ Roll!EmergencyHolds /\ Roll!RolledBackForGood /\ Roll!OverrideKept
  BY DEF TrafficInv, RollInv
<1>3. Bus!RoutedToHealthy /\ Bus!ConsensusFinal
  BY BusHolds DEF TrafficInv
<1>4. Apaleo!OwnHotelOnly /\ Apaleo!OpensAtThreshold
  BY ApaleoHolds DEF TrafficInv
<1>5. Homeo!DirectionRight /\ Homeo!AlarmsSound
  BY HomeoHolds DEF TrafficInv
<1> QED BY <1>1, <1>2, <1>3, <1>4, <1>5

LEMMA DecidedStart == KeepersInit => OutcomesInv /\ SlainInv /\ GateInv /\ PopulationInv
<1> SUFFICES ASSUME KeepersInit PROVE OutcomesInv /\ SlainInv /\ GateInv /\ PopulationInv
  OBVIOUS
<1>1. SlainInv
  BY DEF KeepersInit, Shards!Start, SlainInv
<1> QED BY <1>1, OutcomesStart, GateStart, PopulationStart DEF KeepersInit

LEMMA DecidedStep ==
  ASSUME KeepersInv, OutcomesInv, SlainInv, GateInv, PopulationInv, [KeepersNext]_keepersVars
  PROVE  (OutcomesInv /\ SlainInv /\ GateInv /\ PopulationInv)'
<1>1. engine' = engine
  BY DEF KeepersNext, keepersVars
<1>2. (Faults!Next \/ UNCHANGED faultsVars) /\ (Shards!Next \/ UNCHANGED shardsVars)
      /\ (Signal!Next \/ UNCHANGED signalVars)
  BY DEF KeepersNext, keepersVars
<1>3. OutcomesInv'
  <2>1. CASE Faults!Next
    BY <1>1, <2>1, OutcomesStep DEF KeepersInv
  <2>2. CASE UNCHANGED faultsVars
    BY <1>1, <2>2 DEF faultsVars, OutcomesInv, IdsOf
  <2> QED BY <1>2, <2>1, <2>2
<1>4. SlainInv'
  <2>1. CASE Shards!Next
    BY <1>1, <2>1, SlainStep
  <2>2. CASE UNCHANGED shardsVars
    BY <1>1, <2>2 DEF shardsVars, SlainInv
  <2> QED BY <1>2, <2>1, <2>2
<1>5. GateInv'
  <2>1. CASE Signal!Next
    BY <1>1, <2>1, GateStep
  <2>2. CASE UNCHANGED signalVars
    BY <1>1, <2>2 DEF signalVars, GateInv
  <2> QED BY <1>2, <2>1, <2>2
<1>6. PopulationInv'
  <2>1. CASE Signal!Next
    BY <1>1, <2>1, PopulationStep
  <2>2. CASE UNCHANGED signalVars
    BY <1>1, <2>2 DEF signalVars, PopulationInv, Signal!Bests, Signal!Range
  <2> QED BY <1>2, <2>1, <2>2
<1> QED BY <1>3, <1>4, <1>5, <1>6

LEMMA DecidedHolds ==
  ASSUME OutcomesInv, SlainInv, GateInv, PopulationInv, TrafficInv  PROVE KeepersDecide
<1>1. Faults!ScenarioKnown
  BY DEF OutcomesInv, IdsOf, Faults!ScenarioKnown
<1>2. Shards!ProtectedPodsLive
  BY DEF SlainInv, Shards!ProtectedPodsLive
<1> QED BY <1>1, <1>2, GateOpens, BestStays, TrafficHolds DEF KeepersDecide

\* What the keepers decide is sound, whatever their callers do and in whatever order their
\* threads come: traffic moves for a cause and to a healthy target of the same hotel, a
\* circuit opens after its failures, shares and emergency stops are heeded, a given answer
\* stands, a controller acts against the drift; a kept outcome of chaos is of a known scenario, a protected pod lives, no df alone
\* opens the gate of a quorum, and evolution keeps the best it has seen.
THEOREM KeepersDecideRight == KeepersSpec => []KeepersDecide
<1> DEFINE Inv == OutcomesInv /\ SlainInv /\ GateInv /\ PopulationInv
<1>1. KeepersInit => Inv
  BY DecidedStart
<1>2. KeepersInv /\ Inv /\ [KeepersNext]_keepersVars => Inv'
  BY DecidedStep
<1>3. Inv /\ TrafficInv => KeepersDecide
  BY DecidedHolds
<1> HIDE DEF Inv
<1> QED BY <1>1, <1>2, <1>3, KeepersInvariant, TrafficInvariant, PTL DEF KeepersSpec
=============================================================================
