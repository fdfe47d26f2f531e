------------------------------ MODULE FiniteSums ------------------------------
(***************************************************************************)
(* Numbers and finite sets, for the proofs that count or add up: what the  *)
(* other proof modules know of the least and the greatest of a set, and of *)
(* the sum of a function over a finite set, which FiniteSetsExt defines by *)
(* taking one chosen element out after another.                            *)
(***************************************************************************)
EXTENDS Integers, FiniteSets, FiniteSetTheorems, WellFoundedInduction, TLAPS

--------------------------------------------------------------------------------
(* Sets of numbers.                                                          *)

LEMMA HasLeast ==
    ASSUME NEW S \in SUBSET Nat, S # {}
    PROVE  \E x \in S : \A y \in S : x <= y
<1>1. IsWellFoundedOn(OpToRel(<, Nat), Nat)
  BY NatLessThanWellFounded
<1>2. PICK t \in S : \A u \in S : ~(<<u, t>> \in OpToRel(<, Nat))
  BY <1>1, WFMin, Zenon
<1>3. \A u \in S : ~(u < t)
  BY <1>2 DEF OpToRel
<1>4. \A u \in S : t <= u
  BY <1>3
<1>. QED
  BY <1>4

LEMMA HasGreatest ==
    ASSUME NEW n \in Nat, NEW S \in SUBSET (0..n), S # {}
    PROVE  \E x \in S : \A y \in S : x >= y
<1>. DEFINE T == {n - x : x \in S}
<1>1. T \in SUBSET Nat /\ T # {}
  <2>1. PICK x \in S : TRUE
    OBVIOUS
  <2>2. n - x \in T
    OBVIOUS
  <2>3. T \subseteq Nat
    OBVIOUS
  <2>. QED
    BY <2>2, <2>3
<1>2. PICK t \in T : \A u \in T : t <= u
  <2>. HIDE DEF T
  <2>. QED
    BY <1>1, HasLeast
<1>3. PICK x \in S : t = n - x
  OBVIOUS
<1>4. ASSUME NEW y \in S
      PROVE  x >= y
  <2>1. n - x <= n - y
    BY <1>2, <1>3
  <2>. QED
    BY <2>1
<1>. QED
  BY <1>4

\* Induction: a set of numbers that has zero, and with each number the next,
\* has them all.
LEMMA AllNumbers ==
    ASSUME NEW Q \in SUBSET Nat, 0 \in Q, \A n \in Q : n + 1 \in Q
    PROVE  Q = Nat
<1>. SUFFICES ASSUME Nat \ Q # {}
              PROVE  FALSE
  OBVIOUS
<1>1. PICK t \in Nat \ Q : \A u \in Nat \ Q : t <= u
  BY HasLeast
<1>2. t # 0 /\ t - 1 \in Nat /\ t - 1 < t /\ (t - 1) + 1 = t
  <2>1. t \in Nat /\ t # 0
    BY <1>1
  <2>. QED
    BY <2>1
<1>3. t - 1 \in Q
  BY <1>1, <1>2
<1>. QED
  BY <1>2, <1>3

--------------------------------------------------------------------------------
(* Finite sets, one element after another.                                   *)

\* The element a sum takes out of a set next, and what is left.
Pick(T) == CHOOSE x \in T : TRUE
Others(T) == T \ {Pick(T)}

\* g tells the sum of f over every subset of S.
SumsOf(g, f, S) ==
    g = [T \in SUBSET S |-> IF T = {} THEN 0 ELSE f[Pick(T)] + g[Others(T)]]

LEMMA OthersSmaller ==
    ASSUME NEW S, IsFiniteSet(S), NEW T \in SUBSET S, T # {}
    PROVE  /\ IsFiniteSet(T) /\ Cardinality(T) \in Nat /\ Cardinality(T) # 0
           /\ Pick(T) \in T /\ Others(T) \in SUBSET S
           /\ Cardinality(Others(T)) \in Nat /\ Cardinality(Others(T)) = Cardinality(T) - 1
<1>1. Pick(T) \in T
  BY DEF Pick
<1>2. IsFiniteSet(T) /\ IsFiniteSet(Others(T))
  BY FS_Subset DEF Others
<1>3. Cardinality(T) \in Nat /\ Cardinality(Others(T)) \in Nat
  BY <1>2, FS_CardinalityType
<1>4. Cardinality(Others(T)) = Cardinality(T) - 1
  BY <1>1, <1>2, FS_RemoveElement DEF Others
<1>5. Cardinality(T) # 0
  BY <1>2, FS_EmptySet
<1>. QED
  BY <1>1, <1>2, <1>3, <1>4, <1>5 DEF Others

\* What holds of the empty set, and of a set when it holds of its rest, holds
\* of every subset of a finite set.
LEMMA AllSubsets ==
    ASSUME NEW S, IsFiniteSet(S), NEW P \in SUBSET (SUBSET S), {} \in P,
           \A T \in SUBSET S : T # {} /\ Others(T) \in P => T \in P
    PROVE  P = SUBSET S
<1>. DEFINE Q == {n \in Nat : \A T \in SUBSET S : Cardinality(T) <= n => T \in P}
<1>1. 0 \in Q
  <2>. SUFFICES ASSUME NEW T \in SUBSET S, Cardinality(T) <= 0
                PROVE  T \in P
    OBVIOUS
  <2>1. T = {}
    BY OthersSmaller
  <2>. QED
    BY <2>1
<1>2. ASSUME NEW n \in Q
      PROVE  n + 1 \in Q
  <2>. SUFFICES ASSUME NEW T \in SUBSET S, Cardinality(T) <= n + 1, T # {}
                PROVE  T \in P
    OBVIOUS
  <2>1. Others(T) \in SUBSET S /\ Cardinality(Others(T)) <= n
    BY OthersSmaller
  <2>. QED
    BY <2>1
<1>3. Q = Nat
  <2>. HIDE DEF Q
  <2>1. Q \in SUBSET Nat
    BY DEF Q
  <2>. QED
    BY <1>1, <1>2, <2>1, AllNumbers
<1>4. ASSUME NEW T \in SUBSET S
      PROVE  T \in P
  <2>1. Cardinality(T) \in Nat
    BY FS_Subset, FS_CardinalityType
  <2>2. Cardinality(T) \in Q
    BY <1>3, <2>1
  <2>. QED
    BY <2>1, <2>2
<1>. QED
  BY <1>4

\* The sums exist ...
LEMMA SumsExist ==
    ASSUME NEW S, IsFiniteSet(S), NEW f
    PROVE  \E g : SumsOf(g, f, S)
<1>. DEFINE D(n) == {T \in SUBSET S : Cardinality(T) <= n}
            Upto(g, n) == g = [T \in D(n) |-> IF T = {} THEN 0 ELSE f[Pick(T)] + g[Others(T)]]
            Q == {n \in Nat : \E g : Upto(g, n)}
<1>1. 0 \in Q
  <2>. DEFINE g == [T \in D(0) |-> 0]
  <2>1. \A T \in D(0) : T = {}
    BY OthersSmaller
  <2>2. Upto(g, 0)
    BY <2>1
  <2>. QED
    BY <2>2
<1>2. ASSUME NEW n \in Q
      PROVE  n + 1 \in Q
  <2>1. PICK g : Upto(g, n)
    OBVIOUS
  <2>. DEFINE h == [T \in D(n + 1) |-> IF T = {} THEN 0 ELSE f[Pick(T)] + g[Others(T)]]
  <2>2. ASSUME NEW T \in D(n + 1), T # {}
        PROVE  Others(T) \in D(n)
    BY OthersSmaller, <2>2
  <2>3. ASSUME NEW T \in D(n)
        PROVE  T \in D(n + 1) /\ h[T] = g[T]
    <3>1. T \in D(n + 1)
      <4>1. Cardinality(T) \in Nat
        BY FS_Subset, FS_CardinalityType
      <4>. QED
        BY <4>1
    <3>2. g[T] = IF T = {} THEN 0 ELSE f[Pick(T)] + g[Others(T)]
      BY <2>1
    <3>. QED
      BY <3>1, <3>2
  <2>4. Upto(h, n + 1)
    <3>1. \A T \in D(n + 1) : T # {} => h[Others(T)] = g[Others(T)]
      BY <2>2, <2>3
    <3>2. h = [T \in D(n + 1) |-> IF T = {} THEN 0 ELSE f[Pick(T)] + h[Others(T)]]
      <4>. HIDE DEF D
      <4>. QED
        BY <3>1
    <3>. QED
      BY <3>2
  <2>5. \E u : Upto(u, n + 1)
    <3>. HIDE DEF h, Upto
    <3>. QED
      BY <2>4
  <2>6. n \in Nat /\ n + 1 \in Nat
    OBVIOUS
  <2>. HIDE DEF h, Upto
  <2>. QED
    BY <2>5, <2>6
<1>3. Q = Nat
  <2>1. Q \in SUBSET Nat
    OBVIOUS
  <2>. HIDE DEF Q
  <2>. QED
    BY <1>1, <1>2, <2>1, AllNumbers
<1>4. Cardinality(S) \in Nat /\ D(Cardinality(S)) = SUBSET S
  BY FS_Subset, FS_CardinalityType
<1>5. PICK g : Upto(g, Cardinality(S))
  BY <1>3, <1>4
<1>. QED
  BY <1>4, <1>5 DEF SumsOf

\* ... are numbers ...
LEMMA SumsTyped ==
    ASSUME NEW S, IsFiniteSet(S), NEW f \in [S -> Int], NEW g, SumsOf(g, f, S)
    PROVE  \A T \in SUBSET S : g[T] \in Int
<1>. DEFINE P == {T \in SUBSET S : g[T] \in Int}
<1>1. {} \in P
  BY DEF SumsOf
<1>2. ASSUME NEW T \in SUBSET S, T # {}, Others(T) \in P
      PROVE  T \in P
  <2>1. g[T] = f[Pick(T)] + g[Others(T)] /\ Pick(T) \in S
    BY <1>2, OthersSmaller DEF SumsOf
  <2>. QED
    BY <1>2, <2>1
<1>3. P \in SUBSET (SUBSET S)
  OBVIOUS
<1>4. P = SUBSET S
  <2>. HIDE DEF P
  <2>. QED
    BY <1>1, <1>2, <1>3, AllSubsets
<1>. QED
  BY <1>4

\* ... and a change of one term is the change of the sums it is a term of.
LEMMA SumsMove ==
    ASSUME NEW S, IsFiniteSet(S), NEW f \in [S -> Int], NEW y \in S, NEW d \in Int,
           NEW h, h[y] = f[y] + d, \A x \in S : x # y => h[x] = f[x],
           NEW g, SumsOf(g, f, S), NEW k, SumsOf(k, h, S)
    PROVE  k[S] = g[S] + d
<1>. DEFINE P == {T \in SUBSET S : k[T] = g[T] + (IF y \in T THEN d ELSE 0)}
<1>0. \A T \in SUBSET S : g[T] \in Int
  BY SumsTyped
<1>1. {} \in P
  BY DEF SumsOf
<1>2. ASSUME NEW T \in SUBSET S, T # {}, Others(T) \in P
      PROVE  T \in P
  <2>1. Pick(T) \in T /\ Pick(T) \in S /\ Others(T) \in SUBSET S
    BY <1>2, OthersSmaller
  <2>2. g[T] = f[Pick(T)] + g[Others(T)] /\ k[T] = h[Pick(T)] + k[Others(T)]
    BY <1>2 DEF SumsOf
  <2>3. k[Others(T)] = g[Others(T)] + (IF y \in Others(T) THEN d ELSE 0)
    BY <1>2
  <2>4. f[Pick(T)] \in Int /\ g[Others(T)] \in Int
    BY <1>0, <2>1
  <2>5. CASE Pick(T) = y
    <3>1. h[Pick(T)] = f[Pick(T)] + d /\ y \in T /\ y \notin Others(T)
      BY <2>1, <2>5 DEF Others
    <3>2. k[T] = g[T] + d
      BY <2>2, <2>3, <2>4, <3>1
    <3>. QED
      BY <3>1, <3>2
  <2>6. CASE Pick(T) # y
    <3>1. h[Pick(T)] = f[Pick(T)] /\ (y \in T <=> y \in Others(T))
      BY <2>1, <2>6 DEF Others
    <3>2. k[T] = g[T] + (IF y \in T THEN d ELSE 0)
      BY <2>2, <2>3, <2>4, <3>1
    <3>. QED
      BY <3>2
  <2>. QED
    BY <2>5, <2>6
<1>3. P \in SUBSET (SUBSET S)
  OBVIOUS
<1>4. P = SUBSET S
  <2>. HIDE DEF P
  <2>. QED
    BY <1>1, <1>2, <1>3, AllSubsets
<1>. QED
  BY <1>4

LEMMA SumsSame ==
    ASSUME NEW S, IsFiniteSet(S), NEW f, NEW g, SumsOf(g, f, S), NEW k, SumsOf(k, f, S)
    PROVE  k[S] = g[S]
<1>. DEFINE P == {T \in SUBSET S : k[T] = g[T]}
<1>1. {} \in P
  BY DEF SumsOf
<1>2. ASSUME NEW T \in SUBSET S, T # {}, Others(T) \in P
      PROVE  T \in P
  BY <1>2 DEF SumsOf
<1>3. P \in SUBSET (SUBSET S)
  OBVIOUS
<1>4. P = SUBSET S
  <2>. HIDE DEF P
  <2>. QED
    BY <1>1, <1>2, <1>3, AllSubsets
<1>. QED
  BY <1>4

LEMMA SumsOfNothing ==
    ASSUME NEW S, IsFiniteSet(S), NEW f, \A x \in S : f[x] = 0, NEW g, SumsOf(g, f, S)
    PROVE  g[S] = 0
<1>. DEFINE P == {T \in SUBSET S : g[T] = 0}
<1>1. {} \in P
  BY DEF SumsOf
<1>2. ASSUME NEW T \in SUBSET S, T # {}, Others(T) \in P
      PROVE  T \in P
  <2>1. g[T] = f[Pick(T)] + g[Others(T)] /\ Pick(T) \in S
    BY <1>2, OthersSmaller DEF SumsOf
  <2>. QED
    BY <1>2, <2>1
<1>3. P \in SUBSET (SUBSET S)
  OBVIOUS
<1>4. P = SUBSET S
  <2>. HIDE DEF P
  <2>. QED
    BY <1>1, <1>2, <1>3, AllSubsets
<1>. QED
  BY <1>4

\* Sets without a common element together have as many as both.
LEMMA TogetherCounted ==
    ASSUME NEW U, NEW V, IsFiniteSet(U), IsFiniteSet(V), U \cap V = {}
    PROVE  /\ Cardinality(U) \in Nat /\ Cardinality(V) \in Nat
           /\ Cardinality(U \cup V) = Cardinality(U) + Cardinality(V)
<1>1. Cardinality(U) \in Nat /\ Cardinality(V) \in Nat
  BY FS_CardinalityType
<1>2. Cardinality(U \cup V) = Cardinality(U) + Cardinality(V) - Cardinality(U \cap V)
  BY FS_Union
<1>3. Cardinality(U \cap V) = 0
  BY FS_EmptySet
<1>. QED
  BY <1>1, <1>2, <1>3

================================================================================
