--------------------------- MODULE InductionLemmas ---------------------------
(***************************************************************************)
(* Induction over numbers, stated with sets in place of predicates, the    *)
(* existence of what a loop computes, with which recursive functions of    *)
(* the specifications are unfolded, and cardinalities.                     *)
(***************************************************************************)
EXTENDS Integers, FiniteSets, TLAPS, WellFoundedInduction, FiniteSetTheorems

\* A set of numbers that is not empty has a least element.
LEMMA LeastNat ==
  ASSUME NEW S, S \subseteq Nat, S # {}
  PROVE  \E m \in S : \A k \in S : m <= k
<1>1. PICK x \in S : \A y \in S : ~ (<<y, x>> \in OpToRel(<, Nat))
  BY NatLessThanWellFounded, WFMin
<1>2. \A y \in S : ~ (y < x)
  BY <1>1 DEF OpToRel
<1> QED
  BY <1>2

\* Induction over an interval, for the set T of the numbers with some property.
LEMMA IntervalInduction ==
  ASSUME NEW N \in Nat, NEW T, 0 \in T, \A n \in 1 .. N : n - 1 \in T => n \in T
  PROVE  \A n \in 0 .. N : n \in T
<1> DEFINE bad == {n \in 0 .. N : n \notin T}
<1> SUFFICES ASSUME bad # {} PROVE FALSE
  OBVIOUS
<1>1. bad \subseteq Nat
  OBVIOUS
<1>2. PICK m \in bad : \A k \in bad : m <= k
  <2> HIDE DEF bad
  <2> QED
    BY <1>1, LeastNat
<1>3. m \in 1 .. N /\ m - 1 \in 0 .. N
  OBVIOUS
<1>4. m - 1 \notin bad
  BY <1>2, <1>3
<1> QED
  BY <1>3, <1>4

\* Induction over the natural numbers.
LEMMA NatInductionOn ==
  ASSUME NEW T, 0 \in T, \A n \in Nat : n \in T => n + 1 \in T
  PROVE  \A n \in Nat : n \in T
<1> SUFFICES ASSUME NEW n \in Nat PROVE n \in T
  OBVIOUS
<1>1. \A k \in 1 .. n : k - 1 \in T => k \in T
  <2> SUFFICES ASSUME NEW k \in 1 .. n, k - 1 \in T PROVE k \in T
    OBVIOUS
  <2>1. k - 1 \in Nat /\ (k - 1) + 1 = k
    OBVIOUS
  <2> QED
    BY <2>1
<1>2. \A k \in 0 .. n : k \in T
  BY <1>1, IntervalInduction
<1> QED
  BY <1>2

\* f holds what a loop over 1 .. N computes in every round, from base on.
IsLoop(f, N, S, base, step) ==
  /\ f \in [0 .. N -> S]
  /\ f[0] = base
  /\ \A n \in 1 .. N : f[n] = step[<<f[n - 1], n>>]

\* A loop over 1 .. N that starts from base and takes step computes a value in every round.
LEMMA LoopExists ==
  ASSUME NEW N \in Nat, NEW S, NEW base \in S, NEW step \in [S \X (1 .. N) -> S]
  PROVE  \E f : IsLoop(f, N, S, base, step)
<1> DEFINE Run(m, f) == /\ f \in [0 .. m -> S] /\ f[0] = base
                        /\ \A n \in 1 .. m : f[n] = step[<<f[n - 1], n>>]
           T == {m \in 0 .. N : \E f : Run(m, f)}
<1>1. 0 \in T
  <2>1. Run(0, [i \in 0 .. 0 |-> base])
    OBVIOUS
  <2>2. 0 \in 0 .. N
    OBVIOUS
  <2> HIDE DEF Run
  <2> QED
    BY <2>1, <2>2
<1>2. ASSUME NEW m \in 1 .. N, m - 1 \in T PROVE m \in T
  <2>1. PICK f : Run(m - 1, f)
    BY <1>2
  <2> DEFINE g == [i \in 0 .. m |-> IF i = m THEN step[<<f[m - 1], m>>] ELSE f[i]]
  <2>2. f[m - 1] \in S /\ step[<<f[m - 1], m>>] \in S
    BY <2>1
  <2>3. g \in [0 .. m -> S]
    BY <2>1, <2>2
  <2>4. g[0] = base
    BY <2>1
  <2>5. \A n \in 1 .. m : g[n] = step[<<g[n - 1], n>>]
    <3> SUFFICES ASSUME NEW n \in 1 .. m PROVE g[n] = step[<<g[n - 1], n>>]
      OBVIOUS
    <3>1. g[n - 1] = f[n - 1]
      OBVIOUS
    <3>2. CASE n = m
      <4>1. g[m] = step[<<f[m - 1], m>>]
        OBVIOUS
      <4>2. g[m - 1] = f[m - 1]
        BY <3>1, <3>2
      <4> HIDE DEF g
      <4>3. g[m] = step[<<g[m - 1], m>>]
        BY <4>1, <4>2
      <4> QED
        BY <4>3, <3>2
    <3>3. CASE n # m
      BY <2>1, <3>1, <3>3
    <3> QED
      BY <3>2, <3>3
  <2>6. Run(m, g)
    BY <2>3, <2>4, <2>5
  <2> HIDE DEF Run, g
  <2> QED
    BY <2>6
<1>3. \A m \in 0 .. N : m \in T
  <2> HIDE DEF T
  <2> QED
    BY <1>1, <1>2, IntervalInduction
<1>4. PICK f : Run(N, f)
  BY <1>3
<1> QED
  BY <1>4 DEF IsLoop

\* Two loops start alike and take like steps from like values.
SameRounds(f, g, N) ==
  f[0] = g[0] /\ \A n \in 1 .. N : f[n - 1] = g[n - 1] => f[n] = g[n]

SameValues(f, g, N) == \A n \in 0 .. N : f[n] = g[n]

\* Such loops compute the same.
LEMMA LoopsAgree ==
  ASSUME NEW N \in Nat, NEW f, NEW g, SameRounds(f, g, N)
  PROVE  SameValues(f, g, N)
<1> DEFINE T == {n \in 0 .. N : f[n] = g[n]}
<1>1. 0 \in T
  BY DEF SameRounds
<1>2. \A n \in 1 .. N : n - 1 \in T => n \in T
  BY DEF SameRounds
<1>3. \A n \in 0 .. N : n \in T
  <2> HIDE DEF T
  <2> QED
    BY <1>1, <1>2, IntervalInduction
<1> QED
  BY <1>3 DEF SameValues

-----------------------------------------------------------------------------
(***************************************************************************)
(* Counting.                                                               *)
(***************************************************************************)
\* An injective function preserves the cardinality of a finite set.
LEMMA InjectiveImage ==
  ASSUME NEW I, IsFiniteSet(I), NEW f, \A i, j \in I : f[i] = f[j] => i = j
  PROVE  LET T == {f[i] : i \in I}
         IN  IsFiniteSet(T) /\ Cardinality(T) = Cardinality(I)
<1> DEFINE T == {f[i] : i \in I}
           g == [i \in I |-> f[i]]
<1>1. g \in [I -> T] /\ \A i, j \in I : g[i] = g[j] => i = j
  OBVIOUS
<1>2. \A t \in T : \E i \in I : g[i] = t
  OBVIOUS
<1>3. g \in Bijection(I, T)
  BY <1>1, <1>2 DEF Bijection, Injection, Surjection, IsInjective
<1>4. ExistsBijection(I, T)
  BY <1>3 DEF ExistsBijection
<1> QED
  BY <1>4, FS_Bijection

\* The cardinality of a disjoint union of finite sets.
LEMMA DisjointUnion ==
  ASSUME NEW S, IsFiniteSet(S), NEW T, IsFiniteSet(T), S \cap T = {}
  PROVE  IsFiniteSet(S \cup T) /\ Cardinality(S \cup T) = Cardinality(S) + Cardinality(T)
<1>1. Cardinality(S) \in Nat /\ Cardinality(T) \in Nat
  BY FS_CardinalityType
<1>2. Cardinality(S \cap T) = 0
  BY FS_EmptySet
<1>3. /\ IsFiniteSet(S \cup T)
      /\ Cardinality(S \cup T) = Cardinality(S) + Cardinality(T) - Cardinality(S \cap T)
  BY FS_Union, Zenon
<1> QED
  BY <1>1, <1>2, <1>3
=============================================================================
