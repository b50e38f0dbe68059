---- MODULE DataLemmas ----
(***************************************************************************)
(* Lemmas about sets and sequences that the proofs of several modules use. *)
(*                                                                         *)
(* Induction: the theorems of the library speak of every predicate; here   *)
(* what is to be shown is a set, so that a prover of first-order logic can *)
(* use them: of natural numbers, of an interval, of the subsets of a       *)
(* finite set.  With it, that a recursion over the subsets of a finite set *)
(* has a solution, and one over the numbers up to n.                       *)
(*                                                                         *)
(* Sequences: cutting one in two, and how many of its elements are in a    *)
(* set.                                                                    *)
(***************************************************************************)
EXTENDS Integers, Sequences, FiniteSets, NaturalsInduction, FiniteSetTheorems,
        SequenceTheorems, TLAPS

\* Every set of natural numbers has a least element.
LEMMA LeastNumber ==
    ASSUME NEW T \in SUBSET Nat, T # {}
    PROVE  \E x \in T : \A y \in T : x <= y
  <1> DEFINE R == OpToRel(<, Nat)
  <1>1. IsWellFoundedOn(R, Nat)
    BY NatLessThanWellFounded
  <1>2. \A x, y \in Nat : x < y => <<x, y>> \in R
    BY DEF OpToRel
  <1> HIDE DEF R
  <1>3. PICK x \in T : \A y \in T : ~(<<y, x>> \in R)
    BY <1>1, WFMin
  <1>4. ASSUME NEW y \in T PROVE x <= y
    <2>1. x \in Nat /\ y \in Nat /\ ~(y < x)
      BY <1>2, <1>3
    <2> QED
      BY <2>1
  <1> QED
    BY <1>4

\* A finite set of numbers has a greatest element: one with the fewest above it
\* in the sense of inclusion.
LEMMA GreatestNumber ==
    ASSUME NEW S, S \subseteq Nat, IsFiniteSet(S), S # {}
    PROVE  \E n \in S : \A i \in S : i <= n
  <1> DEFINE Above(n) == {i \in S : i > n}
             T == {Above(n) : n \in S}
  <1>1. \A n \in S : Above(n) \in FiniteSubsetsOf(S)
    <2>1. \A n \in S : Above(n) \in SUBSET S
      OBVIOUS
    <2> HIDE DEF Above
    <2> QED
      BY <2>1, FS_Subset DEF FiniteSubsetsOf
  <1>2. T \subseteq FiniteSubsetsOf(S) /\ T # {}
    <2> HIDE DEF Above
    <2> QED
      BY <1>1
  <1>3. PICK x \in T : \A y \in T : ~(<<y, x>> \in StrictSubsetOrdering(S))
    <2> HIDE DEF T
    <2> QED
      BY <1>2, FS_StrictSubsetOrderingWellFounded, WFMin
  <1>4. PICK n \in S : x = Above(n)
    BY <1>3
  <1>5. ASSUME NEW i \in S, i > n
        PROVE  FALSE
    <2>1. i \in Nat /\ n \in Nat
      OBVIOUS
    <2>2. Above(i) \subseteq Above(n) /\ i \in Above(n) /\ i \notin Above(i)
      <3>1. \A h \in Above(i) : h \in S /\ h \in Nat /\ h > i
        OBVIOUS
      <3>2. \A h \in Above(i) : h \in Above(n)
        BY <3>1, <2>1, <1>5
      <3>3. i \in Above(n) /\ i \notin Above(i)
        BY <2>1, <1>5
      <3> HIDE DEF Above
      <3> QED
        BY <3>2, <3>3
    <2>3. <<Above(i), Above(n)>> \in StrictSubsetOrdering(S)
      <3> HIDE DEF Above
      <3> QED
        BY <2>2, <1>1 DEF StrictSubsetOrdering, FiniteSubsetsOf
    <2>4. Above(i) \in T
      OBVIOUS
    <2> HIDE DEF Above, T
    <2> QED
      BY <1>3, <1>4, <2>3, <2>4
  <1> QED
    BY <1>5

\* Induction over the natural numbers.
LEMMA SetOfNumbers ==
    ASSUME NEW A, 0 \in A, \A n \in Nat : n \in A => n + 1 \in A
    PROVE  Nat \subseteq A
  <1> SUFFICES ASSUME Nat \ A # {} PROVE FALSE
    OBVIOUS
  <1>1. PICK x \in Nat \ A : \A y \in Nat \ A : x <= y
    BY LeastNumber
  <1>2. x - 1 \in Nat /\ x - 1 \notin Nat \ A
    BY <1>1
  <1> QED
    BY <1>1, <1>2

\* Induction over an interval.
LEMMA IntervalOfNumbers ==
    ASSUME NEW m \in Int, NEW n \in Int, NEW A, m \in A, \A i \in m..(n - 1) : i \in A => i + 1 \in A
    PROVE  m..n \subseteq A
  <1> DEFINE B == {k \in Nat : m + k \in m..n => m + k \in A}
  <1>1. 0 \in B
    OBVIOUS
  <1>2. ASSUME NEW k \in Nat, k \in B PROVE k + 1 \in B
    BY <1>2
  <1> HIDE DEF B
  <1>3. Nat \subseteq B
    BY <1>1, <1>2, SetOfNumbers
  <1>4. ASSUME NEW i \in m..n PROVE i \in A
    <2>1. i - m \in B /\ m + (i - m) = i
      BY <1>3
    <2> QED
      BY <2>1 DEF B
  <1> QED
    BY <1>4

\* A subset of S is in A if it is when any one element is taken away.
GrowsIn(A, S) == \A T \in SUBSET S : (\A x \in T : T \ {x} \in A) => T \in A

\* Induction over the subsets of a finite set.
LEMMA SetOfSubsets ==
    ASSUME NEW S, IsFiniteSet(S), NEW A, GrowsIn(A, S)
    PROVE  SUBSET S \subseteq A
  <1> USE DEF GrowsIn
  <1> DEFINE R == StrictSubsetOrdering(S)
  <1> SUFFICES ASSUME (SUBSET S) \ A # {} PROVE FALSE
    OBVIOUS
  <1>1. IsWellFoundedOn(R, SUBSET S)
    <2>1. FiniteSubsetsOf(S) = SUBSET S
      BY FS_FiniteSubsetsOfFinite
    <2>2. IsWellFoundedOn(R, FiniteSubsetsOf(S))
      BY FS_StrictSubsetOrderingWellFounded
    <2> HIDE DEF R
    <2> QED
      BY <2>1, <2>2
  <1>2. \A U, T \in SUBSET S : U \subseteq T /\ U # T => <<U, T>> \in R
    BY DEF StrictSubsetOrdering
  <1> HIDE DEF R
  <1>3. PICK T \in (SUBSET S) \ A : \A U \in (SUBSET S) \ A : ~(<<U, T>> \in R)
    <2>1. PICK B : B = (SUBSET S) \ A
      OBVIOUS
    <2>2. B \subseteq SUBSET S /\ B # {}
      BY <2>1
    <2>3. \E T \in B : \A U \in B : ~(<<U, T>> \in R)
      BY <1>1, <2>2, WFMin
    <2> QED
      BY <2>1, <2>3
  <1>4. ASSUME NEW x \in T PROVE T \ {x} \in A
    <2>1. T \ {x} \in SUBSET S /\ T \ {x} \subseteq T /\ T \ {x} # T
      BY <1>3
    <2> QED
      BY <1>2, <1>3, <2>1
  <1> QED
    BY <1>3, <1>4

\* A definition by recursion over the subsets of S: step says what a set is given
\* for its member first[s] and the value of the rest.
IsRecursion(S, V, base, step, first) ==
    /\ IsFiniteSet(S)
    /\ base \in V
    /\ step \in [S \X V -> V]
    /\ \A s \in SUBSET S : s # {} => first[s] \in s

IsSolution(g, S, V, base, step, first) ==
    /\ g \in [SUBSET S -> V]
    /\ \A s \in SUBSET S : g[s] = IF s = {} THEN base ELSE step[<<first[s], g[s \ {first[s]}]>>]

\* Such a recursion has a solution.
LEMMA RecursionOverSubsets ==
    ASSUME NEW S, NEW V, NEW base, NEW step, NEW first, IsRecursion(S, V, base, step, first)
    PROVE  \E g : IsSolution(g, S, V, base, step, first)
  <1> USE DEF IsRecursion
  <1> DEFINE Small(n) == {s \in SUBSET S : Cardinality(s) <= n}
             Solves(g, n) ==
                 /\ g \in [Small(n) -> V]
                 /\ \A s \in Small(n) :
                       g[s] = IF s = {} THEN base ELSE step[<<first[s], g[s \ {first[s]}]>>]
             A == {n \in Nat : \E g : Solves(g, n)}
  <1>1. \A s \in SUBSET S : IsFiniteSet(s) /\ Cardinality(s) \in Nat
    BY FS_Subset, FS_CardinalityType
  <1>2. \A s \in SUBSET S : Cardinality(s) = 0 <=> s = {}
    BY <1>1, FS_EmptySet
  <1>3. ASSUME NEW n \in Nat, NEW s \in Small(n + 1), s # {}
        PROVE  first[s] \in S /\ s \ {first[s]} \in Small(n)
    <2>1. s \in SUBSET S /\ IsFiniteSet(s) /\ first[s] \in s /\ Cardinality(s) \in Nat
      BY <1>1, <1>3
    <2>2. Cardinality(s \ {first[s]}) = Cardinality(s) - 1
      BY <2>1, FS_RemoveElement
    <2> QED
      BY <1>3, <2>1, <2>2
  <1>4. 0 \in A
    <2> DEFINE g == [s \in Small(0) |-> base]
    <2>1. \A s \in Small(0) : s = {}
      BY <1>1, <1>2
    <2>2. Solves(g, 0)
      BY <2>1
    <2> QED
      BY <2>2
  <1>5. ASSUME NEW n \in Nat, n \in A PROVE n + 1 \in A
    <2>1. PICK g : Solves(g, n)
      BY <1>5
    <2> DEFINE h == [s \in Small(n + 1) |->
                        IF s = {} THEN base ELSE step[<<first[s], g[s \ {first[s]}]>>]]
    <2>2. \A s \in Small(n) : s \in Small(n + 1)
      BY <1>1
    <2>3. \A s \in Small(n) : h[s] = g[s]
      BY <2>1, <2>2
    <2>4. ASSUME NEW s \in Small(n + 1)
          PROVE  /\ h[s] \in V
                 /\ h[s] = IF s = {} THEN base ELSE step[<<first[s], h[s \ {first[s]}]>>]
      <3>1. CASE s = {}
        BY <3>1
      <3>2. CASE s # {}
        <4>1. first[s] \in S /\ s \ {first[s]} \in Small(n)
          BY <1>3, <3>2
        <4>2. g[s \ {first[s]}] \in V /\ h[s \ {first[s]}] = g[s \ {first[s]}]
          BY <2>1, <2>3, <4>1
        <4>3. h[s] = step[<<first[s], g[s \ {first[s]}]>>]
          BY <2>4, <3>2
        <4>4. <<first[s], g[s \ {first[s]}]>> \in S \X V
          BY <4>1, <4>2
        <4> QED
          BY <3>2, <4>2, <4>3, <4>4
      <3> QED
        BY <3>1, <3>2
    <2>5. h \in [Small(n + 1) -> V]
      BY <2>4
    <2> HIDE DEF h
    <2>6. Solves(h, n + 1)
      BY <2>4, <2>5
    <2>7. \E f : Solves(f, n + 1)
      <3> HIDE DEF Solves
      <3> QED
        BY <2>6
    <2> HIDE DEF Solves
    <2> QED
      BY <2>7
  <1> HIDE DEF A
  <1>6. Nat \subseteq A
    BY <1>4, <1>5, SetOfNumbers
  <1>7. Cardinality(S) \in A
    BY <1>6, FS_CardinalityType
  <1>8. Small(Cardinality(S)) = SUBSET S
    <2>1. \A s \in SUBSET S : Cardinality(s) <= Cardinality(S)
      BY FS_Subset
    <2> QED
      BY <2>1
  <1>9. PICK g : Solves(g, Cardinality(S))
    BY <1>7 DEF A
  <1> QED
    BY <1>8, <1>9 DEF IsSolution

\* A definition by recursion over the numbers up to n: step is applied to base
\* again and again.
IsIteration(g, V, base, step, n) ==
    /\ g \in [0..n -> V]
    /\ \A k \in 0..n : g[k] = IF k = 0 THEN base ELSE step[g[k - 1]]

\* Such a definition has a solution.
LEMMA RecursionOverInterval ==
    ASSUME NEW V, NEW base \in V, NEW step \in [V -> V], NEW n \in Nat
    PROVE  \E g : IsIteration(g, V, base, step, n)
  <1> DEFINE Solves(g, m) ==
                 /\ g \in [0..m -> V]
                 /\ \A k \in 0..m : g[k] = IF k = 0 THEN base ELSE step[g[k - 1]]
             A == {m \in Nat : \E g : Solves(g, m)}
  <1>1. 0 \in A
    <2>1. PICK g : g = [k \in 0..0 |-> base]
      OBVIOUS
    <2>2. Solves(g, 0)
      BY <2>1
    <2> QED
      BY <2>2
  <1>2. ASSUME NEW m \in Nat, m \in A PROVE m + 1 \in A
    <2>1. PICK g : Solves(g, m)
      BY <1>2
    <2>2. PICK h : h = [k \in 0..(m + 1) |-> IF k = 0 THEN base ELSE step[g[k - 1]]]
      OBVIOUS
    <2>3. \A k \in 0..m : h[k] = g[k]
      BY <2>1, <2>2
    <2>4. ASSUME NEW k \in 0..(m + 1)
          PROVE  h[k] \in V /\ h[k] = IF k = 0 THEN base ELSE step[h[k - 1]]
      <3>1. CASE k = 0
        BY <2>2, <3>1
      <3>2. CASE k # 0
        <4>1. k - 1 \in 0..m
          BY <3>2
        <4>2. h[k - 1] = g[k - 1] /\ g[k - 1] \in V
          BY <2>1, <2>3, <4>1
        <4>3. h[k] = step[g[k - 1]]
          BY <2>2, <3>2
        <4> QED
          BY <3>2, <4>2, <4>3
      <3> QED
        BY <3>1, <3>2
    <2>5. h \in [0..(m + 1) -> V]
      BY <2>2, <2>4
    <2>6. Solves(h, m + 1)
      BY <2>4, <2>5
    <2> HIDE DEF Solves
    <2> QED
      BY <2>6
  <1> HIDE DEF A
  <1>3. n \in A
    BY <1>1, <1>2, SetOfNumbers
  <1>4. PICK g : Solves(g, n)
    BY <1>3 DEF A
  <1> QED
    BY <1>4 DEF IsIteration
----------------------------------------------------------------------------
(* Sequences *)

\* Cutting a sequence in two and putting the parts together again.
LEMMA CutAndJoin ==
    ASSUME NEW S, NEW q \in Seq(S), NEW k \in 0..Len(q)
    PROVE  /\ SubSeq(q, 1, k) \in Seq(S)
           /\ Len(SubSeq(q, 1, k)) = k
           /\ SubSeq(q, k + 1, Len(q)) \in Seq(S)
           /\ Len(SubSeq(q, k + 1, Len(q))) = Len(q) - k
           /\ SubSeq(q, 1, k) \o SubSeq(q, k + 1, Len(q)) = q
<1>1. Len(q) \in Nat
  OBVIOUS
<1>2. \A i \in 1..k : q[i] \in S
  BY ElementOfSeq
<1>3. \A i \in (k + 1)..Len(q) : q[i] \in S
  BY ElementOfSeq
<1>4. SubSeq(q, 1, k) \in Seq(S) /\ Len(SubSeq(q, 1, k)) = k
  BY <1>2, SubSeqProperties, Z3
<1>5. /\ SubSeq(q, k + 1, Len(q)) \in Seq(S)
      /\ Len(SubSeq(q, k + 1, Len(q))) = Len(q) - k
  BY <1>1, <1>3, SubSeqProperties, Z3
<1>6. SubSeq(q, 1, k) \o SubSeq(q, k + 1, Len(q)) = SubSeq(q, 1, Len(q))
  <2>1. 1 \in 1..Len(q) + 1 /\ k \in (1 - 1)..Len(q) /\ Len(q) \in k..Len(q)
    BY <1>1
  <2> QED
    BY <2>1, ConcatAdjacentSubSeq
<1>7. SubSeq(q, 1, Len(q)) = q
  BY SubSeqFull
<1> QED
  BY <1>4, <1>5, <1>6, <1>7

\* An element of a sequence over S.
LEMMA ElementIn == ASSUME NEW S, NEW s \in Seq(S), NEW i \in DOMAIN s PROVE s[i] \in S
  <1>1. DOMAIN s = 1..Len(s) /\ s \in [1..Len(s) -> S]
    BY LenProperties
  <1> QED
    BY <1>1

\* How many elements of s are in A.
Hits(s, A) == Cardinality({i \in DOMAIN s : s[i] \in A})

\* The number of hits; it is 0 just if there is none.
LEMMA HitsType ==
    ASSUME NEW S, NEW s \in Seq(S), NEW A
    PROVE  /\ Hits(s, A) \in Nat
           /\ Hits(s, A) = 0 <=> \A i \in DOMAIN s : s[i] \notin A
  <1> DEFINE D == {i \in DOMAIN s : s[i] \in A}
  <1>1. IsFiniteSet(1..Len(s)) /\ D \subseteq 1..Len(s)
    BY FS_Interval
  <1> HIDE DEF D
  <1>2. IsFiniteSet(D)
    BY <1>1, FS_Subset
  <1>3. Cardinality(D) \in Nat /\ (Cardinality(D) = 0 <=> D = {})
    BY <1>2, FS_CardinalityType, FS_EmptySet
  <1> QED
    BY <1>3 DEF D, Hits

\* The empty sequence has none.
LEMMA HitsEmpty == ASSUME NEW A PROVE Hits(<<>>, A) = 0
  <1>1. {i \in DOMAIN <<>> : <<>>[i] \in A} = {}
    OBVIOUS
  <1> QED
    BY <1>1, FS_EmptySet DEF Hits

\* An element appended may be one more.
LEMMA HitsAppend ==
    ASSUME NEW S, NEW s \in Seq(S), NEW x \in S, NEW A
    PROVE  Hits(Append(s, x), A) = Hits(s, A) + IF x \in A THEN 1 ELSE 0
  <1> DEFINE D == {i \in DOMAIN s : s[i] \in A}
             E == {i \in DOMAIN Append(s, x) : Append(s, x)[i] \in A}
             n == Len(s) + 1
  <1>1. IsFiniteSet(1..Len(s)) /\ D \subseteq 1..Len(s) /\ n \notin D
    <2>1. Len(s) \in Nat /\ DOMAIN s = 1..Len(s)
      BY LenProperties
    <2>2. IsFiniteSet(1..Len(s))
      BY <2>1, FS_Interval
    <2> QED
      BY <2>1, <2>2
  <1>2. E = IF x \in A THEN D \cup {n} ELSE D
    OBVIOUS
  <1> HIDE DEF D, E, n
  <1>3. IsFiniteSet(D) /\ Cardinality(D) \in Nat
    BY <1>1, FS_Subset, FS_CardinalityType
  <1>4. Cardinality(D \cup {n}) = Cardinality(D) + 1
    BY <1>1, <1>3, FS_AddElement
  <1>5. Hits(s, A) = Cardinality(D) /\ Hits(Append(s, x), A) = Cardinality(E)
    BY DEF Hits, D, E
  <1> QED
    BY <1>2, <1>3, <1>4, <1>5

\* The head taken off may be one less.
LEMMA HitsTail ==
    ASSUME NEW S, NEW s \in Seq(S), s # <<>>, NEW A
    PROVE  Hits(s, A) = Hits(Tail(s), A) + IF Head(s) \in A THEN 1 ELSE 0
  <1> DEFINE D == {i \in DOMAIN Tail(s) : Tail(s)[i] \in A}
             E == {i \in DOMAIN s : s[i] \in A}
             F == {i \in 2..Len(s) : s[i] \in A}
             f == [i \in D |-> i + 1]
  <1>1. /\ Tail(s) \in Seq(S) /\ Len(Tail(s)) = Len(s) - 1 /\ Len(s) \in Nat /\ Len(s) >= 1
        /\ \A i \in 1..(Len(s) - 1) : Tail(s)[i] = s[i + 1]
    BY HeadTailProperties
  <1>2. Head(s) = s[1] /\ 1 \in DOMAIN s /\ DOMAIN s = 1..Len(s) /\ DOMAIN Tail(s) = 1..(Len(s) - 1)
    BY <1>1
  <1>3. f \in [D -> F]
    BY <1>1, <1>2
  <1>4. \A a, b \in D : f[a] = f[b] => a = b
    BY <1>2
  <1>5. \A t \in F : \E i \in D : f[i] = t
    <2>1. ASSUME NEW t \in F PROVE t - 1 \in D /\ f[t - 1] = t
      BY <1>1, <1>2
    <2> QED
      BY <2>1
  <1>6. E = (IF Head(s) \in A THEN F \cup {1} ELSE F) /\ 1 \notin F
    BY <1>1, <1>2
  <1>7. IsFiniteSet(1..Len(Tail(s))) /\ D \subseteq 1..Len(Tail(s))
    BY <1>1, FS_Interval
  <1> HIDE DEF D, E, F, f
  <1>8. IsFiniteSet(D)
    BY <1>7, FS_Subset
  <1>9. ExistsBijection(D, F)
    <2>1. f \in Bijection(D, F)
      BY <1>3, <1>4, <1>5 DEF Bijection, Injection, Surjection, IsInjective
    <2> QED
      BY <2>1 DEF ExistsBijection
  <1>10. IsFiniteSet(F) /\ Cardinality(F) = Cardinality(D) /\ Cardinality(F) \in Nat
    BY <1>8, <1>9, FS_Bijection, FS_CardinalityType
  <1>11. Cardinality(F \cup {1}) = Cardinality(F) + 1
    BY <1>6, <1>10, FS_AddElement
  <1>12. Hits(s, A) = Cardinality(E) /\ Hits(Tail(s), A) = Cardinality(D)
    BY DEF Hits, D, E
  <1> QED
    BY <1>6, <1>10, <1>11, <1>12
====
