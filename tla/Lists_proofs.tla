---------------------------- MODULE Lists_proofs ----------------------------
(***************************************************************************)
(* Induction over the natural numbers, one set of numbers at a time, and   *)
(* what Select keeps of a list.                                            *)
(***************************************************************************)
EXTENDS Lists, Integers, FiniteSetTheorems, WellFoundedInduction, TLAPS

-----------------------------------------------------------------------------
(* Induction *)

\* A set of natural numbers that is not empty has a least element.
LEMMA LeastNatural ==
    ASSUME NEW S \in SUBSET Nat, S # {}
    PROVE  \E n \in S : \A m \in S : n <= m
<1>. DEFINE Less == {p \in Nat \X Nat : p[1] < p[2]}
<1>1. IsWellFoundedOn(Less, Nat)
  BY NatLessThanWellFounded DEF OpToRel
<1>2. PICK n \in S : \A m \in S : ~(<<m, n>> \in Less)
  <2>. HIDE DEF Less
  <2>. QED BY <1>1, WFMin
<1>3. \A m \in S : ~(m < n)
  BY <1>2
<1>. QED BY <1>3

\* A set of numbers that has 0, and n + 1 with every n, has them all.
LEMMA Induction ==
    ASSUME NEW S \in SUBSET Nat, 0 \in S, \A n \in S : n + 1 \in S
    PROVE  S = Nat
<1>. SUFFICES ASSUME Nat \ S # {} PROVE FALSE
  OBVIOUS
<1>1. PICK n \in Nat \ S : \A m \in Nat \ S : n <= m
  BY LeastNatural
<1>2. n # 0 /\ n - 1 \in Nat
  BY <1>1
<1>3. n - 1 \in S
  BY <1>1, <1>2
<1>. QED BY <1>2, <1>3, n - 1 + 1 = n

\* A set of indices that is not empty has a greatest one.
LEMMA GreatestIndex ==
    ASSUME NEW k \in Nat, NEW I \in SUBSET (1 .. k), I # {}
    PROVE  \E m \in I : \A i \in I : m >= i
<1>. DEFINE S == {k - i : i \in I}
<1>1. S \in SUBSET Nat /\ S # {}
  <2>1. \A i \in I : k - i \in Nat
    <3>1. \A i \in 1 .. k : k - i \in Nat
      OBVIOUS
    <3>. QED BY <3>1
  <2>. QED BY <2>1, Zenon
<1>2. PICK n \in S : \A m \in S : n <= m
  <2>. HIDE DEF S
  <2>. QED BY <1>1, LeastNatural
<1>3. PICK m \in I : n = k - m
  BY <1>2
<1>4. \A i \in I : k - m <= k - i
  BY <1>2, <1>3
<1>5. ASSUME NEW i \in I PROVE m >= i
  <2>1. m \in 1 .. k /\ i \in 1 .. k
    OBVIOUS
  <2>. QED BY <1>4, <2>1
<1>. QED BY <1>5

-----------------------------------------------------------------------------
(* Selection *)

\* Larger indices have larger ranks, so no two have the same.
LEMMA RankGrows ==
    ASSUME NEW k \in Nat, NEW I \in SUBSET (1 .. k)
    PROVE  /\ IsFiniteSet(I) /\ Cardinality(I) \in Nat
           /\ \A i \in I : Rank(I, i) \in 1 .. Cardinality(I)
           /\ \A i, j \in I : i < j => Rank(I, i) < Rank(I, j)
<1>0. I \subseteq Int /\ IsFiniteSet(1 .. k)
  BY FS_Interval
<1>1. IsFiniteSet(I) /\ Cardinality(I) \in Nat
  BY <1>0, FS_Subset, FS_CardinalityType
<1>. DEFINE upTo(i) == {j \in I : j <= i}
<1>2. ASSUME NEW i \in I
      PROVE  /\ IsFiniteSet(upTo(i)) /\ Rank(I, i) = Cardinality(upTo(i))
             /\ Rank(I, i) \in 1 .. Cardinality(I)
  <2>1. upTo(i) \in SUBSET I /\ i \in upTo(i)
    OBVIOUS
  <2>2. IsFiniteSet(upTo(i)) /\ Cardinality(upTo(i)) <= Cardinality(I)
    BY <1>1, <2>1, FS_Subset
  <2>3. Cardinality(upTo(i)) \in Nat /\ Cardinality(upTo(i)) # 0
    BY <2>1, <2>2, FS_CardinalityType, FS_EmptySet
  <2>. QED BY <1>1, <2>2, <2>3 DEF Rank
<1>3. ASSUME NEW i \in I, NEW j \in I, i < j
      PROVE  Rank(I, i) < Rank(I, j)
  <2>0. i \in Int /\ j \in Int /\ \A l \in I : l \in Int /\ (l <= i => l <= j)
    BY <1>0, <1>3
  <2>a. ~(j <= i) /\ j <= j
    BY <1>3, <2>0
  <2>1. upTo(i) \subseteq upTo(j) /\ j \in upTo(j) /\ j \notin upTo(i)
    BY <2>0, <2>a, Zenon
  <2>2. Cardinality(upTo(i)) <= Cardinality(upTo(j)) /\ Cardinality(upTo(i)) # Cardinality(upTo(j))
    BY <1>2, <2>1, FS_Subset
  <2>. QED BY <1>2, <2>2
<1>. QED BY <1>1, <1>2, <1>3

\* Each rank up to the number of indices is that of one index.
LEMMA RankIsOnto ==
    ASSUME NEW k \in Nat, NEW I \in SUBSET (1 .. k), NEW n \in 1 .. Cardinality(I)
    PROVE  \E i \in I : Rank(I, i) = n /\ \A j \in I : Rank(I, j) = n => j = i
<1>. DEFINE rank == [i \in I |-> Rank(I, i)]
<1>1. /\ IsFiniteSet(I) /\ Cardinality(I) \in Nat
      /\ \A i \in I : Rank(I, i) \in 1 .. Cardinality(I)
      /\ \A i, j \in I : i < j => Rank(I, i) < Rank(I, j)
  BY RankGrows
<1>2. \A i, j \in I : Rank(I, i) = Rank(I, j) => i = j
  <2>. SUFFICES ASSUME NEW i \in I, NEW j \in I, Rank(I, i) = Rank(I, j), i # j PROVE FALSE
    OBVIOUS
  <2>1. i < j \/ j < i
    OBVIOUS
  <2>2. Rank(I, i) \in Nat /\ Rank(I, j) \in Nat
    BY <1>1
  <2>. QED BY <1>1, <2>1, <2>2
<1>3. rank \in Injection(I, 1 .. Cardinality(I))
  BY <1>1, <1>2 DEF Injection, IsInjective
<1>4. IsFiniteSet(1 .. Cardinality(I)) /\ Cardinality(1 .. Cardinality(I)) = Cardinality(I)
  BY <1>1, FS_Interval
<1>5. rank \in Surjection(I, 1 .. Cardinality(I))
  <2>. HIDE DEF rank
  <2>. QED BY <1>3, <1>4, FS_Injection
<1>6. PICK i \in I : rank[i] = n
  BY <1>5 DEF Surjection
<1>. QED BY <1>2, <1>6

\* Index and Rank undo each other.
LEMMA Indices ==
    ASSUME NEW k \in Nat, NEW I \in SUBSET (1 .. k)
    PROVE  /\ \A n \in 1 .. Cardinality(I) : Index(I, n) \in I /\ Rank(I, Index(I, n)) = n
           /\ \A i \in I : Rank(I, i) \in 1 .. Cardinality(I) /\ Index(I, Rank(I, i)) = i
<1>1. ASSUME NEW n \in 1 .. Cardinality(I)
      PROVE  Index(I, n) \in I /\ Rank(I, Index(I, n)) = n
  BY RankIsOnto DEF Index
<1>2. ASSUME NEW i \in I
      PROVE  Rank(I, i) \in 1 .. Cardinality(I) /\ Index(I, Rank(I, i)) = i
  <2>1. Rank(I, i) \in 1 .. Cardinality(I)
    BY RankGrows
  <2>2. Index(I, Rank(I, i)) \in I /\ Rank(I, Index(I, Rank(I, i))) = Rank(I, i)
    BY <1>1, <2>1
  <2>. QED BY <2>1, <2>2, RankIsOnto
<1>. QED BY <1>1, <1>2

\* t is a list of the elements of s at the indices I, no more and no fewer.
Selected(t, s, I) ==
    /\ Cardinality(I) \in Nat
    /\ Len(t) = Cardinality(I) /\ DOMAIN t = 1 .. Cardinality(I)
    /\ \A n \in 1 .. Cardinality(I) : t[n] = s[Index(I, n)] /\ Index(I, n) \in I
    /\ \A i \in I : \E n \in 1 .. Cardinality(I) : t[n] = s[i]

LEMMA Selection ==
    ASSUME NEW k \in Nat, NEW I \in SUBSET (1 .. k), NEW s
    PROVE  Selected(Select(s, I), s, I)
<1>1. Cardinality(I) \in Nat
  BY RankGrows
<1>2. /\ Len(Select(s, I)) = Cardinality(I) /\ DOMAIN Select(s, I) = 1 .. Cardinality(I)
      /\ \A n \in 1 .. Cardinality(I) : Select(s, I)[n] = s[Index(I, n)]
  BY <1>1 DEF Select
<1>3. \A n \in 1 .. Cardinality(I) : Index(I, n) \in I
  BY Indices
<1>4. ASSUME NEW i \in I PROVE \E n \in 1 .. Cardinality(I) : Select(s, I)[n] = s[i]
  <2>1. Rank(I, i) \in 1 .. Cardinality(I) /\ Index(I, Rank(I, i)) = i
    BY Indices
  <2>. QED BY <1>2, <2>1
<1>. QED BY <1>1, <1>2, <1>3, <1>4 DEF Selected

LEMMA SelectionTyped ==
    ASSUME NEW T, NEW s \in Seq(T), NEW I \in SUBSET DOMAIN s
    PROVE  Select(s, I) \in Seq(T)
<1>1. Len(s) \in Nat /\ I \in SUBSET (1 .. Len(s)) /\ \A i \in I : s[i] \in T
  OBVIOUS
<1>2. Cardinality(I) \in Nat /\ \A n \in 1 .. Cardinality(I) : Index(I, n) \in I
  BY <1>1, Indices, RankGrows
<1>3. Select(s, I) \in [1 .. Cardinality(I) -> T]
  BY <1>1, <1>2 DEF Select
<1>. QED BY <1>2, <1>3

\* A selection of everything is the list itself.
LEMMA SelectAll ==
    ASSUME NEW k \in Nat, NEW s, s = [i \in 1 .. k |-> s[i]]
    PROVE  Select(s, 1 .. k) = s
<1>1. Cardinality(1 .. k) = k
  BY FS_Interval
<1>2. ASSUME NEW n \in 1 .. k PROVE Index(1 .. k, n) = n
  <2>1. {j \in 1 .. k : j <= n} = 1 .. n
    OBVIOUS
  <2>2. Rank(1 .. k, n) = n
    <3>1. Cardinality(1 .. n) = n
      BY FS_Interval
    <3>. QED BY <2>1, <3>1 DEF Rank
  <2>3. PICK all : all = 1 .. k
    OBVIOUS
  <2>4. \A i \in all : Index(all, Rank(all, i)) = i
    <3>1. all \in SUBSET (1 .. k)
      BY <2>3
    <3>. QED BY <3>1, Indices
  <2>. QED BY <2>2, <2>3, <2>4
<1>3. Select(s, 1 .. k) = [n \in 1 .. k |-> s[Index(1 .. k, n)]]
  BY <1>1 DEF Select
<1>. QED BY <1>2, <1>3
=============================================================================
