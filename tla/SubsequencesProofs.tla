------------------------- MODULE SubsequencesProofs -------------------------
(***************************************************************************)
(* What the operators of Subsequences return, and induction over the       *)
(* naturals with a set in the place of a predicate.                        *)
(***************************************************************************)
EXTENDS Subsequences, Sequences, FiniteSetTheorems, WellFoundedInduction, TLAPS

-----------------------------------------------------------------------------
\* Induction over the naturals, with a set for the predicate.

\* A nonempty set of naturals has a least element.
LEMMA LeastNatural ==
    ASSUME NEW T \in SUBSET Nat, T # {}
    PROVE  \E x \in T : \A y \in T : x <= y
<1>1. PICK R : IsWellFoundedOn(R, Nat) /\ \A x, y \in Nat : y < x => <<y, x>> \in R
  <2> DEFINE Less == OpToRel(<, Nat)
  <2>1. IsWellFoundedOn(Less, Nat)
    BY NatLessThanWellFounded
  <2>2. \A x, y \in Nat : y < x => <<y, x>> \in Less
    BY DEF OpToRel
  <2> HIDE DEF Less
  <2> QED
    BY <2>1, <2>2
<1>2. PICK x \in T : \A y \in T : <<y, x>> \notin R
  BY <1>1, WFMin
<1>3. \A y \in T : x \in Nat /\ y \in Nat /\ ~(y < x)
  BY <1>1, <1>2
<1> QED
  BY <1>2, <1>3

\* A set that holds 0 and the successor of each of its elements is Nat.
LEMMA Induction ==
    ASSUME NEW S \in SUBSET Nat, 0 \in S, \A n \in S : n + 1 \in S
    PROVE  S = Nat
<1> SUFFICES ASSUME Nat \ S # {} PROVE FALSE
  OBVIOUS
<1>1. PICK x \in Nat \ S : \A y \in Nat \ S : x <= y
  BY LeastNatural
<1>2. x - 1 \in Nat /\ x - 1 \in S
  BY <1>1
<1> QED
  BY <1>1, <1>2

-----------------------------------------------------------------------------
\* Ascending enumerations, and what is taken at their positions.

Increasing(at, n) == \A j, k \in 1..n : j < k => at[j] < at[k]

\* Every set of numbers below n has an ascending enumeration.
LEMMA AscendingExists ==
    \A n \in Nat : \A I \in SUBSET (0..(n - 1)) :
        \E at \in [1..Cardinality(I) -> I] : Increasing(at, Cardinality(I))
<1> DEFINE Enumerated(I) == \E at \in [1..Cardinality(I) -> I] : Increasing(at, Cardinality(I))
           S == {n \in Nat : \A I \in SUBSET (0..(n - 1)) : Enumerated(I)}
<1>1. 0 \in S
  <2> SUFFICES ASSUME NEW I \in SUBSET (0..(0 - 1)) PROVE Enumerated(I)
    OBVIOUS
  <2>1. I = {}
    OBVIOUS
  <2>2. Cardinality(I) = 0
    BY <2>1, FS_EmptySet
  <2>3. <<>> \in [1..Cardinality(I) -> I] /\ Increasing(<<>>, Cardinality(I))
    BY <2>1, <2>2 DEF Increasing
  <2> QED
    BY <2>3
<1>2. ASSUME NEW n \in Nat, n \in S PROVE n + 1 \in S
  <2> SUFFICES ASSUME NEW I \in SUBSET (0..((n + 1) - 1)) PROVE Enumerated(I)
    OBVIOUS
  <2>1. CASE n \notin I
    <3>1. I \in SUBSET (0..(n - 1))
      BY <2>1
    <3> QED
      BY <1>2, <3>1
  <2>2. CASE n \in I
    <3> DEFINE J == I \ {n}
               c == Cardinality(J)
    <3>1. J \in SUBSET (0..(n - 1))
      OBVIOUS
    <3>2. PICK at \in [1..c -> J] : Increasing(at, c)
      BY <1>2, <3>1
    <3>3. IsFiniteSet(J) /\ c \in Nat
      <4>1. IsFiniteSet(0..(n - 1))
        BY FS_Interval
      <4> QED
        BY <4>1, <3>1, FS_Subset, FS_CardinalityType
    <3>4. I = J \cup {n} /\ Cardinality(I) = c + 1
      <4>1. I = J \cup {n} /\ n \notin J
        BY <2>2
      <4> HIDE DEF J
      <4>2. Cardinality(J \cup {n}) = c + 1
        BY <3>3, <4>1, FS_AddElement
      <4> QED
        BY <4>1, <4>2
    <3> DEFINE longer == [k \in 1..(c + 1) |-> IF k = c + 1 THEN n ELSE at[k]]
    <3> HIDE DEF c
    <3>5. longer \in [1..(c + 1) -> I]
      BY <3>2, <3>3, <3>4
    <3>6. Increasing(longer, c + 1)
      <4> SUFFICES ASSUME NEW j \in 1..(c + 1), NEW k \in 1..(c + 1), j < k PROVE longer[j] < longer[k]
        BY DEF Increasing
      <4>1. j \in 1..c
        BY <3>3
      <4>2. at[j] \in 0..(n - 1)
        BY <3>1, <3>2, <4>1
      <4>3. k # c + 1 => k \in 1..c /\ at[j] < at[k]
        BY <3>2, <3>3, <4>1 DEF Increasing
      <4> QED
        BY <4>1, <4>2, <4>3, <3>3
    <3> QED
      BY <3>4, <3>5, <3>6
  <2> QED
    BY <2>1, <2>2
<1> HIDE DEF S
<1>3. S = Nat
  <2>1. S \in SUBSET Nat
    BY DEF S
  <2> QED
    BY <1>1, <1>2, <2>1, Induction
<1> QED
  BY <1>3 DEF S

\* Ascending(I) lists I in ascending order, each number once.
LEMMA AscendingFacts ==
    ASSUME NEW n \in Nat, NEW I \in SUBSET (0..n)
    PROVE  LET at == Ascending(I)
               c == Cardinality(I)
           IN  /\ c \in Nat
               /\ at \in [1..c -> I]
               /\ \A j, k \in 1..c : j < k => at[j] < at[k]
               /\ \A j, k \in 1..c : at[j] = at[k] => j = k
               /\ \A i \in I : \E k \in 1..c : at[k] = i
<1> DEFINE at == Ascending(I)
           c == Cardinality(I)
<1>1. IsFiniteSet(I) /\ c \in Nat
  <2>1. IsFiniteSet(0..n)
    BY FS_Interval
  <2> QED
    BY <2>1, FS_Subset, FS_CardinalityType
<1>2. at \in [1..c -> I] /\ \A j, k \in 1..c : j < k => at[j] < at[k]
  <2>1. n + 1 \in Nat /\ I \in SUBSET (0..((n + 1) - 1))
    OBVIOUS
  <2> QED
    BY <2>1, AscendingExists DEF Ascending, Increasing
<1> HIDE DEF at
<1>3. \A j, k \in 1..c : at[j] = at[k] => j = k
  <2> SUFFICES ASSUME NEW j \in 1..c, NEW k \in 1..c, at[j] = at[k], j # k PROVE FALSE
    OBVIOUS
  <2> HIDE DEF c
  <2>1. at[j] \in I /\ at[k] \in I
    BY <1>2
  <2>2. j < k \/ k < j
    BY <1>1
  <2>3. \A i \in I : i \in Nat
    OBVIOUS
  <2>4. at[j] \in Nat /\ at[k] \in Nat
    BY <2>1, <2>3
  <2> QED
    BY <1>2, <2>2, <2>4
<1>4. at \in Surjection(1..c, I)
  <2>1. at \in Injection(1..c, I)
    BY <1>2, <1>3 DEF Injection, IsInjective
  <2>2. Cardinality(1..c) = Cardinality(I)
    BY <1>1, FS_Interval
  <2> QED
    BY <1>1, <2>1, <2>2, FS_Injection
<1>5. \A i \in I : \E k \in 1..c : at[k] = i
  BY <1>4 DEF Surjection
<1> QED
  BY <1>1, <1>2, <1>3, <1>5 DEF at

\* t holds entries of s, one for each position of I, in their order.
Selects(at, t, s, I) ==
    /\ Len(t) = Cardinality(I)
    /\ \A k \in DOMAIN t : at[k] \in I /\ t[k] = s[at[k]]
    /\ \A j, k \in DOMAIN t : at[j] = at[k] => j = k
    /\ \A j, k \in DOMAIN t : j < k => at[j] < at[k]
    /\ \A i \in I : \E k \in DOMAIN t : at[k] = i

\* A subsequence holds entries of s, one for each position of I, in their order.
LEMMA SubsequenceFacts ==
    ASSUME NEW Item, NEW s \in Seq(Item), NEW I \in SUBSET DOMAIN s
    PROVE  \E at : Subsequence(s, I) \in Seq(Item) /\ Selects(at, Subsequence(s, I), s, I)
<1> DEFINE at == Ascending(I)
           c == Cardinality(I)
<1>1. Len(s) \in Nat /\ I \in SUBSET (0..Len(s))
  OBVIOUS
<1>2. /\ c \in Nat
      /\ at \in [1..c -> I]
      /\ \A j, k \in 1..c : j < k => at[j] < at[k]
      /\ \A j, k \in 1..c : at[j] = at[k] => j = k
      /\ \A i \in I : \E k \in 1..c : at[k] = i
  BY <1>1, AscendingFacts
<1>3. Subsequence(s, I) = [k \in 1..c |-> s[at[k]]]
  BY DEF Subsequence
<1> DEFINE t == Subsequence(s, I)
<1> HIDE DEF at, c
<1>4. \A k \in 1..c : at[k] \in I /\ s[at[k]] \in Item
  <2> SUFFICES ASSUME NEW k \in 1..c PROVE at[k] \in I /\ s[at[k]] \in Item
    OBVIOUS
  <2>1. at[k] \in I
    BY <1>2
  <2>2. at[k] \in DOMAIN s
    BY <2>1
  <2> QED
    BY <2>1, <2>2
<1>5. t \in Seq(Item) /\ DOMAIN t = 1..c /\ Len(t) = c
  BY <1>2, <1>3, <1>4
<1>6. \A k \in 1..c : t[k] = s[at[k]]
  BY <1>3
<1> HIDE DEF t
<1>7. t \in Seq(Item) /\ Selects(at, t, s, I)
  BY <1>2, <1>4, <1>5, <1>6 DEF Selects, c
<1> QED
  BY <1>7 DEF t

\* All of s is s.
LEMMA WholeSubsequence ==
    ASSUME NEW Item, NEW s \in Seq(Item)
    PROVE  Subsequence(s, DOMAIN s) = s
<1> DEFINE n == Len(s)
           t == Subsequence(s, DOMAIN s)
<1>1. PICK at : t \in Seq(Item) /\ Selects(at, t, s, DOMAIN s)
  <2>1. DOMAIN s \in SUBSET DOMAIN s
    OBVIOUS
  <2> QED
    BY <2>1, SubsequenceFacts
<1>2. n \in Nat /\ DOMAIN s = 1..n /\ Cardinality(DOMAIN s) = n
  <2>1. n \in Nat /\ DOMAIN s = 1..n
    OBVIOUS
  <2>2. Cardinality(1..n) = n
    BY <2>1, FS_Interval
  <2> QED
    BY <2>1, <2>2
<1> HIDE DEF t, n
<1>3. /\ Len(t) = n /\ DOMAIN t = 1..n
      /\ \A k \in 1..n : at[k] \in 1..n /\ t[k] = s[at[k]]
      /\ \A j, k \in 1..n : at[j] = at[k] => j = k
      /\ \A j, k \in 1..n : j < k => at[j] < at[k]
      /\ \A i \in 1..n : \E k \in 1..n : at[k] = i
  <2>1. Len(t) = n /\ DOMAIN t = 1..n
    <3>1. Len(t) = n
      BY <1>1, <1>2 DEF Selects
    <3> QED
      BY <1>1, <3>1
  <2> QED
    BY <1>1, <1>2, <2>1 DEF Selects
<1>4. \A k \in 1..n : at[k] = k
  <2> DEFINE moved == {k \in 1..n : at[k] # k}
  <2> SUFFICES ASSUME moved # {} PROVE FALSE
    OBVIOUS
  <2>1. moved \in SUBSET Nat
    BY <1>2
  <2>2. PICK k \in moved : \A j \in moved : k <= j
    BY <2>1, LeastNatural
  <2>3. k \in 1..n /\ at[k] # k /\ at[k] \in 1..n
    BY <1>3, <2>2
  <2>4. \A i \in 1..n : i < k => at[i] = i
    <3> SUFFICES ASSUME NEW i \in 1..n, i < k, at[i] # i PROVE FALSE
      OBVIOUS
    <3>1. i \in moved
      OBVIOUS
    <3> QED
      BY <1>2, <2>2, <2>3, <3>1
  <2>5. PICK j \in 1..n : at[j] = k
    BY <1>3, <2>3
  <2>6. j > k
    BY <1>2, <2>3, <2>4, <2>5
  <2>7. at[k] < k
    BY <1>3, <2>3, <2>5, <2>6
  <2>8. at[at[k]] = at[k]
    BY <2>3, <2>4, <2>7
  <2> QED
    BY <1>3, <2>3, <2>8
<1>5. t = s
  <2>1. \A k \in 1..n : t[k] = s[k]
    BY <1>3, <1>4
  <2> QED
    BY <1>1, <1>2, <1>3, <2>1
<1> QED
  BY <1>5 DEF t

-----------------------------------------------------------------------------
\* There are at most k values of a function at 1 to k.
LEMMA ImageBound ==
    ASSUME NEW k \in Nat, NEW f, NEW S, S \subseteq {f[m] : m \in 1..k}
    PROVE  IsFiniteSet(S) /\ Cardinality(S) \in Nat /\ Cardinality(S) <= k
<1> DEFINE T == {f[m] : m \in 1..k}
           g == [m \in 1..k |-> f[m]]
<1>1. g \in Surjection(1..k, T)
  BY DEF Surjection
<1>2. IsFiniteSet(1..k) /\ Cardinality(1..k) = k
  BY FS_Interval
<1> HIDE DEF T, g
<1>3. IsFiniteSet(T) /\ Cardinality(T) <= k
  BY <1>1, <1>2, FS_Surjection
<1>4. IsFiniteSet(S) /\ Cardinality(S) <= Cardinality(T)
  BY <1>3, FS_Subset DEF T
<1>5. Cardinality(S) \in Nat /\ Cardinality(T) \in Nat
  BY <1>3, <1>4, FS_CardinalityType
<1> QED
  BY <1>3, <1>4, <1>5
=============================================================================
