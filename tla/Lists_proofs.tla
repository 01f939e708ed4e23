---------------------------- MODULE Lists_proofs ----------------------------
(***************************************************************************)
(* Facts about lists that several proofs need: what a list comprehension   *)
(* keeps, what joining lists or adding numbers up gives, and the two forms *)
(* of induction they rest on, said of a set of numbers.                    *)
(***************************************************************************)
EXTENDS Lists, Integers, SequencesExt, FiniteSetTheorems, FunctionTheorems, WellFoundedInduction, TLAPS

LEMMA LeastNumber ==
  ASSUME NEW T, T \subseteq Nat, T # {}
  PROVE  \E x \in T : \A y \in T : x <= y
<1> DEFINE R == OpToRel(<, Nat)
<1>1. PICK x \in T : \A y \in T : ~(<<y, x>> \in R)
  BY NatLessThanWellFounded, WFMin, Zenon
<1>2. ASSUME NEW y \in T, y < x PROVE FALSE
  <2>1. <<y, x>> \in Nat \X Nat
    OBVIOUS
  <2>2. <<y, x>>[1] = y /\ <<y, x>>[2] = x
    OBVIOUS
  <2>3. <<y, x>> \in R
    BY <1>2, <2>1, <2>2, Zenon DEF OpToRel
  <2>4. QED
    BY <1>1, <2>3, Zenon
<1>3. ASSUME NEW y \in T PROVE x <= y
  BY <1>2, SMT
<1>4. QED
  BY <1>3

(* A bounded set of numbers has a largest.                                    *)
LEMMA GreatestNumber ==
  ASSUME NEW N \in Nat, NEW T, T \subseteq 0..N, T # {}
  PROVE  \E x \in T : \A y \in T : x >= y
<1> DEFINE U == {k \in 0..N : \A y \in T : y <= k}
<1>1. N \in U /\ U \subseteq Nat
  OBVIOUS
<1>2. PICK u \in U : \A k \in U : u <= k
  BY <1>1, LeastNumber
<1>3. u \in T
  <2>1. SUFFICES ASSUME u \notin T PROVE FALSE
    OBVIOUS
  <2>2. \A y \in T : y \in Nat /\ y < u
    <3> SUFFICES ASSUME NEW y \in T PROVE y \in Nat /\ y < u
      OBVIOUS
    <3>1. y \in Nat /\ u \in Nat /\ y <= u /\ y # u
      BY <1>1, <1>2, <2>1
    <3>2. QED
      BY <3>1
  <2> HIDE DEF U
  <2>3. PICK y0 \in T : y0 \in Nat /\ y0 < u
    BY <2>2
  <2>4. u \in Nat /\ u <= N
    BY <1>2 DEF U
  <2>5. u - 1 \in 0..N
    BY <2>3, <2>4
  <2>6. \A y \in T : y <= u - 1
    BY <2>2, <2>4
  <2>7. u - 1 \in U
    BY <2>5, <2>6 DEF U
  <2>8. QED
    BY <1>2, <2>4, <2>7
<1>4. QED
  BY <1>2, <1>3

(* The smallest and the largest of some numbers.                              *)
LEMMA MinIs ==
  ASSUME NEW T, T \subseteq Nat, T # {}
  PROVE  Min(T) \in T /\ \A y \in T : Min(T) <= y
<1>1. \E x \in T : \A y \in T : x <= y
  BY LeastNumber
<1>2. QED
  BY <1>1, Zenon DEF Min

LEMMA MaxIs ==
  ASSUME NEW N \in Nat, NEW T, T \subseteq 0..N, T # {}
  PROVE  Max(T) \in T /\ \A y \in T : y <= Max(T)
<1>1. \E x \in T : \A y \in T : x >= y
  BY GreatestNumber
<1>2. Max(T) \in T /\ \A y \in T : Max(T) >= y
  BY <1>1, Zenon DEF Max
<1>3. QED
  BY <1>2

(* Induction up to a number. *)
LEMMA CountingUp ==
  ASSUME NEW N \in Nat, NEW S, 0 \in S, \A n \in 0..N : n < N /\ n \in S => n + 1 \in S
  PROVE  N \in S /\ \A n \in 0..N : n \in S
<1> SUFFICES ASSUME ~(\A n \in 0..N : n \in S) PROVE FALSE
  OBVIOUS
<1> DEFINE T == (0..N) \ S
<1>1. T \subseteq Nat /\ T # {}
  OBVIOUS
<1>2. PICK m \in T : \A y \in T : m <= y
  BY <1>1, LeastNumber
<1>3. m \in 0..N /\ m \notin S /\ m # 0
  BY <1>2
<1>4. m - 1 \in 0..N /\ m - 1 < N /\ m - 1 + 1 = m /\ ~(m <= m - 1)
  BY <1>3
<1>5. m - 1 \in S
  BY <1>2, <1>4
<1>6. QED
  BY <1>3, <1>4, <1>5

(* A function of the first n numbers is a list.                              *)
LEMMA AsSequence ==
  ASSUME NEW n \in Nat, NEW g, DOMAIN g = 1..n, g = [i \in 1..n |-> g[i]]
  PROVE  IsSequence(g) /\ Len(g) = n
<1>1. Len(g) = n
  OBVIOUS
<1>2. QED
  BY <1>1 DEF IsSequence

-----------------------------------------------------------------------------
LEMMA FirstNumbers ==
  ASSUME NEW n \in Nat
  PROVE  IsFiniteSet(1..n) /\ Cardinality(1..n) = n
  BY FS_Interval

(* The numbers of a finite set can be put in order, and then each has a place *)
(* of its own: the place is how many are not larger.                         *)
LEMMA InOrderExists ==
  ASSUME NEW P \in SUBSET Nat, IsFiniteSet(P)
  PROVE  \E at \in [1..Cardinality(P) -> P] :
           \A i, j \in DOMAIN at : i < j => at[i] < at[j]
<1> DEFINE n == Cardinality(P)
<1> DEFINE UpTo(a) == {k \in P : k <= a}
<1> DEFINE rank == [a \in P |-> Cardinality(UpTo(a))]
<1>1. n \in Nat /\ IsFiniteSet(1..n) /\ Cardinality(1..n) = n
  <2>1. n \in Nat
    BY FS_CardinalityType
  <2>2. QED
    BY <2>1, FirstNumbers
<1>2. ASSUME NEW a \in P PROVE IsFiniteSet(UpTo(a)) /\ Cardinality(UpTo(a)) \in 1..n
  <2>1. IsFiniteSet(UpTo(a)) /\ Cardinality(UpTo(a)) <= n
    BY FS_Subset
  <2>2. Cardinality(UpTo(a)) \in Nat
    BY <2>1, FS_CardinalityType
  <2>3. a \in UpTo(a)
    OBVIOUS
  <2>4. Cardinality(UpTo(a)) # 0
    BY <2>1, <2>3, FS_EmptySet
  <2>5. QED
    BY <1>1, <2>1, <2>2, <2>4
<1>3. ASSUME NEW a \in P, NEW b \in P, a < b PROVE rank[a] < rank[b]
  <2>1. UpTo(a) \subseteq UpTo(b) /\ b \in UpTo(b) /\ b \notin UpTo(a)
    <3>1. a \in Nat /\ b \in Nat /\ \A k \in P : k \in Nat
      OBVIOUS
    <3>2. (\A k \in P : k <= a => k <= b) /\ b <= b /\ ~(b <= a)
      BY <1>3, <3>1
    <3>3. QED
      BY <3>2, Zenon
  <2>2. IsFiniteSet(UpTo(a)) /\ IsFiniteSet(UpTo(b))
    BY <1>2
  <2> HIDE DEF UpTo
  <2>3. Cardinality(UpTo(a)) <= Cardinality(UpTo(b)) /\ Cardinality(UpTo(a)) # Cardinality(UpTo(b))
    BY <2>1, <2>2, FS_Subset
  <2>4. Cardinality(UpTo(a)) \in Nat /\ Cardinality(UpTo(b)) \in Nat
    BY <1>1, <1>2
  <2>5. QED
    BY <2>3, <2>4
<1>4. rank \in [P -> 1..n]
  BY <1>2
<1> HIDE DEF rank, UpTo
<1>5. rank \in Injection(P, 1..n)
  <2>1. \A a, b \in P : rank[a] = rank[b] => a = b
    <3> SUFFICES ASSUME NEW a \in P, NEW b \in P, rank[a] = rank[b], a # b PROVE FALSE
      OBVIOUS
    <3>1. a < b \/ b < a
      OBVIOUS
    <3>2. rank[a] \in Nat /\ rank[b] \in Nat
      BY <1>1, <1>4
    <3>3. QED
      BY <1>3, <3>1, <3>2
  <2>2. QED
    BY <1>4, <2>1 DEF Injection, IsInjective
<1>6. rank \in Surjection(P, 1..n)
  BY <1>1, <1>5, FS_Injection
<1>7. \A j \in 1..n : \E a \in P : rank[a] = j
  BY <1>6 DEF Surjection
<1> DEFINE at == [j \in 1..n |-> CHOOSE a \in P : rank[a] = j]
<1>8. at \in [1..n -> P] /\ \A j \in 1..n : rank[at[j]] = j
  BY <1>7
<1> HIDE DEF at, n
<1>9. ASSUME NEW i \in 1..n, NEW j \in 1..n, i < j PROVE at[i] < at[j]
  <2>1. at[i] \in P /\ at[j] \in P /\ rank[at[i]] = i /\ rank[at[j]] = j
    BY <1>8
  <2>2. at[i] < at[j] \/ at[i] = at[j] \/ at[j] < at[i]
    <3>1. at[i] \in Nat /\ at[j] \in Nat
      BY <2>1
    <3>2. QED
      BY <3>1
  <2>3. ~(at[j] < at[i])
    <3>1. ASSUME at[j] < at[i] PROVE FALSE
      <4>1. rank[at[j]] < rank[at[i]]
        BY <1>3, <2>1, <3>1
      <4>2. j < i
        BY <2>1, <4>1
      <4>3. QED
        BY <1>1, <1>9, <4>2
    <3>2. QED
      BY <3>1
  <2>4. at[i] # at[j]
    BY <1>1, <1>9, <2>1
  <2>5. QED
    BY <2>2, <2>3, <2>4
<1>10. DOMAIN at = 1..n
  BY <1>8
<1>11. QED
  BY <1>8, <1>9, <1>10 DEF n

LEMMA InOrderFacts ==
  ASSUME NEW P \in SUBSET Nat, IsFiniteSet(P)
  PROVE  /\ InOrder(P) \in [1..Cardinality(P) -> P]
         /\ \A i, j \in 1..Cardinality(P) : i < j => InOrder(P)[i] < InOrder(P)[j]
         /\ \A a \in P : \E i \in 1..Cardinality(P) : InOrder(P)[i] = a
         /\ Cardinality(P) \in Nat
<1> DEFINE n == Cardinality(P)
<1> DEFINE at == InOrder(P)
<1>1. n \in Nat /\ IsFiniteSet(1..n) /\ Cardinality(1..n) = n
  <2>1. n \in Nat
    BY FS_CardinalityType
  <2>2. QED
    BY <2>1, FirstNumbers
<1>2. at \in [1..n -> P] /\ \A i, j \in DOMAIN at : i < j => at[i] < at[j]
  BY InOrderExists DEF InOrder
<1> HIDE DEF at
<1>3. \A i, j \in 1..n : i < j => at[i] < at[j]
  BY <1>2
<1>4. at \in Injection(1..n, P)
  <2>1. \A i, j \in 1..n : at[i] = at[j] => i = j
    <3> SUFFICES ASSUME NEW i \in 1..n, NEW j \in 1..n, at[i] = at[j], i # j PROVE FALSE
      OBVIOUS
    <3>1. i < j \/ j < i
      BY <1>1
    <3>2. at[i] \in Nat /\ at[j] \in Nat
      BY <1>2
    <3>3. QED
      BY <1>3, <3>1, <3>2
  <2>2. QED
    BY <1>2, <2>1 DEF Injection, IsInjective
<1>5. at \in Surjection(1..n, P)
  BY <1>1, <1>4, FS_Injection
<1>6. \A a \in P : \E i \in 1..n : at[i] = a
  BY <1>5 DEF Surjection
<1>7. QED
  BY <1>1, <1>2, <1>3, <1>6 DEF at

(* Some of the first numbers in order, as a list.                             *)
LEMMA InOrderIs ==
  ASSUME NEW N \in Nat, NEW P, P \subseteq 1..N
  PROVE  /\ IsSequence(InOrder(P)) /\ Len(InOrder(P)) = Cardinality(P)
         /\ \A i \in 1..Len(InOrder(P)) : InOrder(P)[i] \in P
         /\ \A i, j \in 1..Len(InOrder(P)) : i < j => InOrder(P)[i] < InOrder(P)[j]
         /\ \A a \in P : \E i \in 1..Len(InOrder(P)) : InOrder(P)[i] = a
<1>1. IsFiniteSet(P) /\ P \in SUBSET Nat
  <2>1. IsFiniteSet(1..N)
    BY FirstNumbers
  <2>2. IsFiniteSet(P)
    BY <2>1, FS_Subset
  <2>3. QED
    BY <2>2
<1> DEFINE n == Cardinality(P)
           s == InOrder(P)
<1>2. /\ s \in [1..n -> P] /\ n \in Nat
      /\ \A i, j \in 1..n : i < j => s[i] < s[j]
      /\ \A a \in P : \E i \in 1..n : s[i] = a
  BY <1>1, InOrderFacts
<1> HIDE DEF s, n
<1>3. DOMAIN s = 1..n /\ s = [i \in 1..n |-> s[i]] /\ \A i \in 1..n : s[i] \in P
  BY <1>2
<1>4. IsSequence(s) /\ Len(s) = n
  BY <1>2, <1>3, AsSequence
<1>5. QED
  BY <1>2, <1>3, <1>4 DEF s, n

-----------------------------------------------------------------------------
Chosen(s, K) == InOrder(PlacesOf(s, K))

(* What a list comprehension keeps: each item from a place of its own, the    *)
(* places in the list's order, and nothing that passes is missed.            *)
KeptInOrder(s, K) ==
  /\ \A i \in DOMAIN Kept(s, K) :
       /\ Chosen(s, K)[i] \in 1..Len(s)
       /\ Kept(s, K)[i] = s[Chosen(s, K)[i]] /\ Kept(s, K)[i] \in K
  /\ \A i, j \in DOMAIN Kept(s, K) : i < j => Chosen(s, K)[i] < Chosen(s, K)[j]
  /\ \A a \in 1..Len(s) : s[a] \in K => \E i \in DOMAIN Kept(s, K) : Chosen(s, K)[i] = a

LEMMA KeptFacts ==
  ASSUME NEW S, NEW s \in Seq(S), NEW K
  PROVE  Kept(s, K) \in Seq(S) /\ Len(Kept(s, K)) <= Len(s) /\ KeptInOrder(s, K)
<1> DEFINE P == PlacesOf(s, K)
<1> DEFINE at == Chosen(s, K)
<1> DEFINE n == Cardinality(P)
<1>1. /\ P \subseteq 1..Len(s) /\ P \in SUBSET Nat /\ Len(s) \in Nat
      /\ \A a \in P : s[a] \in S /\ s[a] \in K
      /\ \A a \in 1..Len(s) : s[a] \in K => a \in P
  BY DEF PlacesOf
<1>2. IsFiniteSet(1..Len(s)) /\ Cardinality(1..Len(s)) = Len(s)
  BY <1>1, FirstNumbers
<1>3. IsFiniteSet(P) /\ n <= Len(s)
  BY <1>1, <1>2, FS_Subset
<1> HIDE DEF P
<1>4. /\ at \in [1..n -> P] /\ n \in Nat
      /\ \A i, j \in 1..n : i < j => at[i] < at[j]
      /\ \A a \in P : \E i \in 1..n : at[i] = a
  BY <1>1, <1>3, InOrderFacts DEF Chosen, P
<1>5. Kept(s, K) = [i \in 1..n |-> s[at[i]]]
  BY <1>4 DEF Kept, Chosen, P
<1> HIDE DEF at, n
<1>6. DOMAIN Kept(s, K) = 1..n /\ \A i \in 1..n : Kept(s, K)[i] = s[at[i]]
  BY <1>5
<1>7. Kept(s, K) \in [1..n -> S]
  BY <1>1, <1>4, <1>5
<1>8. Kept(s, K) \in Seq(S) /\ Len(Kept(s, K)) = n
  BY <1>4, <1>7
<1>9. ASSUME NEW i \in 1..n PROVE at[i] \in 1..Len(s) /\ Kept(s, K)[i] = s[at[i]] /\ Kept(s, K)[i] \in K
  BY <1>1, <1>4, <1>6
<1>10. \A a \in 1..Len(s) : s[a] \in K => \E i \in 1..n : at[i] = a
  BY <1>1, <1>4
<1>11. QED
  BY <1>3, <1>4, <1>6, <1>8, <1>9, <1>10 DEF at, KeptInOrder

(* One kept before another stood before it. *)
LEMMA KeptOrder ==
  ASSUME NEW S, NEW s \in Seq(S), NEW K,
         NEW i \in DOMAIN Kept(s, K), NEW j \in DOMAIN Kept(s, K), i < j
  PROVE  \E a, b \in 1..Len(s) : a < b /\ s[a] = Kept(s, K)[i] /\ s[b] = Kept(s, K)[j]
<1>1. KeptInOrder(s, K)
  BY KeptFacts
<1>2. QED
  BY <1>1, Zenon DEF KeptInOrder

(* And the other way around. *)
LEMMA KeptFollows ==
  ASSUME NEW S, NEW s \in Seq(S), NEW K, NEW p \in K, NEW q \in K, Follows(s, p, q)
  PROVE  Follows(Kept(s, K), p, q)
<1> DEFINE kept == Kept(s, K)
<1>1. PICK a \in 1..Len(s), b \in 1..Len(s) : a < b /\ s[a] = p /\ s[b] = q
  BY DEF Follows
<1>2. kept \in Seq(S) /\ KeptInOrder(s, K)
  BY KeptFacts
<1>3. PICK i \in DOMAIN kept : Chosen(s, K)[i] = a
  BY <1>1, <1>2, Zenon DEF KeptInOrder
<1>4. PICK j \in DOMAIN kept : Chosen(s, K)[j] = b
  BY <1>1, <1>2, Zenon DEF KeptInOrder
<1>5. i \in Nat /\ j \in Nat /\ a \in Nat /\ b \in Nat
  BY <1>2
<1>6. kept[i] = p /\ kept[j] = q /\ (j < i => b < a)
  BY <1>1, <1>3, <1>4, <1>2, Zenon DEF KeptInOrder
<1> HIDE DEF kept
<1>7. i < j
  BY <1>1, <1>3, <1>4, <1>5, <1>6
<1>8. QED
  BY <1>6, <1>7 DEF Follows, kept

(* A list whose items differ still has items that differ. *)
LEMMA KeptDistinct ==
  ASSUME NEW S, NEW s \in Seq(S), NEW K, \A a, b \in 1..Len(s) : s[a] = s[b] => a = b
  PROVE  \A i, j \in DOMAIN Kept(s, K) : Kept(s, K)[i] = Kept(s, K)[j] => i = j
<1> DEFINE kept == Kept(s, K)
<1> SUFFICES ASSUME NEW i \in DOMAIN kept, NEW j \in DOMAIN kept, kept[i] = kept[j], i # j
             PROVE  FALSE
  OBVIOUS
<1>1. kept \in Seq(S)
  BY KeptFacts
<1>2. i < j \/ j < i
  BY <1>1
<1>3. QED
  BY <1>2, KeptOrder

(* The first stays the first if it stays at all. *)
LEMMA KeptFirst ==
  ASSUME NEW S, NEW s \in Seq(S), NEW K, s # <<>>, s[1] \in K
  PROVE  Kept(s, K) # <<>> /\ Kept(s, K)[1] = s[1]
<1> DEFINE kept == Kept(s, K)
<1>1. 1 \in 1..Len(s)
  OBVIOUS
<1>2. kept \in Seq(S) /\ KeptInOrder(s, K)
  BY KeptFacts
<1>3. PICK i \in DOMAIN kept : Chosen(s, K)[i] = 1
  BY <1>1, <1>2, Zenon DEF KeptInOrder
<1>4. 1 \in DOMAIN kept /\ 1 <= i /\ i \in Nat
  BY <1>3, <1>2
<1>5. Chosen(s, K)[1] \in 1..Len(s) /\ kept[1] = s[Chosen(s, K)[1]] /\ (1 < i => Chosen(s, K)[1] < 1)
  BY <1>3, <1>2, <1>4, Zenon DEF KeptInOrder
<1> HIDE DEF kept
<1>6. i = 1
  BY <1>4, <1>5
<1>7. kept # <<>>
  BY <1>2, <1>4
<1>8. QED
  BY <1>3, <1>5, <1>6, <1>7 DEF kept

(* How many are kept: one for each place that passes.                         *)
LEMMA KeptLength ==
  ASSUME NEW S, NEW s \in Seq(S), NEW K
  PROVE  IsFiniteSet(PlacesOf(s, K)) /\ Len(Kept(s, K)) = Cardinality(PlacesOf(s, K))
<1> DEFINE P == PlacesOf(s, K)
<1>1. P \subseteq 1..Len(s) /\ P \in SUBSET Nat /\ Len(s) \in Nat
  BY DEF PlacesOf
<1>2. IsFiniteSet(P)
  BY <1>1, FirstNumbers, FS_Subset
<1>3. InOrder(P) \in [1..Cardinality(P) -> P] /\ Cardinality(P) \in Nat
  BY <1>1, <1>2, InOrderFacts
<1>4. Kept(s, K) = [i \in 1..Cardinality(P) |-> s[InOrder(P)[i]]]
  BY <1>3 DEF Kept
<1> HIDE DEF P
<1>5. Len(Kept(s, K)) = Cardinality(P)
  BY <1>3, <1>4
<1>6. QED
  BY <1>2, <1>5 DEF P

(* What passes one of two tests that exclude each other is kept by one of two *)
(* comprehensions.                                                            *)
LEMMA KeptApart ==
  ASSUME NEW S, NEW s \in Seq(S), NEW K, NEW L, K \cap L = {}
  PROVE  Len(Kept(s, K)) + Len(Kept(s, L)) <= Len(s)
<1> DEFINE P == PlacesOf(s, K)
           Q == PlacesOf(s, L)
<1>1. P \cup Q \subseteq 1..Len(s) /\ P \cap Q = {} /\ Len(s) \in Nat
  BY DEF PlacesOf
<1>2. /\ IsFiniteSet(P) /\ Len(Kept(s, K)) = Cardinality(P)
      /\ IsFiniteSet(Q) /\ Len(Kept(s, L)) = Cardinality(Q)
  BY KeptLength
<1> HIDE DEF P, Q
<1>3. /\ Cardinality(P \cup Q) = Cardinality(P) + Cardinality(Q) - Cardinality(P \cap Q)
      /\ Cardinality(P \cap Q) = 0 /\ Cardinality(P) \in Nat /\ Cardinality(Q) \in Nat
  BY <1>1, <1>2, FS_Union, FS_EmptySet, FS_CardinalityType
<1>4. Cardinality(P \cup Q) <= Len(s)
  BY <1>1, FirstNumbers, FS_Subset
<1>5. QED
  BY <1>2, <1>3, <1>4

(* Where an item is kept: after those before it that are kept too.            *)
LEMMA KeptPlace ==
  ASSUME NEW S, NEW s \in Seq(S), NEW K, NEW a \in 1..Len(s), s[a] \in K,
         NEW B, \A b : b \in B <=> b \in 1..a /\ s[b] \in K
  PROVE  Cardinality(B) \in 1..Len(Kept(s, K)) /\ Kept(s, K)[Cardinality(B)] = s[a]
<1> DEFINE kept == Kept(s, K)
           at == Chosen(s, K)
<1>1. KeptInOrder(s, K) /\ DOMAIN kept = 1..Len(kept) /\ Len(kept) \in Nat
  BY KeptFacts
<1>2. PICK i \in DOMAIN kept : at[i] = a
  BY <1>1 DEF KeptInOrder
<1>3. kept[i] = s[a]
  BY <1>1, <1>2 DEF KeptInOrder
<1>4. \A j \in DOMAIN kept : at[j] \in 1..Len(s) /\ kept[j] = s[at[j]] /\ kept[j] \in K
  BY <1>1 DEF KeptInOrder
<1>5. \A j, k \in DOMAIN kept : j < k => at[j] < at[k]
  BY <1>1 DEF KeptInOrder
<1>6. \A b \in 1..Len(s) : s[b] \in K => \E j \in DOMAIN kept : at[j] = b
  BY <1>1 DEF KeptInOrder
<1> HIDE DEF kept, at
<1>7. i \in Nat /\ i \in 1..Len(kept) /\ 1..i \subseteq DOMAIN kept
  BY <1>1, <1>2
<1> DEFINE f == [j \in 1..i |-> at[j]]
<1>8. f \in [1..i -> B]
  <2> SUFFICES ASSUME NEW j \in 1..i PROVE at[j] \in B
    OBVIOUS
  <2>1. j \in DOMAIN kept /\ (j < i \/ j = i)
    BY <1>7
  <2>2. at[j] \in 1..Len(s) /\ s[at[j]] \in K
    BY <1>4, <2>1
  <2>3. at[j] <= a
    BY <1>2, <1>5, <2>1, <2>2
  <2>4. QED
    BY <2>2, <2>3
<1>9. f \in Injection(1..i, B)
  <2>1. \A j, k \in 1..i : j # k => f[j] # f[k]
    <3> SUFFICES ASSUME NEW j \in 1..i, NEW k \in 1..i, j # k PROVE at[j] # at[k]
      OBVIOUS
    <3>1. j \in DOMAIN kept /\ k \in DOMAIN kept /\ (j < k \/ k < j)
      BY <1>7
    <3>2. at[j] \in Nat /\ at[k] \in Nat
      BY <1>4, <3>1
    <3>3. QED
      BY <1>5, <3>1, <3>2
  <2>2. QED
    BY <1>8, <2>1 DEF Injection, IsInjective
<1>10. f \in Surjection(1..i, B)
  <2>1. ASSUME NEW b \in B PROVE \E j \in 1..i : f[j] = b
    <3>1. PICK j \in DOMAIN kept : at[j] = b
      BY <1>6
    <3>2. j \in 1..Len(kept) /\ b <= a
      BY <1>1, <3>1
    <3>3. ~(i < j)
      BY <1>2, <1>5, <3>1, <3>2
    <3>4. j \in 1..i
      BY <1>7, <3>2, <3>3
    <3>5. QED
      BY <3>1, <3>4
  <2>2. QED
    BY <1>8, <2>1 DEF Surjection
<1>11. Cardinality(B) = i
  <2>1. IsFiniteSet(1..i) /\ Cardinality(1..i) = i
    BY <1>7, FirstNumbers
  <2>2. ExistsBijection(1..i, B)
    BY <1>9, <1>10 DEF ExistsBijection, Bijection
  <2> HIDE DEF f
  <2>3. QED
    BY <2>1, <2>2, FS_Bijection
<1>12. QED
  BY <1>3, <1>7, <1>11 DEF kept

-----------------------------------------------------------------------------
(* A running total, and that there is one for a list of numbers, of natural   *)
(* numbers too.                                                               *)
TotalsIn(s, sum, V) ==
  /\ DOMAIN sum = 0..Len(s) /\ sum[0] = 0
  /\ \A n \in 1..Len(s) : sum[n] = sum[n - 1] + s[n]
  /\ \A n \in 0..Len(s) : sum[n] \in V
Totals(s, sum) == TotalsIn(s, sum, Nat)

LEMMA AddedIn ==
  ASSUME NEW V \in {Nat, Int}, NEW s, Len(s) \in Nat, \A i \in 1..Len(s) : s[i] \in V
  PROVE  \E sum : TotalsIn(s, sum, V) /\ Added(s) = sum[Len(s)]
<1> DEFINE N == Len(s)
           Upto(n, g) == /\ DOMAIN g = 0..n /\ g[0] = 0
                         /\ \A k \in 1..n : g[k] = g[k - 1] + s[k]
                         /\ \A k \in 0..n : g[k] \in V
           T == {n \in 0..N : \E g : Upto(n, g)}
           Equation(g) == g = [n \in 0..N |-> IF n = 0 THEN 0 ELSE g[n - 1] + s[n]]
<1>0. 0 \in V /\ V \subseteq Int /\ \A x, y \in V : x + y \in V
  OBVIOUS
<1>1. 0 \in T
  <2>1. Upto(0, [n \in {0} |-> 0])
    BY <1>0
  <2>2. 0 \in 0..N
    OBVIOUS
  <2> HIDE DEF Upto
  <2>3. QED
    BY <2>1, <2>2
<1>2. ASSUME NEW n \in 0..N, n < N /\ n \in T PROVE n + 1 \in T
  <2>1. PICK g : Upto(n, g)
    BY <1>2
  <2> DEFINE h == [k \in 0..(n + 1) |-> IF k = n + 1 THEN g[n] + s[n + 1] ELSE g[k]]
  <2>2. s[n + 1] \in V /\ g[n] \in V /\ g[n] + s[n + 1] \in V
    <3>1. s[n + 1] \in V /\ g[n] \in V
      BY <1>2, <2>1
    <3>2. QED
      BY <1>0, <3>1, Zenon
  <2>3. h[0] = 0
    BY <2>1
  <2>4. \A k \in 1..(n + 1) : h[k] = h[k - 1] + s[k]
    BY <2>1
  <2>5. \A k \in 0..(n + 1) : h[k] \in V
    BY <2>1, <2>2
  <2>6. DOMAIN h = 0..(n + 1)
    OBVIOUS
  <2> HIDE DEF h
  <2>7. Upto(n + 1, h)
    BY <2>3, <2>4, <2>5, <2>6
  <2>8. n + 1 \in 0..N
    BY <1>2
  <2>9. QED
    BY <2>7, <2>8
<1> HIDE DEF T
<1>3. N \in T
  <2>1. \A n \in 0..N : n < N /\ n \in T => n + 1 \in T
    BY <1>2
  <2>2. QED
    BY <1>1, <2>1, CountingUp
<1>4. PICK g : Upto(N, g)
  BY <1>3 DEF T
<1>5. \A n \in 0..N : g[n] = IF n = 0 THEN 0 ELSE g[n - 1] + s[n]
  BY <1>4
<1>6. \E f : Equation(f)
  <2> DEFINE h == [n \in 0..N |-> g[n]]
  <2>1. \A n \in 0..N : h[n] = IF n = 0 THEN 0 ELSE h[n - 1] + s[n]
    BY <1>5
  <2>2. Equation(h)
    BY <2>1
  <2>3. QED
    BY <2>2
<1> DEFINE sum == CHOOSE f : Equation(f)
<1>7. Equation(sum)
  BY <1>6
<1>8. Added(s) = sum[N]
  BY DEF Added
<1> HIDE DEF sum
<1>9. DOMAIN sum = 0..N /\ sum[0] = 0 /\ \A n \in 1..N : sum[n] = sum[n - 1] + s[n]
  BY <1>7
<1>10. \A n \in 0..N : n \in {m \in 0..N : sum[m] \in V}
  <2> DEFINE U == {n \in 0..N : sum[n] \in V}
  <2>1. ASSUME NEW n \in 0..N, n < N /\ n \in U PROVE n + 1 \in U
    <3>1. sum[n + 1] = sum[n] + s[n + 1] /\ s[n + 1] \in V
      BY <1>9, <2>1
    <3>2. sum[n] \in V /\ n + 1 \in 0..N
      BY <2>1
    <3>3. sum[n + 1] \in V
      BY <1>0, <3>1, <3>2, Zenon
    <3>4. QED
      BY <3>2, <3>3
  <2>2. 0 \in U
    BY <1>0, <1>9
  <2> HIDE DEF U
  <2>3. \A n \in 0..N : n < N /\ n \in U => n + 1 \in U
    BY <2>1
  <2>4. \A n \in 0..N : n \in U
    BY <2>2, <2>3, CountingUp
  <2>5. QED
    BY <2>4 DEF U
<1>11. QED
  BY <1>8, <1>9, <1>10 DEF TotalsIn

LEMMA AddedIs ==
  ASSUME NEW s, Len(s) \in Nat, \A i \in 1..Len(s) : s[i] \in Nat
  PROVE  \E sum : Totals(s, sum) /\ Added(s) = sum[Len(s)]
BY AddedIn DEF Totals

(* Numbers that stay below others add up to less, and two lists to their sum. *)
LEMMA AddedBelow ==
  ASSUME NEW a, NEW b, NEW c, Len(a) \in Nat, Len(b) = Len(a), Len(c) = Len(a),
         \A i \in 1..Len(a) : a[i] \in Nat /\ b[i] \in Nat /\ c[i] \in Nat /\ a[i] + b[i] <= c[i]
  PROVE  /\ Added(a) + Added(b) <= Added(c)
         /\ Added(a) \in Nat /\ Added(b) \in Nat /\ Added(c) \in Nat
<1> DEFINE N == Len(a)
<1>1. PICK f : Totals(a, f) /\ Added(a) = f[N]
  BY AddedIs
<1>2. PICK g : Totals(b, g) /\ Added(b) = g[N]
  BY AddedIs
<1>3. PICK h : Totals(c, h) /\ Added(c) = h[N]
  BY AddedIs
<1>4. \A n \in 0..N : f[n] \in Nat /\ g[n] \in Nat /\ h[n] \in Nat
  BY <1>1, <1>2, <1>3 DEF Totals, TotalsIn
<1> DEFINE T == {n \in 0..N : f[n] + g[n] <= h[n]}
<1>5. 0 \in T
  BY <1>1, <1>2, <1>3 DEF Totals, TotalsIn
<1>6. ASSUME NEW n \in 0..N, n < N /\ n \in T PROVE n + 1 \in T
  <2>1. n + 1 \in 1..N /\ n + 1 - 1 = n
    BY <1>6
  <2>2. f[n + 1] = f[n] + a[n + 1] /\ g[n + 1] = g[n] + b[n + 1] /\ h[n + 1] = h[n] + c[n + 1]
    BY <1>1, <1>2, <1>3, <2>1 DEF Totals, TotalsIn
  <2>3. a[n + 1] \in Nat /\ b[n + 1] \in Nat /\ c[n + 1] \in Nat /\ a[n + 1] + b[n + 1] <= c[n + 1]
    BY <2>1
  <2>4. f[n] \in Nat /\ g[n] \in Nat /\ h[n] \in Nat /\ f[n] + g[n] <= h[n]
    BY <1>4, <1>6
  <2>5. f[n + 1] + g[n + 1] <= h[n + 1]
    <3>1. \A x, y, z, p, q, w \in Nat : x + y <= z /\ p + q <= w => x + p + (y + q) <= z + w
      OBVIOUS
    <3>2. f[n] + a[n + 1] + (g[n] + b[n + 1]) <= h[n] + c[n + 1]
      BY <2>3, <2>4, <3>1
    <3>3. QED
      BY <2>2, <3>2
  <2>6. n + 1 \in 0..N
    BY <2>1
  <2>7. QED
    BY <2>5, <2>6
<1> HIDE DEF T
<1>7. N \in T
  <2>1. \A n \in 0..N : n < N /\ n \in T => n + 1 \in T
    BY <1>6
  <2>2. QED
    BY <1>5, <2>1, CountingUp
<1>8. QED
  BY <1>1, <1>2, <1>3, <1>4, <1>7 DEF T

(* Changing one number changes the sum by as much; numbers that are 0 add up  *)
(* to 0.                                                                      *)
LEMMA AddedChanged ==
  ASSUME NEW a, NEW b, Len(a) \in Nat, Len(b) = Len(a), NEW j \in 1..Len(a),
         \A i \in 1..Len(a) : a[i] \in Int /\ b[i] \in Int /\ (i # j => a[i] = b[i])
  PROVE  Added(b) = Added(a) + (b[j] - a[j]) /\ Added(a) \in Int
<1> DEFINE N == Len(a)
           d == b[j] - a[j]
<1>1. PICK f : TotalsIn(a, f, Int) /\ Added(a) = f[N]
  BY AddedIn
<1>2. PICK g : TotalsIn(b, g, Int) /\ Added(b) = g[N]
  BY AddedIn
<1> DEFINE T == {n \in 0..N : g[n] = IF n < j THEN f[n] ELSE f[n] + d}
<1>3. 0 \in T
  BY <1>1, <1>2 DEF TotalsIn
<1>4. ASSUME NEW n \in 0..N, n < N /\ n \in T PROVE n + 1 \in T
  <2>1. n + 1 \in 1..N /\ n + 1 - 1 = n /\ n + 1 \in 0..N
    BY <1>4
  <2>2. f[n + 1] = f[n] + a[n + 1] /\ g[n + 1] = g[n] + b[n + 1] /\ f[n] \in Int /\ g[n] \in Int
    BY <1>1, <1>2, <2>1 DEF TotalsIn
  <2>3. a[n + 1] \in Int /\ b[n + 1] \in Int /\ a[j] \in Int /\ b[j] \in Int
    BY <2>1
  <2>4. g[n] = IF n < j THEN f[n] ELSE f[n] + d
    BY <1>4
  <2>5. CASE n + 1 = j
    <3>1. g[n] = f[n] /\ d = b[n + 1] - a[n + 1] /\ ~(n + 1 < j)
      BY <2>4, <2>5
    <3>2. QED
      BY <2>1, <2>2, <2>3, <3>1
  <2>6. CASE n + 1 # j
    <3>1. a[n + 1] = b[n + 1] /\ (n < j <=> n + 1 < j) /\ d \in Int
      BY <2>1, <2>3, <2>6
    <3>2. QED
      BY <2>1, <2>2, <2>3, <2>4, <3>1
  <2>7. QED
    BY <2>5, <2>6
<1> HIDE DEF T
<1>5. N \in T
  <2>1. \A n \in 0..N : n < N /\ n \in T => n + 1 \in T
    BY <1>4
  <2>2. QED
    BY <1>3, <2>1, CountingUp
<1>6. f[N] \in Int
  BY <1>1 DEF TotalsIn
<1>7. QED
  BY <1>1, <1>2, <1>5, <1>6 DEF T

LEMMA AddedNothing ==
  ASSUME NEW s, Len(s) \in Nat, \A i \in 1..Len(s) : s[i] = 0
  PROVE  Added(s) = 0
<1> DEFINE N == Len(s)
<1>1. PICK f : TotalsIn(s, f, Int) /\ Added(s) = f[N]
  BY AddedIn
<1> DEFINE T == {n \in 0..N : f[n] = 0}
<1>2. 0 \in T
  BY <1>1 DEF TotalsIn
<1>3. \A n \in 0..N : n < N /\ n \in T => n + 1 \in T
  BY <1>1 DEF TotalsIn
<1> HIDE DEF T
<1>4. N \in T
  BY <1>2, <1>3, CountingUp
<1>5. QED
  BY <1>1, <1>4 DEF T

(* The sum of some of a list, as a running total.                             *)
OnlyAt(s, P) == [i \in DOMAIN s |-> IF i \in P THEN s[i] ELSE 0]
Running(s, P, f) ==
  /\ f[0] = 0 /\ AddedAt(s, P) = f[Len(s)]
  /\ \A n \in 1..Len(s) : f[n] = f[n - 1] + (IF n \in P THEN s[n] ELSE 0)
  /\ \A n \in 0..Len(s) : f[n] \in Int

LEMMA AddedAtIs ==
  ASSUME NEW s, IsSequence(s), \A i \in 1..Len(s) : s[i] \in Int, NEW P
  PROVE  AddedAt(s, P) \in Int /\ \E f : Running(s, P, f)
<1> DEFINE N == Len(s)
           m == OnlyAt(s, P)
<1>1. DOMAIN s = 1..N /\ N \in Nat
  BY DEF IsSequence
<1>2. m = [i \in 1..N |-> IF i \in P THEN s[i] ELSE 0]
  BY <1>1 DEF OnlyAt
<1>3. Len(m) = N /\ \A i \in 1..N : m[i] = IF i \in P THEN s[i] ELSE 0
  BY <1>1, <1>2
<1>4. AddedAt(s, P) = Added(m)
  BY DEF AddedAt, OnlyAt
<1> HIDE DEF m
<1>5. \A i \in 1..Len(m) : m[i] \in Int
  BY <1>3
<1>6. PICK f : TotalsIn(m, f, Int) /\ Added(m) = f[N]
  BY <1>1, <1>3, <1>5, AddedIn
<1>7. Running(s, P, f)
  BY <1>1, <1>3, <1>4, <1>6 DEF TotalsIn, Running
<1>8. QED
  BY <1>1, <1>7 DEF Running

(* Groups that do not overlap add up to what they make up together.           *)
LEMMA AddedByGroup ==
  ASSUME NEW s, IsSequence(s), \A i \in 1..Len(s) : s[i] \in Int,
         NEW M \in Nat, NEW G, NEW K,
         \A i \in 1..Len(s), j, k \in 1..M : i \in G[j] /\ i \in G[k] => j = k,
         \A i \in 1..Len(s) : i \in K <=> \E k \in 1..M : i \in G[k]
  PROVE  Added([k \in 1..M |-> AddedAt(s, G[k])]) = AddedAt(s, K)
<1> DEFINE N == Len(s)
           run(P) == CHOOSE f : Running(s, P, f)
           line(n) == [k \in 1..M |-> run(G[k])[n]]
           T == {n \in 0..N : Added(line(n)) = run(K)[n]}
<1>1. N \in Nat
  BY DEF IsSequence
<1>2. ASSUME NEW P PROVE Running(s, P, run(P))
  BY AddedAtIs
<1> HIDE DEF run
<1>3. ASSUME NEW n
      PROVE  Len(line(n)) = M /\ \A k \in 1..M : line(n)[k] = run(G[k])[n]
  OBVIOUS
<1>4. ASSUME NEW n \in 0..N PROVE \A k \in 1..M : line(n)[k] \in Int
  BY <1>2 DEF Running
<1>5. 0 \in T
  <2>1. \A k \in 1..M : line(0)[k] = 0
    BY <1>2 DEF Running
  <2> HIDE DEF line
  <2>2. Added(line(0)) = 0
    BY <1>3, <2>1, AddedNothing
  <2>3. QED
    BY <1>1, <1>2, <2>2 DEF Running
<1>6. ASSUME NEW n \in 0..N, n < N /\ n \in T PROVE n + 1 \in T
  <2>1. n + 1 \in 1..N /\ n + 1 - 1 = n /\ n + 1 \in 0..N
    BY <1>1, <1>6
  <2>2. ASSUME NEW P PROVE run(P)[n + 1] = run(P)[n] + (IF n + 1 \in P THEN s[n + 1] ELSE 0)
                           /\ run(P)[n] \in Int
    <3>1. Running(s, P, run(P))
      BY <1>2
    <3>2. QED
      BY <2>1, <3>1 DEF Running
  <2>3. Added(line(n)) = run(K)[n]
    BY <1>6
  <2>4. CASE n + 1 \in K
    <3>1. PICK j \in 1..M : n + 1 \in G[j]
      BY <2>1, <2>4
    <3>2. \A k \in 1..M : k # j => n + 1 \notin G[k]
      BY <2>1, <3>1
    <3>3. \A k \in 1..M : k # j => line(n + 1)[k] = line(n)[k]
      <4>1. ASSUME NEW k \in 1..M, k # j PROVE line(n + 1)[k] = line(n)[k]
        <5>1. run(G[k])[n + 1] = run(G[k])[n] + 0 /\ run(G[k])[n] \in Int
          BY <2>2, <3>2, <4>1
        <5>2. QED
          BY <5>1
      <4>2. QED
        BY <4>1
    <3>4. line(n + 1)[j] = line(n)[j] + s[n + 1] /\ line(n)[j] \in Int /\ s[n + 1] \in Int
      BY <2>1, <2>2, <3>1
    <3>5. \A k \in 1..M : line(n)[k] \in Int /\ line(n + 1)[k] \in Int
      BY <1>4, <2>1
    <3>6. Len(line(n)) = M /\ Len(line(n + 1)) = M
      BY <1>3
    <3> HIDE DEF line
    <3>7. Added(line(n + 1)) = Added(line(n)) + (line(n + 1)[j] - line(n)[j]) /\ Added(line(n)) \in Int
      BY <3>3, <3>5, <3>6, AddedChanged
    <3>8. Added(line(n + 1)) = Added(line(n)) + s[n + 1]
      BY <3>4, <3>7
    <3>9. run(K)[n + 1] = run(K)[n] + s[n + 1]
      BY <2>2, <2>4
    <3>10. QED
      BY <2>1, <2>3, <3>8, <3>9 DEF T
  <2>5. CASE n + 1 \notin K
    <3>1. \A k \in 1..M : run(G[k])[n + 1] = run(G[k])[n]
      <4>1. ASSUME NEW k \in 1..M PROVE run(G[k])[n + 1] = run(G[k])[n]
        <5>1. n + 1 \notin G[k]
          BY <2>1, <2>5
        <5>2. QED
          BY <2>2, <5>1
      <4>2. QED
        BY <4>1
    <3>2. line(n + 1) = line(n)
      BY <3>1
    <3>3. run(K)[n + 1] = run(K)[n]
      BY <2>2, <2>5
    <3> HIDE DEF line
    <3>4. QED
      BY <2>1, <2>3, <3>2, <3>3 DEF T
  <2>6. QED
    BY <2>4, <2>5
<1> HIDE DEF T
<1>7. N \in T
  <2>1. \A n \in 0..N : n < N /\ n \in T => n + 1 \in T
    BY <1>6
  <2>2. QED
    BY <1>1, <1>5, <2>1, CountingUp
<1>8. Added(line(N)) = run(K)[N]
  BY <1>7 DEF T
<1>9. run(K)[N] = AddedAt(s, K) /\ \A k \in 1..M : run(G[k])[N] = AddedAt(s, G[k])
  BY <1>2 DEF Running
<1>10. line(N) = [k \in 1..M |-> AddedAt(s, G[k])]
  BY <1>9
<1>11. QED
  BY <1>8, <1>9, <1>10

-----------------------------------------------------------------------------
LEMMA SequenceOf ==
  ASSUME NEW s, IsSequence(s), NEW S, \A i \in 1..Len(s) : s[i] \in S
  PROVE  s \in Seq(S)
<1>1. s \in [1..Len(s) -> S]
  BY DEF IsSequence
<1>2. QED
  BY <1>1 DEF IsSequence

LEMMA SequenceIs ==
  ASSUME NEW S, NEW s \in Seq(S)
  PROVE  IsSequence(s) /\ DOMAIN s = 1..Len(s) /\ \A i \in 1..Len(s) : s[i] \in S
BY DEF IsSequence

(* A list as a sequence over its items, and what a comprehension keeps of it. *)
LEMMA IsSeqOf ==
  ASSUME NEW s, IsSequence(s)
  PROVE  s \in Seq(Range(s)) /\ DOMAIN s = 1..Len(s) /\ Range(s) = {s[i] : i \in 1..Len(s)}
<1>1. DOMAIN s = 1..Len(s)
  BY DEF IsSequence
<1>2. Range(s) = {s[i] : i \in 1..Len(s)}
  BY <1>1 DEF Range
<1>3. QED
  BY <1>1, <1>2, SequenceOf

LEMMA ItemsAre ==
  ASSUME NEW s, IsSequence(s)
  PROVE  \A x \in Range(s) : \E i \in 1..Len(s) : x = s[i]
<1>1. DOMAIN s = 1..Len(s)
  BY DEF IsSequence
<1>2. QED
  BY <1>1 DEF Range

LEMMA KeptIs ==
  ASSUME NEW s, IsSequence(s), NEW K
  PROVE  /\ IsSequence(Kept(s, K)) /\ Len(Kept(s, K)) <= Len(s) /\ KeptInOrder(s, K)
         /\ \A i \in 1..Len(Kept(s, K)) : Kept(s, K)[i] \in K /\ Kept(s, K)[i] \in Range(s)
<1>1. s \in Seq(Range(s))
  BY IsSeqOf
<1>2. Kept(s, K) \in Seq(Range(s)) /\ Len(Kept(s, K)) <= Len(s) /\ KeptInOrder(s, K)
  BY <1>1, KeptFacts
<1>3. IsSequence(Kept(s, K)) /\ DOMAIN Kept(s, K) = 1..Len(Kept(s, K))
      /\ \A i \in 1..Len(Kept(s, K)) : Kept(s, K)[i] \in Range(s)
  BY <1>2, SequenceIs
<1>4. \A i \in DOMAIN Kept(s, K) : Kept(s, K)[i] \in K
  BY <1>2 DEF KeptInOrder
<1>5. QED
  BY <1>2, <1>3, <1>4

(* A list with one more item. *)
LEMMA Appending ==
  ASSUME NEW s, IsSequence(s), NEW e
  PROVE  /\ IsSequence(Append(s, e)) /\ Len(Append(s, e)) = Len(s) + 1 /\ Len(s) \in Nat
         /\ \A i \in 1..Len(s) : Append(s, e)[i] = s[i]
         /\ Append(s, e)[Len(s) + 1] = e
<1> DEFINE S == Range(s) \cup {e}
<1>1. s \in Seq(S)
  <2>1. \A i \in 1..Len(s) : s[i] \in S
    BY IsSeqOf
  <2> HIDE DEF S
  <2>2. QED
    BY <2>1, SequenceOf
<1>2. e \in S
  OBVIOUS
<1> HIDE DEF S
<1>3. Append(s, e) \in Seq(S) /\ Len(Append(s, e)) = Len(s) + 1 /\ Len(s) \in Nat
  BY <1>1, <1>2
<1>4. (\A i \in 1..Len(s) : Append(s, e)[i] = s[i]) /\ Append(s, e)[Len(s) + 1] = e
  BY <1>1, <1>2
<1>5. QED
  BY <1>3, <1>4, SequenceIs

(* Two lists joined. *)
LEMMA Joining ==
  ASSUME NEW s, NEW t, IsSequence(s), IsSequence(t)
  PROVE  /\ IsSequence(s \o t) /\ Len(s \o t) = Len(s) + Len(t)
         /\ \A i \in 1..Len(s) : (s \o t)[i] = s[i]
         /\ \A i \in 1..Len(t) : (s \o t)[Len(s) + i] = t[i]
<1> DEFINE S == {s[i] : i \in 1..Len(s)} \cup {t[i] : i \in 1..Len(t)}
<1>1. s \in Seq(S) /\ t \in Seq(S)
  BY SequenceOf
<1> HIDE DEF S
<1>2. s \o t \in Seq(S) /\ Len(s \o t) = Len(s) + Len(t)
  BY <1>1
<1>3. \A i \in 1..Len(s) : (s \o t)[i] = s[i]
  BY <1>1
<1>4. \A i \in 1..Len(t) : (s \o t)[Len(s) + i] = t[i]
  BY <1>1
<1>5. IsSequence(s \o t)
  BY <1>2, SequenceIs
<1>6. QED
  BY <1>2, <1>3, <1>4, <1>5

(* The first n of some lists joined to out: at says of each item of out which *)
(* of the lists it is from and where it stood there.                         *)
JoinedBy(seqs, n, out, at) ==
  /\ DOMAIN at = 1..Len(out)
  /\ \A p \in 1..Len(out) :
       /\ at[p][1] \in 1..n /\ at[p][2] \in 1..Len(seqs[at[p][1]])
       /\ out[p] = seqs[at[p][1]][at[p][2]]
  /\ \A p, q \in 1..Len(out) :
       p < q => at[p][1] < at[q][1] \/ (at[p][1] = at[q][1] /\ at[p][2] < at[q][2])
  /\ \A i \in 1..n : \A k \in 1..Len(seqs[i]) :
       \E p \in 1..Len(out) : at[p][1] = i /\ at[p][2] = k
Joined(seqs, n, out) == IsSequence(out) /\ \E at : JoinedBy(seqs, n, out, at)

LEMMA JoinedWithNext ==
  ASSUME NEW seqs, NEW n \in Nat, NEW out, Joined(seqs, n, out), IsSequence(seqs[n + 1])
  PROVE  Joined(seqs, n + 1, out \o seqs[n + 1])
<1> DEFINE s == seqs[n + 1]
           L == Len(out)
           all == out \o s
<1>1. PICK at : JoinedBy(seqs, n, out, at)
  BY DEF Joined
<1> DEFINE to == [p \in 1..(L + Len(s)) |-> IF p <= L THEN at[p] ELSE <<n + 1, p - L>>]
<1>2. /\ IsSequence(all) /\ Len(all) = L + Len(s) /\ L \in Nat /\ Len(s) \in Nat
      /\ \A i \in 1..L : all[i] = out[i]
      /\ \A i \in 1..Len(s) : all[L + i] = s[i]
  BY Joining DEF Joined, IsSequence
<1> HIDE DEF all
<1>3. DOMAIN to = 1..Len(all)
  BY <1>2
<1>4. \A p \in 1..L : to[p] = at[p] /\ p \in 1..Len(all)
  BY <1>2
<1>5. \A k \in 1..Len(s) : to[L + k] = <<n + 1, k>> /\ L + k \in 1..Len(all)
  BY <1>2
<1>6. \A p \in 1..Len(all) : p \in 1..L \/ \E k \in 1..Len(s) : p = L + k
  <2> SUFFICES ASSUME NEW p \in 1..Len(all), p \notin 1..L PROVE p - L \in 1..Len(s) /\ p = L + (p - L)
    BY Zenon
  <2>1. QED
    BY <1>2
<1> HIDE DEF to, L, s
<1>7. ASSUME NEW p \in 1..Len(all)
      PROVE  /\ to[p][1] \in 1..(n + 1) /\ to[p][2] \in 1..Len(seqs[to[p][1]])
             /\ all[p] = seqs[to[p][1]][to[p][2]]
  <2>1. CASE p \in 1..L
    <3>1. at[p][1] \in 1..n /\ at[p][2] \in 1..Len(seqs[at[p][1]]) /\ out[p] = seqs[at[p][1]][at[p][2]]
      BY <1>1, <2>1 DEF JoinedBy, L
    <3>2. to[p] = at[p] /\ all[p] = out[p]
      BY <1>2, <1>4, <2>1
    <3>3. at[p][1] \in 1..(n + 1)
      BY <3>1
    <3>4. QED
      BY <3>1, <3>2, <3>3
  <2>2. ASSUME NEW k \in 1..Len(s), p = L + k
        PROVE  /\ to[p][1] \in 1..(n + 1) /\ to[p][2] \in 1..Len(seqs[to[p][1]])
               /\ all[p] = seqs[to[p][1]][to[p][2]]
    <3>1. to[p] = <<n + 1, k>> /\ all[p] = s[k]
      BY <1>2, <1>5, <2>2
    <3>2. to[p][1] = n + 1 /\ to[p][2] = k /\ n + 1 \in 1..(n + 1)
      BY <3>1
    <3>3. QED
      BY <3>1, <3>2 DEF s
  <2>3. QED
    BY <1>6, <2>1, <2>2
<1>8. ASSUME NEW p \in 1..Len(all), NEW q \in 1..Len(all), p < q
      PROVE  to[p][1] < to[q][1] \/ (to[p][1] = to[q][1] /\ to[p][2] < to[q][2])
  <2>1. CASE p \in 1..L /\ q \in 1..L
    BY <1>1, <1>4, <1>8, <2>1 DEF JoinedBy, L
  <2>2. ASSUME p \in 1..L, NEW k \in 1..Len(s), q = L + k PROVE to[p][1] < to[q][1]
    <3>1. at[p][1] \in 1..n /\ to[p] = at[p]
      BY <1>1, <1>4, <2>2 DEF JoinedBy, L
    <3>2. to[q][1] = n + 1
      BY <1>5, <2>2
    <3>3. QED
      BY <3>1, <3>2
  <2>3. ASSUME NEW j \in 1..Len(s), p = L + j, NEW k \in 1..Len(s), q = L + k
        PROVE  to[p][1] = to[q][1] /\ to[p][2] < to[q][2]
    <3>1. to[p][1] = n + 1 /\ to[q][1] = n + 1 /\ to[p][2] = j /\ to[q][2] = k
      BY <1>5, <2>3
    <3>2. j < k
      BY <1>2, <1>8, <2>3
    <3>3. QED
      BY <3>1, <3>2
  <2>4. ASSUME NEW j \in 1..Len(s), p = L + j, q \in 1..L PROVE FALSE
    BY <1>2, <1>8, <2>4
  <2>5. QED
    BY <1>6, <2>1, <2>2, <2>3, <2>4
<1>9. ASSUME NEW i \in 1..(n + 1), NEW k \in 1..Len(seqs[i])
      PROVE  \E p \in 1..Len(all) : to[p][1] = i /\ to[p][2] = k
  <2>1. CASE i \in 1..n
    <3>1. PICK p \in 1..L : at[p][1] = i /\ at[p][2] = k
      BY <1>1, <2>1 DEF JoinedBy, L
    <3>2. QED
      BY <1>4, <3>1
  <2>2. CASE i = n + 1
    <3>1. k \in 1..Len(s)
      BY <2>2 DEF s
    <3>2. to[L + k][1] = i /\ to[L + k][2] = k /\ L + k \in 1..Len(all)
      BY <1>5, <2>2, <3>1
    <3>3. QED
      BY <3>2
  <2>3. QED
    BY <2>1, <2>2
<1>10. JoinedBy(seqs, n + 1, all, to)
  BY <1>3, <1>7, <1>8, <1>9 DEF JoinedBy
<1>11. QED
  BY <1>2, <1>10 DEF Joined, all, s

LEMMA JoinedFirst ==
  ASSUME NEW seqs, IsSequence(seqs[1])
  PROVE  Joined(seqs, 1, seqs[1])
<1> DEFINE s == seqs[1]
           at == [p \in 1..Len(s) |-> <<1, p>>]
<1>1. \A p \in 1..Len(s) : at[p][1] = 1 /\ at[p][2] = p
  OBVIOUS
<1>2. DOMAIN at = 1..Len(s) /\ Len(s) \in Nat
  BY DEF IsSequence
<1> HIDE DEF at
<1>3. JoinedBy(seqs, 1, s, at)
  BY <1>1, <1>2 DEF JoinedBy
<1>4. QED
  BY <1>3 DEF Joined

(* FlattenSeq joins the lists one by one. *)
LEMMA FlattenedBySteps ==
  ASSUME NEW seqs, IsSequence(seqs), Len(seqs) # 0
  PROVE  \E flat :
           /\ FlattenSeq(seqs) = flat[Len(seqs)] /\ flat[1] = seqs[1]
           /\ \A n \in 1..(Len(seqs) - 1) : flat[n + 1] = flat[n] \o seqs[n + 1]
<1> DEFINE N == Len(seqs)
           Equation(g) == g = [i \in 1..N |-> IF i = 1 THEN seqs[i] ELSE g[i - 1] \o seqs[i]]
<1>0. N \in Nat /\ N # 0
  BY DEF IsSequence
<1> DEFINE M == N - 1
           Upto(n, g) == /\ DOMAIN g = 1..(n + 1) /\ g[1] = seqs[1]
                         /\ \A k \in 2..(n + 1) : g[k] = g[k - 1] \o seqs[k]
           T == {n \in 0..M : \E g : Upto(n, g)}
<1>1. M \in Nat /\ N = M + 1
  BY <1>0
<1>2. 0 \in T
  <2> DEFINE h == [k \in 1..(0 + 1) |-> seqs[k]]
  <2>1. Upto(0, h)
    OBVIOUS
  <2>2. 0 \in 0..M
    BY <1>1
  <2> HIDE DEF Upto, h
  <2>3. QED
    BY <2>1, <2>2
<1>3. ASSUME NEW n \in 0..M, n < M /\ n \in T PROVE n + 1 \in T
  <2>1. PICK g : Upto(n, g)
    BY <1>3
  <2> DEFINE last == g[n + 1] \o seqs[n + 2]
             h == [k \in 1..(n + 1 + 1) |-> IF k = n + 2 THEN last ELSE g[k]]
  <2> HIDE DEF last
  <2>2. n \in Nat /\ 1 \in 1..(n + 1)
    BY <1>1, <1>3
  <2>3. (\A k \in 1..(n + 1) : h[k] = g[k]) /\ h[n + 2] = last
    BY <2>2
  <2>4. ASSUME NEW k \in 2..(n + 1 + 1) PROVE h[k] = h[k - 1] \o seqs[k]
    <3>1. (k \in 2..(n + 1) /\ k \in 1..(n + 1) /\ k - 1 \in 1..(n + 1))
          \/ (k = n + 2 /\ k - 1 = n + 1 /\ k - 1 \in 1..(n + 1))
      BY <2>2
    <3> HIDE DEF h
    <3>2. QED
      BY <2>1, <2>3, <3>1, Zenon DEF last
  <2>5. h[1] = seqs[1] /\ \A k \in 2..(n + 1 + 1) : h[k] = h[k - 1] \o seqs[k]
    <3> HIDE DEF h
    <3>1. QED
      BY <2>1, <2>2, <2>3, <2>4
  <2>6. DOMAIN h = 1..(n + 1 + 1)
    OBVIOUS
  <2> HIDE DEF h
  <2>7. Upto(n + 1, h)
    BY <2>5, <2>6
  <2>8. n + 1 \in 0..M
    BY <1>1, <1>3
  <2> HIDE DEF Upto
  <2>9. QED
    BY <2>7, <2>8
<1> HIDE DEF T
<1>4. M \in T
  <2>1. \A n \in 0..M : n < M /\ n \in T => n + 1 \in T
    BY <1>3
  <2> HIDE DEF M
  <2>2. QED
    BY <1>1, <1>2, <2>1, CountingUp
<1>5. PICK g : Upto(M, g)
  BY <1>4 DEF T
<1>6. \A i \in 1..N : g[i] = IF i = 1 THEN seqs[i] ELSE g[i - 1] \o seqs[i]
  <2>1. \A i \in 1..N : i = 1 \/ i \in 2..(M + 1)
    BY <1>1
  <2>2. QED
    BY <1>5, <2>1, Zenon
<1>7. \E f : Equation(f)
  <2> DEFINE h == [i \in 1..N |-> g[i]]
  <2>1. \A i \in 1..N : h[i] = IF i = 1 THEN seqs[i] ELSE h[i - 1] \o seqs[i]
    BY <1>1, <1>6
  <2>2. Equation(h)
    BY <2>1
  <2>3. QED
    BY <2>2
<1> DEFINE flat == CHOOSE f : Equation(f)
<1>8. Equation(flat)
  BY <1>7
<1>9. FlattenSeq(seqs) = flat[N]
  BY <1>0 DEF FlattenSeq
<1> HIDE DEF flat
<1>10. flat[1] = seqs[1] /\ \A n \in 1..M : flat[n + 1] = flat[n] \o seqs[n + 1]
  <2>1. 1 \in 1..N
    BY <1>1
  <2>2. \A n \in 1..M : n + 1 \in 1..N /\ n + 1 # 1 /\ n + 1 - 1 = n
    BY <1>1
  <2>3. \A i \in 1..N : flat[i] = IF i = 1 THEN seqs[i] ELSE flat[i - 1] \o seqs[i]
    BY <1>8, Zenon
  <2>4. flat[1] = seqs[1]
    BY <2>1, <2>3, Zenon
  <2>5. ASSUME NEW n \in 1..M PROVE flat[n + 1] = flat[n] \o seqs[n + 1]
    <3>1. flat[n + 1] = IF n + 1 = 1 THEN seqs[n + 1] ELSE flat[n + 1 - 1] \o seqs[n + 1]
      BY <2>2, <2>3
    <3>2. QED
      BY <2>2, <3>1
  <2>6. QED
    BY <2>4, <2>5
<1>11. QED
  BY <1>9, <1>10

(* FlattenSeq keeps every item of every list, in order. *)
LEMMA FlattenedIs ==
  ASSUME NEW seqs, IsSequence(seqs), \A i \in 1..Len(seqs) : IsSequence(seqs[i])
  PROVE  Joined(seqs, Len(seqs), FlattenSeq(seqs))
<1> DEFINE N == Len(seqs)
<1>1. N \in Nat
  BY DEF IsSequence
<1>2. CASE N = 0
  <2>1. FlattenSeq(seqs) = seqs /\ 1..N = {}
    BY <1>2 DEF FlattenSeq
  <2>2. JoinedBy(seqs, N, seqs, seqs)
    BY <1>2, <2>1 DEF JoinedBy, IsSequence
  <2>3. QED
    BY <2>1, <2>2 DEF Joined
<1>3. CASE N # 0
  <2> DEFINE M == N - 1
  <2>1. M \in Nat /\ N = M + 1
    BY <1>1, <1>3
  <2>2. PICK flat :
          /\ FlattenSeq(seqs) = flat[N] /\ flat[1] = seqs[1]
          /\ \A n \in 1..M : flat[n + 1] = flat[n] \o seqs[n + 1]
    BY <1>3, FlattenedBySteps
  <2> DEFINE U == {n \in 0..M : Joined(seqs, n + 1, flat[n + 1])}
  <2>3. 0 \in U
    BY <2>1, <2>2, JoinedFirst
  <2>4. ASSUME NEW n \in 0..M, n < M /\ n \in U PROVE n + 1 \in U
    <3>1. n + 1 \in 1..M /\ n + 1 \in 0..M /\ n + 1 \in Nat /\ n + 1 + 1 \in 1..N
      BY <2>1, <2>4
    <3>2. Joined(seqs, n + 1 + 1, flat[n + 1] \o seqs[n + 1 + 1])
      BY <2>4, <3>1, JoinedWithNext
    <3>3. flat[n + 1 + 1] = flat[n + 1] \o seqs[n + 1 + 1]
      BY <2>2, <3>1
    <3>4. QED
      BY <3>1, <3>2, <3>3
  <2> HIDE DEF U
  <2>5. M \in U
    <3>1. \A n \in 0..M : n < M /\ n \in U => n + 1 \in U
      BY <2>4
    <3> HIDE DEF M
    <3>2. QED
      BY <2>1, <2>3, <3>1, CountingUp
  <2>6. Joined(seqs, N, flat[N])
    BY <2>1, <2>5 DEF U
  <2>7. QED
    BY <2>2, <2>6
<1>4. QED
  BY <1>2, <1>3

(* Lists joined one after the other: list i is the part that begins at at[i].  *)
InRuns(seqs, n, out, at) ==
  /\ IsSequence(out) /\ at[n + 1] = Len(out) + 1
  /\ \A i \in 1..n : \A k \in 1..Len(seqs[i]) : at[i] + k - 1 \in 1..Len(out) /\ out[at[i] + k - 1] = seqs[i][k]
  /\ \A p \in 1..Len(out) : \E i \in 1..n : \E k \in 1..Len(seqs[i]) : p = at[i] + k - 1

LEMMA RunsWithNext ==
  ASSUME NEW seqs, NEW n \in Nat, NEW out, NEW at, InRuns(seqs, n, out, at), IsSequence(seqs[n + 1]),
         at[n + 1 + 1] = at[n + 1] + Len(seqs[n + 1])
  PROVE  InRuns(seqs, n + 1, out \o seqs[n + 1], at)
<1> DEFINE s == seqs[n + 1]
           L == Len(out)
           all == out \o s
           m == n + 1
<1>1. /\ IsSequence(all) /\ Len(all) = L + Len(s) /\ L \in Nat /\ Len(s) \in Nat
      /\ \A i \in 1..L : all[i] = out[i]
      /\ \A i \in 1..Len(s) : all[L + i] = s[i]
  BY Joining DEF InRuns, IsSequence
<1>2. /\ at[m] = L + 1 /\ at[m + 1] = at[m] + Len(s)
      /\ \A i \in 1..n : \A k \in 1..Len(seqs[i]) : at[i] + k - 1 \in 1..L /\ out[at[i] + k - 1] = seqs[i][k]
      /\ \A p \in 1..L : \E i \in 1..n : \E k \in 1..Len(seqs[i]) : p = at[i] + k - 1
  BY DEF InRuns
<1>3. seqs[m] = s /\ m \in Nat /\ m = n + 1 /\ m \in 1..m /\ \A i \in 1..n : i \in 1..m
  OBVIOUS
<1>4. \A i \in 1..m : i \in 1..n \/ i = m
  OBVIOUS
<1> HIDE DEF all, L, s, m
<1>5. at[m + 1] = Len(all) + 1
  BY <1>1, <1>2
<1>6. \A p \in 1..L : p \in 1..Len(all)
  BY <1>1
<1>7. \A k \in 1..Len(s) : at[m] + k - 1 = L + k /\ L + k \in 1..Len(all)
  BY <1>1, <1>2
<1>8. ASSUME NEW i \in 1..m, NEW k \in 1..Len(seqs[i])
      PROVE  at[i] + k - 1 \in 1..Len(all) /\ all[at[i] + k - 1] = seqs[i][k]
  <2>1. CASE i \in 1..n
    BY <1>1, <1>2, <1>6, <1>8, <2>1, Zenon
  <2>2. CASE i = m
    BY <1>1, <1>3, <1>7, <1>8, <2>2, Zenon
  <2>3. QED
    BY <1>4, <2>1, <2>2
<1>9. ASSUME NEW p \in 1..Len(all) PROVE \E i \in 1..m : \E k \in 1..Len(seqs[i]) : p = at[i] + k - 1
  <2>1. CASE p \in 1..L
    BY <1>2, <1>3, <2>1, Zenon
  <2>2. CASE p \notin 1..L
    <3>1. p - L \in 1..Len(s) /\ p = L + (p - L)
      BY <1>1, <2>2
    <3>2. p = at[m] + (p - L) - 1
      BY <1>7, <3>1
    <3>3. QED
      BY <1>3, <3>1, <3>2, Zenon
  <2>3. QED
    BY <2>1, <2>2
<1>10. QED
  BY <1>1, <1>3, <1>5, <1>8, <1>9, Zenon DEF InRuns, all, s

LEMMA JoinedRuns ==
  ASSUME NEW seqs, IsSequence(seqs), \A i \in 1..Len(seqs) : IsSequence(seqs[i]), NEW at, at[1] = 1,
         \A i \in 1..Len(seqs) : at[i + 1] = at[i] + Len(seqs[i])
  PROVE  InRuns(seqs, Len(seqs), FlattenSeq(seqs), at)
<1> DEFINE N == Len(seqs)
<1>1. N \in Nat
  BY DEF IsSequence
<1>2. CASE N = 0
  <2>1. FlattenSeq(seqs) = seqs /\ 1..N = {}
    BY <1>2 DEF FlattenSeq
  <2>2. QED
    BY <1>2, <2>1 DEF InRuns
<1>3. CASE N # 0
  <2> DEFINE M == N - 1
  <2>1. M \in Nat /\ N = M + 1
    BY <1>1, <1>3
  <2>2. PICK flat :
          /\ FlattenSeq(seqs) = flat[N] /\ flat[1] = seqs[1]
          /\ \A n \in 1..M : flat[n + 1] = flat[n] \o seqs[n + 1]
    BY <1>3, FlattenedBySteps
  <2> DEFINE U == {n \in 0..M : InRuns(seqs, n + 1, flat[n + 1], at)}
  <2>3. 0 \in U
    <3>1. InRuns(seqs, 1, seqs[1], at)
      <4> DEFINE s == seqs[1]
      <4>1. IsSequence(s) /\ at[1] = 1 /\ at[1 + 1] = at[1] + Len(s)
        BY <2>1
      <4>2. Len(s) \in Nat
        BY <4>1 DEF IsSequence
      <4> HIDE DEF s
      <4>3. at[1 + 1] = Len(s) + 1 /\ \A k \in 1..Len(s) : at[1] + k - 1 = k
        BY <4>1, <4>2
      <4>4. \A i \in 1..1 : i = 1
        OBVIOUS
      <4>5. 1 \in 1..1
        OBVIOUS
      <4>6. \A i \in 1..1 : \A k \in 1..Len(seqs[i]) :
              at[i] + k - 1 \in 1..Len(s) /\ s[at[i] + k - 1] = seqs[i][k]
        BY <4>3, <4>4, Zenon DEF s
      <4>7. \A p \in 1..Len(s) : \E i \in 1..1 : \E k \in 1..Len(seqs[i]) : p = at[i] + k - 1
        BY <4>3, <4>5, Zenon DEF s
      <4>8. QED
        BY <4>1, <4>3, <4>6, <4>7, Zenon DEF InRuns, s
    <3>2. QED
      BY <2>1, <2>2, <3>1
  <2>4. ASSUME NEW n \in 0..M, n < M /\ n \in U PROVE n + 1 \in U
    <3>1. n + 1 \in 1..M /\ n + 1 \in 0..M /\ n + 1 \in Nat /\ n + 1 + 1 \in 1..N
      BY <2>1, <2>4
    <3>2. InRuns(seqs, n + 1 + 1, flat[n + 1] \o seqs[n + 1 + 1], at)
      <4>1. IsSequence(seqs[n + 1 + 1]) /\ at[n + 1 + 1 + 1] = at[n + 1 + 1] + Len(seqs[n + 1 + 1])
        BY <3>1
      <4>2. InRuns(seqs, n + 1, flat[n + 1], at)
        BY <2>4
      <4>3. QED
        BY <3>1, <4>1, <4>2, RunsWithNext
    <3>3. flat[n + 1 + 1] = flat[n + 1] \o seqs[n + 1 + 1]
      BY <2>2, <3>1
    <3>4. QED
      BY <3>1, <3>2, <3>3
  <2> HIDE DEF U
  <2>5. M \in U
    <3>1. \A n \in 0..M : n < M /\ n \in U => n + 1 \in U
      BY <2>4
    <3> HIDE DEF M
    <3>2. QED
      BY <2>1, <2>3, <3>1, CountingUp
  <2>6. InRuns(seqs, N, flat[N], at)
    BY <2>1, <2>5 DEF U
  <2>7. QED
    BY <2>2, <2>6
<1>4. QED
  BY <1>2, <1>3

(* What a function takes the members of a finite set to; and the set as a list. *)
LEMMA ImageIsFinite ==
  ASSUME NEW S, IsFiniteSet(S), NEW f, f = [x \in S |-> f[x]]
  PROVE  IsFiniteSet({f[x] : x \in S})
<1> DEFINE T == {f[x] : x \in S}
<1>1. f \in Surjection(S, T)
  BY DEF Surjection
<1> HIDE DEF T
<1>2. IsFiniteSet(T)
  BY <1>1, FS_Surjection
<1>3. QED
  BY <1>2 DEF T

(* Joining lists of one item each gives the list of these.                    *)
LEMMA JoinedOnes ==
  ASSUME NEW seqs, NEW M \in Nat, NEW out, Joined(seqs, M, out), \A i \in 1..M : Len(seqs[i]) = 1
  PROVE  Len(out) = M /\ \A i \in 1..M : out[i] = seqs[i][1]
<1> DEFINE L == Len(out)
<1>1. L \in Nat
  BY DEF Joined, IsSequence
<1>2. PICK at : JoinedBy(seqs, M, out, at)
  BY DEF Joined
<1> DEFINE h == [p \in 1..L |-> at[p][1]]
<1>3. \A p \in 1..L : h[p] \in 1..M /\ at[p][2] = 1 /\ out[p] = seqs[h[p]][1]
  <2> SUFFICES ASSUME NEW p \in 1..L PROVE h[p] \in 1..M /\ at[p][2] = 1 /\ out[p] = seqs[h[p]][1]
    OBVIOUS
  <2>1. at[p][1] \in 1..M /\ at[p][2] \in 1..Len(seqs[at[p][1]]) /\ out[p] = seqs[at[p][1]][at[p][2]]
    BY <1>2 DEF JoinedBy
  <2>2. Len(seqs[at[p][1]]) = 1
    BY <2>1
  <2>3. at[p][2] = 1
    BY <2>1, <2>2
  <2>4. QED
    BY <2>1, <2>3
<1>4. \A p, q \in 1..L : p < q => h[p] < h[q]
  <2> SUFFICES ASSUME NEW p \in 1..L, NEW q \in 1..L, p < q PROVE h[p] < h[q]
    OBVIOUS
  <2>1. at[p][1] < at[q][1] \/ (at[p][1] = at[q][1] /\ at[p][2] < at[q][2])
    BY <1>2 DEF JoinedBy
  <2>2. at[p][2] = 1 /\ at[q][2] = 1
    BY <1>3
  <2>3. QED
    BY <2>1, <2>2
<1>5. \A i \in 1..M : \E p \in 1..L : h[p] = i
  <2> SUFFICES ASSUME NEW i \in 1..M PROVE \E p \in 1..L : h[p] = i
    OBVIOUS
  <2>1. 1 \in 1..Len(seqs[i])
    OBVIOUS
  <2>2. \E p \in 1..L : at[p][1] = i /\ at[p][2] = 1
    BY <1>2, <2>1 DEF JoinedBy
  <2>3. QED
    BY <2>2
<1> HIDE DEF h
<1> DEFINE T == {n \in 0..M : n <= L /\ \A p \in 1..n : h[p] = p}
<1>6. 0 \in T
  BY <1>1
<1>7. ASSUME NEW n \in 0..M, n < M /\ n \in T PROVE n + 1 \in T
  <2>1. n + 1 \in 1..M /\ n <= L /\ \A p \in 1..n : h[p] = p
    BY <1>7
  <2>2. PICK p \in 1..L : h[p] = n + 1
    BY <1>5, <2>1
  <2>3. ~(p \in 1..n)
    BY <2>1, <2>2
  <2>4. n + 1 \in 1..L /\ n + 1 <= p
    BY <1>1, <2>1, <2>2, <2>3
  <2>5. h[n + 1] \in 1..M
    BY <1>3, <2>4
  <2>6. ~(h[n + 1] \in 1..n)
    <3>1. SUFFICES ASSUME h[n + 1] \in 1..n PROVE FALSE
      OBVIOUS
    <3> DEFINE v == h[n + 1]
    <3>2. v \in 1..n /\ h[v] = v /\ v \in 1..L /\ v < n + 1
      BY <1>1, <2>1, <3>1
    <3>3. h[v] < h[n + 1]
      BY <1>4, <2>4, <3>2
    <3>4. QED
      BY <3>2, <3>3
  <2>7. n + 1 = p
    <3>1. SUFFICES ASSUME n + 1 < p PROVE FALSE
      BY <2>2, <2>4
    <3>2. h[n + 1] < n + 1
      BY <1>4, <2>2, <2>4, <3>1
    <3>3. QED
      BY <2>5, <2>6, <3>2
  <2>8. \A q \in 1..(n + 1) : h[q] = q
    BY <2>1, <2>2, <2>7
  <2>9. QED
    BY <1>1, <2>1, <2>4, <2>8
<1> HIDE DEF T
<1>8. M \in T
  <2>1. \A n \in 0..M : n < M /\ n \in T => n + 1 \in T
    BY <1>7
  <2>2. QED
    BY <1>6, <2>1, CountingUp
<1>9. M <= L /\ \A p \in 1..M : h[p] = p
  BY <1>8 DEF T
<1>10. L = M
  <2>1. SUFFICES ASSUME M < L PROVE FALSE
    BY <1>1, <1>9
  <2>2. M + 1 \in 1..L /\ h[M + 1] \in 1..M
    BY <1>1, <1>3, <2>1
  <2> DEFINE v == h[M + 1]
  <2>3. v \in 1..M /\ h[v] = v /\ v \in 1..L /\ v < M + 1
    BY <1>1, <1>9, <2>2
  <2>4. h[v] < h[M + 1]
    BY <1>4, <2>2, <2>3
  <2>5. QED
    BY <2>3, <2>4
<1>11. QED
  BY <1>3, <1>9, <1>10

LEMMA SetAsSequence ==
  ASSUME NEW S, IsFiniteSet(S)
  PROVE  /\ IsSequence(SetToSeq(S)) /\ Range(SetToSeq(S)) = S
         /\ \A i, j \in 1..Len(SetToSeq(S)) : SetToSeq(S)[i] = SetToSeq(S)[j] => i = j
<1> DEFINE n == Cardinality(S)
           f == SetToSeq(S)
<1>1. n \in Nat /\ ExistsBijection(1..n, S)
  BY FS_CardinalityType
<1>2. \E g \in [1..n -> S] : IsInjective(g)
  BY <1>1 DEF ExistsBijection, Bijection, Injection
<1>3. f \in [1..n -> S] /\ IsInjective(f)
  BY <1>2 DEF SetToSeq
<1> HIDE DEF f
<1>4. f \in Injection(1..n, S)
  BY <1>3 DEF Injection
<1>5. f \in Surjection(1..n, S)
  BY <1>1, <1>4, FS_Injection, FirstNumbers
<1>6. Range(f) = S
  BY <1>5 DEF Surjection, Range
<1>7. IsSequence(f) /\ Len(f) = n
  <2>1. DOMAIN f = 1..n /\ f = [i \in 1..n |-> f[i]]
    BY <1>3
  <2> HIDE DEF n
  <2>2. QED
    BY <1>1, <2>1, AsSequence
<1>8. \A i, j \in 1..n : f[i] = f[j] => i = j
  BY <1>3 DEF IsInjective
<1>9. QED
  BY <1>6, <1>7, <1>8 DEF f

-----------------------------------------------------------------------------
(* The sum of one place of a list, of none of them, and of places told apart. *)
LEMMA AddedOne ==
  ASSUME NEW s, IsSequence(s), \A i \in 1..Len(s) : s[i] \in Int, NEW j
  PROVE  AddedAt(s, {j}) = IF j \in 1..Len(s) THEN s[j] ELSE 0
<1> DEFINE N == Len(s)
           none == [i \in 1..N |-> 0]
           one == [i \in 1..N |-> IF i = j THEN s[i] ELSE 0]
<1>1. DOMAIN s = 1..N /\ N \in Nat
  BY DEF IsSequence
<1>2. AddedAt(s, {j}) = Added(one)
  <2>1. [i \in DOMAIN s |-> IF i \in {j} THEN s[i] ELSE 0] = one
    BY <1>1
  <2>2. QED
    BY <2>1, Zenon DEF AddedAt
<1>3. Len(none) = N /\ Len(one) = N
  BY <1>1
<1>4. Added(none) = 0
  BY <1>1, <1>3, AddedNothing
<1>5. CASE j \in 1..N
  <2>1. \A i \in 1..N : none[i] \in Int /\ one[i] \in Int /\ (i # j => none[i] = one[i])
    OBVIOUS
  <2>2. one[j] = s[j] /\ none[j] = 0 /\ s[j] \in Int
    BY <1>5
  <2> HIDE DEF one, none
  <2>3. Added(one) = Added(none) + (one[j] - none[j])
    BY <1>1, <1>3, <1>5, <2>1, AddedChanged
  <2>4. QED
    BY <1>2, <1>4, <1>5, <2>2, <2>3
<1>6. CASE j \notin 1..N
  <2>1. \A i \in 1..N : one[i] = 0
    BY <1>6
  <2>2. Added(one) = 0
    BY <1>1, <1>3, <2>1, AddedNothing
  <2>3. QED
    BY <1>2, <1>6, <2>2
<1>7. QED
  BY <1>5, <1>6

(* The sum of places depends only on those there are.                         *)
LEMMA AddedSame ==
  ASSUME NEW s, NEW P, NEW Q, \A i \in DOMAIN s : i \in P <=> i \in Q
  PROVE  AddedAt(s, P) = AddedAt(s, Q)
<1>1. [i \in DOMAIN s |-> IF i \in P THEN s[i] ELSE 0] = [i \in DOMAIN s |-> IF i \in Q THEN s[i] ELSE 0]
  OBVIOUS
<1>2. QED
  BY <1>1, Zenon DEF AddedAt

LEMMA AddedApart ==
  ASSUME NEW s, IsSequence(s), \A i \in 1..Len(s) : s[i] \in Int, NEW P, NEW Q, P \cap Q \cap (1..Len(s)) = {}
  PROVE  AddedAt(s, P \cup Q) = AddedAt(s, P) + AddedAt(s, Q)
<1> DEFINE G == <<P, Q>>
           K == P \cup Q
           sums == [k \in 1..2 |-> AddedAt(s, G[k])]
<1>1. G[1] = P /\ G[2] = Q
  OBVIOUS
<1>2. AddedAt(s, P) \in Int /\ AddedAt(s, Q) \in Int
  BY AddedAtIs
<1>3. \A i \in 1..Len(s), j, k \in 1..2 : i \in G[j] /\ i \in G[k] => j = k
  <2>1. \A j \in 1..2 : j = 1 \/ j = 2
    OBVIOUS
  <2>2. \A i \in 1..Len(s) : ~(i \in P /\ i \in Q)
    OBVIOUS
  <2> HIDE DEF G
  <2>3. QED
    BY <1>1, <2>1, <2>2
<1>4. \A i \in 1..Len(s) : i \in K <=> \E k \in 1..2 : i \in G[k]
  <2>1. 1 \in 1..2 /\ 2 \in 1..2 /\ \A j \in 1..2 : j = 1 \/ j = 2
    OBVIOUS
  <2>2. \A i : i \in K <=> i \in P \/ i \in Q
    OBVIOUS
  <2> HIDE DEF G, K
  <2>3. QED
    BY <1>1, <2>1, <2>2
<1> HIDE DEF G, K
<1>5. Added(sums) = AddedAt(s, K)
  BY <1>3, <1>4, AddedByGroup
<1>6. DOMAIN sums = 1..2 /\ Len(sums) = 2 /\ sums[1] = AddedAt(s, P) /\ sums[2] = AddedAt(s, Q)
  BY <1>1
<1> HIDE DEF sums
<1>7. \A i \in 1..Len(sums) : sums[i] \in Int
  <2>1. \A j \in 1..2 : j = 1 \/ j = 2
    OBVIOUS
  <2>2. QED
    BY <1>2, <1>6, <2>1
<1>8. PICK sum : TotalsIn(sums, sum, Int) /\ Added(sums) = sum[Len(sums)]
  <2>1. Len(sums) \in Nat /\ Int \in {Nat, Int}
    BY <1>6
  <2>2. QED
    BY <1>7, <2>1, AddedIn
<1>9. sum[0] = 0 /\ sum[1] = sum[0] + sums[1] /\ sum[2] = sum[1] + sums[2]
  BY <1>6, <1>8 DEF TotalsIn
<1>10. sum[2] = AddedAt(s, P) + AddedAt(s, Q)
  BY <1>2, <1>6, <1>9
<1>11. QED
  BY <1>5, <1>6, <1>8, <1>10 DEF K

-----------------------------------------------------------------------------
(* Numbers in an order that tells any two of them apart: each has a place of  *)
(* its own, as it has one more up to it than any that comes before it.        *)
Orders(N, R) ==
  /\ \A i, j \in 1..N : i # j => <<i, j>> \in R \/ <<j, i>> \in R
  /\ \A i \in 1..N : <<i, i>> \notin R
  /\ \A i, j, k \in 1..N : <<i, j>> \in R /\ <<j, k>> \in R => <<i, k>> \in R

LEMMA OrderIs ==
  ASSUME NEW N \in Nat, NEW R, Orders(N, R)
  PROVE  LET order == InThisOrder(N, R)
         IN /\ order = [n \in 1..N |-> order[n]]
            /\ \A n \in 1..N : order[n] \in 1..N
            /\ \A i \in 1..N : \E n \in 1..N : order[n] = i
            /\ \A n, m \in 1..N : order[n] = order[m] => n = m
<1> DEFINE order == InThisOrder(N, R)
           upTo(i) == {j \in 1..N : j = i \/ <<j, i>> \in R}
           rank(i) == Cardinality(upTo(i))
<1>1. \A i \in 1..N : rank(i) \in 1..N /\ IsFiniteSet(upTo(i))
  <2> SUFFICES ASSUME NEW i \in 1..N PROVE rank(i) \in 1..N /\ IsFiniteSet(upTo(i))
    OBVIOUS
  <2> DEFINE U == upTo(i)
             V == 1..N
  <2>1. U \in SUBSET V /\ U # {}
    OBVIOUS
  <2>2. IsFiniteSet(V) /\ Cardinality(V) = N
    BY FirstNumbers
  <2> HIDE DEF U, V
  <2>3. IsFiniteSet(U) /\ Cardinality(U) <= N
    BY <2>1, <2>2, FS_Subset
  <2>4. Cardinality(U) \in Nat /\ Cardinality(U) # 0
    BY <2>1, <2>3, FS_CardinalityType, FS_EmptySet
  <2>5. QED
    BY <2>3, <2>4 DEF U
<1>2. ASSUME NEW i \in 1..N, NEW j \in 1..N, <<i, j>> \in R
      PROVE  rank(i) < rank(j)
  <2> DEFINE A == upTo(i)
             B == upTo(j)
  <2>1. A \subseteq B
    BY <1>2 DEF Orders
  <2>2. j \in B /\ j \notin A
    <3>1. <<i, i>> \notin R /\ ~(<<j, i>> \in R)
      BY <1>2 DEF Orders
    <3>2. i # j
      BY <1>2, <3>1
    <3>3. QED
      BY <3>1, <3>2
  <2>3. IsFiniteSet(A) /\ IsFiniteSet(B)
    BY <1>1
  <2> HIDE DEF A, B
  <2>4. Cardinality(A) <= Cardinality(B) /\ Cardinality(A) # Cardinality(B)
    BY <2>1, <2>2, <2>3, FS_Subset
  <2>5. Cardinality(A) \in Nat /\ Cardinality(B) \in Nat
    BY <2>3, FS_CardinalityType
  <2>6. QED
    BY <2>4, <2>5 DEF A, B
<1>3. order = [n \in 1..N |-> CHOOSE i \in 1..N : rank(i) = n]
  BY DEF InThisOrder
<1> HIDE DEF rank, order, upTo
<1>4. \A i, j \in 1..N : rank(i) = rank(j) => i = j
  <2> SUFFICES ASSUME NEW i \in 1..N, NEW j \in 1..N, rank(i) = rank(j), i # j PROVE FALSE
    OBVIOUS
  <2>1. rank(i) < rank(j) \/ rank(j) < rank(i)
    BY <1>2 DEF Orders
  <2>2. rank(i) \in Nat /\ rank(j) \in Nat
    BY <1>1
  <2>3. QED
    BY <2>1, <2>2
<1> DEFINE f == [i \in 1..N |-> rank(i)]
<1>5. \A n \in 1..N : \E i \in 1..N : rank(i) = n
  <2> DEFINE V == 1..N
  <2>1. f \in [V -> V] /\ \A i, j \in V : f[i] = f[j] => i = j
    BY <1>1, <1>4
  <2>2. IsFiniteSet(V)
    BY FirstNumbers
  <2> HIDE DEF f, V
  <2>3. \A n \in V : \E i \in V : f[i] = n
    <3>1. f \in Injection(V, V)
      BY <2>1 DEF Injection, IsInjective
    <3>2. f \in Surjection(V, V)
      BY <2>2, <3>1, FS_Injection
    <3>3. QED
      BY <3>2 DEF Surjection
  <2>4. QED
    BY <2>3 DEF f, V
<1>6. \A n \in 1..N : order[n] \in 1..N /\ rank(order[n]) = n
  BY <1>3, <1>5
<1>7. \A i \in 1..N : \E n \in 1..N : order[n] = i
  <2> TAKE i \in 1..N
  <2>1. rank(i) \in 1..N
    BY <1>1 DEF rank
  <2>2. order[rank(i)] = i
    BY <1>4, <1>6, <2>1
  <2>3. QED
    BY <2>1, <2>2
<1>8. order = [n \in 1..N |-> order[n]]
  BY <1>3
<1>9. \A n, m \in 1..N : order[n] = order[m] => n = m
  BY <1>6
<1>10. QED
  BY <1>6, <1>7, <1>8, <1>9 DEF order

(* However a list is rearranged, it adds up to the same, and each item is in  *)
(* it as many times.                                                          *)
Rearranges(order, N) ==
  /\ \A n \in 1..N : order[n] \in 1..N
  /\ \A i \in 1..N : \E n \in 1..N : order[n] = i
  /\ \A n, m \in 1..N : order[n] = order[m] => n = m

LEMMA AddedRearranged ==
  ASSUME NEW s, IsSequence(s), \A i \in 1..Len(s) : s[i] \in Int, NEW order, Rearranges(order, Len(s))
  PROVE  Added([n \in 1..Len(s) |-> s[order[n]]]) = Added(s)
<1> DEFINE N == Len(s)
           G == [n \in 1..N |-> {order[n]}]
           K == 1..N
<1>1. DOMAIN s = 1..N /\ N \in Nat
  BY DEF IsSequence
<1>2. Added([n \in 1..N |-> AddedAt(s, G[n])]) = AddedAt(s, K)
  <2>1. \A i \in 1..N, j, k \in 1..N : i \in G[j] /\ i \in G[k] => j = k
    BY DEF Rearranges
  <2>2. \A i \in 1..N : i \in K <=> \E k \in 1..N : i \in G[k]
    BY DEF Rearranges
  <2> HIDE DEF G, K
  <2>3. QED
    BY <1>1, <2>1, <2>2, AddedByGroup
<1>3. [n \in 1..N |-> AddedAt(s, G[n])] = [n \in 1..N |-> s[order[n]]]
  <2>1. \A n \in 1..N : AddedAt(s, {order[n]}) = s[order[n]]
    BY AddedOne DEF Rearranges
  <2>2. QED
    BY <2>1
<1>4. AddedAt(s, K) = Added(s)
  <2>1. [i \in DOMAIN s |-> IF i \in K THEN s[i] ELSE 0] = s
    BY <1>1 DEF IsSequence
  <2>2. QED
    BY <2>1, Zenon DEF AddedAt
<1>5. QED
  BY <1>2, <1>3, <1>4

PlacesTo(A, order, N, B) == B \subseteq 1..N /\ \A n : n \in A <=> n \in 1..N /\ order[n] \in B

LEMMA CountRearranged ==
  ASSUME NEW N \in Nat, NEW order, Rearranges(order, N), NEW A, NEW B, PlacesTo(A, order, N, B)
  PROVE  Cardinality(A) = Cardinality(B)
<1> DEFINE f == [n \in A |-> order[n]]
<1>1. f \in [A -> B] /\ \A n, m \in A : f[n] = f[m] => n = m
  BY DEF Rearranges, PlacesTo
<1>2. \A i \in B : \E n \in A : f[n] = i
  <2> TAKE i \in B
  <2>1. PICK n \in 1..N : order[n] = i
    BY DEF Rearranges, PlacesTo
  <2>2. n \in A
    BY <2>1 DEF PlacesTo
  <2>3. QED
    BY <2>1, <2>2
<1>3. IsFiniteSet(A)
  <2> DEFINE V == 1..N
  <2>1. A \in SUBSET V /\ IsFiniteSet(V)
    BY FirstNumbers DEF PlacesTo
  <2> HIDE DEF V
  <2>2. QED
    BY <2>1, FS_Subset
<1> HIDE DEF f
<1>4. ExistsBijection(A, B)
  BY <1>1, <1>2 DEF ExistsBijection, Bijection, Injection, IsInjective, Surjection
<1>5. QED
  BY <1>3, <1>4, FS_Bijection

=============================================================================
