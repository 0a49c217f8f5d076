------------------------ MODULE Subsequences_proofs ------------------------
(***************************************************************************)
(* What Retain keeps.  The library has no induction that the provers can   *)
(* instantiate, so the nth position is found as the least bound below      *)
(* which there are n of them.                                              *)
(***************************************************************************)
EXTENDS Subsequences, FiniteSetTheorems, NaturalsInduction,
        WellFoundedInduction, TLAPS

(* A non-empty set of numbers has a least element.                         *)
LEMMA LeastNumber ==
  ASSUME NEW T, T \subseteq Nat, T # {}
  PROVE  \E x \in T : \A y \in T : x <= y
<1>1. PICK x \in T : \A y \in T : ~ (<<y, x>> \in OpToRel(<, Nat))
  BY NatLessThanWellFounded, WFMin
<1>2. ASSUME NEW y \in T, y < x PROVE FALSE
  <2>1. <<y, x>> \in Nat \X Nat /\ <<y, x>>[1] = y /\ <<y, x>>[2] = x
    OBVIOUS
  <2>2. <<y, x>> \in OpToRel(<, Nat)
    BY <1>2, <2>1 DEF OpToRel
  <2> QED BY <1>1, <2>2
<1>3. \A y \in T : x \in Nat /\ y \in Nat
  OBVIOUS
<1> QED BY <1>2, <1>3

(* How many positions of I are at or below k.                              *)
UpTo(I, k) == {j \in I : j <= k}

(* The members of a set of positions, and of its part up to k.             *)
LEMMA UpToMembers ==
  ASSUME NEW n \in Nat, NEW I \in SUBSET (1..n)
  PROVE  /\ \A i \in I : i \in Nat /\ 0 < i /\ i <= n
         /\ \A j : \A k \in Nat : j \in UpTo(I, k) <=> j \in I /\ j <= k
BY DEF UpTo

(* A set of positions is finite, and its parts are no larger.              *)
LEMMA UpToFinite ==
  ASSUME NEW n \in Nat, NEW I \in SUBSET (1..n)
  PROVE  /\ IsFiniteSet(I) /\ Cardinality(I) \in Nat
         /\ \A k \in Nat : /\ IsFiniteSet(UpTo(I, k))
                           /\ Cardinality(UpTo(I, k)) \in Nat
                           /\ Cardinality(UpTo(I, k)) <= Cardinality(I)
<1>1. IsFiniteSet(1..n)
  BY FS_Interval
<1>2. IsFiniteSet(I)
  BY <1>1, FS_Subset
<1>3. \A k : UpTo(I, k) \in SUBSET I
  BY DEF UpTo
<1> QED BY <1>2, <1>3, FS_Subset, FS_CardinalityType

(* There is an nth position, for every n up to their number.               *)
LEMMA NthExists ==
  ASSUME NEW len \in Nat, NEW I \in SUBSET (1..len),
         NEW n \in 1..Cardinality(I)
  PROVE  \E i \in I : Cardinality(UpTo(I, i)) = n
<1> DEFINE T == {k \in Nat : Cardinality(UpTo(I, k)) >= n}
<1>0. /\ \A i \in I : i \in Nat /\ 0 < i /\ i <= len
      /\ \A j : \A k \in Nat : j \in UpTo(I, k) <=> j \in I /\ j <= k
  BY UpToMembers
<1>1. UpTo(I, len) = I /\ UpTo(I, 0) = {}
  <2>1. \A j : j \in UpTo(I, len) <=> j \in I
    BY <1>0
  <2>2. \A j : j \notin UpTo(I, 0)
    <3>1. \A j \in I : ~ (j <= 0)
      BY <1>0
    <3>2. \A j : j \in UpTo(I, 0) <=> j \in I /\ j <= 0
      BY <1>0
    <3> QED BY <3>1, <3>2
  <2> QED BY <2>1, <2>2
<1>2. len \in T
  BY <1>1, UpToFinite
<1>3. PICK x \in T : \A y \in T : x <= y
  BY <1>2, LeastNumber
<1>4. x # 0
  BY <1>1, FS_EmptySet
<1>5. x \in Nat /\ x - 1 \in Nat
  BY <1>4
<1>a. /\ Cardinality(UpTo(I, x)) \in Nat
      /\ Cardinality(UpTo(I, x - 1)) \in Nat
      /\ Cardinality(UpTo(I, x)) >= n
  BY <1>3, <1>5, UpToFinite
<1>6. Cardinality(UpTo(I, x - 1)) < n
  <2>1. x - 1 \notin T
    BY <1>3, <1>5
  <2>2. n \in Int
    OBVIOUS
  <2> QED BY <2>1, <2>2, <1>5, <1>a
<1>7. CASE x \in I
  <2>1. UpTo(I, x) = UpTo(I, x - 1) \cup {x} /\ x \notin UpTo(I, x - 1)
    <3>1. \A j \in I : j <= x <=> j <= x - 1 \/ j = x
      BY <1>0, <1>5
    <3>2. ~ (x <= x - 1)
      BY <1>5
    <3> QED BY <1>0, <1>5, <1>7, <3>1, <3>2
  <2>2. Cardinality(UpTo(I, x)) = Cardinality(UpTo(I, x - 1)) + 1
    BY <2>1, <1>5, UpToFinite, FS_AddElement
  <2>3. Cardinality(UpTo(I, x)) = n
    BY <1>6, <1>a, <2>2
  <2> QED BY <1>7, <2>3
<1>8. CASE x \notin I
  <2>1. UpTo(I, x) = UpTo(I, x - 1)
    <3>1. \A j \in I : j <= x <=> j <= x - 1
      BY <1>0, <1>5, <1>8
    <3> QED BY <1>0, <1>5, <3>1
  <2> QED BY <1>a, <1>6, <2>1
<1> QED BY <1>7, <1>8

(* The position chosen for n is one of I, and different positions have     *)
(* different numbers.                                                      *)
LEMMA NthIsMember ==
  ASSUME NEW len \in Nat, NEW I \in SUBSET (1..len),
         NEW n \in 1..Cardinality(I)
  PROVE  Nth(I, n) \in I /\ Cardinality(UpTo(I, Nth(I, n))) = n
<1>1. \E i \in I : Cardinality({j \in I : j <= i}) = n
  BY NthExists DEF UpTo
<1>2. Nth(I, n) \in I /\ Cardinality({j \in I : j <= Nth(I, n)}) = n
  BY <1>1 DEF Nth
<1> QED BY <1>2 DEF UpTo

(* A member is the n-th, for n the members up to it.                       *)
LEMMA NthOfCount ==
  ASSUME NEW len \in Nat, NEW I \in SUBSET (1..len), NEW i \in I
  PROVE  /\ Cardinality(UpTo(I, i)) \in 1..Cardinality(I)
         /\ Nth(I, Cardinality(UpTo(I, i))) = i
<1> DEFINE n == Cardinality(UpTo(I, i))
<1>0. /\ \A k \in I : k \in Nat
      /\ \A j : \A k \in Nat : j \in UpTo(I, k) <=> j \in I /\ j <= k
  BY UpToMembers
<1>1. n \in Nat /\ n <= Cardinality(I) /\ Cardinality(I) \in Nat
  BY <1>0, UpToFinite
<1>2. n # 0
  <2>1. i \in UpTo(I, i)
    BY <1>0
  <2>2. IsFiniteSet(UpTo(I, i))
    BY <1>0, UpToFinite
  <2> QED BY <2>1, <2>2, FS_EmptySet
<1>3. n \in 1..Cardinality(I)
  BY <1>1, <1>2
<1>4. \A j, k \in I : j < k => Cardinality(UpTo(I, j)) # Cardinality(UpTo(I, k))
  <2> SUFFICES ASSUME NEW j \in I, NEW k \in I, j < k,
                      Cardinality(UpTo(I, j)) = Cardinality(UpTo(I, k))
               PROVE  FALSE
    OBVIOUS
  <2>1. UpTo(I, j) \in SUBSET UpTo(I, k) /\ k \in UpTo(I, k) /\ k \notin UpTo(I, j)
    <3>1. j \in Nat /\ k \in Nat /\ k <= k /\ ~ (k <= j)
      BY <1>0
    <3>2. \A m \in I : m <= j => m <= k
      BY <1>0, <3>1
    <3> QED BY <1>0, <3>1, <3>2
  <2>2. IsFiniteSet(UpTo(I, k))
    BY <1>0, UpToFinite
  <2>3. UpTo(I, k) = UpTo(I, j)
    BY <2>1, <2>2, FS_Subset
  <2> QED BY <2>1, <2>3
<1>5. Nth(I, n) \in I /\ Cardinality(UpTo(I, Nth(I, n))) = n
  BY <1>3, NthIsMember
<1>6. Nth(I, n) = i
  <2>1. \A j, k \in I :
          Cardinality(UpTo(I, j)) = Cardinality(UpTo(I, k)) => j = k
    <3>1. \A j, k \in I : j < k \/ k < j \/ j = k
      BY <1>0
    <3> QED BY <1>4, <3>1
  <2> QED BY <1>5, <2>1
<1> QED BY <1>3, <1>6

(* Retaining some positions of a queue gives a queue of the same kind of   *)
(* elements.                                                               *)
THEOREM RetainType ==
  ASSUME NEW S, NEW q \in Seq(S), NEW I \in SUBSET (DOMAIN q)
  PROVE  Retain(q, I) \in Seq(S)
<1>1. Len(q) \in Nat /\ DOMAIN q = 1..Len(q)
  OBVIOUS
<1>2. Cardinality(I) \in Nat
  BY <1>1, UpToFinite
<1>3. \A n \in 1..Cardinality(I) : q[Nth(I, n)] \in S
  <2>1. \A i \in DOMAIN q : q[i] \in S
    OBVIOUS
  <2>2. \A n \in 1..Cardinality(I) : Nth(I, n) \in I
    BY <1>1, NthIsMember
  <2> QED BY <2>1, <2>2
<1>4. Retain(q, I) \in [1..Cardinality(I) -> S]
  BY <1>3 DEF Retain
<1> QED BY <1>2, <1>4

(* Every element retained was in the queue at one of the positions.        *)
THEOREM RetainOnly ==
  ASSUME NEW S, NEW q \in Seq(S), NEW I \in SUBSET (DOMAIN q),
         NEW n \in DOMAIN Retain(q, I)
  PROVE  \E i \in I : Retain(q, I)[n] = q[i]
<1>1. Len(q) \in Nat /\ DOMAIN q = 1..Len(q)
  OBVIOUS
<1>2. n \in 1..Cardinality(I) /\ Retain(q, I)[n] = q[Nth(I, n)]
  BY DEF Retain
<1> QED BY <1>1, <1>2, NthIsMember

(* No element at one of the positions is lost.                             *)
THEOREM RetainAll ==
  ASSUME NEW S, NEW q \in Seq(S), NEW I \in SUBSET (DOMAIN q), NEW i \in I
  PROVE  \E n \in DOMAIN Retain(q, I) : Retain(q, I)[n] = q[i]
<1>1. Len(q) \in Nat /\ DOMAIN q = 1..Len(q)
  OBVIOUS
<1> DEFINE n == Cardinality(UpTo(I, i))
<1>2. n \in 1..Cardinality(I) /\ Nth(I, n) = i
  BY <1>1, NthOfCount
<1>3. n \in DOMAIN Retain(q, I) /\ Retain(q, I)[n] = q[i]
  BY <1>2 DEF Retain
<1> QED BY <1>3
=============================================================================
