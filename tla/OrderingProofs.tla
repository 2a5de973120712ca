---------------------------- MODULE OrderingProofs ----------------------------
(***************************************************************************)
(* What the ordering of a finite set of numbers is: all of its elements,   *)
(* each once, the smaller ones first; and the same for an interval.        *)
(***************************************************************************)
EXTENDS Ordering, Integers, FiniteSetTheorems, TLAPS

(* How many elements there are up to one tells it from the others. *)
LEMMA UpToGrows ==
  ASSUME NEW S \in SUBSET Nat, IsFiniteSet(S), NEW x \in S, NEW y \in S, x < y
  PROVE  Cardinality(UpTo(S, x)) < Cardinality(UpTo(S, y))
<1>1. UpTo(S, x) \subseteq UpTo(S, y) /\ y \in UpTo(S, y) /\ y \notin UpTo(S, x)
  <2>1. \A z \in S : z <= x => z <= y
    BY \A z \in S : z \in Nat
  <2>2. y <= y /\ ~(y <= x)
    BY x \in Nat, y \in Nat
  <2>3. UpTo(S, x) \subseteq UpTo(S, y)
    BY <2>1 DEF UpTo
  <2> QED BY <2>2, <2>3 DEF UpTo
<1>2. UpTo(S, x) \in SUBSET S /\ UpTo(S, y) \in SUBSET S
  BY DEF UpTo
<1>3. IsFiniteSet(UpTo(S, x)) /\ IsFiniteSet(UpTo(S, y))
  BY <1>2, FS_Subset
<1>4. Cardinality(UpTo(S, x)) \in Nat /\ Cardinality(UpTo(S, y)) \in Nat
  BY <1>3, FS_CardinalityType
<1>5. /\ Cardinality(UpTo(S, x)) <= Cardinality(UpTo(S, y))
      /\ Cardinality(UpTo(S, y)) = Cardinality(UpTo(S, x)) => UpTo(S, y) = UpTo(S, x)
  BY <1>1, <1>3, FS_Subset
<1> QED BY <1>1, <1>4, <1>5

LEMMA UpToCounts ==
  ASSUME NEW S \in SUBSET Nat, IsFiniteSet(S), NEW x \in S
  PROVE  Cardinality(UpTo(S, x)) \in 1..Cardinality(S)
<1>1. UpTo(S, x) \in SUBSET S /\ x \in UpTo(S, x)
  BY DEF UpTo
<1>2. IsFiniteSet(UpTo(S, x)) /\ Cardinality(UpTo(S, x)) <= Cardinality(S)
  BY <1>1, FS_Subset
<1>3. Cardinality(UpTo(S, x)) \in Nat /\ Cardinality(S) \in Nat
  BY <1>2, FS_CardinalityType
<1>4. Cardinality(UpTo(S, x)) # 0
  BY <1>1, <1>2, FS_EmptySet
<1> QED BY <1>2, <1>3, <1>4

(* The ordering of S has every element of S, and nothing else. *)
LEMMA InOrderIsAll ==
  ASSUME NEW S \in SUBSET Nat, IsFiniteSet(S)
  PROVE  /\ Cardinality(S) \in Nat
         /\ DOMAIN InOrder(S) = 1..Cardinality(S)
         /\ \A k \in 1..Cardinality(S) : InOrder(S)[k] \in S
         /\ \A x \in S : \E k \in 1..Cardinality(S) : InOrder(S)[k] = x
<1> DEFINE n == Cardinality(S)
           rank == [x \in S |-> Cardinality(UpTo(S, x))]
<1>1. n \in Nat
  BY FS_CardinalityType
<1>2. rank \in [S -> 1..n]
  BY UpToCounts
<1>3. \A x, y \in S : rank[x] = rank[y] => x = y
  <2> SUFFICES ASSUME NEW x \in S, NEW y \in S, rank[x] = rank[y], x # y PROVE FALSE
    OBVIOUS
  <2>1. x \in Nat /\ y \in Nat
    OBVIOUS
  <2>2. rank[x] \in Nat /\ rank[y] \in Nat
    BY <1>2
  <2>3. CASE x < y
    <3>1. rank[x] < rank[y]
      BY <2>3, UpToGrows
    <3> QED BY <3>1, <2>2
  <2>4. CASE y < x
    <3>1. rank[y] < rank[x]
      BY <2>4, UpToGrows
    <3> QED BY <3>1, <2>2
  <2> QED BY <2>1, <2>3, <2>4
<1>4. rank \in Injection(S, 1..n)
  BY <1>2, <1>3 DEF Injection, IsInjective
<1>5. IsFiniteSet(1..n) /\ Cardinality(1..n) = n
  BY <1>1, FS_Interval
<1>6. rank \in Surjection(S, 1..n)
  BY <1>4, <1>5, FS_Injection
<1>7. \A k \in 1..n : \E x \in S : rank[x] = k
  BY <1>6 DEF Surjection
<1>8. \A k \in 1..n : InOrder(S)[k] \in S /\ rank[InOrder(S)[k]] = k
  <2> SUFFICES ASSUME NEW k \in 1..n PROVE InOrder(S)[k] \in S /\ rank[InOrder(S)[k]] = k
    OBVIOUS
  <2>1. InOrder(S)[k] = CHOOSE x \in S : Cardinality(UpTo(S, x)) = k
    BY DEF InOrder
  <2>2. \E x \in S : Cardinality(UpTo(S, x)) = k
    BY <1>7
  <2> QED BY <2>1, <2>2
<1>9. ASSUME NEW x \in S PROVE \E k \in 1..n : InOrder(S)[k] = x
  <2>1. rank[x] \in 1..n
    BY <1>2
  <2>2. InOrder(S)[rank[x]] \in S /\ rank[InOrder(S)[rank[x]]] = rank[x]
    BY <2>1, <1>8
  <2> QED BY <2>1, <2>2, <1>3
<1> QED BY <1>1, <1>8, <1>9 DEF InOrder

(* An interval is in order. *)
LEMMA IntervalInOrder ==
  ASSUME NEW m \in Nat, NEW n \in Nat
  PROVE  InOrder((m + 1)..(m + n)) = [k \in 1..n |-> m + k]
<1> DEFINE S == (m + 1)..(m + n)
<1>1. Cardinality(S) = n
  <2>1. Cardinality(S) = IF m + 1 > m + n THEN 0 ELSE (m + n) - (m + 1) + 1
    BY FS_Interval
  <2> QED BY <2>1
<1>2. ASSUME NEW x \in S PROVE Cardinality(UpTo(S, x)) = x - m
  <2>1. UpTo(S, x) = (m + 1)..x
    BY DEF UpTo
  <2>2. Cardinality((m + 1)..x) = IF m + 1 > x THEN 0 ELSE x - (m + 1) + 1
    BY FS_Interval
  <2> QED BY <2>1, <2>2
<1>3. ASSUME NEW k \in 1..n PROVE InOrder(S)[k] = m + k
  <2>1. InOrder(S)[k] = CHOOSE x \in S : Cardinality(UpTo(S, x)) = k
    BY <1>1 DEF InOrder
  <2>2. m + k \in S /\ Cardinality(UpTo(S, m + k)) = k
    BY <1>2
  <2>3. \A x \in S : Cardinality(UpTo(S, x)) = k => x = m + k
    BY <1>2
  <2> QED BY <2>1, <2>2, <2>3
<1>4. InOrder(S) = [k \in 1..n |-> InOrder(S)[k]]
  BY <1>1 DEF InOrder
<1> QED BY <1>3, <1>4

(* A set of numbers that is not empty has a least one. *)
LEMMA LeastExists ==
  ASSUME NEW T \in SUBSET Nat, T # {}
  PROVE  \E x \in T : \A y \in T : x <= y
<1>1. PICK x \in T : \A y \in T : ~(<<y, x>> \in OpToRel(<, Nat))
  BY NatLessThanWellFounded, WFMin
<1>2. \A y \in T : ~(y < x)
  BY <1>1 DEF OpToRel
<1> QED BY <1>2
=============================================================================
