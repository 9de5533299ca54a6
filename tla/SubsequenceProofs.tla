------------------------- MODULE SubsequenceProofs --------------------------
(***************************************************************************)
(* Lemmas about Picked: what is left of a sequence keeps its type and its  *)
(* order, and is all of the chosen positions.                              *)
(***************************************************************************)
EXTENDS Subsequences, Sequences, TLAPS, SequenceTheorems, FiniteSetTheorems

\* The number of members of a set that do not come after a given one.
Rank(T, i) == Cardinality({j \in T : j <= i})

\* Counting up to a member numbers the members of a set of naturals from 1.
LEMMA RankBijective ==
    ASSUME NEW T, T \subseteq Nat, IsFiniteSet(T)
    PROVE  /\ Cardinality(T) \in Nat
           /\ \A i \in T : Rank(T, i) \in 1 .. Cardinality(T)
           /\ \A i, j \in T : i < j => Rank(T, i) < Rank(T, j)
           /\ \A i, j \in T : Rank(T, i) = Rank(T, j) => i = j
           /\ \A k \in 1 .. Cardinality(T) : \E i \in T : Rank(T, i) = k
  <1> DEFINE n == Cardinality(T)
             r == [i \in T |-> Rank(T, i)]
             upto(i) == {j \in T : j <= i}
  <1>1. n \in Nat
    BY FS_CardinalityType
  <1>2. ASSUME NEW i \in T
        PROVE  /\ IsFiniteSet(upto(i)) /\ Cardinality(upto(i)) \in Nat
               /\ Cardinality(upto(i)) <= n /\ Cardinality(upto(i)) # 0
    <2>1. upto(i) \in SUBSET T
      OBVIOUS
    <2>2. i \in upto(i)
      OBVIOUS
    <2> HIDE DEF upto
    <2>3. IsFiniteSet(upto(i)) /\ Cardinality(upto(i)) <= n
      BY <2>1, FS_Subset
    <2> QED
      BY <2>2, <2>3, FS_CardinalityType, FS_EmptySet
  <1>3. \A i \in T : Rank(T, i) = Cardinality(upto(i))
    BY DEF Rank
  <1>4. \A i \in T : Rank(T, i) \in 1 .. n
    <2> HIDE DEF upto, n
    <2> QED
      BY <1>1, <1>2, <1>3
  <1>5. ASSUME NEW i \in T, NEW j \in T, i < j PROVE Rank(T, i) < Rank(T, j)
    <2>0. i \in Nat /\ j \in Nat /\ \A k \in T : k \in Nat
      OBVIOUS
    <2>1. upto(i) \in SUBSET upto(j) /\ j \in upto(j) /\ j \notin upto(i)
      <3>1. \A k \in T : k <= i => k <= j
        BY <1>5, <2>0
      <3>2. j <= j /\ ~(j <= i)
        BY <1>5, <2>0
      <3> QED
        BY <3>1, <3>2
    <2> HIDE DEF upto
    <2>2. Cardinality(upto(i)) <= Cardinality(upto(j))
      BY <1>2, <2>1, FS_Subset
    <2>3. Cardinality(upto(j)) # Cardinality(upto(i))
      <3> SUFFICES ASSUME Cardinality(upto(j)) = Cardinality(upto(i)) PROVE FALSE
        OBVIOUS
      <3>1. upto(j) = upto(i)
        BY <1>2, <2>1, FS_Subset
      <3> QED
        BY <2>1, <3>1
    <2>4. /\ Cardinality(upto(i)) \in Nat /\ Cardinality(upto(j)) \in Nat
          /\ Rank(T, i) = Cardinality(upto(i)) /\ Rank(T, j) = Cardinality(upto(j))
      BY <1>2, <1>3
    <2> QED
      BY <2>2, <2>3, <2>4
  <1>6. \A i, j \in T : Rank(T, i) = Rank(T, j) => i = j
    <2> SUFFICES ASSUME NEW i \in T, NEW j \in T, Rank(T, i) = Rank(T, j) PROVE i = j
      OBVIOUS
    <2>1. i \in Nat /\ j \in Nat /\ Rank(T, i) \in Nat
      BY <1>1, <1>4
    <2>2. ~(i < j) /\ ~(j < i)
      BY <1>5, <2>1
    <2> QED
      BY <2>1, <2>2
  <1>7. r \in Injection(T, 1 .. n)
    BY <1>4, <1>6 DEF Injection, IsInjective
  <1>8. IsFiniteSet(1 .. n) /\ Cardinality(1 .. n) = n
    BY <1>1, FS_Interval
  <1>9. r \in Surjection(T, 1 .. n)
    <2> HIDE DEF r, n
    <2>1. Cardinality(T) = Cardinality(1 .. n)
      BY <1>8 DEF n
    <2> QED
      BY <1>7, <1>8, <2>1, FS_Injection
  <1>10. \A k \in 1 .. n : \E i \in T : r[i] = k
    <2> HIDE DEF r, n
    <2> QED
      BY <1>9 DEF Surjection
  <1> QED
    BY <1>1, <1>4, <1>5, <1>6, <1>10

\* A set of positions of a sequence.
LEMMA PositionsFinite ==
    ASSUME NEW S, NEW q \in Seq(S), NEW I \in SUBSET DOMAIN q
    PROVE  IsFiniteSet(I) /\ I \subseteq Nat /\ Cardinality(I) \in Nat
  <1>1. DOMAIN q = 1 .. Len(q) /\ Len(q) \in Nat
    BY LenProperties
  <1>2. IsFiniteSet(1 .. Len(q))
    BY <1>1, FS_Interval
  <1> QED
    BY <1>1, <1>2, FS_Subset, FS_CardinalityType

\* The elements are those of the positions, one for each, in their order.
LEMMA PickedOrder ==
    ASSUME NEW S, NEW q \in Seq(S), NEW I \in SUBSET DOMAIN q
    PROVE  \E f \in [1 .. Cardinality(I) -> I] :
             /\ \A k, l \in 1 .. Cardinality(I) : k < l => f[k] < f[l]
             /\ \A k \in 1 .. Cardinality(I) : Picked(q, I)[k] = q[f[k]]
             /\ \A i \in I : \E k \in 1 .. Cardinality(I) : f[k] = i
  <1> DEFINE n == Cardinality(I)
             pick(k) == CHOOSE i \in I : Rank(I, i) = k
             f == [k \in 1 .. n |-> pick(k)]
  <1>1. I \subseteq Nat /\ IsFiniteSet(I)
    BY PositionsFinite
  <1>2. /\ n \in Nat
        /\ \A i \in I : Rank(I, i) \in 1 .. n
        /\ \A i, j \in I : i < j => Rank(I, i) < Rank(I, j)
        /\ \A i, j \in I : Rank(I, i) = Rank(I, j) => i = j
        /\ \A k \in 1 .. n : \E i \in I : Rank(I, i) = k
    BY <1>1, RankBijective
  <1>3. \A k \in 1 .. n : pick(k) \in I /\ Rank(I, pick(k)) = k
    BY <1>2
  <1>4. \A k \in 1 .. n : Picked(q, I)[k] = q[pick(k)]
    BY DEF Picked, Rank
  <1> HIDE DEF pick, n
  <1>5. f \in [1 .. n -> I]
    BY <1>3
  <1>6. ASSUME NEW k \in 1 .. n, NEW l \in 1 .. n, k < l PROVE f[k] < f[l]
    <2>1. /\ pick(k) \in I /\ pick(l) \in I /\ pick(k) \in Nat /\ pick(l) \in Nat
          /\ Rank(I, pick(k)) = k /\ Rank(I, pick(l)) = l /\ k \in Nat /\ l \in Nat
      BY <1>1, <1>2, <1>3
    <2>2. pick(l) # pick(k) /\ ~(pick(l) < pick(k))
      BY <1>2, <1>6, <2>1
    <2>3. pick(k) < pick(l)
      BY <2>1, <2>2
    <2> QED
      BY <2>3
  <1>7. \A k \in 1 .. n : Picked(q, I)[k] = q[f[k]]
    BY <1>4
  <1>8. \A i \in I : \E k \in 1 .. n : f[k] = i
    <2> SUFFICES ASSUME NEW i \in I PROVE \E k \in 1 .. n : f[k] = i
      OBVIOUS
    <2>1. Rank(I, i) \in 1 .. n
      BY <1>2
    <2>2. pick(Rank(I, i)) = i
      BY <1>2, <1>3, <2>1
    <2> QED
      BY <2>1, <2>2
  <1> HIDE DEF f
  <1> QED
    BY <1>5, <1>6, <1>7, <1>8 DEF n

LEMMA PickedType ==
    ASSUME NEW S, NEW q \in Seq(S), NEW I \in SUBSET DOMAIN q
    PROVE  /\ Picked(q, I) \in Seq(S)
           /\ DOMAIN Picked(q, I) = 1 .. Cardinality(I)
           /\ \A k \in DOMAIN Picked(q, I) : \E i \in I : Picked(q, I)[k] = q[i]
           /\ \A i \in I : \E k \in DOMAIN Picked(q, I) : Picked(q, I)[k] = q[i]
  <1> DEFINE p == Picked(q, I)
             n == Cardinality(I)
  <1>1. DOMAIN p = 1 .. n /\ p = [k \in 1 .. n |-> p[k]]
    BY DEF Picked
  <1>2. n \in Nat /\ \A i \in I : i \in DOMAIN q /\ q[i] \in S
    BY PositionsFinite, LenProperties, ElementOfSeq
  <1>3. PICK f \in [1 .. n -> I] :
               /\ \A k \in 1 .. n : p[k] = q[f[k]]
               /\ \A i \in I : \E k \in 1 .. n : f[k] = i
    BY PickedOrder
  <1> HIDE DEF p, n
  <1>4. \A k \in 1 .. n : f[k] \in I /\ p[k] \in S
    BY <1>2, <1>3
  <1>5. p \in Seq(S)
    BY <1>1, <1>2, <1>4
  <1>6. \A k \in 1 .. n : \E i \in I : p[k] = q[i]
    BY <1>3, <1>4
  <1>7. \A i \in I : \E k \in 1 .. n : p[k] = q[i]
    BY <1>3
  <1> QED
    BY <1>1, <1>5, <1>6, <1>7 DEF p, n

\* What tells the elements apart still does.
LEMMA PickedApart ==
    ASSUME NEW S, NEW q \in Seq(S), NEW I \in SUBSET DOMAIN q,
           \A i, j \in DOMAIN q : q[i].id = q[j].id => i = j
    PROVE  \A k, l \in DOMAIN Picked(q, I) : Picked(q, I)[k].id = Picked(q, I)[l].id => k = l
  <1> DEFINE p == Picked(q, I)
             n == Cardinality(I)
  <1>1. DOMAIN p = 1 .. n /\ n \in Nat /\ I \subseteq Nat
    BY PickedType, PositionsFinite
  <1>2. PICK f \in [1 .. n -> I] :
               /\ \A k, l \in 1 .. n : k < l => f[k] < f[l]
               /\ \A k \in 1 .. n : p[k] = q[f[k]]
    BY PickedOrder
  <1> HIDE DEF p, n
  <1>3. \A k, l \in 1 .. n : p[k].id = p[l].id => f[k] = f[l]
    BY <1>2
  <1>4. ASSUME NEW k \in 1 .. n, NEW l \in 1 .. n, f[k] = f[l] PROVE k = l
    <2>1. k \in Nat /\ l \in Nat /\ f[k] \in Nat /\ f[l] \in Nat
      BY <1>1
    <2>2. ~(k < l) /\ ~(l < k)
      BY <1>2, <1>4, <2>1
    <2> QED
      BY <2>1, <2>2
  <1> QED
    BY <1>1, <1>3, <1>4 DEF p
=============================================================================
