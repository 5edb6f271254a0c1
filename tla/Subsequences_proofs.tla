------------------------ MODULE Subsequences_proofs ------------------------
(***************************************************************************)
(* Ranks number the places of a selection without gaps, so that Picked     *)
(* takes every selected element once.                                      *)
(***************************************************************************)
EXTENDS Subsequences, SequenceTheorems, FiniteSetTheorems, TLAPS

(* A larger element of a finite set of naturals has a larger rank.         *)
LEMMA RankOneToOne ==
  ASSUME NEW S \in SUBSET Nat, IsFiniteSet(S)
  PROVE  \A i, j \in S : Rank(S, i) = Rank(S, j) => i = j
<1> DEFINE Upto(i) == {j \in S : j <= i}
<1>1. ASSUME NEW i \in S, NEW j \in S, i < j
      PROVE  Rank(S, i) # Rank(S, j)
  <2>1. Upto(j) \in SUBSET S
    OBVIOUS
  <2>2. Upto(i) \in SUBSET Upto(j) /\ j \in Upto(j) /\ j \notin Upto(i)
    <3>1. i \in Nat /\ j \in Nat /\ ~(j <= i)
      BY <1>1
    <3>2. \A x \in Nat : x <= i => x <= j
      BY <1>1, <3>1
    <3>3. \A x \in Upto(i) : x \in Upto(j)
      BY <3>2
    <3>4. j <= j
      BY <3>1
    <3> QED
      BY <3>1, <3>3, <3>4
  <2>3. IsFiniteSet(Upto(j))
    BY <2>1, FS_Subset
  <2>4. Cardinality(Upto(j)) = Cardinality(Upto(i)) => Upto(j) = Upto(i)
    BY <2>2, <2>3, FS_Subset
  <2> QED
    BY <2>2, <2>4 DEF Rank
<1>2. \A i, j \in S : i < j \/ j < i \/ i = j
  OBVIOUS
<1> QED
  BY <1>1, <1>2

(* Ranks number the elements of a finite set of naturals without gaps.     *)
LEMMA RankOnto ==
  ASSUME NEW S \in SUBSET Nat, IsFiniteSet(S)
  PROVE  /\ Cardinality(S) \in Nat
         /\ \A i \in S : Rank(S, i) \in 1 .. Cardinality(S)
         /\ \A k \in 1 .. Cardinality(S) : \E i \in S : Rank(S, i) = k
<1> DEFINE n == Cardinality(S)
           Upto(i) == {j \in S : j <= i}
           f == [i \in S |-> Rank(S, i)]
<1>1. n \in Nat
  BY FS_CardinalityType
<1>2. ASSUME NEW i \in S
      PROVE  Rank(S, i) \in 1 .. n
  <2>1. Upto(i) \in SUBSET S /\ i \in Upto(i)
    OBVIOUS
  <2>2. IsFiniteSet(Upto(i)) /\ Cardinality(Upto(i)) <= n
    BY <2>1, FS_Subset
  <2>3. Cardinality(Upto(i)) \in Nat /\ Cardinality(Upto(i)) # 0
    BY <2>1, <2>2, FS_CardinalityType, FS_EmptySet
  <2> QED
    BY <1>1, <2>2, <2>3 DEF Rank
<1>3. f \in Injection(S, 1 .. n)
  <2>1. f \in [S -> 1 .. n]
    BY <1>2
  <2>2. \A i, j \in S : f[i] = f[j] => i = j
    BY RankOneToOne
  <2> QED
    BY <2>1, <2>2 DEF Injection, IsInjective
<1>4. IsFiniteSet(1 .. n) /\ Cardinality(1 .. n) = n
  BY <1>1, FS_Interval
<1>5. f \in Surjection(S, 1 .. n)
  BY <1>3, <1>4, FS_Injection
<1>6. \A k \in 1 .. n : \E i \in S : f[i] = k
  BY <1>5 DEF Surjection
<1> QED
  BY <1>1, <1>2, <1>6

(* The element of rank 1 is the smallest. *)
LEMMA LeastElement ==
  ASSUME NEW S \in SUBSET Nat, IsFiniteSet(S), S # {}
  PROVE  \E x \in S : \A y \in S : x <= y
<1>1. Cardinality(S) \in Nat /\ Cardinality(S) # 0
  BY FS_CardinalityType, FS_EmptySet
<1>2. PICK x \in S : Rank(S, x) = 1
  BY <1>1, RankOnto
<1>3. ASSUME NEW y \in S, ~(x <= y)
      PROVE  FALSE
  <2> DEFINE Upto == {j \in S : j <= x}
  <2>1. {x, y} \in SUBSET Upto /\ x # y
    BY <1>3
  <2>2. IsFiniteSet(Upto) /\ Cardinality(Upto) = 1
    BY <1>2, FS_Subset DEF Rank
  <2>3. PICK z : Upto = {z}
    BY <2>2, FS_Singleton
  <2> QED
    BY <2>1, <2>3
<1> QED
  BY <1>2, <1>3

(* The selection holds the elements at the selected places, each once. *)
LEMMA PickedIs ==
  ASSUME NEW M, NEW q \in Seq(M), NEW S \in SUBSET DOMAIN q
  PROVE  /\ Picked(q, S) \in Seq(M)
         /\ DOMAIN Picked(q, S) = 1 .. Cardinality(S) /\ Cardinality(S) \in Nat
         /\ \E place \in [1 .. Cardinality(S) -> S] :
              /\ \A k \in 1 .. Cardinality(S) : Picked(q, S)[k] = q[place[k]]
              /\ \A k, l \in 1 .. Cardinality(S) : place[k] = place[l] => k = l
              /\ \A i \in S : \E k \in 1 .. Cardinality(S) : place[k] = i
<1> DEFINE n == Cardinality(S)
           pick(k) == CHOOSE i \in S : Rank(S, i) = k
           place == [k \in 1 .. n |-> pick(k)]
<1>1. Len(q) \in Nat /\ DOMAIN q = 1 .. Len(q) /\ \A i \in 1 .. Len(q) : q[i] \in M
  BY LenProperties, ElementOfSeq
<1>2. S \in SUBSET Nat /\ IsFiniteSet(S)
  <2>1. S \in SUBSET (1 .. Len(q)) /\ IsFiniteSet(1 .. Len(q))
    BY <1>1, FS_Interval
  <2> QED
    BY <2>1, FS_Subset
<1>3. /\ n \in Nat
      /\ \A i \in S : Rank(S, i) \in 1 .. n
      /\ \A k \in 1 .. n : \E i \in S : Rank(S, i) = k
  BY <1>2, RankOnto
<1>4. \A k \in 1 .. n : pick(k) \in S /\ Rank(S, pick(k)) = k
  BY <1>3
<1>5. \A i \in S : pick(Rank(S, i)) = i
  <2>1. \A i, j \in S : Rank(S, i) = Rank(S, j) => i = j
    BY <1>2, RankOneToOne
  <2> QED
    BY <2>1
<1>6. Picked(q, S) = [k \in 1 .. n |-> q[pick(k)]]
  BY DEF Picked
<1> HIDE DEF pick, n
<1>7. place \in [1 .. n -> S] /\ \A k \in 1 .. n : place[k] = pick(k)
  BY <1>4
<1>8. /\ \A k \in 1 .. n : Picked(q, S)[k] = q[place[k]]
      /\ \A k, l \in 1 .. n : place[k] = place[l] => k = l
      /\ \A i \in S : \E k \in 1 .. n : place[k] = i
  BY <1>3, <1>4, <1>5, <1>6, <1>7
<1>9. Picked(q, S) \in [1 .. n -> M]
  BY <1>1, <1>4, <1>6
<1>10. Picked(q, S) \in Seq(M) /\ DOMAIN Picked(q, S) = 1 .. n
  BY <1>3, <1>6, <1>9, SeqDef
<1> HIDE DEF place
<1> QED
  BY <1>3, <1>7, <1>8, <1>10 DEF n
=============================================================================
