-------------------------- MODULE CompactionProofs --------------------------
(* What compaction keeps, for every array and every choice of positions.    *)
EXTENDS Compaction, FiniteSetTheorems, TLAPS

(* The positions kept are numbered without gaps: Rank is a bijection.       *)
LEMMA RankIsBijection ==
  ASSUME NEW K \in SUBSET Nat, IsFiniteSet(K)
  PROVE  /\ Cardinality(K) \in Nat
         /\ \A i \in K : Rank(K, i) \in 1 .. Cardinality(K)
         /\ \A i, j \in K : i < j => Rank(K, i) < Rank(K, j)
         /\ \A n \in 1 .. Cardinality(K) : \E i \in K : Rank(K, i) = n
<1> DEFINE Upto(i) == {j \in K : j <= i}
           rank == [i \in K |-> Rank(K, i)]
<1>0. Cardinality(K) \in Nat BY FS_CardinalityType
<1>1. \A i \in K : IsFiniteSet(Upto(i)) /\ Cardinality(Upto(i)) \in Nat
                   /\ Cardinality(Upto(i)) <= Cardinality(K)
  <2> TAKE i \in K
  <2>1. Upto(i) \in SUBSET K OBVIOUS
  <2> QED BY <2>1, FS_Subset, FS_CardinalityType
<1>2. \A i \in K : Rank(K, i) \in 1 .. Cardinality(K)
  <2> TAKE i \in K
  <2>1. Upto(i) # {} OBVIOUS
  <2>2. IsFiniteSet(Upto(i)) /\ Cardinality(Upto(i)) \in Nat /\ Cardinality(Upto(i)) <= Cardinality(K)
    BY <1>1
  <2> HIDE DEF Upto
  <2>3. Cardinality(Upto(i)) # 0 BY <2>1, <2>2, FS_EmptySet
  <2>4. Cardinality(Upto(i)) \in 1 .. Cardinality(K) BY <1>0, <2>2, <2>3
  <2> QED BY <2>4 DEF Rank, Upto
<1>3. ASSUME NEW i \in K, NEW j \in K, i < j PROVE Rank(K, i) < Rank(K, j)
  <2>0. \A x \in K : x \in Nat /\ (x <= i => x <= j) BY <1>3
  <2>1. Upto(i) \in SUBSET Upto(j) BY <2>0
  <2>2. j \in Upto(j) /\ j \notin Upto(i) BY <1>3
  <2>3. /\ Cardinality(Upto(i)) <= Cardinality(Upto(j))
        /\ Cardinality(Upto(j)) = Cardinality(Upto(i)) => Upto(j) = Upto(i)
    BY <1>1, <2>1, FS_Subset
  <2>4. Cardinality(Upto(i)) # Cardinality(Upto(j)) BY <2>2, <2>3
  <2> HIDE DEF Upto
  <2>5. Cardinality(Upto(i)) < Cardinality(Upto(j)) BY <1>1, <2>3, <2>4
  <2> QED BY <2>5 DEF Rank, Upto
<1>4. rank \in Injection(K, 1 .. Cardinality(K))
  <2>1. rank \in [K -> 1 .. Cardinality(K)] BY <1>2
  <2>2. \A i, j \in K : i # j => rank[i] # rank[j]
    <3> SUFFICES ASSUME NEW i \in K, NEW j \in K, i # j PROVE Rank(K, i) # Rank(K, j)
      OBVIOUS
    <3>1. i < j \/ j < i OBVIOUS
    <3> QED BY <1>2, <1>3, <3>1
  <2> QED BY <2>1, <2>2 DEF Injection, IsInjective
<1>5. rank \in Surjection(K, 1 .. Cardinality(K))
  <2>1. IsFiniteSet(1 .. Cardinality(K)) /\ Cardinality(1 .. Cardinality(K)) = Cardinality(K)
    BY <1>0, FS_Interval
  <2> QED BY <1>4, <2>1, FS_Injection
<1>6. \A n \in 1 .. Cardinality(K) : \E i \in K : rank[i] = n
  BY <1>5 DEF Surjection
<1> QED BY <1>0, <1>2, <1>3, <1>6

(* Nth picks positions of K, every one of them once and in order.           *)
LEMMA NthProperties ==
  ASSUME NEW K \in SUBSET Nat, IsFiniteSet(K)
  PROVE  /\ \A n \in 1 .. Cardinality(K) : Nth(K, n) \in K
         /\ \A m, n \in 1 .. Cardinality(K) : m < n => Nth(K, m) < Nth(K, n)
         /\ \A i \in K : \E n \in 1 .. Cardinality(K) : Nth(K, n) = i
<1>1. \A n \in 1 .. Cardinality(K) : Nth(K, n) \in K /\ Rank(K, Nth(K, n)) = n
  BY RankIsBijection DEF Nth
<1>2. ASSUME NEW m \in 1 .. Cardinality(K), NEW n \in 1 .. Cardinality(K), m < n
      PROVE  Nth(K, m) < Nth(K, n)
  <2>1. Nth(K, m) \in Nat /\ Nth(K, n) \in Nat BY <1>1
  <2>2. ~(Nth(K, n) < Nth(K, m))
    <3>1. Nth(K, n) < Nth(K, m) => Rank(K, Nth(K, n)) < Rank(K, Nth(K, m))
      BY <1>1, RankIsBijection
    <3>2. Rank(K, Nth(K, n)) = n /\ Rank(K, Nth(K, m)) = m BY <1>1
    <3>3. m \in Nat /\ n \in Nat BY RankIsBijection
    <3> QED BY <1>2, <3>1, <3>2, <3>3
  <2>3. Nth(K, m) # Nth(K, n) BY <1>1, <1>2
  <2> QED BY <2>1, <2>2, <2>3
<1>3. ASSUME NEW i \in K PROVE \E n \in 1 .. Cardinality(K) : Nth(K, n) = i
  <2> DEFINE n == Rank(K, i)
  <2>1. n \in 1 .. Cardinality(K) BY RankIsBijection
  <2>2. Nth(K, n) \in K /\ Rank(K, Nth(K, n)) = n BY <1>1, <2>1
  <2>3. Nth(K, n) = i
    <3>1. Nth(K, n) \in Nat /\ i \in Nat BY <2>2
    <3>2. n \in Nat /\ Rank(K, i) = n BY <2>1, RankIsBijection
    <3> HIDE DEF n
    <3>3. /\ Nth(K, n) < i => Rank(K, Nth(K, n)) < Rank(K, i)
          /\ i < Nth(K, n) => Rank(K, i) < Rank(K, Nth(K, n))
      BY <2>2, RankIsBijection
    <3>4. ~(Nth(K, n) < i) /\ ~(i < Nth(K, n)) BY <2>2, <3>2, <3>3
    <3> QED BY <3>1, <3>4
  <2> QED BY <2>1, <2>3
<1> QED BY <1>1, <1>2, <1>3

(* A search from the front that finds something finds a first one.          *)
LEMMA FirstExists ==
  ASSUME NEW K \in SUBSET Nat, IsFiniteSet(K), K # {}
  PROVE  \E i \in K : \A j \in K : i <= j
<1>1. Cardinality(K) \in Nat /\ 1 \in 1 .. Cardinality(K)
  <2>1. Cardinality(K) \in Nat /\ Cardinality(K) # 0 BY FS_CardinalityType, FS_EmptySet
  <2> QED BY <2>1
<1>2. Nth(K, 1) \in K BY <1>1, NthProperties
<1>3. ASSUME NEW j \in K PROVE Nth(K, 1) <= j
  <2>1. PICK n \in 1 .. Cardinality(K) : Nth(K, n) = j BY NthProperties
  <2>2. n = 1 \/ 1 < n BY <1>1
  <2>3. 1 < n => Nth(K, 1) < j BY <1>1, <2>1, NthProperties
  <2>4. Nth(K, 1) \in Nat /\ j \in Nat BY <1>2
  <2> QED BY <2>1, <2>2, <2>3, <2>4
<1> QED BY <1>2, <1>3

(* A compacted array holds elements of the array, at positions kept.        *)
LEMMA CompactProperties ==
  ASSUME NEW A, NEW seq \in Seq(A), NEW K \in SUBSET DOMAIN seq
  PROVE  /\ Compact(seq, K) \in Seq(A)
         /\ Len(Compact(seq, K)) = Cardinality(K)
         /\ Cardinality(K) \in Nat /\ Cardinality(K) <= Len(seq)
         /\ \A n \in 1 .. Cardinality(K) : Nth(K, n) \in K /\ Compact(seq, K)[n] = seq[Nth(K, n)]
         /\ \A m, n \in 1 .. Cardinality(K) : m # n => Nth(K, m) # Nth(K, n)
         /\ \A i \in K : \E n \in 1 .. Cardinality(K) : Nth(K, n) = i
<1>1. IsFiniteSet(DOMAIN seq) /\ Cardinality(DOMAIN seq) = Len(seq)
  <2>1. DOMAIN seq = 1 .. Len(seq) /\ Len(seq) \in Nat OBVIOUS
  <2>2. /\ IsFiniteSet(1 .. Len(seq))
        /\ Cardinality(1 .. Len(seq)) = IF 1 > Len(seq) THEN 0 ELSE Len(seq) - 1 + 1
    BY ONLY FS_Interval, <2>1
  <2>3. Cardinality(1 .. Len(seq)) = Len(seq) BY <2>1, <2>2
  <2> QED BY <2>1, <2>2, <2>3
<1>2. IsFiniteSet(K) /\ Cardinality(K) <= Len(seq) /\ Cardinality(K) \in Nat
  BY <1>1, FS_Subset, FS_CardinalityType
<1>3. K \in SUBSET Nat OBVIOUS
<1>4. \A n \in 1 .. Cardinality(K) : Nth(K, n) \in K BY <1>2, <1>3, NthProperties
<1>5. \A m, n \in 1 .. Cardinality(K) : m # n => Nth(K, m) # Nth(K, n)
  <2> SUFFICES ASSUME NEW m \in 1 .. Cardinality(K), NEW n \in 1 .. Cardinality(K), m # n
               PROVE  Nth(K, m) # Nth(K, n)
    OBVIOUS
  <2>1. m < n \/ n < m BY <1>2
  <2>2. Nth(K, m) \in Nat /\ Nth(K, n) \in Nat BY <1>3, <1>4
  <2>3. Nth(K, m) < Nth(K, n) \/ Nth(K, n) < Nth(K, m) BY <1>2, <1>3, <2>1, NthProperties
  <2> QED BY <2>2, <2>3
<1>6. \A i \in K : \E n \in 1 .. Cardinality(K) : Nth(K, n) = i BY <1>2, <1>3, NthProperties
<1>7. Compact(seq, K) \in Seq(A) /\ Len(Compact(seq, K)) = Cardinality(K)
  <2>1. \A n \in 1 .. Cardinality(K) : seq[Nth(K, n)] \in A BY <1>4
  <2> QED BY <1>2, <2>1 DEF Compact
<1>8. \A n \in 1 .. Cardinality(K) : Compact(seq, K)[n] = seq[Nth(K, n)] BY DEF Compact
<1> QED BY <1>2, <1>4, <1>5, <1>6, <1>7, <1>8

(* Induction over the rounds of a loop, with a set for the rounds where     *)
(* something holds.                                                         *)
LEMMA EveryRound ==
  ASSUME NEW n \in Nat, NEW S \in SUBSET (0 .. n), 0 \in S,
         \A i \in 1 .. n : i - 1 \in S => i \in S
  PROVE  S = 0 .. n
<1> DEFINE Bad == (0 .. n) \ S
<1> SUFFICES ASSUME Bad # {} PROVE FALSE OBVIOUS
<1>1. Bad \in SUBSET Nat OBVIOUS
<1>2. IsFiniteSet(Bad)
  <2>1. 0 \in Int /\ n \in Int OBVIOUS
  <2>2. IsFiniteSet(0 .. n) BY ONLY FS_Interval, <2>1
  <2>3. Bad \subseteq 0 .. n OBVIOUS
  <2> HIDE DEF Bad
  <2> QED BY <2>2, <2>3, FS_Subset
<1>3. PICK m \in Bad : \A j \in Bad : m <= j
  <2> HIDE DEF Bad
  <2> QED BY <1>1, <1>2, FirstExists
<1>4. m \in 1 .. n /\ m \notin S BY <1>1
<1>5. m - 1 \in 0 .. n /\ m - 1 \notin Bad BY <1>3, <1>4
<1> QED BY <1>4, <1>5
=============================================================================
