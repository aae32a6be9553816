----------------------------- MODULE TableProofs -----------------------------
(* Proofs about what the server keeps and computes besides the artifacts:   *)
(* the order of versions and the ranges of SemVer, for every width of an    *)
(* int and all texts that fit; the rows of KvTable, for every table and     *)
(* every sequence of statements; the caches of ObjectCache, for every set   *)
(* of workers and keys and every number of uploads, faults and crashes; the *)
(* buckets of RateLimit, for every limit, window and delay.  These modules  *)
(* share no variable.                                                       *)
EXTENDS ObjectCache, RateLimit, Algorithms, CompactionProofs, SequenceTheorems, WellFoundedInduction

-----------------------------------------------------------------------------
(* Versions and ranges. *)

(* Remainders next to zero. *)
LEMMA SmallRemainder ==
  ASSUME NEW n \in Int, NEW D \in Nat, 0 < D, 0 - D <= n, n < D
  PROVE  n % D = IF n < 0 THEN n + D ELSE n
<1>1. CASE n < 0 BY <1>1
<1>2. CASE n >= 0 BY <1>2
<1> QED BY <1>1, <1>2

(* An int that is in range is converted to itself. *)
LEMMA ToIntKeeps ==
  ASSUME NEW n \in Int, 0 - IntLimit <= n, n < IntLimit
  PROVE  ToInt(n) = n
<1> DEFINE D == 2 * IntLimit
<1>1. IntLimit \in Nat \ {0} /\ D \in Nat /\ 0 < D /\ 0 - D <= n /\ n < D BY SemVerAssumption
<1>2. D = 2 * IntLimit OBVIOUS
<1>3. ToInt(n) = IF n % D < IntLimit THEN n % D ELSE (n % D) - D BY DEF ToInt
<1> HIDE DEF D
<1>4. n % D = IF n < 0 THEN n + D ELSE n BY <1>1, SmallRemainder
<1> QED BY <1>1, <1>2, <1>3, <1>4

(* Identifiers are compared by a total order, up to equality of what is     *)
(* looked at.                                                               *)
LEMMA IdOrder ==
  ASSUME NEW a \in Identifier, NEW b \in Identifier, NEW c \in Identifier
  PROVE  /\ CompareId(a, b) \in {-1, 0, 1}
         /\ CompareId(a, b) = -1 <=> CompareId(b, a) = 1
         /\ CompareId(a, b) = 0 <=> CompareId(b, a) = 0
         /\ CompareId(a, b) = 0 => CompareId(a, c) = CompareId(b, c) /\ CompareId(c, a) = CompareId(c, b)
         /\ CompareId(a, b) = -1 /\ CompareId(b, c) = -1 => CompareId(a, c) = -1
<1> DEFINE nx(x) == IsNumeric(x)
<1>1. a.val \in Nat /\ b.val \in Nat /\ c.val \in Nat BY DEF Identifier, Empty
<1>2. IsNumeric(a) \in BOOLEAN /\ IsNumeric(b) \in BOOLEAN /\ IsNumeric(c) \in BOOLEAN
  BY DEF IsNumeric
<1> QED BY <1>1, <1>2 DEF CompareId

ListSame(a, b) == Len(a) = Len(b) /\ \A i \in 1 .. Len(a) : CompareId(a[i], b[i]) = 0

ListBelow(a, b) ==
  \E i \in 1 .. Len(b) :
    /\ i <= Len(a) + 1
    /\ \A j \in 1 .. i - 1 : CompareId(a[j], b[j]) = 0
    /\ i <= Len(a) => CompareId(a[i], b[i]) = -1

(* The loop finds one of three outcomes. *)
LEMMA ListsCompared ==
  ASSUME NEW a \in Seq(Identifier), NEW b \in Seq(Identifier)
  PROVE  \/ CompareLists(a, b) = -1 /\ ListBelow(a, b)
         \/ CompareLists(a, b) = 0 /\ ListSame(a, b)
         \/ CompareLists(a, b) = 1 /\ ListBelow(b, a)
<1> DEFINE d == Differences(a, b)
<1>1. /\ Len(a) \in Nat /\ Len(b) \in Nat
      /\ \A i \in 1 .. Len(a) : a[i] \in Identifier
      /\ \A i \in 1 .. Len(b) : b[i] \in Identifier
  OBVIOUS
<1>2. CASE d # {}
  <2>1. d \subseteq 1 .. Len(a) /\ d \in SUBSET Nat BY <1>1 DEF Differences
  <2>2. IsFiniteSet(d)
    <3>1. 1 \in Int /\ Len(a) \in Int BY <1>1
    <3>2. IsFiniteSet(1 .. Len(a)) BY ONLY FS_Interval, <3>1
    <3> QED BY <2>1, <3>2, FS_Subset
  <2>3. \E x \in d : \A y \in d : x <= y
    <3> HIDE DEF d
    <3> QED BY <1>2, <2>1, <2>2, FirstExists
  <2> DEFINE m == Min(d)
  <2>4. m \in d /\ \A y \in d : m <= y BY <2>3 DEF Min
  <2>5. CompareLists(a, b) = CompareId(a[m], b[m]) BY <1>2 DEF CompareLists
  <2> HIDE DEF m
  <2>6. /\ m \in 1 .. Len(a) /\ m \in 1 .. Len(b) /\ CompareId(a[m], b[m]) # 0
    BY <1>1, <2>4 DEF Differences
  <2>7. \A j \in 1 .. m - 1 : CompareId(a[j], b[j]) = 0
    BY <1>1, <2>4, <2>6 DEF Differences
  <2>8. a[m] \in Identifier /\ b[m] \in Identifier BY <1>1, <2>6
  <2>9. \A j \in 1 .. m - 1 : CompareId(b[j], a[j]) = 0 BY <1>1, <2>6, <2>7, IdOrder
  <2>10. CASE CompareId(a[m], b[m]) = -1
    <3>1. ListBelow(a, b) BY <1>1, <2>6, <2>7, <2>10 DEF ListBelow
    <3> QED BY <2>5, <2>10, <3>1
  <2>11. CASE CompareId(a[m], b[m]) = 1
    <3>0. CompareId(b[m], a[m]) = -1 BY <2>8, <2>11, IdOrder
    <3>1. ListBelow(b, a) BY <1>1, <2>6, <2>9, <3>0 DEF ListBelow
    <3> QED BY <2>5, <2>11, <3>1
  <2> QED BY <2>6, <2>8, <2>10, <2>11, IdOrder
<1>3. CASE d = {}
  <2>1. \A i \in 1 .. Len(a) : i <= Len(b) => CompareId(a[i], b[i]) = 0 BY <1>3 DEF Differences
  <2>2. \A i \in 1 .. Len(b) : i <= Len(a) => CompareId(b[i], a[i]) = 0 BY <1>1, <2>1, IdOrder
  <2>3. CASE Len(a) > Len(b)
    <3>1. CompareLists(a, b) = 1 BY <1>3, <2>3 DEF CompareLists
    <3>2. Len(b) + 1 \in 1 .. Len(a) BY <1>1, <2>3
    <3>3. ListBelow(b, a) BY <1>1, <2>2, <3>2 DEF ListBelow
    <3> QED BY <3>1, <3>3
  <2>4. CASE Len(a) < Len(b)
    <3>1. CompareLists(a, b) = -1 BY <1>1, <1>3, <2>4 DEF CompareLists
    <3>2. Len(a) + 1 \in 1 .. Len(b) BY <1>1, <2>4
    <3>3. ListBelow(a, b) BY <1>1, <2>1, <3>2 DEF ListBelow
    <3> QED BY <3>1, <3>3
  <2>5. CASE Len(a) = Len(b)
    <3>1. CompareLists(a, b) = 0 BY <1>1, <1>3, <2>5 DEF CompareLists
    <3>2. ListSame(a, b) BY <1>1, <2>1, <2>5 DEF ListSame
    <3> QED BY <3>1, <3>2
  <2> QED BY <1>1, <2>3, <2>4, <2>5
<1> QED BY <1>2, <1>3

(* Which two never meet. *)
LEMMA ListOrder ==
  ASSUME NEW a \in Seq(Identifier), NEW b \in Seq(Identifier), NEW c \in Seq(Identifier)
  PROVE  /\ ~(ListBelow(a, b) /\ ListBelow(b, a))
         /\ ~(ListBelow(a, b) /\ ListSame(a, b))
         /\ ListSame(a, b) => ListSame(b, a)
         /\ ListSame(a, b) /\ ListSame(b, c) => ListSame(a, c)
         /\ ListSame(a, b) /\ ListBelow(b, c) => ListBelow(a, c)
         /\ ListBelow(a, b) /\ ListSame(b, c) => ListBelow(a, c)
         /\ ListBelow(a, b) /\ ListBelow(b, c) => ListBelow(a, c)
<1>1. /\ Len(a) \in Nat /\ Len(b) \in Nat /\ Len(c) \in Nat
      /\ \A i \in 1 .. Len(a) : a[i] \in Identifier
      /\ \A i \in 1 .. Len(b) : b[i] \in Identifier
      /\ \A i \in 1 .. Len(c) : c[i] \in Identifier
  OBVIOUS
<1> USE <1>1
<1>2. ASSUME ListBelow(a, b), ListBelow(b, a) PROVE FALSE
  <2>1. PICK i \in 1 .. Len(b) :
          /\ i <= Len(a) + 1 /\ \A j \in 1 .. i - 1 : CompareId(a[j], b[j]) = 0
          /\ i <= Len(a) => CompareId(a[i], b[i]) = -1
    BY <1>2 DEF ListBelow
  <2>2. PICK k \in 1 .. Len(a) :
          /\ k <= Len(b) + 1 /\ \A j \in 1 .. k - 1 : CompareId(b[j], a[j]) = 0
          /\ k <= Len(b) => CompareId(b[k], a[k]) = -1
    BY <1>2 DEF ListBelow
  <2>3. CASE i < k
    <3>1. CompareId(b[i], a[i]) = 0 BY <2>1, <2>2, <2>3
    <3>2. CompareId(a[i], b[i]) = -1 BY <2>1, <2>2, <2>3
    <3> QED BY <2>1, <2>2, <2>3, <3>1, <3>2, IdOrder
  <2>4. CASE k < i
    <3>1. CompareId(a[k], b[k]) = 0 BY <2>1, <2>2, <2>4
    <3>2. CompareId(b[k], a[k]) = -1 BY <2>1, <2>2, <2>4
    <3> QED BY <2>1, <2>2, <2>4, <3>1, <3>2, IdOrder
  <2>5. CASE k = i
    <3>1. CompareId(a[k], b[k]) = -1 /\ CompareId(b[k], a[k]) = -1 BY <2>1, <2>2, <2>5
    <3> QED BY <2>1, <2>2, <2>5, <3>1, IdOrder
  <2> QED BY <2>1, <2>2, <2>3, <2>4, <2>5
<1>3. ASSUME ListBelow(a, b), ListSame(a, b) PROVE FALSE
  BY <1>3 DEF ListBelow, ListSame
<1>4. ListSame(a, b) => ListSame(b, a) BY IdOrder DEF ListSame
<1>5. ASSUME ListSame(a, b), ListSame(b, c) PROVE ListSame(a, c)
  <2>1. \A i \in 1 .. Len(a) : CompareId(a[i], c[i]) = 0
    <3> SUFFICES ASSUME NEW i \in 1 .. Len(a) PROVE CompareId(a[i], c[i]) = 0 OBVIOUS
    <3>1. CompareId(a[i], b[i]) = 0 /\ CompareId(b[i], c[i]) = 0 BY <1>5 DEF ListSame
    <3>2. a[i] \in Identifier /\ b[i] \in Identifier /\ c[i] \in Identifier BY <1>5 DEF ListSame
    <3> QED BY <3>1, <3>2, IdOrder
  <2> QED BY <1>5, <2>1 DEF ListSame
<1>6. ASSUME ListSame(a, b), ListBelow(b, c) PROVE ListBelow(a, c)
  <2>1. PICK i \in 1 .. Len(c) :
          /\ i <= Len(b) + 1 /\ \A j \in 1 .. i - 1 : CompareId(b[j], c[j]) = 0
          /\ i <= Len(b) => CompareId(b[i], c[i]) = -1
    BY <1>6 DEF ListBelow
  <2>2. Len(a) = Len(b) BY <1>6 DEF ListSame
  <2>3. \A j \in 1 .. Len(c) : j <= Len(a) => CompareId(a[j], c[j]) = CompareId(b[j], c[j])
    <3> SUFFICES ASSUME NEW j \in 1 .. Len(c), j <= Len(a)
                 PROVE  CompareId(a[j], c[j]) = CompareId(b[j], c[j])
      OBVIOUS
    <3>1. CompareId(a[j], b[j]) = 0 BY <1>6 DEF ListSame
    <3>2. a[j] \in Identifier /\ b[j] \in Identifier /\ c[j] \in Identifier BY <2>2
    <3> QED BY <3>1, <3>2, IdOrder
  <2>4. i <= Len(a) + 1 BY <2>1, <2>2
  <2>5. \A j \in 1 .. i - 1 : CompareId(a[j], c[j]) = 0 BY <2>1, <2>2, <2>3
  <2>6. i <= Len(a) => CompareId(a[i], c[i]) = -1 BY <2>1, <2>2, <2>3
  <2> QED BY <2>4, <2>5, <2>6 DEF ListBelow
<1>7. ASSUME ListBelow(a, b), ListSame(b, c) PROVE ListBelow(a, c)
  <2>1. PICK i \in 1 .. Len(b) :
          /\ i <= Len(a) + 1 /\ \A j \in 1 .. i - 1 : CompareId(a[j], b[j]) = 0
          /\ i <= Len(a) => CompareId(a[i], b[i]) = -1
    BY <1>7 DEF ListBelow
  <2>2. Len(b) = Len(c) BY <1>7 DEF ListSame
  <2>3. \A j \in 1 .. Len(c) : j <= Len(a) => CompareId(a[j], c[j]) = CompareId(a[j], b[j])
    <3> SUFFICES ASSUME NEW j \in 1 .. Len(c), j <= Len(a)
                 PROVE  CompareId(a[j], c[j]) = CompareId(a[j], b[j])
      OBVIOUS
    <3>1. CompareId(b[j], c[j]) = 0 BY <1>7, <2>2 DEF ListSame
    <3>2. a[j] \in Identifier /\ b[j] \in Identifier /\ c[j] \in Identifier BY <2>2
    <3> QED BY <3>1, <3>2, IdOrder
  <2>5. \A j \in 1 .. i - 1 : CompareId(a[j], c[j]) = 0 BY <2>1, <2>2, <2>3
  <2>6. i <= Len(a) => CompareId(a[i], c[i]) = -1 BY <2>1, <2>2, <2>3
  <2> QED BY <2>1, <2>2, <2>5, <2>6 DEF ListBelow
<1>8. ASSUME ListBelow(a, b), ListBelow(b, c) PROVE ListBelow(a, c)
  <2>1. PICK i \in 1 .. Len(b) :
          /\ i <= Len(a) + 1 /\ \A j \in 1 .. i - 1 : CompareId(a[j], b[j]) = 0
          /\ i <= Len(a) => CompareId(a[i], b[i]) = -1
    BY <1>8 DEF ListBelow
  <2>2. PICK k \in 1 .. Len(c) :
          /\ k <= Len(b) + 1 /\ \A j \in 1 .. k - 1 : CompareId(b[j], c[j]) = 0
          /\ k <= Len(b) => CompareId(b[k], c[k]) = -1
    BY <1>8 DEF ListBelow
  <2>3. \A j \in 1 .. i - 1 : j <= k - 1 => CompareId(a[j], c[j]) = 0
    <3> SUFFICES ASSUME NEW j \in 1 .. i - 1, j <= k - 1 PROVE CompareId(a[j], c[j]) = 0
      OBVIOUS
    <3>1. CompareId(a[j], b[j]) = 0 /\ CompareId(b[j], c[j]) = 0 BY <2>1, <2>2
    <3>2. a[j] \in Identifier /\ b[j] \in Identifier /\ c[j] \in Identifier BY <2>1, <2>2
    <3> QED BY <3>1, <3>2, IdOrder
  <2>4. CASE i < k
    <3>1. i \in 1 .. Len(c) /\ CompareId(b[i], c[i]) = 0 BY <2>1, <2>2, <2>4
    <3>2. i <= Len(a) => CompareId(a[i], c[i]) = -1
      <4> SUFFICES ASSUME i <= Len(a) PROVE CompareId(a[i], c[i]) = -1 OBVIOUS
      <4>1. CompareId(a[i], b[i]) = -1 BY <2>1
      <4>2. a[i] \in Identifier /\ b[i] \in Identifier /\ c[i] \in Identifier BY <2>1, <3>1
      <4> QED BY <3>1, <4>1, <4>2, IdOrder
    <3>3. \A j \in 1 .. i - 1 : CompareId(a[j], c[j]) = 0 BY <2>1, <2>2, <2>3, <2>4
    <3> QED BY <2>1, <3>1, <3>2, <3>3 DEF ListBelow
  <2>5. CASE k <= i
    <3>1. k <= Len(b) /\ k <= Len(a) + 1 /\ CompareId(b[k], c[k]) = -1 BY <2>1, <2>2, <2>5
    <3>2. k <= Len(a) => CompareId(a[k], c[k]) = -1
      <4> SUFFICES ASSUME k <= Len(a) PROVE CompareId(a[k], c[k]) = -1 OBVIOUS
      <4>1. CompareId(a[k], b[k]) \in {0, -1} BY <2>1, <2>2, <2>5
      <4>2. a[k] \in Identifier /\ b[k] \in Identifier /\ c[k] \in Identifier BY <2>1, <2>2, <3>1
      <4> QED BY <3>1, <4>1, <4>2, IdOrder
    <3>3. \A j \in 1 .. k - 1 : CompareId(a[j], c[j]) = 0 BY <2>1, <2>2, <2>3, <2>5
    <3> QED BY <3>1, <3>2, <3>3 DEF ListBelow
  <2> QED BY <2>1, <2>2, <2>4, <2>5
<1> QED BY <1>2, <1>3, <1>4, <1>5, <1>6, <1>7, <1>8

(* Without a trailing dot. *)
LEMMA ComparedList ==
  ASSUME NEW x \in Seq(Identifier)
  PROVE  Compared(x) \in Seq(Identifier)
<1>1. CASE x # <<>> /\ Last(x) = Empty
  <2>1. Compared(x) = SubSeq(x, 1, Len(x) - 1) BY <1>1 DEF Compared, Front
  <2>2. Len(x) \in Nat /\ Len(x) # 0 BY <1>1
  <2> QED BY <2>1, <2>2
<1>2. CASE ~(x # <<>> /\ Last(x) = Empty) BY <1>2 DEF Compared
<1> QED BY <1>1, <1>2

(* The order of lists of pre-release identifiers, the empty list on top.    *)
PreSame(x, y) == (x = <<>> <=> y = <<>>) /\ ListSame(Compared(x), Compared(y))

PreBelow(x, y) == x # <<>> /\ (y = <<>> \/ ListBelow(Compared(x), Compared(y)))

LEMMA PreOrder ==
  ASSUME NEW x \in Seq(Identifier), NEW y \in Seq(Identifier), NEW z \in Seq(Identifier)
  PROVE  /\ \/ ComparePre(x, y) = -1 /\ PreBelow(x, y)
            \/ ComparePre(x, y) = 0 /\ PreSame(x, y)
            \/ ComparePre(x, y) = 1 /\ PreBelow(y, x)
         /\ ~(PreBelow(x, y) /\ PreBelow(y, x))
         /\ ~(PreBelow(x, y) /\ PreSame(x, y))
         /\ PreSame(x, y) => PreSame(y, x)
         /\ PreSame(x, y) /\ PreSame(y, z) => PreSame(x, z)
         /\ PreSame(x, y) /\ PreBelow(y, z) => PreBelow(x, z)
         /\ PreBelow(x, y) /\ PreSame(y, z) => PreBelow(x, z)
         /\ PreBelow(x, y) /\ PreBelow(y, z) => PreBelow(x, z)
<1> DEFINE a == Compared(x)
           b == Compared(y)
           c == Compared(z)
<1>1. a \in Seq(Identifier) /\ b \in Seq(Identifier) /\ c \in Seq(Identifier) BY ComparedList
<1>2. x = <<>> => a = <<>> BY DEF Compared
<1>3. y = <<>> => b = <<>> BY DEF Compared
<1>4. /\ PreSame(x, y) <=> (x = <<>> <=> y = <<>>) /\ ListSame(a, b)
      /\ PreSame(y, x) <=> (x = <<>> <=> y = <<>>) /\ ListSame(b, a)
      /\ PreSame(y, z) <=> (y = <<>> <=> z = <<>>) /\ ListSame(b, c)
      /\ PreSame(x, z) <=> (x = <<>> <=> z = <<>>) /\ ListSame(a, c)
      /\ PreBelow(x, y) <=> x # <<>> /\ (y = <<>> \/ ListBelow(a, b))
      /\ PreBelow(y, x) <=> y # <<>> /\ (x = <<>> \/ ListBelow(b, a))
      /\ PreBelow(y, z) <=> y # <<>> /\ (z = <<>> \/ ListBelow(b, c))
      /\ PreBelow(x, z) <=> x # <<>> /\ (z = <<>> \/ ListBelow(a, c))
  BY DEF PreSame, PreBelow
<1>5. x = <<>> /\ y = <<>> => ListSame(a, b) BY <1>2, <1>3 DEF ListSame
<1>6. \/ ComparePre(x, y) = -1 /\ PreBelow(x, y)
      \/ ComparePre(x, y) = 0 /\ PreSame(x, y)
      \/ ComparePre(x, y) = 1 /\ PreBelow(y, x)
  <2>1. CASE x = <<>> \/ y = <<>>
    <3>1. ComparePre(x, y) = IF x = y THEN 0 ELSE IF x = <<>> THEN 1 ELSE -1
      BY <2>1 DEF ComparePre
    <3> QED BY <1>4, <1>5, <2>1, <3>1
  <2>2. CASE ~(x = <<>> \/ y = <<>>)
    <3>1. ComparePre(x, y) = CompareLists(a, b) BY <2>2 DEF ComparePre
    <3> HIDE DEF a, b
    <3> QED BY <1>1, <1>4, <2>2, <3>1, ListsCompared
  <2> QED BY <2>1, <2>2
<1> HIDE DEF a, b, c
<1>7. /\ ~(ListBelow(a, b) /\ ListBelow(b, a))
      /\ ~(ListBelow(a, b) /\ ListSame(a, b))
      /\ ListSame(a, b) => ListSame(b, a)
      /\ ListSame(a, b) /\ ListSame(b, c) => ListSame(a, c)
      /\ ListSame(a, b) /\ ListBelow(b, c) => ListBelow(a, c)
      /\ ListBelow(a, b) /\ ListSame(b, c) => ListBelow(a, c)
      /\ ListBelow(a, b) /\ ListBelow(b, c) => ListBelow(a, c)
  BY <1>1, ListOrder
<1> QED BY <1>4, <1>6, <1>7

(* Versions that fit: the numbers of an int that is not negative. *)
FitVersion ==
  [major : 0 .. IntLimit - 1, minor : 0 .. IntLimit - 1, patch : 0 .. IntLimit - 1,
   pre : Seq(Identifier)]

VersionSame(v, w) ==
  v.major = w.major /\ v.minor = w.minor /\ v.patch = w.patch /\ PreSame(v.pre, w.pre)

VersionBelow(v, w) ==
  \/ v.major < w.major
  \/ v.major = w.major /\ v.minor < w.minor
  \/ v.major = w.major /\ v.minor = w.minor /\ v.patch < w.patch
  \/ v.major = w.major /\ v.minor = w.minor /\ v.patch = w.patch /\ PreBelow(v.pre, w.pre)

(* No difference of two such numbers wraps around: the sign of the result   *)
(* says how the versions are ordered.                                       *)
LEMMA CompareSigns ==
  ASSUME NEW v \in FitVersion, NEW w \in FitVersion
  PROVE  /\ Compare(v, w) \in Int
         /\ Compare(v, w) < 0 <=> VersionBelow(v, w)
         /\ Compare(v, w) = 0 <=> VersionSame(v, w)
         /\ Compare(v, w) > 0 <=> VersionBelow(w, v)
<1> DEFINE p == ComparePre(v.pre, w.pre)
<1>1. /\ v.major \in 0 .. IntLimit - 1 /\ v.minor \in 0 .. IntLimit - 1
      /\ v.patch \in 0 .. IntLimit - 1 /\ v.pre \in Seq(Identifier)
      /\ w.major \in 0 .. IntLimit - 1 /\ w.minor \in 0 .. IntLimit - 1
      /\ w.patch \in 0 .. IntLimit - 1 /\ w.pre \in Seq(Identifier)
      /\ IntLimit \in Nat
  BY SemVerAssumption DEF FitVersion
<1>2. /\ p \in {-1, 0, 1}
      /\ p = -1 <=> PreBelow(v.pre, w.pre)
      /\ p = 0 <=> PreSame(v.pre, w.pre)
      /\ p = 1 <=> PreBelow(w.pre, v.pre)
  <2>1. PreSame(v.pre, w.pre) <=> PreSame(w.pre, v.pre) BY <1>1, PreOrder
  <2>2. /\ ~(PreBelow(v.pre, w.pre) /\ PreBelow(w.pre, v.pre))
        /\ ~(PreBelow(v.pre, w.pre) /\ PreSame(v.pre, w.pre))
        /\ ~(PreBelow(w.pre, v.pre) /\ PreSame(w.pre, v.pre))
    BY <1>1, PreOrder
  <2>3. \/ p = -1 /\ PreBelow(v.pre, w.pre)
        \/ p = 0 /\ PreSame(v.pre, w.pre)
        \/ p = 1 /\ PreBelow(w.pre, v.pre)
    BY <1>1, PreOrder
  <2> HIDE DEF p
  <2> QED BY <2>1, <2>2, <2>3
<1>3. \A m, n \in 0 .. IntLimit - 1 : ToInt(m - n) = m - n
  <2> SUFFICES ASSUME NEW m \in 0 .. IntLimit - 1, NEW n \in 0 .. IntLimit - 1
               PROVE  ToInt(m - n) = m - n
    OBVIOUS
  <2>1. m - n \in Int /\ 0 - IntLimit <= m - n /\ m - n < IntLimit BY <1>1
  <2> QED BY <2>1, ToIntKeeps
<1> HIDE DEF p
<1>4. CASE v.major # w.major
  <2>1. Compare(v, w) = v.major - w.major BY <1>1, <1>3, <1>4 DEF Compare
  <2> QED BY <1>1, <1>4, <2>1 DEF VersionBelow, VersionSame
<1>5. CASE v.major = w.major /\ v.minor # w.minor
  <2>1. Compare(v, w) = v.minor - w.minor BY <1>1, <1>3, <1>5 DEF Compare
  <2> QED BY <1>1, <1>5, <2>1 DEF VersionBelow, VersionSame
<1>6. CASE v.major = w.major /\ v.minor = w.minor /\ v.patch # w.patch
  <2>1. Compare(v, w) = v.patch - w.patch BY <1>1, <1>3, <1>6 DEF Compare
  <2> QED BY <1>1, <1>6, <2>1 DEF VersionBelow, VersionSame
<1>7. CASE v.major = w.major /\ v.minor = w.minor /\ v.patch = w.patch
  <2>1. Compare(v, w) = p BY <1>7 DEF Compare, p
  <2> QED BY <1>1, <1>2, <1>7, <2>1 DEF VersionBelow, VersionSame
<1> QED BY <1>4, <1>5, <1>6, <1>7

(* The order of versions is one: antisymmetric and transitive. *)
LEMMA VersionOrder ==
  ASSUME NEW u \in FitVersion, NEW v \in FitVersion, NEW w \in FitVersion
  PROVE  /\ VersionSame(u, v) => VersionSame(v, u)
         /\ VersionSame(u, v) /\ VersionSame(v, w) => VersionSame(u, w)
         /\ VersionSame(u, v) /\ VersionBelow(v, w) => VersionBelow(u, w)
         /\ VersionBelow(u, v) /\ VersionSame(v, w) => VersionBelow(u, w)
         /\ VersionBelow(u, v) /\ VersionBelow(v, w) => VersionBelow(u, w)
<1>1. /\ u.major \in Int /\ u.minor \in Int /\ u.patch \in Int /\ u.pre \in Seq(Identifier)
      /\ v.major \in Int /\ v.minor \in Int /\ v.patch \in Int /\ v.pre \in Seq(Identifier)
      /\ w.major \in Int /\ w.minor \in Int /\ w.patch \in Int /\ w.pre \in Seq(Identifier)
  BY DEF FitVersion
<1>2. /\ PreSame(u.pre, v.pre) => PreSame(v.pre, u.pre)
      /\ PreSame(u.pre, v.pre) /\ PreSame(v.pre, w.pre) => PreSame(u.pre, w.pre)
      /\ PreSame(u.pre, v.pre) /\ PreBelow(v.pre, w.pre) => PreBelow(u.pre, w.pre)
      /\ PreBelow(u.pre, v.pre) /\ PreSame(v.pre, w.pre) => PreBelow(u.pre, w.pre)
      /\ PreBelow(u.pre, v.pre) /\ PreBelow(v.pre, w.pre) => PreBelow(u.pre, w.pre)
  BY <1>1, PreOrder
<1>3. VersionSame(u, v) => VersionSame(v, u) BY <1>2 DEF VersionSame
<1>4. VersionSame(u, v) /\ VersionSame(v, w) => VersionSame(u, w) BY <1>2 DEF VersionSame
<1>5. VersionSame(u, v) /\ VersionBelow(v, w) => VersionBelow(u, w)
  BY <1>1, <1>2 DEF VersionSame, VersionBelow
<1>6. VersionBelow(u, v) /\ VersionSame(v, w) => VersionBelow(u, w)
  BY <1>1, <1>2 DEF VersionSame, VersionBelow
<1>7. VersionBelow(u, v) /\ VersionBelow(v, w) => VersionBelow(u, w)
  BY <1>1, <1>2 DEF VersionBelow
<1> QED BY <1>3, <1>4, <1>5, <1>6, <1>7

(* A text whose numbers fit is parsed to what it says. *)
LEMMA ParseKeeps ==
  ASSUME NEW t \in TextOf([1 .. 3 -> 0 .. IntLimit - 1])
  PROVE  /\ Parse(t) = [major |-> t.nums[1], minor |-> t.nums[2], patch |-> t.nums[3], pre |-> t.pre]
         /\ Parse(t) \in FitVersion
<1>1. /\ t.nums \in [1 .. 3 -> 0 .. IntLimit - 1] /\ t.clean = TRUE /\ t.pre \in Seq(Identifier)
      /\ IntLimit \in Nat /\ Junk \notin Nat
  BY SemVerAssumption DEF TextOf
<1>2. /\ t.nums[1] \in 0 .. IntLimit - 1 /\ t.nums[2] \in 0 .. IntLimit - 1
      /\ t.nums[3] \in 0 .. IntLimit - 1 /\ Len(t.nums) = 3
  BY <1>1
<1>3. ToInt(t.nums[1]) = t.nums[1] BY <1>1, <1>2, ToIntKeeps
<1>4. ToInt(t.nums[2]) = t.nums[2] BY <1>1, <1>2, ToIntKeeps
<1>5. ToInt(t.nums[3]) = t.nums[3] BY <1>1, <1>2, ToIntKeeps
<1>6. \A i \in 1 .. 3 : t.nums[i] # Junk BY <1>1
<1>7. Parse(t) = [major |-> t.nums[1], minor |-> t.nums[2], patch |-> t.nums[3], pre |-> t.pre]
  BY <1>1, <1>2, <1>3, <1>4, <1>5, <1>6 DEF Parse
<1> QED BY <1>1, <1>2, <1>7 DEF FitVersion

(* Identifiers that are not empty are ordered as the standard orders them.  *)
LEMMA IdPrecedence ==
  ASSUME NEW a \in Identifier \ {Empty}, NEW b \in Identifier \ {Empty}
  PROVE  /\ CompareId(a, b) = 0 <=> a = b
         /\ CompareId(a, b) = -1 <=> IdBelow(a, b)
<1>1. a.val \in Nat /\ b.val \in Nat /\ a.kind \in {"num", "word"} /\ b.kind \in {"num", "word"}
  BY DEF Identifier
<1>2. a = b <=> a.kind = b.kind /\ a.val = b.val BY DEF Identifier
<1>3. (IsNumeric(a) <=> a.kind = "num") /\ (IsNumeric(b) <=> b.kind = "num")
  BY <1>1 DEF IsNumeric
<1>4. IsNumeric(a) \in BOOLEAN /\ IsNumeric(b) \in BOOLEAN BY DEF IsNumeric
<1> QED BY <1>1, <1>2, <1>3, <1>4 DEF CompareId, IdBelow

(* So are lists of them. *)
LEMMA PrePrecedence ==
  ASSUME NEW x \in Seq(Identifier), NEW y \in Seq(Identifier), Empty \notin Range(x), Empty \notin Range(y)
  PROVE  /\ PreSame(x, y) <=> x = y
         /\ PreBelow(x, y) <=> x # <<>> /\ (y = <<>> \/ FirstBelow(x, y, IdBelow))
<1>1. /\ Len(x) \in Nat /\ Len(y) \in Nat
      /\ DOMAIN x = 1 .. Len(x) /\ DOMAIN y = 1 .. Len(y)
      /\ \A i \in 1 .. Len(x) : x[i] \in Identifier \ {Empty}
      /\ \A i \in 1 .. Len(y) : y[i] \in Identifier \ {Empty}
  BY DEF Range
<1>2. Compared(x) = x /\ Compared(y) = y
  <2>1. x # <<>> => Last(x) # Empty
    <3>1. x # <<>> => Len(x) \in 1 .. Len(x) BY <1>1
    <3> QED BY <1>1, <3>1 DEF Last
  <2>2. y # <<>> => Last(y) # Empty
    <3>1. y # <<>> => Len(y) \in 1 .. Len(y) BY <1>1
    <3> QED BY <1>1, <3>1 DEF Last
  <2> QED BY <2>1, <2>2 DEF Compared
<1>3. PreSame(x, y) <=> x = y
  <2>1. ASSUME PreSame(x, y) PROVE x = y
    <3>1. Len(x) = Len(y) /\ \A i \in 1 .. Len(x) : CompareId(x[i], y[i]) = 0
      BY <1>2, <2>1 DEF PreSame, ListSame
    <3>2. \A i \in 1 .. Len(x) : x[i] = y[i] BY <1>1, <3>1, IdPrecedence
    <3> QED BY <1>1, <3>1, <3>2
  <2>2. ASSUME x = y PROVE PreSame(x, y)
    BY <1>1, <1>2, <2>2, IdPrecedence DEF PreSame, ListSame
  <2> QED BY <2>1, <2>2
<1>4. ListBelow(x, y) <=> FirstBelow(x, y, IdBelow)
  <2>1. ASSUME NEW i \in 1 .. Len(y), i <= Len(x) + 1
        PROVE  /\ (\A j \in 1 .. i - 1 : CompareId(x[j], y[j]) = 0) <=> \A j \in 1 .. i - 1 : x[j] = y[j]
               /\ (i <= Len(x) => CompareId(x[i], y[i]) = -1) <=> i > Len(x) \/ IdBelow(x[i], y[i])
    BY <1>1, <2>1, IdPrecedence
  <2>2. \A i \in 1 .. Len(y) : i <= Len(x) + 1 <=> i - 1 <= Len(x) BY <1>1
  <2> QED BY <2>1, <2>2 DEF ListBelow, FirstBelow
<1> QED BY <1>2, <1>3, <1>4 DEF PreBelow

(* And the three numbers before them. *)
LEMMA NumsPrecedence ==
  ASSUME NEW m \in [1 .. 3 -> Nat], NEW n \in [1 .. 3 -> Nat]
  PROVE  /\ m = n <=> m[1] = n[1] /\ m[2] = n[2] /\ m[3] = n[3]
         /\ FirstBelow(m, n, LAMBDA i, j : i < j) <=>
              \/ m[1] < n[1]
              \/ m[1] = n[1] /\ m[2] < n[2]
              \/ m[1] = n[1] /\ m[2] = n[2] /\ m[3] < n[3]
<1>1. Len(m) = 3 /\ Len(n) = 3 /\ \A i \in 1 .. 3 : m[i] \in Nat /\ n[i] \in Nat OBVIOUS
<1>2. \A i : i \in 1 .. 3 <=> i = 1 \/ i = 2 \/ i = 3 OBVIOUS
<1>3. m = n <=> m[1] = n[1] /\ m[2] = n[2] /\ m[3] = n[3] BY <1>2
<1>4. FirstBelow(m, n, LAMBDA i, j : i < j) <=>
        \E i \in 1 .. 3 : (\A j \in 1 .. i - 1 : m[j] = n[j]) /\ m[i] < n[i]
  BY <1>1 DEF FirstBelow
<1>5. /\ (\A j \in 1 .. 1 - 1 : m[j] = n[j])
      /\ (\A j \in 1 .. 2 - 1 : m[j] = n[j]) <=> m[1] = n[1]
      /\ (\A j \in 1 .. 3 - 1 : m[j] = n[j]) <=> m[1] = n[1] /\ m[2] = n[2]
  <2>1. \A j : j \in 1 .. 1 - 1 <=> FALSE OBVIOUS
  <2>2. \A j : j \in 1 .. 2 - 1 <=> j = 1 OBVIOUS
  <2>3. \A j : j \in 1 .. 3 - 1 <=> j = 1 \/ j = 2 OBVIOUS
  <2> QED BY <2>1, <2>2, <2>3
<1> QED BY <1>2, <1>3, <1>4, <1>5

(* cookbook_semver_compare is the precedence of SemVer 2.0 on well-formed   *)
(* versions, and one consistent order on all that parse, for every width of *)
(* an int and every set of versions whose numbers fit it.                   *)
THEOREM VersionsAreOrdered == AskSpec => []PrecedenceLaw
<1> DEFINE Asked == input.ask = "order" => {input.a, input.b, input.c} \subseteq VersionText
<1>1. AskInit => Asked BY DEF AskInit, Nothing
<1>2. Asked /\ [AskNext]_askVars => Asked'
  BY DEF AskNext, AskOrder, AskRange, AskGrant, RunStatement, askVars
<1>3. Asked => PrecedenceLaw
  <2> SUFFICES ASSUME Asked, input.ask = "order" PROVE PrecedenceLaw BY DEF PrecedenceLaw
  <2> DEFINE x == input.a
             y == input.b
             z == input.c
             a == Parse(x)
             b == Parse(y)
             c == Parse(z)
             T == TextOf([1 .. 3 -> 0 .. IntLimit - 1])
  <2>1. x \in T /\ y \in T /\ z \in T BY TextShapes
  <2> HIDE DEF x, y, z
  <2>2. a \in FitVersion /\ b \in FitVersion /\ c \in FitVersion BY <2>1, ParseKeeps
  <2>3. WellFormed(x) /\ WellFormed(y) =>
          (Compare(a, b) < 0 <=> Precedes(x, y)) /\ (Compare(a, b) = 0 <=> x = y)
    <3> SUFFICES ASSUME WellFormed(x), WellFormed(y)
                 PROVE  (Compare(a, b) < 0 <=> Precedes(x, y)) /\ (Compare(a, b) = 0 <=> x = y)
      OBVIOUS
    <3>1. /\ a = [major |-> x.nums[1], minor |-> x.nums[2], patch |-> x.nums[3], pre |-> x.pre]
          /\ b = [major |-> y.nums[1], minor |-> y.nums[2], patch |-> y.nums[3], pre |-> y.pre]
      BY <2>1, ParseKeeps
    <3>2. /\ x.pre \in Seq(Identifier) /\ y.pre \in Seq(Identifier)
          /\ x.nums \in [1 .. 3 -> Nat] /\ y.nums \in [1 .. 3 -> Nat]
          /\ x = y <=> x.nums = y.nums /\ x.pre = y.pre
      <4>1. IntLimit \in Nat BY SemVerAssumption
      <4>2. /\ x.pre \in Seq(Identifier) /\ y.pre \in Seq(Identifier)
            /\ x.nums \in [1 .. 3 -> Nat] /\ y.nums \in [1 .. 3 -> Nat]
        BY <2>1, <4>1 DEF TextOf
      <4>3. /\ x = [nums |-> x.nums, pre |-> x.pre, clean |-> TRUE]
            /\ y = [nums |-> y.nums, pre |-> y.pre, clean |-> TRUE]
        BY <2>1 DEF TextOf
      <4> QED BY <4>2, <4>3
    <3>3. /\ PreSame(x.pre, y.pre) <=> x.pre = y.pre
          /\ PreBelow(x.pre, y.pre) <=>
               x.pre # <<>> /\ (y.pre = <<>> \/ FirstBelow(x.pre, y.pre, IdBelow))
      BY <3>2, PrePrecedence DEF WellFormed
    <3> DEFINE m == x.nums
               n == y.nums
    <3>6. /\ m = n <=> m[1] = n[1] /\ m[2] = n[2] /\ m[3] = n[3]
          /\ FirstBelow(m, n, LAMBDA i, j : i < j) <=>
               \/ m[1] < n[1]
               \/ m[1] = n[1] /\ m[2] < n[2]
               \/ m[1] = n[1] /\ m[2] = n[2] /\ m[3] < n[3]
      <4> HIDE DEF m, n
      <4>1. m \in [1 .. 3 -> Nat] /\ n \in [1 .. 3 -> Nat] BY <3>2 DEF m, n
      <4> QED BY <4>1, NumsPrecedence
    <3>7. /\ a.major = m[1] /\ a.minor = m[2] /\ a.patch = m[3] /\ a.pre = x.pre
          /\ b.major = n[1] /\ b.minor = n[2] /\ b.patch = n[3] /\ b.pre = y.pre
      BY <3>1
    <3>8. Precedes(x, y) <=> \/ FirstBelow(m, n, LAMBDA i, j : i < j)
                             \/ m = n /\ PreBelow(x.pre, y.pre)
      BY <3>3 DEF Precedes
    <3> HIDE DEF m, n, a, b
    <3>4. VersionSame(a, b) <=> x = y
      <4>1. x = y <=> m = n /\ x.pre = y.pre BY <3>2 DEF m, n
      <4> QED BY <3>3, <3>6, <3>7, <4>1 DEF VersionSame
    <3>5. VersionBelow(a, b) <=> Precedes(x, y) BY <3>6, <3>7, <3>8 DEF VersionBelow
    <3> QED BY <2>2, <3>4, <3>5, CompareSigns
  <2> HIDE DEF a, b, c, T
  <2>4. /\ Compare(a, b) \in Int /\ Compare(b, a) \in Int /\ Compare(b, c) \in Int /\ Compare(a, c) \in Int
        /\ Compare(a, b) < 0 <=> VersionBelow(a, b)
        /\ Compare(a, b) = 0 <=> VersionSame(a, b)
        /\ Compare(a, b) > 0 <=> VersionBelow(b, a)
        /\ Compare(b, a) < 0 <=> VersionBelow(b, a)
        /\ Compare(b, a) = 0 <=> VersionSame(b, a)
        /\ Compare(b, a) > 0 <=> VersionBelow(a, b)
        /\ Compare(b, c) < 0 <=> VersionBelow(b, c)
        /\ Compare(b, c) = 0 <=> VersionSame(b, c)
        /\ Compare(a, c) < 0 <=> VersionBelow(a, c)
        /\ Compare(a, c) = 0 <=> VersionSame(a, c)
    BY <2>2, CompareSigns
  <2>5. /\ VersionSame(a, b) <=> VersionSame(b, a)
        /\ VersionSame(a, b) /\ VersionSame(b, c) => VersionSame(a, c)
        /\ VersionSame(a, b) /\ VersionBelow(b, c) => VersionBelow(a, c)
        /\ VersionSame(b, a) /\ VersionBelow(a, c) => VersionBelow(b, c)
        /\ VersionBelow(a, b) /\ VersionSame(b, c) => VersionBelow(a, c)
        /\ VersionBelow(a, b) /\ VersionBelow(b, c) => VersionBelow(a, c)
    BY <2>2, VersionOrder
  <2>6. Compare(a, b) <= 0 <=> Compare(b, a) >= 0 BY <2>4, <2>5
  <2>7. Compare(a, b) <= 0 /\ Compare(b, c) <= 0 => Compare(a, c) <= 0 BY <2>4, <2>5
  <2>8. Compare(a, b) = 0 => (Compare(a, c) < 0 <=> Compare(b, c) < 0) BY <2>4, <2>5
  <2> QED BY <2>3, <2>6, <2>7, <2>8 DEF PrecedenceLaw, a, b, c, x, y, z
<1> QED BY <1>1, <1>2, <1>3, PTL DEF AskSpec

-----------------------------------------------------------------------------
(* A release is below another one when its numbers are. *)
NumsBelow(v, w) ==
  \/ v.major < w.major
  \/ v.major = w.major /\ v.minor < w.minor
  \/ v.major = w.major /\ v.minor = w.minor /\ v.patch < w.patch

LEMMA BelowRelease ==
  ASSUME NEW v \in FitVersion, NEW w \in FitVersion
  PROVE  /\ w.pre = <<>> => (VersionBelow(v, w) <=> NumsBelow(v, w) \/ (Triple(v) = Triple(w) /\ IsPre(v)))
         /\ ~IsPre(v) => (VersionBelow(v, w) <=> NumsBelow(v, w))
<1>1. w.pre = <<>> => (PreBelow(v.pre, w.pre) <=> IsPre(v)) BY DEF PreBelow, IsPre
<1>2. ~IsPre(v) => ~PreBelow(v.pre, w.pre) BY DEF PreBelow, IsPre
<1>3. Triple(v) = Triple(w) <=> v.major = w.major /\ v.minor = w.minor /\ v.patch = w.patch
  BY DEF Triple
<1> QED BY <1>1, <1>2, <1>3 DEF VersionBelow, NumsBelow

(* A range from a version, included, to another one, excluded. *)
LEMMA BoundedRange ==
  ASSUME NEW lo \in TextOf([1 .. 3 -> 0 .. IntLimit - 1]),
         NEW up \in TextOf([1 .. 3 -> 0 .. IntLimit - 1]),
         NEW v \in FitVersion
  PROVE  Satisfies(RangeParse([form |-> "bounded", open |-> "[", close |-> ")",
                               from |-> lo, to |-> up]), v)
           = (~VersionBelow(v, Parse(lo)) /\ VersionBelow(v, Parse(up)))
<1> DEFINE l == Parse(lo)
           u == Parse(up)
           r == [form |-> "bounded", open |-> "[", close |-> ")", from |-> lo, to |-> up]
           q == [type |-> "bounded", lower |-> l, upper |-> u, lowerIn |-> TRUE, upperIn |-> FALSE]
<1>1. l \in FitVersion /\ u \in FitVersion BY ParseKeeps
<1>2. l # Malformed /\ u # Malformed
  <2>1. l.major >= 0 /\ u.major >= 0 /\ ~(Malformed.major >= 0)
    BY <1>1, SemVerAssumption DEF FitVersion, Malformed
  <2> QED BY <2>1
<1>3. r.form = "bounded" /\ r.open = "[" /\ r.close = ")" /\ r.from = lo /\ r.to = up OBVIOUS
<1> HIDE DEF l, u, r
<1>4. RangeParse(r) = q
  <2>1. RangeParse(r) = IF Malformed \in {l, u} THEN BadRange
                        ELSE [type |-> "bounded", lower |-> l, upper |-> u,
                              lowerIn |-> r.open = "[", upperIn |-> r.close = "]"]
    BY <1>3 DEF RangeParse, l, u
  <2> QED BY <1>2, <1>3, <2>1
<1>5. Satisfies(q, v) = (Compare(v, l) >= 0 /\ Compare(v, u) < 0)
  BY DEF Satisfies, Within
<1>6. /\ Compare(v, l) \in Int /\ (Compare(v, l) < 0 <=> VersionBelow(v, l))
      /\ Compare(v, u) \in Int /\ (Compare(v, u) < 0 <=> VersionBelow(v, u))
  BY <1>1, CompareSigns
<1>7. VersionBelow(v, u) \in BOOLEAN BY DEF VersionBelow
<1>8. Satisfies(q, v) = (~VersionBelow(v, l) /\ VersionBelow(v, u))
  <2> HIDE DEF q
  <2> QED BY <1>5, <1>6, <1>7
<1> QED BY <1>4, <1>8 DEF l, u, r

(* Where a ^ range ends: the first version whose fixed number is higher.    *)
LEMMA CaretEnds ==
  ASSUME NEW l \in FitVersion, NEW v \in FitVersion, NEW u \in FitVersion,
         l.major # 0 => u.major = l.major + 1 /\ u.minor = 0 /\ u.patch = 0,
         l.major = 0 /\ l.minor # 0 => u.major = 0 /\ u.minor = l.minor + 1 /\ u.patch = 0,
         l.major = 0 /\ l.minor = 0 => u.major = 0 /\ u.minor = 0 /\ u.patch = l.patch + 1
  PROVE  /\ ~NumsBelow(v, l) => (CaretSame(l, v) <=> NumsBelow(v, u))
         /\ Triple(v) = Triple(l) => CaretSame(l, v) /\ NumsBelow(v, u)
<1>1. /\ l.major \in Nat /\ l.minor \in Nat /\ l.patch \in Nat
      /\ v.major \in Nat /\ v.minor \in Nat /\ v.patch \in Nat
      /\ u.major \in Nat /\ u.minor \in Nat /\ u.patch \in Nat
  BY SemVerAssumption DEF FitVersion
<1>2. CASE l.major # 0 BY <1>1, <1>2 DEF CaretSame, NumsBelow, Triple
<1>3. CASE l.major = 0 /\ l.minor # 0 BY <1>1, <1>3 DEF CaretSame, NumsBelow, Triple
<1>4. CASE l.major = 0 /\ l.minor = 0 BY <1>1, <1>4 DEF CaretSame, NumsBelow, Triple
<1> QED BY <1>2, <1>3, <1>4

(* Where a ~ range and one with a star end. *)
LEMMA TildeEnds ==
  ASSUME NEW l \in FitVersion, NEW v \in FitVersion, NEW u \in FitVersion,
         u.major = l.major, u.minor = l.minor + 1, u.patch = 0
  PROVE  /\ ~NumsBelow(v, l) => (TildeSame(l, v) <=> NumsBelow(v, u))
         /\ Triple(v) = Triple(l) => TildeSame(l, v) /\ NumsBelow(v, u)
<1>1. /\ l.major \in Nat /\ l.minor \in Nat /\ l.patch \in Nat
      /\ v.major \in Nat /\ v.minor \in Nat /\ v.patch \in Nat
      /\ u.major \in Nat /\ u.minor \in Nat /\ u.patch \in Nat
  BY SemVerAssumption DEF FitVersion
<1> QED BY <1>1 DEF TildeSame, NumsBelow, Triple

(* A range that is given by its lowest version, and what keeps it together. *)
LEMMA FromLowest ==
  ASSUME NEW l \in FitVersion, NEW v \in FitVersion, NEW u \in FitVersion, u.pre = <<>>,
         NEW same \in BOOLEAN,
         ~NumsBelow(v, l) => (same <=> NumsBelow(v, u)),
         Triple(v) = Triple(l) => same /\ NumsBelow(v, u)
  PROVE  LET sat == FromLower(l, v) /\ same
             within == ~VersionBelow(v, l) /\ VersionBelow(v, u)
         IN  /\ ~IsPre(v) => sat = within
             /\ IsPre(v) => sat = (within /\ Triple(v) = Triple(l))
<1>1. Compare(v, l) \in Int /\ (Compare(v, l) < 0 <=> VersionBelow(v, l)) BY CompareSigns
<1>2. FromLower(l, v) <=> ~VersionBelow(v, l) /\ (IsPre(v) => Triple(v) = Triple(l))
  BY <1>1 DEF FromLower
<1>3. /\ VersionBelow(v, u) <=> NumsBelow(v, u) \/ (Triple(v) = Triple(u) /\ IsPre(v))
      /\ ~IsPre(v) => (VersionBelow(v, u) <=> NumsBelow(v, u))
      /\ ~IsPre(v) => (VersionBelow(v, l) <=> NumsBelow(v, l))
  BY BelowRelease
<1>4. FromLower(l, v) \in BOOLEAN /\ VersionBelow(v, u) \in BOOLEAN BY DEF FromLower, VersionBelow
<1> QED BY <1>2, <1>3, <1>4

(* What RangeLaw says of a range and a candidate. *)
RangeQuestion(r, t) ==
  LET v == Parse(t)
      sat == Satisfies(RangeParse(r), v)
      within == Satisfies(RangeParse(Interval(r)), v)
  IN  /\ r.form \in {"^", "~", "star"} /\ ~IsPre(v) => sat = within
      /\ r.form \in {"^", "~"} /\ IsPre(v) => sat = (within /\ t.nums = r.from.nums)
      /\ r.form \in {"star", "*"} /\ IsPre(v) => ~sat
      /\ r.form = "exact" => sat = (t.nums = r.from.nums /\ Compared(t.pre) = Compared(r.from.pre))

(* Versions have the same numbers when their texts have. *)
LEMMA SameNums ==
  ASSUME NEW s \in TextOf([1 .. 3 -> 0 .. IntLimit - 1]),
         NEW t \in TextOf([1 .. 3 -> 0 .. IntLimit - 1])
  PROVE  t.nums = s.nums <=> Triple(Parse(t)) = Triple(Parse(s))
<1>1. /\ Parse(t) = [major |-> t.nums[1], minor |-> t.nums[2], patch |-> t.nums[3], pre |-> t.pre]
      /\ Parse(s) = [major |-> s.nums[1], minor |-> s.nums[2], patch |-> s.nums[3], pre |-> s.pre]
  BY ParseKeeps
<1>2. t.nums \in [1 .. 3 -> Nat] /\ s.nums \in [1 .. 3 -> Nat]
  BY SemVerAssumption DEF TextOf
<1>3. t.nums = s.nums <=> /\ t.nums[1] = s.nums[1] /\ t.nums[2] = s.nums[2]
                          /\ t.nums[3] = s.nums[3]
  <2> DEFINE m == t.nums
             n == s.nums
  <2> HIDE DEF m, n
  <2>1. m \in [1 .. 3 -> Nat] /\ n \in [1 .. 3 -> Nat] BY <1>2 DEF m, n
  <2>2. m = n <=> m[1] = n[1] /\ m[2] = n[2] /\ m[3] = n[3] BY <2>1, NumsPrecedence
  <2> QED BY <2>2 DEF m, n
<1> QED BY <1>1, <1>3 DEF Triple

TopVersion(r) ==
  [major |-> Top(r)[1], minor |-> Top(r)[2], patch |-> Top(r)[3], pre |-> <<>>]

(* A caret or tilde range starts at the version it names and ends at Top.   *)
LEMMA NamedBounds ==
  ASSUME NEW r \in RangeText, r.form \in {"^", "~"}
  PROVE  /\ r.from \in TextOf([1 .. 3 -> 0 .. IntLimit - 1])
         /\ Parse(r.from) \in FitVersion /\ TopVersion(r) \in FitVersion
         /\ Parse(r.from).major = r.from.nums[1] /\ Parse(r.from).minor = r.from.nums[2]
         /\ Parse(r.from).patch = r.from.nums[3]
         /\ [nums |-> Top(r), pre |-> <<>>, clean |-> TRUE] \in TextOf([1 .. 3 -> 0 .. IntLimit - 1])
         /\ Parse([nums |-> Top(r), pre |-> <<>>, clean |-> TRUE]) = TopVersion(r)
<1> DEFINE n == r.from.nums
           L == IntLimit
           l == Parse(r.from)
           top == Top(r)
           u == [major |-> top[1], minor |-> top[2], patch |-> top[3], pre |-> <<>>]
           up == [nums |-> top, pre |-> <<>>, clean |-> TRUE]
           T == TextOf([1 .. 3 -> 0 .. L - 1])
<1>0. L \in Nat /\ L # 0 BY SemVerAssumption
<1>1. /\ n \in [1 .. 3 -> 0 .. L - 2] /\ r.from.pre \in Seq(Identifier)
      /\ r.from = [nums |-> n, pre |-> r.from.pre, clean |-> TRUE]
  <2> DEFINE f == r.from
  <2>1. f \in TextOf([1 .. 3 -> 0 .. IntLimit - 2]) BY TextShapes
  <2> HIDE DEF f
  <2>2. /\ f.nums \in [1 .. 3 -> 0 .. IntLimit - 2] /\ f.pre \in Seq(Identifier)
        /\ f = [nums |-> f.nums, pre |-> f.pre, clean |-> TRUE]
    BY <2>1 DEF TextOf
  <2> QED BY <2>2 DEF f
<1>2. /\ n[1] \in 0 .. L - 2 /\ n[2] \in 0 .. L - 2 /\ n[3] \in 0 .. L - 2 BY <1>1
<1>3. n \in [1 .. 3 -> 0 .. L - 1] BY <1>0, <1>1
<1>4. r.from \in T
  <2> DEFINE pre == r.from.pre
             f == [nums |-> n, pre |-> pre, clean |-> TRUE]
  <2>1. r.from = f /\ pre \in Seq(Identifier) BY <1>1
  <2> HIDE DEF n, pre
  <2>2. f \in T BY <1>3, <2>1 DEF TextOf
  <2> QED BY <2>1, <2>2
<1>5. l \in FitVersion /\ l = [major |-> n[1], minor |-> n[2], patch |-> n[3], pre |-> r.from.pre]
  BY <1>4, ParseKeeps
<1>6. top \in {<<n[1], n[2] + 1, 0>>, <<n[1] + 1, 0, 0>>, <<0, n[2] + 1, 0>>, <<0, 0, n[3] + 1>>}
  BY DEF Top
<1> HIDE DEF n, L, top
<1>7. /\ n[1] + 1 \in 0 .. L - 1 /\ n[2] + 1 \in 0 .. L - 1 /\ n[3] + 1 \in 0 .. L - 1
      /\ n[1] \in 0 .. L - 1 /\ 0 \in 0 .. L - 1
  BY <1>0, <1>2
<1>8. top \in [1 .. 3 -> 0 .. L - 1]
  <2>1. ASSUME NEW a \in 0 .. L - 1, NEW b \in 0 .. L - 1, NEW c \in 0 .. L - 1
        PROVE  <<a, b, c>> \in [1 .. 3 -> 0 .. L - 1]
    OBVIOUS
  <2> QED BY <1>6, <1>7, <2>1
<1>9. up \in T
  <2>1. <<>> \in Seq(Identifier) OBVIOUS
  <2> QED BY <1>8, <2>1 DEF TextOf
<1>10. Parse(up) = u /\ u \in FitVersion
  <2>1. up.nums = top /\ up.pre = <<>> OBVIOUS
  <2>2. up \in TextOf([1 .. 3 -> 0 .. IntLimit - 1]) BY <1>9 DEF L
  <2> HIDE DEF up
  <2> QED BY <2>1, <2>2, ParseKeeps
<1> QED BY <1>4, <1>5, <1>9, <1>10 DEF n, L, top, TopVersion

LEMMA NamedRange ==
  ASSUME NEW r \in RangeText, r.form \in {"^", "~"}, NEW v \in FitVersion
  PROVE  /\ Satisfies(RangeParse(Interval(r)), v)
              = (~VersionBelow(v, Parse(r.from)) /\ VersionBelow(v, TopVersion(r)))
         /\ r.form = "^" => Satisfies(RangeParse(r), v)
                             = (FromLower(Parse(r.from), v) /\ CaretSame(Parse(r.from), v))
         /\ r.form = "~" => Satisfies(RangeParse(r), v)
                             = (FromLower(Parse(r.from), v) /\ TildeSame(Parse(r.from), v))
<1> DEFINE l == Parse(r.from)
           u == TopVersion(r)
           up == [nums |-> Top(r), pre |-> <<>>, clean |-> TRUE]
<1>1. /\ r.from \in TextOf([1 .. 3 -> 0 .. IntLimit - 1]) /\ up \in TextOf([1 .. 3 -> 0 .. IntLimit - 1])
      /\ l \in FitVersion /\ Parse(up) = u
  BY NamedBounds
<1>2. r.from = [nums |-> r.from.nums, pre |-> r.from.pre, clean |-> TRUE] BY <1>1 DEF TextOf
<1>3. Interval(r) = [form |-> "bounded", open |-> "[", close |-> ")", from |-> r.from, to |-> up]
  <2>1. Bottom(r) = r.from.nums BY DEF Bottom
  <2>2. [nums |-> Bottom(r), pre |-> r.from.pre, clean |-> TRUE] = r.from BY <1>2, <2>1
  <2> QED BY <2>2 DEF Interval
<1>12. Satisfies(RangeParse(Interval(r)), v) = (~VersionBelow(v, l) /\ VersionBelow(v, u))
  <2> DEFINE low == r.from
             both == [form |-> "bounded", open |-> "[", close |-> ")", from |-> low, to |-> up]
  <2>1. up \in TextOf([1 .. 3 -> 0 .. IntLimit - 1]) BY <1>1
  <2> HIDE DEF up, low
  <2>2. low \in TextOf([1 .. 3 -> 0 .. IntLimit - 1]) BY <1>1 DEF low
  <2>3. Satisfies(RangeParse(both), v) = (~VersionBelow(v, Parse(low)) /\ VersionBelow(v, Parse(up)))
    BY <2>1, <2>2, BoundedRange
  <2>4. Interval(r) = both /\ Parse(low) = l BY <1>3 DEF low
  <2> HIDE DEF both, l, u
  <2> QED BY <1>1, <2>3, <2>4
<1>13. l # Malformed
  <2>1. l.major >= 0 /\ ~(Malformed.major >= 0)
    BY <1>1, SemVerAssumption DEF FitVersion, Malformed
  <2> QED BY <2>1
<1>14. CASE r.form = "^"
  <2>1. RangeParse(r) = Range1("caret", l) BY <1>14 DEF RangeParse
  <2>2. Range1("caret", l).type = "caret" /\ Range1("caret", l).lower = l
    BY <1>13 DEF Range1, BadRange
  <2> HIDE DEF l
  <2>3. Satisfies(Range1("caret", l), v) = (FromLower(l, v) /\ CaretSame(l, v))
    BY <2>2 DEF Satisfies
  <2> QED BY <1>12, <1>14, <2>1, <2>3 DEF l
<1>15. CASE r.form = "~"
  <2>1. RangeParse(r) = Range1("tilde", l) BY <1>15 DEF RangeParse
  <2>2. Range1("tilde", l).type = "tilde" /\ Range1("tilde", l).lower = l
    BY <1>13 DEF Range1, BadRange
  <2> HIDE DEF l
  <2>3. Satisfies(Range1("tilde", l), v) = (FromLower(l, v) /\ TildeSame(l, v))
    BY <2>2 DEF Satisfies
  <2> QED BY <1>12, <1>15, <2>1, <2>3 DEF l
<1> QED BY <1>14, <1>15

LEMMA CaretAndTilde ==
  ASSUME NEW r \in RangeText, NEW t \in Candidate, r.form \in {"^", "~"}
  PROVE  RangeQuestion(r, t)
<1> DEFINE v == Parse(t)
           l == Parse(r.from)
           top == Top(r)
           u == TopVersion(r)
           same == IF r.form = "^" THEN CaretSame(l, v) ELSE TildeSame(l, v)
           sat == Satisfies(RangeParse(r), v)
           within == Satisfies(RangeParse(Interval(r)), v)
           n == r.from.nums
<1>1. t \in TextOf([1 .. 3 -> 0 .. IntLimit - 1]) /\ r.from \in TextOf([1 .. 3 -> 0 .. IntLimit - 2])
  BY TextShapes
<1>2. v \in FitVersion BY <1>1, ParseKeeps
<1>3. /\ r.from \in TextOf([1 .. 3 -> 0 .. IntLimit - 1])
      /\ l \in FitVersion /\ u \in FitVersion
      /\ l.major = n[1] /\ l.minor = n[2] /\ l.patch = n[3]
      /\ within = (~VersionBelow(v, l) /\ VersionBelow(v, u))
      /\ sat = (FromLower(l, v) /\ same)
  <2> HIDE DEF v
  <2>1. r.form = "^" => same = CaretSame(l, v) OBVIOUS
  <2>2. r.form = "~" => same = TildeSame(l, v) OBVIOUS
  <2>3. /\ r.from \in TextOf([1 .. 3 -> 0 .. IntLimit - 1])
        /\ l \in FitVersion /\ u \in FitVersion
        /\ l.major = n[1] /\ l.minor = n[2] /\ l.patch = n[3]
    BY <1>1, NamedBounds
  <2>6. within = (~VersionBelow(v, l) /\ VersionBelow(v, u)) BY <1>1, <1>2, NamedRange
  <2>4. r.form = "^" => sat = (FromLower(l, v) /\ CaretSame(l, v)) BY <1>1, <1>2, NamedRange
  <2>5. r.form = "~" => sat = (FromLower(l, v) /\ TildeSame(l, v)) BY <1>1, <1>2, NamedRange
  <2> HIDE DEF l, u, same, sat, within, n
  <2> QED BY <2>1, <2>2, <2>3, <2>4, <2>5, <2>6
<1>4. t.nums = n <=> Triple(v) = Triple(l) BY <1>1, <1>3, SameNums
<1>5. u.pre = <<>> /\ u.major = top[1] /\ u.minor = top[2] /\ u.patch = top[3] BY DEF TopVersion
<1>6. CASE r.form = "^"
  <2>1. /\ n[1] # 0 => top = <<n[1] + 1, 0, 0>>
        /\ n[1] = 0 /\ n[2] # 0 => top = <<0, n[2] + 1, 0>>
        /\ n[1] = 0 /\ n[2] = 0 => top = <<0, 0, n[3] + 1>>
    BY <1>6 DEF Top
  <2> HIDE DEF v, l, top, u, n
  <2>2. /\ l.major # 0 => u.major = l.major + 1 /\ u.minor = 0 /\ u.patch = 0
        /\ l.major = 0 /\ l.minor # 0 => u.major = 0 /\ u.minor = l.minor + 1 /\ u.patch = 0
        /\ l.major = 0 /\ l.minor = 0 => u.major = 0 /\ u.minor = 0 /\ u.patch = l.patch + 1
    BY <1>3, <1>5, <2>1
  <2>3. /\ ~NumsBelow(v, l) => (CaretSame(l, v) <=> NumsBelow(v, u))
        /\ Triple(v) = Triple(l) => CaretSame(l, v) /\ NumsBelow(v, u)
    BY <1>2, <1>3, <2>2, CaretEnds
  <2>4. same = CaretSame(l, v) /\ CaretSame(l, v) \in BOOLEAN BY <1>6 DEF CaretSame
  <2> HIDE DEF same, sat, within
  <2>5. /\ ~IsPre(v) => (FromLower(l, v) /\ same) = (~VersionBelow(v, l) /\ VersionBelow(v, u))
        /\ IsPre(v) => (FromLower(l, v) /\ same)
                         = ((~VersionBelow(v, l) /\ VersionBelow(v, u)) /\ Triple(v) = Triple(l))
    BY <1>2, <1>3, <1>5, <2>3, <2>4, FromLowest
  <2>6. (~IsPre(v) => sat = within) /\ (IsPre(v) => sat = (within /\ t.nums = n))
    BY <1>3, <1>4, <2>5
  <2> QED BY <1>6, <2>6 DEF RangeQuestion, v, sat, within, n
<1>7. CASE r.form = "~"
  <2>1. top = <<n[1], n[2] + 1, 0>> BY <1>7 DEF Top
  <2> HIDE DEF v, l, top, u, n
  <2>2. u.major = l.major /\ u.minor = l.minor + 1 /\ u.patch = 0 BY <1>3, <1>5, <2>1
  <2>3. /\ ~NumsBelow(v, l) => (TildeSame(l, v) <=> NumsBelow(v, u))
        /\ Triple(v) = Triple(l) => TildeSame(l, v) /\ NumsBelow(v, u)
    BY <1>2, <1>3, <2>2, TildeEnds
  <2>4. same = TildeSame(l, v) /\ TildeSame(l, v) \in BOOLEAN BY <1>7 DEF TildeSame
  <2> HIDE DEF same, sat, within
  <2>5. /\ ~IsPre(v) => (FromLower(l, v) /\ same) = (~VersionBelow(v, l) /\ VersionBelow(v, u))
        /\ IsPre(v) => (FromLower(l, v) /\ same)
                         = ((~VersionBelow(v, l) /\ VersionBelow(v, u)) /\ Triple(v) = Triple(l))
    BY <1>2, <1>3, <1>5, <2>3, <2>4, FromLowest
  <2>6. (~IsPre(v) => sat = within) /\ (IsPre(v) => sat = (within /\ t.nums = n))
    BY <1>3, <1>4, <2>5
  <2> QED BY <1>7, <2>6 DEF RangeQuestion, v, sat, within, n
<1> QED BY <1>6, <1>7

(* Without its last dot a list has no empty identifier, and is not empty.   *)
LEMMA TrimmedList ==
  ASSUME NEW s \in Seq(Identifier), OnlyTrailingDot(s)
  PROVE  /\ Compared(s) = <<>> <=> s = <<>>
         /\ Compared(s) \in Seq(Identifier \ {Empty})
<1> DEFINE n == Len(s)
<1>1. /\ n \in Nat /\ DOMAIN s = 1 .. n /\ (s = <<>> <=> n = 0)
      /\ \A i \in 1 .. n : s[i] \in Identifier
  OBVIOUS
<1>2. \A i \in 1 .. n : s[i] = Empty => i = n /\ i > 1 BY <1>1 DEF OnlyTrailingDot
<1>3. CASE s # <<>> /\ Last(s) = Empty
  <2>1. Compared(s) = SubSeq(s, 1, n - 1) BY <1>3 DEF Compared, Front
  <2>2. s[n] = Empty BY <1>3 DEF Last
  <2>3. SubSeq(s, 1, n - 1) = [i \in 1 .. n - 1 |-> s[i]] BY <1>1, <1>3
  <2> HIDE DEF n
  <2>4. n > 1
    <3>1. n \in 1 .. n BY <1>1, <1>3
    <3> QED BY <1>2, <2>2, <3>1
  <2> DEFINE m == n - 1
             f == [i \in 1 .. m |-> s[i]]
  <2>5. m \in Nat /\ m > 0 BY <1>1, <2>4
  <2>6. \A i \in 1 .. m : s[i] \in Identifier \ {Empty} BY <1>1, <1>2
  <2> HIDE DEF m
  <2>7. f \in Seq(Identifier \ {Empty}) BY <2>5, <2>6
  <2>8. f # <<>>
    <3>1. Len(f) = m BY <2>5
    <3> QED BY <2>5, <3>1
  <2> QED BY <1>3, <2>1, <2>3, <2>7, <2>8 DEF m
<1>4. CASE ~(s # <<>> /\ Last(s) = Empty)
  <2>1. Compared(s) = s BY <1>4 DEF Compared
  <2>2. ASSUME NEW i \in 1 .. n, s[i] = Empty PROVE FALSE
    <3>1. i = n BY <1>2, <2>2
    <3>2. s # <<>> BY <1>1, <2>2
    <3> QED BY <1>4, <2>2, <3>1, <3>2 DEF Last
  <2>3. \A i \in 1 .. n : s[i] \in Identifier \ {Empty} BY <1>1, <2>2
  <2>4. s \in Seq(Identifier \ {Empty}) BY <1>1, <2>3
  <2> QED BY <2>1, <2>4
<1> QED BY <1>3, <1>4

(* Lists without empty identifiers are the same for the comparison when     *)
(* they are equal; so are lists that end in a dot, without it.              *)
LEMMA SameIdentifiers ==
  ASSUME NEW x \in Seq(Identifier), NEW y \in Seq(Identifier), OnlyTrailingDot(x), OnlyTrailingDot(y)
  PROVE  PreSame(x, y) <=> Compared(x) = Compared(y)
<1> DEFINE a == Compared(x)
           b == Compared(y)
<1>2. (a = <<>> <=> x = <<>>) /\ a \in Seq(Identifier \ {Empty}) BY TrimmedList
<1>3. (b = <<>> <=> y = <<>>) /\ b \in Seq(Identifier \ {Empty}) BY TrimmedList
<1>4. PreSame(x, y) <=> (x = <<>> <=> y = <<>>) /\ ListSame(a, b) BY DEF PreSame
<1> HIDE DEF a, b
<1>5. /\ Len(a) \in Nat /\ Len(b) \in Nat /\ DOMAIN a = 1 .. Len(a) /\ DOMAIN b = 1 .. Len(b)
      /\ \A i \in 1 .. Len(a) : a[i] \in Identifier \ {Empty}
      /\ \A i \in 1 .. Len(b) : b[i] \in Identifier \ {Empty}
  BY <1>2, <1>3
<1>6. ASSUME ListSame(a, b) PROVE a = b
  <2>1. Len(a) = Len(b) /\ \A i \in 1 .. Len(a) : CompareId(a[i], b[i]) = 0 BY <1>6 DEF ListSame
  <2>2. \A i \in 1 .. Len(a) : a[i] = b[i] BY <1>5, <2>1, IdPrecedence
  <2> QED BY <1>2, <1>3, <1>5, <2>1, <2>2
<1>7. ASSUME a = b PROVE ListSame(a, b) BY <1>5, <1>7, IdPrecedence DEF ListSame
<1> QED BY <1>2, <1>3, <1>4, <1>6, <1>7 DEF a, b

(* An exact range is met by the version it names, however many dots its     *)
(* text ends in; by none when its text is malformed.                        *)
LEMMA ExactRange ==
  ASSUME NEW r \in RangeText, NEW t \in Candidate, r.form = "exact"
  PROVE  RangeQuestion(r, t)
<1> DEFINE f == r.from
           v == Parse(t)
           l == Parse(f)
           sat == Satisfies(RangeParse(r), v)
<1>1. /\ t \in TextOf([1 .. 3 -> 0 .. IntLimit - 1]) /\ OnlyTrailingDot(t.pre)
      /\ f \in TextOf(Seq(0 .. IntLimit - 1 \cup {Junk})) /\ OnlyTrailingDot(f.pre)
  BY TextShapes
<1>2. v \in FitVersion BY <1>1, ParseKeeps
<1>3. RangeParse(r) = Range1("exact", l) BY DEF RangeParse
<1>4. /\ t.nums \in [1 .. 3 -> 0 .. IntLimit - 1] /\ t.pre \in Seq(Identifier)
  BY <1>1 DEF TextOf
<1> HIDE DEF f
<1>5. /\ f.nums \in Seq(0 .. IntLimit - 1 \cup {Junk}) /\ f.pre \in Seq(Identifier) /\ f.clean = TRUE
      /\ f = [nums |-> f.nums, pre |-> f.pre, clean |-> TRUE]
  BY <1>1 DEF TextOf
<1>6. IntLimit \in Nat /\ Junk \notin Nat BY SemVerAssumption
<1>7. sat = (t.nums = f.nums /\ Compared(t.pre) = Compared(f.pre))
  <2>1. CASE Len(f.nums) = 3 /\ \A i \in 1 .. 3 : f.nums[i] # Junk
    <3>1. f.nums \in [1 .. 3 -> 0 .. IntLimit - 1]
      <4> DEFINE m == f.nums
      <4>1. m \in Seq(0 .. IntLimit - 1 \cup {Junk}) /\ Len(m) = 3 /\ \A i \in 1 .. 3 : m[i] # Junk
        BY <1>5, <2>1
      <4> HIDE DEF m
      <4>2. m \in [1 .. 3 -> 0 .. IntLimit - 1 \cup {Junk}]
        <5> DEFINE A == 0 .. IntLimit - 1 \cup {Junk}
        <5>1. m \in Seq(A) BY <4>1
        <5> HIDE DEF A
        <5>2. m \in [1 .. Len(m) -> A] BY <5>1
        <5> QED BY <4>1, <5>2 DEF A
      <4>3. m \in [1 .. 3 -> 0 .. IntLimit - 1] BY <4>1, <4>2
      <4> QED BY <4>3 DEF m
    <3>2. f \in TextOf([1 .. 3 -> 0 .. IntLimit - 1])
      <4> DEFINE m == f.nums
                 p == f.pre
      <4>1. f = [nums |-> m, pre |-> p, clean |-> TRUE] /\ p \in Seq(Identifier) BY <1>5
      <4>2. m \in [1 .. 3 -> 0 .. IntLimit - 1] BY <3>1
      <4> HIDE DEF m, p
      <4> QED BY <4>1, <4>2 DEF TextOf
    <3>3. /\ l \in FitVersion
          /\ l.major = f.nums[1] /\ l.minor = f.nums[2] /\ l.patch = f.nums[3] /\ l.pre = f.pre
      <4>1. /\ l = [major |-> f.nums[1], minor |-> f.nums[2], patch |-> f.nums[3], pre |-> f.pre]
            /\ l \in FitVersion
        BY <3>2, ParseKeeps
      <4> HIDE DEF l
      <4> QED BY <4>1
    <3>4. v.pre = t.pre
      <4>1. v = [major |-> t.nums[1], minor |-> t.nums[2], patch |-> t.nums[3], pre |-> t.pre]
        BY <1>1, ParseKeeps
      <4> HIDE DEF v
      <4> QED BY <4>1
    <3>5. l # Malformed
      <4>1. l.major >= 0 /\ ~(Malformed.major >= 0) BY <1>6, <3>3 DEF FitVersion, Malformed
      <4> QED BY <4>1
    <3>6. t.nums = f.nums <=> Triple(v) = Triple(l) BY <1>1, <3>2, SameNums
    <3>7. PreSame(l.pre, v.pre) <=> Compared(l.pre) = Compared(v.pre)
      BY <1>1, <1>4, <1>5, <3>3, <3>4, SameIdentifiers
    <3> HIDE DEF l, v
    <3>8. Range1("exact", l).type = "exact" /\ Range1("exact", l).lower = l
      BY <3>5 DEF Range1, BadRange
    <3>9. Satisfies(Range1("exact", l), v) = (Compare(l, v) = 0) BY <3>8 DEF Satisfies
    <3>10. Compare(l, v) = 0 <=> VersionSame(l, v) BY <1>2, <3>3, CompareSigns
    <3>11. VersionSame(l, v) <=> Triple(v) = Triple(l) /\ PreSame(l.pre, v.pre)
      BY DEF VersionSame, Triple
    <3> QED BY <1>3, <3>3, <3>4, <3>6, <3>7, <3>9, <3>10, <3>11
  <2>2. CASE ~(Len(f.nums) = 3 /\ \A i \in 1 .. 3 : f.nums[i] # Junk)
    <3>1. l = Malformed BY <1>5, <2>2 DEF Parse
    <3>2. Range1("exact", Malformed).type = "bad" BY DEF Range1, BadRange
    <3>4. Satisfies(Range1("exact", Malformed), v) = FALSE BY <3>2 DEF Satisfies
    <3>5. t.nums # f.nums
      <4>1. Len(t.nums) = 3 /\ \A i \in 1 .. 3 : t.nums[i] # Junk BY <1>4, <1>6
      <4> QED BY <2>2, <4>1
    <3> QED BY <1>3, <3>1, <3>4, <3>5
  <2> QED BY <2>1, <2>2
<1> QED BY <1>7 DEF RangeQuestion, f

(* A range with a star: the versions that begin like it, and no             *)
(* pre-release.                                                             *)
LEMMA WildcardRange ==
  ASSUME NEW r \in RangeText, r.form \in {"star", "*"}, NEW v
  PROVE  Satisfies(RangeParse(r), v) <=>
           /\ ~IsPre(v)
           /\ \/ Partial(r, 1) = -1
              \/ v.major = Partial(r, 1) /\ Partial(r, 2) \in {-1, v.minor}
<1> DEFINE q == RangeParse(r)
<1>1. q = [BadRange EXCEPT !.type = "wildcard",
             !.lower = [major |-> Partial(r, 1), minor |-> Partial(r, 2), patch |-> 0, pre |-> <<>>]]
  BY DEF RangeParse
<1>2. q.type = "wildcard" /\ q.lower.major = Partial(r, 1) /\ q.lower.minor = Partial(r, 2)
  BY <1>1 DEF BadRange
<1> HIDE DEF q
<1>3. Satisfies(q, v) <=> /\ ~IsPre(v)
                          /\ \/ q.lower.major = -1
                             \/ v.major = q.lower.major /\ q.lower.minor \in {-1, v.minor}
  BY <1>2 DEF Satisfies
<1> QED BY <1>2, <1>3 DEF q

(* Zeros for the numbers that a star leaves open. *)
LEMMA FirstThree ==
  ASSUME NEW n, NEW k \in 1 .. 2, NEW A, n \in [1 .. k -> A]
  PROVE  SubSeq(n \o <<0, 0>>, 1, 3) = IF k = 1 THEN <<n[1], 0, 0>> ELSE <<n[1], n[2], 0>>
<1> DEFINE B == A \cup {0}
           m == n \o <<0, 0>>
<1>1. n \in Seq(B) /\ Len(n) = k /\ <<0, 0>> \in Seq(B) /\ Len(<<0, 0>>) = 2 OBVIOUS
<1> HIDE DEF B
<1>2. /\ m \in Seq(B) /\ Len(m) = k + 2
      /\ \A i \in 1 .. k + 2 : m[i] = IF i <= k THEN n[i] ELSE <<0, 0>>[i - k]
  BY <1>1, ConcatProperties
<1> HIDE DEF m
<1>3. SubSeq(m, 1, 3) = [i \in 1 .. 3 |-> m[i]] BY <1>2
<1>4. SubSeq(m, 1, 3) = <<m[1], m[2], m[3]>>
  <2> DEFINE f == [i \in 1 .. 3 |-> m[i]]
             g == <<m[1], m[2], m[3]>>
  <2>1. m[1] \in B /\ m[2] \in B /\ m[3] \in B BY <1>2
  <2>2. g \in [1 .. 3 -> B] /\ g[1] = m[1] /\ g[2] = m[2] /\ g[3] = m[3] BY <2>1
  <2>3. f \in [1 .. 3 -> B] /\ f[1] = m[1] /\ f[2] = m[2] /\ f[3] = m[3] BY <1>2
  <2>4. \A i : i \in 1 .. 3 <=> i = 1 \/ i = 2 \/ i = 3 OBVIOUS
  <2> HIDE DEF f, g
  <2>5. f = g BY <2>2, <2>3, <2>4
  <2> QED BY <1>3, <2>5 DEF f, g
<1>5. CASE k = 1
  <2>1. m[1] = n[1] /\ m[2] = <<0, 0>>[1] /\ m[3] = <<0, 0>>[2] BY <1>2, <1>5
  <2> QED BY <1>4, <1>5, <2>1 DEF m
<1>6. CASE k = 2
  <2>1. m[1] = n[1] /\ m[2] = n[2] /\ m[3] = <<0, 0>>[1] BY <1>2, <1>6
  <2> QED BY <1>4, <1>6, <2>1 DEF m
<1> QED BY <1>5, <1>6

(* The bounded range a star stands for. *)
LEMMA StarBounds ==
  ASSUME NEW r \in RangeText, r.form = "star"
  PROVE  \E a, b, c, d \in 0 .. IntLimit - 1 :
           /\ Bottom(r) = <<a, b, 0>> /\ Top(r) = <<c, d, 0>> /\ Partial(r, 1) = a
           /\ \/ Partial(r, 2) = -1 /\ b = 0 /\ c = a + 1 /\ d = 0
              \/ Partial(r, 2) = b /\ c = a /\ d = b + 1
<1> DEFINE L == IntLimit
           n == r.from.nums
<1>0. L \in Nat /\ L # 0 /\ Junk \notin Nat BY SemVerAssumption
<1>1. PICK k \in 1 .. 2 : r.from \in TextOf([1 .. k -> 0 .. L - 2]) BY TextShapes
<1>2. n \in [1 .. k -> 0 .. L - 2]
  <2> DEFINE f == r.from
  <2>1. f \in TextOf([1 .. k -> 0 .. L - 2]) BY <1>1
  <2> HIDE DEF f
  <2>2. f.nums \in [1 .. k -> 0 .. L - 2] BY <2>1 DEF TextOf
  <2> QED BY <2>2 DEF f
<1>3. /\ Bottom(r) = SubSeq(n \o <<0, 0>>, 1, 3)
      /\ Len(n) = 1 => Top(r) = <<n[1] + 1, 0, 0>>
      /\ Len(n) > 1 => Top(r) = <<n[1], n[2] + 1, 0>>
      /\ \A i \in 1 .. 2 : Partial(r, i) = IF i > Len(n) THEN -1
                                           ELSE IF n[i] = Junk THEN 0 ELSE ToInt(n[i])
  BY DEF Bottom, Top, Partial
<1> HIDE DEF n, L
<1>4. \A i \in 1 .. k : /\ n[i] \in 0 .. L - 1 /\ n[i] + 1 \in 0 .. L - 1 /\ n[i] # Junk
                        /\ ToInt(n[i]) = n[i]
  <2> SUFFICES ASSUME NEW i \in 1 .. k
               PROVE  /\ n[i] \in 0 .. L - 1 /\ n[i] + 1 \in 0 .. L - 1 /\ n[i] # Junk
                      /\ ToInt(n[i]) = n[i]
    OBVIOUS
  <2>1. n[i] \in 0 .. L - 2 BY <1>2
  <2>2. n[i] \in 0 .. L - 1 /\ n[i] + 1 \in 0 .. L - 1 /\ n[i] # Junk BY <1>0, <2>1
  <2>3. n[i] \in Int /\ 0 - L <= n[i] /\ n[i] < L BY <1>0, <2>1
  <2>4. ToInt(n[i]) = n[i] BY <2>3, ToIntKeeps DEF L
  <2> QED BY <2>2, <2>4
<1>5. 0 \in 0 .. L - 1 BY <1>0
<1>6. CASE k = 1
  <2>1. Len(n) = 1 /\ n = <<n[1]>> BY <1>2, <1>6
  <2>2. SubSeq(n \o <<0, 0>>, 1, 3) = <<n[1], 0, 0>>
    BY <1>2, <1>6, <2>1, FirstThree
  <2>3. Partial(r, 1) = n[1] /\ Partial(r, 2) = -1 BY <1>3, <1>4, <1>6, <2>1
  <2>4. n[1] \in 0 .. L - 1 /\ n[1] + 1 \in 0 .. L - 1 BY <1>4, <1>6
  <2>5. Bottom(r) = <<n[1], 0, 0>> /\ Top(r) = <<n[1] + 1, 0, 0>> BY <1>3, <2>1, <2>2
  <2> QED BY <1>5, <2>3, <2>4, <2>5 DEF L
<1>7. CASE k = 2
  <2>1. Len(n) = 2 /\ n = <<n[1], n[2]>> BY <1>2, <1>7
  <2>2. SubSeq(n \o <<0, 0>>, 1, 3) = <<n[1], n[2], 0>>
    BY <1>2, <1>7, <2>1, FirstThree
  <2>3. Partial(r, 1) = n[1] /\ Partial(r, 2) = n[2] BY <1>3, <1>4, <1>7, <2>1
  <2>4. n[1] \in 0 .. L - 1 /\ n[2] \in 0 .. L - 1 /\ n[2] + 1 \in 0 .. L - 1 BY <1>4, <1>7
  <2>5. Bottom(r) = <<n[1], n[2], 0>> /\ Top(r) = <<n[1], n[2] + 1, 0>> BY <1>3, <2>1, <2>2
  <2> QED BY <2>3, <2>4, <2>5 DEF L
<1> QED BY <1>6, <1>7

(* For releases a star is that range. *)
LEMMA StarRange ==
  ASSUME NEW r \in RangeText, NEW t \in Candidate, r.form \in {"star", "*"}
  PROVE  RangeQuestion(r, t)
<1> DEFINE v == Parse(t)
           sat == Satisfies(RangeParse(r), v)
           within == Satisfies(RangeParse(Interval(r)), v)
<1>1. t \in TextOf([1 .. 3 -> 0 .. IntLimit - 1]) BY TextShapes
<1>2. v \in FitVersion BY <1>1, ParseKeeps
<1>3. IsPre(v) => ~sat
  <2> HIDE DEF v
  <2> QED BY WildcardRange
<1>4. ASSUME r.form = "star", ~IsPre(v) PROVE sat = within
  <2>1. PICK a, b, c, d \in 0 .. IntLimit - 1 :
          /\ Bottom(r) = <<a, b, 0>> /\ Top(r) = <<c, d, 0>> /\ Partial(r, 1) = a
          /\ \/ Partial(r, 2) = -1 /\ b = 0 /\ c = a + 1 /\ d = 0
             \/ Partial(r, 2) = b /\ c = a /\ d = b + 1
    BY <1>4, StarBounds
  <2> DEFINE lo == [nums |-> <<a, b, 0>>, pre |-> <<>>, clean |-> TRUE]
             up == [nums |-> <<c, d, 0>>, pre |-> <<>>, clean |-> TRUE]
             l == [major |-> a, minor |-> b, patch |-> 0, pre |-> <<>>]
             u == [major |-> c, minor |-> d, patch |-> 0, pre |-> <<>>]
             T == TextOf([1 .. 3 -> 0 .. IntLimit - 1])
  <2>2. r.from.pre = <<>> BY <1>4, TextShapes
  <2>3. Interval(r) = [form |-> "bounded", open |-> "[", close |-> ")", from |-> lo, to |-> up]
    BY <2>1, <2>2 DEF Interval
  <2>4. IntLimit \in Nat /\ 0 \in 0 .. IntLimit - 1 BY SemVerAssumption
  <2>5. \A x, y \in 0 .. IntLimit - 1 :
          /\ [nums |-> <<x, y, 0>>, pre |-> <<>>, clean |-> TRUE] \in T
          /\ Parse([nums |-> <<x, y, 0>>, pre |-> <<>>, clean |-> TRUE])
               = [major |-> x, minor |-> y, patch |-> 0, pre |-> <<>>]
    <3> SUFFICES ASSUME NEW x \in 0 .. IntLimit - 1, NEW y \in 0 .. IntLimit - 1
                 PROVE  /\ [nums |-> <<x, y, 0>>, pre |-> <<>>, clean |-> TRUE] \in T
                        /\ Parse([nums |-> <<x, y, 0>>, pre |-> <<>>, clean |-> TRUE])
                             = [major |-> x, minor |-> y, patch |-> 0, pre |-> <<>>]
      OBVIOUS
    <3> DEFINE m == <<x, y, 0>>
               s == [nums |-> m, pre |-> <<>>, clean |-> TRUE]
    <3>1. m \in [1 .. 3 -> 0 .. IntLimit - 1] /\ m[1] = x /\ m[2] = y /\ m[3] = 0 BY <2>4
    <3>2. <<>> \in Seq(Identifier) OBVIOUS
    <3> HIDE DEF m
    <3>3. s \in T /\ s.nums = m /\ s.pre = <<>> BY <3>1, <3>2 DEF TextOf
    <3> HIDE DEF s
    <3>4. Parse(s) = [major |-> s.nums[1], minor |-> s.nums[2], patch |-> s.nums[3], pre |-> s.pre]
      BY <3>3, ParseKeeps
    <3> QED BY <3>1, <3>3, <3>4 DEF s, m
  <2>6. lo \in T /\ up \in T /\ Parse(lo) = l /\ Parse(up) = u BY <2>5
  <2>7. l \in FitVersion /\ u \in FitVersion BY <2>4 DEF FitVersion
  <2> HIDE DEF lo, up, v
  <2>8. within = (~VersionBelow(v, l) /\ VersionBelow(v, u))
    <3>1. Satisfies(RangeParse([form |-> "bounded", open |-> "[", close |-> ")",
                                from |-> lo, to |-> up]), v)
            = (~VersionBelow(v, Parse(lo)) /\ VersionBelow(v, Parse(up)))
      BY <1>2, <2>6, BoundedRange
    <3> HIDE DEF l, u
    <3> QED BY <2>3, <2>6, <3>1
  <2>9. sat <=> v.major = a /\ Partial(r, 2) \in {-1, v.minor}
    <3>1. sat <=> /\ ~IsPre(v)
                  /\ \/ Partial(r, 1) = -1
                     \/ v.major = Partial(r, 1) /\ Partial(r, 2) \in {-1, v.minor}
      BY WildcardRange
    <3>2. a # -1 OBVIOUS
    <3> HIDE DEF sat
    <3> QED BY <1>4, <2>1, <3>1, <3>2
  <2>10. /\ l.major = a /\ l.minor = b /\ l.patch = 0
         /\ u.major = c /\ u.minor = d /\ u.patch = 0
    OBVIOUS
  <2> HIDE DEF l, u
  <2>11. /\ VersionBelow(v, l) <=> NumsBelow(v, l)
         /\ VersionBelow(v, u) <=> NumsBelow(v, u)
    BY <1>2, <1>4, <2>7, BelowRelease
  <2>12. v.major \in Nat /\ v.minor \in Nat /\ v.patch \in Nat /\ a \in Nat /\ b \in Nat
    BY <1>2, <2>4 DEF FitVersion
  <2>13. (v.major = a /\ Partial(r, 2) \in {-1, v.minor}) <=> ~NumsBelow(v, l) /\ NumsBelow(v, u)
    BY <2>1, <2>10, <2>12 DEF NumsBelow
  <2>14. sat \in BOOLEAN
    <3>1. sat = TRUE \/ sat = FALSE BY WildcardRange DEF Satisfies
    <3> QED BY <3>1
  <2> HIDE DEF sat, within
  <2> QED BY <2>8, <2>9, <2>11, <2>13, <2>14
<1> HIDE DEF sat, within
<1>5. ~(r.form \in {"^", "~"}) /\ r.form # "exact" OBVIOUS
<1> QED BY <1>3, <1>4, <1>5 DEF RangeQuestion, v, sat, within

(* cookbook_range_satisfies: every shorthand is the bounded range that its  *)
(* comments say it is, for every width of an int and all texts whose        *)
(* numbers have a successor that fits it.                                   *)
THEOREM RangesMeanIntervals == AskSpec => []RangeLaw
<1> DEFINE Asked == input.ask = "range" => input.range \in RangeText /\ input.v \in Candidate
<1>1. AskInit => Asked BY DEF AskInit, Nothing
<1>2. Asked /\ [AskNext]_askVars => Asked'
  BY DEF AskNext, AskOrder, AskRange, AskGrant, RunStatement, askVars
<1>3. Asked => RangeLaw
  <2> SUFFICES ASSUME Asked, input.ask = "range" PROVE RangeLaw BY DEF RangeLaw
  <2> DEFINE r == input.range
             t == input.v
  <2>1. r \in RangeText /\ t \in Candidate OBVIOUS
  <2> HIDE DEF r, t
  <2>2. RangeQuestion(r, t)
    <3>1. CASE r.form \in {"^", "~"} BY <2>1, <3>1, CaretAndTilde
    <3>2. CASE r.form \in {"star", "*"} BY <2>1, <3>2, StarRange
    <3>3. CASE r.form = "exact" BY <2>1, <3>3, ExactRange
    <3>4. CASE r.form \notin {"^", "~", "star", "*", "exact"} BY <3>4 DEF RangeQuestion
    <3> QED BY <3>1, <3>2, <3>3, <3>4
  <2> QED BY <2>2 DEF RangeQuestion, RangeLaw, r, t
<1> QED BY <1>1, <1>2, <1>3, PTL DEF AskSpec

-----------------------------------------------------------------------------
(* The object and build graph caches. *)
USE CacheAssumption

-----------------------------------------------------------------------------
(* The inductive invariant.  Everything the caches know of comes from an    *)
(* upload, and the evictor works on an entry of its list.                   *)
KnownKeys ==
  /\ IsFiniteSet(uploaded)
  /\ file \subseteq uploaded
  /\ \A w \in Worker : worker[w] # Idle => worker[w].key \in uploaded
  /\ \A k \in CacheKey : row[k] # "none" => k \in uploaded
  /\ evict.todo \subseteq uploaded
  /\ evict.pc = "row" => evict.cur \in evict.todo

(* No two workers upload k, and the one that does has not written its row.  *)
(* Its file exists from the opening on and is whole once written.           *)
Uploading(k) ==
  \A w \in Worker : worker[w].key = k =>
    /\ \A v \in Worker : worker[v].key = k => v = w
    /\ k \in CacheKey => row[k] = "none"
    /\ k \in file <=> worker[w].pc # "put"
    /\ k \in partial <=> worker[w].pc = "write"
    /\ worker[w].pc = "write" => worker[w].linked

(* After the upload the file is whole, and there until the row expires.     *)
Stored(k) ==
  (\A w \in Worker : worker[w].key # k) =>
    /\ k \notin partial
    /\ k \in CacheKey /\ row[k] = "none" => k \notin file
    /\ k \in CacheKey /\ row[k] = "fresh" => k \in file

(* A listed key is still expired; its row goes after its file.              *)
Listed(k) ==
  /\ k \in evict.todo => row[k] = "expired"
  /\ evict.pc = "row" /\ evict.cur = k => k \notin file

(* The life of a key that is uploaded once and without a fault. *)
Life == \A k \in Key \ disturbed : Uploading(k) /\ Stored(k) /\ Listed(k)

CacheInv == TypeOK /\ KnownKeys /\ Life

-----------------------------------------------------------------------------
(* A worker with a request; the state of the eviction pass. *)
Upload == [pc : {"put", "write", "track"}, key : Key, linked : BOOLEAN]

Pass == [pc : {"idle", "select", "object", "row"}, cap : Nat,
         todo : SUBSET CacheKey, cur : CacheKey \cup {NoKey}]

(* The inductive invariant is strong enough. *)
LEMMA CacheInvSuffices == CacheInv => NoUntrackedObject /\ FreshIsServed
<1> SUFFICES ASSUME CacheInv PROVE NoUntrackedObject /\ FreshIsServed
  OBVIOUS
<1> USE DEF CacheInv, Life, Uploading, Stored, Key
<1>1. \A w \in Worker : worker[w].key \in Key => worker[w].pc \in {"put", "write", "track"}
  BY DEF TypeOK, Idle
<1>2. NoUntrackedObject
  <2> SUFFICES ASSUME NEW k \in (file \cap CacheKey) \ disturbed, row[k] = "none"
               PROVE  \E w \in Worker : worker[w].key = k /\ worker[w].pc \in {"write", "track"}
    BY DEF NoUntrackedObject
  <2>1. PICK w \in Worker : worker[w].key = k
    OBVIOUS
  <2> QED BY <1>1, <2>1
<1>3. FreshIsServed
  <2>1. ASSUME NEW k \in CacheKey \ disturbed, row[k] = "fresh"
        PROVE  k \in file /\ k \notin partial
    BY <2>1
  <2>2. ASSUME NEW k \in (file \cap Key) \ disturbed
        PROVE  k \notin partial \/ \E w \in Worker : worker[w].key = k /\ worker[w].pc = "write"
    BY <2>2
  <2>3. \A k : FetchObject(k).whole = (k \in file \ partial) /\ FetchGraph(k).whole = (k \in file \ partial)
    BY DEF FetchObject, FetchGraph
  <2>4. \A k \in file \ partial : FetchObject(k) = [status |-> 200, whole |-> TRUE]
    BY DEF FetchObject
  <2> QED BY <2>1, <2>2, <2>3, <2>4 DEF FreshIsServed
<1> QED BY <1>2, <1>3

(* Empty store, empty table, idle workers. *)
LEMMA CacheInvInit == Init => CacheInv
BY FS_EmptySet DEF Init, CacheInv, TypeOK, KnownKeys, Life, Uploading, Stored, Listed,
   Idle, NoPass, Key

(* Updates of single fields keep an upload an upload. *)
LEMMA UploadUpdates ==
  ASSUME NEW r \in Upload
  PROVE  /\ [r EXCEPT !.pc = "write", !.linked = TRUE] \in Upload
         /\ [r EXCEPT !.pc = "track", !.linked = FALSE] \in Upload
         /\ [r EXCEPT !.linked = FALSE] \in Upload
<1>1. [r EXCEPT !.pc = "write", !.linked = TRUE] \in Upload BY DEF Upload
<1>2. [r EXCEPT !.pc = "track", !.linked = FALSE] \in Upload BY DEF Upload
<1>3. [r EXCEPT !.linked = FALSE] \in Upload BY DEF Upload
<1> QED BY <1>1, <1>2, <1>3

(* Finishing an entry, and taking the next one on, keeps the pass a pass.   *)
LEMMA PassUpdates ==
  ASSUME NEW e \in Pass, NEW k \in CacheKey, NEW T \in SUBSET CacheKey
  PROVE  /\ NoPass \in Pass
         /\ [e EXCEPT !.pc = "row", !.cur = k] \in Pass
         /\ [e EXCEPT !.pc = "object", !.todo = T, !.cur = NoKey] \in Pass
<1>1. NoPass \in Pass BY DEF Pass, NoPass
<1>2. [e EXCEPT !.pc = "row", !.cur = k] \in Pass BY DEF Pass
<1>3. [e EXCEPT !.pc = "object", !.todo = T, !.cur = NoKey] \in Pass BY DEF Pass
<1> QED BY <1>1, <1>2, <1>3

(* Every step keeps the types.  The count of expired rows is a number since *)
(* only uploaded keys have rows.                                            *)
LEMMA CacheTypeStep == TypeOK /\ KnownKeys /\ [Next]_vars => TypeOK'
<1> SUFFICES ASSUME TypeOK, KnownKeys, [Next]_vars PROVE TypeOK'
  OBVIOUS
<1> USE DEF TypeOK, Key
<1>1. ASSUME NEW w \in Worker, NEW k \in Key, Request(w, k) PROVE TypeOK'
  BY <1>1 DEF Request, Idle
<1>0. worker \in [Worker -> {Idle} \cup Upload] /\ evict \in Pass
  BY DEF Upload, Pass
<1>2. ASSUME NEW w \in Worker, OpenObject(w) PROVE TypeOK'
  <2>1. worker[w] \in Upload /\ worker[w].key \in Key BY <1>0, <1>2 DEF OpenObject, Idle, Upload
  <2>2. worker' \in [Worker -> {Idle} \cup Upload]
    BY <1>0, <1>2, <2>1, UploadUpdates DEF OpenObject
  <2> QED BY <1>2, <2>1, <2>2 DEF OpenObject, Upload
<1>3. ASSUME NEW w \in Worker, PutObject(w) PROVE TypeOK'
  <2>1. worker[w] \in Upload BY <1>0, <1>3 DEF PutObject, Idle
  <2>2. worker' \in [Worker -> {Idle} \cup Upload]
    BY <1>0, <1>3, <2>1, UploadUpdates DEF PutObject
  <2> QED BY <1>3, <2>2 DEF PutObject, Upload
<1>4. ASSUME NEW w \in Worker, PutFails(w) PROVE TypeOK'
  BY <1>4 DEF PutFails, Idle, KnownKeys
<1>5. ASSUME NEW w \in Worker, TrackObject(w) PROVE TypeOK'
  BY <1>5 DEF TrackObject, Idle
<1>6. ASSUME NEW w \in Worker, TrackFails(w) PROVE TypeOK'
  BY <1>6 DEF TrackFails, Idle, KnownKeys
<1>7. ASSUME NEW k \in CacheKey, Expire(k) PROVE TypeOK'
  BY <1>7 DEF Expire
<1>8. ASSUME EvictCount PROVE TypeOK'
  <2>1. Cardinality(Expired) \in Nat
    <3>1. Expired \subseteq uploaded BY DEF Expired, KnownKeys
    <3> QED BY <3>1, FS_Subset, FS_CardinalityType DEF KnownKeys
  <2> QED BY <1>8, <2>1 DEF EvictCount
<1>9. ASSUME EvictSelect PROVE TypeOK'
  BY <1>9 DEF EvictSelect, Expired, NoPass
<1>10. ASSUME NEW k \in CacheKey, EvictObject(k) PROVE TypeOK'
  <2>1. \A w \in Worker : worker[w].key = k => worker[w] \in Upload
    BY <1>0 DEF Idle
  <2>2. worker' \in [Worker -> {Idle} \cup Upload]
    BY <1>0, <1>10, <2>1, UploadUpdates DEF EvictObject
  <2>3. evict' \in Pass BY <1>0, <1>10, PassUpdates DEF EvictObject
  <2> QED BY <1>10, <2>2, <2>3 DEF EvictObject, Upload, Pass
<1>11. ASSUME NEW k \in CacheKey, EvictObjectFails(k) PROVE TypeOK'
  <2>1. evict' \in Pass BY <1>0, <1>11, PassUpdates DEF EvictObjectFails
  <2> QED BY <1>11, <2>1 DEF EvictObjectFails, Pass, KnownKeys
<1>12. ASSUME NEW k \in CacheKey, EntryDone(k) PROVE evict' \in Pass
  <2>1. evict.todo \ {k} \in SUBSET CacheKey BY <1>0 DEF Pass
  <2> QED BY <1>0, <1>12, <2>1, PassUpdates DEF EntryDone
<1>13. ASSUME NEW k \in CacheKey, EvictRow(k) \/ EvictRowFails(k) PROVE TypeOK'
  BY <1>12, <1>13 DEF EvictRow, EvictRowFails, Pass
<1>14. ASSUME Crash PROVE TypeOK'
  <2>1. disturbed' \subseteq uploaded'
    BY <1>14 DEF Crash, KnownKeys
  <2> QED BY <1>14, <2>1 DEF Crash, NoPass
<1>15. ASSUME UNCHANGED vars PROVE TypeOK'
  BY <1>15 DEF vars
<1> QED
  BY <1>1, <1>2, <1>3, <1>4, <1>5, <1>6, <1>7, <1>8, <1>9, <1>10, <1>11, <1>12, <1>13, <1>14, <1>15
  DEF Next, Evict

(* Every step keeps track of where keys come from.                          *)
LEMMA KnownKeysStep == TypeOK /\ KnownKeys /\ [Next]_vars => KnownKeys'
<1> SUFFICES ASSUME TypeOK, KnownKeys, [Next]_vars PROVE KnownKeys'
  OBVIOUS
<1>w. worker \in [Worker -> {Idle} \cup Upload] /\ \A r \in Upload : r.key \in Key
  BY DEF TypeOK, Upload
<1>k. NoKey \notin Key BY DEF Key
<1>0. \A w \in Worker : worker[w] # Idle => worker[w] \in Upload /\ worker[w].key \in uploaded
  <2> SUFFICES ASSUME NEW w \in Worker, worker[w] # Idle PROVE worker[w] \in Upload /\ worker[w].key \in uploaded
    OBVIOUS
  <2>1. worker[w] \in {Idle} \cup Upload BY <1>w
  <2>2. worker[w].key \in uploaded BY DEF KnownKeys
  <2> QED BY <2>1, <2>2
<1> USE DEF KnownKeys, TypeOK
<1>1. ASSUME NEW w \in Worker, NEW k \in Key, Request(w, k) PROVE KnownKeys'
  <2>1. uploaded' = uploaded \cup {k} /\ UNCHANGED <<file, row, evict>> BY <1>1 DEF Request
  <2>2. IsFiniteSet(uploaded') BY <2>1, FS_AddElement
  <2>3. worker'[w].key = k /\ \A v \in Worker \ {w} : worker'[v] = worker[v]
    BY <1>w, <1>1 DEF Request
  <2> QED BY <2>1, <2>2, <2>3
<1>2. ASSUME NEW w \in Worker, OpenObject(w) PROVE KnownKeys'
  <2>1. worker[w] # Idle BY <1>2 DEF OpenObject, Idle
  <2>2. worker[w] \in Upload /\ worker[w].key \in uploaded BY <1>0, <2>1
  <2>3. \A v \in Worker \ {w} : worker'[v] = worker[v] BY <1>w, <1>2 DEF OpenObject
  <2>4. worker'[w].key = worker[w].key BY <1>w, <1>2, <2>2 DEF OpenObject, Upload
  <2> QED BY <1>2, <2>2, <2>3, <2>4 DEF OpenObject
<1>3. ASSUME NEW w \in Worker, PutObject(w) PROVE KnownKeys'
  <2>1. worker[w] # Idle BY <1>3 DEF PutObject, Idle
  <2>2. worker[w] \in Upload /\ worker[w].key \in uploaded BY <1>0, <2>1
  <2>3. \A v \in Worker \ {w} : worker'[v] = worker[v] BY <1>w, <1>3 DEF PutObject
  <2>4. worker'[w] = Idle \/ worker'[w].key = worker[w].key BY <1>w, <1>3, <2>2 DEF PutObject, Upload
  <2> QED BY <1>3, <2>2, <2>3, <2>4 DEF PutObject
<1>4. ASSUME NEW w \in Worker, PutFails(w) PROVE KnownKeys'
  BY <1>4 DEF PutFails, Idle
<1>5. ASSUME NEW w \in Worker, TrackObject(w) PROVE KnownKeys'
  <2>1. worker[w].key \in uploaded BY <1>0, <1>5 DEF TrackObject, Idle
  <2> QED BY <1>5, <2>1 DEF TrackObject
<1>6. ASSUME NEW w \in Worker, TrackFails(w) PROVE KnownKeys'
  BY <1>6 DEF TrackFails, Idle
<1>7. ASSUME NEW k \in CacheKey, Expire(k) PROVE KnownKeys'
  BY <1>7 DEF Expire
<1>8. ASSUME NEW k \in CacheKey, EvictObject(k) PROVE KnownKeys'
  <2>1. ASSUME NEW v \in Worker, worker'[v] # worker[v]
        PROVE  worker'[v].key = worker[v].key /\ worker[v].key \in uploaded
    <3>1. worker[v].key = k /\ worker'[v] = [worker[v] EXCEPT !.linked = FALSE]
      BY <1>8, <2>1 DEF EvictObject
    <3>2. worker[v] # Idle BY <1>k, <3>1 DEF Idle, Key
    <3>3. worker[v] \in Upload /\ worker[v].key \in uploaded BY <1>0, <3>2
    <3> QED BY <3>1, <3>3 DEF Upload
  <2>2. ASSUME NEW v \in Worker, worker'[v] # Idle PROVE worker'[v].key \in uploaded
    BY <1>0, <2>1, <2>2
  <2> QED BY <1>8, <2>2 DEF EvictObject
<1>9. ASSUME NEW k \in CacheKey, EvictObjectFails(k) PROVE KnownKeys'
  BY <1>9 DEF EvictObjectFails
<1>10. ASSUME NEW k \in CacheKey, EvictRow(k) PROVE KnownKeys'
  BY <1>10 DEF EvictRow, EntryDone, NoPass
<1>11. ASSUME NEW k \in CacheKey, EvictRowFails(k) PROVE KnownKeys'
  BY <1>11 DEF EvictRowFails, EntryDone, NoPass
<1>12. ASSUME EvictCount PROVE KnownKeys'
  BY <1>12 DEF EvictCount
<1>13. ASSUME EvictSelect PROVE KnownKeys'
  BY <1>13 DEF EvictSelect, Expired, NoPass
<1>14. ASSUME Crash PROVE KnownKeys'
  BY <1>14 DEF Crash, NoPass
<1>15. ASSUME UNCHANGED vars PROVE KnownKeys'
  BY <1>15 DEF vars
<1> QED
  BY <1>1, <1>2, <1>3, <1>4, <1>5, <1>6, <1>7, <1>8, <1>9, <1>10, <1>11, <1>12, <1>13, <1>14, <1>15
  DEF Next, Evict

(* Every step keeps the life of a key that nothing has disturbed.           *)
LEMMA LifeStep == CacheInv /\ [Next]_vars => Life'
<1> SUFFICES ASSUME TypeOK, KnownKeys, Life, [Next]_vars, NEW k \in Key \ disturbed'
             PROVE  (Uploading(k) /\ Stored(k) /\ Listed(k))'
  BY DEF CacheInv, Life, Key
<1> DEFINE Goal == (Uploading(k) /\ Stored(k) /\ Listed(k))'
<1>0. k # NoKey /\ \A w \in Worker : worker[w] \in {Idle} \cup Upload
  BY DEF Key, TypeOK, Upload
<1>u. \A w \in Worker : worker[w].key = k => worker[w] # Idle /\ worker[w].pc \in {"put", "write", "track"}
  BY <1>0 DEF Idle, Upload
<1> USE DEF Uploading, Stored, Listed
<1>1. ASSUME NEW w \in Worker, NEW j \in Key, Request(w, j) PROVE Goal
  BY <1>0, <1>u, <1>1 DEF Life, TypeOK, KnownKeys, Request, Idle
<1>2. ASSUME NEW w \in Worker, OpenObject(w) PROVE Goal
  BY <1>0, <1>u, <1>2 DEF Life, TypeOK, KnownKeys, OpenObject, Idle
<1>3. ASSUME NEW w \in Worker, PutObject(w) PROVE Goal
  BY <1>0, <1>u, <1>3 DEF Life, TypeOK, KnownKeys, PutObject, Idle
<1>4. ASSUME NEW w \in Worker, PutFails(w) PROVE Goal
  BY <1>0, <1>u, <1>4 DEF Life, TypeOK, KnownKeys, PutFails, Idle
<1>5. ASSUME NEW w \in Worker, TrackObject(w) PROVE Goal
  BY <1>0, <1>u, <1>5 DEF Life, TypeOK, KnownKeys, TrackObject, Idle
<1>6. ASSUME NEW w \in Worker, TrackFails(w) PROVE Goal
  BY <1>0, <1>u, <1>6 DEF Life, TypeOK, KnownKeys, TrackFails, Idle
<1>7. ASSUME NEW j \in CacheKey, Expire(j) PROVE Goal
  BY <1>0, <1>u, <1>7 DEF Life, TypeOK, KnownKeys, Expire
<1>8. ASSUME NEW j \in CacheKey, EvictObject(j) PROVE Goal
  BY <1>0, <1>u, <1>8 DEF Life, TypeOK, KnownKeys, EvictObject, Idle
<1>9. ASSUME NEW j \in CacheKey, EvictObjectFails(j) PROVE Goal
  BY <1>0, <1>u, <1>9 DEF Life, TypeOK, KnownKeys, EvictObjectFails
<1>10. ASSUME NEW j \in CacheKey, EvictRow(j) PROVE Goal
  BY <1>0, <1>u, <1>10 DEF Life, TypeOK, KnownKeys, EvictRow, EntryDone, NoPass
<1>11. ASSUME NEW j \in CacheKey, EvictRowFails(j) PROVE Goal
  BY <1>0, <1>u, <1>11 DEF Life, TypeOK, KnownKeys, EvictRowFails, EntryDone, NoPass
<1>12. ASSUME EvictCount PROVE Goal
  BY <1>0, <1>u, <1>12 DEF Life, TypeOK, KnownKeys, EvictCount
<1>13. ASSUME EvictSelect PROVE Goal
  BY <1>0, <1>u, <1>13 DEF Life, TypeOK, KnownKeys, EvictSelect, Expired, NoPass
<1>14. ASSUME Crash PROVE Goal
  BY <1>0, <1>u, <1>14 DEF Life, TypeOK, KnownKeys, Crash, NoPass, Idle
<1>15. ASSUME UNCHANGED vars PROVE Goal
  BY <1>0, <1>u, <1>15 DEF Life, TypeOK, KnownKeys, vars
<1> QED
  BY <1>1, <1>2, <1>3, <1>4, <1>5, <1>6, <1>7, <1>8, <1>9, <1>10, <1>11, <1>12, <1>13, <1>14, <1>15
  DEF Next, Evict

(* The inductive invariant holds throughout. *)
LEMMA CacheInvariant == Spec => []CacheInv
<1>1. CacheInv /\ [Next]_vars => CacheInv'
  BY CacheTypeStep, KnownKeysStep, LifeStep DEF CacheInv
<1> QED BY CacheInvInit, <1>1, PTL DEF Spec

-----------------------------------------------------------------------------
(* Whatever uploads, evictions, faults and crashes do, the files, rows,     *)
(* workers and the eviction pass keep their types: the pass of              *)
(* evict_expired_objects only ever lists keys of objects.                   *)
THEOREM CacheTypes == Spec => []TypeOK
<1>1. CacheInv => TypeOK BY DEF CacheInv
<1> QED BY CacheInvariant, <1>1, PTL

(* An object that was uploaded once and without a fault never stays in the  *)
(* store without a row that makes evict_expired_objects find it.            *)
THEOREM ObjectsAreTracked == Spec => []NoUntrackedObject
BY CacheInvariant, CacheInvSuffices, PTL

(* Readers of such an object are given all of it as long as its row is      *)
(* fresh, and never a part of it once its upload is over.                   *)
THEOREM FreshObjectsAreServed == Spec => []FreshIsServed
BY CacheInvariant, CacheInvSuffices, PTL

(* No step removes such a file, unless it is the evictor's and the row of   *)
(* the object says even then that it has expired.                           *)
THEOREM EvictionIsJustified == Spec => OnlyExpiredEvicted
<1> DEFINE Justified == \A k \in file \ (file' \cup disturbed) : k \in CacheKey /\ row[k] = "expired"
<1>1. CacheInv /\ [Next]_vars => [Justified]_vars
  <2> SUFFICES ASSUME CacheInv, Next PROVE Justified
    OBVIOUS
  <2>1. CASE \E j \in CacheKey : EvictObject(j)
    BY <2>1 DEF EvictObject, CacheInv, Life, Listed, Key
  <2>2. CASE ~\E j \in CacheKey : EvictObject(j)
    BY <2>2 DEF Next, Evict, Request, OpenObject, PutObject, PutFails, TrackObject, TrackFails, Expire,
       EvictObjectFails, EvictRow, EvictRowFails, EvictCount, EvictSelect, Crash
  <2> QED BY <2>1, <2>2
<1> QED BY CacheInvariant, <1>1, PTL DEF Spec, OnlyExpiredEvicted

HIDE CacheAssumption

-----------------------------------------------------------------------------
(* The rate limit. *)
USE RateAssumption

Bucket == [start : -1 .. MaxTime, count : Nat]

(* How many of the requests a bucket has counted were let through. *)
Through(b) == IF b.count <= Limit THEN b.count ELSE Limit

(* How far apart in passed two requests are at least Window seconds apart.  *)
Spread == (IF Delay = 0 THEN 2 ELSE 3) * Limit

(* The n requests before the current window: they came at most Delay after  *)
(* the window began, those before the last Limit of them a whole window     *)
(* earlier, and those before the last 2 * Limit two windows earlier.        *)
BeforeWindow(b, p, n) ==
  \A i \in 1 .. Len(p) :
    /\ i > n => p[i] >= b.start
    /\ i <= n => p[i] <= b.start + Delay
    /\ i <= n - Limit => p[i] <= b.start - Window + Delay
    /\ i <= n - 2 * Limit => p[i] <= b.start - 2 * Window + Delay

(* What a bucket b says of the requests p let through by the time t. *)
WindowInv(b, p, t) ==
  /\ b.count = 0 => b = NoBucket /\ p = <<>>
  /\ b.count > 0 => 0 <= b.start /\ b.start <= t
  /\ Through(b) <= Len(p)
  /\ \A i \in 1 .. Len(p) : p[i] <= t
  /\ BeforeWindow(b, p, Len(p) - Through(b))
  /\ \A i, j \in 1 .. Len(p) : j - i >= Spread => p[j] - p[i] >= Window

(* Counting a request keeps this, whichever of the three ways it goes: a    *)
(* new window, one more in the window, or a refusal.                        *)
LEMMA CountKeepsWindow ==
  ASSUME Limit > 0, NEW b \in Bucket, NEW p \in Seq(0 .. MaxTime),
         NEW t \in 0 .. MaxTime, NEW now \in 0 .. MaxTime, now <= t, t <= now + Delay,
         WindowInv(b, p, t)
  PROVE  /\ Count(b, now) \in Bucket
         /\ WindowInv(Count(b, now), IF Blocked(Count(b, now)) THEN p ELSE Append(p, t), t)
<1> DEFINE c == Count(b, now)
           q == Append(p, t)
           n == Len(p) - Through(b)
<1>i. /\ Limit \in Nat /\ Limit > 0 /\ Window \in Nat /\ Window > 0 /\ Delay \in Nat /\ Delay <= Window
      /\ now \in Nat /\ t \in Nat /\ Len(p) \in Nat /\ b.start \in Int /\ b.count \in Nat
  BY DEF Bucket
<1>0. /\ Limit \in Nat /\ Limit > 0 /\ Window \in Nat /\ Window > 0 /\ Delay \in Nat /\ Delay <= Window
      /\ now \in Nat /\ t \in Nat /\ Len(p) \in Nat /\ b.start \in Int /\ b.count \in Nat
      /\ \A i \in 1 .. Len(p) : p[i] \in Nat
      /\ Through(b) \in Nat /\ Through(b) <= Limit /\ Spread \in Nat
  <2>1. Through(b) \in Nat /\ Through(b) <= Limit BY <1>i DEF Through
  <2>2. Spread \in Nat BY <1>i DEF Spread
  <2>3. \A i \in 1 .. Len(p) : p[i] \in Nat OBVIOUS
  <2> QED BY <1>i, <2>1, <2>2, <2>3
<1>1. /\ q \in Seq(0 .. MaxTime) /\ Len(q) = Len(p) + 1 /\ q[Len(p) + 1] = t
      /\ \A i \in 1 .. Len(p) : q[i] = p[i]
  OBVIOUS
<1>w. /\ b.count = 0 => b = NoBucket /\ Len(p) = 0
      /\ b.count > 0 => 0 <= b.start /\ b.start <= t
      /\ Through(b) <= Len(p)
      /\ \A i \in 1 .. Len(p) : p[i] <= t
      /\ \A i \in 1 .. Len(p) :
           /\ i > n => p[i] >= b.start
           /\ i <= n => p[i] <= b.start + Delay
           /\ i <= n - Limit => p[i] <= b.start - Window + Delay
           /\ i <= n - 2 * Limit => p[i] <= b.start - 2 * Window + Delay
      /\ \A i, j \in 1 .. Len(p) : j - i >= Spread => p[j] - p[i] >= Window
  BY DEF WindowInv, BeforeWindow
<1>q. ASSUME NEW i \in 1 .. Len(q) PROVE q[i] <= t
  <2> HIDE DEF q, n
  <2>1. CASE i = Len(p) + 1 BY <1>i, <1>1, <2>1
  <2>2. CASE i # Len(p) + 1
    <3>1. i \in 1 .. Len(p) BY <1>i, <1>1, <2>2
    <3> QED BY <1>1, <1>w, <3>1
  <2> QED BY <2>1, <2>2
(* The spread: the new request is far from all but the last ones. *)
<1>s. ASSUME NEW start \in Nat, NEW m \in Nat, start <= t, m <= Len(p), m + Limit >= Len(p) + 1,
             \A i \in 1 .. Len(p) :
               /\ i <= m - Limit => p[i] <= start - Window + Delay
               /\ i <= m - 2 * Limit => p[i] <= start - 2 * Window + Delay
      PROVE  \A i, j \in 1 .. Len(q) : j - i >= Spread => q[j] - q[i] >= Window
  <2> SUFFICES ASSUME NEW i \in 1 .. Len(p) + 1, NEW j \in 1 .. Len(p) + 1, j - i >= Spread
               PROVE  q[j] - q[i] >= Window
    BY <1>1
  <2> HIDE DEF q, n
  <2>0. Spread = (IF Delay = 0 THEN 2 * Limit ELSE 3 * Limit) BY <1>0 DEF Spread
  <2>1. i <= Len(p) /\ i \in 1 .. Len(p) BY <1>0, <2>0
  <2>2. CASE j <= Len(p)
    <3>1. j \in 1 .. Len(p) BY <1>0, <2>2
    <3> QED BY <1>1, <1>w, <2>1, <3>1
  <2>3. CASE j = Len(p) + 1
    <3>1. q[j] = t /\ q[i] = p[i] /\ p[i] \in Nat BY <1>0, <1>1, <2>1, <2>3
    <3>2. CASE Delay = 0
      <4>1. i <= m - Limit BY <1>0, <1>s, <2>0, <2>3, <3>2
      <4>2. p[i] <= start - Window + Delay BY <1>s, <2>1, <4>1
      <4> QED BY ONLY <1>i, <1>s, <3>1, <3>2, <4>2
    <3>3. CASE Delay # 0
      <4>1. i <= m - 2 * Limit BY <1>0, <1>s, <2>0, <2>3, <3>3
      <4>2. p[i] <= start - 2 * Window + Delay BY <1>s, <2>1, <4>1
      <4> QED BY ONLY <1>i, <1>s, <3>1, <4>2
    <3> QED BY <3>2, <3>3
  <2>4. j <= Len(p) \/ j = Len(p) + 1 BY <1>i
  <2> QED BY <2>2, <2>3, <2>4
<1>2. CASE Renews(b, now)
  <2>1. c = [start |-> now, count |-> 1] BY <1>2 DEF Count
  <2>2. ~Blocked(c) /\ Through(c) = 1 BY <1>0, <2>1 DEF Blocked, Through
  <2>3. c \in Bucket BY <2>1 DEF Bucket
  <2>4. \A i \in 1 .. Len(p) :
          /\ p[i] <= now + Delay
          /\ i <= Len(p) - Limit => p[i] <= now - Window + Delay
          /\ i <= Len(p) - 2 * Limit => p[i] <= now - 2 * Window + Delay
    <3> SUFFICES ASSUME NEW i \in 1 .. Len(p)
                 PROVE  /\ p[i] <= now + Delay
                        /\ i <= Len(p) - Limit => p[i] <= now - Window + Delay
                        /\ i <= Len(p) - 2 * Limit => p[i] <= now - 2 * Window + Delay
      OBVIOUS
    <3>1. b # NoBucket /\ b.start + Window <= now
      <4>1. Len(p) # 0 BY <1>0
      <4>2. b.count # 0 BY <1>w, <4>1
      <4>3. b # NoBucket BY <4>2 DEF NoBucket
      <4>4. now - b.start >= Window BY <1>2, <4>3 DEF Renews
      <4> QED BY ONLY <1>i, <4>3, <4>4
    <3>2. /\ p[i] \in Nat /\ p[i] <= t
          /\ i <= n => p[i] <= b.start + Delay
          /\ i <= n - Limit => p[i] <= b.start - Window + Delay
      BY <1>0, <1>w
    <3>3. n \in Int /\ n >= Len(p) - Limit BY <1>0
    <3> HIDE DEF n
    <3>4. p[i] <= now + Delay BY <1>i, <3>2
    <3>5. i <= Len(p) - Limit => i <= n BY <1>i, <3>3
    <3>6. i <= Len(p) - 2 * Limit => i <= n - Limit BY <1>i, <3>3
    <3>7. b.start + Delay <= now - Window + Delay
          /\ b.start - Window + Delay <= now - 2 * Window + Delay
      BY ONLY <1>i, <3>1
    <3>8. \A x, y, z \in Int : x <= y /\ y <= z => x <= z OBVIOUS
    <3>9. /\ p[i] \in Int /\ b.start + Delay \in Int /\ b.start - Window + Delay \in Int
          /\ now - Window + Delay \in Int /\ now - 2 * Window + Delay \in Int
      BY ONLY <1>i, <3>2
    <3>10. ASSUME i <= Len(p) - Limit PROVE p[i] <= now - Window + Delay
      <4>1. p[i] <= b.start + Delay BY <3>2, <3>5, <3>10
      <4> QED BY ONLY <3>7, <3>9, <3>8, <4>1
    <3>11. ASSUME i <= Len(p) - 2 * Limit PROVE p[i] <= now - 2 * Window + Delay
      <4>1. p[i] <= b.start - Window + Delay BY <3>2, <3>6, <3>11
      <4> QED BY ONLY <3>7, <3>9, <3>8, <4>1
    <3> QED BY <3>4, <3>10, <3>11
  <2>5. \A i, j \in 1 .. Len(q) : j - i >= Spread => q[j] - q[i] >= Window
    <3>1. now \in Nat /\ Len(p) \in Nat /\ Len(p) + Limit >= Len(p) + 1 BY <1>0
    <3>2. now <= t /\ Len(p) <= Len(p) BY <3>1
    <3> HIDE DEF q, n
    <3> QED BY <1>s, <2>4, <3>1, <3>2
  <2>6. BeforeWindow(c, q, Len(q) - Through(c))
    <3>1. Len(q) - Through(c) = Len(p) /\ c.start = now BY <1>0, <1>1, <2>1, <2>2
    <3>2. ASSUME NEW i \in 1 .. Len(q)
          PROVE  /\ i > Len(p) => q[i] >= now
                 /\ i <= Len(p) => q[i] <= now + Delay
                 /\ i <= Len(p) - Limit => q[i] <= now - Window + Delay
                 /\ i <= Len(p) - 2 * Limit => q[i] <= now - 2 * Window + Delay
      <4> HIDE DEF q, n
      <4>1. CASE i <= Len(p)
        <5>1. i \in 1 .. Len(p) BY <1>0, <4>1
        <5>2. q[i] = p[i] BY <1>1, <5>1
        <5> QED BY <1>0, <2>4, <4>1, <5>1, <5>2
      <4>2. CASE i = Len(p) + 1 BY <1>0, <1>1, <4>2
      <4> QED BY <1>0, <1>1, <4>1, <4>2
    <3> HIDE DEF q, c
    <3> QED BY <3>1, <3>2 DEF BeforeWindow
  <2>7. \A i \in 1 .. Len(q) : q[i] <= t BY <1>q
  <2>8. c.count = 1 /\ c.start = now /\ Through(c) <= Len(q) BY <1>0, <1>1, <2>1, <2>2
  <2>9. WindowInv(c, q, t)
    <3> HIDE DEF q, c
    <3> QED BY <2>5, <2>6, <2>7, <2>8 DEF WindowInv
  <2> QED BY <2>2, <2>3, <2>9
<1>3. CASE ~Renews(b, now)
  <2>1. b # NoBucket /\ b.count > 0 /\ 0 <= b.start /\ b.start <= t
    BY <1>0, <1>3, <1>w DEF Renews
  <2>2. c = [b EXCEPT !.count = b.count + 1] BY <1>3 DEF Count
  <2>3. c \in Bucket /\ c.start = b.start /\ c.count = b.count + 1
    <3>1. b.count + 1 \in Nat BY ONLY <1>i
    <3> HIDE DEF c
    <3> QED BY ONLY b \in Bucket, <2>2, <3>1 DEF Bucket
  <2>4. CASE Blocked(c)
    <3>1. Through(c) = Limit /\ Through(b) = Limit
      BY <1>0, <2>3, <2>4 DEF Blocked, Through
    <3>2. BeforeWindow(c, p, Len(p) - Through(c))
      <4> HIDE DEF c
      <4> QED BY <1>w, <2>3, <3>1 DEF BeforeWindow
    <3>3. WindowInv(c, p, t)
      <4> HIDE DEF c
      <4> QED BY <1>0, <1>w, <2>1, <2>3, <3>1, <3>2 DEF WindowInv
    <3> QED BY <2>3, <2>4, <3>3
  <2>5. CASE ~Blocked(c)
    <3>1. Through(c) = Through(b) + 1 /\ Through(c) <= Limit
      BY <1>0, <2>3, <2>5 DEF Blocked, Through
    <3>2. n \in Nat /\ n <= Len(p) /\ Len(q) - Through(c) = n /\ n + Limit >= Len(p) + 1
      <4>1. Through(b) <= Len(p) BY <1>w
      <4>2. Len(q) = Len(p) + 1 BY <1>1
      <4> HIDE DEF q, c
      <4>3. Through(b) \in Nat BY <1>0
      <4> QED BY ONLY <1>i, <3>1, <4>1, <4>2, <4>3 DEF n
    <3>3. \A i, j \in 1 .. Len(q) : j - i >= Spread => q[j] - q[i] >= Window
      <4>1. b.start \in Nat BY <1>0, <2>1
      <4> HIDE DEF q, n
      <4> QED BY <1>s, <1>w, <2>1, <3>2, <4>1
    <3>4. BeforeWindow(c, q, n)
      <4>1. ASSUME NEW i \in 1 .. Len(q)
            PROVE  /\ i > n => q[i] >= b.start
                   /\ i <= n => q[i] <= b.start + Delay
                   /\ i <= n - Limit => q[i] <= b.start - Window + Delay
                   /\ i <= n - 2 * Limit => q[i] <= b.start - 2 * Window + Delay
        <5> HIDE DEF q, n
        <5>1. CASE i <= Len(p)
          <6>1. i \in 1 .. Len(p) BY <1>0, <5>1
          <6>2. q[i] = p[i] BY <1>1, <6>1
          <6> QED BY <1>w, <6>1, <6>2
        <5>2. CASE i = Len(p) + 1
          <6>1. q[i] = t BY <1>1, <5>2
          <6> QED BY ONLY <1>i, <2>1, <3>2, <5>2, <6>1
        <5> QED BY <1>0, <1>1, <5>1, <5>2
      <4> HIDE DEF q, c, n
      <4> QED BY <2>3, <4>1 DEF BeforeWindow
    <3>5. \A i \in 1 .. Len(q) : q[i] <= t BY <1>q
    <3>6. Through(c) <= Len(q) BY <1>0, <1>1, <1>w, <3>1
    <3>7. WindowInv(c, q, t)
      <4> HIDE DEF q, c, n
      <4> QED BY <1>0, <2>1, <2>3, <3>2, <3>3, <3>4, <3>5, <3>6 DEF WindowInv
    <3> QED BY <2>3, <2>5, <3>7
  <2> QED BY <2>4, <2>5
<1> QED BY <1>2, <1>3

(* Threads are at most Delay seconds behind, and every bucket is right.     *)
RateInv ==
  /\ RateTypeOK
  /\ \A u \in Thread : pending[u] # Quiet =>
       pending[u].now <= clock /\ clock <= pending[u].now + Delay
  /\ Limit > 0 => \A s \in Subject : WindowInv(bucket[s], passed[s], clock)

(* The type invariant and the rest of RateInv hold at the start.            *)
LEMMA RateInitially == RateInit => RateInv
<1> SUFFICES ASSUME RateInit PROVE RateInv OBVIOUS
<1>1. RateTypeOK BY DEF RateInit, RateTypeOK, NoBucket
<1>2. ASSUME Limit > 0, NEW s \in Subject PROVE WindowInv(bucket[s], passed[s], clock)
  <2>1. bucket[s] = NoBucket /\ passed[s] = <<>> BY DEF RateInit
  <2>2. NoBucket.count = 0 /\ Through(NoBucket) = 0 /\ Len(<<>>) = 0 BY <1>2 DEF NoBucket, Through
  <2> QED BY <2>1, <2>2 DEF WindowInv, BeforeWindow
<1> QED BY <1>1, <1>2 DEF RateInit, RateInv

(* Every step keeps it.                                                     *)
LEMMA RateStep == RateInv /\ [RateNext]_rateVars => RateInv'
<1> SUFFICES ASSUME RateInv, [RateNext]_rateVars PROVE RateInv' OBVIOUS
<1>t. /\ clock \in 0 .. MaxTime /\ calls \in 0 .. MaxCalls
      /\ bucket \in [Subject -> Bucket]
      /\ pending \in [Thread -> {Quiet} \cup [sub : Subject, now : 0 .. MaxTime]]
      /\ passed \in [Subject -> Seq(0 .. MaxTime)]
  BY DEF RateInv, RateTypeOK, Bucket
<1>n. MaxTime \in Nat /\ MaxCalls \in Nat /\ Delay \in Nat /\ Limit \in Nat OBVIOUS
<1>1. ASSUME NEW u \in Thread, NEW s \in Subject, ReadTime(u, s) PROVE RateInv'
  <2>1. pending' \in [Thread -> {Quiet} \cup [sub : Subject, now : 0 .. MaxTime]]
    BY <1>1, <1>t DEF ReadTime
  <2>2. calls' \in 0 .. MaxCalls BY <1>1, <1>t, <1>n DEF ReadTime
  <2>3. UNCHANGED <<clock, bucket, passed>> BY <1>1 DEF ReadTime
  <2>4. RateTypeOK' BY <1>t, <2>1, <2>2, <2>3 DEF RateTypeOK, Bucket
  <2>5. ASSUME NEW v \in Thread, pending'[v] # Quiet
        PROVE  pending'[v].now <= clock' /\ clock' <= pending'[v].now + Delay
    <3>1. CASE v = u
      <4>1. pending'[v].now = clock BY <1>1, <1>t, <3>1 DEF ReadTime
      <4> QED BY <1>t, <1>n, <2>3, <4>1
    <3>2. CASE v # u
      <4>1. pending'[v] = pending[v] BY <1>1, <1>t, <3>2 DEF ReadTime
      <4> QED BY <2>3, <2>5, <4>1 DEF RateInv
    <3> QED BY <3>1, <3>2
  <2>6. Limit > 0 => \A r \in Subject : WindowInv(bucket'[r], passed'[r], clock')
    BY <2>3 DEF RateInv
  <2> QED BY <2>4, <2>5, <2>6 DEF RateInv
<1>2. ASSUME NEW u \in Thread, Admit(u) PROVE RateInv'
  <2> DEFINE s == pending[u].sub
             now == pending[u].now
             b == IF Limit = 0 THEN NoBucket ELSE Count(bucket[s], now)
             p == IF Blocked(b) THEN passed[s] ELSE Append(passed[s], clock)
  <2>1. pending[u] # Quiet /\ s \in Subject /\ now \in 0 .. MaxTime BY <1>2, <1>t DEF Admit
  <2>2. now <= clock /\ clock <= now + Delay BY <2>1 DEF RateInv
  <2>3. bucket[s] \in Bucket /\ passed[s] \in Seq(0 .. MaxTime) BY <1>t, <2>1
  <2>4. UNCHANGED <<clock, calls>> /\ pending' = [pending EXCEPT ![u] = Quiet]
        /\ bucket' = [bucket EXCEPT ![s] = b]
        /\ passed' = [passed EXCEPT ![s] = p]
    <3>1. /\ UNCHANGED <<clock, calls>> /\ pending' = [pending EXCEPT ![u] = Quiet]
          /\ bucket' = [bucket EXCEPT ![s] = b]
          /\ passed' = IF Blocked(b) THEN passed ELSE [passed EXCEPT ![s] = Append(passed[s], clock)]
      BY <1>2 DEF Admit
    <3>2. passed = [passed EXCEPT ![s] = passed[s]] BY <1>t, <2>1
    <3> HIDE DEF s, b
    <3> QED BY <3>1, <3>2
  <2>5. p \in Seq(0 .. MaxTime)
    <3>1. Append(passed[s], clock) \in Seq(0 .. MaxTime) BY <1>t, <2>3
    <3> HIDE DEF s, b
    <3> QED BY <2>3, <3>1
  <2>6. b \in Bucket /\ (Limit > 0 => WindowInv(b, p, clock))
    <3>1. CASE Limit = 0 BY <1>n, <3>1 DEF Bucket, NoBucket
    <3>2. CASE Limit # 0
      <4>1. Limit > 0 /\ b = Count(bucket[s], now) BY <1>n, <3>2
      <4>2. WindowInv(bucket[s], passed[s], clock) BY <2>1, <4>1 DEF RateInv
      <4>3. /\ Count(bucket[s], now) \in Bucket
            /\ WindowInv(Count(bucket[s], now),
                         IF Blocked(Count(bucket[s], now)) THEN passed[s] ELSE Append(passed[s], clock),
                         clock)
        <5> HIDE DEF s, now, b, p
        <5> QED BY <1>t, <2>1, <2>2, <2>3, <4>1, <4>2, CountKeepsWindow
      <4> QED BY <4>1, <4>3
    <3> QED BY <3>1, <3>2
  <2> HIDE DEF s, now, b, p
  <2>7. RateTypeOK'
    <3>1. bucket' \in [Subject -> Bucket] BY <1>t, <2>1, <2>4, <2>6
    <3>2. passed' \in [Subject -> Seq(0 .. MaxTime)] BY <1>t, <2>1, <2>4, <2>5
    <3>3. pending' \in [Thread -> {Quiet} \cup [sub : Subject, now : 0 .. MaxTime]] BY <1>t, <2>4
    <3> QED BY <1>t, <2>4, <3>1, <3>2, <3>3 DEF RateTypeOK, Bucket
  <2>8. ASSUME NEW v \in Thread, pending'[v] # Quiet
        PROVE  pending'[v].now <= clock' /\ clock' <= pending'[v].now + Delay
    BY <1>t, <2>4, <2>8 DEF RateInv
  <2>9. ASSUME Limit > 0, NEW r \in Subject PROVE WindowInv(bucket'[r], passed'[r], clock')
    <3>1. CASE r = s
      <4>1. bucket'[r] = b /\ passed'[r] = p /\ clock' = clock BY <1>t, <2>1, <2>4, <3>1
      <4> QED BY <2>6, <2>9, <4>1
    <3>2. CASE r # s
      <4>1. bucket'[r] = bucket[r] /\ passed'[r] = passed[r] /\ clock' = clock BY <1>t, <2>4, <3>2
      <4> QED BY <2>9, <4>1 DEF RateInv
    <3> QED BY <3>1, <3>2
  <2> QED BY <2>7, <2>8, <2>9 DEF RateInv
<1>3. ASSUME Tick PROVE RateInv'
  <2>1. UNCHANGED <<bucket, pending, passed, calls>> /\ clock' = clock + 1 /\ clock' \in 0 .. MaxTime
    BY <1>3, <1>t, <1>n DEF Tick
  <2>2. RateTypeOK' BY <1>t, <2>1 DEF RateTypeOK, Bucket
  <2>3. ASSUME NEW v \in Thread, pending'[v] # Quiet
        PROVE  pending'[v].now <= clock' /\ clock' <= pending'[v].now + Delay
    <3>1. pending[v] # Quiet /\ pending'[v] = pending[v] BY <2>1, <2>3
    <3>2. pending[v].now \in Nat BY <1>t, <1>n, <3>1
    <3>3. pending[v].now <= clock /\ clock - pending[v].now < Delay BY <1>3, <3>1 DEF RateInv, Tick
    <3> QED BY <1>t, <1>n, <2>1, <3>1, <3>2, <3>3
  <2>4. ASSUME Limit > 0, NEW r \in Subject PROVE WindowInv(bucket'[r], passed'[r], clock')
    <3>1. WindowInv(bucket[r], passed[r], clock) BY <2>4 DEF RateInv
    <3>2. bucket'[r] = bucket[r] /\ passed'[r] = passed[r] /\ clock' = clock + 1 /\ clock \in Nat
      BY <1>t, <2>1
    <3>3. /\ bucket[r].start \in Int /\ bucket[r].count \in Nat
          /\ \A i \in 1 .. Len(passed[r]) : passed[r][i] \in Nat
      <4>1. bucket[r].start \in Int /\ bucket[r].count \in Nat BY <1>t DEF Bucket
      <4>2. passed[r] \in Seq(0 .. MaxTime) BY <1>t
      <4>3. \A i \in 1 .. Len(passed[r]) : passed[r][i] \in Nat BY <4>2
      <4> QED BY <4>1, <4>3
    <3>4. bucket[r].count > 0 => 0 <= bucket[r].start /\ bucket[r].start <= clock + 1
      BY <3>1, <3>2, <3>3 DEF WindowInv
    <3>5. \A i \in 1 .. Len(passed[r]) : passed[r][i] <= clock + 1
      BY <3>1, <3>2, <3>3 DEF WindowInv
    <3> QED BY <3>1, <3>2, <3>4, <3>5 DEF WindowInv
  <2> QED BY <2>2, <2>3, <2>4 DEF RateInv
<1>4. ASSUME UNCHANGED rateVars PROVE RateInv'
  BY <1>4 DEF RateInv, RateTypeOK, rateVars
<1> QED BY <1>1, <1>2, <1>3, <1>4 DEF RateNext

(* The buckets are right in every reachable state.                          *)
LEMMA RateCorrect == RateSpec => []RateInv
BY RateInitially, RateStep, PTL DEF RateSpec

(* Positions that are less than m apart are at most m.                      *)
LEMMA CloseTogether ==
  ASSUME NEW T \in SUBSET Nat, IsFiniteSet(T), NEW m \in Nat,
         \A i, j \in T : j - i < m
  PROVE  Cardinality(T) <= m
<1>1. CASE T = {}
  <2>1. Cardinality(T) = 0 BY <1>1, FS_EmptySet
  <2> QED BY <2>1
<1>2. CASE T # {}
  <2>1. PICK i \in T : \A j \in T : i <= j BY <1>2, FirstExists
  <2>2. i \in Int /\ i + m - 1 \in Int /\ m \in Nat OBVIOUS
  <2>3. T \subseteq i .. (i + m - 1)
    <3>1. ASSUME NEW j \in T PROVE j \in i .. (i + m - 1)
      <4>1. i <= j /\ j - i < m /\ j \in Nat BY <2>1
      <4> QED BY <2>2, <4>1
    <3> QED BY <3>1
  <2>4. /\ IsFiniteSet(i .. (i + m - 1))
        /\ Cardinality(i .. (i + m - 1)) = IF i > i + m - 1 THEN 0 ELSE (i + m - 1) - i + 1
    BY ONLY FS_Interval, <2>2
  <2>5. Cardinality(i .. (i + m - 1)) = m BY <2>2, <2>4
  <2>6. Cardinality(T) <= Cardinality(i .. (i + m - 1)) BY <2>3, <2>4, FS_Subset
  <2> QED BY <2>5, <2>6
<1> QED BY <1>1, <1>2

(* The positions of a sequence are finitely many, and so are some of them.  *)
LEMMA SomePositions ==
  ASSUME NEW A, NEW p \in Seq(A), NEW T \in SUBSET DOMAIN p
  PROVE  T \in SUBSET Nat /\ IsFiniteSet(T) /\ Cardinality(T) \in Nat
<1>1. DOMAIN p = 1 .. Len(p) /\ Len(p) \in Int /\ 1 \in Int OBVIOUS
<1>2. IsFiniteSet(1 .. Len(p)) BY ONLY FS_Interval, <1>1
<1>3. T \subseteq 1 .. Len(p) BY <1>1
<1>4. IsFiniteSet(T) BY <1>2, <1>3, FS_Subset
<1>5. Cardinality(T) \in Nat BY <1>4, FS_CardinalityType
<1> QED BY <1>1, <1>4, <1>5

(* However many threads check however many subjects, and however late each  *)
(* takes the mutex, no Window seconds see more than twice the limit let     *)
(* through, or three times when threads can be late.                        *)
THEOREM BurstsAreBounded == RateSpec => []BurstBound
<1>1. RateInv => BurstBound
  <2> SUFFICES ASSUME RateInv, Limit > 0, NEW s \in Subject, NEW x \in 0 .. MaxTime
               PROVE  PassedBetween(s, x, x + Window - 1) <= (IF Delay = 0 THEN 2 ELSE 3) * Limit
    BY DEF BurstBound
  <2> DEFINE p == passed[s]
             T == {i \in DOMAIN p : x <= p[i] /\ p[i] <= x + Window - 1}
  <2>0. p \in Seq(0 .. MaxTime) BY DEF RateInv, RateTypeOK
  <2>1. T \in SUBSET Nat /\ IsFiniteSet(T) BY <2>0, SomePositions
  <2>2. Spread \in Nat /\ Window \in Nat /\ x \in Nat BY DEF Spread
  <2>3. ASSUME NEW i \in T, NEW j \in T PROVE j - i < Spread
    <3>1. /\ i \in 1 .. Len(p) /\ j \in 1 .. Len(p) /\ i \in Nat /\ j \in Nat
          /\ p[i] \in Nat /\ p[j] \in Nat
          /\ x <= p[i] /\ p[j] <= x + Window - 1
      <4>1. i \in DOMAIN p /\ j \in DOMAIN p /\ x <= p[i] /\ p[j] <= x + Window - 1 OBVIOUS
      <4> HIDE DEF p, T
      <4>2. DOMAIN p = 1 .. Len(p) /\ Len(p) \in Nat BY <2>0
      <4>3. i \in 1 .. Len(p) /\ j \in 1 .. Len(p) BY <4>1, <4>2
      <4>4. p[i] \in 0 .. MaxTime /\ p[j] \in 0 .. MaxTime BY <2>0, <4>3
      <4> QED BY <4>1, <4>2, <4>3, <4>4
    <3>2. j - i >= Spread => p[j] - p[i] >= Window BY <3>1 DEF RateInv, WindowInv
    <3> HIDE DEF p
    <3> QED BY <2>2, <3>1, <3>2
  <2>4. Cardinality(T) <= Spread
    <3> HIDE DEF T
    <3> QED BY <2>1, <2>2, <2>3, CloseTogether
  <2> QED BY <2>4 DEF PassedBetween, Spread
<1> QED BY <1>1, RateCorrect, PTL

(* Nobody is refused who has not had Limit requests let through since the   *)
(* window began: the requests of others and late threads cost nothing.      *)
THEOREM RefusalsAreEarned == RateSpec => []RefusedOnlyOverLimit
<1>1. RateInv => RefusedOnlyOverLimit
  <2> SUFFICES ASSUME RateInv, Limit > 0, NEW s \in Subject, Blocked(bucket[s])
               PROVE  PassedBetween(s, bucket[s].start, clock) >= Limit
    BY DEF RefusedOnlyOverLimit
  <2> DEFINE p == passed[s]
             T == {i \in DOMAIN p : bucket[s].start <= p[i] /\ p[i] <= clock}
             lo == Len(p) - Limit + 1
  <2>0. p \in Seq(0 .. MaxTime) /\ Len(p) \in Nat /\ Limit \in Nat /\ bucket[s].count \in Nat
    BY DEF RateInv, RateTypeOK
  <2>1. IsFiniteSet(T) /\ Cardinality(T) \in Nat BY <2>0, SomePositions
  <2>2. Through(bucket[s]) = Limit BY <2>0 DEF Blocked, Through
  <2>3. WindowInv(bucket[s], p, clock) BY DEF RateInv
  <2>4. Limit <= Len(p) BY <2>2, <2>3 DEF WindowInv
  <2>5. lo \in Int /\ Len(p) \in Int /\ 1 <= lo /\ lo <= Len(p) BY <2>0, <2>4
  <2>6. lo .. Len(p) \subseteq T
    <3>1. ASSUME NEW i \in lo .. Len(p) PROVE i \in T
      <4>1. i \in 1 .. Len(p) /\ i > Len(p) - Limit BY <2>0, <2>5
      <4>2. p[i] >= bucket[s].start /\ p[i] <= clock
        BY <2>2, <2>3, <4>1 DEF WindowInv, BeforeWindow
      <4>3. p[i] \in Int /\ bucket[s].start \in Int
        <5>1. p[i] \in Int BY <2>0, <4>1
        <5>2. bucket[s].start \in Int BY DEF RateInv, RateTypeOK
        <5> QED BY <5>1, <5>2
      <4>4. bucket[s].start <= p[i] BY <4>2, <4>3
      <4> QED BY <2>0, <4>1, <4>2, <4>4
    <3> QED BY <3>1
  <2>7. /\ IsFiniteSet(lo .. Len(p))
        /\ Cardinality(lo .. Len(p)) = IF lo > Len(p) THEN 0 ELSE Len(p) - lo + 1
    <3> HIDE DEF lo, p
    <3> QED BY ONLY FS_Interval, <2>5
  <2>8. Cardinality(lo .. Len(p)) = Limit BY <2>0, <2>5, <2>7
  <2>9. Cardinality(lo .. Len(p)) <= Cardinality(T)
    <3> HIDE DEF T, lo
    <3> QED BY <2>1, <2>6, FS_Subset
  <2>10. Cardinality(T) >= Limit
    <3> HIDE DEF T
    <3> QED BY <2>0, <2>1, <2>8, <2>9
  <2> QED BY <2>10 DEF PassedBetween
<1> QED BY <1>1, RateCorrect, PTL

HIDE RateAssumption

-----------------------------------------------------------------------------
(* The key-value backend. *)

(* A stored row: its columns are the first ones of the table, in order.     *)
IsRow(r) ==
  /\ r \in StoredRow
  /\ \A i \in DOMAIN r : r[i][1] = Cols[i]

(* The values read back from row r of key k are those of the row q, but for *)
(* the columns in L.                                                        *)
Matches(k, r, q, L) ==
  /\ <<k, Cols[1]>> \in L \/ Decode(r, Cols[1]) = k
  /\ \A c \in Field : <<k, c>> \in L \/ Same(Decode(r, c), q[c])

(* The store has the rows of the table but for the strayed ones, with the   *)
(* same values where the backend went no other way.                         *)
KvInv ==
  /\ store \in [Pk -> StoredRow \cup {Null}]
  /\ table \in [Pk -> SqlRow \cup {Null}]
  /\ \A k \in Pk : store[k] # Null => IsRow(store[k]) /\ table[k] # Null
  /\ \A k \in Pk : k \notin strayed /\ table[k] # Null =>
       store[k] # Null /\ Matches(k, store[k], table[k], lost)
  /\ \/ status.kv = status.sql
     \/ status.kv \in {"notfound", "error"}
     \/ status.key \in strayed

(* Column names are distinct, and every column but the key's can be set.    *)
LEMMA ColumnFacts ==
  /\ Len(Cols) \in Nat /\ Len(Cols) > 1 /\ DOMAIN Cols = 1 .. Len(Cols)
  /\ \A i \in 1 .. Len(Cols) : Cols[i] \in Range(Cols)
  /\ \A i, j \in 1 .. Len(Cols) : Cols[i] = Cols[j] => i = j
  /\ \A i, j \in 1 .. Len(Cols) : i < j => <<Cols[j], Cols[i]>> \notin EndsWith
  /\ \A c : c \in Field <=> \E j \in 2 .. Len(Cols) : c = Cols[j]
<1>1. Len(Cols) \in Nat /\ Len(Cols) > 1 /\ DOMAIN Cols = 1 .. Len(Cols) /\ Cols \in Seq(Range(Cols))
  BY KvAssumption, LenProperties
<1>2. \A i \in 1 .. Len(Cols) : Cols[i] \in Range(Cols) BY <1>1, ElementOfSeq
<1>3. \A i, j \in 1 .. Len(Cols) : i < j => Cols[i] # Cols[j] /\ <<Cols[j], Cols[i]>> \notin EndsWith
  BY KvAssumption
<1>4. \A i, j \in 1 .. Len(Cols) : Cols[i] = Cols[j] => i = j
  <2> SUFFICES ASSUME NEW i \in 1 .. Len(Cols), NEW j \in 1 .. Len(Cols), i # j
               PROVE  Cols[i] # Cols[j]
    OBVIOUS
  <2>1. i < j \/ j < i BY <1>1
  <2> QED BY <1>3, <2>1
<1>5. /\ DOMAIN Tail(Cols) = 1 .. Len(Cols) - 1
      /\ \A i \in 1 .. Len(Cols) - 1 : Tail(Cols)[i] = Cols[i + 1]
  <2>1. Cols # <<>> BY <1>1
  <2> QED BY <1>1, <2>1
<1>6. ASSUME NEW c PROVE c \in Field <=> \E j \in 2 .. Len(Cols) : c = Cols[j]
  <2>1. c \in Field <=> \E i \in 1 .. Len(Cols) - 1 : c = Cols[i + 1] BY <1>5 DEF Field, Range
  <2>2. ASSUME NEW i \in 1 .. Len(Cols) - 1 PROVE i + 1 \in 2 .. Len(Cols) BY <1>1
  <2>3. ASSUME NEW j \in 2 .. Len(Cols) PROVE j - 1 \in 1 .. Len(Cols) - 1 /\ (j - 1) + 1 = j BY <1>1
  <2>4. ASSUME NEW j \in 2 .. Len(Cols), c = Cols[j] PROVE \E i \in 1 .. Len(Cols) - 1 : c = Cols[i + 1]
    <3> WITNESS j - 1 \in 1 .. Len(Cols) - 1 
    <3> QED BY <2>3, <2>4
  <2> QED BY <2>1, <2>2, <2>4
<1> QED BY <1>1, <1>2, <1>3, <1>4, <1>6

(* decode_row returns the value beside a column's name, or nothing.         *)
LEMMA DecodeFinds ==
  ASSUME NEW r, IsRow(r)
  PROVE  /\ \E n \in 1 .. Len(Cols) : r \in [1 .. n -> Range(Cols) \X (Pk \cup Val)]
         /\ \A i \in DOMAIN r : Decode(r, Cols[i]) = r[i][2]
         /\ \A j \in 1 .. Len(Cols) : j \notin DOMAIN r => Decode(r, Cols[j]) = Null
<1>1. PICK n \in 1 .. Len(Cols) : r \in [1 .. n -> Range(Cols) \X (Pk \cup Val)]
  BY DEF IsRow, StoredRow
<1>2. Len(Cols) \in Nat /\ n \in Nat /\ n >= 1 /\ DOMAIN r = 1 .. n
      /\ \A i \in 1 .. n : i \in 1 .. Len(Cols)
  BY <1>1, ColumnFacts
<1>3. \A i \in 1 .. n : r[i][1] = Cols[i] BY <1>2 DEF IsRow
<1>4. \A i, j \in 1 .. Len(Cols) : Cols[i] = Cols[j] => i = j BY ColumnFacts
<1>5. ASSUME NEW i \in DOMAIN r PROVE Decode(r, Cols[i]) = r[i][2]
  <2>1. i \in 1 .. n /\ r[i][1] = Cols[i] BY <1>2, <1>3
  <2>2. \A j \in DOMAIN r : r[j][1] = Cols[i] => j = i BY <1>2, <1>3, <1>4, <2>1
  <2>3. (CHOOSE j \in DOMAIN r : r[j][1] = Cols[i]) = i BY <1>2, <2>1, <2>2
  <2> QED BY <2>1, <2>3 DEF Decode
<1>6. ASSUME NEW j \in 1 .. Len(Cols), j \notin DOMAIN r PROVE Decode(r, Cols[j]) = Null
  <2>1. \A i \in DOMAIN r : r[i][1] # Cols[j] BY <1>2, <1>3, <1>4, <1>6
  <2> QED BY <2>1 DEF Decode
<1> QED BY <1>1, <1>5, <1>6

(* encode_row pairs the parameters with the columns, in the table's order.  *)
LEMMA EncodeFits ==
  ASSUME NEW k \in Pk, NEW n \in 0 .. Len(Cols) - 1, NEW pars \in [1 .. n -> SqlVal]
  PROVE  /\ IsRow(Encode(k, pars))
         /\ Decode(Encode(k, pars), Cols[1]) = k
         /\ \A j \in 2 .. Len(Cols) : Decode(Encode(k, pars), Cols[j])
                                       = IF j - 1 <= n THEN AsText(pars[j - 1]) ELSE Null
<1> DEFINE Pair == Range(Cols) \X (Pk \cup Val)
           head == <<<<Cols[1], k>>>>
           tail == [i \in 1 .. Len(pars) |-> <<Cols[i + 1], AsText(pars[i])>>]
           e == Encode(k, pars)
<1>1. /\ Len(Cols) \in Nat /\ Len(Cols) > 1 /\ n \in Nat /\ n + 1 \in 1 .. Len(Cols)
      /\ \A i \in 1 .. n : i + 1 \in 2 .. Len(Cols) /\ i + 1 \in 1 .. Len(Cols)
      /\ 1 \in 1 .. Len(Cols)
  BY ColumnFacts
<1>2. Len(pars) = n /\ \A i \in 1 .. n : AsText(pars[i]) \in Val
  <2>1. \A i \in 1 .. n : pars[i] \in SqlVal OBVIOUS
  <2> QED BY <1>1, <2>1, KvAssumption DEF AsText, SqlVal
<1>3. head \in Seq(Pair) /\ Len(head) = 1 /\ head[1] = <<Cols[1], k>>
  <2>1. <<Cols[1], k>> \in Pair BY <1>1, ColumnFacts
  <2> HIDE DEF Pair
  <2> QED BY <2>1
<1>4. tail \in Seq(Pair) /\ Len(tail) = n /\ \A i \in 1 .. n : tail[i] = <<Cols[i + 1], AsText(pars[i])>>
  <2>1. \A i \in 1 .. n : <<Cols[i + 1], AsText(pars[i])>> \in Pair BY <1>1, <1>2, ColumnFacts
  <2>2. tail = [i \in 1 .. n |-> <<Cols[i + 1], AsText(pars[i])>>] BY <1>2
  <2> HIDE DEF Pair, tail
  <2>3. tail \in [1 .. n -> Pair] BY <2>1, <2>2
  <2> QED BY <1>1, <2>2, <2>3
<1>5. e = head \o tail BY DEF Encode
<1> HIDE DEF Pair, head, tail, e
<1>6. /\ e \in Seq(Pair) /\ Len(e) = n + 1 /\ e[1] = <<Cols[1], k>>
      /\ \A i \in 1 .. n : e[i + 1] = <<Cols[i + 1], AsText(pars[i])>>
  <2>1. /\ e \in Seq(Pair) /\ Len(e) = 1 + n
        /\ \A i \in 1 .. 1 + n : e[i] = IF i <= 1 THEN head[i] ELSE tail[i - 1]
    <3>1. /\ head \o tail \in Seq(Pair)
          /\ Len(head \o tail) = Len(head) + Len(tail)
          /\ \A i \in 1 .. Len(head) + Len(tail) :
               (head \o tail)[i] = IF i <= Len(head) THEN head[i] ELSE tail[i - Len(head)]
      BY ONLY <1>3, <1>4, ConcatProperties
    <3> QED BY ONLY <1>3, <1>4, <1>5, <3>1
  <2>2. ASSUME NEW i \in 1 .. n PROVE e[i + 1] = <<Cols[i + 1], AsText(pars[i])>>
    <3>1. i + 1 \in 1 .. 1 + n /\ ~(i + 1 <= 1) /\ (i + 1) - 1 = i BY <1>1
    <3> QED BY <1>4, <2>1, <3>1
  <2>3. 1 \in 1 .. 1 + n BY <1>1
  <2> QED BY <1>1, <1>3, <2>1, <2>2, <2>3
<1>7. e \in [1 .. n + 1 -> Pair] /\ DOMAIN e = 1 .. n + 1 BY <1>6, LenProperties
<1>8. ASSUME NEW i \in 1 .. n + 1 PROVE e[i][1] = Cols[i]
  <2>1. CASE i = 1 BY <1>6, <2>1
  <2>2. CASE i # 1
    <3>1. i - 1 \in 1 .. n /\ (i - 1) + 1 = i BY <1>1, <2>2
    <3>2. e[i] = <<Cols[i], AsText(pars[i - 1])>> BY <1>6, <3>1
    <3> QED BY <3>2
  <2> QED BY <2>1, <2>2
<1>9. IsRow(e)
  <2>1. e \in StoredRow BY <1>1, <1>7 DEF StoredRow, Pair
  <2> QED BY <1>7, <1>8, <2>1 DEF IsRow
<1>10. Decode(e, Cols[1]) = k
  <2>1. 1 \in DOMAIN e BY <1>1, <1>7
  <2>2. e[1][2] = k BY <1>6
  <2> QED BY <1>9, <2>1, <2>2, DecodeFinds
<1>11. ASSUME NEW j \in 2 .. Len(Cols)
       PROVE  Decode(e, Cols[j]) = IF j - 1 <= n THEN AsText(pars[j - 1]) ELSE Null
  <2>1. j \in 1 .. Len(Cols) /\ j \in Nat BY <1>1
  <2>2. CASE j - 1 <= n
    <3>1. j - 1 \in 1 .. n /\ (j - 1) + 1 = j /\ j \in DOMAIN e BY <1>1, <1>7, <2>1, <2>2
    <3>2. e[j] = <<Cols[j], AsText(pars[j - 1])>> BY <1>6, <3>1
    <3>3. e[j][2] = AsText(pars[j - 1]) BY <3>2
    <3> QED BY <1>9, <2>2, <3>1, <3>3, DecodeFinds
  <2>3. CASE ~(j - 1 <= n)
    <3>1. j \notin DOMAIN e BY <1>1, <1>7, <2>1, <2>3
    <3> QED BY <1>9, <2>1, <2>3, <3>1, DecodeFinds
  <2> QED BY <2>2, <2>3
<1> QED BY <1>9, <1>10, <1>11 DEF e

(* An inserted row matches the table's, but for the columns a literal moves.*)
LEMMA InsertFits ==
  ASSUME NEW k \in Pk, NEW n \in 0 .. Len(Cols) - 1, NEW vals \in [1 .. n -> SqlVal],
         NEW lit \in 0 .. n
  PROVE  /\ IsRow(Encode(k, Params(vals, lit)))
         /\ Decode(Encode(k, Params(vals, lit)), Cols[1]) = k
         /\ [c \in Field |-> Column(vals, c)] \in SqlRow
         /\ \A c \in Field : \/ c \in Moved(lit)
                             \/ Same(Decode(Encode(k, Params(vals, lit)), c), Column(vals, c))
<1> DEFINE ps == Params(vals, lit)
           m == IF lit = 0 THEN n ELSE n - 1
           e == Encode(k, ps)
<1>1. Len(Cols) \in Nat /\ Len(Cols) > 1 /\ n \in Nat /\ lit \in Nat /\ n < Len(Cols)
  BY ColumnFacts
<1>2. Len(vals) = n /\ DOMAIN vals = 1 .. n BY <1>1
<1>3. m \in 0 .. Len(Cols) - 1 BY <1>1
<1>4. ps \in [1 .. m -> SqlVal] /\ \A i \in 1 .. m : lit = 0 \/ i < lit => ps[i] = vals[i]
  <2>1. CASE lit = 0 BY <2>1 DEF Params
  <2>2. CASE lit # 0
    <3>1. ps = [i \in 1 .. n - 1 |-> vals[IF i < lit THEN i ELSE i + 1]] BY <1>2, <2>2 DEF Params
    <3>2. \A i \in 1 .. n - 1 : (IF i < lit THEN i ELSE i + 1) \in 1 .. n BY <1>1
    <3>3. \A i \in 1 .. n - 1 : vals[IF i < lit THEN i ELSE i + 1] \in SqlVal BY <3>2
    <3> HIDE DEF ps
    <3> QED BY <2>2, <3>1, <3>3
  <2> QED BY <2>1, <2>2
<1> HIDE DEF ps, m
<1>5. /\ IsRow(e) /\ Decode(e, Cols[1]) = k
      /\ \A j \in 2 .. Len(Cols) : Decode(e, Cols[j]) = IF j - 1 <= m THEN AsText(ps[j - 1]) ELSE Null
  BY <1>3, <1>4, EncodeFits
<1> HIDE DEF e
<1>6. ASSUME NEW c \in Field
      PROVE  /\ Column(vals, c) \in SqlVal
             /\ c \in Moved(lit) \/ Same(Decode(e, c), Column(vals, c))
  <2>1. PICK j \in 2 .. Len(Cols) : c = Cols[j] BY ColumnFacts
  <2>2. j \in 1 .. Len(Cols) /\ j \in Nat /\ j >= 2 /\ j <= Len(Cols) BY <1>1
  <2>3. \A i \in DOMAIN vals : Cols[i + 1] = c => i = j - 1
    <3> SUFFICES ASSUME NEW i \in 1 .. n, Cols[i + 1] = c PROVE i = j - 1 BY <1>2
    <3>1. i + 1 \in 1 .. Len(Cols) BY <1>1
    <3>2. i + 1 = j BY <2>1, <2>2, <3>1, ColumnFacts
    <3> QED BY <2>2, <3>2
  <2>4. Column(vals, c) = IF j - 1 <= n THEN vals[j - 1] ELSE Null
    <3>1. CASE j - 1 <= n
      <4>1. j - 1 \in DOMAIN vals /\ Cols[(j - 1) + 1] = c BY <1>2, <2>1, <2>2, <3>1
      <4>2. (CHOOSE i \in DOMAIN vals : Cols[i + 1] = c) = j - 1 BY <2>3, <4>1
      <4> QED BY <3>1, <4>1, <4>2 DEF Column
    <3>2. CASE ~(j - 1 <= n)
      <4>1. \A i \in DOMAIN vals : Cols[i + 1] # c BY <1>1, <1>2, <2>2, <2>3, <3>2
      <4> QED BY <3>2, <4>1 DEF Column
    <3> QED BY <3>1, <3>2
  <2>5. Column(vals, c) \in SqlVal
    <3>1. CASE j - 1 <= n
      <4>1. j - 1 \in 1 .. n BY <1>1, <2>2, <3>1
      <4> QED BY <2>4, <3>1, <4>1
    <3>2. CASE ~(j - 1 <= n) BY <2>4, <3>2 DEF SqlVal
    <3> QED BY <3>1, <3>2
  <2>6. CASE lit # 0 /\ lit < j
    <3>1. j \in lit + 1 .. Len(Cols) BY <1>1, <2>2, <2>6
    <3>2. c \in Moved(lit) BY <2>1, <2>6, <3>1 DEF Moved
    <3> QED BY <2>5, <3>2
  <2>7. CASE lit = 0 \/ j <= lit
    <3>1. CASE j - 1 <= m
      <4>1. j - 1 \in 1 .. m /\ j - 1 <= n BY <1>1, <2>2, <2>7, <3>1 DEF m
      <4>2. ps[j - 1] = vals[j - 1] BY <1>1, <1>4, <2>2, <2>7, <4>1
      <4>3. Decode(e, c) = AsText(vals[j - 1]) BY <1>5, <2>1, <3>1, <4>2
      <4> QED BY <2>4, <2>5, <4>1, <4>3 DEF AsText, Same
    <3>2. CASE ~(j - 1 <= m)
      <4>1. Decode(e, c) = Null BY <1>5, <2>1, <3>2
      <4>2. ~(j - 1 <= n) BY <1>1, <2>2, <2>7, <3>2 DEF m
      <4> QED BY <2>4, <2>5, <4>1, <4>2 DEF Same
    <3> QED BY <3>1, <3>2
  <2> QED BY <1>1, <2>2, <2>6, <2>7
<1>7. [c \in Field |-> Column(vals, c)] \in SqlRow BY <1>6 DEF SqlRow
<1> QED BY <1>5, <1>6, <1>7 DEF e, ps

(* A set of numbers that is not empty has a least one.                      *)
LEMMA LeastExists ==
  ASSUME NEW T, T \subseteq Nat, T # {}
  PROVE  \E x \in T : \A y \in T : x <= y
<1> DEFINE R == OpToRel(<, Nat)
<1>1. IsWellFoundedOn(R, Nat) BY NatLessThanWellFounded, Zenon
<1>2. R = {ss \in Nat \X Nat : ss[1] < ss[2]} BY Zenon DEF OpToRel
<1> HIDE DEF R
<1>3. PICK x \in T : \A y \in T : ~(<<y, x>> \in R) BY <1>1, WFMin
<1>4. ASSUME NEW y \in T PROVE x <= y
  <2>1. x \in Nat /\ y \in Nat OBVIOUS
  <2>2. ~(y < x) BY <1>2, <1>3, <2>1
  <2> QED BY <2>1, <2>2
<1> QED BY <1>4

(* What an UPDATE does to the values read back.  The text search finds the  *)
(* column it is meant to, although the names of other columns end with the  *)
(* same letters, because the first match is the column itself, unless the   *)
(* value of an earlier column contains the name: it gets its value, if the  *)
(* row has it, and the others keep theirs.                                  *)
LEMMA AssignReadsBack ==
  ASSUME NEW r, IsRow(r), NEW c \in Field, NEW v \in Val
  PROVE  /\ IsRow(Assign(r, c, v))
         /\ \A d \in Range(Cols) : d # c /\ d \notin Earlier(r, c) =>
              Decode(Assign(r, c, v), d) = Decode(r, d)
         /\ Earlier(r, c) = {} /\ (\E i \in DOMAIN r : r[i][1] = c) => Decode(Assign(r, c, v), c) = v
         /\ \A d \in Earlier(r, c) : d \in Range(Cols)
<1>1. PICK j \in 2 .. Len(Cols) : c = Cols[j] BY ColumnFacts
<1>2. PICK n \in 1 .. Len(Cols) : r \in [1 .. n -> Range(Cols) \X (Pk \cup Val)] BY DecodeFinds
<1>3. Len(Cols) \in Nat /\ n \in Nat /\ n >= 1 /\ DOMAIN r = 1 .. n /\ j \in 1 .. Len(Cols)
      /\ \A i \in 1 .. n : i \in 1 .. Len(Cols)
  BY <1>2, ColumnFacts
<1>4. \A i \in 1 .. n : r[i][1] = Cols[i] BY <1>3 DEF IsRow
<1>5. /\ \A i \in 1 .. Len(Cols) : Cols[i] = Cols[j] => i = j
      /\ \A i \in 1 .. Len(Cols) : i < j => <<Cols[j], Cols[i]>> \notin EndsWith
  BY <1>3, ColumnFacts
<1> DEFINE a == Assign(r, c, v)
           hit == CHOOSE i \in Found(r, c) : \A h \in Found(r, c) : i <= h
<1>6. ASSUME NEW d \in Earlier(r, c) PROVE d \in Range(Cols)
  <2>1. PICK i \in DOMAIN r : d = r[i][1] BY DEF Earlier
  <2>2. d = Cols[i] /\ i \in 1 .. Len(Cols) BY <1>3, <1>4, <2>1
  <2> QED BY <2>2, ColumnFacts
<1>7. ASSUME NEW i \in Found(r, c), i < j
      PROVE  Cols[i] \in Earlier(r, c) /\ ~InName(r, i, c)
  <2>1. i \in 1 .. n /\ i \in 1 .. Len(Cols) BY <1>3 DEF Found
  <2>2. ~InName(r, i, c) BY <1>1, <1>3, <1>4, <1>5, <1>7, <2>1 DEF InName
  <2>3. <<r[i][2], c>> \in Inside BY <2>2 DEF Found
  <2>4. ASSUME NEW h \in 1 .. i PROVE r[h][1] # c
    <3>1. h \in 1 .. n /\ h < j BY <1>3, <1>7, <2>1
    <3> QED BY <1>1, <1>3, <1>4, <1>5, <3>1
  <2>5. i \in {x \in DOMAIN r : <<r[x][2], c>> \in Inside /\ \A h \in 1 .. x : r[h][1] # c}
    BY <1>3, <2>1, <2>3, <2>4
  <2>6. r[i][1] \in Earlier(r, c) BY <2>5 DEF Earlier
  <2> QED BY <1>4, <2>1, <2>2, <2>6
<1>8. j \in DOMAIN r => j \in Found(r, c) /\ InName(r, j, c)
  BY <1>1, <1>3, <1>4 DEF Found, InName
<1>9. CASE Found(r, c) = {}
  <2>1. Assign(r, c, v) = r BY <1>9 DEF Assign
  <2>2. \A i \in DOMAIN r : r[i][1] # c BY <1>9 DEF Found, InName
  <2> QED BY <1>6, <2>1, <2>2
<1>10. CASE Found(r, c) # {}
  <2>1. \A i \in Found(r, c) : i \in 1 .. n BY <1>3 DEF Found
  <2>2. hit \in Found(r, c) /\ \A h \in Found(r, c) : hit <= h
    <3>1. PICK x \in Found(r, c) : \A h \in Found(r, c) : x <= h
      <4>1. Found(r, c) \subseteq Nat BY <1>3, <2>1
      <4> QED BY <1>10, <4>1, LeastExists
    <3> QED BY <3>1
  <2> HIDE DEF hit
  <2>3. hit \in 1 .. n /\ hit \in 1 .. Len(Cols) BY <1>3, <2>1, <2>2
  <2>4. hit <= j
    <3>1. CASE j \in DOMAIN r BY <1>8, <2>2, <3>1
    <3>2. CASE j \notin DOMAIN r BY <1>3, <2>3, <3>2
    <3> QED BY <3>1, <3>2
  <2> DEFINE w == IF InName(r, hit, c) THEN v ELSE Spliced
             b == [r EXCEPT ![hit] = <<Cols[hit], w>>]
  <2>5. a = b
    <3>1. a = [r EXCEPT ![hit][2] = w] BY <1>10 DEF Assign, Replace, hit
    <3>2. r[hit] = <<Cols[hit], r[hit][2]>> BY <1>2, <1>4, <2>3
    <3>3. [r[hit] EXCEPT ![2] = w] = <<Cols[hit], w>> BY <3>2
    <3> HIDE DEF w
    <3> QED BY <3>1, <3>3
  <2>6. w \in Val BY KvAssumption
  <2> HIDE DEF w
  <2>7. <<Cols[hit], w>> \in Range(Cols) \X (Pk \cup Val) BY <2>3, <2>6, ColumnFacts
  <2>8. b \in [1 .. n -> Range(Cols) \X (Pk \cup Val)] BY <1>2, <2>7
  <2>9. DOMAIN b = 1 .. n /\ \A i \in 1 .. n : b[i] = IF i = hit THEN <<Cols[hit], w>> ELSE r[i]
    BY <1>2
  <2> HIDE DEF b
  <2>10. IsRow(b)
    <3>1. b \in StoredRow BY <1>2, <2>8 DEF StoredRow
    <3>2. \A i \in 1 .. n : b[i][1] = Cols[i] BY <1>4, <2>9
    <3> QED BY <2>9, <3>1, <3>2 DEF IsRow
  <2>11. ASSUME NEW d \in Range(Cols), d # c, d \notin Earlier(r, c) PROVE Decode(b, d) = Decode(r, d)
    <3>1. PICK i \in 1 .. Len(Cols) : d = Cols[i] BY ColumnFacts DEF Range
    <3>2. i # hit
      <4>1. CASE hit < j BY <1>7, <2>2, <2>11, <3>1, <4>1
      <4>2. CASE ~(hit < j)
        <5>1. hit = j BY <1>3, <2>3, <2>4, <4>2
        <5> QED BY <1>1, <2>11, <3>1, <5>1
      <4> QED BY <4>1, <4>2
    <3>3. CASE i \in 1 .. n
      <4>1. b[i] = r[i] BY <2>9, <3>2, <3>3
      <4> QED BY <1>3, <2>9, <2>10, <3>1, <3>3, <4>1, DecodeFinds
    <3>4. CASE i \notin 1 .. n BY <1>3, <2>9, <2>10, <3>1, <3>4, DecodeFinds
    <3> QED BY <3>3, <3>4
  <2>12. ASSUME Earlier(r, c) = {}, NEW i \in DOMAIN r, r[i][1] = c PROVE Decode(b, c) = v
    <3>1. i = j BY <1>1, <1>3, <1>4, <1>5, <2>12
    <3>2. j \in 1 .. n BY <1>3, <3>1
    <3>3. ~(hit < j) BY <1>7, <2>2, <2>12
    <3>4. hit = j BY <1>3, <2>3, <2>4, <3>3
    <3>5. b[j] = <<Cols[j], v>> BY <1>3, <1>8, <2>9, <3>2, <3>4 DEF w
    <3>6. b[j][2] = v BY <3>5
    <3> QED BY <1>1, <2>9, <2>10, <3>2, <3>6, DecodeFinds
  <2> QED BY <1>6, <2>5, <2>10, <2>11, <2>12
<1> QED BY <1>9, <1>10

(* The invariant is what the property needs.                                *)
LEMMA KvInvSuffices == KvInv => KvAgrees
<1> SUFFICES ASSUME KvInv PROVE KvAgrees OBVIOUS
<1>1. \A k \in Pk : QueryRows(TRUE, k) = IF store[k] = Null THEN {} ELSE {store[k]}
  BY DEF QueryRows
<1>2. ASSUME NEW k \in Pk
      PROVE  /\ QueryRows(TRUE, k) # {} => table[k] # Null
             /\ k \notin strayed =>
                  /\ table[k] # Null => QueryRows(TRUE, k) # {}
                  /\ \A r \in QueryRows(TRUE, k) : Matches(k, r, table[k], lost)
  BY <1>1 DEF KvInv
<1>3. \/ status.kv = status.sql
      \/ status.kv \in {"notfound", "error"}
      \/ status.key \in strayed
  BY DEF KvInv
<1> QED BY <1>2, <1>3 DEF KvAgrees, Matches

(* Every statement keeps the invariant.                                     *)
LEMMA KvStep == KvInv /\ [KvNext]_kvVars => KvInv'
<1> SUFFICES ASSUME KvInv, [KvNext]_kvVars PROVE KvInv' OBVIOUS
<1>t. store \in [Pk -> StoredRow \cup {Null}] /\ table \in [Pk -> SqlRow \cup {Null}]
  BY DEF KvInv
<1>v. /\ \A k \in Pk : store[k] # Null => IsRow(store[k]) /\ table[k] # Null
      /\ \A k \in Pk : k \notin strayed /\ table[k] # Null =>
           store[k] # Null /\ Matches(k, store[k], table[k], lost)
  BY DEF KvInv
<1>f. /\ \A r : (IsRow(r) => r # Null) /\ (r \in SqlRow => r # Null)
      /\ \A r : IsRow(r) => r \in StoredRow
  BY NullAssumption DEF IsRow
(* A statement that changes the row of k only. *)
<1>k. ASSUME NEW k \in Pk, NEW r, NEW q,
             r = Null \/ IsRow(r), q = Null \/ q \in SqlRow,
             store' = [store EXCEPT ![k] = r], table' = [table EXCEPT ![k] = q],
             \A x \in Pk, c \in Range(Cols) : x # k => (<<x, c>> \in lost' <=> <<x, c>> \in lost),
             \A x \in Pk : x # k => (x \in strayed' <=> x \in strayed),
             r # Null => q # Null,
             k \notin strayed' /\ q # Null => r # Null /\ Matches(k, r, q, lost'),
             \/ status'.kv = status'.sql
             \/ status'.kv \in {"notfound", "error"}
             \/ status'.key \in strayed'
      PROVE  KvInv'
  <2>1. r \in StoredRow \cup {Null} /\ q \in SqlRow \cup {Null} BY <1>f, <1>k
  <2>2. /\ store' \in [Pk -> StoredRow \cup {Null}] /\ table' \in [Pk -> SqlRow \cup {Null}]
        /\ \A x \in Pk : x # k => store'[x] = store[x] /\ table'[x] = table[x]
        /\ store'[k] = r /\ table'[k] = q
    BY <1>k, <1>t, <2>1
  <2>3. ASSUME NEW x \in Pk
        PROVE  /\ store'[x] # Null => IsRow(store'[x]) /\ table'[x] # Null
               /\ x \notin strayed' /\ table'[x] # Null =>
                    store'[x] # Null /\ Matches(x, store'[x], table'[x], lost')
    <3>1. CASE x = k BY <1>k, <2>2, <3>1
    <3>2. CASE x # k
      <4>1. store'[x] = store[x] /\ table'[x] = table[x] /\ (x \in strayed' <=> x \in strayed)
        BY <1>k, <2>2, <3>2
      <4>2. ASSUME Matches(x, store[x], table[x], lost)
            PROVE  Matches(x, store[x], table[x], lost')
        <5>1. Cols[1] \in Range(Cols) /\ \A c \in Field : c \in Range(Cols)
          <6>1. 1 \in 1 .. Len(Cols) /\ \A j \in 2 .. Len(Cols) : j \in 1 .. Len(Cols) BY ColumnFacts
          <6> QED BY <6>1, ColumnFacts
        <5> QED BY <1>k, <3>2, <4>2, <5>1 DEF Matches
      <4> QED BY <1>v, <4>1, <4>2
    <3> QED BY <3>1, <3>2
  <2> QED BY <1>k, <2>2, <2>3 DEF KvInv
<1>1. ASSUME NEW mode \in {"plain", "ignore", "replace"}, NEW k \in Pk, NEW n \in 0 .. Len(Cols) - 1,
             NEW vals \in [1 .. n -> SqlVal], NEW lit \in 0 .. n, Insert(mode, k, vals, lit)
      PROVE  KvInv'
  <2> DEFINE e == Encode(k, Params(vals, lit))
             f == [c \in Field |-> Column(vals, c)]
             kvIn == store[k] = Null \/ mode = "replace"
             sqlIn == table[k] = Null \/ mode = "replace"
  <2>1. /\ IsRow(e) /\ Decode(e, Cols[1]) = k /\ f \in SqlRow
        /\ \A c \in Field : c \in Moved(lit) \/ Same(Decode(e, c), f[c])
    BY InsertFits
  <2>2. /\ status'.kv = IF kvIn \/ mode = "ignore" THEN "ok" ELSE "constraint"
        /\ status'.sql = IF sqlIn \/ mode = "ignore" THEN "ok" ELSE "constraint"
        /\ status'.key = k
    BY <1>1 DEF Insert, Statement
  <2>3. store' = IF kvIn THEN [store EXCEPT ![k] = e] ELSE store BY <1>1 DEF Insert
  <2>4. \/ /\ sqlIn
           /\ table' = [table EXCEPT ![k] = f]
           /\ lost' = Others(k) \cup {<<k, c>> : c \in Moved(lit)}
           /\ strayed' = strayed \ {k}
        \/ ~sqlIn /\ UNCHANGED <<table, lost, strayed>>
    BY <1>1 DEF Insert
  <2> HIDE DEF e, f
  <2>5. sqlIn => kvIn BY <1>v
  <2>6. CASE sqlIn
    <3>1. /\ table' = [table EXCEPT ![k] = f] /\ store' = [store EXCEPT ![k] = e]
          /\ lost' = Others(k) \cup {<<k, c>> : c \in Moved(lit)}
          /\ strayed' = strayed \ {k}
      BY <2>3, <2>4, <2>5, <2>6
    <3>2. \A x, c : x # k => (<<x, c>> \in lost' <=> <<x, c>> \in lost) BY <3>1 DEF Others
    <3>3. \A c \in Moved(lit) : <<k, c>> \in lost' BY <3>1
    <3>4. Matches(k, e, f, lost') BY <2>1, <3>3 DEF Matches
    <3>5. status'.kv = status'.sql BY <2>2, <2>5, <2>6
    <3>6. \A x \in Pk : x # k => (x \in strayed' <=> x \in strayed) BY <3>1
    <3>7. e # Null /\ f # Null BY <1>f, <2>1
    <3> HIDE DEF sqlIn, kvIn
    <3> QED BY <1>k, <2>1, <3>1, <3>2, <3>4, <3>5, <3>6, <3>7
  <2>7. CASE ~sqlIn
    <3>1. UNCHANGED <<table, lost, strayed>> /\ table[k] # Null BY <2>4, <2>7
    <3>2. CASE kvIn
      <4>1. k \in strayed BY <1>v, <2>7, <3>1, <3>2
      <4>2. table' = [table EXCEPT ![k] = table[k]] /\ table[k] \in SqlRow BY <1>t, <3>1
      <4>3. store' = [store EXCEPT ![k] = e] BY <2>3, <3>2
      <4>4. status'.key \in strayed' BY <2>2, <3>1, <4>1
      <4> HIDE DEF sqlIn, kvIn
      <4> QED BY <1>k, <2>1, <3>1, <4>1, <4>2, <4>3, <4>4
    <3>3. CASE ~kvIn
      <4>1. UNCHANGED store /\ status'.kv = status'.sql BY <2>2, <2>3, <2>7, <3>3
      <4> QED BY <3>1, <4>1 DEF KvInv
    <3> QED BY <3>2, <3>3
  <2> QED BY <2>6, <2>7
<1>2. ASSUME NEW k \in Pk, NEW cond \in Conditions, Delete(k, cond) PROVE KvInv'
  <2>1. store' = [store EXCEPT ![k] = Null] /\ status'.kv = status'.sql
    BY <1>2 DEF Delete, Statement
  <2>2. CASE table' = [table EXCEPT ![k] = Null] /\ lost' = Others(k) /\ strayed' = strayed \ {k}
    <3>1. \A x, c : x # k => (<<x, c>> \in lost' <=> <<x, c>> \in lost) BY <2>2 DEF Others
    <3>2. \A x \in Pk : x # k => (x \in strayed' <=> x \in strayed) BY <2>2
    <3> QED BY <1>k, <2>1, <2>2, <3>1, <3>2
  <2>3. CASE table[k] # Null /\ strayed' = strayed \cup {k} /\ UNCHANGED <<table, lost>>
    <3>1. table' = [table EXCEPT ![k] = table[k]] /\ table[k] \in SqlRow BY <1>t, <2>3
    <3>2. \A x \in Pk : x # k => (x \in strayed' <=> x \in strayed) BY <2>3
    <3>3. k \in strayed' /\ lost' = lost BY <2>3
    <3> QED BY <1>k, <2>1, <3>1, <3>2, <3>3
  <2> QED BY <1>2, <2>2, <2>3 DEF Delete
<1>3. ASSUME Clear PROVE KvInv'
  <2>1. store' = [k \in Pk |-> Null] /\ table' = [k \in Pk |-> Null] BY <1>3 DEF Clear
  <2>2. status'.kv = status'.sql BY <1>3 DEF Clear, Statement
  <2> QED BY <2>1, <2>2 DEF KvInv
<1>4. ASSUME NEW k \in Pk, NEW a \in Assignment, NEW b \in Assignment, NEW cond \in Conditions,
             a.col = b.col => a = b, Update(k, a, b, cond)
      PROVE  KvInv'
  <2> DEFINE sqlDoes == Holds(k, cond)
             kvDoes == store[k] # Null /\ ~(a.lit /\ b.lit)
             hits == IF kvDoes THEN Earlier(store[k], a.col) ELSE {}
             right == /\ sqlDoes /\ kvDoes /\ ~a.lit /\ hits = {}
                      /\ \E i \in DOMAIN store[k] : store[k][i][1] = a.col
             touched == (IF sqlDoes THEN {a.col, b.col} ELSE {}) \cup (IF kvDoes THEN {a.col} ELSE {})
             v == AsText(IF a.lit THEN b.val ELSE a.val)
             r == IF kvDoes THEN Assign(store[k], a.col, v) ELSE store[k]
             q == IF sqlDoes THEN [table[k] EXCEPT ![a.col] = a.val, ![b.col] = b.val] ELSE table[k]
  <2>1. /\ store' = [store EXCEPT ![k] = r] /\ table' = [table EXCEPT ![k] = q]
        /\ lost' = (lost \cup {<<k, c>> : c \in touched \cup hits})
                   \ (IF right THEN {<<k, a.col>>} ELSE {})
        /\ strayed' = strayed
    <3>1. /\ store' = IF kvDoes THEN [store EXCEPT ![k] = Assign(store[k], a.col, v)] ELSE store
          /\ table' = IF sqlDoes THEN [table EXCEPT ![k] = [table[k] EXCEPT ![a.col] = a.val, ![b.col] = b.val]]
                       ELSE table
          /\ lost' = (lost \cup {<<k, c>> : c \in touched \cup hits})
                     \ (IF right THEN {<<k, a.col>>} ELSE {})
          /\ strayed' = strayed
      BY <1>4 DEF Update, KvUpdate
    <3>2. store = [store EXCEPT ![k] = store[k]] /\ table = [table EXCEPT ![k] = table[k]] BY <1>t
    <3> HIDE DEF kvDoes, sqlDoes, right, touched, hits, v
    <3> QED BY <3>1, <3>2
  <2>2. /\ status'.kv = IF a.lit /\ b.lit THEN "error" ELSE IF kvDoes THEN "ok" ELSE "notfound"
        /\ status'.sql = "ok"
    BY <1>4 DEF Update, Statement
  <2>3. \/ status'.kv = status'.sql
        \/ status'.kv \in {"notfound", "error"}
    BY <2>2
  <2>4. a.col \in Field /\ b.col \in Field /\ a.val \in SqlVal /\ b.val \in SqlVal /\ v \in Val
    <3>1. a.col \in Field /\ b.col \in Field /\ a.val \in SqlVal /\ b.val \in SqlVal
      BY DEF Assignment
    <3>2. \A w \in SqlVal : AsText(w) \in Val BY KvAssumption DEF AsText, SqlVal
    <3> QED BY <3>1, <3>2
  <2>5. sqlDoes => table[k] # Null BY DEF Holds
  <2>6. kvDoes => /\ IsRow(r)
                  /\ \A d \in Range(Cols) : d # a.col /\ d \notin hits => Decode(r, d) = Decode(store[k], d)
                  /\ hits = {} /\ (\E i \in DOMAIN store[k] : store[k][i][1] = a.col) => Decode(r, a.col) = v
    <3> HIDE DEF v
    <3>1. CASE kvDoes
      <4>1. IsRow(store[k]) BY <1>v, <3>1
      <4>2. r = Assign(store[k], a.col, v) /\ hits = Earlier(store[k], a.col) BY <3>1
      <4>3. /\ IsRow(Assign(store[k], a.col, v))
            /\ \A d \in Range(Cols) : d # a.col /\ d \notin Earlier(store[k], a.col) =>
                 Decode(Assign(store[k], a.col, v), d) = Decode(store[k], d)
            /\ Earlier(store[k], a.col) = {} /\ (\E i \in DOMAIN store[k] : store[k][i][1] = a.col) =>
                 Decode(Assign(store[k], a.col, v), a.col) = v
        BY <2>4, <4>1, AssignReadsBack
      <4> HIDE DEF r, hits
      <4> QED BY <4>2, <4>3
    <3> QED BY <3>1
  <2>7. r = Null \/ IsRow(r)
    <3>1. CASE kvDoes BY <2>6, <3>1
    <3>2. CASE ~kvDoes BY <1>v, <3>2
    <3> QED BY <3>1, <3>2
  <2>8. sqlDoes => /\ q \in SqlRow /\ q[a.col] = a.val
                   /\ \A d \in Field : d # a.col /\ d # b.col => q[d] = table[k][d]
    <3>1. table[k] = Null \/ table[k] \in SqlRow BY <1>t
    <3>2. a.col = b.col => a.val = b.val BY <1>4
    <3> HIDE DEF sqlDoes
    <3> QED BY <2>4, <2>5, <3>1, <3>2 DEF SqlRow
  <2>9. q = Null \/ q \in SqlRow
    <3>1. CASE sqlDoes BY <2>8, <3>1
    <3>2. CASE ~sqlDoes BY <1>t, <3>2
    <3> QED BY <3>1, <3>2
  <2>10. /\ r # Null => store[k] # Null
         /\ store[k] # Null => r # Null
         /\ q # Null => table[k] # Null
         /\ table[k] # Null => q # Null
    <3>1. kvDoes => store[k] # Null /\ r # Null BY <1>f, <2>6
    <3>2. sqlDoes => table[k] # Null /\ q # Null BY <1>f, <2>5, <2>8
    <3>3. (~kvDoes => r = store[k]) /\ (~sqlDoes => q = table[k]) OBVIOUS
    <3> HIDE DEF r, q, kvDoes, sqlDoes
    <3> QED BY <3>1, <3>2, <3>3
  <2>11. /\ \A x, c : x # k => (<<x, c>> \in lost' <=> <<x, c>> \in lost)
         /\ \A c : c \in touched \cup hits => <<k, c>> \in lost' \/ (right /\ c = a.col)
         /\ \A c : <<k, c>> \in lost => <<k, c>> \in lost' \/ (right /\ c = a.col)
    <3> HIDE DEF right, touched, hits, r, q
    <3> QED BY <2>1
  <2>12. ASSUME k \notin strayed, table[k] # Null PROVE Matches(k, r, q, lost')
    <3>1. store[k] # Null /\ Matches(k, store[k], table[k], lost) BY <1>v, <2>12
    <3>2. Cols[1] \in Range(Cols) /\ Cols[1] # a.col /\ \A c \in Field : c \in Range(Cols)
      <4>1. 1 \in 1 .. Len(Cols) /\ \A j \in 2 .. Len(Cols) : j \in 1 .. Len(Cols) /\ j # 1 BY ColumnFacts
      <4> QED BY <2>4, <4>1, ColumnFacts
    <3>3. \A d \in Range(Cols) : d # a.col /\ <<k, d>> \notin lost' =>
            Decode(r, d) = Decode(store[k], d) /\ <<k, d>> \notin lost
      <4>1. CASE kvDoes
        <5> HIDE DEF r, hits, touched, right, kvDoes
        <5> QED BY <2>6, <2>11, <4>1
      <4>2. CASE ~kvDoes
        <5>1. r = store[k] BY <4>2
        <5> HIDE DEF r, hits, touched, right, kvDoes
        <5> QED BY <2>11, <5>1
      <4> QED BY <4>1, <4>2
    <3>4. ASSUME NEW c \in Field, <<k, c>> \notin lost' PROVE Same(Decode(r, c), q[c])
      <4>1. CASE c # a.col
        <5>1. Decode(r, c) = Decode(store[k], c) /\ <<k, c>> \notin lost BY <3>2, <3>3, <3>4, <4>1
        <5>2. q[c] = table[k][c]
          <6>1. CASE sqlDoes
            <7>1. c # b.col
              <8>1. b.col \in touched BY <6>1
              <8> QED BY <2>11, <3>4, <4>1, <8>1
            <7> QED BY <2>8, <4>1, <6>1, <7>1
          <6>2. CASE ~sqlDoes BY <6>2
          <6> QED BY <6>1, <6>2
        <5> HIDE DEF r, q
        <5> QED BY <3>1, <5>1, <5>2 DEF Matches
      <4>2. CASE c = a.col /\ right
        <5>1. Decode(r, c) = v /\ q[c] = a.val
          <6>1. kvDoes /\ sqlDoes /\ hits = {} /\ \E i \in DOMAIN store[k] : store[k][i][1] = a.col BY <4>2
          <6> HIDE DEF r, q, hits, v, kvDoes, sqlDoes
          <6> QED BY <2>6, <2>8, <4>2, <6>1
        <5>2. v = AsText(a.val) BY <4>2
        <5> HIDE DEF r, q, v
        <5> QED BY <5>1, <5>2 DEF AsText, Same
      <4>3. CASE c = a.col /\ ~right
        <5>1. ~sqlDoes /\ ~kvDoes
          <6>1. sqlDoes \/ kvDoes => a.col \in touched OBVIOUS
          <6> HIDE DEF sqlDoes, kvDoes, touched, hits, right, r, q
          <6> QED BY <2>11, <3>4, <4>3, <6>1
        <5>2. r = store[k] /\ q = table[k] BY <5>1
        <5>3. <<k, c>> \notin lost
          <6> HIDE DEF sqlDoes, kvDoes, touched, hits, right, r, q
          <6> QED BY <2>11, <3>4, <4>3
        <5> HIDE DEF r, q
        <5> QED BY <3>1, <5>2, <5>3 DEF Matches
      <4> QED BY <4>1, <4>2, <4>3
    <3>5. <<k, Cols[1]>> \in lost' \/ Decode(r, Cols[1]) = k
      <4> HIDE DEF r, q
      <4> QED BY <3>1, <3>2, <3>3 DEF Matches
    <3> HIDE DEF r, q
    <3> QED BY <3>4, <3>5 DEF Matches
  <2>13. (r # Null => q # Null) /\ (k \notin strayed' /\ q # Null => r # Null /\ Matches(k, r, q, lost'))
    <3> HIDE DEF r, q
    <3> QED BY <1>v, <2>1, <2>10, <2>12
  <2> HIDE DEF r, q
  <2> QED BY <1>k, <2>1, <2>3, <2>7, <2>9, <2>11, <2>13
<1>5. ASSUME UNCHANGED kvVars PROVE KvInv' BY <1>5 DEF KvInv, kvVars, Matches
<1> QED BY <1>1, <1>2, <1>3, <1>4, <1>5 DEF KvNext

(* Whatever statements the handlers send, the store has no row SQL would    *)
(* not have, it has every row but those a DELETE took against its           *)
(* condition, and every value read back is SQL's unless an INSERT or an     *)
(* UPDATE lost it in one of the known ways.                                 *)
THEOREM KvStoreAgrees == AskSpec => []KvAgrees
<1>1. AskInit => KvInv
  <2> SUFFICES ASSUME KvInit PROVE KvInv BY DEF AskInit
  <2>1. store = [k \in Pk |-> Null] /\ table = [k \in Pk |-> Null] /\ status.kv = status.sql
    BY DEF KvInit
  <2> QED BY <2>1 DEF KvInv
<1>2. KvInv /\ [AskNext]_askVars => KvInv'
  <2>1. [AskNext]_askVars => [KvNext]_kvVars
    BY DEF AskNext, AskOrder, AskRange, AskGrant, RunStatement, askVars, kvVars
  <2> QED BY <2>1, KvStep
<1> QED BY <1>1, <1>2, KvInvSuffices, PTL DEF AskSpec
=============================================================================
