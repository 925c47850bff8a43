------------------------- MODULE KBucketsTableProofs -------------------------
(***************************************************************************)
(* Proofs about KBucketsTable.tla, for a key space of any number of bits,  *)
(* any local key, any set of keys and any capacity of the buckets.         *)
(***************************************************************************)
EXTENDS KBucketsTable, Integers, FiniteSetTheorems, TLAPS

\* SMT has 30 seconds for each step; the steps it is not suited for name Zenon.
USE SMTT(30)

-----------------------------------------------------------------------------
(* The XOR metric. *)

LEMMA LeastNatural ==
  ASSUME NEW S \in SUBSET Nat, S # {}
  PROVE  \E i \in S : \A j \in S : i <= j
<1>1. PICK i \in S : \A j \in S : ~(<<j, i>> \in OpToRel(<, Nat))
  BY NatLessThanWellFounded, WFMin, Zenon
<1>2. \A j \in S : ~(j < i)
  BY <1>1, Zenon DEF OpToRel
<1> QED BY <1>2

\* A distance other than 0 has a most significant bit.
LEMMA HighestBit ==
  ASSUME NEW x \in KeyBytes, x # {}
  PROVE  \E i \in Bit : IsBucketIndex(x, i)
<1> USE NumBucketsAssumption
<1> DEFINE S == {NUM_BUCKETS - 1 - i : i \in x}
<1>1. x \subseteq Bit
  BY DEF KeyBytes
<1>2. S \in SUBSET Nat /\ S # {}
  <2>1. \A i \in x : NUM_BUCKETS - 1 - i \in Nat
    BY <1>1 DEF Bit
  <2> QED BY <2>1
<1> HIDE DEF S
<1>3. PICK m \in S : \A j \in S : m <= j
  BY <1>2, LeastNatural
<1>4. PICK i \in x : m = NUM_BUCKETS - 1 - i
  BY <1>3 DEF S
<1>5. \A j \in x : NUM_BUCKETS - 1 - j \in S
  BY DEF S
<1>6. i \in Bit /\ \A j \in x : j \in Bit /\ j <= i
  BY <1>1, <1>3, <1>4, <1>5 DEF Bit
<1> QED BY <1>4, <1>6 DEF IsBucketIndex

LEMMA DistanceType ==
  ASSUME NEW x \in KeyBytes, NEW y \in KeyBytes
  PROVE  Distance(x, y) \in KeyBytes /\ (Distance(x, y) = {} <=> x = y)
BY DEF Distance, KeyBytes

LEMMA LessTotal ==
  ASSUME NEW x \in KeyBytes, NEW y \in KeyBytes, x # y
  PROVE  Less(x, y) \/ Less(y, x)
<1>1. PICK i \in Bit : IsBucketIndex(Distance(x, y), i)
  BY DistanceType, HighestBit
<1>2. \A j \in Bit : j > i => (j \in x <=> j \in y)
  BY <1>1, NumBucketsAssumption DEF IsBucketIndex, Distance, Bit
<1>3. i \in x \ y \/ i \in y \ x
  BY <1>1 DEF IsBucketIndex, Distance
<1> QED BY <1>2, <1>3 DEF Less

LEMMA LessTransitive ==
  ASSUME NEW x \in KeyBytes, NEW y \in KeyBytes, NEW z \in KeyBytes, Less(x, y), Less(y, z)
  PROVE  Less(x, z)
<1>1. PICK i \in y \ x : \A j \in Bit : j > i => (j \in x <=> j \in y)
  BY DEF Less
<1>2. PICK k \in z \ y : \A j \in Bit : j > k => (j \in y <=> j \in z)
  BY DEF Less
<1>3. i \in Bit /\ k \in Bit /\ i # k
  BY <1>1, <1>2 DEF KeyBytes
<1>4. CASE i > k
  <2>1. i \in z \ x
    BY <1>1, <1>2, <1>3, <1>4
  <2>2. \A j \in Bit : j > i => (j \in x <=> j \in z)
    BY <1>1, <1>2, <1>3, <1>4, NumBucketsAssumption DEF Bit
  <2> QED BY <2>1, <2>2 DEF Less
<1>5. CASE k > i
  <2>1. k \in z \ x
    BY <1>1, <1>2, <1>3, <1>5
  <2>2. \A j \in Bit : j > k => (j \in x <=> j \in z)
    BY <1>1, <1>2, <1>3, <1>5, NumBucketsAssumption DEF Bit
  <2> QED BY <2>1, <2>2 DEF Less
<1> QED BY <1>3, <1>4, <1>5, NumBucketsAssumption DEF Bit

LEMMA LessIrreflexive == \A x : ~Less(x, x)
BY DEF Less

\* x is nearer to t than y.
Nearer(t, x, y) == Less(Distance(t, x), Distance(t, y))

LEMMA NearerOrder ==
  ASSUME NEW t \in KeyBytes
  PROVE  /\ \A x, y \in KeyBytes : x # y => Nearer(t, x, y) \/ Nearer(t, y, x)
         /\ \A x, y, z \in KeyBytes : Nearer(t, x, y) /\ Nearer(t, y, z) => Nearer(t, x, z)
         /\ \A x, y \in KeyBytes : Nearer(t, x, y) => ~Nearer(t, y, x)
<1>1. \A x \in KeyBytes : Distance(t, x) \in KeyBytes
  BY DistanceType
<1>2. \A x, y \in KeyBytes : x # y => Distance(t, x) # Distance(t, y)
  BY DEF Distance, KeyBytes
<1>3. \A x, y \in KeyBytes : x # y => Nearer(t, x, y) \/ Nearer(t, y, x)
  BY <1>1, <1>2, LessTotal DEF Nearer
<1>4. \A x, y, z \in KeyBytes : Nearer(t, x, y) /\ Nearer(t, y, z) => Nearer(t, x, z)
  BY <1>1, LessTransitive DEF Nearer
<1>5. \A x, y \in KeyBytes : Nearer(t, x, y) => ~Nearer(t, y, x)
  BY <1>4, LessIrreflexive DEF Nearer
<1> QED BY <1>3, <1>4, <1>5

-----------------------------------------------------------------------------
(* The order of the buckets. *)

\* The keys of bucket i
Home(i) == {k \in Key : IsBucketIndex(DistanceFrom(k), i)}

\* Bucket a comes before bucket b on the way from a target at distance d.
Before(d, a, b) == (a > b /\ a \in d) \/ (a < b /\ b \notin d)

LEMMA NearerBucket ==
  ASSUME NEW t \in KeyBytes, NEW a \in Bit, NEW b \in Bit, Before(DistanceFrom(t), a, b),
         NEW x \in Home(a), NEW y \in Home(b)
  PROVE  Nearer(t, x, y)
<1> DEFINE d == DistanceFrom(t)
           X == DistanceFrom(x)
           Y == DistanceFrom(y)
<1>1. local_key \in KeyBytes /\ x \in KeyBytes /\ y \in KeyBytes
  BY TableAssumption DEF Home
<1>2. d \in KeyBytes /\ X \in KeyBytes /\ Y \in KeyBytes
  BY <1>1, DistanceType DEF DistanceFrom
<1>3. IsBucketIndex(X, a) /\ IsBucketIndex(Y, b)
  BY DEF Home
<1>4. Distance(X, d) = Distance(t, x) /\ Distance(Y, d) = Distance(t, y)
  BY DEF Distance, DistanceFrom
<1> HIDE DEF d, X, Y
<1> USE NumBucketsAssumption
<1>5. /\ X \subseteq Bit /\ a \in X /\ \A j \in X : j <= a
      /\ Y \subseteq Bit /\ b \in Y /\ \A j \in Y : j <= b
  BY <1>2, <1>3 DEF IsBucketIndex, KeyBytes
<1>6. CASE a > b /\ a \in d
  <2>1. a \in Distance(Y, d) \ Distance(X, d)
    BY <1>5, <1>6 DEF Distance, Bit
  <2>2. \A j \in Bit : j > a => j \notin X /\ j \notin Y
    BY <1>5, <1>6 DEF Bit
  <2> QED BY <1>4, <2>1, <2>2 DEF Less, Distance, Nearer
<1>7. CASE a < b /\ b \notin d
  <2>1. b \in Distance(Y, d) \ Distance(X, d)
    BY <1>5, <1>7 DEF Distance, Bit
  <2>2. \A j \in Bit : j > b => j \notin X /\ j \notin Y
    BY <1>5, <1>7 DEF Bit
  <2> QED BY <1>4, <2>1, <2>2 DEF Less, Distance, Nearer
<1> QED BY <1>6, <1>7 DEF Before, d

\* The buckets visited by an iterator in state st, on its way from distance d
Visited(d, st) ==
  {j \in Bit : \/ st.tag = "ZoomIn" /\ (j = st.i \/ (j \in d /\ j >= st.i))
               \/ st.tag = "ZoomOut" /\ (j \in d \/ j <= st.i)
               \/ st.tag = "Done"}

IterOK(d, st) ==
  /\ st \in Order!IterState
  /\ st.tag = "Start" => Order!IsStart(d, st)
  /\ st.tag = "ZoomIn" => st.i \in d \/ (d = {} /\ st.i = 0)

LEMMA IterStateType ==
  ASSUME NEW st \in Order!IterState
  PROVE  st.i \in Bit /\ st.tag \in {"Start", "ZoomIn", "ZoomOut", "Done"}
         /\ (st.tag = "Done" <=> st = Order!Done)
BY NumBucketsAssumption DEF Order!IterState, Order!At, Order!Done, Order!Bit, Bit

\* What has been visited is nearer than what has not.
LEMMA VisitedBefore ==
  ASSUME NEW d \in KeyBytes, NEW st, IterOK(d, st),
         NEW v \in Visited(d, st), NEW j \in Bit \ Visited(d, st)
  PROVE  Before(d, v, j)
<1>1. st.i \in Bit /\ v \in Bit /\ d \subseteq Bit /\ NUM_BUCKETS \in Nat
  BY IterStateType, NumBucketsAssumption DEF IterOK, KeyBytes, Visited
<1>2. CASE st.tag = "ZoomIn"
  BY <1>1, <1>2 DEF IterOK, Visited, Before, Bit
<1>3. CASE st.tag = "ZoomOut"
  BY <1>1, <1>3 DEF Visited, Before, Bit
<1> QED BY <1>2, <1>3 DEF Visited

LEMMA IterStep ==
  ASSUME NEW d \in KeyBytes, NEW st, IterOK(d, st), NEW t \in Order!IterState,
         Order!IterNext(d, st, t)
  PROVE  /\ IterOK(d, t)
         /\ t = Order!Done => Visited(d, st) = Bit
         /\ t # Order!Done => /\ t.i \in Bit
                              /\ Visited(d, t) = Visited(d, st) \cup {t.i}
                              /\ t.i \in Visited(d, st) => t.i = 0
                              /\ \A v \in Visited(d, st) : v = t.i \/ Before(d, v, t.i)
<1> USE NumBucketsAssumption
<1>1. /\ st.i \in Bit /\ t.i \in Bit /\ d \subseteq Bit /\ NUM_BUCKETS \in Nat /\ 0 \in Bit
      /\ (t = Order!Done <=> t.tag = "Done")
  BY IterStateType DEF IterOK, KeyBytes, Bit
<1>2. CASE st.tag = "Start" /\ t = Order!At("ZoomIn", st.i)
  <2>1. t.tag = "ZoomIn" /\ t.i = st.i
    BY <1>2 DEF Order!At
  <2>2. IF d = {} THEN t.i = 0 ELSE IsBucketIndex(d, t.i)
    BY <1>2, <2>1 DEF IterOK, Order!IsStart, Order!At, Order!IsBucketIndex, IsBucketIndex
  <2>3. \A j \in d : j >= t.i => j = t.i
    BY <1>1, <2>2 DEF IsBucketIndex, Bit
  <2>4. Visited(d, st) = {} /\ Visited(d, t) = {t.i}
    BY <1>1, <1>2, <2>1, <2>3 DEF Visited
  <2> QED BY <1>1, <2>1, <2>2, <2>4 DEF IterOK, IsBucketIndex
<1>3. ASSUME st.tag = "ZoomIn", NEW j \in Bit, Order!IsNextIn(d, st.i, j), t = Order!At("ZoomIn", j)
      PROVE  IterOK(d, t) /\ t.tag = "ZoomIn" /\ Visited(d, t) = Visited(d, st) \cup {t.i}
             /\ t.i \notin Visited(d, st)
  <2>1. t.tag = "ZoomIn" /\ t.i = j
    BY <1>3 DEF Order!At
  <2>2. j \in d /\ j < st.i /\ \A l \in d : ~(j < l /\ l < st.i)
    BY <1>3 DEF Order!IsNextIn
  <2>3. st.i \in d
    BY <1>3, <2>2 DEF IterOK
  <2>4. \A l \in Bit : (l = j \/ (l \in d /\ l >= j)) <=> (l = j \/ l = st.i \/ (l \in d /\ l >= st.i))
    BY <1>1, <2>2, <2>3 DEF Bit
  <2>5. Visited(d, t) = Visited(d, st) \cup {t.i}
    BY <1>3, <2>1, <2>4 DEF Visited
  <2>6. t.i \notin Visited(d, st)
    BY <1>1, <1>3, <2>1, <2>2 DEF Visited, Bit
  <2> QED BY <2>1, <2>2, <2>5, <2>6 DEF IterOK
<1>4. CASE st.tag = "ZoomIn" /\ (~\E j \in d : j < st.i) /\ t = Order!At("ZoomOut", 0)
  <2>1. t.tag = "ZoomOut" /\ t.i = 0
    BY <1>4 DEF Order!At
  <2>2. \A l \in Bit : (l \in d \/ l <= 0) <=> (l = 0 \/ l = st.i \/ (l \in d /\ l >= st.i))
    BY <1>1, <1>4 DEF Bit, IterOK
  <2>3. Visited(d, t) = Visited(d, st) \cup {t.i}
    BY <1>1, <1>4, <2>1, <2>2 DEF Visited
  <2>4. \A v \in Visited(d, st) : v = t.i \/ Before(d, v, t.i)
    BY <1>1, <1>4, <2>1 DEF Visited, Before, IterOK, Bit
  <2> QED BY <1>1, <2>1, <2>3, <2>4 DEF IterOK
<1>5. ASSUME st.tag = "ZoomOut", NEW j \in Bit, Order!IsNextOut(d, st.i, j), t = Order!At("ZoomOut", j)
      PROVE  IterOK(d, t) /\ t.tag = "ZoomOut" /\ Visited(d, t) = Visited(d, st) \cup {t.i}
             /\ t.i \notin Visited(d, st)
  <2>1. t.tag = "ZoomOut" /\ t.i = j
    BY <1>5 DEF Order!At
  <2>2. j \notin d /\ st.i < j /\ \A l \in Bit \ d : ~(st.i < l /\ l < j)
    BY <1>5 DEF Order!IsNextOut, Order!Bit, Bit
  <2>3. \A l \in Bit : (l \in d \/ l <= j) <=> (l = j \/ l \in d \/ l <= st.i)
    BY <1>1, <2>2 DEF Bit
  <2>4. Visited(d, t) = Visited(d, st) \cup {t.i}
    BY <1>5, <2>1, <2>3 DEF Visited
  <2>5. t.i \notin Visited(d, st)
    BY <1>1, <1>5, <2>1, <2>2 DEF Visited, Bit
  <2> QED BY <2>1, <2>4, <2>5 DEF IterOK
<1>6. CASE st.tag = "ZoomOut" /\ (~\E j \in Order!Bit \ d : st.i < j) /\ t = Order!Done
  <2>1. t.tag = "Done"
    BY <1>1, <1>6
  <2>2. \A l \in Bit : l \in d \/ l <= st.i
    BY <1>1, <1>6 DEF Bit, Order!Bit
  <2>3. Visited(d, st) = Bit
    BY <1>6, <2>2 DEF Visited
  <2> QED BY <1>6, <2>1, <2>3 DEF IterOK
<1>7. Order!Bit = Bit
  BY DEF Order!Bit, Bit
<1>8. t.i \notin Visited(d, st) => \A v \in Visited(d, st) : Before(d, v, t.i)
  BY <1>1, VisitedBefore
<1> QED BY <1>1, <1>2, <1>3, <1>4, <1>5, <1>6, <1>7, <1>8, Zenon DEF Order!IterNext

-----------------------------------------------------------------------------
(* sort_by: a finite set of keys can be sorted by the distance to a target. *)

\* By induction on the number of keys: of a smallest set without a farthest key,
\* one key is taken away.
LEMMA FarthestKey ==
  ASSUME NEW t \in KeyBytes, NEW S0 \in SUBSET KeyBytes, IsFiniteSet(S0), S0 # {}
  PROVE  \E y \in S0 : \A x \in S0 \ {y} : Nearer(t, x, y)
<1> DEFINE Has(S) == \E y \in S : \A x \in S \ {y} : Nearer(t, x, y)
           Bad == {n \in Nat : \E S \in SUBSET KeyBytes :
                                 IsFiniteSet(S) /\ S # {} /\ Cardinality(S) = n /\ ~Has(S)}
<1>1. SUFFICES ASSUME Bad # {} PROVE FALSE
  <2>1. Cardinality(S0) \in Nat
    BY FS_CardinalityType
  <2> QED BY <1>1, <2>1
<1>2. PICK n \in Bad : \A m \in Bad : n <= m
  BY <1>1, LeastNatural, Zenon
<1>3. PICK S \in SUBSET KeyBytes : IsFiniteSet(S) /\ S # {} /\ Cardinality(S) = n /\ ~Has(S)
  BY <1>2
<1>4. PICK e \in S : TRUE
  BY <1>3
<1> DEFINE T == S \ {e}
<1>5. IsFiniteSet(T) /\ Cardinality(T) = n - 1 /\ Cardinality(T) \in Nat /\ T \in SUBSET KeyBytes
  BY <1>3, <1>4, FS_RemoveElement, FS_CardinalityType
<1>6. T # {}
  BY <1>3, <1>4
<1>7. Has(T)
  <2>1. n - 1 \notin Bad
    BY <1>2
  <2> HIDE DEF T, Has
  <2> QED BY <2>1, <1>5, <1>6
<1>8. PICK y \in T : \A x \in T \ {y} : Nearer(t, x, y)
  BY <1>7
<1>9. e # y /\ e \in KeyBytes /\ y \in KeyBytes
  BY <1>3, <1>4, <1>8
<1>10. CASE Nearer(t, e, y)
  BY <1>3, <1>8, <1>10
<1>11. CASE Nearer(t, y, e)
  <2>1. \A x \in S \ {e} : Nearer(t, x, e)
    BY <1>3, <1>8, <1>9, <1>11, NearerOrder, Zenon
  <2> QED BY <1>3, <1>4, <2>1, Zenon
<1> QED BY <1>9, <1>10, <1>11, NearerOrder

Enumerations(S) == Injection(1..Cardinality(S), S)

\* s enumerates S, nearest first.
Sorts(t, S, s) ==
  s \in Enumerations(S) /\ \A m, n \in DOMAIN s : m < n => Nearer(t, s[m], s[n])

LEMMA EnumerationOf ==
  ASSUME NEW S, IsFiniteSet(S), NEW s \in Enumerations(S)
  PROVE  /\ s \in Seq(S) /\ Len(s) = Cardinality(S) /\ DOMAIN s = 1..Cardinality(S)
         /\ \A i, j \in DOMAIN s : i # j => s[i] # s[j]
         /\ Range(s) = S
<1>1. Cardinality(S) \in Nat
  BY FS_CardinalityType
<1>2. s \in [1..Cardinality(S) -> S] /\ \A i, j \in 1..Cardinality(S) : i # j => s[i] # s[j]
  BY DEF Enumerations, Injection, IsInjective
<1> DEFINE D == 1..Cardinality(S)
<1>3. IsFiniteSet(D) /\ Cardinality(D) = Cardinality(S)
  BY <1>1, FS_Interval
<1>4. s \in Injection(D, S)
  BY <1>2 DEF Injection, IsInjective
<1>5. s \in Surjection(D, S)
  <2> HIDE DEF D
  <2> QED BY <1>3, <1>4, FS_Injection
<1>6. Range(s) = S
  BY <1>2, <1>5 DEF Range, Surjection
<1> QED BY <1>1, <1>2, <1>6

LEMMA Sortable ==
  ASSUME NEW t \in KeyBytes, NEW S0 \in SUBSET KeyBytes, IsFiniteSet(S0)
  PROVE  \E s : Sorts(t, S0, s)
<1> DEFINE Bad == {n \in Nat : \E S \in SUBSET KeyBytes :
                                 IsFiniteSet(S) /\ Cardinality(S) = n /\ ~\E s : Sorts(t, S, s)}
<1>1. SUFFICES ASSUME Bad # {} PROVE FALSE
  <2>1. Cardinality(S0) \in Nat
    BY FS_CardinalityType
  <2> QED BY <1>1, <2>1
<1>2. PICK n \in Bad : \A m \in Bad : n <= m
  BY <1>1, LeastNatural, Zenon
<1>3. PICK S \in SUBSET KeyBytes : IsFiniteSet(S) /\ Cardinality(S) = n /\ ~\E s : Sorts(t, S, s)
  BY <1>2
<1>4. S # {}
  <2> SUFFICES ASSUME S = {} PROVE FALSE
    OBVIOUS
  <2>1. Cardinality({}) = 0
    BY FS_EmptySet
  <2> DEFINE f == [i \in 1..0 |-> i]
  <2>2. f \in [1..Cardinality({}) -> {}] /\ DOMAIN f = {}
    BY <2>1
  <2>3. f \in Enumerations({})
    BY <2>1, <2>2 DEF Enumerations, Injection, IsInjective
  <2>4. Sorts(t, {}, f)
    BY <2>2, <2>3 DEF Sorts
  <2> QED BY <1>3, <2>4
<1>5. PICK y \in S : \A x \in S \ {y} : Nearer(t, x, y)
  BY <1>3, <1>4, FarthestKey
<1> DEFINE T == S \ {y}
<1>6. IsFiniteSet(T) /\ Cardinality(T) = n - 1 /\ Cardinality(T) \in Nat /\ T \in SUBSET KeyBytes
  BY <1>3, <1>5, FS_RemoveElement, FS_CardinalityType
<1>7. \E s : Sorts(t, T, s)
  <2>1. n - 1 \notin Bad
    BY <1>2
  <2> HIDE DEF T
  <2> QED BY <2>1, <1>6
<1>8. PICK s : Sorts(t, T, s)
  BY <1>7
<1> DEFINE f == [i \in 1..n |-> IF i = n THEN y ELSE s[i]]
<1>9. /\ s \in [1..(n - 1) -> T] /\ DOMAIN s = 1..(n - 1) /\ n \in Nat /\ n >= 1
      /\ \A i, j \in 1..(n - 1) : i # j => s[i] # s[j]
      /\ \A i, j \in 1..(n - 1) : i < j => Nearer(t, s[i], s[j])
  <2>1. n \in Nat
    BY <1>2
  <2> HIDE DEF T, Bad
  <2>2. n >= 1 /\ 1..Cardinality(T) = 1..(n - 1)
    BY <1>6, <2>1
  <2>3. s \in Enumerations(T) /\ \A i, j \in DOMAIN s : i < j => Nearer(t, s[i], s[j])
    BY <1>8 DEF Sorts
  <2>4. DOMAIN s = 1..(n - 1) /\ \A i, j \in DOMAIN s : i # j => s[i] # s[j]
    BY <1>6, <2>2, <2>3, EnumerationOf
  <2>5. s \in [1..(n - 1) -> T]
    BY <2>2, <2>3, Zenon DEF Enumerations, Injection, IsInjective
  <2> QED BY <2>1, <2>2, <2>3, <2>4, <2>5, Zenon
<1>10. \A i \in 1..n : i # n => i \in 1..(n - 1) /\ f[i] = s[i] /\ s[i] \in T
  BY <1>9
<1>11. f[n] = y /\ DOMAIN f = 1..n /\ f \in [1..n -> S]
  BY <1>5, <1>9, <1>10
<1> HIDE DEF f
<1>12. \A i, j \in 1..n : i # j => f[i] # f[j]
  BY <1>9, <1>10, <1>11
<1>13. ASSUME NEW i \in 1..n, NEW j \in 1..n, i < j PROVE Nearer(t, f[i], f[j])
  <2>1. i # n /\ i \in 1..(n - 1) /\ f[i] = s[i] /\ s[i] \in T
    BY <1>9, <1>10, <1>13
  <2>2. CASE j = n
    BY <1>5, <1>11, <2>1, <2>2, Zenon
  <2>3. CASE j # n
    <3>1. j \in 1..(n - 1) /\ f[j] = s[j]
      BY <1>10, <2>3
    <3> QED BY <1>9, <1>13, <2>1, <3>1
  <2> QED BY <2>2, <2>3
<1>14. f \in Enumerations(S)
  BY <1>3, <1>11, <1>12 DEF Enumerations, Injection, IsInjective
<1>15. Sorts(t, S, f)
  BY <1>11, <1>13, <1>14 DEF Sorts
<1> QED BY <1>3, <1>15

-----------------------------------------------------------------------------
(* The walk of ClosestIter over the keys of the buckets. *)

LEMMA KeysFinite ==
  ASSUME NEW q \in Seq(Key)
  PROVE  Range(q) \in SUBSET Key /\ IsFiniteSet(Range(q))
<1>1. Len(q) \in Nat /\ q \in [1..Len(q) -> Key] /\ DOMAIN q = 1..Len(q)
  OBVIOUS
<1>2. IsFiniteSet(1..Len(q))
  BY <1>1, FS_Interval
<1>3. q \in Surjection(1..Len(q), Range(q))
  BY <1>1 DEF Surjection, Range
<1>4. IsFiniteSet(Range(q))
  BY <1>2, <1>3, FS_Surjection
<1> QED BY <1>1, <1>4 DEF Range

LEMMA BucketKeysSorted ==
  ASSUME NEW b, ApplyPending(b).nodes \in Seq(Key), target \in KeyBytes
  PROVE  /\ BucketKeys(b) \in Seq(Key) /\ Range(BucketKeys(b)) = Keys(ApplyPending(b))
         /\ \A m, n \in 1..Len(BucketKeys(b)) :
              m < n => Nearer(target, BucketKeys(b)[m], BucketKeys(b)[n])
<1> DEFINE S == Keys(ApplyPending(b))
           P(s) == \A m, n \in DOMAIN s :
                     m < n => Less(Distance(target, s[m]), Distance(target, s[n]))
<1>1. S \in SUBSET Key /\ S \in SUBSET KeyBytes /\ IsFiniteSet(S)
  BY KeysFinite, TableAssumption DEF Keys
<1>2. PICK s : Sorts(target, S, s)
  BY <1>1, Sortable
<1>3. s \in Enumerations(S) /\ P(s)
  BY <1>2 DEF Sorts, Nearer
<1>4. BucketKeys(b) = CHOOSE r \in Enumerations(S) : P(r)
  BY DEF BucketKeys, Enumerations
<1> DEFINE c == BucketKeys(b)
<1> HIDE DEF S
<1>5. c \in Enumerations(S) /\ P(c)
  BY <1>3, <1>4, Zenon
<1> HIDE DEF c
<1>6. c \in Seq(S) /\ Range(c) = S
  BY <1>1, <1>5, EnumerationOf
<1>7. c \in Seq(Key) /\ DOMAIN c = 1..Len(c)
  BY <1>1, <1>6
<1> QED BY <1>5, <1>6, <1>7, Zenon DEF Nearer, c, S

\* The keys c yielded from the buckets V, which hold the keys P
Walk(P, t, V, c) ==
  /\ \A n \in 1..Len(c) : \E v \in V : c[n] \in P[v]
  /\ \A v \in V : P[v] \subseteq Range(c)
  /\ \A m, n \in 1..Len(c) : m < n => ~Nearer(t, c[n], c[m])

\* Bucket 0, the only one that is visited twice, has room for a single key.
LEMMA OneKeyInBucketZero ==
  ASSUME NEW x \in Home(0), NEW y \in Home(0)
  PROVE  x = y
<1> USE NumBucketsAssumption
<1>1. x \subseteq Bit /\ y \subseteq Bit /\ local_key \subseteq Bit
  BY TableAssumption DEF Home, KeyBytes
<1>2. ASSUME NEW k \in Home(0) PROVE DistanceFrom(k) = {0}
  <2>1. DistanceFrom(k) \in KeyBytes
    BY DistanceType, TableAssumption DEF DistanceFrom, Home
  <2>2. 0 \in DistanceFrom(k) /\ \A j \in DistanceFrom(k) : j <= 0
    BY DEF Home, IsBucketIndex
  <2>3. \A j \in DistanceFrom(k) : j = 0
    BY <2>1, <2>2 DEF KeyBytes, Bit
  <2> QED BY <2>2, <2>3
<1>3. DistanceFrom(x) = DistanceFrom(y)
  BY <1>2, Zenon
<1> QED BY <1>3 DEF DistanceFrom, Distance

LEMMA WalkStep ==
  ASSUME NEW t \in KeyBytes, NEW V \in SUBSET Bit, NEW j \in Bit, NEW P, NEW Q,
         \A v \in Bit : P[v] \subseteq Home(v) /\ Q[v] \subseteq Home(v),
         \A v \in Bit : v # j => Q[v] = P[v],
         j \in V => j = 0 /\ P[j] \subseteq Q[j],
         \A v \in V : v = j \/ Before(DistanceFrom(t), v, j),
         NEW c \in Seq(Key), NEW s \in Seq(Key), Range(s) = Q[j],
         \A m, n \in 1..Len(s) : m < n => Nearer(t, s[m], s[n]),
         Walk(P, t, V, c)
  PROVE  c \o s \in Seq(Key) /\ Walk(Q, t, V \cup {j}, c \o s)
<1> DEFINE e == c \o s
<1>1. /\ e \in Seq(Key) /\ Len(e) = Len(c) + Len(s) /\ Len(c) \in Nat /\ Len(s) \in Nat
      /\ \A n \in 1..Len(c) : e[n] = c[n]
      /\ \A n \in 1..Len(e) : n > Len(c) => n - Len(c) \in 1..Len(s) /\ e[n] = s[n - Len(c)]
  OBVIOUS
<1>2. \A n \in 1..Len(s) : n + Len(c) \in 1..Len(e) /\ e[n + Len(c)] = s[n]
  BY <1>1
<1> HIDE DEF e
<1>3. DOMAIN e = 1..Len(e) /\ DOMAIN c = 1..Len(c) /\ DOMAIN s = 1..Len(s)
  BY <1>1
<1>4. \A n \in 1..Len(s) : s[n] \in Q[j]
  BY <1>3, Zenon DEF Range
<1>5. \A v \in V : P[v] \subseteq Q[v]
  OBVIOUS
<1>6. ASSUME NEW n \in 1..Len(e) PROVE \E v \in V \cup {j} : e[n] \in Q[v]
  <2>1. CASE n \in 1..Len(c)
    BY <1>1, <1>5, <2>1, Zenon DEF Walk
  <2>2. CASE n > Len(c)
    BY <1>1, <1>4, <2>2, Zenon
  <2> QED BY <1>1, <2>1, <2>2
<1>7. ASSUME NEW v \in V \cup {j}, NEW k \in Q[v] PROVE k \in Range(e)
  <2>1. CASE v = j
    <3>1. PICK n \in 1..Len(s) : k = s[n]
      BY <1>3, <2>1, Zenon DEF Range
    <3> QED BY <1>2, <1>3, <3>1, Zenon DEF Range
  <2>2. CASE v # j
    <3>1. k \in P[v] /\ v \in V
      BY <2>2, Zenon
    <3>2. PICK n \in 1..Len(c) : k = c[n]
      BY <1>3, <3>1 DEF Range, Walk
    <3>3. n \in 1..Len(e) /\ k = e[n]
      BY <1>1, <3>2
    <3> QED BY <1>3, <3>3, Zenon DEF Range
  <2> QED BY <2>1, <2>2, Zenon
<1>8. ASSUME NEW m \in 1..Len(e), NEW n \in 1..Len(e), m < n PROVE ~Nearer(t, e[n], e[m])
  <2>1. CASE n \in 1..Len(c)
    <3>1. m \in 1..Len(c)
      BY <1>1, <1>8, <2>1
    <3> QED BY <1>1, <1>8, <2>1, <3>1, Zenon DEF Walk
  <2>2. CASE m > Len(c)
    <3> DEFINE m1 == m - Len(c)
               n1 == n - Len(c)
    <3>1. n > Len(c) /\ m1 < n1
      BY <1>1, <1>8, <2>2
    <3>2. m1 \in 1..Len(s) /\ n1 \in 1..Len(s) /\ e[m] = s[m1] /\ e[n] = s[n1]
      BY <1>1, <2>2, <3>1, Zenon
    <3>3. Nearer(t, e[m], e[n])
      BY <3>1, <3>2, Zenon
    <3>4. e[m] \in KeyBytes /\ e[n] \in KeyBytes
      BY <1>1, TableAssumption
    <3> QED BY <3>3, <3>4, NearerOrder, Zenon
  <2>3. CASE m \in 1..Len(c) /\ n > Len(c)
    <3>1. PICK v \in V : e[m] \in P[v]
      BY <1>1, <2>3, Zenon DEF Walk
    <3>2. e[n] \in Q[j]
      BY <1>1, <1>4, <2>3, Zenon
    <3>3. v \in Bit /\ e[m] \in Home(v) /\ e[n] \in Home(j)
      BY <3>1, <3>2, Zenon
    <3>4. e[m] \in KeyBytes /\ e[n] \in KeyBytes
      BY <1>1, TableAssumption
    <3>5. CASE v = j
      <4>1. e[m] = e[n]
        BY <3>3, <3>5, OneKeyInBucketZero, Zenon
      <4> QED BY <3>4, <4>1, NearerOrder, Zenon
    <3>6. CASE v # j
      <4>1. Nearer(t, e[m], e[n])
        BY <3>3, <3>6, NearerBucket
      <4> QED BY <3>4, <4>1, NearerOrder, Zenon
    <3> QED BY <3>5, <3>6
  <2> QED BY <1>1, <2>1, <2>2, <2>3
<1> QED BY <1>1, <1>6, <1>7, <1>8, Zenon DEF Walk, e

-----------------------------------------------------------------------------
(* What the operations of a bucket keep: its index is one of its nodes, it   *)
(* has at most K_VALUE of them, all of them and the pending node are keys in *)
(* H, and the pending node is none of them.                                  *)

Fits(b, H) ==
  /\ b = [nodes |-> b.nodes, first_connected_pos |-> b.first_connected_pos, pending |-> b.pending]
  /\ b.nodes \in Seq(H) /\ Len(b.nodes) <= K_VALUE
  /\ b.first_connected_pos \in Nat \cup {None}
  /\ b.first_connected_pos # None => b.first_connected_pos < Len(b.nodes)
  /\ b.pending # None => b.pending \in PendingNode /\ b.pending.key \in H \ Range(b.nodes)

\* Vec::remove, Vec::insert and Vec::push: the type, the length and the elements.
LEMMA VecRemoveFacts ==
  ASSUME NEW S, NEW s \in Seq(S), NEW p \in 0..(Len(s) - 1)
  PROVE  /\ VecRemove(s, p) \in Seq(S) /\ Len(VecRemove(s, p)) = Len(s) - 1
         /\ Range(VecRemove(s, p)) \subseteq Range(s)
<1> DEFINE t == VecRemove(s, p)
<1>1. \A i \in 1..(Len(s) - 1) : i \in DOMAIN s /\ i + 1 \in DOMAIN s
  OBVIOUS
<1>2. t = [i \in 1..(Len(s) - 1) |-> IF i <= p THEN s[i] ELSE s[i + 1]]
  BY DEF VecRemove
<1>3. t \in Seq(S) /\ Len(t) = Len(s) - 1
  BY <1>2
<1>4. \A i \in DOMAIN t : \E j \in DOMAIN s : t[i] = s[j]
  BY <1>1, <1>2
<1> HIDE DEF t
<1> QED BY <1>3, <1>4 DEF Range, t

LEMMA VecInsertFacts ==
  ASSUME NEW S, NEW s \in Seq(S), NEW p \in 0..Len(s), NEW e \in S
  PROVE  /\ VecInsert(s, p, e) \in Seq(S) /\ Len(VecInsert(s, p, e)) = Len(s) + 1
         /\ Range(VecInsert(s, p, e)) \subseteq Range(s) \cup {e}
<1> DEFINE t == VecInsert(s, p, e)
<1>1. t = [i \in 1..(Len(s) + 1) |-> IF i <= p THEN s[i] ELSE IF i = p + 1 THEN e ELSE s[i - 1]]
  BY DEF VecInsert
<1>2. t \in Seq(S) /\ Len(t) = Len(s) + 1
  BY <1>1
<1>3. ASSUME NEW i \in 1..(Len(s) + 1), t[i] # e PROVE \E j \in DOMAIN s : t[i] = s[j]
  <2>1. CASE i <= p
    <3>1. t[i] = s[i] /\ i \in DOMAIN s
      BY <1>1, <2>1
    <3> QED BY <3>1
  <2>2. CASE i > p + 1
    <3>1. t[i] = s[i - 1] /\ i - 1 \in DOMAIN s
      BY <1>1, <2>2
    <3> QED BY <3>1
  <2> QED BY <1>1, <1>3, <2>1, <2>2
<1>4. DOMAIN t = 1..(Len(s) + 1)
  BY <1>1
<1> HIDE DEF t
<1> QED BY <1>2, <1>3, <1>4 DEF Range, t

LEMMA AppendFacts ==
  ASSUME NEW S, NEW s \in Seq(S), NEW e \in S
  PROVE  /\ Append(s, e) \in Seq(S) /\ Len(Append(s, e)) = Len(s) + 1
         /\ Range(Append(s, e)) \subseteq Range(s) \cup {e}
BY DEF Range

\* A key of the bucket has a position in it.
LEMMA PositionType ==
  ASSUME NEW S, NEW s \in Seq(S), NEW e \in Range(s)
  PROVE  VecPosition(s, e) \in 0..(Len(s) - 1)
<1> DEFINE P == {q \in 0..(Len(s) - 1) : s[q + 1] = e}
<1>1. PICK i \in 1..Len(s) : s[i] = e
  BY DEF Range
<1>2. i - 1 \in 0..(Len(s) - 1) /\ (i - 1) + 1 = i
  OBVIOUS
<1>3. i - 1 \in P /\ P \in SUBSET Nat
  <2>1. s[(i - 1) + 1] = e
    BY <1>1, <1>2
  <2>2. i - 1 \in P
    BY <1>2, <2>1, Zenon
  <2> QED BY <2>2
<1> HIDE DEF P
<1>4. PICK p \in P : \A q \in P : p <= q
  BY <1>3, LeastNatural
<1>5. p \in 0..(Len(s) - 1) /\ s[p + 1] = e
  BY DEF P
<1>6. ASSUME NEW q \in 0..(p - 1) PROVE s[q + 1] # e
  <2>1. q \in 0..(Len(s) - 1) /\ ~(p <= q)
    BY <1>5
  <2> QED BY <1>4, <2>1 DEF P
<1> QED BY <1>5, <1>6, Zenon DEF VecPosition

\* A bucket of these parts
LEMMA FitsIs ==
  ASSUME NEW H, NEW n \in Seq(H), Len(n) <= K_VALUE,
         NEW f \in Nat \cup {None}, f # None => f < Len(n),
         NEW w, w # None => w \in PendingNode /\ w.key \in H \ Range(n)
  PROVE  Fits([nodes |-> n, first_connected_pos |-> f, pending |-> w], H)
<1> DEFINE b == [nodes |-> n, first_connected_pos |-> f, pending |-> w]
<1>1. b.nodes = n /\ b.first_connected_pos = f /\ b.pending = w
  OBVIOUS
<1> HIDE DEF b
<1>2. b = [nodes |-> b.nodes, first_connected_pos |-> b.first_connected_pos, pending |-> b.pending]
  BY <1>1, Zenon DEF b
<1>3. Fits(b, H)
  BY <1>1, <1>2, Zenon DEF Fits
<1> QED BY <1>3, Zenon DEF b

\* A fit bucket and its parts
MadeOf(b, H, n, f, w) ==
  /\ b = [nodes |-> n, first_connected_pos |-> f, pending |-> w]
  /\ b.nodes = n /\ b.first_connected_pos = f /\ b.pending = w
  /\ n \in Seq(H) /\ Len(n) \in Nat /\ Len(n) <= K_VALUE /\ K_VALUE \in Nat \ {0}
  /\ f \in Nat \cup {None} /\ (f # None => f < Len(n))
  /\ w # None => w \in PendingNode /\ w.key \in H \ Range(n)

LEMMA Parts ==
  ASSUME NEW H, NEW b, Fits(b, H)
  PROVE  \E n, f, w : MadeOf(b, H, n, f, w)
<1>1. Len(b.nodes) \in Nat /\ K_VALUE \in Nat \ {0}
  BY ConstantsAssumption DEF Fits
<1>2. MadeOf(b, H, b.nodes, b.first_connected_pos, b.pending)
  BY <1>1, Zenon DEF Fits, MadeOf
<1> QED BY <1>2, Zenon

\* A bucket with a part replaced, spelled out.
LEMMA Rebuilt ==
  ASSUME NEW n, NEW f, NEW w, NEW b, b = [nodes |-> n, first_connected_pos |-> f, pending |-> w],
         NEW m, NEW g
  PROVE  /\ [b EXCEPT !.nodes = m] = [nodes |-> m, first_connected_pos |-> f, pending |-> w]
         /\ [b EXCEPT !.nodes = m, !.first_connected_pos = g] =
              [nodes |-> m, first_connected_pos |-> g, pending |-> w]
         /\ [b EXCEPT !.pending = m] = [nodes |-> n, first_connected_pos |-> f, pending |-> m]
<1> DEFINE c == [nodes |-> m, first_connected_pos |-> f, pending |-> w]
<1>1. [b EXCEPT !.nodes = m] = c
  OBVIOUS
<1>2. [c EXCEPT !.first_connected_pos = g] = [nodes |-> m, first_connected_pos |-> g, pending |-> w]
  OBVIOUS
<1>3. [b EXCEPT !.pending = m] = [nodes |-> n, first_connected_pos |-> f, pending |-> m]
  OBVIOUS
<1> HIDE DEF c
<1>4. [b EXCEPT !.nodes = m, !.first_connected_pos = g] = [c EXCEPT !.first_connected_pos = g]
  BY <1>1, Zenon
<1> QED BY <1>1, <1>2, <1>3, <1>4, Zenon DEF c

LEMMA NewFits == \A H : Fits(New, H)
<1> SUFFICES ASSUME NEW H PROVE Fits(New, H)
  OBVIOUS
<1>1. << >> \in Seq(H) /\ Len(<< >>) <= K_VALUE
  BY ConstantsAssumption
<1> QED BY <1>1, FitsIs, Zenon DEF New

\* KBucket::insert keeps a bucket fit.
LEMMA InsertFits ==
  ASSUME NEW H \in SUBSET Key, NEW b, Fits(b, H), NEW k \in H, ~IsPending(b, k),
         IsFull(b) => k \notin Keys(b), NEW s \in Status
  PROVE  Fits(Insert(b, k, s), H)
<1> DEFINE pend == [key |-> k, status |-> "Connected", replace |-> PendingTimeout]
<1>1. PICK n, f, w : MadeOf(b, H, n, f, w)
  BY Parts, Zenon
<1> USE DEF MadeOf
<1>a. w # None => w.key # k
  BY <1>1 DEF IsPending
<1>2. ASSUME NEW m \in Seq(H), NEW g \in Nat \cup {None}, g # None => g < Len(m),
             Len(m) = Len(n) + 1, ~IsFull(b), Range(m) \subseteq Range(n) \cup {k}
      PROVE  Fits([nodes |-> m, first_connected_pos |-> g, pending |-> w], H)
  <2>1. Len(m) <= K_VALUE
    BY <1>1, <1>2 DEF IsFull
  <2>2. w # None => w \in PendingNode /\ w.key \in H \ Range(m)
    BY <1>1, <1>a, <1>2
  <2> QED BY <1>2, <2>1, <2>2, FitsIs, Zenon
<1>3. CASE ~IsFull(b) /\ s = "Connected"
  <2> DEFINE m == Append(n, k)
             g == IF f = None THEN Len(n) ELSE f
  <2>1. Insert(b, k, s) = [nodes |-> m, first_connected_pos |-> g, pending |-> w]
    <3>1. Insert(b, k, s) = [b EXCEPT !.nodes = m, !.first_connected_pos = g]
      <4>1. Insert(b, k, s) = PushConnected(b, k)
        BY <1>3, Zenon DEF Insert
      <4>2. b.nodes = n /\ b.first_connected_pos = f
        BY <1>1
      <4> QED BY <4>1, <4>2, Zenon DEF PushConnected
    <3> HIDE DEF m, g
    <3>2. b = [nodes |-> n, first_connected_pos |-> f, pending |-> w]
      BY <1>1
    <3> QED BY <3>1, <3>2, Rebuilt, Zenon
  <2>2. m \in Seq(H) /\ Len(m) = Len(n) + 1 /\ Range(m) \subseteq Range(n) \cup {k}
    BY <1>1, AppendFacts, Zenon
  <2> HIDE DEF m
  <2>3. g \in Nat \cup {None} /\ (g # None => g < Len(m))
    BY <1>1, <2>2
  <2> HIDE DEF g
  <2> QED BY <1>2, <1>3, <2>1, <2>2, <2>3, Zenon
<1>4. CASE ~IsFull(b) /\ s = "Disconnected" /\ f = None
  <2> DEFINE m == Append(n, k)
  <2>1. Insert(b, k, s) = [nodes |-> m, first_connected_pos |-> None, pending |-> w]
    <3>1. Insert(b, k, s) = [b EXCEPT !.nodes = m]
      <4>1. Insert(b, k, s) = PushDisconnected(b, k)
        BY <1>4 DEF Insert
      <4>2. b.nodes = n /\ b.first_connected_pos = f
        BY <1>1
      <4> QED BY <1>4, <4>1, <4>2, Zenon DEF PushDisconnected
    <3> HIDE DEF m
    <3>2. b = [nodes |-> n, first_connected_pos |-> f, pending |-> w]
      BY <1>1
    <3> QED BY <1>4, <3>1, <3>2, Rebuilt, Zenon
  <2>2. m \in Seq(H) /\ Len(m) = Len(n) + 1 /\ Range(m) \subseteq Range(n) \cup {k}
    BY <1>1, AppendFacts, Zenon
  <2> HIDE DEF m
  <2> QED BY <1>2, <1>4, <2>1, <2>2, Zenon
<1>5. CASE ~IsFull(b) /\ s = "Disconnected" /\ f # None
  <2> DEFINE m == VecInsert(n, f, k)
             g == f + 1
  <2>1. Insert(b, k, s) = [nodes |-> m, first_connected_pos |-> g, pending |-> w]
    <3>1. Insert(b, k, s) = [b EXCEPT !.nodes = m, !.first_connected_pos = g]
      <4>1. Insert(b, k, s) = PushDisconnected(b, k)
        BY <1>5 DEF Insert
      <4>2. b.nodes = n /\ b.first_connected_pos = f
        BY <1>1
      <4> QED BY <1>5, <4>1, <4>2, Zenon DEF PushDisconnected
    <3> HIDE DEF m, g
    <3>2. b = [nodes |-> n, first_connected_pos |-> f, pending |-> w]
      BY <1>1
    <3> QED BY <3>1, <3>2, Rebuilt, Zenon
  <2>2. f \in 0..Len(n)
    BY <1>1, <1>5
  <2>3. m \in Seq(H) /\ Len(m) = Len(n) + 1 /\ Range(m) \subseteq Range(n) \cup {k}
    BY <1>1, <2>2, VecInsertFacts, Zenon
  <2> HIDE DEF m
  <2>4. g \in Nat \cup {None} /\ (g # None => g < Len(m))
    BY <1>1, <1>5, <2>3
  <2> HIDE DEF g
  <2> QED BY <1>2, <1>5, <2>1, <2>3, <2>4, Zenon
<1>6. CASE IsFull(b)
  <2>1. Insert(b, k, s) = b \/ Insert(b, k, s) = [b EXCEPT !.pending = pend]
    BY <1>6 DEF Insert, SetPending
  <2>2. CASE Insert(b, k, s) = [b EXCEPT !.pending = pend]
    <3>1. pend \in PendingNode /\ pend.key = k
      BY ConstantsAssumption DEF PendingNode, Status
    <3> HIDE DEF pend
    <3>2. Insert(b, k, s) = [nodes |-> n, first_connected_pos |-> f, pending |-> pend]
      BY <1>1, <2>2
    <3>3. k \notin Range(n)
      BY <1>1, <1>6, Zenon DEF Keys
    <3>4. pend # None => pend \in PendingNode /\ pend.key \in H \ Range(n)
      BY <3>1, <3>3, Zenon
    <3>5. n \in Seq(H) /\ Len(n) <= K_VALUE /\ f \in Nat \cup {None} /\ (f # None => f < Len(n))
      BY <1>1
    <3> HIDE DEF MadeOf
    <3>6. Fits([nodes |-> n, first_connected_pos |-> f, pending |-> pend], H)
      BY <3>4, <3>5, FitsIs, Zenon
    <3> QED BY <3>2, <3>6, Zenon
  <2> QED BY <2>1, <2>2, Zenon
<1> QED BY <1>3, <1>4, <1>5, <1>6 DEF Status

\* KBucket::remove does, and leaves room for the key it removed.
LEMMA RemoveFits ==
  ASSUME NEW H \in SUBSET Key, NEW b, Fits(b, H), NEW k \in Keys(b)
  PROVE  /\ Fits(RemoveNode(b, k), H) /\ ~IsFull(RemoveNode(b, k))
         /\ k \in H /\ ~IsPending(RemoveNode(b, k), k)
<1>1. PICK n, f, w : MadeOf(b, H, n, f, w)
  BY Parts, Zenon
<1> USE DEF MadeOf
<1> DEFINE p == Position(b, k)
           m == VecRemove(n, p)
           g == ConnectedPosAfterRemove(b, p, Len(m))
<1>2. p \in 0..(Len(n) - 1)
  BY <1>1, PositionType, Zenon DEF Position, Keys
<1>3. RemoveNode(b, k) = [nodes |-> m, first_connected_pos |-> g, pending |-> w]
  <2>1. RemoveNode(b, k) = [b EXCEPT !.nodes = m, !.first_connected_pos = g]
    <3>1. b.nodes = n
      BY <1>1
    <3> QED BY <3>1, Zenon DEF RemoveNode
  <2> HIDE DEF m, g
  <2>2. b = [nodes |-> n, first_connected_pos |-> f, pending |-> w]
    BY <1>1
  <2> QED BY <2>1, <2>2, Rebuilt, Zenon
<1> HIDE DEF p
<1>4. m \in Seq(H) /\ Len(m) = Len(n) - 1 /\ Range(m) \subseteq Range(n)
  BY <1>1, <1>2, VecRemoveFacts, Zenon
<1> HIDE DEF m
<1>5. g = IF f # None /\ p >= f
          THEN IF f = p /\ p = Len(m) THEN None ELSE f
          ELSE IF f = None THEN None ELSE f - 1
  BY <1>1, Zenon DEF ConnectedPosAfterRemove, StatusAt
<1> HIDE DEF g
<1>6. g \in Nat \cup {None} /\ (g # None => g < Len(m)) /\ Len(m) <= K_VALUE /\ Len(m) # K_VALUE
  BY <1>1, <1>2, <1>4, <1>5
<1>7. w # None => w \in PendingNode /\ w.key \in H \ Range(m)
  BY <1>1, <1>4
<1>a. w # None => w.key # k
  BY <1>1 DEF Keys
<1>8. RemoveNode(b, k).nodes = m /\ RemoveNode(b, k).pending = w
  BY <1>3
<1>9. k \in H
  BY <1>1 DEF Keys, Range
<1>10. Fits(RemoveNode(b, k), H)
  <2>1. m \in Seq(H) /\ Len(m) <= K_VALUE /\ g \in Nat \cup {None} /\ (g # None => g < Len(m))
    BY <1>4, <1>6
  <2>2. Fits([nodes |-> m, first_connected_pos |-> g, pending |-> w], H)
    BY <1>7, <2>1, FitsIs, Zenon
  <2> QED BY <1>3, <2>2, Zenon
<1> QED BY <1>a, <1>6, <1>8, <1>9, <1>10, Zenon DEF IsFull, IsPending

LEMMA RemovePendingFits ==
  ASSUME NEW H, NEW b, Fits(b, H)
  PROVE  Fits(RemovePending(b), H)
<1>1. PICK n, f, w : MadeOf(b, H, n, f, w)
  BY Parts, Zenon
<1> USE DEF MadeOf
<1>2. RemovePending(b) = [nodes |-> n, first_connected_pos |-> f, pending |-> None]
  BY <1>1 DEF RemovePending
<1>3. n \in Seq(H) /\ Len(n) <= K_VALUE /\ f \in Nat \cup {None} /\ (f # None => f < Len(n))
  BY <1>1
<1> QED BY <1>2, <1>3, FitsIs, Zenon

\* KBucket::update: the key is removed and inserted again.
LEMMA UpdateFits ==
  ASSUME NEW H \in SUBSET Key, NEW b, Fits(b, H), NEW k \in Keys(b), NEW s \in Status
  PROVE  Fits(Update(b, k, s), H)
<1> DEFINE c == RemoveNode(b, k)
           d == IF Position(b, k) = 0 /\ s = "Connected" THEN RemovePending(c) ELSE c
<1>1. Fits(c, H) /\ ~IsFull(c) /\ k \in H /\ ~IsPending(c, k)
  BY RemoveFits, Zenon
<1> HIDE DEF c
<1>2. Fits(RemovePending(c), H) /\ ~IsFull(RemovePending(c)) /\ ~IsPending(RemovePending(c), k)
  <2>1. RemovePending(c).nodes = c.nodes /\ RemovePending(c).pending = None
    BY <1>1 DEF Fits, RemovePending
  <2> QED BY <1>1, <2>1, RemovePendingFits, Zenon DEF IsFull, IsPending
<1>3. Update(b, k, s) = Insert(d, k, s)
  BY Zenon DEF Update, RemovePending, c
<1>4. Fits(d, H) /\ ~IsFull(d) /\ ~IsPending(d, k)
  BY <1>1, <1>2, Zenon
<1> HIDE DEF d
<1> QED BY <1>1, <1>3, <1>4, InsertFits, Zenon

\* KBucket::apply_pending in a full bucket: the eldest node makes room.
LEMMA ReplaceFits ==
  ASSUME NEW H, NEW b, Fits(b, H), b.pending = None, IsFull(b), b.first_connected_pos # 0,
         NEW k \in H, NEW s \in Status
  PROVE  Fits(Replace(b, k, s), H)
<1>1. PICK n, f, w : MadeOf(b, H, n, f, w)
  BY Parts, Zenon
<1>2. /\ b = [nodes |-> n, first_connected_pos |-> f, pending |-> None]
      /\ b.nodes = n /\ b.first_connected_pos = f
  BY <1>1 DEF MadeOf
<1>3. /\ n \in Seq(H) /\ Len(n) = K_VALUE /\ K_VALUE \in Nat /\ 0 \in 0..(Len(n) - 1)
      /\ f \in Nat \cup {None} /\ (f # None => f > 0 /\ f < Len(n))
  BY <1>1 DEF MadeOf, IsFull
<1>4. PICK m : m = VecRemove(n, 0)
  OBVIOUS
<1>5. m \in Seq(H) /\ Len(m) = Len(n) - 1
  BY <1>3, <1>4, VecRemoveFacts, Zenon
<1>6. ASSUME NEW o \in Seq(H), Len(o) = Len(m) + 1, NEW g \in Nat \cup {None}, g # None => g < Len(n)
      PROVE  Fits([nodes |-> o, first_connected_pos |-> g, pending |-> None], H)
  <2>1. Len(o) = Len(n) /\ Len(o) <= K_VALUE
    BY <1>3, <1>5, <1>6
  <2> QED BY <1>6, <2>1, FitsIs, Zenon
<1>7. PICK o : o = Append(m, k)
  BY Zenon
<1>8. o \in Seq(H) /\ Len(o) = Len(m) + 1
  BY <1>5, <1>7, AppendFacts, Zenon
<1>9. CASE s = "Connected"
  <2>1. PICK g : g = IF f = None THEN Len(m) ELSE f - 1
    BY Zenon
  <2>2. g \in Nat \cup {None} /\ (g # None => g < Len(n))
    BY <1>3, <1>5, <2>1
  <2>3. Replace(b, k, s) = [b EXCEPT !.nodes = o, !.first_connected_pos = g]
    BY <1>2, <1>4, <1>7, <1>9, <2>1, Zenon DEF Replace
  <2>4. Replace(b, k, s) = [nodes |-> o, first_connected_pos |-> g, pending |-> None]
    BY <1>2, <2>3, Rebuilt, Zenon
  <2> QED BY <1>6, <1>8, <2>2, <2>4, Zenon
<1>10. CASE s = "Disconnected" /\ f = None
  <2>1. Replace(b, k, s) = [b EXCEPT !.nodes = o]
    BY <1>2, <1>4, <1>7, <1>10 DEF Replace
  <2>2. Replace(b, k, s) = [nodes |-> o, first_connected_pos |-> f, pending |-> None]
    BY <1>2, <2>1, Rebuilt, Zenon
  <2> QED BY <1>6, <1>8, <1>10, <2>2, Zenon
<1>11. CASE s = "Disconnected" /\ f # None
  <2>1. PICK q : q = f - 1
    OBVIOUS
  <2>2. q \in 0..Len(m)
    BY <1>3, <1>5, <1>11, <2>1
  <2>3. PICK u : u = VecInsert(m, q, k)
    OBVIOUS
  <2>4. u \in Seq(H) /\ Len(u) = Len(m) + 1
    <3>1. m \in Seq(H)
      BY <1>5
    <3>2. /\ VecInsert(m, q, k) \in Seq(H) /\ Len(VecInsert(m, q, k)) = Len(m) + 1
          /\ Range(VecInsert(m, q, k)) \subseteq Range(m) \cup {k}
      BY <2>2, <3>1, VecInsertFacts, Zenon
    <3> QED BY <2>3, <3>2, Zenon
  <2>5. Replace(b, k, s) = [b EXCEPT !.nodes = u]
    BY <1>2, <1>4, <1>11, <2>1, <2>3, Zenon DEF Replace
  <2>6. Replace(b, k, s) = [nodes |-> u, first_connected_pos |-> f, pending |-> None]
    BY <1>2, <2>5, Rebuilt, Zenon
  <2>7. f < Len(n)
    BY <1>3, <1>11
  <2> QED BY <1>3, <1>6, <2>4, <2>6, <2>7, Zenon
<1> QED BY <1>9, <1>10, <1>11 DEF Status

\* KBucket::apply_pending.
LEMMA ApplyFits ==
  ASSUME NEW H \in SUBSET Key, NEW b, Fits(b, H)
  PROVE  Fits(ApplyPending(b), H)
<1>1. CASE ~PendingDue(b)
  BY <1>1, Zenon DEF ApplyPending
<1>2. CASE PendingDue(b)
  <2> DEFINE t == RemovePending(b)
             k == b.pending.key
             s == b.pending.status
  <2>a. PICK n, f, w : MadeOf(b, H, n, f, w)
    BY Parts, Zenon
  <2> USE DEF MadeOf
  <2>1. k \in H /\ s \in Status
    BY <1>2, <2>a DEF PendingDue, PendingNode
  <2>2. t = [nodes |-> n, first_connected_pos |-> f, pending |-> None]
    BY <2>a DEF RemovePending
  <2>3. Fits(t, H)
    BY RemovePendingFits, Zenon
  <2>4. ApplyPending(b) = Place(b, t)
    BY <1>2, Zenon DEF ApplyPending
  <2> HIDE DEF t
  <2>5. t.nodes = n /\ t.first_connected_pos = f /\ t.pending = None
    BY <2>2
  <2> HIDE DEF k, s
  <2>6. CASE ~IsFull(b)
    <3>1. Place(b, t) = Insert(t, k, s)
      BY <2>6, Zenon DEF Place, k, s
    <3>2. ~IsFull(t) /\ ~IsPending(t, k)
      BY <2>a, <2>5, <2>6 DEF IsFull, IsPending
    <3> QED BY <2>a, <2>1, <2>3, <2>4, <3>1, <3>2, InsertFits, Zenon
  <2>7. CASE IsFull(b) /\ StatusAt(b, 0) = "Connected"
    <3>1. Place(b, t) = t
      BY <2>7 DEF Place
    <3> QED BY <2>3, <2>4, <3>1, Zenon
  <2>8. CASE IsFull(b) /\ StatusAt(b, 0) = "Disconnected"
    <3>a. StatusAt(b, 0) # "Connected"
      BY <2>8
    <3>1. Place(b, t) = Replace(t, k, s)
      BY <2>8, <3>a, Zenon DEF Place, k, s
    <3>2. IsFull(t) /\ t.first_connected_pos # 0
      <4>1. Len(t.nodes) = K_VALUE
        BY <2>a, <2>5, <2>8 DEF IsFull
      <4>2. ASSUME f = 0 PROVE StatusAt(b, 0) = "Connected"
        <5>1. b.first_connected_pos = 0 /\ b.first_connected_pos # None
          BY <2>a, <4>2, ConstantsAssumption
        <5> QED BY <5>1 DEF StatusAt
      <4> QED BY <2>5, <3>a, <4>1, <4>2, Zenon DEF IsFull
    <3> QED BY <2>1, <2>3, <2>4, <2>5, <3>1, <3>2, ReplaceFits, Zenon
  <2> QED BY <2>6, <2>7, <2>8 DEF StatusAt
<1> QED BY <1>1, <1>2

LEMMA UpdatePendingFits ==
  ASSUME NEW H, NEW b, Fits(b, H), b.pending # None, NEW s \in Status
  PROVE  Fits(UpdatePending(b, s), H)
<1>1. PICK n, f, w : MadeOf(b, H, n, f, w)
  BY Parts, Zenon
<1> USE DEF MadeOf
<1> DEFINE v == [w EXCEPT !.status = s]
<1>2. v \in PendingNode /\ v.key \in H \ Range(n)
  BY <1>1 DEF PendingNode
<1>3. UpdatePending(b, s) = [nodes |-> n, first_connected_pos |-> f, pending |-> v]
  BY <1>1 DEF UpdatePending
<1> HIDE DEF v
<1>4. n \in Seq(H) /\ Len(n) <= K_VALUE /\ f \in Nat \cup {None} /\ (f # None => f < Len(n))
  BY <1>1
<1> QED BY <1>2, <1>3, <1>4, FitsIs, Zenon

\* Time passes.
LEMMA ElapseFits ==
  ASSUME NEW H, NEW b, Fits(b, H)
  PROVE  Fits(Elapse(b), H) /\ Elapse(b).nodes = b.nodes
<1>1. CASE b.pending # None /\ b.pending.replace > 0
  <2>1. PICK n, f, w : MadeOf(b, H, n, f, w)
    BY Parts, Zenon
  <2> USE DEF MadeOf
  <2> DEFINE v == [w EXCEPT !.replace = @ - 1]
  <2>2. v \in PendingNode /\ v.key \in H \ Range(n)
    BY <1>1, <2>1, ConstantsAssumption DEF PendingNode
  <2>3. Elapse(b) = [nodes |-> n, first_connected_pos |-> f, pending |-> v]
    BY <1>1, <2>1 DEF Elapse
  <2> HIDE DEF v
  <2>4. Fits(Elapse(b), H)
    <3>1. n \in Seq(H) /\ Len(n) <= K_VALUE /\ f \in Nat \cup {None} /\ (f # None => f < Len(n))
      BY <2>1
    <3> QED BY <2>2, <2>3, <3>1, FitsIs, Zenon
  <2> QED BY <2>1, <2>3, <2>4
<1>2. CASE ~(b.pending # None /\ b.pending.replace > 0)
  BY <1>2, Zenon DEF Elapse
<1> QED BY <1>1, <1>2, Zenon

-----------------------------------------------------------------------------
(* The inductive invariant: each bucket is in order and holds keys of its  *)
(* own; what an iterator has yielded are the keys of the buckets it has    *)
(* visited, in order.                                                      *)

BucketOK(b, i) == Fits(b, Home(i))

KeysOf(bs) == [v \in Bit |-> Keys(bs[v])]

Inv ==
  /\ buckets = [i \in Bit |-> buckets[i]]
  /\ \A i \in Bit : BucketOK(buckets[i], i)
  /\ applied_pending \in 0..MaxApplied
  /\ target \in KeyBytes \cup {None} /\ state \in Order!IterState /\ closest \in Seq(Key)
  /\ target # None =>
       /\ IterOK(DistanceFrom(target), state)
       /\ Walk(KeysOf(buckets), target, Visited(DistanceFrom(target), state), closest)

LEMMA IndexIs ==
  ASSUME NEW k \in Key
  PROVE  Index(k) \in Bit /\ k \in Home(Index(k))
<1>1. local_key \in KeyBytes /\ k \in KeyBytes /\ k # local_key
  BY TableAssumption
<1>2. DistanceFrom(k) \in KeyBytes
  BY <1>1, DistanceType DEF DistanceFrom
<1>3. DistanceFrom(k) # {}
  BY <1>1 DEF DistanceFrom, Distance
<1>4. \E i \in Bit : IsBucketIndex(DistanceFrom(k), i)
  BY <1>2, <1>3, HighestBit
<1> QED BY <1>4 DEF Index, Home

LEMMA HomeType == \A i : Home(i) \in SUBSET Key
BY DEF Home

LEMMA FitsType ==
  ASSUME NEW H, NEW b, Fits(b, H)
  PROVE  /\ b.nodes \in Seq(H) /\ (H \in SUBSET Key => b.nodes \in Seq(Key))
         /\ Keys(b) \subseteq H /\ b.first_connected_pos \in Nat \cup {None}
         /\ b.pending # None => b.pending.key \in H
BY DEF Fits, Keys, Range

LEMMA PushInRange ==
  ASSUME NEW I \in SUBSET Bit, Push(I), applied_pending \in 0..MaxApplied
  PROVE  applied_pending' \in 0..MaxApplied
<1> DEFINE S == {i \in I : Applied(buckets[i]) # None}
<1>1. NUM_BUCKETS \in Nat /\ MaxApplied \in Nat
  BY NumBucketsAssumption, TableAssumption
<1>2. IsFiniteSet(Bit)
  BY <1>1, FS_Interval DEF Bit
<1>3. IsFiniteSet(S)
  BY <1>2, FS_Subset
<1>4. Cardinality(S) \in Nat
  BY <1>3, FS_CardinalityType
<1>5. applied_pending' = applied_pending + Cardinality(S) /\ applied_pending' <= MaxApplied
  BY DEF Push
<1> HIDE DEF S
<1> QED BY <1>1, <1>4, <1>5

\* A bucket after entry, and what follows it, applied its pending node
LEMMA ApplyOK ==
  ASSUME NEW b, NEW i, BucketOK(b, i)
  PROVE  BucketOK(ApplyPending(b), i)
BY ApplyFits, HomeType, Zenon DEF BucketOK

LEMMA EntryThenStep ==
  ASSUME Inv, NEW k \in Key, NEW b, BucketOK(b, Index(k)), EntryThen(k, b)
  PROVE  Inv'
<1> DEFINE j == Index(k)
<1>1. j \in Bit
  BY IndexIs
<1>2. target = None /\ target' = None /\ state' = state /\ closest' = closest
      /\ buckets' = [buckets EXCEPT ![j] = b] /\ Push({j})
  BY DEF EntryThen
<1>3. applied_pending' \in 0..MaxApplied
  BY <1>1, <1>2, PushInRange DEF Inv
<1> HIDE DEF j
<1>4. buckets' = [i \in Bit |-> IF i = j THEN b ELSE buckets[i]]
  BY <1>1, <1>2 DEF Inv
<1>5. BucketOK(b, j)
  BY DEF j
<1>6. \A i \in Bit : BucketOK(buckets'[i], i)
  BY <1>4, <1>5 DEF Inv
<1>7. buckets' = [i \in Bit |-> buckets'[i]]
  BY <1>4
<1> QED BY <1>2, <1>3, <1>6, <1>7 DEF Inv

LEMMA EntryStep ==
  ASSUME Inv, NEW k \in Key
  PROVE  /\ \A s \in Status : EntryInsert(k, s) \/ EntryUpdate(k, s) => Inv'
         /\ EntryRemove(k) => Inv'
<1> DEFINE j == Index(k)
           b == ApplyPending(buckets[j])
<1>1. j \in Bit /\ k \in Home(j) /\ Home(j) \in SUBSET Key
  BY IndexIs, HomeType
<1>2. BucketOK(b, j)
  BY <1>1, ApplyOK DEF Inv
<1>3. Fits(b, Home(j))
  BY <1>2 DEF BucketOK
<1>4. ASSUME NEW s \in Status, EntryInsert(k, s) PROVE Inv'
  <2>1. k \notin Keys(b) /\ ~IsPending(b, k) /\ EntryThen(k, Insert(b, k, s))
    BY <1>4 DEF EntryInsert
  <2> HIDE DEF b
  <2>2. BucketOK(Insert(b, k, s), j)
    BY <1>1, <1>3, <2>1, InsertFits, Zenon DEF BucketOK
  <2> QED BY <2>1, <2>2, EntryThenStep
<1>5. ASSUME NEW s \in Status, EntryUpdate(k, s) PROVE Inv'
  <2>1. \/ k \in Keys(b) /\ EntryThen(k, Update(b, k, s))
        \/ IsPending(b, k) /\ EntryThen(k, UpdatePending(b, s))
    BY <1>5 DEF EntryUpdate
  <2> HIDE DEF b
  <2>2. k \in Keys(b) => BucketOK(Update(b, k, s), j)
    BY <1>1, <1>3, UpdateFits, Zenon DEF BucketOK
  <2>3. IsPending(b, k) => BucketOK(UpdatePending(b, s), j)
    BY <1>3, UpdatePendingFits, Zenon DEF BucketOK, IsPending
  <2> QED BY <2>1, <2>2, <2>3, EntryThenStep
<1>6. ASSUME EntryRemove(k) PROVE Inv'
  <2>1. \/ k \in Keys(b) /\ EntryThen(k, RemoveNode(b, k))
        \/ IsPending(b, k) /\ EntryThen(k, RemovePending(b))
    BY <1>6 DEF EntryRemove
  <2> HIDE DEF b
  <2>2. k \in Keys(b) => BucketOK(RemoveNode(b, k), j)
    BY <1>1, <1>3, RemoveFits, Zenon DEF BucketOK
  <2>3. BucketOK(RemovePending(b), j)
    BY <1>3, RemovePendingFits, Zenon DEF BucketOK
  <2> QED BY <2>1, <2>2, <2>3, EntryThenStep
<1> QED BY <1>4, <1>5, <1>6

LEMMA IterStepOfTable == Inv /\ Iter => Inv'
<1> SUFFICES ASSUME Inv, Iter PROVE Inv'
  OBVIOUS
<1>1. target = None /\ target' = None /\ state' = state /\ closest' = closest /\ Push(Bit)
      /\ buckets' = [i \in Bit |-> ApplyPending(buckets[i])]
  BY DEF Iter
<1>2. applied_pending' \in 0..MaxApplied
  BY <1>1, PushInRange DEF Inv
<1>3. \A i \in Bit : BucketOK(ApplyPending(buckets[i]), i)
  BY ApplyOK DEF Inv
<1>4. \A i \in Bit : BucketOK(buckets'[i], i)
  BY <1>1, <1>3
<1>5. buckets' = [i \in Bit |-> buckets'[i]]
  BY <1>1
<1> QED BY <1>1, <1>2, <1>4, <1>5 DEF Inv

LEMMA ClosestStep ==
  ASSUME Inv, NEW t \in KeyBytes, Closest(t)
  PROVE  Inv'
<1>1. PICK st \in Order!IterState : Order!IsStart(DistanceFrom(t), st) /\ state' = st
  BY DEF Closest
<1>2. target' = t /\ closest' = << >> /\ buckets' = buckets /\ applied_pending' = applied_pending
  BY DEF Closest
<1>3. st.tag = "Start"
  BY <1>1 DEF Order!IsStart, Order!At
<1>4. IterOK(DistanceFrom(t), st) /\ Visited(DistanceFrom(t), st) = {}
  BY <1>1, <1>3 DEF IterOK, Visited
<1>5. Walk(KeysOf(buckets), t, {}, << >>)
  BY DEF Walk
<1> QED BY <1>1, <1>2, <1>4, <1>5 DEF Inv

\* A bucket that has room for a single key never loses it to a pending node.
LEMMA ApplyKeepsSingle ==
  ASSUME NEW b, BucketOK(b, 0)
  PROVE  Keys(b) \subseteq Keys(ApplyPending(b))
<1> SUFFICES ASSUME NEW k \in Keys(b) PROVE k \in Keys(ApplyPending(b))
  OBVIOUS
<1>1. b.pending = None
  <2>1. SUFFICES ASSUME b.pending # None PROVE FALSE
    OBVIOUS
  <2>2. b.pending.key \in Home(0) /\ k \in Home(0) /\ b.pending.key \notin Keys(b)
    BY <2>1 DEF BucketOK, Fits, Keys, Range
  <2> QED BY <2>2, OneKeyInBucketZero
<1>2. ApplyPending(b) = b
  BY <1>1 DEF ApplyPending, PendingDue
<1> QED BY <1>2

LEMMA ClosestNextStep == Inv /\ ClosestNext => Inv'
<1> SUFFICES ASSUME Inv, ClosestNext PROVE Inv'
  OBVIOUS
<1> DEFINE d == DistanceFrom(target)
           V == Visited(d, state)
           P == KeysOf(buckets)
<1>1. target # None /\ target' = target /\ target \in KeyBytes
  BY DEF ClosestNext, Inv
<1>2. d \in KeyBytes
  BY <1>1, DistanceType, TableAssumption DEF DistanceFrom
<1>3. IterOK(d, state) /\ Walk(P, target, V, closest) /\ closest \in Seq(Key)
  BY <1>1 DEF Inv
<1>4. PICK st \in Order!IterState :
        /\ Order!IterNext(d, state, st)
        /\ state' = st
        /\ IF st = Order!Done
           THEN UNCHANGED <<buckets, applied_pending, closest>>
           ELSE /\ Push({st.i})
                /\ buckets' = [buckets EXCEPT ![st.i] = ApplyPending(@)]
                /\ closest' = closest \o BucketKeys(buckets[st.i])
  BY Zenon DEF ClosestNext
<1> DEFINE W == Visited(d, st)
<1>5. /\ IterOK(d, st)
      /\ st = Order!Done => V = Bit
      /\ st # Order!Done => /\ st.i \in Bit
                            /\ W = V \cup {st.i}
                            /\ st.i \in V => st.i = 0
                            /\ \A v \in V : v = st.i \/ Before(d, v, st.i)
  BY <1>2, <1>3, <1>4, IterStep, Zenon
<1>6. CASE st = Order!Done
  <2>1. W = Bit
    BY <1>6, IterStateType DEF Visited
  <2>2. buckets' = buckets /\ applied_pending' = applied_pending /\ closest' = closest
    BY <1>4, <1>6
  <2> QED BY <1>1, <1>3, <1>4, <1>5, <1>6, <2>1, <2>2, Zenon DEF Inv
<1>7. CASE st # Order!Done
  <2> DEFINE j == st.i
             b == buckets[j]
             a == ApplyPending(b)
             r == [v \in Bit |-> IF v = j THEN a ELSE buckets[v]]
             Q == KeysOf(r)
  <2>1. j \in Bit /\ W = V \cup {j} /\ (j \in V => j = 0) /\ V \in SUBSET Bit
    BY <1>5, <1>7 DEF Visited
  <2>2. Push({j}) /\ buckets' = [buckets EXCEPT ![j] = a] /\ closest' = closest \o BucketKeys(b)
    BY <1>4, <1>7
  <2>3. buckets' = r
    BY <2>1, <2>2 DEF Inv
  <2>4. applied_pending' \in 0..MaxApplied
    BY <2>1, <2>2, PushInRange DEF Inv
  <2>5. BucketOK(b, j) /\ BucketOK(a, j)
    BY <2>1, ApplyOK DEF Inv
  <2>6. \A v \in V : v = j \/ Before(d, v, j)
    BY <1>5, <1>7
  <2>7. j \in V => j = 0 /\ Keys(b) \subseteq Keys(a)
    BY <2>1, <2>5, ApplyKeepsSingle
  <2>8. /\ BucketKeys(b) \in Seq(Key) /\ Range(BucketKeys(b)) = Keys(a)
        /\ \A m, n \in 1..Len(BucketKeys(b)) : m < n => Nearer(target, BucketKeys(b)[m], BucketKeys(b)[n])
    <3>1. a.nodes \in Seq(Key)
      <4> HIDE DEF a, b
      <4>1. Fits(a, Home(j)) /\ Home(j) \in SUBSET Key
        BY <2>5, HomeType, Zenon DEF BucketOK
      <4> HIDE DEF j
      <4> QED BY <4>1, FitsType, Zenon
    <3> QED BY <1>1, <3>1, BucketKeysSorted DEF Inv
  <2>9. \A v \in Bit : BucketOK(r[v], v) /\ BucketOK(buckets[v], v)
    BY <2>5, ZenonT(30) DEF Inv
  <2>10. /\ \A v \in Bit : P[v] \subseteq Home(v) /\ Q[v] \subseteq Home(v)
         /\ \A v \in Bit : v # j => Q[v] = P[v]
         /\ P[j] = Keys(b) /\ Q[j] = Keys(a)
    BY <2>1, <2>9, FitsType DEF KeysOf, BucketOK
  <2> HIDE DEF Q, P, V, d, j, b, a
  <2>11. closest' \in Seq(Key) /\ Walk(Q, target, V \cup {j}, closest')
    <3> DEFINE s == BucketKeys(b)
    <3> HIDE DEF s
    <3>1. /\ s \in Seq(Key) /\ Range(s) = Q[j] /\ closest' = closest \o s
          /\ \A m, n \in 1..Len(s) : m < n => Nearer(target, s[m], s[n])
      BY <2>2, <2>8, <2>10, Zenon DEF s
    <3>2. j \in V => j = 0 /\ P[j] \subseteq Q[j]
      BY <2>7, <2>10
    <3>3. \A v \in V : v = j \/ Before(DistanceFrom(target), v, j)
      BY <2>6 DEF d
    <3> QED BY <1>1, <1>3, <2>1, <2>10, <3>1, <3>2, <3>3, WalkStep, Zenon
  <2>12. buckets' = [v \in Bit |-> buckets'[v]] /\ \A v \in Bit : BucketOK(buckets'[v], v)
    BY <2>3, <2>9
  <2>13. Walk(KeysOf(buckets'), target, Visited(DistanceFrom(target), st), closest')
    BY <2>1, <2>3, <2>11 DEF Q, d
  <2>14. IterOK(DistanceFrom(target), st)
    BY <1>5 DEF d
  <2> QED BY <1>1, <1>4, <2>4, <2>11, <2>12, <2>13, <2>14, ZenonT(30) DEF Inv
<1> QED BY <1>6, <1>7

LEMMA TickStep == Inv /\ Tick => Inv'
<1> SUFFICES ASSUME Inv, Tick PROVE Inv'
  OBVIOUS
<1>1. /\ buckets' = [i \in Bit |-> Elapse(buckets[i])]
      /\ applied_pending' = applied_pending /\ target' = target /\ state' = state /\ closest' = closest
  BY DEF Tick
<1>2. ASSUME NEW i \in Bit
      PROVE  BucketOK(Elapse(buckets[i]), i) /\ Keys(Elapse(buckets[i])) = Keys(buckets[i])
  <2> DEFINE b == buckets[i]
             e == Elapse(b)
  <2>1. Fits(b, Home(i))
    BY DEF Inv, BucketOK
  <2> HIDE DEF b
  <2>2. Fits(e, Home(i)) /\ e.nodes = b.nodes
    BY <2>1, ElapseFits, Zenon
  <2> QED BY <2>2, Zenon DEF e, b, BucketOK, Keys
<1>3. buckets' = [i \in Bit |-> buckets'[i]] /\ \A i \in Bit : BucketOK(buckets'[i], i)
  BY <1>1, <1>2
<1>4. KeysOf(buckets') = KeysOf(buckets)
  BY <1>1, <1>2 DEF KeysOf
<1> QED BY <1>1, <1>3, <1>4 DEF Inv

LEMMA InvInit == Init => Inv
<1> SUFFICES ASSUME Init PROVE Inv
  OBVIOUS
<1>2. \A i \in Bit : BucketOK(New, i)
  BY NewFits, Zenon DEF BucketOK
<1>3. Order!Done \in Order!IterState
  BY NumBucketsAssumption DEF Order!IterState, Order!Done, Order!At, Order!Bit
<1>4. /\ buckets = [i \in Bit |-> New] /\ applied_pending = 0
      /\ target = None /\ state = Order!Done /\ closest = << >>
  BY DEF Init
<1>5. buckets = [i \in Bit |-> buckets[i]] /\ \A i \in Bit : BucketOK(buckets[i], i)
  BY <1>2, <1>4
<1>6. applied_pending \in 0..MaxApplied
  BY <1>4, TableAssumption
<1> QED BY <1>3, <1>4, <1>5, <1>6 DEF Inv

LEMMA InvNext == Inv /\ [Next]_vars => Inv'
<1> SUFFICES ASSUME Inv, [Next]_vars PROVE Inv'
  OBVIOUS
<1>1. ASSUME NEW k \in Key, NEW s \in Status, EntryInsert(k, s) \/ EntryUpdate(k, s) PROVE Inv'
  BY <1>1, EntryStep
<1>2. ASSUME NEW k \in Key, EntryRemove(k) PROVE Inv'
  BY <1>2, EntryStep
<1>3. CASE Iter
  BY <1>3, IterStepOfTable
<1>4. CASE TakeAppliedPending
  <2>1. applied_pending' \in 0..MaxApplied
    BY <1>4, TableAssumption DEF Inv, TakeAppliedPending
  <2>2. buckets' = buckets /\ target' = target /\ state' = state /\ closest' = closest
    BY <1>4 DEF TakeAppliedPending
  <2> QED BY <2>1, <2>2 DEF Inv
<1>5. ASSUME NEW t \in KeyBytes, Closest(t) PROVE Inv'
  BY <1>5, ClosestStep
<1>6. CASE ClosestNext
  BY <1>6, ClosestNextStep
<1>7. CASE ClosestDrop
  <2>1. Order!Done \in Order!IterState
    BY NumBucketsAssumption DEF Order!IterState, Order!Done, Order!At, Order!Bit
  <2>2. /\ buckets' = buckets /\ applied_pending' = applied_pending
        /\ target' = None /\ state' = Order!Done /\ closest' = << >>
    BY <1>7 DEF ClosestDrop
  <2> QED BY <2>1, <2>2 DEF Inv
<1>8. CASE Tick
  BY <1>8, TickStep
<1>9. CASE UNCHANGED vars
  BY <1>9 DEF vars, Inv
<1> QED BY <1>1, <1>2, <1>3, <1>4, <1>5, <1>6, <1>7, <1>8, <1>9 DEF Next

\* The invariant of the table and of its iterator: every bucket is in order and
\* holds only keys at its own distance (kbucket/mod.rs:193-196), and what
\* ClosestIter has yielded are, in order, the keys of the buckets it has
\* visited (kbucket/mod.rs:454-481).
THEOREM InvAlways == Spec => []Inv
BY InvInit, InvNext, PTL DEF Spec

\* kbucket/mod.rs:193-196: whatever the entries do and whenever pending nodes
\* are applied, a key is only ever in the bucket of its distance.
THEOREM TypeOKAlways == Spec => []TypeOK
<1>1. ASSUME Inv PROVE TypeOK
  <2>1. ASSUME NEW i \in Bit
        PROVE  /\ \A k \in Keys(buckets[i]) : k \in Key /\ IsBucketIndex(DistanceFrom(k), i)
               /\ \A k \in Key : IsPending(buckets[i], k) => IsBucketIndex(DistanceFrom(k), i)
               /\ buckets[i].first_connected_pos \in Nat \cup {None}
    <3>1. Fits(buckets[i], Home(i))
      BY <1>1, Zenon DEF Inv, BucketOK
    <3>2. /\ Keys(buckets[i]) \subseteq Home(i) /\ buckets[i].first_connected_pos \in Nat \cup {None}
          /\ buckets[i].pending # None => buckets[i].pending.key \in Home(i)
      BY <3>1, FitsType, Zenon
    <3> QED BY <3>2 DEF Home, IsPending
  <2> QED BY <1>1, <2>1 DEF TypeOK, Inv
<1> QED BY <1>1, InvAlways, PTL

\* kbucket/mod.rs:259-260, 277-278, 454-481: whenever the caller of closest or
\* closest_keys stops, what it got are the nearest keys of the table, nearest
\* first, although pending nodes take slots while the iterator is under way.
THEOREM NearestFirstAlways == Spec => []NearestFirst
<1>1. ASSUME Inv PROVE NearestFirst
  <2> SUFFICES ASSUME target # None
               PROVE  /\ \A m, n \in 1..Len(closest) :
                           m < n => ~Less(Distance(target, closest[n]), Distance(target, closest[m]))
                      /\ \A k \in Table \ Range(closest), n \in 1..Len(closest) :
                           Less(Distance(target, closest[n]), Distance(target, k))
    BY DEF NearestFirst
  <2> DEFINE d == DistanceFrom(target)
             V == Visited(d, state)
  <2>1. target \in KeyBytes /\ IterOK(d, state) /\ Walk(KeysOf(buckets), target, V, closest)
    BY <1>1 DEF Inv
  <2>2. d \in KeyBytes /\ V \subseteq Bit
    BY <2>1, DistanceType, TableAssumption DEF DistanceFrom, Visited
  <2>3. \A v \in Bit : KeysOf(buckets)[v] = Keys(buckets[v]) /\ Keys(buckets[v]) \subseteq Home(v)
    BY <1>1, FitsType DEF Inv, KeysOf, BucketOK
  <2>4. ASSUME NEW k \in Table \ Range(closest), NEW n \in 1..Len(closest)
        PROVE  Nearer(target, closest[n], k)
    <3>1. PICK i \in Bit : k \in Keys(buckets[i])
      BY Zenon DEF Table
    <3>2. i \notin V
      BY <2>1, <2>3, <3>1, ZenonT(30) DEF Walk
    <3>3. PICK v \in V : closest[n] \in Keys(buckets[v])
      BY <2>1, <2>2, <2>3 DEF Walk
    <3>4. Before(d, v, i)
      BY <2>1, <2>2, <3>2, VisitedBefore, ZenonT(30)
    <3>5. v \in Bit /\ closest[n] \in Home(v) /\ k \in Home(i)
      BY <2>2, <2>3, <3>1, <3>3
    <3> QED BY <2>1, <3>4, <3>5, NearerBucket
  <2> QED BY <2>1, <2>4, Zenon DEF Walk, Nearer
<1> QED BY <1>1, InvAlways, PTL

\* kbucket/mod.rs:454-481: an iterator driven to its end has yielded all the
\* keys of the table and no other.
THEOREM ClosestCompleteAlways == Spec => []ClosestComplete
<1>1. ASSUME Inv PROVE ClosestComplete
  <2> SUFFICES ASSUME target # None, state = Order!Done PROVE Range(closest) = Table
    BY DEF ClosestComplete
  <2>1. Walk(KeysOf(buckets), target, Visited(DistanceFrom(target), state), closest)
        /\ closest \in Seq(Key) /\ state \in Order!IterState
    BY <1>1 DEF Inv
  <2>2. Visited(DistanceFrom(target), state) = Bit
    BY <2>1, IterStateType DEF Visited
  <2>3. \A v \in Bit : KeysOf(buckets)[v] = Keys(buckets[v])
    BY DEF KeysOf
  <2>4. DOMAIN closest = 1..Len(closest)
    BY <2>1
  <2>5. Range(closest) \subseteq Table
    <3>1. ASSUME NEW n \in 1..Len(closest) PROVE closest[n] \in Table
      <4>1. PICK v \in Bit : closest[n] \in Keys(buckets[v])
        BY <2>1, <2>2, <2>3, Zenon DEF Walk
      <4> QED BY <4>1, Zenon DEF Table
    <3> QED BY <2>4, <3>1, Zenon DEF Range
  <2>6. Table \subseteq Range(closest)
    <3>1. \A v \in Bit : Keys(buckets[v]) \subseteq Range(closest)
      BY <2>1, <2>2, <2>3, Zenon DEF Walk
    <3> QED BY <3>1, Zenon DEF Table
  <2> QED BY <2>5, <2>6
<1> QED BY <1>1, InvAlways, PTL
=============================================================================
