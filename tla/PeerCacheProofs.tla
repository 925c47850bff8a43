--------------------------- MODULE PeerCacheProofs ---------------------------
(***************************************************************************)
(* Proofs about PeerCache.tla, for any keys and addresses, any capacity    *)
(* and any age.                                                            *)
(***************************************************************************)
EXTENDS PeerCache, FiniteSetTheorems, TLAPS

\* SMT has 30 seconds for each step; the steps it is not suited for name Zenon.
USE SMTT(30)

-----------------------------------------------------------------------------
(* The two orders, of the keys and of the addresses of a key, as one idea: *)
(* s lists the set X without repetition, by increasing w.                  *)

LEMMA LeastNatural ==
  ASSUME NEW S \in SUBSET Nat, S # {}
  PROVE  \E i \in S : \A j \in S : i <= j
<1>1. PICK i \in S : \A j \in S : ~(<<j, i>> \in OpToRel(<, Nat))
  BY NatLessThanWellFounded, WFMin, Zenon
<1>2. \A j \in S : ~(j < i)
  BY <1>1, Zenon DEF OpToRel
<1> QED BY <1>2

Ordered(s, X, w) ==
  /\ s \in Seq(X) /\ Distinct(s) /\ Range(s) = X
  /\ \A i, j \in 1..Len(s) : i < j => w[s[i]] <= w[s[j]]

LEMMA OrderedFacts ==
  ASSUME NEW s, NEW X, NEW w, Ordered(s, X, w)
  PROVE  /\ s \in Seq(X) /\ Len(s) \in Nat /\ DOMAIN s = 1..Len(s)
         /\ \A i \in 1..Len(s) : s[i] \in X
         /\ \A x \in X : \E i \in 1..Len(s) : s[i] = x
         /\ \A i, j \in 1..Len(s) : s[i] = s[j] => i = j
         /\ \A i, j \in 1..Len(s) : i < j => w[s[i]] <= w[s[j]]
         /\ (s = << >> <=> X = {}) /\ (s = << >> <=> Len(s) = 0)
<1> QED BY DEF Ordered, Distinct, Range

\* t lists the set Y in the order of s: its n elements have the positions g in s.
Picks(t, Y, n, s, g) ==
  /\ n \in Nat /\ t \in [1..n -> Y] /\ g \in [1..n -> 1..Len(s)]
  /\ \A i, j \in 1..n : i < j => g[i] < g[j]
  /\ \A i \in 1..n : t[i] = s[g[i]]
  /\ \A y \in Y : \E i \in 1..n : t[i] = y

LEMMA Sublist ==
  ASSUME NEW s, NEW X, NEW w, Ordered(s, X, w),
         NEW t, NEW Y, NEW n, NEW g, Picks(t, Y, n, s, g)
  PROVE  Ordered(t, Y, w) /\ Len(t) = n
<1> USE DEF Picks
<1>0. /\ Len(s) \in Nat /\ \A i, j \in 1..Len(s) : s[i] = s[j] => i = j
      /\ \A i, j \in 1..Len(s) : i < j => w[s[i]] <= w[s[j]]
  BY OrderedFacts
<1>1. Len(s) \in Nat /\ \A i \in 1..n : g[i] \in 1..Len(s) /\ g[i] \in Nat
  BY <1>0
<1>2. t \in Seq(Y) /\ Len(t) = n /\ DOMAIN t = 1..n
  OBVIOUS
<1>3. \A i, j \in 1..n : i # j => t[i] # t[j]
  <2> SUFFICES ASSUME NEW i \in 1..n, NEW j \in 1..n, i # j PROVE t[i] # t[j]
    OBVIOUS
  <2>1. g[i] \in 1..Len(s) /\ g[j] \in 1..Len(s) /\ t[i] = s[g[i]] /\ t[j] = s[g[j]]
    BY <1>1
  <2>2. g[i] # g[j]
    BY <1>1
  <2> QED BY <1>0, <2>1, <2>2, Zenon
<1>4. \A i, j \in 1..n : i < j => w[t[i]] <= w[t[j]]
  <2> SUFFICES ASSUME NEW i \in 1..n, NEW j \in 1..n, i < j PROVE w[t[i]] <= w[t[j]]
    OBVIOUS
  <2>1. g[i] \in 1..Len(s) /\ g[j] \in 1..Len(s) /\ t[i] = s[g[i]] /\ t[j] = s[g[j]] /\ g[i] < g[j]
    BY <1>1
  <2> QED BY <1>0, <2>1, Zenon
<1> QED BY <1>2, <1>3, <1>4 DEF Ordered, Distinct, Range

LEMMA DrainOrdered ==
  ASSUME NEW s, NEW X, NEW w, Ordered(s, X, w), NEW n \in 0..Len(s)
  PROVE  /\ Ordered(Drain(s, n), X \ {s[i] : i \in 1..n}, w)
         /\ Len(Drain(s, n)) = Len(s) - n
         /\ \A i \in 1..(Len(s) - n) : Drain(s, n)[i] = s[i + n]
<1> DEFINE t == Drain(s, n)
           m == Len(s) - n
           Y == X \ {s[i] : i \in 1..n}
           g == [i \in 1..m |-> i + n]
<1>1. s \in Seq(X) /\ Len(s) \in Nat /\ n \in Nat /\ m \in Nat
  BY OrderedFacts
<1>2. t = [i \in 1..m |-> s[i + n]]
  BY DEF Drain
<1> HIDE DEF t
<1>3. t = [i \in 1..m |-> t[i]] /\ \A i \in 1..m : t[i] = s[i + n]
  BY <1>2
<1>4. g \in [1..m -> 1..Len(s)] /\ \A i \in 1..m : g[i] = i + n
  BY <1>1
<1>5. \A i \in 1..m : t[i] \in Y
  <2> SUFFICES ASSUME NEW i \in 1..m PROVE t[i] \in Y
    BY Zenon
  <2>1. s[i + n] \in X /\ \A j \in 1..n : s[j] # s[i + n]
    BY <1>1, OrderedFacts
  <2> QED BY <1>3, <2>1
<1>6. \A y \in Y : \E i \in 1..m : t[i] = y
  <2> SUFFICES ASSUME NEW y \in Y PROVE \E i \in 1..m : t[i] = y
    OBVIOUS
  <2>1. PICK k \in 1..Len(s) : s[k] = y
    BY OrderedFacts
  <2>2. k - n \in 1..m /\ (k - n) + n = k
    BY <2>1
  <2> QED BY <1>3, <2>1, <2>2
<1> HIDE DEF g, m, Y
<1>7. Ordered(t, Y, w) /\ Len(t) = m
  <2>1. Picks(t, Y, m, s, g)
    BY <1>1, <1>3, <1>4, <1>5, <1>6 DEF Picks
  <2> QED BY <2>1, Sublist
<1> QED BY <1>3, <1>7 DEF t, Y, m

LEMMA TailIsDrain ==
  ASSUME NEW s, NEW X, s \in Seq(X), s # << >>
  PROVE  Tail(s) = Drain(s, 1)
<1> DEFINE t == Drain(s, 1)
           n == Len(s)
<1> HIDE DEF t
<1> QED BY DEF Drain

LEMMA PositionIs ==
  ASSUME NEW s, NEW X, s \in Seq(X), NEW x \in Range(s)
  PROVE  VecPosition(s, x) \in 0..(Len(s) - 1) /\ s[VecPosition(s, x) + 1] = x
<1> DEFINE S == {p \in Nat : p + 1 \in 1..Len(s) /\ s[p + 1] = x}
<1>1. PICK i \in 1..Len(s) : s[i] = x
  BY DEF Range
<1>2. i - 1 \in S
  BY <1>1
<1> HIDE DEF S
<1>3. PICK p \in S : \A q \in S : p <= q
  BY <1>2, LeastNatural, Zenon DEF S
<1>4. p \in 0..(Len(s) - 1) /\ s[p + 1] = x
  BY DEF S
<1>5. ASSUME NEW q \in 0..(p - 1) PROVE s[q + 1] # x
  BY <1>3 DEF S
<1> QED BY <1>4, <1>5, Zenon DEF VecPosition

LEMMA WithoutOrdered ==
  ASSUME NEW s, NEW X, NEW w, Ordered(s, X, w), NEW x
  PROVE  /\ Ordered(VecWithout(s, x), X \ {x}, w)
         /\ x \in X => Len(VecWithout(s, x)) = Len(s) - 1
<1>1. CASE x \notin X
  BY <1>1 DEF VecWithout, Ordered
<1>2. CASE x \in X
  <2> DEFINE p == VecPosition(s, x)
             m == Len(s) - 1
             t == VecRemove(s, p)
             Y == X \ {x}
             g == [i \in 1..m |-> IF i <= p THEN i ELSE i + 1]
  <2>1. /\ Len(s) \in Nat /\ DOMAIN s = 1..Len(s) /\ s \in Seq(X) /\ Range(s) = X
        /\ \A i \in 1..Len(s) : s[i] \in X
        /\ \A y \in X : \E i \in 1..Len(s) : s[i] = y
        /\ \A i, j \in 1..Len(s) : s[i] = s[j] => i = j
    BY OrderedFacts DEF Ordered
  <2>2. p \in 0..m /\ s[p + 1] = x /\ VecWithout(s, x) = t
    BY <1>2, <2>1, PositionIs, Zenon DEF VecWithout
  <2> HIDE DEF p
  <2>3. m \in Nat /\ p \in Nat /\ p + 1 \in 1..Len(s)
    BY <2>2
  <2>4. t = [i \in 1..m |-> IF i <= p THEN s[i] ELSE s[i + 1]]
    BY DEF VecRemove
  <2>5. g \in [1..m -> 1..Len(s)] /\ \A i \in 1..m : g[i] = IF i <= p THEN i ELSE i + 1
    OBVIOUS
  <2>6. \A i, j \in 1..m : i < j => g[i] < g[j]
    BY <2>3
  <2> HIDE DEF g
  <2>7. \A i \in 1..m : t[i] = s[g[i]] /\ g[i] # p + 1
    BY <2>3, <2>4, <2>5
  <2>8. t \in [1..m -> Y]
    <3>1. ASSUME NEW i \in 1..m PROVE t[i] \in Y
      <4> QED BY <2>1, <2>2, <2>3, <2>5, <2>7
    <3> QED BY <2>4, <3>1
  <2>9. ASSUME NEW y \in Y PROVE \E i \in 1..m : t[i] = y
    <3>1. PICK k \in 1..Len(s) : s[k] = y
      BY <2>1
    <3>2. CASE k <= p
      BY <2>2, <2>4, <3>1, <3>2
    <3>3. CASE k > p + 1
      <4>1. k - 1 \in 1..m /\ ~(k - 1 <= p) /\ (k - 1) + 1 = k
        BY <2>3, <3>3
      <4> QED BY <2>4, <3>1, <4>1
    <3> QED BY <2>2, <3>1, <3>2, <3>3
  <2> HIDE DEF t, Y, m
  <2>10. Picks(t, Y, m, s, g)
    BY <2>3, <2>5, <2>6, <2>7, <2>8, <2>9 DEF Picks
  <2> QED BY <2>2, <2>10, Sublist DEF Y, m
<1> QED BY <1>1, <1>2

\* The last element stays the last when another is removed.
LEMMA WithoutLast ==
  ASSUME NEW s, NEW X, NEW w, Ordered(s, X, w), NEW x \in X, NEW y \in X,
         s[Len(s)] = y, x # y
  PROVE  LET t == VecWithout(s, x) IN Len(t) > 0 /\ t[Len(t)] = y
<1> DEFINE p == VecPosition(s, x)
           t == VecRemove(s, p)
<1>1. p \in 0..(Len(s) - 1) /\ s[p + 1] = x /\ VecWithout(s, x) = t
  BY PositionIs DEF VecWithout, Ordered
<1> HIDE DEF p
<1> QED BY <1>1 DEF VecRemove

LEMMA PushOrdered ==
  ASSUME NEW s, NEW X, NEW w, Ordered(s, X, w), NEW x, x \notin X,
         \A y \in X : w[y] <= w[x]
  PROVE  /\ Ordered(Append(s, x), X \cup {x}, w)
         /\ Len(Append(s, x)) = Len(s) + 1 /\ Append(s, x)[Len(s) + 1] = x
<1> DEFINE t == Append(s, x)
           Y == X \cup {x}
           n == Len(s)
<1>1. /\ n \in Nat /\ DOMAIN s = 1..n /\ s \in Seq(X)
      /\ \A i \in 1..n : s[i] \in X
      /\ \A y \in X : \E i \in 1..n : s[i] = y
      /\ \A i, j \in 1..n : s[i] = s[j] => i = j
      /\ \A i, j \in 1..n : i < j => w[s[i]] <= w[s[j]]
  BY OrderedFacts
<1>2. t \in Seq(Y) /\ Len(t) = n + 1 /\ t[n + 1] = x /\ \A i \in 1..n : t[i] = s[i]
  BY <1>1
<1> HIDE DEF t, Y, n
<1>3. \A i, j \in 1..(n + 1) : i < j => w[t[i]] <= w[t[j]]
  <2> SUFFICES ASSUME NEW i \in 1..(n + 1), NEW j \in 1..(n + 1), i < j PROVE w[t[i]] <= w[t[j]]
    OBVIOUS
  <2> QED BY <1>1, <1>2
<1> QED BY <1>1, <1>2 DEF Ordered, Distinct, Range

LEMMA Reweight ==
  ASSUME NEW s, NEW X, NEW w, Ordered(s, X, w), NEW v,
         \A x, y \in X : w[x] <= w[y] => v[x] <= v[y]
  PROVE  Ordered(s, X, v)
<1> QED BY DEF Ordered

LEMMA MoveLastOrdered ==
  ASSUME NEW s, NEW X, NEW w, Ordered(s, X, w), NEW x, NEW v,
         \A y \in X : y # x => v[y] = w[y],
         \A y \in X \cup {x} : v[y] <= v[x]
  PROVE  /\ Ordered(MoveLast(s, x), X \cup {x}, v)
         /\ Len(MoveLast(s, x)) > 0 /\ MoveLast(s, x)[Len(MoveLast(s, x))] = x
<1> DEFINE t == VecWithout(s, x)
           Y == X \ {x}
<1>1. Ordered(t, Y, w)
  BY WithoutOrdered
<1> HIDE DEF t
<1>2. Y \cup {x} = X \cup {x} /\ x \notin Y /\ \A y \in Y : v[y] <= v[x]
  OBVIOUS
<1> HIDE DEF Y
<1> QED BY <1>1, <1>2, Reweight, PushOrdered DEF MoveLast, t

LEMMA PrefixLenIs ==
  ASSUME NEW s, Len(s) \in Nat, NEW P
  PROVE  LET n == PrefixLen(s, P)
         IN  n \in 0..Len(s) /\ (\A i \in 1..n : s[i] \in P) /\ (n < Len(s) => s[n + 1] \notin P)
<1> DEFINE S == {n \in Nat : n <= Len(s) /\ (n < Len(s) => s[n + 1] \notin P)}
<1> HIDE DEF S
<1>1. S \in SUBSET Nat /\ S # {}
  BY DEF S
<1>2. PICK n \in S : \A m \in S : n <= m
  BY <1>1, LeastNatural
<1>3. n \in 0..Len(s) /\ (n < Len(s) => s[n + 1] \notin P)
  BY DEF S
<1>4. ASSUME NEW i \in 1..n PROVE s[i] \in P
  <2>1. i - 1 \in Nat /\ i - 1 < n /\ i - 1 < Len(s) /\ (i - 1) + 1 = i
    BY <1>3
  <2> QED BY <1>2, <2>1 DEF S
<1> QED BY <1>3, <1>4 DEF PrefixLen

-----------------------------------------------------------------------------
(* The number of addresses. *)

Map == [Key -> Entry \cup {None}]

Dom(map) == {k \in Key : map[k] # None}

Pairs(map) == {p \in Key \X Address : map[p[1]] # None /\ map[p[1]].inner[p[2]] # None}

Counted(map, cnt) == IsFiniteSet(Pairs(map)) /\ cnt = Cardinality(Pairs(map))

LEMMA CountedType ==
  ASSUME NEW map, NEW cnt, Counted(map, cnt)
  PROVE  cnt \in Nat
BY FS_CardinalityType DEF Counted

LEMMA ListFinite ==
  ASSUME NEW s, NEW X, NEW w, Ordered(s, X, w)
  PROVE  IsFiniteSet(X) /\ Cardinality(X) = Len(s)
<1>1. Len(s) \in Nat /\ s \in [1..Len(s) -> X]
  BY OrderedFacts
<1>2. IsFiniteSet(1..Len(s)) /\ Cardinality(1..Len(s)) = Len(s)
  BY <1>1, FS_Interval
<1> QED BY <1>1, <1>2, OrderedFacts, FS_Surjection DEF Surjection, Injection,
           IsInjective

LEMMA CountReplace ==
  ASSUME NEW map \in Map, NEW k \in Key, NEW e \in Entry, IsFiniteSet(Addresses(e)),
         IsFiniteSet(Pairs([map EXCEPT ![k] = None]))
  PROVE  /\ IsFiniteSet(Pairs([map EXCEPT ![k] = e]))
         /\ Cardinality(Pairs([map EXCEPT ![k] = e])) =
              Cardinality(Pairs([map EXCEPT ![k] = None])) + NumAddresses(e)
<1> DEFINE A == Addresses(e)
           B == {<<k, a>> : a \in A}
           f == [a \in A |-> <<k, a>>]
           D == Pairs([map EXCEPT ![k] = None])
           P == Pairs([map EXCEPT ![k] = e])
<1>1. f \in Surjection(A, B) /\ f \in Injection(A, B)
  BY DEF Surjection, Injection, IsInjective
<1>2. IsFiniteSet(B) /\ Cardinality(B) = Cardinality(A)
  BY <1>1, FS_Surjection
<1>3. e # None /\ A \subseteq Address
  BY CacheAssumption DEF Addresses
<1>4. \A p \in Key \X Address : p \in P <=> (p \in D \/ (p[1] = k /\ p[2] \in A))
  BY <1>3 DEF Pairs, Addresses, Map
<1>5. \A p \in Key \X Address : p \in B <=> (p[1] = k /\ p[2] \in A)
  OBVIOUS
<1>6. B \subseteq Key \X Address /\ P \subseteq Key \X Address /\ D \subseteq Key \X Address
  BY <1>3 DEF Pairs
<1>7. IsFiniteSet(D) /\ \A p \in D : p[1] # k
  BY DEF Pairs, Map
<1> HIDE DEF A, B, D, P
<1>8. IsFiniteSet(P) /\ Cardinality(P) = Cardinality(D) + Cardinality(B) - Cardinality({})
  BY <1>2, <1>4, <1>5, <1>6, <1>7, FS_Union
<1> QED BY <1>2, <1>8, FS_CardinalityType, FS_EmptySet DEF P, D, A, NumAddresses

LEMMA CountSplit ==
  ASSUME NEW map \in Map, NEW k \in Key, map[k] # None, IsFiniteSet(Pairs(map)),
         IsFiniteSet(Addresses(map[k]))
  PROVE  /\ IsFiniteSet(Pairs([map EXCEPT ![k] = None]))
         /\ Cardinality(Pairs(map)) =
              Cardinality(Pairs([map EXCEPT ![k] = None])) + NumAddresses(map[k])
<1> DEFINE m == [map EXCEPT ![k] = None]
           e == map[k]
<1>1. \A l \in Key : m[l] = IF l = k THEN None ELSE map[l]
  BY DEF Map
<1> HIDE DEF m
<1>2. Pairs(m) \in SUBSET Pairs(map)
  <2> SUFFICES ASSUME NEW p \in Pairs(m) PROVE p \in Pairs(map)
    OBVIOUS
  <2> QED BY <1>1 DEF Pairs
<1>3. IsFiniteSet(Pairs(m))
  BY <1>2, FS_Subset
<1> HIDE DEF e
<1> QED BY <1>3, CountReplace, ZenonT(30) DEF m, Map

\* An entry is replaced by one with another number of addresses.
LEMMA CountSet ==
  ASSUME NEW map \in Map, NEW k \in Key, map[k] # None, NEW cnt, Counted(map, cnt),
         IsFiniteSet(Addresses(map[k])), NEW e \in Entry, IsFiniteSet(Addresses(e))
  PROVE  /\ Counted([map EXCEPT ![k] = e], cnt - NumAddresses(map[k]) + NumAddresses(e))
         /\ NumAddresses(map[k]) <= cnt /\ NumAddresses(map[k]) \in Nat /\ NumAddresses(e) \in Nat
<1> DEFINE D == Pairs([map EXCEPT ![k] = None])
<1>1. IsFiniteSet(D) /\ cnt = Cardinality(D) + NumAddresses(map[k])
  BY CountSplit DEF Counted
<1>2. /\ IsFiniteSet(Pairs([map EXCEPT ![k] = e]))
      /\ Cardinality(Pairs([map EXCEPT ![k] = e])) = Cardinality(D) + NumAddresses(e)
  BY <1>1, CountReplace, Zenon
<1> HIDE DEF D
<1> QED BY <1>1, <1>2, FS_CardinalityType DEF Counted, NumAddresses

LEMMA CountDrop ==
  ASSUME NEW map \in Map, NEW k \in Key, map[k] # None, NEW cnt, Counted(map, cnt),
         IsFiniteSet(Addresses(map[k]))
  PROVE  Counted([map EXCEPT ![k] = None], cnt - NumAddresses(map[k]))
<1> DEFINE D == Pairs([map EXCEPT ![k] = None])
<1>1. IsFiniteSet(D) /\ cnt = Cardinality(D) + NumAddresses(map[k])
  BY CountSplit DEF Counted
<1> HIDE DEF D
<1> QED BY <1>1, FS_CardinalityType DEF Counted, D, NumAddresses

\* The keys in G leave the map, with all their addresses.
LEMMA CountDropAll ==
  ASSUME NEW map \in Map, NEW G \in SUBSET Dom(map), NEW cnt, Counted(map, cnt)
  PROVE  Counted(Drop(map, G), cnt - Cardinality({p \in G \X Address : map[p[1]].inner[p[2]] # None}))
<1> DEFINE L == {p \in G \X Address : map[p[1]].inner[p[2]] # None}
           P == Pairs(map)
           D == Pairs(Drop(map, G))
<1>1. \A p \in Key \X Address : p \in L <=> p[1] \in G /\ p \in P
  BY DEF Pairs, Dom
<1>2. \A p \in Key \X Address : p \in D <=> p[1] \notin G /\ p \in P
  BY DEF Pairs, Drop
<1>3. L \subseteq Key \X Address /\ P \subseteq Key \X Address /\ D \subseteq Key \X Address
  BY DEF Pairs, Dom
<1> HIDE DEF L, P, D
<1>4. IsFiniteSet(D) /\ Cardinality(D) = Cardinality(P) - Cardinality(L)
  BY <1>1, <1>2, <1>3, FS_Difference DEF Counted, P
<1> QED BY <1>4 DEF Counted, P, D, L

-----------------------------------------------------------------------------
(* The state of the cache: both orders are by expiration and list what is  *)
(* in the maps.                                                            *)

Exp(map) == [k \in Key |-> map[k].expiration]

EntryOK(e) ==
  /\ e \in Entry /\ Ordered(e.list, Addresses(e), e.inner)
  /\ \A a \in Addresses(e) : e.inner[a] <= e.expiration

Shape(map, list) ==
  /\ map \in Map /\ Ordered(list, Dom(map), Exp(map))
  /\ \A k \in Dom(map) : EntryOK(map[k])

CacheOK(c) ==
  /\ c = [map |-> c.map, list |-> c.list, cnt |-> c.cnt]
  /\ Shape(c.map, c.list) /\ Counted(c.map, c.cnt)

LEMMA EntryFacts ==
  ASSUME NEW e, EntryOK(e)
  PROVE  /\ e = [inner |-> e.inner, list |-> e.list, expiration |-> e.expiration] /\ e # None
         /\ e.inner \in [Address -> Left \cup {None}] /\ e.expiration \in Left
         /\ \A a \in Addresses(e) : e.inner[a] \in Left /\ a \in Address
         /\ IsFiniteSet(Addresses(e)) /\ NumAddresses(e) = Len(e.list) /\ NumAddresses(e) \in Nat
         /\ e.list \in Seq(Addresses(e)) /\ e.list \in Seq(Address)
<1>1. e \in Entry /\ Ordered(e.list, Addresses(e), e.inner)
  BY DEF EntryOK
<1>2. IsFiniteSet(Addresses(e)) /\ NumAddresses(e) = Len(e.list)
  BY <1>1, ListFinite DEF NumAddresses
<1> QED BY <1>1, <1>2, CacheAssumption DEF Entry, Ordered, Addresses

LEMMA ShapeFacts ==
  ASSUME NEW map, NEW list, Shape(map, list)
  PROVE  /\ map \in Map /\ list \in Seq(Key) /\ list \in Seq(Dom(map)) /\ Len(list) \in Nat
         /\ \A i \in 1..Len(list) : list[i] \in Dom(map)
         /\ Dom(map) \subseteq Key
         /\ \A k \in Dom(map) : EntryOK(map[k]) /\ IsFiniteSet(Addresses(map[k])) /\ map[k] \in Entry
         /\ \A k \in Dom(map) : Exp(map)[k] = map[k].expiration /\ map[k].expiration \in Left
<1>1. \A k \in Dom(map) : EntryOK(map[k]) /\ IsFiniteSet(Addresses(map[k])) /\ map[k].expiration \in Left
  BY EntryFacts DEF Shape
<1>2. \A k \in Dom(map) : map[k] \in Entry
  BY <1>1, Zenon DEF EntryOK
<1> QED BY <1>1, <1>2, OrderedFacts DEF Shape, Exp, Dom

\* An entry is replaced by one with the same expiration.
LEMMA SetEntryOK ==
  ASSUME NEW c, CacheOK(c), NEW k \in Dom(c.map), NEW e, EntryOK(e),
         e.expiration = c.map[k].expiration
  PROVE  CacheOK([map |-> [c.map EXCEPT ![k] = e], list |-> c.list,
                  cnt |-> c.cnt - NumAddresses(c.map[k]) + NumAddresses(e)])
<1> DEFINE m == [c.map EXCEPT ![k] = e]
           n == c.cnt - NumAddresses(c.map[k]) + NumAddresses(e)
<1>1. Shape(c.map, c.list) /\ Counted(c.map, c.cnt)
  BY DEF CacheOK
<1>2. /\ c.map \in Map /\ k \in Key /\ c.map[k] # None /\ EntryOK(c.map[k])
      /\ IsFiniteSet(Addresses(c.map[k]))
  BY <1>1, ShapeFacts, Zenon DEF Dom
<1>3. e \in Entry /\ e # None /\ IsFiniteSet(Addresses(e))
  BY EntryFacts DEF EntryOK
<1>4. m \in Map /\ \A l \in Key : m[l] = IF l = k THEN e ELSE c.map[l]
  BY <1>2, <1>3 DEF Map
<1> HIDE DEF m, n
<1>5. Ordered(c.list, Dom(c.map), Exp(m))
  BY <1>1, <1>4 DEF Shape, Exp
<1>6. Shape(m, c.list)
  BY <1>1, <1>3, <1>4, <1>5, Zenon DEF Shape, Dom
<1> QED BY <1>2, <1>3, <1>6, CountSet DEF CacheOK, m

\* A key is removed, with its addresses.
LEMMA ShapeDrop ==
  ASSUME NEW map, NEW list, Shape(map, list), NEW m \in Map, NEW l,
         \A k \in Dom(m) : m[k] = map[k], Ordered(l, Dom(m), Exp(map)), Dom(m) \subseteq Dom(map)
  PROVE  Shape(m, l)
<1> QED BY Reweight DEF Shape, Exp, Dom

LEMMA DropKeyOK ==
  ASSUME NEW c, CacheOK(c), NEW k \in Dom(c.map), NEW l,
         l = VecWithout(c.list, k) \/ (c.list[1] = k /\ l = Drain(c.list, 1))
  PROVE  CacheOK([map |-> [c.map EXCEPT ![k] = None], list |-> l,
                  cnt |-> c.cnt - NumAddresses(c.map[k])])
<1> DEFINE m == [c.map EXCEPT ![k] = None]
           n == c.cnt - NumAddresses(c.map[k])
<1>1. Shape(c.map, c.list) /\ Counted(c.map, c.cnt)
  BY DEF CacheOK
<1>2. /\ c.map \in Map /\ k \in Key /\ c.map[k] # None /\ IsFiniteSet(Addresses(c.map[k]))
      /\ Len(c.list) \in Nat
  BY <1>1, ShapeFacts, Zenon DEF Dom
<1>3. m \in Map /\ \A j \in Key : m[j] = IF j = k THEN None ELSE c.map[j]
  BY <1>2 DEF Map
<1> HIDE DEF m, n
<1>4. Ordered(l, Dom(c.map) \ {k}, Exp(c.map))
  <2>1. Ordered(c.list, Dom(c.map), Exp(c.map))
    BY <1>1 DEF Shape
  <2>2. CASE l = VecWithout(c.list, k)
    BY <2>1, <2>2, WithoutOrdered
  <2>3. CASE c.list[1] = k /\ l = Drain(c.list, 1)
    <3>1. 1 \in 0..Len(c.list)
      BY <1>2, <2>1, OrderedFacts
    <3> QED BY <2>1, <2>3, <3>1, DrainOrdered
  <2> QED BY <2>2, <2>3
<1>5. Shape(m, l)
  BY <1>1, <1>3, <1>4, ShapeDrop DEF Dom
<1> QED BY <1>2, <1>5, CountDrop, Zenon DEF CacheOK, m

-----------------------------------------------------------------------------
(* CacheEntry. *)

LEMMA LeftType == Left \subseteq Int /\ Expired \in Left /\ age \in Left /\ Expired = -1
                  /\ \A t \in Left : t <= age /\ Expired <= t
BY CacheAssumption DEF Left, Expired

LEMMA IsEntry ==
  ASSUME NEW f \in [Address -> Left \cup {None}], NEW l, NEW x \in Left,
         Ordered(l, {a \in Address : f[a] # None}, f),
         \A a \in Address : f[a] # None => f[a] <= x
  PROVE  LET e == [inner |-> f, list |-> l, expiration |-> x]
         IN  EntryOK(e) /\ Addresses(e) = {a \in Address : f[a] # None}
<1> DEFINE e == [inner |-> f, list |-> l, expiration |-> x]
           A == {a \in Address : f[a] # None}
<1> QED BY OrderedFacts DEF EntryOK, Addresses, Entry

LEMMA EntryRemoveOK ==
  ASSUME NEW e, EntryOK(e), NEW a \in Addresses(e)
  PROVE  LET r == EntryRemove(e, a)
         IN  /\ EntryOK(r) /\ Addresses(r) = Addresses(e) \ {a}
             /\ NumAddresses(r) = NumAddresses(e) - 1 /\ r.expiration = e.expiration
             /\ r.list = VecWithout(e.list, a)
             /\ \A b \in Address : r.inner[b] = IF b = a THEN None ELSE e.inner[b]
<1> DEFINE r == EntryRemove(e, a)
           f == [e.inner EXCEPT ![a] = None]
           l == VecWithout(e.list, a)
<1>1. /\ e = [inner |-> e.inner, list |-> e.list, expiration |-> e.expiration] /\ e \in Entry
      /\ e.inner \in [Address -> Left \cup {None}] /\ e.expiration \in Left /\ a \in Address
      /\ IsFiniteSet(Addresses(e))
  BY EntryFacts DEF EntryOK
<1>2. r = [inner |-> f, list |-> l, expiration |-> e.expiration]
  <2>1. r = [e EXCEPT !.inner = f, !.list = l]
    BY DEF EntryRemove
  <2> HIDE DEF f, l, r
  <2> QED BY <1>1, <2>1, Zenon
<1>3. f \in [Address -> Left \cup {None}] /\ \A b \in Address : f[b] = IF b = a THEN None ELSE e.inner[b]
  BY <1>1
<1> HIDE DEF f
<1>4. Ordered(l, Addresses(e) \ {a}, e.inner)
  BY WithoutOrdered DEF EntryOK
<1> HIDE DEF l
<1>5. Ordered(l, Addresses(e) \ {a}, f)
  BY <1>3, <1>4, Reweight, Zenon DEF Addresses
<1>6. EntryOK(r) /\ Addresses(r) = Addresses(e) \ {a}
  BY <1>1, <1>2, <1>3, <1>5, IsEntry DEF Addresses, EntryOK
<1> QED BY <1>1, <1>2, <1>3, <1>6, FS_RemoveElement DEF l, NumAddresses

LEMMA EntryInsertOK ==
  ASSUME NEW e, EntryOK(e), NEW a \in Address
  PROVE  LET r == EntryInsert(e, a)
         IN  /\ EntryOK(r) /\ Addresses(r) = Addresses(e) \cup {a}
             /\ NumAddresses(r) = IF a \in Addresses(e) THEN NumAddresses(e) ELSE NumAddresses(e) + 1
             /\ r.expiration = age /\ r.list[Len(r.list)] = a
             /\ \A b \in Address : r.inner[b] = IF b = a THEN age ELSE e.inner[b]
<1> DEFINE r == EntryInsert(e, a)
           f == [e.inner EXCEPT ![a] = age]
           l == MoveLast(e.list, a)
<1>1. /\ e.inner \in [Address -> Left \cup {None}] /\ IsFiniteSet(Addresses(e))
      /\ age \in Left /\ age # None
  BY EntryFacts, LeftType, CacheAssumption
<1>2. r = [inner |-> f, list |-> l, expiration |-> age]
  BY DEF EntryInsert
<1>3. f \in [Address -> Left \cup {None}] /\ \A b \in Address : f[b] = IF b = a THEN age ELSE e.inner[b]
  BY <1>1
<1> HIDE DEF f
<1>4. \A b \in Address : f[b] # None => f[b] <= age
  BY <1>3, LeftType, Zenon
<1>5. /\ \A b \in Addresses(e) : b # a => f[b] = e.inner[b]
      /\ \A b \in Addresses(e) \cup {a} : f[b] <= f[a]
  BY <1>1, <1>3, <1>4, LeftType, Zenon DEF Addresses
<1>6. Ordered(l, Addresses(e) \cup {a}, f) /\ l[Len(l)] = a
  BY <1>5, MoveLastOrdered DEF EntryOK
<1> HIDE DEF l
<1>7. EntryOK(r) /\ Addresses(r) = Addresses(e) \cup {a}
  BY <1>1, <1>2, <1>3, <1>4, <1>6, IsEntry DEF Addresses
<1> QED BY <1>1, <1>2, <1>3, <1>6, <1>7, FS_AddElement DEF NumAddresses

LEMMA NewEntryOK ==
  ASSUME NEW a \in Address
  PROVE  LET r == NewEntry(a)
         IN  /\ EntryOK(r) /\ Addresses(r) = {a} /\ NumAddresses(r) = 1
             /\ r.expiration = age /\ r.list[Len(r.list)] = a /\ r.inner[a] = age
<1> DEFINE r == NewEntry(a)
           f == [x \in Address |-> IF x = a THEN age ELSE None]
<1>1. age \in Left /\ age # None /\ age <= age
  BY LeftType, CacheAssumption
<1>2. r = [inner |-> f, list |-> <<a>>, expiration |-> age]
  BY DEF NewEntry
<1>3. f \in [Address -> Left \cup {None}] /\ \A b \in Address : f[b] = IF b = a THEN age ELSE None
  BY <1>1
<1> HIDE DEF f
<1>4. Ordered(<<a>>, {a}, f)
  BY DEF Ordered, Distinct, Range
<1>5. EntryOK(r) /\ Addresses(r) = {a}
  BY <1>1, <1>2, <1>3, <1>4, IsEntry
<1>6. NumAddresses(r) = 1
  BY <1>5, FS_Singleton DEF NumAddresses
<1> QED BY <1>2, <1>3, <1>5, <1>6

LEMMA EntryRemoveExpiredOK ==
  ASSUME NEW e, EntryOK(e)
  PROVE  LET r == EntryRemoveExpired(e)
         IN  /\ EntryOK(r) /\ r.expiration = e.expiration /\ Addresses(r) \subseteq Addresses(e)
             /\ \A a \in Addresses(r) : r.inner[a] = e.inner[a]
             /\ \A a \in Addresses(e) : e.inner[a] # Expired => a \in Addresses(r)
             /\ Len(r.list) > 0 => r.list[Len(r.list)] = e.list[Len(e.list)]
<1> DEFINE r == EntryRemoveExpired(e)
           A == Addresses(e)
           n == PrefixLen(e.list, {a \in A : e.inner[a] = Expired})
           f == [a \in Address |-> IF \E i \in 1..n : e.list[i] = a THEN None ELSE e.inner[a]]
           l == Drain(e.list, n)
           G == {e.list[i] : i \in 1..n}
<1>1. /\ e = [inner |-> e.inner, list |-> e.list, expiration |-> e.expiration] /\ e \in Entry
      /\ e.inner \in [Address -> Left \cup {None}] /\ e.expiration \in Left
      /\ Ordered(e.list, A, e.inner) /\ Len(e.list) \in Nat /\ A \subseteq Address
      /\ \A i \in 1..Len(e.list) : e.list[i] \in A
  BY EntryFacts DEF EntryOK
<1>2. r = [inner |-> f, list |-> l, expiration |-> e.expiration]
  <2>1. r = [e EXCEPT !.inner = f, !.list = l]
    BY Zenon DEF EntryRemoveExpired
  <2> HIDE DEF f, l, r
  <2> QED BY <1>1, <2>1, Zenon
<1>3. n \in 0..Len(e.list) /\ \A i \in 1..n : e.list[i] \in A /\ e.inner[e.list[i]] = Expired
  BY PrefixLenIs
<1> HIDE DEF n
<1>4. /\ f \in [Address -> Left \cup {None}]
      /\ \A a \in Address : f[a] = IF a \in G THEN None ELSE e.inner[a]
  BY <1>1
<1>5. G \subseteq A /\ \A a \in G : e.inner[a] = Expired
  BY <1>3
<1>6. Ordered(l, A \ G, e.inner) /\ Len(l) = Len(e.list) - n
      /\ \A i \in 1..(Len(e.list) - n) : l[i] = e.list[i + n]
  BY <1>1, <1>3, DrainOrdered, Zenon
<1> HIDE DEF f, l, G
<1>7. {a \in Address : f[a] # None} = A \ G
  BY <1>4 DEF Addresses
<1>8. \A a \in A \ G : f[a] = e.inner[a]
  BY <1>1, <1>4
<1>9. Ordered(l, A \ G, f)
  BY <1>6, <1>8, Reweight
<1>10. \A a \in Address : f[a] # None => f[a] <= e.expiration
  BY <1>7, <1>8, Zenon DEF EntryOK
<1>11. EntryOK(r) /\ Addresses(r) = A \ G
  BY <1>1, <1>2, <1>4, <1>7, <1>9, <1>10, IsEntry
<1>12. Len(l) > 0 => l[Len(l)] = e.list[Len(e.list)]
  <2> SUFFICES ASSUME Len(l) > 0 PROVE l[Len(l)] = e.list[Len(e.list)]
    OBVIOUS
  <2> QED BY <1>1, <1>3, <1>6
<1> QED BY <1>2, <1>5, <1>8, <1>11, <1>12

-----------------------------------------------------------------------------
(* PeerCache::remove_expired. *)

\* r holds some of the addresses of c, and no other.
Part(r, c) ==
  \A k \in Key : r.map[k] # None =>
    /\ c.map[k] # None
    /\ \A a \in Address : r.map[k].inner[a] # None => r.map[k].inner[a] = c.map[k].inner[a]

KeepsValid(r, c) ==
  \A k \in Key, a \in Address : Valid(c, k, a) => r.map[k] # None /\ r.map[k].inner[a] = c.map[k].inner[a]

\* a is the latest address of the latest key, x.
Newest(c, x, a) ==
  /\ c.map[x] # None /\ c.list[Len(c.list)] = x
  /\ c.map[x].list[Len(c.map[x].list)] = a /\ c.map[x].inner[a] = age

LEMMA DrainTwice ==
  ASSUME NEW s, NEW X, NEW w, Ordered(s, X, w), NEW n \in 0..(Len(s) - 1)
  PROVE  Drain(Drain(s, n), 1) = Drain(s, n + 1)
<1> DEFINE t == Drain(s, n)
           u == Drain(t, 1)
           v == Drain(s, n + 1)
           Y == X \ {s[i] : i \in 1..n}
           m == Len(s) - n
<1>1. Len(s) \in Nat /\ n \in 0..Len(s) /\ n + 1 \in 0..Len(s) /\ m \in Nat /\ m >= 1
  BY OrderedFacts
<1>2. Ordered(t, Y, w) /\ Len(t) = m /\ \A i \in 1..m : t[i] = s[i + n]
  BY <1>1, DrainOrdered, Zenon
<1>3. /\ Ordered(v, X \ {s[i] : i \in 1..(n + 1)}, w) /\ Len(v) = Len(s) - (n + 1)
      /\ \A i \in 1..(Len(s) - (n + 1)) : v[i] = s[i + (n + 1)]
  BY <1>1, DrainOrdered, Zenon
<1> DEFINE Z == Y \ {t[i] : i \in 1..1}
           Q == X \ {s[i] : i \in 1..(n + 1)}
<1> HIDE DEF t, Y
<1>4. Ordered(u, Z, w) /\ Len(u) = m - 1 /\ \A i \in 1..(m - 1) : u[i] = t[i + 1]
  <2>1. 1 \in 0..Len(t)
    BY <1>2
  <2>2. Ordered(u, Z, w) /\ Len(u) = Len(t) - 1 /\ \A i \in 1..(Len(t) - 1) : u[i] = t[i + 1]
    BY <1>2, <2>1, DrainOrdered, Zenon
  <2> QED BY <1>2, <2>2, Zenon
<1>5. Len(s) - (n + 1) = m - 1 /\ \A i \in 1..(m - 1) : i + 1 \in 1..m /\ (i + 1) + n = i + (n + 1)
  BY <1>1
<1>6. \A i \in 1..(m - 1) : u[i] = v[i]
  BY <1>2, <1>3, <1>4, <1>5, Zenon
<1> HIDE DEF u, v, m, Z, Q
<1>7. DOMAIN u = 1..(m - 1) /\ DOMAIN v = 1..(m - 1) /\ u \in Seq(Z) /\ v \in Seq(Q)
  <2>1. Ordered(v, Q, w) /\ Len(v) = m - 1
    BY <1>3, <1>5 DEF Q
  <2> QED BY <1>4, <2>1, OrderedFacts, Zenon
<1>8. u = [i \in 1..(m - 1) |-> u[i]] /\ v = [i \in 1..(m - 1) |-> v[i]]
  BY <1>7
<1>9. u = v
  BY <1>6, <1>8, Zenon
<1> QED BY <1>9 DEF u, v, t

Leading(c, n) == {c.list[i] : i \in 1..n}

NumWith(map, G) == Cardinality({p \in G \X Address : map[p[1]].inner[p[2]] # None})

DropLeading(c, n) ==
  [map |-> Drop(c.map, Leading(c, n)), list |-> Drain(c.list, n), cnt |-> c.cnt - NumWith(c.map, Leading(c, n))]

LEMMA DropLeadingOK ==
  ASSUME NEW c, CacheOK(c), NEW n \in 0..Len(c.list)
  PROVE  /\ CacheOK(DropLeading(c, n)) /\ Leading(c, n) \subseteq Dom(c.map)
         /\ \A k \in Key : DropLeading(c, n).map[k] = IF k \in Leading(c, n) THEN None ELSE c.map[k]
         /\ Len(Drain(c.list, n)) = Len(c.list) - n
         /\ \A i \in 1..(Len(c.list) - n) : Drain(c.list, n)[i] = c.list[i + n]
<1> DEFINE G == Leading(c, n)
           m == Drop(c.map, G)
           l == Drain(c.list, n)
<1>1. Shape(c.map, c.list) /\ Counted(c.map, c.cnt) /\ c.map \in Map /\ Len(c.list) \in Nat
  BY ShapeFacts, Zenon DEF CacheOK
<1>2. G \subseteq Dom(c.map)
  BY <1>1, ShapeFacts DEF Leading
<1>3. /\ Ordered(l, Dom(c.map) \ G, Exp(c.map)) /\ Len(l) = Len(c.list) - n
      /\ \A i \in 1..(Len(c.list) - n) : l[i] = c.list[i + n]
  BY <1>1, DrainOrdered, Zenon DEF Shape, Leading
<1> HIDE DEF G, l
<1>4. m \in Map /\ \A k \in Key : m[k] = IF k \in G THEN None ELSE c.map[k]
  BY <1>1, Zenon DEF Drop, Map
<1> HIDE DEF m
<1>5. Shape(m, l)
  BY <1>1, <1>3, <1>4, ShapeDrop DEF Dom
<1> QED BY <1>1, <1>2, <1>3, <1>4, <1>5, CountDropAll, ZenonT(30) DEF CacheOK, DropLeading,
           m, l, G, NumWith

\* What remove_expired does: leading keys go, then an entry is cleaned up.
DropsFirst(r, d, k) ==
  r = [map |-> [d.map EXCEPT ![k] = None], list |-> Drain(d.list, 1), cnt |-> d.cnt - NumAddresses(d.map[k])]

SetsEntry(r, d, k, e) ==
  r = [map |-> [d.map EXCEPT ![k] = e], list |-> d.list,
       cnt |-> d.cnt - NumAddresses(d.map[k]) + NumAddresses(e)]

Expires(r, c, n) ==
  LET d == DropLeading(c, n)
      k == c.list[n + 1]
      e == EntryRemoveExpired(c.map[k])
  IN  /\ n \in 0..Len(c.list) /\ CacheOK(d)
      /\ \A j \in Leading(c, n) : c.map[j].expiration = Expired
      /\ \/ n = Len(c.list) /\ r = d
         \/ /\ n < Len(c.list) /\ k \in Dom(d.map) /\ d.map[k] = c.map[k] /\ d.list[1] = k
            /\ \/ NumAddresses(e) = 0 /\ DropsFirst(r, d, k)
               \/ NumAddresses(e) # 0 /\ SetsEntry(r, d, k, e)

LEMMA RemoveExpiredIs ==
  ASSUME NEW c, CacheOK(c)
  PROVE  \E n : Expires(RemoveExpired(c), c, n)
<1> DEFINE P == {k \in Key : c.map[k] # None /\ c.map[k].expiration = Expired}
           n == PrefixLen(c.list, P)
           gone == {c.list[i] : i \in 1..n}
           lost == Cardinality({p \in gone \X Address : c.map[p[1]].inner[p[2]] # None})
           d == DropLeading(c, n)
           k == c.list[n + 1]
           e == EntryRemoveExpired(c.map[k])
           r == RemoveExpired(c)
<1>1. Shape(c.map, c.list) /\ Len(c.list) \in Nat /\ Counted(c.map, c.cnt) /\ Ordered(c.list, Dom(c.map), Exp(c.map))
  BY DEF CacheOK, Shape
<1>2. n \in 0..Len(c.list) /\ (\A i \in 1..n : c.list[i] \in P) /\ (n < Len(c.list) => k \notin P)
  BY <1>1, PrefixLenIs, Zenon
<1>3. r = IF n = Len(c.list)
          THEN [map |-> Drop(c.map, gone), list |-> << >>, cnt |-> c.cnt - lost]
          ELSE IF NumAddresses(e) = 0
               THEN [map |-> Drop(c.map, gone \cup {k}), list |-> Drain(c.list, n + 1),
                     cnt |-> c.cnt - lost - (NumAddresses(c.map[k]) - NumAddresses(e))]
               ELSE [map |-> [Drop(c.map, gone) EXCEPT ![k] = e], list |-> Drain(c.list, n),
                     cnt |-> c.cnt - lost - (NumAddresses(c.map[k]) - NumAddresses(e))]
  BY Zenon DEF RemoveExpired
<1> HIDE DEF n, r
<1>4. gone = Leading(c, n) /\ lost = NumWith(c.map, gone)
  BY Zenon DEF Leading, NumWith
<1>5. d = [map |-> Drop(c.map, gone), list |-> Drain(c.list, n), cnt |-> c.cnt - lost]
  BY DEF Leading, NumWith, DropLeading
<1>6. \A j \in Leading(c, n) : c.map[j].expiration = Expired
  BY <1>2, Zenon DEF Leading
<1>7. /\ CacheOK(d) /\ gone \subseteq Dom(c.map) /\ \A j \in Key : d.map[j] = IF j \in gone THEN None ELSE c.map[j]
      /\ Len(d.list) = Len(c.list) - n /\ \A i \in 1..(Len(c.list) - n) : d.list[i] = c.list[i + n]
  <2>1. d.list = Drain(c.list, n)
    BY <1>5
  <2> HIDE DEF d, gone, lost
  <2> QED BY <1>2, <1>4, <2>1, DropLeadingOK DEF d
<1>8. CASE n = Len(c.list)
  <2>1. r = d
    <3> HIDE DEF gone, lost, e, k
    <3> QED BY <1>3, <1>5, <1>7, <1>8
  <2> QED BY <1>6, <1>7, <1>8, <2>1 DEF r, Expires
<1>9. CASE n # Len(c.list)
  <2>1. n < Len(c.list) /\ n + 1 \in 1..Len(c.list) /\ 1 \in 1..(Len(c.list) - n) /\ 1 + n = n + 1
    BY <1>2, <1>9
  <2>2. k \in Dom(c.map) /\ k \in Key
    BY <1>1, <2>1, ShapeFacts
  <2>3. d.map[k] = c.map[k] /\ k \in Dom(d.map) /\ d.list[1] = k
    BY <1>2, <1>7, <2>1, <2>2, Zenon DEF Dom
  <2>4. /\ NumAddresses(c.map[k]) \in Nat /\ EntryOK(c.map[k]) /\ EntryOK(e) /\ NumAddresses(e) \in Nat
        /\ c.cnt - lost \in Nat
    <3>1. EntryOK(c.map[k])
      BY <1>1, <2>2, ShapeFacts, Zenon
    <3>2. EntryOK(e)
      BY <3>1, EntryRemoveExpiredOK
    <3> HIDE DEF e, lost, k, gone
    <3> QED BY <1>5, <1>7, <3>1, <3>2, EntryFacts, CountedType DEF CacheOK
  <2> HIDE DEF e, k, lost
  <2>5. CASE NumAddresses(e) = 0
    <3>1. c.cnt - lost - (NumAddresses(c.map[k]) - NumAddresses(e)) = d.cnt - NumAddresses(d.map[k])
      BY <1>5, <2>3, <2>4, <2>5
    <3>2. Drain(c.list, n + 1) = Drain(d.list, 1)
      BY <1>1, <1>2, <1>5, <2>1, DrainTwice
    <3>3. DropsFirst(r, d, k)
      BY <1>3, <1>5, <1>9, <2>5, <3>1, <3>2 DEF DropsFirst, Drop
    <3>4. Expires(r, c, n)
      BY <1>2, <1>6, <1>7, <2>1, <2>3, <2>5, <3>3, Zenon DEF Expires, e
    <3> QED BY <3>4, Zenon DEF r
  <2>6. CASE NumAddresses(e) # 0
    <3>1. SetsEntry(r, d, k, e)
      BY <1>3, <1>5, <1>9, <2>3, <2>4, <2>6 DEF SetsEntry
    <3>2. Expires(r, c, n)
      BY <1>2, <1>6, <1>7, <2>1, <2>3, <2>6, <3>1, Zenon DEF Expires, e
    <3> QED BY <3>2 DEF r
  <2> QED BY <2>5, <2>6, Zenon
<1> QED BY <1>8, <1>9

\* r is c without addresses that have expired.
Cleans(r, c) ==
  /\ CacheOK(r) /\ Part(r, c) /\ KeepsValid(r, c)
  /\ \A x \in Key, a \in Address : Newest(c, x, a) => Newest(r, x, a)

LEMMA CleansTransitive ==
  ASSUME NEW c, NEW d, NEW r, Cleans(d, c), Cleans(r, d)
  PROVE  Cleans(r, c)
<1> QED BY DEF Cleans, Part, KeepsValid, Valid

\* The last key of the list stays the last.
LEMMA DrainLast ==
  ASSUME NEW s, NEW X, NEW w, Ordered(s, X, w), NEW n \in 0..Len(s), NEW x \in X,
         s[Len(s)] = x, x \notin {s[i] : i \in 1..n}
  PROVE  Drain(s, n)[Len(Drain(s, n))] = x
<1>1. Len(s) \in Nat /\ Len(s) # 0
  BY OrderedFacts
<1>2. Len(Drain(s, n)) = Len(s) - n /\ \A i \in 1..(Len(s) - n) : Drain(s, n)[i] = s[i + n]
  BY DrainOrdered, Zenon
<1> QED BY <1>1, <1>2

LEMMA NewestFacts ==
  ASSUME NEW c, CacheOK(c), NEW x \in Key, NEW a \in Address, Newest(c, x, a)
  PROVE  Valid(c, x, a) /\ x \in Dom(c.map) /\ EntryOK(c.map[x]) /\ a \in Addresses(c.map[x])
<1> QED BY CacheAssumption, LeftType DEF Newest, Valid, Addresses, Dom, CacheOK,
           Shape

LEMMA DropLeadingCleans ==
  ASSUME NEW c, CacheOK(c), NEW n \in 0..Len(c.list),
         \A j \in Leading(c, n) : c.map[j].expiration = Expired
  PROVE  Cleans(DropLeading(c, n), c)
<1> DEFINE d == DropLeading(c, n)
           G == Leading(c, n)
<1>1. /\ CacheOK(d) /\ G \subseteq Dom(c.map)
      /\ \A k \in Key : d.map[k] = IF k \in G THEN None ELSE c.map[k]
  BY DropLeadingOK, Zenon
<1>2. d.list = Drain(c.list, n)
  BY DEF DropLeading
<1> HIDE DEF d
<1>3. ASSUME NEW k \in Key, NEW a \in Address, Valid(c, k, a) PROVE k \notin G
  <2>1. SUFFICES ASSUME k \in G PROVE FALSE
    OBVIOUS
  <2>2. a \in Addresses(c.map[k]) /\ c.map[k].inner[a] # Expired
    BY <1>3 DEF Valid, Addresses
  <2> QED BY <1>1, <2>1, <2>2, EntryFacts, LeftType DEF EntryOK, CacheOK, Shape
<1>4. ASSUME NEW x \in Key, NEW a \in Address, Newest(c, x, a) PROVE Newest(d, x, a)
  <2>1. Valid(c, x, a) /\ x \in Dom(c.map)
    BY <1>4, NewestFacts
  <2>2. x \notin G /\ d.map[x] = c.map[x]
    BY <1>1, <1>3, <2>1
  <2>3. d.list[Len(d.list)] = x
    BY <1>2, <1>4, <2>1, <2>2, DrainLast, ZenonT(30) DEF CacheOK, Shape, Newest, Leading
  <2> QED BY <1>4, <2>2, <2>3 DEF Newest
<1> QED BY <1>1, <1>3, <1>4 DEF d, Cleans, Part, KeepsValid, Valid

LEMMA DropFirstCleans ==
  ASSUME NEW d, CacheOK(d), NEW k \in Dom(d.map), d.list[1] = k, NEW r, DropsFirst(r, d, k),
         \A a \in Address : ~Valid(d, k, a)
  PROVE  Cleans(r, d)
<1>1. ASSUME NEW x \in Key, NEW a \in Address, Newest(d, x, a) PROVE Newest(r, x, a)
  <2>1. x # k /\ x \in Dom(d.map)
    BY <1>1, NewestFacts
  <2>2. Ordered(d.list, Dom(d.map), Exp(d.map)) /\ d.list[Len(d.list)] = x
    BY <1>1 DEF CacheOK, Shape, Newest
  <2>3. 1 \in 0..Len(d.list)
    <3>1. Len(d.list) \in Nat /\ Len(d.list) # 0
      BY <2>1, <2>2, OrderedFacts
    <3> QED BY <3>1
  <2> QED BY <1>1, <2>1, <2>2, <2>3, DrainLast DEF Newest, CacheOK, Shape, Map,
             DropsFirst
<1> QED BY <1>1, DropKeyOK DEF Cleans, DropsFirst, Part, KeepsValid, Valid

LEMMA SetEntryCleans ==
  ASSUME NEW d, CacheOK(d), NEW k \in Dom(d.map), NEW r,
         SetsEntry(r, d, k, EntryRemoveExpired(d.map[k]))
  PROVE  Cleans(r, d)
<1> DEFINE f == d.map[k]
           e == EntryRemoveExpired(f)
<1>1. EntryOK(f) /\ d.map \in Map /\ k \in Key
  BY DEF CacheOK, Shape, Dom
<1> HIDE DEF f
<1>2. /\ EntryOK(e) /\ e.expiration = f.expiration /\ Addresses(e) \subseteq Addresses(f)
      /\ \A a \in Addresses(e) : e.inner[a] = f.inner[a]
      /\ \A a \in Addresses(f) : f.inner[a] # Expired => a \in Addresses(e)
      /\ Len(e.list) > 0 => e.list[Len(e.list)] = f.list[Len(f.list)]
  BY <1>1, EntryRemoveExpiredOK
<1>3. SetsEntry(r, d, k, e)
  BY DEF f
<1> HIDE DEF e
<1>4. r.map = [d.map EXCEPT ![k] = e] /\ r.list = d.list
  BY <1>3 DEF SetsEntry
<1>5. (\A j \in Key : r.map[j] = IF j = k THEN e ELSE d.map[j]) /\ d.map[k] = f /\ e # None /\ f # None
  BY <1>1, <1>2, <1>4, EntryFacts, Zenon DEF Map, f
<1>6. KeepsValid(r, d)
  BY <1>2, <1>5 DEF KeepsValid, Valid, Addresses
<1>7. ASSUME NEW x \in Key, NEW a \in Address, Newest(d, x, a) PROVE Newest(r, x, a)
  <2>1. Valid(d, x, a) /\ a \in Addresses(d.map[x])
    BY <1>7, NewestFacts, Zenon
  <2>2. r.list[Len(r.list)] = x /\ r.map[x] # None /\ r.map[x].inner[a] = age
    BY <1>4, <1>6, <1>7, <2>1, Zenon DEF Newest, KeepsValid
  <2>3. CASE x = k
    <3>1. Len(e.list) \in Nat /\ Len(e.list) # 0
      BY <1>2, <1>5, <2>1, <2>3, OrderedFacts, Zenon DEF EntryOK, Valid
    <3> QED BY <1>2, <1>5, <1>7, <2>2, <2>3, <3>1 DEF Newest
  <2>4. CASE x # k
    BY <1>5, <1>7, <2>2, <2>4, Zenon DEF Newest
  <2> QED BY <2>3, <2>4
<1> QED BY <1>2, <1>3, <1>5, <1>6, <1>7, SetEntryOK DEF Cleans, SetsEntry, Part,
           Addresses

\* lru.rs:312-335: remove_expired removes no address that is still valid.
LEMMA RemoveExpiredCleans ==
  ASSUME NEW c, CacheOK(c)
  PROVE  Cleans(RemoveExpired(c), c)
<1> DEFINE r == RemoveExpired(c)
<1> HIDE DEF r
<1>1. PICK n : Expires(r, c, n)
  BY RemoveExpiredIs DEF r
<1> DEFINE d == DropLeading(c, n)
           k == c.list[n + 1]
           e == EntryRemoveExpired(c.map[k])
<1>2. /\ n \in 0..Len(c.list) /\ CacheOK(d)
      /\ \A j \in Leading(c, n) : c.map[j].expiration = Expired
      /\ \/ n = Len(c.list) /\ r = d
         \/ /\ n < Len(c.list) /\ k \in Dom(d.map) /\ d.map[k] = c.map[k] /\ d.list[1] = k
            /\ \/ NumAddresses(e) = 0 /\ DropsFirst(r, d, k)
               \/ NumAddresses(e) # 0 /\ SetsEntry(r, d, k, e)
  BY <1>1, Zenon DEF Expires
<1>3. Cleans(d, c)
  BY <1>2, DropLeadingCleans, Zenon
<1> HIDE DEF d, k
<1>4. CASE r = d
  BY <1>3, <1>4, Zenon DEF r
<1>5. CASE k \in Dom(d.map) /\ d.map[k] = c.map[k] /\ d.list[1] = k /\ NumAddresses(e) = 0 /\ DropsFirst(r, d, k)
  <2>1. EntryOK(d.map[k])
    BY <1>2, <1>5 DEF CacheOK, Shape
  <2>2. Addresses(e) = {}
    <3>1. EntryOK(e)
      BY <1>5, <2>1, EntryRemoveExpiredOK, Zenon
    <3> HIDE DEF e
    <3> QED BY <1>5, <3>1, EntryFacts, FS_EmptySet, Zenon DEF NumAddresses
  <2>3. ASSUME NEW a \in Address, Valid(d, k, a) PROVE FALSE
    BY <1>5, <2>1, <2>2, <2>3, EntryRemoveExpiredOK DEF Valid, Addresses
  <2> QED BY <1>2, <1>3, <1>5, <2>3, DropFirstCleans, CleansTransitive, Zenon DEF r
<1>6. CASE k \in Dom(d.map) /\ d.map[k] = c.map[k] /\ SetsEntry(r, d, k, e)
  <2>1. Cleans(r, d)
    BY <1>2, <1>6, SetEntryCleans
  <2> QED BY <1>3, <2>1, CleansTransitive, Zenon DEF r
<1> QED BY <1>2, <1>4, <1>5, <1>6

LEMMA PartCount ==
  ASSUME NEW c, NEW r, CacheOK(c), CacheOK(r), Part(r, c)
  PROVE  r.cnt <= c.cnt
<1>1. Pairs(r.map) \subseteq Pairs(c.map)
  BY DEF Pairs, Part
<1> QED BY <1>1, FS_Subset DEF CacheOK, Counted

\* A turn of remove_lru removes one key or one address.
Evicts(r, c) ==
  /\ CacheOK(r) /\ Part(r, c) /\ r.cnt + Len(r.list) = c.cnt + Len(c.list) - 1
  /\ c.cnt > 1 => \A x \in Key, a \in Address : Newest(c, x, a) => Newest(r, x, a)

LEMMA OnlyKey ==
  ASSUME NEW c, CacheOK(c), NEW x \in Dom(c.map), Dom(c.map) = {x}
  PROVE  c.cnt = NumAddresses(c.map[x])
<1> DEFINE m == [c.map EXCEPT ![x] = None]
<1>1. c.map \in Map /\ x \in Key /\ c.map[x] # None /\ IsFiniteSet(Addresses(c.map[x]))
  BY ShapeFacts, Zenon DEF CacheOK, Dom
<1>2. IsFiniteSet(Pairs(c.map)) /\ c.cnt = Cardinality(Pairs(c.map))
  BY DEF CacheOK, Counted
<1>3. \A k \in Key : m[k] = None
  BY <1>1, Zenon DEF Dom, Map
<1>4. Cardinality(Pairs(c.map)) = Cardinality(Pairs(m)) + NumAddresses(c.map[x])
  BY <1>1, <1>2, CountSplit
<1> HIDE DEF m
<1>5. Cardinality(Pairs(m)) = 0
  BY <1>3, FS_EmptySet DEF Pairs
<1> QED BY <1>1, <1>2, <1>4, <1>5, FS_CardinalityType DEF NumAddresses

LEMMA CountFacts ==
  ASSUME NEW c, CacheOK(c)
  PROVE  c.cnt \in Nat /\ Len(c.list) \in Nat /\ (c.cnt > 0 => c.list # << >> /\ Len(c.list) > 0)
<1>1. ASSUME c.cnt > 0 PROVE c.list # << >> /\ Len(c.list) > 0
  <2>1. Pairs(c.map) # {}
    BY <1>1, FS_EmptySet DEF CacheOK, Counted
  <2>2. Dom(c.map) # {}
    BY <2>1 DEF Pairs, Dom
  <2> QED BY <2>2, OrderedFacts DEF CacheOK, Shape
<1> QED BY <1>1, CountedType DEF CacheOK

LEMMA TurnEvicts ==
  ASSUME NEW c, CacheOK(c), c.cnt >= capacity
  PROVE  Evicts(RemoveLruTurn(c), c)
<1> DEFINE r == RemoveLruTurn(c)
           k == Head(c.list)
           e == c.map[k]
<1>1. c.cnt \in Nat /\ Len(c.list) \in Nat /\ c.cnt > 0 /\ c.list # << >> /\ Len(c.list) > 0
  BY CountFacts, CacheAssumption
<1>2. /\ Ordered(c.list, Dom(c.map), Exp(c.map)) /\ c.map \in Map
      /\ c = [map |-> c.map, list |-> c.list, cnt |-> c.cnt]
  BY DEF CacheOK, Shape
<1>3. k = c.list[1] /\ 1 \in 1..Len(c.list)
  BY <1>1
<1>4. k \in Dom(c.map) /\ k \in Key
  BY <1>2, <1>3, OrderedFacts DEF Dom
<1>5. EntryOK(e)
  BY <1>4 DEF CacheOK, Shape
<1>6. /\ e.list # << >> => r = [c EXCEPT !.map[k] = EntryRemove(e, Head(e.list)), !.cnt = @ - 1]
      /\ e.list = << >> => r = [c EXCEPT !.map[k] = None, !.list = Tail(@)]
  BY DEF RemoveLruTurn
<1> HIDE DEF r, k
<1>7. CASE e.list # << >>
  <2> DEFINE a == Head(e.list)
             f == EntryRemove(e, a)
  <2>1. Len(e.list) \in Nat /\ Len(e.list) > 0 /\ a = e.list[1] /\ a \in Addresses(e)
    <3>1. Ordered(e.list, Addresses(e), e.inner)
      BY <1>5 DEF EntryOK
    <3>2. a = e.list[1] /\ 1 \in 1..Len(e.list)
      BY <1>7, <3>1, OrderedFacts
    <3>3. e.list[1] \in Addresses(e)
      BY <3>1, <3>2, OrderedFacts, Zenon
    <3> QED BY <3>2, <3>3
  <2> HIDE DEF a
  <2>2. /\ EntryOK(f) /\ Addresses(f) = Addresses(e) \ {a}
        /\ NumAddresses(f) = NumAddresses(e) - 1 /\ f.expiration = e.expiration
        /\ f.list = VecWithout(e.list, a)
        /\ \A b \in Address : f.inner[b] = IF b = a THEN None ELSE e.inner[b]
    BY <1>5, <2>1, EntryRemoveOK
  <2>3. r = [map |-> [c.map EXCEPT ![k] = f], list |-> c.list, cnt |-> c.cnt - 1]
    BY <1>2, <1>6, <1>7, Zenon DEF a
  <2> HIDE DEF f
  <2>4. NumAddresses(e) \in Nat /\ NumAddresses(e) = Len(e.list) /\ e # None /\ f # None
    BY <1>5, <2>2, EntryFacts, Zenon
  <2>5. c.cnt - 1 = c.cnt - NumAddresses(e) + NumAddresses(f)
    BY <1>1, <2>2, <2>4
  <2>6. CacheOK(r)
    BY <1>4, <2>2, <2>3, <2>5, SetEntryOK, Zenon
  <2>7. \A j \in Key : r.map[j] = IF j = k THEN f ELSE c.map[j]
    BY <1>2, <2>3 DEF Map
  <2>8. r.cnt + Len(r.list) = c.cnt + Len(c.list) - 1
    BY <1>1, <2>3
  <2>9. ASSUME c.cnt > 1, NEW x \in Key, NEW b \in Address, Newest(c, x, b)
         PROVE  Newest(r, x, b)
    <3>1. x \in Dom(c.map) /\ b \in Addresses(c.map[x])
      BY <2>9, NewestFacts, Zenon
    <3>2. CASE x # k
      BY <2>3, <2>9, <3>2 DEF Newest
    <3>3. CASE x = k
      <4>1. Len(c.list) = 1
        <5>1. c.list[Len(c.list)] = c.list[1] /\ Len(c.list) \in 1..Len(c.list)
          BY <1>3, <2>9, <3>3 DEF Newest
        <5> QED BY <1>2, <1>3, <5>1, OrderedFacts, Zenon
      <4>2. Dom(c.map) = {x}
        BY <1>2, <1>3, <3>3, <4>1, OrderedFacts
      <4>3. a # b
        <5>1. e.list[Len(e.list)] = b
          BY <2>9, <3>3 DEF Newest
        <5>2. Len(e.list) \in 1..Len(e.list) /\ 1 \in 1..Len(e.list) /\ Len(e.list) # 1
          <6> DEFINE n == Len(e.list)
          <6>1. n \in Nat /\ n > 1
            BY <2>4, <2>9, <3>3, <4>2, OnlyKey
          <6> HIDE DEF n
          <6>2. n \in 1..n /\ 1 \in 1..n /\ n # 1
            BY <6>1
          <6> QED BY <6>2 DEF n
        <5>3. e.list[1] # e.list[Len(e.list)]
          <6>1. \A i, j \in 1..Len(e.list) : e.list[i] = e.list[j] => i = j
            BY <1>5, OrderedFacts, ZenonT(30) DEF EntryOK
          <6> QED BY <5>2, <6>1, Zenon
        <5> QED BY <2>1, <5>1, <5>3
      <4>4. f.list[Len(f.list)] = b
        <5>1. Ordered(e.list, Addresses(e), e.inner)
          BY <1>5, Zenon DEF EntryOK
        <5>2. b \in Addresses(e) /\ e.list[Len(e.list)] = b
          BY <2>9, <3>1, <3>3, Zenon DEF Newest
        <5>3. LET t == VecWithout(e.list, a) IN Len(t) > 0 /\ t[Len(t)] = b
          BY <2>1, <4>3, <5>1, <5>2, WithoutLast
        <5> QED BY <2>2, <5>3, Zenon
      <4>5. f.inner[b] = age
        BY <2>2, <2>9, <3>3, <4>3 DEF Newest
      <4> QED BY <2>3, <2>4, <2>9, <4>4, <4>5 DEF Newest
    <3> QED BY <3>2, <3>3
  <2> QED BY <2>2, <2>4, <2>6, <2>7, <2>8, <2>9, Zenon DEF r, Evicts, Part
<1>8. CASE e.list = << >>
  <2>1. r = [map |-> [c.map EXCEPT ![k] = None], list |-> Drain(c.list, 1), cnt |-> c.cnt]
    BY <1>1, <1>2, <1>6, <1>8, TailIsDrain, OrderedFacts, ZenonT(30)
  <2>2. NumAddresses(e) = 0 /\ Addresses(e) = {}
    BY <1>5, <1>8, EntryFacts, OrderedFacts DEF EntryOK
  <2>3. Cleans(r, c)
    BY <1>1, <1>3, <1>4, <2>1, <2>2, DropFirstCleans DEF Valid, Addresses,
       DropsFirst
  <2>4. Len(Drain(c.list, 1)) = Len(c.list) - 1
    <3>1. 1 \in 0..Len(c.list)
      BY <1>1
    <3> QED BY <1>2, <3>1, DrainOrdered, Zenon
  <2> QED BY <2>1, <2>3, <2>4 DEF r, Evicts, Cleans
<1> QED BY <1>7, <1>8

\* The loop of remove_lru: what it starts a turn with, or ends with
Turn(c) == IF c.cnt >= capacity THEN RemoveLruTurn(c) ELSE c

IsTurns(f, c, N) == f = [n \in 0..N |-> IF n = 0 THEN c ELSE Turn(f[n - 1])]

LEMMA TurnsExist ==
  ASSUME NEW c, NEW N \in Nat
  PROVE  \E f : IsTurns(f, c, N)
<1> DEFINE S == {n \in Nat : ~ \E f : IsTurns(f, c, n)}
<1>1. SUFFICES ASSUME S # {} PROVE FALSE
  OBVIOUS
<1>2. PICK m \in S : \A j \in S : m <= j
  BY <1>1, LeastNatural, Zenon
<1>3. CASE m = 0
  <2> DEFINE f == [n \in 0..0 |-> c]
  <2>1. IsTurns(f, c, 0)
    BY DEF IsTurns
  <2> QED BY <1>3, <2>1
<1>4. CASE m # 0
  <2>1. m - 1 \in Nat /\ m - 1 \notin S /\ m \in Nat
    BY <1>2, <1>4
  <2>2. PICK g : IsTurns(g, c, m - 1)
    BY <2>1
  <2> DEFINE f == [n \in 0..m |-> IF n = m THEN Turn(g[m - 1]) ELSE g[n]]
  <2>3. \A n \in 0..(m - 1) : g[n] = IF n = 0 THEN c ELSE Turn(g[n - 1])
    BY <2>2 DEF IsTurns
  <2>4. \A n \in 0..m : f[n] = IF n = 0 THEN c ELSE Turn(f[n - 1])
    <3> SUFFICES ASSUME NEW n \in 0..m PROVE f[n] = IF n = 0 THEN c ELSE Turn(f[n - 1])
      OBVIOUS
    <3>1. CASE n = 0
      BY <2>1, <2>3
    <3>2. CASE n # 0
      BY <2>3, <3>2
    <3> QED BY <3>1, <3>2
  <2>5. DOMAIN f = 0..m /\ f = [n \in 0..m |-> f[n]]
    OBVIOUS
  <2> HIDE DEF f
  <2> QED BY <2>4, <2>5, Zenon DEF IsTurns
<1> QED BY <1>3, <1>4

LEMMA RemoveLruIs ==
  ASSUME NEW c, c.cnt + Len(c.list) \in Nat
  PROVE  \E f : IsTurns(f, c, c.cnt + Len(c.list)) /\ RemoveLru(c) = f[c.cnt + Len(c.list)]
<1> DEFINE N == c.cnt + Len(c.list)
           g == CHOOSE f : IsTurns(f, c, N)
<1>1. RemoveLru(c) = g[N]
  BY Zenon DEF RemoveLru, IsTurns, Turn
<1> QED BY <1>1, TurnsExist, Zenon

\* remove_lru: only addresses go, and none when there is room.
Makes(r, c) ==
  /\ CacheOK(r) /\ Part(r, c)
  /\ c.cnt < capacity => r = c
  /\ capacity > 1 => \A x \in Key, a \in Address : Newest(c, x, a) => Newest(r, x, a)

\* lru.rs:386-398: the loop ends with room for one address.
LEMMA RemoveLruMakes ==
  ASSUME NEW c, CacheOK(c)
  PROVE  Makes(RemoveLru(c), c) /\ RemoveLru(c).cnt < capacity
<1> DEFINE N == c.cnt + Len(c.list)
<1>1. N \in Nat /\ c.cnt \in Nat /\ Len(c.list) \in Nat /\ capacity \in Nat /\ capacity # 0
  BY CountFacts, CacheAssumption
<1>2. PICK f : IsTurns(f, c, N) /\ RemoveLru(c) = f[N]
  BY <1>1, RemoveLruIs
<1>3. \A n \in 0..N : f[n] = IF n = 0 THEN c ELSE Turn(f[n - 1])
  BY <1>2, Zenon DEF IsTurns
<1> HIDE DEF N
<1> DEFINE P(n) == /\ Makes(f[n], c)
                   /\ f[n].cnt < capacity \/ f[n].cnt + Len(f[n].list) <= N - n
           S == {n \in 0..N : ~P(n)}
<1>4. P(0)
  BY <1>1, <1>3 DEF Makes, Part, N
<1>5. ASSUME NEW n \in 1..N, P(n - 1) PROVE P(n)
  <2> DEFINE d == f[n - 1]
  <2>1. f[n] = Turn(d) /\ Makes(d, c)
    BY <1>3, <1>5
  <2>2. d.cnt < capacity \/ d.cnt + Len(d.list) <= N - (n - 1)
    BY <1>5
  <2> HIDE DEF d
  <2>3. CacheOK(d) /\ d.cnt \in Nat /\ Len(d.list) \in Nat
    BY <2>1, CountFacts DEF Makes
  <2>4. CASE d.cnt < capacity
    BY <1>1, <2>1, <2>3, <2>4 DEF Turn
  <2>5. CASE d.cnt >= capacity
    <3> DEFINE r == Turn(d)
    <3>1. Evicts(r, d)
      BY <2>3, <2>5, TurnEvicts DEF Turn
    <3> HIDE DEF r
    <3>2. capacity > 1 => \A x \in Key, a \in Address : Newest(c, x, a) => Newest(r, x, a)
      <4>1. SUFFICES ASSUME capacity > 1 PROVE \A x \in Key, a \in Address : Newest(c, x, a) => Newest(r, x, a)
        OBVIOUS
      <4> QED BY <1>1, <2>1, <2>3, <2>5, <3>1, <4>1 DEF Makes, Evicts
    <3>3. r.cnt + Len(r.list) <= N - n
      BY <1>1, <2>2, <2>3, <2>5, <3>1 DEF Evicts
    <3> QED BY <1>1, <2>1, <2>5, <3>1, <3>2, <3>3 DEF r, Makes, Evicts, Part
  <2> QED BY <1>1, <2>3, <2>4, <2>5
<1> HIDE DEF P
<1>6. S = {}
  <2>1. SUFFICES ASSUME S # {} PROVE FALSE
    OBVIOUS
  <2>2. PICK m \in S : \A j \in S : m <= j
    <3>1. S \in SUBSET Nat
      BY <1>1
    <3> HIDE DEF S
    <3> QED BY <2>1, <3>1, LeastNatural
  <2> QED BY <1>1, <1>4, <1>5, <2>2
<1> QED BY <1>1, <1>2, <1>6, CountFacts DEF Makes, P

\* A key gets an entry that expires last, and becomes the last of the list.
LEMMA RenewOK ==
  ASSUME NEW c, CacheOK(c), NEW k \in Dom(c.map), NEW e, EntryOK(e), e.expiration = age
  PROVE  /\ CacheOK([map |-> [c.map EXCEPT ![k] = e], list |-> MoveLast(c.list, k),
                     cnt |-> c.cnt - NumAddresses(c.map[k]) + NumAddresses(e)])
         /\ MoveLast(c.list, k)[Len(MoveLast(c.list, k))] = k
<1> DEFINE m == [c.map EXCEPT ![k] = e]
           n == c.cnt - NumAddresses(c.map[k]) + NumAddresses(e)
           l == MoveLast(c.list, k)
<1>1. Shape(c.map, c.list) /\ Counted(c.map, c.cnt)
  BY DEF CacheOK
<1>2. /\ c.map \in Map /\ k \in Key /\ c.map[k] # None
      /\ IsFiniteSet(Addresses(c.map[k]))
  BY <1>1, ShapeFacts, Zenon DEF Dom
<1>3. e \in Entry /\ e # None /\ IsFiniteSet(Addresses(e))
  BY EntryFacts DEF EntryOK
<1>4. m \in Map /\ \A j \in Key : m[j] = IF j = k THEN e ELSE c.map[j]
  BY <1>2, <1>3 DEF Map
<1> HIDE DEF m, n
<1>5. Dom(m) = Dom(c.map) /\ Dom(m) \cup {k} = Dom(c.map)
  BY <1>3, <1>4 DEF Dom
<1>6. \A j \in Dom(m) : EntryOK(m[j])
  BY <1>1, <1>4 DEF Shape, Dom
<1>7. \A j \in Dom(c.map) : j # k => Exp(m)[j] = Exp(c.map)[j]
  BY <1>4 DEF Exp, Dom
<1>8. \A j \in Dom(c.map) \cup {k} : Exp(m)[j] <= Exp(m)[k]
  <2> SUFFICES ASSUME NEW j \in Dom(c.map) PROVE Exp(m)[j] <= Exp(m)[k]
    BY Zenon
  <2> QED BY <1>4, <1>6, EntryFacts, LeftType, Zenon DEF Exp, Dom
<1>9. Ordered(l, Dom(m), Exp(m)) /\ l[Len(l)] = k
  BY <1>1, <1>5, <1>7, <1>8, MoveLastOrdered DEF Shape
<1> QED BY <1>2, <1>3, <1>4, <1>6, <1>9, CountSet, Zenon DEF CacheOK, m, Shape

\* A new key is added, and expires last.
LEMMA AddKeyOK ==
  ASSUME NEW c, CacheOK(c), NEW k \in Key, c.map[k] = None, NEW e, EntryOK(e), e.expiration = age
  PROVE  /\ CacheOK([map |-> [c.map EXCEPT ![k] = e], list |-> Append(c.list, k),
                     cnt |-> c.cnt + NumAddresses(e)])
         /\ Append(c.list, k)[Len(Append(c.list, k))] = k
<1> DEFINE m == [c.map EXCEPT ![k] = e]
           n == c.cnt + NumAddresses(e)
           l == Append(c.list, k)
<1>1. Shape(c.map, c.list) /\ IsFiniteSet(Pairs(c.map)) /\ c.cnt = Cardinality(Pairs(c.map))
  BY Zenon DEF CacheOK, Counted
<1>2. c.map \in Map /\ [c.map EXCEPT ![k] = None] = c.map /\ Dom(c.map) \subseteq Key
  BY <1>1, ShapeFacts DEF Map
<1>3. e \in Entry /\ e # None /\ IsFiniteSet(Addresses(e))
  BY EntryFacts DEF EntryOK
<1>4. m \in Map /\ \A j \in Key : m[j] = IF j = k THEN e ELSE c.map[j]
  BY <1>2, <1>3 DEF Map
<1> HIDE DEF m, n
<1>5. \A j \in Dom(m) : EntryOK(m[j])
  BY <1>1, <1>4 DEF Shape, Dom
<1>6. \A j \in Dom(c.map) : Exp(m)[j] <= Exp(m)[k]
  <2> SUFFICES ASSUME NEW j \in Dom(c.map) PROVE Exp(m)[j] <= Exp(m)[k]
    OBVIOUS
  <2> QED BY <1>4, <1>5, EntryFacts, LeftType, Zenon DEF Exp, Dom
<1>7. Dom(m) = Dom(c.map) \cup {k} /\ k \notin Dom(c.map)
  BY <1>2, <1>3, <1>4 DEF Dom
<1>8. \A j \in Dom(c.map) : Exp(m)[j] = Exp(c.map)[j]
  BY <1>4, <1>7, Zenon DEF Exp, Dom
<1>9. Ordered(c.list, Dom(c.map), Exp(m))
  BY <1>1, <1>8, Reweight, Zenon DEF Shape
<1>10. Ordered(l, Dom(m), Exp(m)) /\ l[Len(l)] = k
  BY <1>6, <1>7, <1>9, PushOrdered
<1> QED BY <1>2, <1>3, <1>4, <1>5, <1>10, CountReplace DEF CacheOK, m, Counted,
           Shape

\* r is c with address a stored under k as the newest one.
Stores(r, c, k, a) ==
  /\ CacheOK(r) /\ Newest(r, k, a)
  /\ capacity > 1 => \A x \in Key, b \in Address :
       x # k /\ Newest(c, x, b) => r.map[x] # None /\ r.map[x].inner[b] = age
  /\ c.map[k] # None \/ c.cnt < capacity => \A x \in Key, b \in Address : Valid(c, x, b) => Valid(r, x, b)
  /\ r.cnt <= c.cnt + 1

\* lru.rs:364-384: PeerCache::insert, after remove_expired
LEMMA StoreStores ==
  ASSUME NEW c, CacheOK(c), NEW k \in Key, NEW a \in Address
  PROVE  Stores(Store(c, k, a), c, k, a)
<1> DEFINE s == Store(c, k, a)
<1>1. c.map \in Map /\ c.cnt \in Nat /\ capacity \in Nat /\ age # None /\ age # Expired /\ age \in Nat
  BY CountFacts, CacheAssumption, LeftType DEF CacheOK, Shape
<1>2. CASE c.map[k] # None
  <2> DEFINE f == c.map[k]
             e == EntryInsert(f, a)
  <2>1. k \in Dom(c.map) /\ EntryOK(f)
    BY <1>2, Zenon DEF Dom, CacheOK, Shape
  <2>2. s = [map |-> [c.map EXCEPT ![k] = e], list |-> MoveLast(c.list, k),
             cnt |-> IF f.inner[a] = None THEN c.cnt + 1 ELSE c.cnt]
    BY <1>2, Zenon DEF Store
  <2> HIDE DEF f, s
  <2>3. /\ EntryOK(e) /\ Addresses(e) = Addresses(f) \cup {a}
        /\ NumAddresses(e) = IF a \in Addresses(f) THEN NumAddresses(f) ELSE NumAddresses(f) + 1
        /\ e.expiration = age /\ e.list[Len(e.list)] = a
        /\ \A b \in Address : e.inner[b] = IF b = a THEN age ELSE f.inner[b]
    BY <2>1, EntryInsertOK
  <2> HIDE DEF e
  <2>4. NumAddresses(f) \in Nat /\ e # None
    BY <2>1, <2>3, EntryFacts, Zenon
  <2>5. CacheOK(s) /\ s.list[Len(s.list)] = k
    BY <1>1, <2>1, <2>2, <2>3, <2>4, RenewOK DEF f, Addresses
  <2>6. \A j \in Key : s.map[j] = IF j = k THEN e ELSE c.map[j]
    BY <1>1, <2>2, Zenon DEF Map
  <2>7. Newest(s, k, a)
    BY <2>3, <2>4, <2>5, <2>6, Zenon DEF Newest
  <2>8. \A x \in Key, b \in Address : Valid(c, x, b) => Valid(s, x, b)
    BY <1>1, <2>3, <2>4, <2>6, Zenon DEF Valid, f
  <2> QED BY <1>1, <2>2, <2>5, <2>6, <2>7, <2>8 DEF s, Stores, Newest
<1>3. CASE c.map[k] = None
  <2> DEFINE r == RemoveLru(c)
             e == NewEntry(a)
  <2>1. s = [map |-> [r.map EXCEPT ![k] = e], list |-> Append(r.list, k), cnt |-> r.cnt + 1]
    BY <1>3, ZenonT(30) DEF Store
  <2>2. Makes(r, c)
    BY RemoveLruMakes, Zenon
  <2> HIDE DEF r, s
  <2>3. /\ EntryOK(e) /\ NumAddresses(e) = 1
        /\ e.expiration = age /\ e.list[Len(e.list)] = a /\ e.inner[a] = age
    BY NewEntryOK, Zenon
  <2> HIDE DEF e
  <2>4. CacheOK(r) /\ r.map \in Map /\ r.map[k] = None /\ r.cnt \in Nat /\ e # None
    BY <1>3, <2>2, <2>3, CountFacts, EntryFacts, Zenon DEF Makes, Part, CacheOK, Shape
  <2>5. CacheOK(s) /\ s.list[Len(s.list)] = k
    BY <2>1, <2>3, <2>4, AddKeyOK, Zenon
  <2>6. \A j \in Key : s.map[j] = IF j = k THEN e ELSE r.map[j]
    BY <2>1, <2>4, Zenon DEF Map
  <2>7. Newest(s, k, a)
    BY <2>3, <2>4, <2>5, <2>6, Zenon DEF Newest
  <2>8. capacity > 1 => \A x \in Key, b \in Address :
          x # k /\ Newest(c, x, b) => s.map[x] # None /\ s.map[x].inner[b] = age
    BY <2>2, <2>6 DEF Newest, Makes
  <2>9. c.cnt < capacity => \A x \in Key, b \in Address : Valid(c, x, b) => Valid(s, x, b)
    BY <1>3, <2>2, <2>6, Zenon DEF Makes, Valid
  <2>10. s.cnt <= c.cnt + 1
    BY <1>1, <2>1, <2>2, <2>4, PartCount DEF Makes
  <2> QED BY <1>3, <2>5, <2>7, <2>8, <2>9, <2>10, Zenon DEF s, Stores
<1> QED BY <1>2, <1>3

LEMMA NewestIsValid ==
  ASSUME NEW c, NEW x \in Key, NEW a \in Address, c.map[x] # None, c.map[x].inner[a] = age
  PROVE  Valid(c, x, a)
BY CacheAssumption, LeftType DEF Valid

LEMMA CleansValid ==
  ASSUME NEW c, NEW r, Cleans(r, c), NEW x \in Key, NEW a \in Address, Valid(c, x, a)
  PROVE  Valid(r, x, a)
BY DEF Cleans, KeepsValid, Valid

\* on_peers of an announce: its four steps
LEMMA AnnouncedIs ==
  ASSUME NEW c, CacheOK(c), NEW r \in Key, NEW a \in Address,
         NEW l \in Key \cup {None}, NEW b \in Address
  PROVE  LET c1 == RemoveExpired(c)
             d  == Insert(c, r, a)
             c2 == RemoveExpired(d)
             f  == Announced(c, r, a, l, b)
         IN  /\ CacheOK(f) /\ Cleans(c1, c) /\ Stores(d, c1, r, a) /\ Cleans(c2, d)
             /\ l = None => f = d
             /\ l \in Key => Stores(f, c2, l, b)
<1> DEFINE c1 == RemoveExpired(c)
           d  == Insert(c, r, a)
           c2 == RemoveExpired(d)
           f  == Announced(c, r, a, l, b)
<1>1. r # None /\ None \notin Key
  BY CacheAssumption
<1>2. Cleans(c1, c) /\ CacheOK(c1)
  BY RemoveExpiredCleans DEF Cleans
<1>3. Stores(d, c1, r, a) /\ CacheOK(d)
  <2>1. Stores(Store(c1, r, a), c1, r, a)
    BY <1>2, StoreStores
  <2> QED BY <1>1, <2>1, Zenon DEF Stores, Insert
<1>4. f = Insert(d, l, b)
  BY DEF Announced
<1> HIDE DEF d, c1, f
<1>5. Cleans(c2, d) /\ CacheOK(c2)
  BY <1>3, RemoveExpiredCleans, Zenon DEF Cleans
<1> QED
  <2>1. CASE l = None
    BY <1>1, <1>2, <1>3, <1>4, <1>5, <2>1, Zenon DEF c1, d, f, Insert
  <2>2. CASE l \in Key
    <3>1. Stores(f, c2, l, b) /\ CacheOK(f)
      <4>1. Stores(Store(c2, l, b), c2, l, b)
        BY <1>5, <2>2, StoreStores, Zenon
      <4> QED BY <1>1, <1>4, <2>2, <4>1, Zenon DEF Stores, Insert
    <3> QED BY <1>1, <1>2, <1>3, <1>5, <2>2, <3>1, Zenon DEF c1, d, f
  <2> QED BY <2>1, <2>2, Zenon

LEMMA TouchOK ==
  ASSUME NEW c, CacheOK(c), NEW k \in Key, c.map[k] # None
  PROVE  LET r == Touch(c, k)
         IN  /\ CacheOK(r)
             /\ \A j \in Key : r.map[j] # None <=> c.map[j] # None
             /\ \A j \in Key : c.map[j] # None => r.map[j].inner = c.map[j].inner
<1> DEFINE r == Touch(c, k)
           f == c.map[k]
           e == [f EXCEPT !.expiration = age]
<1>1. /\ c = [map |-> c.map, list |-> c.list, cnt |-> c.cnt] /\ c.map \in Map
      /\ k \in Dom(c.map) /\ EntryOK(f) /\ c.cnt \in Nat
  BY CountFacts, Zenon DEF CacheOK, Shape, Dom
<1>2. r = [map |-> [c.map EXCEPT ![k] = e], list |-> MoveLast(c.list, k), cnt |-> c.cnt]
  <2> DEFINE m == [c.map EXCEPT ![k].expiration = age]
  <2>1. m = [c.map EXCEPT ![k] = e]
    OBVIOUS
  <2>2. r = [c EXCEPT !.map = m, !.list = MoveLast(c.list, k)]
    BY DEF Touch
  <2> HIDE DEF m, e, r
  <2> QED BY <1>1, <2>1, <2>2, Zenon
<1> HIDE DEF f, r
<1>3. /\ f = [inner |-> f.inner, list |-> f.list, expiration |-> f.expiration]
      /\ f.inner \in [Address -> Left \cup {None}] /\ f.expiration \in Left
      /\ NumAddresses(f) \in Nat /\ f # None /\ \A a \in Addresses(f) : f.inner[a] \in Left
  BY <1>1, EntryFacts, Zenon
<1>4. EntryOK(e) /\ e.inner = f.inner /\ e.expiration = age
  BY <1>1, <1>3, LeftType, IsEntry DEF EntryOK, Addresses
<1> HIDE DEF e
<1>5. NumAddresses(e) = NumAddresses(f) /\ e # None
  BY <1>4, EntryFacts, ZenonT(30) DEF NumAddresses, Addresses
<1> QED BY <1>1, <1>2, <1>3, <1>4, <1>5, RenewOK DEF r, f

\* lru.rs:337-362: get; what it drops has expired.
LEMMA GetOK ==
  ASSUME NEW c, CacheOK(c), NEW k \in Key \cup {None}
  PROVE  LET r == Get(c, k)
         IN  CacheOK(r) /\ \A x \in Key, a \in Address : Valid(c, x, a) => Valid(r, x, a)
<1> DEFINE d == RemoveExpired(c)
           r == Get(c, k)
<1>1. Cleans(d, c) /\ CacheOK(d)
  BY RemoveExpiredCleans DEF Cleans
<1>2. \A x \in Key, a \in Address : Valid(c, x, a) => Valid(d, x, a)
  BY <1>1, CleansValid
<1>3. r = IF k = None THEN c ELSE IF d.map[k] = None THEN d ELSE Touch(d, k)
  BY DEF Get
<1> HIDE DEF d, r
<1>4. CASE k = None \/ d.map[k] = None
  BY <1>1, <1>2, <1>3, <1>4, Zenon DEF r
<1>5. CASE k # None /\ d.map[k] # None
  <2> QED BY <1>1, <1>2, <1>3, <1>5, TouchOK DEF r, Valid
<1> QED BY <1>4, <1>5, Zenon

LEMMA RemoveAddrOK ==
  ASSUME NEW c, CacheOK(c), NEW k \in Key \cup {None}, NEW a \in Address
  PROVE  LET r == RemoveAddr(c, k, a)
         IN  /\ CacheOK(r)
             /\ \A x \in Key, b \in Address : (x # k \/ b # a) /\ Valid(c, x, b) => Valid(r, x, b)
<1> DEFINE r == RemoveAddr(c, k, a)
           f == c.map[k]
           e == EntryRemove(f, a)
<1>1. CASE k = None \/ c.map[k] = None \/ c.map[k].inner[a] = None
  BY <1>1, Zenon DEF RemoveAddr
<1>2. CASE k # None /\ c.map[k] # None /\ c.map[k].inner[a] # None
  <2>1. /\ c = [map |-> c.map, list |-> c.list, cnt |-> c.cnt] /\ c.map \in Map
        /\ k \in Key /\ k \in Dom(c.map) /\ EntryOK(f) /\ c.cnt \in Nat /\ a \in Addresses(f)
    BY <1>2, CountFacts, Zenon DEF CacheOK, Shape, Dom, Addresses
  <2>2. r = [map |-> [c.map EXCEPT ![k] = e], list |-> c.list, cnt |-> c.cnt - 1]
    BY <1>2, <2>1, Zenon DEF RemoveAddr
  <2> HIDE DEF f, r
  <2>3. /\ EntryOK(e) /\ NumAddresses(e) = NumAddresses(f) - 1 /\ e.expiration = f.expiration
        /\ \A b \in Address : e.inner[b] = IF b = a THEN None ELSE f.inner[b]
    BY <2>1, EntryRemoveOK, Zenon
  <2> HIDE DEF e
  <2>4. NumAddresses(f) \in Nat /\ e # None
    BY <2>1, <2>3, EntryFacts, Zenon
  <2> QED BY <2>1, <2>2, <2>3, <2>4, SetEntryOK DEF r, f, Valid
<1> QED BY <1>1, <1>2

LEMMA EmptyOK == CacheOK(Empty)
<1> DEFINE m == [k \in Key |-> None]
<1>1. m \in Map /\ Dom(m) = {} /\ Pairs(m) = {}
  BY DEF Map, Dom, Pairs
<1>2. Empty = [map |-> m, list |-> << >>, cnt |-> 0]
  BY DEF Empty
<1> HIDE DEF m
<1>3. Counted(m, 0)
  BY <1>1, FS_EmptySet DEF Counted
<1>4. Ordered(<< >>, {}, Exp(m))
  <2>1. << >> \in Seq({}) /\ Len(<< >>) = 0 /\ DOMAIN << >> = {}
    OBVIOUS
  <2> QED BY <2>1 DEF Ordered, Distinct, Range
<1> QED BY <1>1, <1>2, <1>3, <1>4, Zenon DEF CacheOK, Shape

LEMMA ElapseFacts ==
  /\ Elapse(None) = None
  /\ \A t \in Left : t # None /\ Elapse(t) # None /\ Elapse(t) \in Left
  /\ \A s, t \in Left : s <= t => Elapse(s) <= Elapse(t)
<1>1. ASSUME NEW t \in Left PROVE t # None /\ Elapse(t) = (IF t = -1 THEN -1 ELSE t - 1) /\ t \in (-1)..age
  BY CacheAssumption DEF Elapse, Left, Expired
<1>2. ASSUME NEW t \in Left PROVE Elapse(t) \in Left /\ Elapse(t) # None
  BY <1>1, CacheAssumption DEF Left, Expired
<1>3. ASSUME NEW s \in Left, NEW t \in Left, s <= t PROVE Elapse(s) <= Elapse(t)
  BY <1>1, <1>3
<1> QED BY <1>2, <1>3 DEF Elapse

LEMMA EntryElapseOK ==
  ASSUME NEW e, EntryOK(e)
  PROVE  LET f == [e EXCEPT !.inner = [a \in Address |-> Elapse(@[a])], !.expiration = Elapse(@)]
         IN  /\ EntryOK(f) /\ Addresses(f) = Addresses(e) /\ f.expiration = Elapse(e.expiration)
             /\ f.inner = [a \in Address |-> Elapse(e.inner[a])]
<1> DEFINE i == [a \in Address |-> Elapse(e.inner[a])]
           x == Elapse(e.expiration)
           f == [e EXCEPT !.inner = [a \in Address |-> Elapse(@[a])], !.expiration = Elapse(@)]
<1>1. /\ e = [inner |-> e.inner, list |-> e.list, expiration |-> e.expiration]
      /\ e.inner \in [Address -> Left \cup {None}] /\ e.expiration \in Left
      /\ \A a \in Addresses(e) : e.inner[a] \in Left
  BY EntryFacts
<1>2. f = [e EXCEPT !.inner = i, !.expiration = x]
  OBVIOUS
<1>3. /\ i \in [Address -> Left \cup {None}] /\ x \in Left
      /\ \A a \in Address : i[a] = Elapse(e.inner[a])
  BY <1>1, ElapseFacts
<1> HIDE DEF i, x, f
<1>4. f = [inner |-> i, list |-> e.list, expiration |-> x]
  BY <1>1, <1>2, Zenon
<1>5. {a \in Address : i[a] # None} = Addresses(e)
  BY <1>1, <1>3, ElapseFacts DEF Addresses
<1>6. \A a \in Addresses(e) : a \in Address /\ e.inner[a] <= e.expiration
  BY DEF EntryOK, Addresses
<1>7. Ordered(e.list, Addresses(e), i)
  BY <1>1, <1>3, <1>6, ElapseFacts, Reweight DEF EntryOK
<1>8. \A a \in Address : i[a] # None => i[a] <= x
  BY <1>1, <1>3, <1>5, <1>6, ElapseFacts DEF x
<1> QED BY <1>3, <1>4, <1>5, <1>7, <1>8, IsEntry DEF f

\* Time passes, for every key and every address alike.
LEMMA ElapsedOK ==
  ASSUME NEW c, CacheOK(c)
  PROVE  LET r == [c EXCEPT !.map = Elapsed(@)]
         IN  /\ CacheOK(r)
             /\ \A k \in Key, a \in Address :
                  Valid(c, k, a) => r.map[k] # None /\ r.map[k].inner[a] # None
<1> DEFINE m == Elapsed(c.map)
           r == [c EXCEPT !.map = Elapsed(@)]
<1>1. /\ c = [map |-> c.map, list |-> c.list, cnt |-> c.cnt] /\ Shape(c.map, c.list)
      /\ Counted(c.map, c.cnt)
  BY DEF CacheOK
<1>2. r = [map |-> m, list |-> c.list, cnt |-> c.cnt]
  <2> HIDE DEF m
  <2> QED BY <1>1 DEF m
<1>3. ASSUME NEW k \in Dom(c.map)
      PROVE  /\ EntryOK(m[k]) /\ Addresses(m[k]) = Addresses(c.map[k]) /\ m[k] \in Entry /\ m[k] # None
             /\ m[k].expiration = Elapse(c.map[k].expiration) /\ c.map[k].expiration \in Left
  <2>1. EntryOK(c.map[k]) /\ k \in Key /\ c.map[k] # None
    BY <1>1, ShapeFacts, Zenon DEF Dom
  <2>2. m[k] = [c.map[k] EXCEPT !.inner = [a \in Address |-> Elapse(@[a])], !.expiration = Elapse(@)]
    BY <2>1 DEF Elapsed
  <2> HIDE DEF m
  <2> QED BY <2>1, <2>2, EntryElapseOK, EntryFacts, ZenonT(30) DEF EntryOK
<1>4. \A k \in Key : c.map[k] = None => m[k] = None
  BY DEF Elapsed
<1>5. m = [k \in Key |-> m[k]]
  BY DEF Elapsed
<1> HIDE DEF m, r
<1>6. m \in Map /\ Dom(m) = Dom(c.map)
  BY <1>3, <1>4, <1>5, Zenon DEF Map, Dom
<1>7. \A j, k \in Dom(c.map) : Exp(c.map)[j] <= Exp(c.map)[k] => Exp(m)[j] <= Exp(m)[k]
  BY <1>3, ElapseFacts, Zenon DEF Exp, Dom
<1>8. Shape(m, c.list)
  BY <1>1, <1>3, <1>6, <1>7, Reweight, Zenon DEF Shape
<1>9. \A k \in Key, a \in Address :
         m[k] # None /\ m[k].inner[a] # None <=> c.map[k] # None /\ c.map[k].inner[a] # None
  BY <1>3, <1>4 DEF Dom, Addresses
<1>10. Pairs(m) = Pairs(c.map)
  BY <1>9 DEF Pairs
<1> QED BY <1>2, <1>8, <1>9, <1>10, Zenon DEF r, CacheOK, Counted, Valid
-----------------------------------------------------------------------------
\* The inductive invariant: the orders agree with the maps and with the
\* expirations, an entry outlives its addresses, and cnt counts the addresses.
Inv == CacheOK(cache) /\ got \subseteq Entry

LEMMA AnswerType ==
  ASSUME NEW c, CacheOK(c), NEW k \in Key \cup {None}
  PROVE  Answer(c, k) \subseteq Entry
<1> QED BY DEF Answer, CacheOK, Shape, Map

LEMMA InitInv == Init => Inv
BY EmptyOK DEF Init, Inv

LEMMA NextInv ==
  ASSUME Inv, [Next]_vars
  PROVE  Inv'
<1>1. CacheOK(cache) /\ got \subseteq Entry
  BY DEF Inv
<1>2. SUFFICES CacheOK(cache') /\ got' \subseteq Entry
  BY DEF Inv
<1>3. ASSUME NEW r \in Key, NEW l \in Key \cup {None}, NEW a \in Address, NEW b \in Address,
             Announce(r, a, l, b)
      PROVE  CacheOK(cache') /\ got' \subseteq Entry
  BY <1>1, <1>3, AnnouncedIs, Zenon DEF Announce
<1>4. ASSUME NEW r \in Key, NEW l \in Key \cup {None}, NEW a \in Address, NEW b \in Address,
             Unannounce(r, a, l, b)
      PROVE  CacheOK(cache') /\ got' \subseteq Entry
  BY <1>1, <1>4, RemoveAddrOK, Zenon DEF Unannounce
<1>5. ASSUME NEW r \in Key, NEW l \in Key \cup {None}, Lookup(r, l)
      PROVE  CacheOK(cache') /\ got' \subseteq Entry
  <2> DEFINE c == Get(cache, l)
  <2>1. cache' = Get(c, r) /\ got' = Answer(c, l) \cup Answer(cache', r)
    BY <1>5 DEF Lookup
  <2>2. CacheOK(c)
    BY <1>1, GetOK, Zenon
  <2> HIDE DEF c
  <2> QED BY <2>1, <2>2, GetOK, AnswerType, Zenon
<1>6. ASSUME NEW k \in Key, RemoveKey(k) PROVE CacheOK(cache') /\ got' \subseteq Entry
  BY <1>1, <1>6, DropKeyOK, Zenon DEF RemoveKey, Dom
<1>7. ASSUME Clear PROVE CacheOK(cache') /\ got' \subseteq Entry
  BY <1>7, EmptyOK DEF Clear
<1>8. ASSUME Tick PROVE CacheOK(cache') /\ got' \subseteq Entry
  BY <1>1, <1>8, ElapsedOK, Zenon DEF Tick
<1>9. CASE UNCHANGED vars
  BY <1>1, <1>9 DEF vars
<1> QED BY <1>3, <1>4, <1>5, <1>6, <1>7, <1>8, <1>9, Zenon DEF Next

THEOREM InvAlways == Spec => []Inv
BY InitInv, NextInv, PTL DEF Spec

\* lru.rs:317, 243, 369: for any capacity, age and number of keys and addresses,
\* both orders list what the maps hold, and cnt is the number of addresses.
THEOREM ConsistentAlways == Spec => []Consistent
<1>1. ASSUME Inv PROVE Consistent
  <2>1. Shape(cache.map, cache.list) /\ Counted(cache.map, cache.cnt) /\ got \subseteq Entry
        /\ cache = [map |-> cache.map, list |-> cache.list, cnt |-> cache.cnt]
    BY <1>1, Zenon DEF Inv, CacheOK
  <2>2. /\ cache.map \in [Key -> Entry \cup {None}] /\ cache.list \in Seq(Key) /\ cache.cnt \in Nat
        /\ \A k \in Dom(cache.map) : EntryOK(cache.map[k])
    BY <2>1, ShapeFacts, CountedType DEF Map
  <2>3. cache.cnt = Total(cache.map)
    BY <2>1, Zenon DEF Counted, Total, Pairs
  <2> QED BY <2>1, <2>2, <2>3, Zenon DEF Consistent, Dom, TypeOK, Shape, Ordered,
             EntryOK
<1> QED BY <1>1, InvAlways, PTL

\* lru.rs:312-335, 240-254: both orders are by expiration, and an entry outlives
\* its addresses, so that remove_expired can stop at the first that has not expired.
THEOREM InOrderOfExpirationAlways == Spec => []InOrderOfExpiration
<1>1. ASSUME Inv PROVE InOrderOfExpiration
  <2>1. Shape(cache.map, cache.list)
    BY <1>1, Zenon DEF Inv, CacheOK
  <2>2. Ordered(cache.list, Dom(cache.map), Exp(cache.map)) /\ Range(cache.list) = Dom(cache.map)
    BY <2>1 DEF Shape, Ordered
  <2>3. ASSUME NEW i \in 1..Len(cache.list), NEW j \in 1..Len(cache.list), i < j
        PROVE  cache.map[cache.list[i]].expiration <= cache.map[cache.list[j]].expiration
    <3>1. Exp(cache.map)[cache.list[i]] <= Exp(cache.map)[cache.list[j]]
      BY <2>2, <2>3, OrderedFacts, Zenon
    <3> QED BY <2>2, <3>1, OrderedFacts, Zenon DEF Exp, Dom
  <2>4. ASSUME NEW k \in Range(cache.list)
        PROVE  LET e == cache.map[k]
               IN  /\ \A i, j \in 1..Len(e.list) : i < j => e.inner[e.list[i]] <= e.inner[e.list[j]]
                   /\ \A a \in Addresses(e) : e.inner[a] <= e.expiration
    BY <2>1, <2>2, Zenon DEF Shape, EntryOK, Ordered
  <2> QED BY <2>3, <2>4, Zenon DEF InOrderOfExpiration
<1> QED BY <1>1, InvAlways, PTL

\* lib.rs:378-384, lru.rs:386-398: in a cache with room for two addresses, an
\* announce stores both of its addresses, whatever the cache held before.
THEOREM AnnounceStoresAlways ==
  ASSUME capacity > 1
  PROVE  Spec => []AnnounceStores
<1>1. ASSUME Inv PROVE AnnounceStores
  <2> SUFFICES ASSUME NEW r \in Key, NEW l \in Key, NEW a \in Address, NEW b \in Address, r # l
               PROVE  Valid(Announced(cache, r, a, l, b), r, a) /\ Valid(Announced(cache, r, a, l, b), l, b)
    BY DEF AnnounceStores
  <2> DEFINE c1 == RemoveExpired(cache)
             d  == Insert(cache, r, a)
             c2 == RemoveExpired(d)
             f  == Announced(cache, r, a, l, b)
  <2>1. Stores(d, c1, r, a) /\ Cleans(c2, d) /\ Stores(f, c2, l, b)
    BY <1>1, AnnouncedIs, Zenon DEF Inv
  <2> HIDE DEF c1, d, c2, f
  <2>2. Newest(c2, r, a)
    BY <2>1, Zenon DEF Stores, Cleans
  <2>3. f.map[r] # None /\ f.map[r].inner[a] = age
    BY <2>1, <2>2, Zenon DEF Stores
  <2>4. f.map[l] # None /\ f.map[l].inner[b] = age
    BY <2>1 DEF Stores, Newest
  <2>5. Valid(f, r, a) /\ Valid(f, l, b)
    BY <2>3, <2>4, NewestIsValid, Zenon
  <2> QED BY <2>5 DEF f
<1> QED BY <1>1, InvAlways, PTL

\* lru.rs:364-398: a new key brings the cache back within its capacity, however far
\* it has grown past it.
THEOREM NewKeyWithinCapacityAlways == Spec => []NewKeyWithinCapacity
<1>1. ASSUME Inv PROVE NewKeyWithinCapacity
  <2> SUFFICES ASSUME NEW k \in Key, NEW a \in Address, RemoveExpired(cache).map[k] = None
               PROVE  Insert(cache, k, a).cnt <= capacity
    BY DEF NewKeyWithinCapacity
  <2>1. PICK c : c = RemoveExpired(cache)
    OBVIOUS
  <2>2. CacheOK(c) /\ c.map[k] = None
    BY <1>1, <2>1, RemoveExpiredCleans, Zenon DEF Inv, Cleans
  <2>3. PICK r : r = RemoveLru(c)
    OBVIOUS
  <2>4. r.cnt \in Nat /\ r.cnt < capacity
    BY <2>2, <2>3, RemoveLruMakes, CountFacts, Zenon DEF Makes
  <2>5. Insert(cache, k, a) = Store(c, k, a)
    BY <2>1, CacheAssumption, Zenon DEF Insert
  <2>6. Store(c, k, a)
          = [map |-> [r.map EXCEPT ![k] = NewEntry(a)], list |-> Append(r.list, k), cnt |-> r.cnt + 1]
    BY <2>2, <2>3, ZenonT(30) DEF Store
  <2>7. Store(c, k, a).cnt = r.cnt + 1
    BY <2>6
  <2>8. r.cnt + 1 <= capacity
    BY <2>4, CacheAssumption
  <2> QED BY <2>5, <2>7, <2>8, Zenon
<1> QED BY <1>1, InvAlways, PTL

\* Unannouncing two keys in either order does the same.
LEMMA RemoveAddrCommutes ==
  ASSUME NEW c, CacheOK(c), NEW r \in Key, NEW l \in Key, r # l, NEW a \in Address, NEW b \in Address
  PROVE  RemoveAddr(RemoveAddr(c, r, a), l, b) = RemoveAddr(RemoveAddr(c, l, b), r, a)
<1> DEFINE Absent(d, k, x) == d.map[k] = None \/ d.map[k].inner[x] = None
           Without(d, k, x) == [map |-> [d.map EXCEPT ![k] = EntryRemove(d.map[k], x)],
                                list |-> d.list, cnt |-> d.cnt - 1]
<1>1. c = [map |-> c.map, list |-> c.list, cnt |-> c.cnt] /\ c.map \in Map /\ None \notin Key
  BY CacheAssumption DEF CacheOK, Shape
<1>2. ASSUME NEW d, d = [map |-> d.map, list |-> d.list, cnt |-> d.cnt], NEW k \in Key, NEW x
      PROVE  /\ Absent(d, k, x) => RemoveAddr(d, k, x) = d
             /\ ~Absent(d, k, x) => RemoveAddr(d, k, x) = Without(d, k, x)
  <2>1. [d EXCEPT !.map[k] = EntryRemove(@, x), !.cnt = @ - 1] = Without(d, k, x)
    <3> DEFINE m == [d.map EXCEPT ![k] = EntryRemove(d.map[k], x)]
               n == d.cnt - 1
               w == [d EXCEPT !.map[k] = EntryRemove(@, x), !.cnt = @ - 1]
    <3>1. w = [d EXCEPT !.map = m, !.cnt = n]
      BY Zenon
    <3>2. Without(d, k, x) = [map |-> m, list |-> d.list, cnt |-> n]
      OBVIOUS
    <3> HIDE DEF m, n, w, Without
    <3>3. w = [map |-> m, list |-> d.list, cnt |-> n]
      BY <1>2, <3>1, Zenon
    <3> QED BY <3>2, <3>3 DEF w
  <2> QED BY <1>1, <2>1 DEF RemoveAddr
<1>3. ASSUME NEW k \in Key, NEW x
      PROVE  LET d == Without(c, k, x)
             IN  /\ d = [map |-> d.map, list |-> d.list, cnt |-> d.cnt]
                 /\ \A j \in Key : j # k => d.map[j] = c.map[j]
  OBVIOUS
<1>4. CASE Absent(c, r, a)
  <2>1. RemoveAddr(c, r, a) = c
    BY <1>1, <1>2, <1>4, Zenon
  <2>2. CASE Absent(c, l, b)
    BY <1>1, <1>2, <2>1, <2>2
  <2>3. CASE ~Absent(c, l, b)
    <3> DEFINE d == Without(c, l, b)
    <3>1. RemoveAddr(c, l, b) = d
      BY <1>1, <1>2, <2>3
    <3>2. d = [map |-> d.map, list |-> d.list, cnt |-> d.cnt] /\ Absent(d, r, a)
      BY <1>4
    <3> HIDE DEF d
    <3> QED BY <1>2, <2>1, <3>1, <3>2
  <2> QED BY <2>2, <2>3, Zenon
<1>5. CASE ~Absent(c, r, a) /\ Absent(c, l, b)
  <2> DEFINE d == Without(c, r, a)
  <2>1. RemoveAddr(c, r, a) = d /\ RemoveAddr(c, l, b) = c
    BY <1>1, <1>2, <1>5, ZenonT(30)
  <2>2. d = [map |-> d.map, list |-> d.list, cnt |-> d.cnt] /\ Absent(d, l, b)
    BY <1>5
  <2> HIDE DEF d
  <2> QED BY <1>2, <2>1, <2>2
<1>6. CASE ~Absent(c, r, a) /\ ~Absent(c, l, b)
  <2> DEFINE d == Without(c, r, a)
             e == Without(c, l, b)
  <2>1. RemoveAddr(c, r, a) = d /\ RemoveAddr(c, l, b) = e
    BY <1>1, <1>2, <1>6
  <2>2. d = [map |-> d.map, list |-> d.list, cnt |-> d.cnt] /\ ~Absent(d, l, b) /\ d.map[l] = c.map[l]
    BY <1>6
  <2>3. e = [map |-> e.map, list |-> e.list, cnt |-> e.cnt] /\ ~Absent(e, r, a) /\ e.map[r] = c.map[r]
    BY <1>6
  <2> HIDE DEF d, e
  <2> QED BY <1>1, <1>2, <2>1, <2>2, <2>3
<1> QED BY <1>4, <1>5, <1>6, Zenon

\* An announce loses a valid address only to a key it brings to a full cache.
LEMMA AnnouncedLoses ==
  ASSUME capacity > 1, NEW c, CacheOK(c), NEW r \in Key, NEW a \in Address,
         NEW l \in Key \cup {None}, l # r, NEW b \in Address,
         NEW k \in Key, NEW x \in Address, Valid(c, k, x), ~Valid(Announced(c, r, a, l, b), k, x)
  PROVE  /\ RemoveExpired(c).cnt + 1 >= capacity
         /\ \E j \in Key : ~Holds(RemoveExpired(c), j) /\ Holds(Announced(c, r, a, l, b), j)
<1> DEFINE c1 == RemoveExpired(c)
           d  == Insert(c, r, a)
           c2 == RemoveExpired(d)
           f  == Announced(c, r, a, l, b)
<1>1. /\ CacheOK(f) /\ Cleans(c1, c) /\ Stores(d, c1, r, a) /\ Cleans(c2, d)
      /\ l = None => f = d
      /\ l \in Key => Stores(f, c2, l, b)
  BY AnnouncedIs
<1>2. ~Valid(f, k, x)
  OBVIOUS
<1> HIDE DEF c1, d, c2, f
<1>3. /\ c1.cnt \in Nat /\ d.cnt \in Nat /\ c2.cnt \in Nat /\ capacity \in Nat
      /\ c2.cnt <= d.cnt /\ d.cnt <= c1.cnt + 1
  BY <1>1, CountFacts, PartCount, CacheAssumption, Zenon DEF Cleans, Stores
<1>4. Valid(d, r, a) /\ (l \in Key => Valid(f, l, b))
  BY <1>1, NewestIsValid, Zenon DEF Stores, Newest
<1>5. CASE c1.map[r] # None \/ c1.cnt < capacity
  <2>1. \A j \in Key, y \in Address : Valid(c1, j, y) => Valid(d, j, y)
    BY <1>1, <1>5, Zenon DEF Stores
  <2>2. l \in Key /\ Valid(c2, k, x)
    BY <1>1, <1>2, <2>1, CleansValid
  <2>3. c2.map[l] = None /\ ~(c2.cnt < capacity)
    BY <1>1, <1>2, <2>2, Zenon DEF Stores
  <2>4. ~Holds(c1, l)
    BY <1>1, <2>1, <2>2, <2>3, CleansValid, Zenon DEF Holds, Valid
  <2> QED BY <1>3, <1>4, <2>2, <2>3, <2>4 DEF c1, f, Holds
<1>6. CASE c1.map[r] = None /\ ~(c1.cnt < capacity)
  <2>1. Holds(f, r)
    BY <1>1, <1>4, NewestIsValid, Zenon DEF Holds, Stores, Cleans
  <2>2. ~Holds(c1, r)
    BY <1>6 DEF Holds, Valid
  <2>3. c1.cnt + 1 >= capacity
    BY <1>3, <1>6
  <2> QED BY <2>1, <2>2, <2>3 DEF c1, f
<1> QED BY <1>5, <1>6, Zenon

\* lru.rs:364-398, lib.rs:371-384: in a cache with room for two addresses, a valid
\* address is only lost when it is removed, or to a key that had none and needs room.
THEOREM LostOnlyForRoomAlways ==
  ASSUME capacity > 1
  PROVE  Spec => LostOnlyForRoom
<1> DEFINE Excused(k, a) ==
             \/ RemoveKey(k) \/ Clear
             \/ \E l \in Key \cup {None}, b \in Address : Unannounce(k, a, l, b)
             \/ RemoveExpired(cache).cnt + 1 >= capacity
                  /\ \E l \in Key : ~Holds(RemoveExpired(cache), l) /\ Holds(cache', l)
           A == \A k \in Key, a \in Address : Lost(k, a) => Excused(k, a)
<1>1. Inv /\ [Next]_vars => [A]_vars
  <2> SUFFICES ASSUME Inv, Next, NEW k \in Key, NEW x \in Address, Lost(k, x)
               PROVE  Excused(k, x)
    OBVIOUS
  <2>1. CacheOK(cache) /\ Valid(cache, k, x) /\ ~Valid(cache', k, x)
    BY DEF Inv, Lost, Valid
  <2>2. ASSUME NEW r \in Key, NEW l \in (Key \ {r}) \cup {None}, NEW a \in Address, NEW b \in Address,
               Announce(r, a, l, b)
        PROVE  Excused(k, x)
    BY <2>1, <2>2, CacheAssumption, AnnouncedLoses, Zenon DEF Announce
  <2>3. ASSUME NEW r \in Key, NEW l \in (Key \ {r}) \cup {None}, NEW a \in Address, NEW b \in Address,
               Unannounce(r, a, l, b)
        PROVE  Excused(k, x)
    <3> DEFINE d == RemoveAddr(cache, r, a)
    <3>1. cache' = RemoveAddr(d, l, b) /\ got' = {} /\ l \in Key \cup {None}
      BY <2>3 DEF Unannounce
    <3>2. CacheOK(d) /\ ((k # r \/ x # a) => Valid(d, k, x))
      BY <2>1, RemoveAddrOK
    <3>3. (k # l \/ x # b) /\ Valid(d, k, x) => Valid(cache', k, x)
      <4> HIDE DEF d
      <4> QED BY <3>1, <3>2, RemoveAddrOK, Zenon
    <3>4. CASE k = r /\ x = a
      BY <2>3, <3>4, Zenon
    <3>5. CASE k = l /\ x = b
      BY <2>1, <3>1, <3>5, CacheAssumption, RemoveAddrCommutes DEF Unannounce
    <3> QED BY <2>1, <3>2, <3>3, <3>4, <3>5, Zenon
  <2>4. ASSUME NEW r \in Key, NEW l \in (Key \ {r}) \cup {None}, Lookup(r, l)
        PROVE  FALSE
    <3> DEFINE d == Get(cache, l)
    <3> HIDE DEF d
    <3> QED BY <2>1, <2>4, GetOK, Zenon DEF Lookup
  <2>5. ASSUME NEW j \in Key, RemoveKey(j) PROVE j = k
    BY <2>1, <2>5 DEF RemoveKey, Valid
  <2>6. ASSUME Tick PROVE FALSE
    BY <2>1, <2>6, ElapsedOK DEF Tick, Lost
  <2>7. CASE \E j \in Key : RemoveKey(j)
    BY <2>5, <2>7
  <2>8. CASE Clear
    BY <2>8
  <2> HIDE DEF Excused
  <2> QED BY <2>2, <2>3, <2>4, <2>6, <2>7, <2>8, Zenon DEF Next
<1> QED BY <1>1, InvAlways, PTL DEF Spec, LostOnlyForRoom
=============================================================================
