---------------------------- MODULE KBucketProofs ----------------------------
(***************************************************************************)
(* Proofs about KBucket for every set of keys, every capacity and every    *)
(* timeout.  The inductive invariant is Good: the types, the bounds, the   *)
(* uniqueness of keys and the agreement of positions with reported         *)
(* statuses need each other.                                               *)
(***************************************************************************)
EXTENDS KBucketRefinement, Integers, TLAPS

\* SMT has 30 seconds for each step; the steps it is not suited for name Zenon.
USE SMTT(30)

-----------------------------------------------------------------------------
(* Removing from and inserting into a vector. *)

LEMMA VecRemoveProperties ==
  ASSUME NEW S, NEW s \in Seq(S), NEW p \in 0..(Len(s) - 1)
  PROVE  /\ VecRemove(s, p) \in Seq(S)
         /\ Len(VecRemove(s, p)) = Len(s) - 1
         /\ \A i \in 1..(Len(s) - 1) : VecRemove(s, p)[i] = IF i <= p THEN s[i] ELSE s[i + 1]
BY DEF VecRemove

LEMMA VecInsertProperties ==
  ASSUME NEW S, NEW s \in Seq(S), NEW p \in 0..Len(s), NEW e \in S
  PROVE  /\ VecInsert(s, p, e) \in Seq(S)
         /\ Len(VecInsert(s, p, e)) = Len(s) + 1
         /\ \A i \in 1..(Len(s) + 1) :
               VecInsert(s, p, e)[i] = IF i <= p THEN s[i] ELSE IF i = p + 1 THEN e ELSE s[i - 1]
BY DEF VecInsert

LEMMA VecInsertElements ==
  ASSUME NEW S, NEW s \in Seq(S), NEW p \in 0..Len(s), NEW e \in S
  PROVE  \A i \in 1..Len(VecInsert(s, p, e)) :
            VecInsert(s, p, e)[i] = e \/ \E j \in 1..Len(s) : VecInsert(s, p, e)[i] = s[j]
<1> DEFINE t == VecInsert(s, p, e)
<1>0. /\ t \in Seq(S)
      /\ Len(t) = Len(s) + 1
      /\ \A i \in 1..(Len(s) + 1) : t[i] = IF i <= p THEN s[i] ELSE IF i = p + 1 THEN e ELSE s[i - 1]
  BY VecInsertProperties
<1> HIDE DEF t
<1> SUFFICES ASSUME NEW i \in 1..(Len(s) + 1)
             PROVE  t[i] = e \/ \E j \in 1..Len(s) : t[i] = s[j]
  BY <1>0 DEF t
<1>1. t[i] = IF i <= p THEN s[i] ELSE IF i = p + 1 THEN e ELSE s[i - 1]
  BY <1>0
<1>2. CASE i <= p
  BY <1>1, <1>2
<1>3. CASE i = p + 1
  BY <1>1, <1>3
<1>4. CASE i > p + 1
  <2>1. i - 1 \in 1..Len(s)
    BY <1>4
  <2> QED BY <1>1, <1>4, <2>1
<1> QED BY <1>2, <1>3, <1>4

LEMMA RangeMember ==
  ASSUME NEW S, NEW s \in Seq(S), NEW e
  PROVE  e \in Range(s) <=> \E i \in 1..Len(s) : s[i] = e
BY DEF Range

-----------------------------------------------------------------------------
(* The invariant of the array and its index, and of the pending node, for a *)
(* bucket given by its parts and a record r of the reported statuses.       *)

NodesGood(n, f, r) ==
  /\ n \in Seq(Key)
  /\ Len(n) <= K_VALUE
  /\ f \in Nat \cup {None}
  /\ f # None => f < Len(n)
  /\ \A i, j \in 1..Len(n) : n[i] = n[j] => i = j
  /\ \A i \in 1..Len(n) : r[n[i]] = IF f # None /\ i - 1 >= f THEN "Connected" ELSE "Disconnected"

PendingGood(n, p, r) ==
  /\ p \in PendingNode \cup {None}
  /\ p # None => /\ \A i \in 1..Len(n) : n[i] # p.key
                 /\ p.status = r[p.key]

Absent(n, k) == \A i \in 1..Len(n) : n[i] # k

\* Appending an absent key as the most recently connected node (bucket.rs:346-348).
LEMMA AppendConnected ==
  ASSUME NEW r \in [Key -> Status], NEW n, NEW f, NodesGood(n, f, r), Len(n) < K_VALUE,
         NEW k \in Key, Absent(n, k)
  PROVE  NodesGood(Append(n, k), IF f = None THEN Len(n) ELSE f, [r EXCEPT ![k] = "Connected"])
<1> DEFINE m == Append(n, k)
           g == IF f = None THEN Len(n) ELSE f
           q == [r EXCEPT ![k] = "Connected"]
<1>1. /\ n \in Seq(Key) /\ Len(n) \in Nat /\ f \in Nat \cup {None} /\ (f # None => f < Len(n))
      /\ \A i, j \in 1..Len(n) : n[i] = n[j] => i = j
      /\ \A i \in 1..Len(n) : r[n[i]] = IF f # None /\ i - 1 >= f THEN "Connected" ELSE "Disconnected"
      /\ \A i \in 1..Len(n) : n[i] \in Key /\ n[i] # k
  BY DEF NodesGood, Absent
<1>2. /\ m \in Seq(Key) /\ Len(m) = Len(n) + 1
      /\ \A i \in 1..Len(n) : m[i] = n[i]
      /\ m[Len(n) + 1] = k
  BY <1>1
<1>3. q \in [Key -> Status] /\ q[k] = "Connected" /\ \A x \in Key : x # k => q[x] = r[x]
  BY DEF Status
<1>4. g \in Nat /\ g < Len(m) /\ g # None /\ (f = None => g = Len(n)) /\ (f # None => g = f)
  BY <1>1, <1>2, ConstantsAssumption
<1> HIDE DEF m, g, q
<1>5. ASSUME NEW i \in 1..Len(m)
      PROVE  q[m[i]] = IF g # None /\ i - 1 >= g THEN "Connected" ELSE "Disconnected"
  <2>1. CASE i = Len(n) + 1
    BY <2>1, <1>1, <1>2, <1>3, <1>4
  <2>2. CASE i \in 1..Len(n)
    <3>1. q[m[i]] = r[n[i]]
      BY <2>2, <1>1, <1>2, <1>3
    <3> QED BY <3>1, <2>2, <1>1, <1>4
  <2> QED BY <1>1, <1>2, <2>1, <2>2
<1>6. ASSUME NEW i \in 1..Len(m), NEW j \in 1..Len(m), m[i] = m[j]
      PROVE  i = j
  BY <1>1, <1>2, <1>6
<1>7. Len(m) <= K_VALUE
  BY <1>1, <1>2, ConstantsAssumption
<1> QED BY <1>2, <1>4, <1>5, <1>6, <1>7 DEF NodesGood, m, g, q

\* Inserting an absent key as the most recently disconnected node (bucket.rs:353-359).
LEMMA InsertDisconnected ==
  ASSUME NEW r \in [Key -> Status], NEW n, NEW f, NodesGood(n, f, r), Len(n) < K_VALUE,
         NEW k \in Key, Absent(n, k)
  PROVE  NodesGood(IF f = None THEN Append(n, k) ELSE VecInsert(n, f, k),
                   IF f = None THEN None ELSE f + 1, [r EXCEPT ![k] = "Disconnected"])
<1> DEFINE q == [r EXCEPT ![k] = "Disconnected"]
<1>1. /\ n \in Seq(Key) /\ Len(n) \in Nat /\ f \in Nat \cup {None} /\ (f # None => f < Len(n))
      /\ \A i, j \in 1..Len(n) : n[i] = n[j] => i = j
      /\ \A i \in 1..Len(n) : r[n[i]] = IF f # None /\ i - 1 >= f THEN "Connected" ELSE "Disconnected"
      /\ \A i \in 1..Len(n) : n[i] \in Key /\ n[i] # k
  BY DEF NodesGood, Absent
<1>t. n \in Seq(Key)
  BY DEF NodesGood
<1>2. q \in [Key -> Status] /\ q[k] = "Disconnected" /\ \A x \in Key : x # k => q[x] = r[x]
  BY DEF Status
<1> HIDE DEF q
<1>3. CASE f = None
  <2> DEFINE m == Append(n, k)
  <2>1. /\ m \in Seq(Key) /\ Len(m) = Len(n) + 1
        /\ \A i \in 1..Len(n) : m[i] = n[i]
        /\ m[Len(n) + 1] = k
    BY <1>1
  <2> HIDE DEF m
  <2>2. ASSUME NEW i \in 1..Len(m)
        PROVE  q[m[i]] = "Disconnected"
    BY <1>1, <1>2, <1>3, <2>1
  <2>3. ASSUME NEW i \in 1..Len(m), NEW j \in 1..Len(m), m[i] = m[j]
        PROVE  i = j
    BY <1>1, <2>1, <2>3
  <2>4. NodesGood(m, None, q)
    BY <1>1, <2>1, <2>2, <2>3, ConstantsAssumption DEF NodesGood
  <2> QED BY <2>4, <1>3 DEF m, q
<1>4. CASE f # None
  <2> DEFINE m == VecInsert(n, f, k)
             g == f + 1
  <2>1. f \in Nat /\ f < Len(n) /\ f \in 0..Len(n) /\ g \in Nat /\ g # None /\ g = f + 1
    BY <1>1, <1>4, ConstantsAssumption
  <2>2. /\ m \in Seq(Key) /\ Len(m) = Len(n) + 1
        /\ \A i \in 1..(Len(n) + 1) : m[i] = IF i <= f THEN n[i] ELSE IF i = f + 1 THEN k ELSE n[i - 1]
    <3>1. f \in 0..Len(n)
      BY <2>1
    <3> QED BY <3>1, <1>t, VecInsertProperties
  <2> HIDE DEF m, g
  <2>3. ASSUME NEW i \in 1..Len(m)
        PROVE  q[m[i]] = IF g # None /\ i - 1 >= g THEN "Connected" ELSE "Disconnected"
    <3>1. CASE i <= f
      <4>1. i \in 1..Len(n) /\ m[i] = n[i] /\ q[m[i]] = r[n[i]]
        BY <3>1, <1>1, <1>2, <2>1, <2>2
      <4> QED BY <4>1, <3>1, <1>1, <2>1
    <3>2. CASE i = f + 1
      BY <3>2, <1>1, <1>2, <2>1, <2>2
    <3>3. CASE i > f + 1
      <4>0. i \in 1..(Len(n) + 1) /\ i - 1 \in 1..Len(n) /\ ~(i <= f) /\ i # f + 1
        BY <3>3, <1>1, <2>1, <2>2
      <4>1. i - 1 \in 1..Len(n) /\ m[i] = n[i - 1]
        BY <4>0, <2>2
      <4>2. q[m[i]] = r[n[i - 1]]
        BY <4>1, <1>1, <1>2
      <4>3. r[n[i - 1]] = "Connected"
        BY <4>1, <3>3, <1>1, <1>4, <2>1
      <4> QED BY <4>2, <4>3, <3>3, <2>1
    <3> QED BY <3>1, <3>2, <3>3, <1>1, <2>1, <2>2
  <2>4. ASSUME NEW i \in 1..Len(m), NEW j \in 1..Len(m), m[i] = m[j]
        PROVE  i = j
    <3>1. i \in 1..(Len(n) + 1) /\ j \in 1..(Len(n) + 1)
      BY <2>2
    <3> DEFINE o(x) == IF x <= f THEN x ELSE x - 1
    <3>2. ASSUME NEW x \in 1..(Len(n) + 1), x # f + 1
          PROVE  o(x) \in 1..Len(n) /\ m[x] = n[o(x)]
      <4>1. CASE x <= f
        <5>1. x \in 1..Len(n)
          BY <4>1, <1>1, <2>1
        <5> QED BY <5>1, <4>1, <2>2
      <4>2. CASE ~(x <= f)
        <5>1. x - 1 \in 1..Len(n)
          BY <3>2, <4>2, <1>1, <2>1
        <5> QED BY <3>2, <5>1, <4>2, <2>2
      <4> QED BY <4>1, <4>2
    <3>3. f + 1 \in 1..(Len(n) + 1) /\ ~(f + 1 <= f)
      BY <1>1, <2>1
    <3>4. m[f + 1] = k
      BY <2>2, <3>3
    <3>5. CASE i = f + 1 \/ j = f + 1
      <4>1. \A x \in 1..(Len(n) + 1) : x # f + 1 => m[x] # k
        BY <1>1, <3>2, Zenon
      <4> QED BY <2>4, <3>1, <3>4, <3>5, <4>1, Zenon
    <3>6. CASE i # f + 1 /\ j # f + 1
      <4>1. /\ o(i) \in 1..Len(n) /\ o(j) \in 1..Len(n) /\ n[o(i)] = n[o(j)]
        BY <2>4, <3>1, <3>2, <3>6, Zenon
      <4>2. o(i) = o(j)
        BY <1>1, <4>1, Zenon
      <4> QED BY <2>1, <3>1, <3>6, <4>2
    <3> QED BY <3>5, <3>6, Zenon
  <2>5. NodesGood(m, g, q)
    BY <1>1, <2>1, <2>2, <2>3, <2>4, ConstantsAssumption DEF NodesGood
  <2> QED BY <2>5, <1>4 DEF m, q, g
<1> QED BY <1>3, <1>4

\* Removing the node at position p, and adjusting first_connected_pos
\* (bucket.rs:369-386): the removed key is gone, the other nodes keep their
\* status, and no key appears that was not there.
LEMMA RemoveKeepsGood ==
  ASSUME NEW r \in [Key -> Status], NEW n, NEW f, NodesGood(n, f, r),
         NEW p \in 0..(Len(n) - 1)
  PROVE  LET m == VecRemove(n, p)
             g == IF f # None /\ p >= f
                  THEN IF f = p /\ p = Len(m) THEN None ELSE f
                  ELSE IF f = None THEN None ELSE f - 1
         IN  /\ NodesGood(m, g, r)
             /\ Len(m) < K_VALUE
             /\ Absent(m, n[p + 1])
             /\ \A k : Absent(n, k) => Absent(m, k)
<1> DEFINE m == VecRemove(n, p)
           g == IF f # None /\ p >= f
                THEN IF f = p /\ p = Len(m) THEN None ELSE f
                ELSE IF f = None THEN None ELSE f - 1
           old(i) == IF i <= p THEN i ELSE i + 1
<1>t. n \in Seq(Key)
  BY DEF NodesGood
<1>1. /\ Len(n) \in Nat /\ Len(n) <= K_VALUE /\ p \in Nat /\ p < Len(n)
      /\ f \in Nat \cup {None} /\ (f # None => f < Len(n))
      /\ \A i, j \in 1..Len(n) : n[i] = n[j] => i = j
      /\ \A i \in 1..Len(n) : r[n[i]] = IF f # None /\ i - 1 >= f THEN "Connected" ELSE "Disconnected"
  BY <1>t DEF NodesGood
<1>2. /\ m \in Seq(Key) /\ Len(m) = Len(n) - 1
      /\ \A i \in 1..(Len(n) - 1) : m[i] = IF i <= p THEN n[i] ELSE n[i + 1]
  BY <1>t, VecRemoveProperties, Zenon
<1> HIDE DEF m
<1>3. ASSUME NEW i \in 1..Len(m)
      PROVE  /\ old(i) \in 1..Len(n) /\ old(i) # p + 1 /\ m[i] = n[old(i)]
             /\ (i <= p /\ old(i) = i) \/ (i > p /\ old(i) = i + 1)
  BY <1>1, <1>2
<1> HIDE DEF old
<1>4. ASSUME NEW i \in 1..Len(m), NEW j \in 1..Len(m), m[i] = m[j]
      PROVE  i = j
  <2>1. old(i) \in 1..Len(n) /\ old(j) \in 1..Len(n) /\ n[old(i)] = n[old(j)]
    BY <1>3, <1>4
  <2>2. old(i) = old(j)
    BY <2>1, <1>1, Zenon
  <2> QED BY <2>2, <1>2, <1>1, <1>3
<1>5. g \in Nat \cup {None} /\ (g # None => g < Len(m))
  BY <1>1, <1>2, ConstantsAssumption
<1>6. ASSUME NEW i \in 1..Len(m)
      PROVE  r[m[i]] = IF g # None /\ i - 1 >= g THEN "Connected" ELSE "Disconnected"
  <2>1. r[m[i]] = IF f # None /\ old(i) - 1 >= f THEN "Connected" ELSE "Disconnected"
    BY <1>1, <1>3
  <2>2. i \in Nat /\ i >= 1 /\ i <= Len(n) - 1 /\ old(i) \in Nat
    BY <1>1, <1>2, <1>3
  <2>3. (f # None /\ old(i) - 1 >= f) <=> (g # None /\ i - 1 >= g)
    <3>1. CASE f = None
      BY <3>1
    <3>2. CASE f # None /\ p >= f /\ f = p /\ p = Len(m)
      BY <3>2, <1>1, <1>2, <1>3, <2>2, ConstantsAssumption
    <3>3. CASE f # None /\ p >= f /\ ~(f = p /\ p = Len(m))
      BY <3>3, <1>1, <1>2, <1>3, <2>2, ConstantsAssumption
    <3>4. CASE f # None /\ ~(p >= f)
      <4>1. f \in Nat /\ g = f - 1 /\ g \in Nat /\ g # None
        BY <3>4, <1>1, ConstantsAssumption
      <4> QED BY <4>1, <3>4, <1>1, <1>3, <2>2
    <3> QED BY <3>1, <3>2, <3>3, <3>4
  <2> HIDE DEF g
  <2> QED BY <2>1, <2>3
<1>7. NodesGood(m, g, r) /\ Len(m) < K_VALUE
  <2> HIDE DEF g
  <2>1. Len(m) \in Nat /\ Len(m) < K_VALUE /\ Len(m) <= K_VALUE
    BY <1>1, <1>2, ConstantsAssumption
  <2> QED BY <2>1, <1>2, <1>4, <1>5, <1>6 DEF NodesGood
<1>8. Absent(m, n[p + 1])
  <2>1. p + 1 \in 1..Len(n)
    BY <1>1
  <2> QED BY <2>1, <1>1, <1>3, Zenon DEF Absent
<1>9. \A k : Absent(n, k) => Absent(m, k)
  BY <1>3, Zenon DEF Absent
<1> QED BY <1>7, <1>8, <1>9 DEF m

-----------------------------------------------------------------------------
(* The operations of bucket.rs keep a bucket good. *)

Bucket == [nodes : Seq(Key),
           first_connected_pos : Nat \cup {None},
           pending : PendingNode \cup {None}]

Good(b, r) ==
  /\ b \in Bucket
  /\ NodesGood(b.nodes, b.first_connected_pos, r)
  /\ PendingGood(b.nodes, b.pending, r)

\* KBucket::insert, for a key that is neither in the bucket nor pending
LEMMA InsertGood ==
  ASSUME NEW r \in [Key -> Status], NEW b, Good(b, r),
         NEW k \in Key, Absent(b.nodes, k), ~IsPending(b, k), NEW s \in Status
  PROVE  Good(Insert(b, k, s), [r EXCEPT ![k] = s])
<1> DEFINE n == b.nodes
           f == b.first_connected_pos
           q == [r EXCEPT ![k] = s]
<1>1. /\ b \in Bucket /\ n \in Seq(Key) /\ Len(n) \in Nat /\ Len(n) <= K_VALUE
      /\ f \in Nat \cup {None}
      /\ b.pending \in PendingNode \cup {None}
  BY DEF Good, Bucket, NodesGood
<1>2. q \in [Key -> Status] /\ q[k] = s /\ \A x \in Key : x # k => q[x] = r[x]
  OBVIOUS
<1>3. ASSUME NEW m, PendingGood(n, b.pending, r),
             \A i \in 1..Len(m) : m[i] = k \/ \E j \in 1..Len(n) : m[i] = n[j]
      PROVE  PendingGood(m, b.pending, q)
  <2>1. b.pending # None => b.pending.key \in Key /\ b.pending.key # k
    BY <1>1 DEF IsPending, PendingNode
  <2> QED BY <2>1, <1>2, <1>3 DEF PendingGood
<1>4. PendingGood(n, b.pending, r) /\ NodesGood(n, f, r)
  BY DEF Good
<1> HIDE DEF q
<1>5. CASE ~IsFull(b) /\ s = "Connected"
  <2> DEFINE m == Append(n, k)
             g == IF f = None THEN Len(n) ELSE f
  <2>1. Insert(b, k, s) = [b EXCEPT !.nodes = m, !.first_connected_pos = g]
    BY <1>5 DEF Insert, PushConnected
  <2>2. NodesGood(m, g, q)
    <3>1. Len(n) < K_VALUE
      BY <1>1, <1>5, ConstantsAssumption DEF IsFull
    <3> QED BY <3>1, <1>4, <1>5, AppendConnected, Zenon DEF q
  <2>3. PendingGood(m, b.pending, q)
    <3>1. \A i \in 1..Len(m) : m[i] = k \/ \E j \in 1..Len(n) : m[i] = n[j]
      BY <1>1
    <3> QED BY <3>1, <1>3, <1>4, Zenon
  <2>4. m \in Seq(Key) /\ g \in Nat \cup {None}
    BY <2>2 DEF NodesGood
  <2> HIDE DEF m, g
  <2> QED BY <2>1, <2>2, <2>3, <2>4, <1>1, Zenon DEF Good, Bucket, q
<1>6. CASE ~IsFull(b) /\ s = "Disconnected"
  <2> DEFINE m == IF f = None THEN Append(n, k) ELSE VecInsert(n, f, k)
             g == IF f = None THEN None ELSE f + 1
  <2>1. Insert(b, k, s) = [b EXCEPT !.nodes = m, !.first_connected_pos = g]
    BY <1>6, <1>1, Zenon DEF Insert, PushDisconnected, Bucket
  <2>2. NodesGood(m, g, q)
    <3>1. Len(n) < K_VALUE
      BY <1>1, <1>6, ConstantsAssumption DEF IsFull
    <3> QED BY <3>1, <1>4, <1>6, InsertDisconnected, Zenon DEF q
  <2>3. PendingGood(m, b.pending, q)
    <3>1. \A i \in 1..Len(m) : m[i] = k \/ \E j \in 1..Len(n) : m[i] = n[j]
      <4>1. CASE f = None
        BY <4>1, <1>1
      <4>2. CASE f # None
        <5>1. f \in 0..Len(n)
          BY <4>2, <1>4 DEF NodesGood
        <5>2. m = VecInsert(n, f, k)
          BY <4>2
        <5>3. n \in Seq(Key)
          BY <1>1
        <5> HIDE DEF m, n, f
        <5> QED BY <5>1, <5>2, <5>3, VecInsertElements
      <4> QED BY <4>1, <4>2
    <3> QED BY <3>1, <1>3, <1>4, Zenon
  <2>4. m \in Seq(Key) /\ g \in Nat \cup {None}
    BY <2>2 DEF NodesGood
  <2> HIDE DEF m, g
  <2> QED BY <2>1, <2>2, <2>3, <2>4, <1>1, Zenon DEF Good, Bucket, q
<1>7. NodesGood(n, f, q) /\ PendingGood(n, b.pending, q)
  <2>1. \A i \in 1..Len(n) : n[i] \in Key /\ n[i] # k /\ q[n[i]] = r[n[i]]
    BY <1>1, <1>2 DEF Absent
  <2>2. PendingGood(n, b.pending, q)
    BY <1>3, <1>4
  <2> QED BY <2>1, <2>2, <1>4 DEF NodesGood
<1>8. CASE IsFull(b) /\ s = "Connected" /\ f # 0 /\ b.pending = None
  <2> DEFINE w == [key |-> k, status |-> "Connected", replace |-> PendingTimeout]
  <2>1. Insert(b, k, s) = [b EXCEPT !.pending = w]
    BY <1>8 DEF Insert, SetPending
  <2>2. w \in PendingNode
    BY ConstantsAssumption DEF PendingNode, Status
  <2>3. PendingGood(n, w, q)
    BY <2>2, <1>2, <1>8 DEF PendingGood, Absent
  <2> HIDE DEF w
  <2> QED BY <2>1, <2>2, <2>3, <1>1, <1>7 DEF Good, Bucket, q
<1>9. CASE IsFull(b) /\ ~(s = "Connected" /\ f # 0 /\ b.pending = None)
  <2>1. Insert(b, k, s) = b
    BY <1>9 DEF Insert
  <2> QED BY <2>1, <1>1, <1>7 DEF Good, q
<1> QED BY <1>5, <1>6, <1>8, <1>9 DEF Status

\* The position of a key that occurs once
LEMMA PositionOf ==
  ASSUME NEW n \in Seq(Key), \A i, j \in 1..Len(n) : n[i] = n[j] => i = j,
         NEW k \in Range(n)
  PROVE  VecPosition(n, k) \in 0..(Len(n) - 1) /\ n[VecPosition(n, k) + 1] = k
<1>1. PICK i \in 1..Len(n) : n[i] = k
  BY RangeMember
<1>2. /\ i - 1 \in 0..(Len(n) - 1)
      /\ n[(i - 1) + 1] = k
      /\ \A q \in 0..((i - 1) - 1) : n[q + 1] # k
  BY <1>1
<1> QED BY <1>2, Zenon DEF VecPosition

\* KBucket::remove, for a key in the bucket
LEMMA RemoveGood ==
  ASSUME NEW r \in [Key -> Status], NEW b, Good(b, r), NEW k \in Keys(b)
  PROVE  /\ Good(RemoveNode(b, k), r)
         /\ ~IsFull(RemoveNode(b, k))
         /\ Absent(RemoveNode(b, k).nodes, k)
         /\ RemoveNode(b, k).pending = b.pending
         /\ ~IsPending(b, k)
         /\ k \in Key
<1> DEFINE n == b.nodes
           f == b.first_connected_pos
           p == Position(b, k)
           m == VecRemove(n, p)
           g == IF f # None /\ p >= f
                THEN IF f = p /\ p = Len(m) THEN None ELSE f
                ELSE IF f = None THEN None ELSE f - 1
<1>1. b \in Bucket /\ n \in Seq(Key) /\ NodesGood(n, f, r) /\ PendingGood(n, b.pending, r)
  BY DEF Good, Bucket
<1>2. p \in 0..(Len(n) - 1) /\ n[p + 1] = k
  BY <1>1, PositionOf DEF Position, Keys, NodesGood
<1>3. RemoveNode(b, k) = [b EXCEPT !.nodes = m, !.first_connected_pos = g]
  BY Zenon DEF RemoveNode, ConnectedPosAfterRemove, StatusAt
<1>4. /\ NodesGood(m, g, r) /\ Len(m) < K_VALUE /\ Absent(m, k)
      /\ \A x : Absent(n, x) => Absent(m, x)
  <2> HIDE DEF p
  <2> QED BY <1>1, <1>2, RemoveKeepsGood
<1>5. PendingGood(m, b.pending, r)
  BY <1>1, <1>4, Zenon DEF PendingGood, Absent
<1>6. m \in Seq(Key) /\ g \in Nat \cup {None} /\ Len(m) # K_VALUE
  BY <1>4, ConstantsAssumption DEF NodesGood
<1>7. k \in Key /\ ~IsPending(b, k)
  <2>1. p + 1 \in 1..Len(n)
    BY <1>1, <1>2
  <2> QED BY <2>1, <1>1, <1>2 DEF IsPending, PendingGood
<1> HIDE DEF m, g, p
<1> QED BY <1>1, <1>3, <1>4, <1>5, <1>6, <1>7, Zenon DEF Good, Bucket, IsFull

\* KBucket::update, for a key in the bucket
LEMMA UpdateGood ==
  ASSUME NEW r \in [Key -> Status], NEW b, Good(b, r), NEW k \in Keys(b), NEW s \in Status
  PROVE  Good(Update(b, k, s), [r EXCEPT ![k] = s])
<1> DEFINE c == RemoveNode(b, k)
           d == IF Position(b, k) = 0 /\ s = "Connected" THEN [c EXCEPT !.pending = None] ELSE c
<1>1. Good(c, r) /\ Absent(c.nodes, k) /\ ~IsPending(c, k) /\ k \in Key
  BY RemoveGood DEF IsPending
<1> HIDE DEF c
<1>2. Good(d, r) /\ Absent(d.nodes, k) /\ ~IsPending(d, k)
  BY <1>1, Zenon DEF Good, Bucket, PendingGood, IsPending
<1>3. Update(b, k, s) = Insert(d, k, s)
  BY DEF Update, c
<1> HIDE DEF d
<1>4. Good(Insert(d, k, s), [r EXCEPT ![k] = s])
  BY <1>1, <1>2, InsertGood, Zenon
<1> QED BY <1>3, <1>4

\* KBucket::apply_pending on a full bucket whose eldest node is disconnected:
\* the eldest node goes, the pending node takes the place its status asks for.
LEMMA ReplaceGood ==
  ASSUME NEW r \in [Key -> Status], NEW b, Good(b, r), b.pending = None,
         b.nodes # << >>, StatusAt(b, 0) = "Disconnected",
         NEW k \in Key, Absent(b.nodes, k), NEW s \in Status, r[k] = s
  PROVE  Good(Replace(b, k, s), r)
<1> DEFINE n == b.nodes
           f == b.first_connected_pos
           m == VecRemove(n, 0)
           g == IF f = None THEN None ELSE f - 1
<1>1. b \in Bucket /\ n \in Seq(Key) /\ NodesGood(n, f, r)
  BY DEF Good, Bucket
<1>2. 0 \in 0..(Len(n) - 1) /\ (f # None => f \in Nat /\ ~(0 >= f) /\ f > 0)
  BY <1>1 DEF StatusAt, NodesGood
<1>3. NodesGood(m, g, r) /\ Len(m) < K_VALUE /\ Absent(m, k)
  BY <1>1, <1>2, RemoveKeepsGood
<1>4. [r EXCEPT ![k] = s] = r
  OBVIOUS
<1>5. m \in Seq(Key) /\ Len(m) \in Nat /\ (f = None <=> g = None) /\ (f # None => g = f - 1 /\ g + 1 = f)
  BY <1>2, <1>3, ConstantsAssumption DEF NodesGood
<1> HIDE DEF m, g
<1>6. CASE s = "Connected"
  <2> DEFINE h == IF g = None THEN Len(m) ELSE g
  <2>1. Replace(b, k, s) = [b EXCEPT !.nodes = Append(m, k), !.first_connected_pos = h]
    BY <1>5, <1>6, Zenon DEF Replace, m
  <2>2. NodesGood(Append(m, k), h, r)
    BY <1>3, <1>4, <1>6, AppendConnected
  <2> HIDE DEF h
  <2>3. Append(m, k) \in Seq(Key) /\ h \in Nat \cup {None}
    BY <2>2 DEF NodesGood
  <2> QED BY <2>1, <2>2, <2>3, <1>1, Zenon DEF Good, Bucket, PendingGood
<1>7. CASE s = "Disconnected"
  <2> DEFINE t == IF g = None THEN Append(m, k) ELSE VecInsert(m, g, k)
             h == IF g = None THEN None ELSE g + 1
  <2>1. Replace(b, k, s) = [b EXCEPT !.nodes = t, !.first_connected_pos = h]
    BY <1>1, <1>5, <1>7, Zenon DEF Replace, m, Bucket
  <2>2. NodesGood(t, h, r)
    BY <1>3, <1>4, <1>7, InsertDisconnected
  <2> HIDE DEF t, h
  <2>3. t \in Seq(Key) /\ h \in Nat \cup {None}
    BY <2>2 DEF NodesGood
  <2> QED BY <2>1, <2>2, <2>3, <1>1, Zenon DEF Good, Bucket, PendingGood
<1> QED BY <1>6, <1>7 DEF Status

\* KBucket::apply_pending
LEMMA ApplyGood ==
  ASSUME NEW r \in [Key -> Status], NEW b, Good(b, r)
  PROVE  Good(ApplyPending(b), r)
<1>1. CASE ~PendingDue(b)
  BY <1>1 DEF ApplyPending
<1>2. CASE PendingDue(b)
  <2> DEFINE t == RemovePending(b)
             k == b.pending.key
             s == b.pending.status
  <2>1. /\ b \in Bucket /\ b.pending \in PendingNode /\ k \in Key /\ s \in Status /\ r[k] = s
        /\ Absent(b.nodes, k)
    BY <1>2 DEF PendingDue, Good, Bucket, PendingGood, Absent, PendingNode
  <2>2. /\ Good(t, r) /\ t.pending = None /\ t.nodes = b.nodes
        /\ t.first_connected_pos = b.first_connected_pos
    BY <2>1 DEF RemovePending, Good, Bucket, PendingGood
  <2>3. [r EXCEPT ![k] = s] = r
    BY <2>1
  <2>4. ApplyPending(b) = Place(b, t)
    BY <1>2 DEF ApplyPending
  <2>5. CASE ~IsFull(b)
    <3>1. Place(b, t) = Insert(t, k, s)
      BY <2>5 DEF Place
    <3> HIDE DEF t, k, s
    <3>2. Absent(t.nodes, k) /\ ~IsPending(t, k)
      BY <2>1, <2>2 DEF IsPending
    <3>3. Good(Insert(t, k, s), [r EXCEPT ![k] = s])
      BY <3>2, <2>1, <2>2, InsertGood, Zenon
    <3> QED BY <3>1, <3>3, <2>3, <2>4, Zenon
  <2>6. CASE IsFull(b) /\ StatusAt(b, 0) = "Connected"
    BY <2>2, <2>4, <2>6 DEF Place
  <2>7. CASE IsFull(b) /\ StatusAt(b, 0) = "Disconnected"
    <3>1. Place(b, t) = Replace(t, k, s)
      BY <2>7 DEF Place
    <3>2. b.nodes # << >> /\ StatusAt(t, 0) = "Disconnected"
      BY <2>1, <2>2, <2>7, ConstantsAssumption DEF IsFull, Bucket, StatusAt
    <3> HIDE DEF t, k, s
    <3>3. Good(Replace(t, k, s), r)
      BY <3>2, <2>1, <2>2, ReplaceGood
    <3> QED BY <3>1, <3>3, <2>4
  <2> QED BY <2>5, <2>6, <2>7 DEF StatusAt
<1> QED BY <1>1, <1>2

\* PendingEntry::update and PendingEntry::remove
LEMMA UpdatePendingGood ==
  ASSUME NEW r \in [Key -> Status], NEW b, Good(b, r), NEW k \in Key, IsPending(b, k),
         NEW s \in Status
  PROVE  Good(UpdatePending(b, s), [r EXCEPT ![k] = s])
<1> DEFINE w == [b.pending EXCEPT !.status = s]
           q == [r EXCEPT ![k] = s]
<1>1. b \in Bucket /\ b.pending \in PendingNode /\ b.pending.key = k /\ b.pending # None
  BY DEF Good, IsPending, PendingGood
<1>2. w \in PendingNode /\ w.key = k /\ w.status = s
  BY <1>1 DEF PendingNode
<1>3. UpdatePending(b, s) = [b EXCEPT !.pending = w]
  BY <1>1 DEF UpdatePending, Bucket
<1>4. \A i \in 1..Len(b.nodes) : b.nodes[i] \in Key /\ b.nodes[i] # k /\ q[b.nodes[i]] = r[b.nodes[i]]
  BY <1>1 DEF Good, PendingGood, Bucket
<1>5. NodesGood(b.nodes, b.first_connected_pos, q)
  BY <1>4, Zenon DEF Good, NodesGood
<1>6. PendingGood(b.nodes, w, q)
  BY <1>2, <1>4 DEF PendingGood
<1> HIDE DEF w
<1> QED BY <1>1, <1>2, <1>3, <1>5, <1>6 DEF Good, Bucket

LEMMA RemovePendingGood ==
  ASSUME NEW r \in [Key -> Status], NEW b, Good(b, r)
  PROVE  Good(RemovePending(b), r)
BY DEF RemovePending, Good, Bucket, PendingGood

LEMMA FirstNode ==
  ASSUME NEW r, NEW b, Good(b, r), IsFull(b)
  PROVE  b.nodes[1] \in Key
<1>1. b.nodes \in Seq(Key) /\ 1 \in 1..Len(b.nodes)
  BY ConstantsAssumption DEF Good, Bucket, IsFull
<1> QED BY <1>1

LEMMA AppliedType ==
  ASSUME NEW r, NEW b, Good(b, r)
  PROVE  Applied(b) \in AppliedPending \cup {None}
<1>1. PendingDue(b) => b.pending.key \in Key
  BY DEF PendingDue, Good, PendingGood, PendingNode
<1>2. IsFull(b) => b.nodes[1] \in Key
  BY FirstNode
<1> QED BY <1>1, <1>2 DEF Applied, AppliedPending

LEMMA AbsentKey ==
  ASSUME NEW r, NEW b, Good(b, r), NEW k, k \notin Keys(b)
  PROVE  Absent(b.nodes, k)
BY RangeMember DEF Good, Bucket, Keys, Absent

-----------------------------------------------------------------------------
(* The specification. *)

HistoryOK ==
  /\ applied \in AppliedPending \cup {None}
  /\ reported \in [Key -> Status]

Inv == Good(bucket, reported) /\ HistoryOK

LEMMA InvImplies ==
  ASSUME Inv
  PROVE  TypeOK /\ WellFormed /\ UniqueEntries /\ StatusFaithful
<1>1. TypeOK
  BY DEF Inv, HistoryOK, Good, Bucket, TypeOK
<1>2. WellFormed
  BY DEF Inv, Good, NodesGood, WellFormed
<1>3. UniqueEntries
  <2>1. bucket.pending # None => bucket.pending.key \notin Keys(bucket)
    BY RangeMember DEF Inv, Good, Bucket, PendingGood, Keys
  <2> QED BY <2>1 DEF Inv, Good, NodesGood, UniqueEntries
<1>4. StatusFaithful
  BY DEF Inv, Good, NodesGood, PendingGood, StatusFaithful, StatusAt
<1> QED BY <1>1, <1>2, <1>3, <1>4

LEMMA InvInit == Init => Inv
<1> SUFFICES ASSUME Init PROVE Inv
  OBVIOUS
<1>1. New \in Bucket /\ NodesGood(New.nodes, New.first_connected_pos, reported)
  BY ConstantsAssumption DEF New, Bucket, NodesGood
<1> QED BY <1>1 DEF Init, Inv, Good, PendingGood, New, HistoryOK

LEMMA InvNext == Inv /\ [Next]_vars => Inv'
<1> SUFFICES ASSUME Inv, [Next]_vars PROVE Inv'
  OBVIOUS
<1> DEFINE b == ApplyPending(bucket)
<1>1. reported \in [Key -> Status] /\ Good(bucket, reported)
  BY DEF Inv, HistoryOK
<1>2. Good(b, reported)
  BY <1>1, ApplyGood
<1>3. Applied(bucket) \in AppliedPending \cup {None}
  BY <1>1, AppliedType
<1> HIDE DEF b
<1>4. ASSUME NEW k \in Key, NEW s \in Status, AbsentInsert(k, s)
      PROVE  Inv'
  <2>1. /\ k \notin Keys(b) /\ ~IsPending(b, k) /\ bucket' = Insert(b, k, s)
        /\ applied' = Applied(bucket) /\ reported' = [reported EXCEPT ![k] = s]
    BY <1>4 DEF AbsentInsert, b
  <2>2. Good(Insert(b, k, s), [reported EXCEPT ![k] = s])
    BY <2>1, <1>1, <1>2, AbsentKey, InsertGood, Zenon
  <2>3. [reported EXCEPT ![k] = s] \in [Key -> Status]
    BY <1>1
  <2> QED BY <2>1, <2>2, <2>3, <1>3 DEF Inv, HistoryOK
<1>5. ASSUME NEW k \in Key, NEW s \in Status, PresentUpdate(k, s)
      PROVE  Inv'
  <2>1. /\ k \in Keys(b) /\ bucket' = Update(b, k, s) /\ applied' = Applied(bucket)
        /\ reported' = [reported EXCEPT ![k] = s]
    BY <1>5 DEF PresentUpdate, b
  <2>2. Good(Update(b, k, s), [reported EXCEPT ![k] = s])
    BY <2>1, <1>1, <1>2, UpdateGood, Zenon
  <2>3. [reported EXCEPT ![k] = s] \in [Key -> Status]
    BY <1>1
  <2> QED BY <2>1, <2>2, <2>3, <1>1, <1>3 DEF Inv, HistoryOK
<1>6. ASSUME NEW k \in Key, NEW s \in Status, PendingUpdate(k, s)
      PROVE  Inv'
  <2>1. /\ IsPending(b, k) /\ bucket' = UpdatePending(b, s) /\ applied' = Applied(bucket)
        /\ reported' = [reported EXCEPT ![k] = s]
    BY <1>6 DEF PendingUpdate, b
  <2>2. Good(UpdatePending(b, s), [reported EXCEPT ![k] = s])
    BY <2>1, <1>1, <1>2, UpdatePendingGood, Zenon
  <2>3. [reported EXCEPT ![k] = s] \in [Key -> Status]
    BY <1>1
  <2> QED BY <2>1, <2>2, <2>3, <1>1, <1>3 DEF Inv, HistoryOK
<1>7. ASSUME NEW k \in Key, PresentRemove(k)
      PROVE  Inv'
  <2>1. Good(RemoveNode(b, k), reported)
    BY <1>1, <1>2, <1>7, RemoveGood DEF PresentRemove, b
  <2> QED BY <2>1, <1>1, <1>3, <1>7 DEF Inv, HistoryOK, PresentRemove, b
<1>8. ASSUME NEW k \in Key, PendingRemove(k)
      PROVE  Inv'
  <2>1. Good(RemovePending(b), reported)
    BY <1>1, <1>2, RemovePendingGood
  <2> QED BY <2>1, <1>1, <1>3, <1>8 DEF Inv, HistoryOK, PendingRemove, b
<1>9. CASE Visit
  BY <1>1, <1>2, <1>3, <1>9 DEF Inv, HistoryOK, Visit, b
<1>10. CASE Tick
  <2> DEFINE w == [bucket.pending EXCEPT !.replace = @ - 1]
  <2>1. /\ bucket \in Bucket /\ bucket.pending \in PendingNode /\ bucket.pending.replace > 0
        /\ bucket' = [bucket EXCEPT !.pending = w]
        /\ applied' = None /\ reported' = reported
    BY <1>1, <1>10 DEF Tick, Good, Bucket
  <2>2. w \in PendingNode /\ w.key = bucket.pending.key /\ w.status = bucket.pending.status
    BY <2>1, ConstantsAssumption DEF PendingNode
  <2> HIDE DEF w
  <2>3. Good([bucket EXCEPT !.pending = w], reported)
    BY <2>1, <2>2, <1>1, ConstantsAssumption DEF Good, Bucket, PendingGood
  <2> QED BY <2>1, <2>3, <1>1 DEF Inv, HistoryOK
<1>11. CASE UNCHANGED vars
  BY <1>11 DEF Inv, HistoryOK, Good, vars
<1> QED BY <1>4, <1>5, <1>6, <1>7, <1>8, <1>9, <1>10, <1>11 DEF Next

\* The bucket, its pending node and the results of apply_pending keep their
\* types, for every capacity and timeout.
THEOREM TypeCorrect == Spec => []TypeOK
<1>1. Inv => TypeOK
  BY InvImplies
<1> QED BY <1>1, InvInit, InvNext, PTL DEF Spec

\* bucket.rs:173-429: no operation overfills the array or leaves
\* first_connected_pos behind the last node.
THEOREM WellFormedAlways == Spec => []WellFormed
<1>1. Inv => WellFormed
  BY InvImplies
<1> QED BY <1>1, InvInit, InvNext, PTL DEF Spec

\* bucket.rs:23-26: driven through the Entry API, a bucket holds a key at most
\* once, its pending node included.
THEOREM UniqueEntriesAlways == Spec => []UniqueEntries
<1>1. Inv => UniqueEntries
  BY InvImplies
<1> QED BY <1>1, InvInit, InvNext, PTL DEF Spec

\* bucket.rs:394-400: the status derived from a position is the one last
\* reported for the node at that position.
THEOREM StatusFaithfulAlways == Spec => []StatusFaithful
<1>1. Inv => StatusFaithful
  BY InvImplies
<1> QED BY <1>1, InvInit, InvNext, PTL DEF Spec

-----------------------------------------------------------------------------
(* Which keys an operation can lose. *)

LEMMA VecRemoveLoses ==
  ASSUME NEW S, NEW s \in Seq(S), NEW p \in 0..(Len(s) - 1)
  PROVE  Range(s) \subseteq Range(VecRemove(s, p)) \cup {s[p + 1]}
<1> DEFINE t == VecRemove(s, p)
<1>1. /\ t \in Seq(S) /\ Len(t) = Len(s) - 1
      /\ \A i \in 1..(Len(s) - 1) : t[i] = IF i <= p THEN s[i] ELSE s[i + 1]
  BY VecRemoveProperties
<1> HIDE DEF t
<1>2. ASSUME NEW i \in 1..Len(s), i # p + 1
      PROVE  \E j \in 1..Len(t) : t[j] = s[i]
  <2>1. CASE i <= p
    BY <1>1, <2>1
  <2>2. CASE i > p + 1
    <3>1. i - 1 \in 1..(Len(s) - 1) /\ ~(i - 1 <= p) /\ (i - 1) + 1 = i
      BY <2>2
    <3> QED BY <3>1, <1>1, Zenon
  <2> QED BY <1>2, <2>1, <2>2
<1>3. ASSUME NEW x \in Range(s), x # s[p + 1]
      PROVE  x \in Range(t)
  <2>1. PICK i \in 1..Len(s) : s[i] = x
    BY RangeMember
  <2>2. \E j \in 1..Len(t) : t[j] = x
    BY <1>2, <1>3, <2>1
  <2> QED BY <1>1, <2>2, RangeMember
<1> QED BY <1>3 DEF t

LEMMA VecInsertLosesNone ==
  ASSUME NEW S, NEW s \in Seq(S), NEW p \in 0..Len(s), NEW e \in S
  PROVE  Range(s) \cup {e} \subseteq Range(VecInsert(s, p, e))
<1> DEFINE t == VecInsert(s, p, e)
<1>1. /\ t \in Seq(S) /\ Len(t) = Len(s) + 1
      /\ \A i \in 1..(Len(s) + 1) : t[i] = IF i <= p THEN s[i] ELSE IF i = p + 1 THEN e ELSE s[i - 1]
  BY VecInsertProperties
<1> HIDE DEF t
<1>2. ASSUME NEW i \in 1..Len(s)
      PROVE  \E j \in 1..Len(t) : t[j] = s[i]
  <2>1. CASE i <= p
    BY <1>1, <2>1
  <2>2. CASE i > p
    <3>1. i + 1 \in 1..(Len(s) + 1) /\ ~(i + 1 <= p) /\ i + 1 # p + 1 /\ (i + 1) - 1 = i
      BY <2>2
    <3> QED BY <3>1, <1>1, Zenon
  <2> QED BY <2>1, <2>2
<1>3. \E j \in 1..Len(t) : t[j] = e
  <2>1. p + 1 \in 1..(Len(s) + 1) /\ ~(p + 1 <= p)
    OBVIOUS
  <2> QED BY <2>1, <1>1, Zenon
<1> QED BY <1>1, <1>2, <1>3, RangeMember DEF t

LEMMA AppendLosesNone ==
  ASSUME NEW S, NEW s \in Seq(S), NEW e \in S
  PROVE  Range(s) \cup {e} \subseteq Range(Append(s, e))
<1>1. /\ Append(s, e) \in Seq(S) /\ Len(Append(s, e)) = Len(s) + 1
      /\ \A i \in 1..Len(s) : Append(s, e)[i] = s[i]
      /\ Append(s, e)[Len(s) + 1] = e
  OBVIOUS
<1>2. \A x : x \in Range(s) => \E j \in 1..Len(Append(s, e)) : Append(s, e)[j] = x
  BY <1>1, RangeMember
<1>3. Len(s) + 1 \in 1..Len(Append(s, e))
  BY <1>1
<1>4. \A x : x \in Range(s) \cup {e} => \E j \in 1..Len(Append(s, e)) : Append(s, e)[j] = x
  BY <1>1, <1>2, <1>3
<1> QED BY <1>1, <1>4, RangeMember, Zenon

\* KBucket::insert displaces nothing, and a node that fits is in.
LEMMA InsertKeeps ==
  ASSUME NEW r, NEW b, Good(b, r), NEW k \in Key, NEW s \in Status
  PROVE  /\ Keys(b) \subseteq Keys(Insert(b, k, s))
         /\ ~IsFull(b) => k \in Keys(Insert(b, k, s))
<1>1. /\ b \in Bucket /\ b.nodes \in Seq(Key) /\ b.first_connected_pos \in Nat \cup {None}
      /\ (b.first_connected_pos # None => b.first_connected_pos \in 0..Len(b.nodes))
  BY DEF Good, Bucket, NodesGood
<1>2. CASE ~IsFull(b) /\ s = "Connected"
  <2>1. Insert(b, k, s).nodes = Append(b.nodes, k)
    BY <1>1, <1>2 DEF Insert, PushConnected, Bucket
  <2> QED BY <2>1, <1>1, AppendLosesNone DEF Keys
<1>3. CASE ~IsFull(b) /\ s = "Disconnected" /\ b.first_connected_pos = None
  <2>1. Insert(b, k, s).nodes = Append(b.nodes, k)
    BY <1>1, <1>3 DEF Insert, PushDisconnected, Bucket
  <2> QED BY <2>1, <1>1, AppendLosesNone DEF Keys
<1>4. CASE ~IsFull(b) /\ s = "Disconnected" /\ b.first_connected_pos # None
  <2>1. Insert(b, k, s).nodes = VecInsert(b.nodes, b.first_connected_pos, k)
    BY <1>1, <1>4, Zenon DEF Insert, PushDisconnected, Bucket
  <2> QED BY <2>1, <1>1, <1>4, VecInsertLosesNone DEF Keys
<1>5. CASE IsFull(b)
  <2>1. Insert(b, k, s).nodes = b.nodes
    BY <1>1, <1>5 DEF Insert, SetPending, Bucket
  <2> QED BY <2>1, <1>5 DEF Keys
<1> QED BY <1>2, <1>3, <1>4, <1>5 DEF Status

\* KBucket::remove loses the key it is given and no other.
LEMMA RemoveKeeps ==
  ASSUME NEW r, NEW b, Good(b, r), NEW k \in Keys(b)
  PROVE  Keys(b) \subseteq Keys(RemoveNode(b, k)) \cup {k}
<1> DEFINE p == Position(b, k)
<1>1. b \in Bucket /\ b.nodes \in Seq(Key)
  BY DEF Good, Bucket
<1>2. p \in 0..(Len(b.nodes) - 1) /\ b.nodes[p + 1] = k
  BY <1>1, PositionOf DEF Position, Keys, Good, NodesGood
<1>3. RemoveNode(b, k).nodes = VecRemove(b.nodes, p)
  BY <1>1 DEF RemoveNode, Bucket
<1> HIDE DEF p
<1> QED BY <1>1, <1>2, <1>3, VecRemoveLoses DEF Keys

\* KBucket::update loses no key.
LEMMA UpdateKeeps ==
  ASSUME NEW r \in [Key -> Status], NEW b, Good(b, r), NEW k \in Keys(b), NEW s \in Status
  PROVE  Keys(b) \subseteq Keys(Update(b, k, s))
<1> DEFINE c == RemoveNode(b, k)
           d == IF Position(b, k) = 0 /\ s = "Connected" THEN [c EXCEPT !.pending = None] ELSE c
<1>1. Good(c, r) /\ ~IsFull(c) /\ k \in Key /\ Keys(b) \subseteq Keys(c) \cup {k}
  BY RemoveGood, RemoveKeeps
<1> HIDE DEF c
<1>2. Good(d, r) /\ ~IsFull(d) /\ Keys(d) = Keys(c)
  BY <1>1 DEF Good, Bucket, PendingGood, IsFull, Keys
<1>3. Update(b, k, s) = Insert(d, k, s)
  BY DEF Update, c
<1> HIDE DEF d
<1>4. Keys(d) \subseteq Keys(Insert(d, k, s)) /\ k \in Keys(Insert(d, k, s))
  BY <1>1, <1>2, InsertKeeps
<1> QED BY <1>1, <1>2, <1>3, <1>4

\* KBucket::apply_pending loses at most the eldest node, a disconnected one, of
\* a full bucket, and says so.
LEMMA ApplyLoses ==
  ASSUME NEW r \in [Key -> Status], NEW b, Good(b, r),
         NEW x \in Keys(b), x \notin Keys(ApplyPending(b))
  PROVE  /\ Applied(b) # None /\ Applied(b).evicted = x
         /\ r[x] = "Disconnected"
         /\ IsFull(b) /\ x = b.nodes[1]
<1> DEFINE t == RemovePending(b)
           k == b.pending.key
           s == b.pending.status
<1>1. PendingDue(b)
  BY DEF ApplyPending
<1>2. k \in Key /\ s \in Status
  BY <1>1 DEF PendingDue, Good, PendingGood, PendingNode
<1>3. /\ Good(t, r) /\ Keys(t) = Keys(b) /\ IsFull(t) = IsFull(b)
      /\ t.nodes = b.nodes /\ t.first_connected_pos = b.first_connected_pos
  <2>1. Good(t, r)
    BY RemovePendingGood
  <2> QED BY <2>1 DEF RemovePending, Keys, IsFull, Good, Bucket
<1>4. ApplyPending(b) = Place(b, t)
  BY <1>1 DEF ApplyPending
<1> HIDE DEF t
<1>5. IsFull(b)
  <2> SUFFICES ASSUME ~IsFull(b) PROVE FALSE
    OBVIOUS
  <2>1. Place(b, t) = Insert(t, k, s)
    BY DEF Place
  <2>2. Keys(t) \subseteq Keys(Insert(t, k, s))
    BY <1>2, <1>3, InsertKeeps
  <2> QED BY <1>3, <1>4, <2>1, <2>2
<1>6. StatusAt(b, 0) = "Disconnected"
  <2> SUFFICES ASSUME StatusAt(b, 0) = "Connected" PROVE FALSE
    BY DEF StatusAt
  <2>1. Place(b, t) = t
    BY <1>5 DEF Place
  <2> QED BY <1>3, <1>4, <2>1
<1>7. ApplyPending(b) = Replace(t, k, s)
  BY <1>4, <1>5, <1>6 DEF Place
<1>8. Applied(b) = [inserted |-> k, evicted |-> b.nodes[1]]
  BY <1>1, <1>5, <1>6 DEF Applied
<1>9. x = b.nodes[1]
  <2> DEFINE n == VecRemove(t.nodes, 0)
             f == t.first_connected_pos
  <2>1. t \in Bucket /\ t.nodes \in Seq(Key) /\ Len(t.nodes) = K_VALUE /\ 0 \in 0..(Len(t.nodes) - 1)
    BY <1>3, <1>5, ConstantsAssumption DEF Good, Bucket, IsFull
  <2>2. n \in Seq(Key) /\ Len(n) = Len(t.nodes) - 1 /\ Keys(t) \subseteq Range(n) \cup {t.nodes[1]}
    <3>1. Range(t.nodes) \subseteq Range(n) \cup {t.nodes[0 + 1]}
      BY <2>1, VecRemoveLoses, Zenon
    <3> QED BY <2>1, <3>1, VecRemoveProperties DEF Keys
  <2>3. f # None => f \in 1..Len(n) + 1
    BY <1>3, <1>6, <2>1, <2>2 DEF Good, NodesGood, Bucket, StatusAt
  <2> HIDE DEF n
  <2>4. Range(n) \subseteq Range(Append(n, k))
    BY <1>2, <2>2, AppendLosesNone, Zenon
  <2>5. f # None => Range(n) \subseteq Range(VecInsert(n, f - 1, k))
    <3> SUFFICES ASSUME f # None PROVE Range(n) \subseteq Range(VecInsert(n, f - 1, k))
      OBVIOUS
    <3>1. f - 1 \in 0..Len(n)
      BY <2>2, <2>3
    <3> QED BY <1>2, <2>2, <3>1, VecInsertLosesNone
  <2>6. \/ Replace(t, k, s).nodes = Append(n, k)
        \/ f # None /\ Replace(t, k, s).nodes = VecInsert(n, f - 1, k)
    BY <1>2, <2>1 DEF Replace, Bucket, Status, n
  <2>7. Range(n) \subseteq Keys(ApplyPending(b))
    BY <1>7, <2>4, <2>5, <2>6, Zenon DEF Keys
  <2> QED BY <1>3, <2>2, <2>7
<1>10. r[b.nodes[1]] = "Disconnected"
  <2>1. 1 \in 1..Len(b.nodes)
    BY <1>5, ConstantsAssumption DEF IsFull
  <2> QED BY <1>6, <2>1 DEF Good, NodesGood, StatusAt
<1>11. Applied(b) # None
  <2>1. b.nodes[1] \in Key
    BY <1>5, FirstNode
  <2> QED BY <1>2, <1>8, <2>1, ConstantsAssumption DEF AppliedPending
<1> QED BY <1>5, <1>8, <1>9, <1>10, <1>11

\* bucket.rs:220-274, 366-391: unless the caller removes it, a node leaves the
\* bucket only as the disconnected eldest node of a full bucket whose slot a
\* pending node takes.
THEOREM EvictsDisconnectedAlways == Spec => EvictsDisconnected
<1> DEFINE Victim(k) ==
             \/ PresentRemove(k)
             \/ /\ applied' # None /\ applied'.evicted = k
                /\ reported[k] = "Disconnected"
                /\ IsFull(bucket) /\ k = bucket.nodes[1]
           b == ApplyPending(bucket)
<1>1. ASSUME Inv, [Next]_vars
      PROVE  [\A k \in Keys(bucket) \ Keys(bucket') : Victim(k)]_vars
  <2>1. reported \in [Key -> Status] /\ Good(bucket, reported) /\ Good(b, reported)
    BY <1>1, ApplyGood DEF Inv, HistoryOK
  <2> SUFFICES ASSUME Next, NEW x \in Keys(bucket), x \notin Keys(bucket')
               PROVE  Victim(x)
    BY <1>1
  <2>2. ASSUME applied' = Applied(bucket), Keys(b) \subseteq Keys(bucket')
        PROVE  Victim(x)
    BY <2>1, <2>2, ApplyLoses
  <2> HIDE DEF Victim, b
  <2>3. ASSUME NEW k \in Key, NEW s \in Status, AbsentInsert(k, s) PROVE Victim(x)
    BY <2>1, <2>2, <2>3, InsertKeeps DEF AbsentInsert, b
  <2>4. ASSUME NEW k \in Key, NEW s \in Status, PresentUpdate(k, s) PROVE Victim(x)
    BY <2>1, <2>2, <2>4, UpdateKeeps DEF PresentUpdate, b
  <2>5. ASSUME NEW k \in Key, NEW s \in Status, PendingUpdate(k, s) PROVE Victim(x)
    <3>1. Keys(UpdatePending(b, s)) = Keys(b)
      BY <2>1 DEF UpdatePending, Keys, Good, Bucket
    <3> QED BY <2>2, <2>5, <3>1 DEF PendingUpdate, b
  <2>6. ASSUME NEW k \in Key, PresentRemove(k) PROVE Victim(x)
    <3>1. CASE x = k
      BY <2>6, <3>1 DEF Victim
    <3>2. CASE x # k
      <4>1. applied' = Applied(bucket) /\ k \in Keys(b) /\ bucket' = RemoveNode(b, k)
        BY <2>6 DEF PresentRemove, b
      <4>2. x \notin Keys(b)
        BY <2>1, <3>2, <4>1, RemoveKeeps
      <4>3. /\ Applied(bucket) # None /\ Applied(bucket).evicted = x
            /\ reported[x] = "Disconnected"
            /\ IsFull(bucket) /\ x = bucket.nodes[1]
        BY <2>1, <4>2, ApplyLoses DEF b
      <4> QED BY <4>1, <4>3 DEF Victim
    <3> QED BY <3>1, <3>2
  <2>7. ASSUME NEW k \in Key, PendingRemove(k) PROVE Victim(x)
    <3>1. Keys(RemovePending(b)) = Keys(b)
      BY <2>1 DEF RemovePending, Keys, Good, Bucket
    <3> QED BY <2>2, <2>7, <3>1 DEF PendingRemove, b
  <2>8. CASE Visit
    BY <2>2, <2>8 DEF Visit, b
  <2>9. CASE Tick
    <3>1. Keys(bucket') = Keys(bucket)
      BY <2>1, <2>9 DEF Tick, Keys, Good, Bucket
    <3> QED BY <3>1
  <2> QED BY <2>3, <2>4, <2>5, <2>6, <2>7, <2>8, <2>9 DEF Next
<1>2. Inv /\ [Next]_vars => [\A k \in Keys(bucket) \ Keys(bucket') : Victim(k)]_vars
  BY <1>1
<1> QED BY <1>2, InvInit, InvNext, PTL DEF Spec, EvictsDisconnected

-----------------------------------------------------------------------------
(* The array of nodes with its index is two queues.  Cut is the number of    *)
(* disconnected nodes, Disc and Conn are the nodes before and behind it.     *)

Cut(n, f)  == IF f = None THEN Len(n) ELSE f
Disc(n, f) == SubSeq(n, 1, Cut(n, f))
Conn(n, f) == SubSeq(n, Cut(n, f) + 1, Len(n))

\* An array of nodes and an index into it, or none
Parts(n, f) == n \in Seq(Key) /\ f \in Nat \cup {None} /\ (f # None => f < Len(n))

LEMMA SameSeq ==
  ASSUME NEW S, NEW s \in Seq(S), NEW t \in Seq(S), Len(s) = Len(t),
         \A i \in 1..Len(s) : s[i] = t[i]
  PROVE  s = t
OBVIOUS

\* d and e are the first c elements of n and the others.
IsCut(d, e, n, c) ==
  /\ d \in Seq(Key) /\ Len(d) = c /\ \A i \in 1..c : d[i] = n[i]
  /\ e \in Seq(Key) /\ Len(e) = Len(n) - c /\ \A i \in 1..(Len(n) - c) : e[i] = n[c + i]

LEMMA CutFacts ==
  ASSUME NEW n, NEW f, Parts(n, f)
  PROVE  /\ Cut(n, f) \in 0..Len(n) /\ Len(n) \in Nat /\ n \in Seq(Key)
         /\ IsCut(Disc(n, f), Conn(n, f), n, Cut(n, f))
<1> DEFINE c == Cut(n, f)
<1>1. c \in 0..Len(n) /\ Len(n) \in Nat /\ n \in Seq(Key)
  BY DEF Parts, Cut
<1> HIDE DEF c
<1> QED BY <1>1 DEF Disc, Conn, IsCut, c

LEMMA CutIs ==
  ASSUME NEW n, NEW f, Parts(n, f), NEW d, NEW e, IsCut(d, e, n, Cut(n, f))
  PROVE  Disc(n, f) = d /\ Conn(n, f) = e
<1> DEFINE c == Cut(n, f)
           x == Disc(n, f)
           y == Conn(n, f)
<1>1. c \in 0..Len(n) /\ Len(n) \in Nat /\ IsCut(x, y, n, c) /\ IsCut(d, e, n, c)
  BY CutFacts
<1> HIDE DEF c, x, y
<1>2. x = d
  <2>1. x \in Seq(Key) /\ d \in Seq(Key) /\ Len(x) = Len(d) /\ \A i \in 1..Len(x) : x[i] = d[i]
    BY <1>1 DEF IsCut
  <2> QED BY ONLY <2>1, SameSeq
<1>3. y = e
  <2>1. y \in Seq(Key) /\ e \in Seq(Key) /\ Len(y) = Len(e) /\ \A i \in 1..Len(y) : y[i] = e[i]
    BY <1>1 DEF IsCut
  <2> QED BY ONLY <2>1, SameSeq
<1> QED BY <1>2, <1>3 DEF x, y

\* bucket.rs:346-348: a connected node is added to the second queue.
LEMMA SplitAppend ==
  ASSUME NEW n, NEW f, Parts(n, f), NEW k \in Key
  PROVE  /\ Disc(Append(n, k), IF f = None THEN Len(n) ELSE f) = Disc(n, f)
         /\ Conn(Append(n, k), IF f = None THEN Len(n) ELSE f) = Append(Conn(n, f), k)
<1> DEFINE m == Append(n, k)
           g == IF f = None THEN Len(n) ELSE f
           c == Cut(n, f)
           d == Disc(n, f)
           e == Conn(n, f)
           a == Append(e, k)
<1>1. /\ c \in 0..Len(n) /\ Len(n) \in Nat /\ n \in Seq(Key) /\ IsCut(d, e, n, c)
      /\ Cut(m, g) = c /\ Parts(m, g)
      /\ Len(m) = Len(n) + 1 /\ m[Len(n) + 1] = k
      /\ \A i \in 1..Len(n) : m[i] = n[i]
  BY CutFacts, ConstantsAssumption DEF Parts, Cut
<1> HIDE DEF m, g, c, d, e, a
<1>2. /\ a \in Seq(Key) /\ Len(a) = Len(n) - c + 1
      /\ \A i \in 1..(Len(n) - c) : a[i] = n[c + i]
      /\ a[Len(n) - c + 1] = k
  BY <1>1 DEF IsCut, a
<1>3. ASSUME NEW i \in 1..(Len(m) - c) PROVE a[i] = m[c + i]
  <2>1. CASE i = Len(n) - c + 1
    BY <1>1, <1>2, <2>1
  <2>2. CASE i \in 1..(Len(n) - c)
    BY <1>1, <1>2, <2>2
  <2> QED BY <1>1, <2>1, <2>2
<1>4. IsCut(d, a, m, c)
  BY <1>1, <1>2, <1>3 DEF IsCut
<1>5. Disc(m, g) = d /\ Conn(m, g) = a
  BY <1>1, <1>4, CutIs, Zenon
<1> QED BY <1>5 DEF m, g, d, e, a

\* bucket.rs:353-359: a disconnected node is added to the first queue.
LEMMA SplitInsert ==
  ASSUME NEW n, NEW f, Parts(n, f), NEW k \in Key
  PROVE  /\ Disc(IF f = None THEN Append(n, k) ELSE VecInsert(n, f, k), IF f = None THEN None ELSE f + 1)
              = Append(Disc(n, f), k)
         /\ Conn(IF f = None THEN Append(n, k) ELSE VecInsert(n, f, k), IF f = None THEN None ELSE f + 1)
              = Conn(n, f)
<1> DEFINE m == IF f = None THEN Append(n, k) ELSE VecInsert(n, f, k)
           g == IF f = None THEN None ELSE f + 1
           c == Cut(n, f)
           d == Disc(n, f)
           e == Conn(n, f)
           a == Append(d, k)
<1>1. c \in 0..Len(n) /\ Len(n) \in Nat /\ n \in Seq(Key) /\ IsCut(d, e, n, c)
  BY CutFacts
<1>2. /\ m \in Seq(Key) /\ Len(m) = Len(n) + 1
      /\ \A i \in 1..c : m[i] = n[i]
      /\ m[c + 1] = k
      /\ \A i \in (c + 2)..(Len(n) + 1) : m[i] = n[i - 1]
  <2>1. CASE f = None
    BY <1>1, <2>1 DEF Cut
  <2>2. CASE f # None
    <3>1. c = f /\ m = VecInsert(n, f, k)
      BY <2>2 DEF Cut
    <3> HIDE DEF m, c, d, e
    <3>2. /\ m \in Seq(Key) /\ Len(m) = Len(n) + 1
          /\ \A i \in 1..(Len(n) + 1) : m[i] = IF i <= c THEN n[i] ELSE IF i = c + 1 THEN k ELSE n[i - 1]
      <4>1. f \in 0..Len(n)
        BY <1>1, <3>1
      <4>2. /\ VecInsert(n, f, k) \in Seq(Key) /\ Len(VecInsert(n, f, k)) = Len(n) + 1
            /\ \A i \in 1..(Len(n) + 1) :
                 VecInsert(n, f, k)[i] = IF i <= f THEN n[i] ELSE IF i = f + 1 THEN k ELSE n[i - 1]
        BY <1>1, <4>1, VecInsertProperties
      <4> QED BY <3>1, <4>2, Zenon
    <3> QED BY <1>1, <3>2
  <2> QED BY <2>1, <2>2, Zenon
<1> HIDE DEF m
<1>3. Cut(m, g) = c + 1 /\ Parts(m, g)
  <2> HIDE DEF d, e
  <2>1. f \in Nat \cup {None} /\ (f # None => f < Len(n) /\ f + 1 # None /\ c = f) /\ (f = None => c = Len(n))
    BY <1>1, ConstantsAssumption DEF Cut, Parts
  <2> HIDE DEF c
  <2>2. CASE f = None
    BY <1>1, <1>2, <2>1, <2>2 DEF Cut, Parts
  <2>3. CASE f # None
    <3>1. g = f + 1 /\ g \in Nat /\ g # None /\ g < Len(m) /\ g = c + 1
      BY <1>1, <1>2, <2>1, <2>3
    <3> QED BY <1>2, <3>1 DEF Cut, Parts
  <2> QED BY <2>2, <2>3
<1> HIDE DEF g, c, d, e, a
<1>4. /\ a \in Seq(Key) /\ Len(a) = c + 1
      /\ \A i \in 1..c : a[i] = n[i]
      /\ a[c + 1] = k
  BY <1>1 DEF IsCut, a
<1>5. ASSUME NEW i \in 1..(c + 1) PROVE a[i] = m[i]
  <2>1. i \in 1..c \/ i = c + 1
    BY <1>1
  <2> QED BY <1>2, <1>4, <2>1, Zenon
<1>6. ASSUME NEW i \in 1..(Len(m) - (c + 1)) PROVE e[i] = m[(c + 1) + i]
  <2>1. (c + 1) + i \in (c + 2)..(Len(n) + 1) /\ ((c + 1) + i) - 1 = c + i /\ i \in 1..(Len(n) - c)
    BY <1>1, <1>2
  <2> QED BY <1>1, <1>2, <2>1 DEF IsCut
<1>7. IsCut(a, e, m, c + 1)
  BY <1>1, <1>2, <1>4, <1>5, <1>6 DEF IsCut
<1>8. Disc(m, g) = a /\ Conn(m, g) = e
  BY <1>3, <1>7, CutIs, Zenon
<1> QED BY <1>8 DEF m, g, d, e, a

\* g is the index once the node at p is gone; the node leaves its queue and the
\* other queue stays.
IndexAfter(n, f, p, g) ==
  /\ Parts(VecRemove(n, p), g)
  /\ f # None /\ p >= f => g = IF f = p /\ p = Len(n) - 1 THEN None ELSE f
  /\ f = None => g = None
  /\ f # None /\ p < f => g = f - 1

LeavesQueue(n, f, p, m, g) ==
  /\ p < Cut(n, f) => Disc(m, g) = VecRemove(Disc(n, f), p) /\ Conn(m, g) = Conn(n, f)
  /\ p >= Cut(n, f) => Disc(m, g) = Disc(n, f) /\ Conn(m, g) = VecRemove(Conn(n, f), p - Cut(n, f))

\* bucket.rs:418-436: the node at position p leaves its queue.
LEMMA SplitRemove ==
  ASSUME NEW n, NEW f, Parts(n, f), NEW p \in 0..(Len(n) - 1), NEW g, IndexAfter(n, f, p, g)
  PROVE  LeavesQueue(n, f, p, VecRemove(n, p), g)
<1> DEFINE m == VecRemove(n, p)
           c == Cut(n, f)
           d == Disc(n, f)
           e == Conn(n, f)
<1>1. c \in 0..Len(n) /\ Len(n) \in Nat /\ n \in Seq(Key) /\ IsCut(d, e, n, c) /\ p \in Nat
  BY CutFacts
<1>2. /\ Len(m) = Len(n) - 1 /\ Parts(m, g)
      /\ \A i \in 1..(Len(n) - 1) : m[i] = IF i <= p THEN n[i] ELSE n[i + 1]
  BY <1>1, VecRemoveProperties DEF IndexAfter
<1>3. Cut(m, g) = IF p < c THEN c - 1 ELSE c
  <2> HIDE DEF m
  <2>1. CASE f = None
    BY <1>1, <1>2, <2>1 DEF Cut, IndexAfter
  <2>2. CASE f # None /\ p < f
    <3>1. c = f /\ g = f - 1 /\ f \in Nat /\ g # None
      BY <2>2, ConstantsAssumption DEF Cut, Parts, IndexAfter
    <3> QED BY <2>2, <3>1 DEF Cut
  <2>3. CASE f # None /\ p >= f
    <3>1. c = f /\ f \in Nat /\ g = IF f = p /\ p = Len(n) - 1 THEN None ELSE f
      BY <2>3 DEF Cut, Parts, IndexAfter
    <3>2. ~(p < c)
      BY <1>1, <2>3, <3>1
    <3>3. CASE g = None
      <4>1. f = Len(n) - 1
        BY <2>3, <3>1, <3>3
      <4> QED BY <1>2, <3>1, <3>2, <3>3, <4>1 DEF Cut
    <3>4. CASE g # None
      BY <3>1, <3>2, <3>4 DEF Cut
    <3> QED BY <3>3, <3>4
  <2>4. f \in Nat \cup {None}
    BY DEF Parts
  <2> QED BY <1>1, <2>1, <2>2, <2>3, <2>4
<1> HIDE DEF m, c, d, e
<1>4. CASE p < c
  <2> DEFINE a == VecRemove(d, p)
  <2>1. /\ a \in Seq(Key) /\ Len(a) = c - 1
        /\ \A i \in 1..(c - 1) : a[i] = IF i <= p THEN d[i] ELSE d[i + 1]
    <3>1. d \in Seq(Key) /\ Len(d) = c /\ p \in 0..(Len(d) - 1)
      BY <1>1, <1>4 DEF IsCut
    <3>2. /\ VecRemove(d, p) \in Seq(Key) /\ Len(VecRemove(d, p)) = Len(d) - 1
          /\ \A i \in 1..(Len(d) - 1) : VecRemove(d, p)[i] = IF i <= p THEN d[i] ELSE d[i + 1]
      BY <3>1, VecRemoveProperties, Zenon
    <3> QED BY <3>1, <3>2, Zenon
  <2> HIDE DEF a
  <2>2. ASSUME NEW i \in 1..(c - 1) PROVE a[i] = m[i]
    <3>1. i \in 1..c /\ i + 1 \in 1..c /\ i \in 1..(Len(n) - 1)
      BY <1>1
    <3>2. d[i] = n[i] /\ d[i + 1] = n[i + 1]
      BY <1>1, <3>1 DEF IsCut
    <3> QED BY <1>2, <2>1, <3>1, <3>2
  <2>3. ASSUME NEW i \in 1..(Len(m) - (c - 1)) PROVE e[i] = m[(c - 1) + i]
    <3>1. /\ i \in 1..(Len(n) - c) /\ (c - 1) + i \in 1..(Len(n) - 1)
          /\ ((c - 1) + i) + 1 = c + i /\ ~((c - 1) + i <= p)
      BY <1>1, <1>2, <1>4
    <3>2. e[i] = n[c + i]
      BY <1>1, <3>1, Zenon DEF IsCut
    <3>3. m[(c - 1) + i] = n[c + i]
      BY <1>2, <3>1, Zenon
    <3> QED BY <3>2, <3>3, Zenon
  <2>4. IsCut(a, e, m, c - 1)
    BY <1>1, <1>2, <2>1, <2>2, <2>3 DEF IsCut
  <2>5. Cut(m, g) = c - 1
    BY <1>3, <1>4
  <2>6. Disc(m, g) = a /\ Conn(m, g) = e
    BY <1>2, <2>4, <2>5, CutIs, Zenon
  <2>7. ~(p >= c)
    BY <1>1, <1>4
  <2> QED BY <2>6, <2>7, Zenon DEF m, c, d, e, a, LeavesQueue
<1>5. CASE p >= c
  <2> DEFINE q == p - c
             a == VecRemove(e, q)
  <2> HIDE DEF q
  <2>1. /\ a \in Seq(Key) /\ Len(a) = Len(n) - c - 1
        /\ \A i \in 1..(Len(n) - c - 1) : a[i] = IF i <= q THEN e[i] ELSE e[i + 1]
    <3>1. e \in Seq(Key) /\ Len(e) = Len(n) - c /\ q \in 0..(Len(e) - 1)
      BY <1>1, <1>5 DEF IsCut, q
    <3>2. /\ VecRemove(e, q) \in Seq(Key) /\ Len(VecRemove(e, q)) = Len(e) - 1
          /\ \A i \in 1..(Len(e) - 1) : VecRemove(e, q)[i] = IF i <= q THEN e[i] ELSE e[i + 1]
      BY <3>1, VecRemoveProperties, Zenon
    <3> QED BY <3>1, <3>2, Zenon
  <2> HIDE DEF a
  <2>2. ASSUME NEW i \in 1..c PROVE d[i] = m[i]
    <3>1. i \in 1..(Len(n) - 1) /\ i <= p
      BY <1>1, <1>5
    <3>2. d[i] = n[i]
      BY <1>1, Zenon DEF IsCut
    <3>3. m[i] = n[i]
      BY <1>2, <3>1, Zenon
    <3> QED BY <3>2, <3>3, Zenon
  <2>3. ASSUME NEW i \in 1..(Len(m) - c) PROVE a[i] = m[c + i]
    <3>1. /\ i \in 1..(Len(n) - c - 1) /\ c + i \in 1..(Len(n) - 1) /\ (c + i <= p <=> i <= q)
          /\ i \in 1..(Len(n) - c) /\ i + 1 \in 1..(Len(n) - c) /\ (c + i) + 1 = c + (i + 1)
      BY <1>1, <1>2 DEF q
    <3>2. e[i] = n[c + i] /\ e[i + 1] = n[c + (i + 1)]
      BY <1>1, <3>1, Zenon DEF IsCut
    <3> QED BY <1>2, <2>1, <3>1, <3>2, Zenon
  <2>4. IsCut(d, a, m, c)
    BY <1>1, <1>2, <2>1, <2>2, <2>3 DEF IsCut
  <2>5. Cut(m, g) = c /\ ~(p < c)
    BY <1>1, <1>3, <1>5
  <2>6. Disc(m, g) = d /\ Conn(m, g) = a
    BY <1>2, <2>4, <2>5, CutIs, Zenon
  <2> QED BY <2>5, <2>6, Zenon DEF m, c, d, e, a, LeavesQueue, q
<1>6. p < c \/ p >= c
  BY <1>1
<1> QED BY <1>4, <1>5, <1>6, Zenon

\* Removing a key that occurs once is removing its position.
LEMMA WithoutAt ==
  ASSUME NEW s \in Seq(Key), \A i, j \in 1..Len(s) : s[i] = s[j] => i = j,
         NEW p \in 0..(Len(s) - 1)
  PROVE  VecWithout(s, s[p + 1]) = VecRemove(s, p)
<1> DEFINE k == s[p + 1]
<1>1. p + 1 \in 1..Len(s) /\ Len(s) \in Nat
  OBVIOUS
<1>2. k \in Range(s)
  BY <1>1, RangeMember
<1>3. VecPosition(s, k) \in 0..(Len(s) - 1) /\ s[VecPosition(s, k) + 1] = k
  BY <1>2, PositionOf
<1>4. VecPosition(s, k) = p
  <2> DEFINE q == VecPosition(s, k)
  <2>1. q \in 0..(Len(s) - 1) /\ s[q + 1] = s[p + 1] /\ q + 1 \in 1..Len(s)
    BY <1>3
  <2> HIDE DEF q
  <2>2. q + 1 = p + 1
    BY <1>1, <2>1
  <2>3. q = p
    BY <2>1, <2>2
  <2> QED BY <2>3 DEF q
<1> QED BY <1>2, <1>4, Zenon DEF VecWithout

-----------------------------------------------------------------------------
(* The operations of the bucket are those of the queues. *)

Queues(d, e, c) == [disc |-> d, conn |-> e, cand |-> c]

LEMMA AbstractionIs ==
  ASSUME NEW b
  PROVE  Abstraction(b) = Queues(Disc(b.nodes, b.first_connected_pos),
                                 Conn(b.nodes, b.first_connected_pos), b.pending)
BY Zenon DEF Abstraction, NumDisconnected, Disc, Conn, Cut, Queues

\* The queues of a bucket with other nodes and another index
LEMMA AbstractionOf ==
  ASSUME NEW b \in Bucket, NEW n, NEW f
  PROVE  Abstraction([b EXCEPT !.nodes = n, !.first_connected_pos = f])
           = Queues(Disc(n, f), Conn(n, f), b.pending)
<1> DEFINE x == [b EXCEPT !.nodes = n, !.first_connected_pos = f]
<1>1. x.nodes = n /\ x.first_connected_pos = f /\ x.pending = b.pending
  BY DEF Bucket
<1> HIDE DEF x
<1> QED BY <1>1, AbstractionIs, Zenon DEF x

\* What Enqueue does to two queues given by their parts
LEMMA EnqueueIs ==
  ASSUME NEW d, NEW e, NEW c, NEW k
  PROVE  /\ Lru!Enqueue(Queues(d, e, c), k, "Connected") = Queues(d, Append(e, k), c)
         /\ Lru!Enqueue(Queues(d, e, c), k, "Disconnected") = Queues(Append(d, k), e, c)
<1> DEFINE x == Append(e, k)
           y == Append(d, k)
<1>1. [Queues(d, e, c) EXCEPT !.conn = Append(@, k)] = [Queues(d, e, c) EXCEPT !.conn = x]
  BY DEF Queues
<1>2. [Queues(d, e, c) EXCEPT !.disc = Append(@, k)] = [Queues(d, e, c) EXCEPT !.disc = y]
  BY DEF Queues
<1> HIDE DEF x, y
<1>3. /\ [Queues(d, e, c) EXCEPT !.conn = x] = Queues(d, x, c)
      /\ [Queues(d, e, c) EXCEPT !.disc = y] = Queues(y, e, c)
  BY DEF Queues
<1>4. "Connected" # "Disconnected"
  OBVIOUS
<1> QED BY <1>1, <1>2, <1>3, <1>4, Zenon DEF Lru!Enqueue, x, y

PartsOf(b) == b \in Bucket /\ Parts(b.nodes, b.first_connected_pos)

\* KBucket::insert of a connected node, when there is room
LEMMA PushConnectedLru ==
  ASSUME NEW b, PartsOf(b), NEW k \in Key
  PROVE  Abstraction(PushConnected(b, k)) = Lru!Enqueue(Abstraction(b), k, "Connected")
<1> DEFINE n == b.nodes
           f == b.first_connected_pos
           m == Append(n, k)
           g == IF f = None THEN Len(n) ELSE f
<1>1. PushConnected(b, k) = [b EXCEPT !.nodes = m, !.first_connected_pos = g]
  BY DEF PushConnected, PartsOf, Bucket
<1>2. Disc(m, g) = Disc(n, f) /\ Conn(m, g) = Append(Conn(n, f), k)
  <2>1. Parts(n, f)
    BY Zenon DEF PartsOf
  <2> QED BY <2>1, SplitAppend, ZenonT(30)
<1> HIDE DEF m, g
<1>3. Abstraction(PushConnected(b, k)) = Queues(Disc(m, g), Conn(m, g), b.pending)
  BY <1>1, AbstractionOf, Zenon DEF PartsOf
<1>4. Abstraction(b) = Queues(Disc(n, f), Conn(n, f), b.pending)
  BY AbstractionIs, Zenon
<1> HIDE DEF n, f
<1>5. Lru!Enqueue(Queues(Disc(n, f), Conn(n, f), b.pending), k, "Connected")
        = Queues(Disc(n, f), Append(Conn(n, f), k), b.pending)
  BY EnqueueIs
<1> QED BY <1>2, <1>3, <1>4, <1>5, Zenon

\* KBucket::insert of a disconnected node, when there is room
LEMMA PushDisconnectedLru ==
  ASSUME NEW b, PartsOf(b), NEW k \in Key
  PROVE  Abstraction(PushDisconnected(b, k)) = Lru!Enqueue(Abstraction(b), k, "Disconnected")
<1> DEFINE n == b.nodes
           f == b.first_connected_pos
           m == IF f = None THEN Append(n, k) ELSE VecInsert(n, f, k)
           g == IF f = None THEN None ELSE f + 1
           x == PushDisconnected(b, k)
<1>1. x.nodes = m /\ x.first_connected_pos = g /\ x.pending = b.pending
  <2>1. CASE f = None
    BY <2>1 DEF PushDisconnected, PartsOf, Bucket
  <2>2. CASE f # None
    <3>1. m = VecInsert(n, f, k) /\ g = f + 1
      BY <2>2, Zenon
    <3> HIDE DEF m, g
    <3>2. x = [b EXCEPT !.nodes = VecInsert(n, f, k), !.first_connected_pos = f + 1]
      BY <2>2 DEF PushDisconnected, PartsOf, Bucket
    <3>3. x = [b EXCEPT !.nodes = m, !.first_connected_pos = g]
      BY <3>1, <3>2, Zenon
    <3> HIDE DEF x
    <3> QED BY <3>3 DEF PartsOf, Bucket
  <2> QED BY <2>1, <2>2, Zenon
<1>2. Disc(m, g) = Append(Disc(n, f), k) /\ Conn(m, g) = Conn(n, f)
  BY SplitInsert, Zenon DEF PartsOf
<1> HIDE DEF m, g, x
<1>3. Abstraction(x) = Queues(Disc(m, g), Conn(m, g), b.pending)
  BY <1>1, AbstractionIs, Zenon
<1>4. Abstraction(b) = Queues(Disc(n, f), Conn(n, f), b.pending)
  BY AbstractionIs, Zenon
<1> HIDE DEF n, f
<1>5. Lru!Enqueue(Queues(Disc(n, f), Conn(n, f), b.pending), k, "Disconnected")
        = Queues(Append(Disc(n, f), k), Conn(n, f), b.pending)
  BY EnqueueIs
<1> QED BY <1>2, <1>3, <1>4, <1>5, Zenon DEF x

\* KBucket::insert, when there is room
LEMMA InsertEnqueues ==
  ASSUME NEW b, PartsOf(b), NEW k \in Key, NEW s \in Status, ~IsFull(b)
  PROVE  Abstraction(Insert(b, k, s)) = Lru!Enqueue(Abstraction(b), k, s)
<1>1. CASE s = "Connected"
  <2>1. Insert(b, k, s) = PushConnected(b, k)
    BY <1>1 DEF Insert
  <2> QED BY <1>1, <2>1, PushConnectedLru, Zenon
<1>2. CASE s = "Disconnected"
  <2>1. Insert(b, k, s) = PushDisconnected(b, k)
    BY <1>2 DEF Insert
  <2> QED BY <1>2, <2>1, PushDisconnectedLru, Zenon
<1> QED BY <1>1, <1>2 DEF Status

LEMMA GoodParts ==
  ASSUME NEW r, NEW b, Good(b, r)
  PROVE  PartsOf(b) /\ Len(b.nodes) <= K_VALUE /\ (b.pending # None => b.pending \in PendingNode)
BY DEF Good, NodesGood, PendingGood, PartsOf, Parts

\* Which queue is empty, whether there is room, who is a member and who is the eldest
LEMMA QueueFacts ==
  ASSUME NEW n, NEW f, Parts(n, f)
  PROVE  /\ Len(Disc(n, f)) + Len(Conn(n, f)) = Len(n)
         /\ Len(n) > 0 => (Disc(n, f) = << >> <=> f = 0)
         /\ Range(Disc(n, f)) \cup Range(Conn(n, f)) = Range(n)
         /\ Len(n) > 0 => Head(Disc(n, f) \o Conn(n, f)) = n[1]
<1> DEFINE c == Cut(n, f)
           d == Disc(n, f)
           e == Conn(n, f)
<1>1. c \in 0..Len(n) /\ Len(n) \in Nat /\ n \in Seq(Key) /\ IsCut(d, e, n, c)
  BY CutFacts
<1>2. Len(n) > 0 => (c = 0 <=> f = 0)
  BY <1>1, ConstantsAssumption DEF Cut, Parts
<1> HIDE DEF c, d, e
<1>3. Len(d) = c /\ Len(e) = Len(n) - c /\ d \in Seq(Key) /\ e \in Seq(Key)
  BY <1>1 DEF IsCut
<1>4. d = << >> <=> c = 0
  BY <1>1, <1>3
<1>5. ASSUME NEW x PROVE x \in Range(d) \cup Range(e) <=> x \in Range(n)
  <2>1. /\ x \in Range(d) <=> \E i \in 1..Len(d) : d[i] = x
        /\ x \in Range(e) <=> \E i \in 1..Len(e) : e[i] = x
        /\ x \in Range(n) <=> \E i \in 1..Len(n) : n[i] = x
    BY <1>1, <1>3, RangeMember, Zenon
  <2>2. (\E i \in 1..Len(d) : d[i] = x) => \E i \in 1..Len(n) : n[i] = x
    <3> SUFFICES ASSUME NEW i \in 1..c, d[i] = x PROVE i \in 1..Len(n) /\ n[i] = x
      BY <1>3, Zenon
    <3>1. i \in 1..Len(n)
      BY <1>1
    <3>2. n[i] = x
      BY <1>1, Zenon DEF IsCut
    <3> QED BY <3>1, <3>2
  <2>3. (\E i \in 1..Len(e) : e[i] = x) => \E i \in 1..Len(n) : n[i] = x
    <3> SUFFICES ASSUME NEW i \in 1..(Len(n) - c), e[i] = x PROVE c + i \in 1..Len(n) /\ n[c + i] = x
      BY <1>3, Zenon
    <3>1. c + i \in 1..Len(n)
      BY <1>1
    <3>2. n[c + i] = x
      BY <1>1, Zenon DEF IsCut
    <3> QED BY <3>1, <3>2
  <2>4. ASSUME NEW i \in 1..Len(n), n[i] = x
        PROVE  (\E j \in 1..Len(d) : d[j] = x) \/ (\E j \in 1..Len(e) : e[j] = x)
    <3>1. CASE i <= c
      <4>1. i \in 1..Len(d) /\ d[i] = x
        BY <1>1, <1>3, <2>4, <3>1 DEF IsCut
      <4> QED BY <4>1
    <3>2. CASE i > c
      <4>1. i - c \in 1..Len(e) /\ c + (i - c) = i
        BY <1>1, <1>3, <3>2
      <4>2. e[i - c] = x
        BY <1>1, <1>3, <2>4, <4>1 DEF IsCut
      <4> QED BY <4>1, <4>2
    <3> QED BY <1>1, <3>1, <3>2
  <2> QED BY <2>1, <2>2, <2>3, <2>4, Zenon
<1>6. Len(n) > 0 => Head(d \o e) = n[1]
  <2> SUFFICES ASSUME Len(n) > 0 PROVE Head(d \o e) = n[1]
    BY Zenon
  <2>1. CASE c = 0
    <3>1. d = << >> /\ e[1] = n[1] /\ Len(e) > 0
      BY <1>1, <1>3, <1>4, <2>1 DEF IsCut
    <3> QED BY <1>3, <3>1
  <2>2. CASE c # 0
    <3>1. Len(d) > 0 /\ d[1] = n[1]
      BY <1>1, <1>3, <2>2 DEF IsCut
    <3> DEFINE s == d \o e
    <3>2. s \in Seq(Key) /\ Len(s) = Len(d) + Len(e) /\ s[1] = d[1] /\ Len(s) > 0
      BY <1>3, <3>1
    <3> HIDE DEF s
    <3>3. Head(s) = s[1]
      BY <3>2
    <3> QED BY <3>1, <3>2, <3>3 DEF s
  <2> QED BY <2>1, <2>2, Zenon
<1>7. Range(d) \cup Range(e) = Range(n)
  BY <1>5, Zenon
<1>8. Len(d) + Len(e) = Len(n)
  BY <1>1, <1>3
<1> QED BY <1>2, <1>4, <1>6, <1>7, <1>8 DEF d, e

\* What the operations of the queues look at
LEMMA AbstractionReads ==
  ASSUME NEW r, NEW b, Good(b, r)
  PROVE  /\ Lru!HasRoom(Abstraction(b)) <=> ~IsFull(b)
         /\ Lru!Members(Abstraction(b)) = Keys(b)
         /\ IsFull(b) => (Abstraction(b).disc = << >> <=> StatusAt(b, 0) = "Connected")
         /\ IsFull(b) => (Abstraction(b).disc = << >> <=> b.first_connected_pos = 0)
         /\ Len(b.nodes) > 0 => Lru!Eldest(Abstraction(b)) = b.nodes[1]
         /\ Abstraction(b).cand = b.pending
<1> DEFINE n == b.nodes
           f == b.first_connected_pos
           d == Disc(n, f)
           e == Conn(n, f)
           q == Abstraction(b)
<1>1. PartsOf(b) /\ Len(n) <= K_VALUE /\ Len(n) \in Nat /\ f \in Nat \cup {None}
  BY GoodParts DEF PartsOf, Parts
<1>2. q.disc = d /\ q.conn = e /\ q.cand = b.pending
  <2>1. q = Queues(d, e, b.pending)
    BY AbstractionIs, Zenon
  <2> HIDE DEF q, d, e
  <2> QED BY <2>1 DEF Queues
<1>3. /\ Len(d) + Len(e) = Len(n)
      /\ Len(n) > 0 => (d = << >> <=> f = 0)
      /\ Range(d) \cup Range(e) = Range(n)
      /\ Len(n) > 0 => Head(d \o e) = n[1]
  BY <1>1, QueueFacts, Zenon DEF PartsOf
<1> HIDE DEF d, e, q
<1>4. Lru!HasRoom(q) <=> ~IsFull(b)
  BY <1>1, <1>2, <1>3, ConstantsAssumption DEF Lru!HasRoom, IsFull
<1>5. Lru!Members(q) = Keys(b)
  BY <1>2, <1>3, Zenon DEF Lru!Members, Keys, Lru!Range, Range
<1>6. IsFull(b) => Len(n) > 0
  BY ConstantsAssumption DEF IsFull
<1>7. StatusAt(b, 0) = "Connected" <=> f = 0
  BY <1>1, ConstantsAssumption DEF StatusAt
<1>8. Len(n) > 0 => Lru!Eldest(q) = n[1]
  BY <1>2, <1>3, Zenon DEF Lru!Eldest
<1> QED BY <1>2, <1>3, <1>4, <1>5, <1>6, <1>7, <1>8, Zenon DEF q

\* The two modules take VecWithout from the same module.
LEMMA SameWithout ==
  ASSUME NEW s, NEW k
  PROVE  Lru!VecWithout(s, k) = VecWithout(s, k)
BY Zenon DEF Lru!VecWithout, Lru!VecRemove, Lru!VecPosition, Lru!Range,
             VecWithout, VecRemove, VecPosition, Range

LEMMA DropIs ==
  ASSUME NEW d, NEW e, NEW c, NEW k
  PROVE  Lru!Drop(Queues(d, e, c), k) = Queues(VecWithout(d, k), VecWithout(e, k), c)
<1> DEFINE x == VecWithout(d, k)
           y == VecWithout(e, k)
           q == Queues(d, e, c)
<1>1. Lru!Drop(q, k) = [q EXCEPT !.disc = Lru!VecWithout(q.disc, k), !.conn = Lru!VecWithout(q.conn, k)]
  BY DEF Lru!Drop, Queues
<1>2. q.disc = d /\ q.conn = e
  BY DEF Queues
<1> HIDE DEF q
<1>3. Lru!Drop(q, k) = [q EXCEPT !.disc = x, !.conn = y]
  BY <1>1, <1>2, SameWithout, Zenon
<1> HIDE DEF x, y
<1>4. [Queues(d, e, c) EXCEPT !.disc = x] = Queues(x, e, c)
  BY DEF Queues
<1>5. [Queues(x, e, c) EXCEPT !.conn = y] = Queues(x, y, c)
  BY DEF Queues
<1> QED BY <1>3, <1>4, <1>5, Zenon DEF q, x, y

\* KBucket::remove takes the node out of its queue.
LEMMA RemoveLru ==
  ASSUME NEW r \in [Key -> Status], NEW b, Good(b, r), NEW k \in Keys(b)
  PROVE  Abstraction(RemoveNode(b, k)) = Lru!Drop(Abstraction(b), k)
<1> DEFINE n == b.nodes
           f == b.first_connected_pos
           p == Position(b, k)
           m == VecRemove(n, p)
           g == IF f # None /\ p >= f
                THEN IF f = p /\ p = Len(m) THEN None ELSE f
                ELSE IF f = None THEN None ELSE f - 1
           c == Cut(n, f)
           d == Disc(n, f)
           e == Conn(n, f)
<1>1. b \in Bucket /\ n \in Seq(Key) /\ Len(n) \in Nat /\ Parts(n, f) /\ f \in Nat \cup {None}
      /\ \A i, j \in 1..Len(n) : n[i] = n[j] => i = j
  BY DEF Good, NodesGood, Parts
<1>2. p \in 0..(Len(n) - 1) /\ n[p + 1] = k
  BY <1>1, PositionOf DEF Position, Keys
<1>3. RemoveNode(b, k) = [b EXCEPT !.nodes = m, !.first_connected_pos = g]
  BY Zenon DEF RemoveNode, ConnectedPosAfterRemove, StatusAt
<1>4. Good(RemoveNode(b, k), r)
  BY RemoveGood
<1>5. Parts(m, g) /\ g \in Nat \cup {None}
  <2> HIDE DEF m, g
  <2>1. RemoveNode(b, k).nodes = m /\ RemoveNode(b, k).first_connected_pos = g
    BY <1>1, <1>3, Zenon DEF Bucket
  <2> QED BY <1>4, <2>1, GoodParts DEF PartsOf, Parts
<1>6. Len(m) = Len(n) - 1
  BY <1>1, <1>2, VecRemoveProperties
<1> HIDE DEF p
<1>7. /\ p < c => Disc(m, g) = VecRemove(d, p) /\ Conn(m, g) = e
      /\ p >= c => Disc(m, g) = d /\ Conn(m, g) = VecRemove(e, p - c)
  <2>1. /\ f # None /\ p >= f => g = IF f = p /\ p = Len(n) - 1 THEN None ELSE f
        /\ f = None => g = None
        /\ f # None /\ p < f => g = f - 1
    BY <1>1, <1>2, <1>6
  <2> HIDE DEF g
  <2>2. IndexAfter(n, f, p, g)
    BY <1>5, <2>1, Zenon DEF IndexAfter, m
  <2>3. LeavesQueue(n, f, p, m, g)
    BY <1>1, <1>2, <2>2, SplitRemove, Zenon
  <2> QED BY <2>3, Zenon DEF LeavesQueue
<1>8. c \in 0..Len(n) /\ IsCut(d, e, n, c)
  BY <1>1, CutFacts
<1> HIDE DEF m, g, c, d, e
<1>9. VecWithout(d, k) = Disc(m, g) /\ VecWithout(e, k) = Conn(m, g)
  <2>0. /\ d \in Seq(Key) /\ Len(d) = c /\ \A i \in 1..c : d[i] = n[i]
        /\ e \in Seq(Key) /\ Len(e) = Len(n) - c /\ \A i \in 1..(Len(n) - c) : e[i] = n[c + i]
    BY <1>8 DEF IsCut
  <2>1. /\ \A i, j \in 1..Len(d) : d[i] = d[j] => i = j
        /\ \A i, j \in 1..Len(e) : e[i] = e[j] => i = j
    <3>1. ASSUME NEW i \in 1..Len(d), NEW j \in 1..Len(d), d[i] = d[j] PROVE i = j
      <4>1. i \in 1..Len(n) /\ j \in 1..Len(n) /\ n[i] = n[j]
        BY <1>1, <1>8, <2>0, <3>1
      <4> QED BY <1>1, <4>1, Zenon
    <3>2. ASSUME NEW i \in 1..Len(e), NEW j \in 1..Len(e), e[i] = e[j] PROVE i = j
      <4>1. c + i \in 1..Len(n) /\ c + j \in 1..Len(n) /\ n[c + i] = n[c + j]
        BY <1>1, <1>8, <2>0, <3>2
      <4>2. c + i = c + j
        BY <1>1, <4>1
      <4> QED BY <1>8, <4>2
    <3> QED BY <3>1, <3>2
  <2>2. CASE p < c
    <3>1. p \in 0..(Len(d) - 1) /\ d[p + 1] = k /\ c # p
      BY <1>2, <1>8, <2>0, <2>2
    <3>2. VecWithout(d, k) = VecRemove(d, p)
      BY <2>0, <2>1, <3>1, WithoutAt, Zenon
    <3>3. k \notin Range(e)
      <4> SUFFICES ASSUME k \in Range(e) PROVE FALSE
        OBVIOUS
      <4>0. PICK i \in 1..Len(e) : e[i] = k
        BY <2>0, RangeMember
      <4>1. c + i \in 1..Len(n) /\ p + 1 \in 1..Len(n) /\ c + i # p + 1 /\ n[c + i] = n[p + 1]
        BY <1>1, <1>2, <1>8, <2>0, <2>2, <4>0
      <4> QED BY <1>1, <4>1
    <3> QED BY <1>7, <2>2, <3>2, <3>3, Zenon DEF VecWithout
  <2>3. CASE p >= c
    <3> DEFINE q == p - c
    <3>1. q \in 0..(Len(e) - 1) /\ e[q + 1] = k
      <4>0. Len(n) \in Nat /\ Len(e) = Len(n) - c
        BY <1>1, <2>0, Zenon
      <4>1. q \in 0..(Len(e) - 1) /\ q + 1 \in 1..(Len(n) - c) /\ c + (q + 1) = p + 1
        BY <1>2, <1>8, <2>3, <4>0
      <4> HIDE DEF q
      <4>2. e[q + 1] = n[c + (q + 1)]
        BY <2>0, <4>1, Zenon
      <4>3. n[c + (q + 1)] = k
        BY <1>2, <4>1, Zenon
      <4> QED BY <4>1, <4>2, <4>3, Zenon
    <3> HIDE DEF q
    <3>2. VecWithout(e, k) = VecRemove(e, q)
      BY <2>0, <2>1, <3>1, WithoutAt, Zenon
    <3>3. k \notin Range(d)
      <4> SUFFICES ASSUME k \in Range(d) PROVE FALSE
        OBVIOUS
      <4>0. PICK i \in 1..Len(d) : d[i] = k
        BY <2>0, RangeMember
      <4>1. i \in 1..Len(n) /\ p + 1 \in 1..Len(n) /\ i # p + 1 /\ n[i] = n[p + 1]
        BY <1>1, <1>2, <1>8, <2>0, <2>3, <4>0
      <4> QED BY <1>1, <4>1
    <3> QED BY <1>7, <2>3, <3>2, <3>3, Zenon DEF VecWithout, q
  <2>4. p < c \/ p >= c
    BY <1>2, <1>8
  <2> QED BY <2>2, <2>3, <2>4, Zenon
<1>10. Abstraction(RemoveNode(b, k)) = Queues(Disc(m, g), Conn(m, g), b.pending)
  BY <1>1, <1>3, AbstractionOf, Zenon
<1>11. Abstraction(b) = Queues(d, e, b.pending)
  BY AbstractionIs, Zenon DEF d, e
<1>12. Lru!Drop(Queues(d, e, b.pending), k)
         = Queues(VecWithout(d, k), VecWithout(e, k), b.pending)
  BY DropIs, Zenon
<1> QED BY <1>9, <1>10, <1>11, <1>12, Zenon

\* KBucket::insert for a key that is neither in the bucket nor pending
LEMMA InsertLru ==
  ASSUME NEW r, NEW b, Good(b, r), NEW k \in Key, NEW s \in Status
  PROVE  Abstraction(Insert(b, k, s)) = Lru!Offer(Abstraction(b), k, s)
<1> DEFINE q == Abstraction(b)
<1>1. /\ Lru!HasRoom(q) <=> ~IsFull(b)
      /\ IsFull(b) => (q.disc = << >> <=> b.first_connected_pos = 0)
      /\ q.cand = b.pending /\ PartsOf(b)
  BY AbstractionReads, GoodParts, Zenon
<1>2. CASE ~IsFull(b)
  <2>1. Abstraction(Insert(b, k, s)) = Lru!Enqueue(q, k, s)
    BY <1>1, <1>2, InsertEnqueues, Zenon
  <2> HIDE DEF q
  <2> QED BY <1>1, <1>2, <2>1 DEF Lru!Offer, q
<1>3. CASE IsFull(b) /\ s = "Connected" /\ b.first_connected_pos # 0 /\ b.pending = None
  <2> DEFINE w == [key |-> k, status |-> "Connected", replace |-> PendingTimeout]
             x == [b EXCEPT !.pending = w]
  <2>1. Insert(b, k, s) = x
    BY <1>3 DEF Insert, SetPending
  <2> HIDE DEF w
  <2>2. x.nodes = b.nodes /\ x.first_connected_pos = b.first_connected_pos /\ x.pending = w
    BY <1>1 DEF PartsOf, Bucket
  <2> HIDE DEF x
  <2>3. Abstraction(x) = Queues(Disc(b.nodes, b.first_connected_pos), Conn(b.nodes, b.first_connected_pos), w)
    BY <2>2, AbstractionIs, Zenon
  <2>4. q = Queues(Disc(b.nodes, b.first_connected_pos), Conn(b.nodes, b.first_connected_pos), b.pending)
    BY AbstractionIs, Zenon
  <2> HIDE DEF q
  <2>5. [q EXCEPT !.cand = w] = Abstraction(x)
    BY <2>3, <2>4 DEF Queues
  <2>6. Lru!Offer(q, k, s) = [q EXCEPT !.cand = w]
    BY <1>1, <1>3 DEF Lru!Offer, w
  <2> QED BY <2>1, <2>5, <2>6, Zenon DEF q
<1>4. CASE IsFull(b) /\ ~(s = "Connected" /\ b.first_connected_pos # 0 /\ b.pending = None)
  <2>1. Insert(b, k, s) = b
    BY <1>4 DEF Insert
  <2> HIDE DEF q
  <2>2. Lru!Offer(q, k, s) = q
    BY <1>1, <1>4 DEF Lru!Offer
  <2> QED BY <2>1, <2>2, Zenon DEF q
<1> QED BY <1>2, <1>3, <1>4, Zenon

\* The candidate is given up: the queues stay.
LEMMA RemovePendingLru ==
  ASSUME NEW b \in Bucket
  PROVE  Abstraction([b EXCEPT !.pending = None]) = [Abstraction(b) EXCEPT !.cand = None]
<1> DEFINE x == [b EXCEPT !.pending = None]
           d == Disc(b.nodes, b.first_connected_pos)
           e == Conn(b.nodes, b.first_connected_pos)
<1>1. x.nodes = b.nodes /\ x.first_connected_pos = b.first_connected_pos /\ x.pending = None
  BY DEF Bucket
<1> HIDE DEF x
<1>2. Abstraction(x) = Queues(d, e, None) /\ Abstraction(b) = Queues(d, e, b.pending)
  BY <1>1, AbstractionIs, Zenon
<1> HIDE DEF d, e
<1>3. [Queues(d, e, b.pending) EXCEPT !.cand = None] = Queues(d, e, None)
  BY DEF Queues
<1> QED BY <1>2, <1>3, Zenon DEF x

\* KBucket::update: the node leaves its queue and joins the one of its status; the
\* eldest node reporting itself connected ends the candidate's wait.
LEMMA UpdateLru ==
  ASSUME NEW r \in [Key -> Status], NEW b, Good(b, r), NEW k \in Keys(b), NEW s \in Status
  PROVE  Abstraction(Update(b, k, s)) = Lru!Report(Abstraction(b), k, s)
<1> DEFINE c == RemoveNode(b, k)
           x == IF Position(b, k) = 0 /\ s = "Connected" THEN [c EXCEPT !.pending = None] ELSE c
           y == Lru!Drop(Abstraction(b), k)
           z == IF k = Lru!Eldest(Abstraction(b)) /\ s = "Connected" THEN [y EXCEPT !.cand = None] ELSE y
<1>1. Good(c, r) /\ ~IsFull(c) /\ k \in Key
  BY RemoveGood
<1>2. Abstraction(c) = y
  BY RemoveLru
<1>3. Position(b, k) = 0 <=> k = Lru!Eldest(Abstraction(b))
  <2>1. /\ b.nodes \in Seq(Key) /\ Len(b.nodes) \in Nat
        /\ \A i, j \in 1..Len(b.nodes) : b.nodes[i] = b.nodes[j] => i = j
    BY DEF Good, NodesGood
  <2> DEFINE p == Position(b, k)
  <2>2. p \in 0..(Len(b.nodes) - 1) /\ b.nodes[p + 1] = k
    BY <2>1, PositionOf DEF Position, Keys
  <2> HIDE DEF p
  <2>3. Len(b.nodes) > 0 /\ p + 1 \in 1..Len(b.nodes) /\ 1 \in 1..Len(b.nodes) /\ (p = 0 <=> p + 1 = 1)
    BY <2>1, <2>2
  <2>4. Lru!Eldest(Abstraction(b)) = b.nodes[1]
    BY <2>3, AbstractionReads, Zenon
  <2>5. p + 1 = 1 <=> b.nodes[p + 1] = b.nodes[1]
    BY <2>1, <2>3, Zenon
  <2> QED BY <2>2, <2>3, <2>4, <2>5, Zenon DEF p
<1>4. Update(b, k, s) = Insert(x, k, s) /\ Lru!Report(Abstraction(b), k, s) = Lru!Enqueue(z, k, s)
  BY Zenon DEF Update, Lru!Report
<1> HIDE DEF c, y
<1>5. PartsOf(c) /\ c \in Bucket
  BY <1>1, GoodParts DEF PartsOf
<1>6. Abstraction(x) = z /\ PartsOf(x) /\ ~IsFull(x)
  <2>1. CASE Position(b, k) = 0 /\ s = "Connected"
    <3> DEFINE w == [c EXCEPT !.pending = None]
    <3>1. x = w /\ z = [y EXCEPT !.cand = None]
      BY <1>3, <2>1, Zenon
    <3>2. w \in Bucket /\ w.nodes = c.nodes /\ w.first_connected_pos = c.first_connected_pos
      BY <1>5 DEF Bucket
    <3>3. Abstraction(w) = [Abstraction(c) EXCEPT !.cand = None]
      BY <1>5, RemovePendingLru, Zenon
    <3> HIDE DEF w, x, z
    <3> QED BY <1>1, <1>2, <1>5, <3>1, <3>2, <3>3, Zenon DEF PartsOf, IsFull
  <2>2. CASE ~(Position(b, k) = 0 /\ s = "Connected")
    BY <1>1, <1>2, <1>3, <1>5, <2>2, Zenon
  <2> QED BY <2>1, <2>2, Zenon
<1> HIDE DEF x, z
<1>7. Abstraction(Insert(x, k, s)) = Lru!Enqueue(z, k, s)
  BY <1>1, <1>6, InsertEnqueues, Zenon
<1> QED BY <1>4, <1>7, Zenon

LEMMA RemoveFirst ==
  ASSUME NEW d \in Seq(Key), Len(d) > 0
  PROVE  VecRemove(d, 0) = Tail(d)
<1> DEFINE x == VecRemove(d, 0)
           y == Tail(d)
<1>1. x \in Seq(Key) /\ Len(x) = Len(d) - 1 /\ \A i \in 1..(Len(d) - 1) : x[i] = d[i + 1]
  BY VecRemoveProperties
<1>2. y \in Seq(Key) /\ Len(y) = Len(d) - 1 /\ \A i \in 1..(Len(d) - 1) : y[i] = d[i + 1]
  OBVIOUS
<1> HIDE DEF x, y
<1>3. x = y
  BY <1>1, <1>2, SameSeq
<1> QED BY <1>3 DEF x, y

\* KBucket::apply_pending on a full bucket whose eldest node is disconnected: the
\* eldest node leaves the first queue, the pending node joins the one of its status.
LEMMA ReplaceLru ==
  ASSUME NEW r, NEW b, Good(b, r), IsFull(b), StatusAt(b, 0) = "Disconnected",
         NEW k \in Key, NEW s \in Status
  PROVE  Abstraction(Replace(b, k, s))
           = Lru!Enqueue([Abstraction(b) EXCEPT !.disc = Tail(@)], k, s)
<1> DEFINE n == b.nodes
           f == b.first_connected_pos
           m == VecRemove(n, 0)
           g == IF f = None THEN None ELSE f - 1
           d == Disc(n, f)
           e == Conn(n, f)
           u == Replace(b, k, s)
<1>1. /\ b \in Bucket /\ n \in Seq(Key) /\ Len(n) \in Nat /\ Len(n) > 0 /\ 0 \in 0..(Len(n) - 1)
      /\ Parts(n, f) /\ f \in Nat \cup {None} /\ (f # None => f < Len(n) /\ f > 0)
  BY ConstantsAssumption DEF Good, NodesGood, Parts, IsFull, StatusAt
<1>2. m \in Seq(Key) /\ Len(m) = Len(n) - 1
  BY <1>1, VecRemoveProperties
<1>t. u = CASE s = "Connected" ->
                 [b EXCEPT !.nodes = Append(m, k), !.first_connected_pos = IF f = None THEN Len(m) ELSE f - 1]
            [] s = "Disconnected" /\ f # None -> [b EXCEPT !.nodes = VecInsert(m, f - 1, k)]
            [] s = "Disconnected" /\ f = None -> [b EXCEPT !.nodes = Append(m, k)]
  BY Zenon DEF Replace
<1> HIDE DEF m, u
<1>3. Parts(m, g) /\ g \in Nat \cup {None} /\ (f = None <=> g = None) /\ (f # None => g + 1 = f /\ g = f - 1)
  BY <1>1, <1>2, ConstantsAssumption DEF Parts
<1>4. IndexAfter(n, f, 0, g)
  BY <1>1, <1>3 DEF IndexAfter, m
<1> HIDE DEF g
<1>5. LeavesQueue(n, f, 0, m, g)
  BY <1>1, <1>4, SplitRemove, Zenon DEF m
<1>6. 0 < Cut(n, f) /\ d \in Seq(Key) /\ Len(d) > 0
  <2>1. IsCut(d, e, n, Cut(n, f))
    BY <1>1, CutFacts, Zenon
  <2>2. 0 < Cut(n, f)
    BY <1>1 DEF Cut
  <2> HIDE DEF d, e
  <2> QED BY <2>1, <2>2 DEF IsCut
<1>7. Disc(m, g) = Tail(d) /\ Conn(m, g) = e
  BY <1>5, <1>6, RemoveFirst, Zenon DEF LeavesQueue
<1>8. /\ s = "Connected" => /\ u.nodes = Append(m, k) /\ u.first_connected_pos = IF g = None THEN Len(m) ELSE g
                            /\ u.pending = b.pending
      /\ s = "Disconnected" => /\ u.nodes = IF g = None THEN Append(m, k) ELSE VecInsert(m, g, k)
                               /\ u.first_connected_pos = IF g = None THEN None ELSE g + 1
                               /\ u.pending = b.pending
  <2>1. CASE s = "Connected"
    <3> DEFINE x == Append(m, k)
               h == IF f = None THEN Len(m) ELSE f - 1
    <3>1. u = [b EXCEPT !.nodes = x, !.first_connected_pos = h]
      BY <1>t, <2>1, Zenon
    <3>2. h = IF g = None THEN Len(m) ELSE g
      BY <1>3, Zenon
    <3> HIDE DEF x, h
    <3>3. u.nodes = x /\ u.first_connected_pos = h /\ u.pending = b.pending
      BY <1>1, <3>1 DEF Bucket
    <3>4. s # "Disconnected"
      BY <2>1
    <3> QED BY <2>1, <3>2, <3>3, <3>4, Zenon DEF x
  <2>2. CASE s = "Disconnected" /\ f = None
    <3> DEFINE x == Append(m, k)
    <3>1. u = [b EXCEPT !.nodes = x]
      <4> HIDE DEF x
      <4>1. s # "Connected"
        BY <2>2
      <4> QED BY <1>t, <2>2, <4>1, Zenon DEF x
    <3> HIDE DEF x
    <3>2. u.nodes = x /\ u.first_connected_pos = f /\ u.pending = b.pending
      BY <1>1, <3>1 DEF Bucket
    <3>3. s # "Connected"
      BY <2>2
    <3> QED BY <1>3, <2>2, <3>2, <3>3, Zenon DEF x
  <2>3. CASE s = "Disconnected" /\ f # None
    <3> DEFINE x == VecInsert(m, g, k)
    <3>1. u = [b EXCEPT !.nodes = VecInsert(m, f - 1, k)]
      BY <1>t, <2>3
    <3>2. u = [b EXCEPT !.nodes = x]
      BY <1>3, <2>3, <3>1, Zenon
    <3> HIDE DEF x
    <3>3. u.nodes = x /\ u.first_connected_pos = f /\ u.pending = b.pending
      BY <1>1, <3>2 DEF Bucket
    <3>4. s # "Connected"
      BY <2>3
    <3> QED BY <1>3, <2>3, <3>3, <3>4, Zenon DEF x
  <2> QED BY <2>1, <2>2, <2>3, Zenon DEF Status
<1>9. [Abstraction(b) EXCEPT !.disc = Tail(@)] = Queues(Tail(d), e, b.pending)
  <2> DEFINE t == Tail(d)
  <2>1. Abstraction(b) = Queues(d, e, b.pending)
    BY AbstractionIs, Zenon
  <2> HIDE DEF d, e
  <2>2. [Abstraction(b) EXCEPT !.disc = Tail(@)] = [Abstraction(b) EXCEPT !.disc = t]
    BY <2>1 DEF Queues
  <2> HIDE DEF t
  <2>3. [Queues(d, e, b.pending) EXCEPT !.disc = t] = Queues(t, e, b.pending)
    BY DEF Queues
  <2> QED BY <2>1, <2>2, <2>3, Zenon DEF t
<1> DEFINE y == Tail(d)
<1> HIDE DEF n, f, d, e, y
<1>10. CASE s = "Connected"
  <2>1. Disc(u.nodes, u.first_connected_pos) = y /\ Conn(u.nodes, u.first_connected_pos) = Append(e, k)
    <3>1. /\ Disc(Append(m, k), IF g = None THEN Len(m) ELSE g) = Disc(m, g)
          /\ Conn(Append(m, k), IF g = None THEN Len(m) ELSE g) = Append(Conn(m, g), k)
      BY <1>3, SplitAppend, Zenon
    <3> QED BY <1>7, <1>8, <1>10, <3>1, Zenon DEF y
  <2>2. Lru!Enqueue(Queues(y, e, b.pending), k, "Connected") = Queues(y, Append(e, k), b.pending)
    BY EnqueueIs
  <2> QED BY <1>8, <1>9, <1>10, <2>1, <2>2, AbstractionIs, Zenon DEF u, y
<1>11. CASE s = "Disconnected"
  <2>1. Disc(u.nodes, u.first_connected_pos) = Append(y, k) /\ Conn(u.nodes, u.first_connected_pos) = e
    <3> DEFINE a == IF g = None THEN Append(m, k) ELSE VecInsert(m, g, k)
               h == IF g = None THEN None ELSE g + 1
    <3>1. Disc(a, h) = Append(Disc(m, g), k) /\ Conn(a, h) = Conn(m, g)
      BY <1>3, SplitInsert, Zenon
    <3>2. u.nodes = a /\ u.first_connected_pos = h
      BY <1>8, <1>11, Zenon
    <3> HIDE DEF a, h
    <3> QED BY <1>7, <3>1, <3>2, Zenon DEF y
  <2>2. Lru!Enqueue(Queues(y, e, b.pending), k, "Disconnected") = Queues(Append(y, k), e, b.pending)
    BY EnqueueIs
  <2> QED BY <1>8, <1>9, <1>11, <2>1, <2>2, AbstractionIs, Zenon DEF u, y
<1> QED BY <1>10, <1>11, Zenon DEF Status

\* KBucket::apply_pending settles the candidate.
LEMMA ApplyLru ==
  ASSUME NEW r, NEW b, Good(b, r)
  PROVE  Abstraction(ApplyPending(b)) = Lru!Settle(Abstraction(b))
<1> DEFINE q == Abstraction(b)
           t == RemovePending(b)
           v == [q EXCEPT !.cand = None]
           w == b.pending
<1>1. /\ Lru!HasRoom(q) <=> ~IsFull(b)
      /\ IsFull(b) => (q.disc = << >> <=> StatusAt(b, 0) = "Connected")
      /\ q.cand = w /\ b \in Bucket
  BY AbstractionReads, Zenon DEF Good
<1>2. w # None => w.replace \in Nat /\ w.key \in Key /\ w.status \in Status
  BY ConstantsAssumption DEF Good, PendingGood, PendingNode
<1>3. StatusAt(b, 0) \in {"Connected", "Disconnected"}
  BY DEF StatusAt
<1> HIDE DEF q
<1>4. CASE ~PendingDue(b)
  <2>1. ApplyPending(b) = b
    BY <1>4 DEF ApplyPending
  <2>2. Lru!Settle(q) = q
    BY <1>1, <1>2, <1>4 DEF Lru!Settle, PendingDue
  <2> QED BY <2>1, <2>2, Zenon DEF q
<1>5. CASE PendingDue(b)
  <2>1. w # None /\ ~(w.replace > 0)
    BY <1>5 DEF PendingDue
  <2>2. Lru!Settle(q) = IF Lru!HasRoom(q) THEN Lru!Enqueue(v, w.key, w.status)
                        ELSE IF q.disc = << >> THEN v
                        ELSE Lru!Enqueue([v EXCEPT !.disc = Tail(@)], w.key, w.status)
    <3> DEFINE x == IF Lru!HasRoom(q) THEN Lru!Enqueue(v, q.cand.key, q.cand.status)
                    ELSE IF q.disc = << >> THEN v
                    ELSE Lru!Enqueue([v EXCEPT !.disc = Tail(@)], q.cand.key, q.cand.status)
    <3>1. Lru!Settle(q) = CASE q.cand = None \/ q.cand.replace > 0 -> q [] OTHER -> x
      BY Zenon DEF Lru!Settle
    <3> HIDE DEF x
    <3>2. Lru!Settle(q) = x
      BY <1>1, <2>1, <3>1
    <3> QED BY <1>1, <3>2, Zenon DEF x
  <2>3. ApplyPending(b) = Place(b, t)
    BY <1>5 DEF ApplyPending
  <2>4. Abstraction(t) = v
    BY <1>1, RemovePendingLru, Zenon DEF RemovePending, q
  <2>5. Good(t, r) /\ t.nodes = b.nodes /\ t.first_connected_pos = b.first_connected_pos
    BY <1>1 DEF RemovePending, Good, Bucket, PendingGood
  <2>6. PartsOf(t)
    BY <2>5, GoodParts, Zenon
  <2>7. (IsFull(t) <=> IsFull(b)) /\ StatusAt(t, 0) = StatusAt(b, 0)
    BY <2>5, Zenon DEF IsFull, StatusAt
  <2> HIDE DEF t, v
  <2>8. CASE ~IsFull(b)
    <3>1. Place(b, t) = Insert(t, w.key, w.status)
      BY <2>8 DEF Place
    <3>2. Abstraction(Insert(t, w.key, w.status)) = Lru!Enqueue(v, w.key, w.status)
      BY <1>2, <2>1, <2>4, <2>6, <2>7, <2>8, InsertEnqueues, Zenon
    <3> QED BY <1>1, <2>2, <2>3, <2>8, <3>1, <3>2, Zenon DEF q
  <2>9. CASE IsFull(b) /\ StatusAt(b, 0) = "Connected"
    <3>1. Place(b, t) = t
      BY <2>9 DEF Place
    <3> QED BY <1>1, <2>2, <2>3, <2>4, <2>9, <3>1, Zenon DEF q
  <2>10. CASE IsFull(b) /\ StatusAt(b, 0) = "Disconnected"
    <3>1. Place(b, t) = Replace(t, w.key, w.status) /\ StatusAt(b, 0) # "Connected"
      BY <2>10 DEF Place
    <3>2. Abstraction(Replace(t, w.key, w.status)) = Lru!Enqueue([v EXCEPT !.disc = Tail(@)], w.key, w.status)
      BY <1>2, <2>1, <2>4, <2>5, <2>7, <2>10, ReplaceLru, Zenon
    <3> QED BY <1>1, <2>2, <2>3, <2>10, <3>1, <3>2, Zenon DEF q
  <2> QED BY <1>3, <2>8, <2>9, <2>10, Zenon
<1> QED BY <1>4, <1>5, Zenon

\* PendingEntry::update
LEMMA UpdatePendingLru ==
  ASSUME NEW r, NEW b, Good(b, r), NEW s, b.pending # None
  PROVE  Abstraction(UpdatePending(b, s)) = [Abstraction(b) EXCEPT !.cand.status = s]
<1> DEFINE w == [b.pending EXCEPT !.status = s]
           x == UpdatePending(b, s)
           d == Disc(b.nodes, b.first_connected_pos)
           e == Conn(b.nodes, b.first_connected_pos)
<1>1. x.nodes = b.nodes /\ x.first_connected_pos = b.first_connected_pos /\ x.pending = w
  BY DEF UpdatePending, Good, Bucket
<1> HIDE DEF x
<1>2. Abstraction(x) = Queues(d, e, w) /\ Abstraction(b) = Queues(d, e, b.pending)
  BY <1>1, AbstractionIs, Zenon
<1> HIDE DEF d, e
<1>3. [Queues(d, e, b.pending) EXCEPT !.cand.status = s] = [Queues(d, e, b.pending) EXCEPT !.cand = w]
  BY DEF Queues
<1> HIDE DEF w
<1>4. [Queues(d, e, b.pending) EXCEPT !.cand = w] = Queues(d, e, w)
  BY DEF Queues
<1> QED BY <1>2, <1>3, <1>4, Zenon DEF x

\* Time passes for the candidate.
LEMMA TickLru ==
  ASSUME Good(bucket, reported), Tick
  PROVE  Lru!Next
<1> DEFINE p == bucket.pending
           w == [p EXCEPT !.replace = @ - 1]
           x == bucket'
           d == Disc(bucket.nodes, bucket.first_connected_pos)
           e == Conn(bucket.nodes, bucket.first_connected_pos)
           q == AbstractBucket
<1>1. /\ p # None /\ p \in PendingNode /\ p.replace > 0
      /\ x.nodes = bucket.nodes /\ x.first_connected_pos = bucket.first_connected_pos /\ x.pending = w
  BY DEF Tick, Good, PendingGood, Bucket
<1> HIDE DEF x
<1>2. Abstraction(x) = Queues(d, e, w) /\ q = Queues(d, e, p)
  BY <1>1, AbstractionIs, Zenon DEF AbstractBucket
<1> HIDE DEF d, e, p
<1>3. [Queues(d, e, p) EXCEPT !.cand.replace = @ - 1] = [Queues(d, e, p) EXCEPT !.cand = w]
  BY DEF Queues
<1> HIDE DEF w
<1>4. [Queues(d, e, p) EXCEPT !.cand = w] = Queues(d, e, w) /\ Queues(d, e, p).cand = p
  BY DEF Queues
<1>5. AbstractBucket' = Abstraction(x)
  BY Zenon DEF AbstractBucket, x
<1>6. Lru!Wait
  BY <1>1, <1>2, <1>3, <1>4, <1>5, Zenon DEF Lru!Wait
<1> QED BY <1>6, Zenon DEF Lru!Next

-----------------------------------------------------------------------------
(* Every step of a bucket is a step of the two queues or leaves them alone. *)

LEMMA InitLru == Init => Lru!Init
<1> SUFFICES ASSUME Init PROVE Lru!Init
  OBVIOUS
<1> DEFINE n == << >>
<1>1. bucket = [nodes |-> n, first_connected_pos |-> None, pending |-> None]
  BY DEF Init, New
<1>2. SubSeq(n, 1, 0) = << >> /\ SubSeq(n, 1, 0) = << >> /\ Len(n) = 0
  OBVIOUS
<1> QED BY <1>1, <1>2 DEF Lru!Init, AbstractBucket, Abstraction, NumDisconnected

\* The access settles the candidate, then does the queue operation of its action.
LEMMA StepLru ==
  ASSUME Inv, Next
  PROVE  Lru!Next
<1> DEFINE b == ApplyPending(bucket)
           q == Lru!Settle(AbstractBucket)
<1>1. reported \in [Key -> Status] /\ Good(bucket, reported)
  BY DEF Inv, HistoryOK
<1>2. Good(b, reported)
  BY <1>1, ApplyGood
<1>3. Abstraction(b) = q
  BY <1>1, ApplyLru, Zenon DEF AbstractBucket
<1>4. AbstractBucket' = Abstraction(bucket')
  BY Zenon DEF AbstractBucket
<1> HIDE DEF b, q
<1>5. Lru!Members(q) = Keys(b) /\ q.cand = b.pending /\ b \in Bucket
  BY <1>2, <1>3, AbstractionReads, Zenon DEF Good
<1>6. ASSUME Lru!Step(q) PROVE Lru!Next
  BY <1>6, Zenon DEF Lru!Next, q
<1>7. ASSUME NEW k \in Key, NEW s \in Status, AbsentInsert(k, s) PROVE Lru!Next
  <2>1. k \notin Keys(b) /\ ~IsPending(b, k) /\ bucket' = Insert(b, k, s)
    BY <1>7 DEF AbsentInsert, b
  <2>2. Abstraction(Insert(b, k, s)) = Lru!Offer(q, k, s)
    BY <1>2, <1>3, InsertLru, Zenon
  <2>3. k \notin Lru!Members(q) /\ ~Lru!IsCand(q, k) /\ AbstractBucket' = Lru!Offer(q, k, s)
    BY <1>4, <1>5, <2>1, <2>2, Zenon DEF IsPending, Lru!IsCand
  <2> QED BY <1>6, <2>3, Zenon DEF Lru!Step, Status
<1>8. ASSUME NEW k \in Key, NEW s \in Status, PresentUpdate(k, s) PROVE Lru!Next
  <2>1. k \in Keys(b) /\ bucket' = Update(b, k, s)
    BY <1>8 DEF PresentUpdate, b
  <2>2. AbstractBucket' = Lru!Report(q, k, s)
    BY <1>1, <1>2, <1>3, <1>4, <2>1, UpdateLru, Zenon
  <2> QED BY <1>5, <1>6, <2>1, <2>2, Zenon DEF Lru!Step, Status
<1>9. ASSUME NEW k \in Key, NEW s \in Status, PendingUpdate(k, s) PROVE Lru!Next
  <2>1. k \notin Keys(b) /\ IsPending(b, k) /\ bucket' = UpdatePending(b, s)
    BY <1>9 DEF PendingUpdate, b
  <2>2. Abstraction(UpdatePending(b, s)) = [q EXCEPT !.cand.status = s]
    BY <1>2, <1>3, <2>1, UpdatePendingLru, Zenon DEF IsPending
  <2>3. k \notin Lru!Members(q) /\ Lru!IsCand(q, k) /\ AbstractBucket' = [q EXCEPT !.cand.status = s]
    BY <1>4, <1>5, <2>1, <2>2, Zenon DEF IsPending, Lru!IsCand
  <2> QED BY <1>6, <2>3, Zenon DEF Lru!Step, Status
<1>10. ASSUME NEW k \in Key, PresentRemove(k) PROVE Lru!Next
  <2>1. k \in Keys(b) /\ bucket' = RemoveNode(b, k)
    BY <1>10 DEF PresentRemove, b
  <2>2. AbstractBucket' = Lru!Drop(q, k)
    BY <1>1, <1>2, <1>3, <1>4, <2>1, RemoveLru, Zenon
  <2> QED BY <1>5, <1>6, <2>1, <2>2, Zenon DEF Lru!Step
<1>11. ASSUME NEW k \in Key, PendingRemove(k) PROVE Lru!Next
  <2>1. IsPending(b, k) /\ bucket' = [b EXCEPT !.pending = None]
    BY <1>11 DEF PendingRemove, RemovePending, b
  <2>2. AbstractBucket' = [q EXCEPT !.cand = None]
    BY <1>3, <1>4, <1>5, <2>1, RemovePendingLru, Zenon
  <2> QED BY <1>5, <1>6, <2>1, <2>2, Zenon DEF Lru!Step, IsPending
<1>12. CASE Visit
  <2>1. AbstractBucket' = q
    BY <1>3, <1>4, <1>12, Zenon DEF Visit, b
  <2> QED BY <1>6, <2>1, Zenon DEF Lru!Step
<1>13. CASE Tick
  BY <1>1, <1>13, TickLru, Zenon
<1> QED BY <1>7, <1>8, <1>9, <1>10, <1>11, <1>12, <1>13, Zenon DEF Next

\* bucket.rs:101-102: for every capacity and timeout the array with its index is
\* the two queues of LruBucket, ordered by the time of the last report, and each
\* operation of the Entry API one of theirs, apply_pending first.
THEOREM ImplementsLruAlways == Spec => ImplementsLru
<1>1. Inv /\ [Next]_vars => [Lru!Next]_AbstractBucket
  <2> SUFFICES ASSUME Inv, [Next]_vars PROVE [Lru!Next]_AbstractBucket
    OBVIOUS
  <2>1. CASE Next
    BY <2>1, StepLru, Zenon
  <2>2. CASE UNCHANGED vars
    <3>1. bucket' = bucket
      BY <2>2 DEF vars
    <3> QED BY <3>1, Zenon DEF AbstractBucket
  <2> QED BY <2>1, <2>2, Zenon
<1> QED BY <1>1, InitLru, InvInit, InvNext, PTL DEF Spec, ImplementsLru, Lru!Spec
=============================================================================
