------------------------ MODULE ClosestBucketsProofs ------------------------
(***************************************************************************)
(* ClosestBucketsIter visits all buckets, nearest first, in a key space of *)
(* any number of bits.                                                     *)
(***************************************************************************)
EXTENDS ClosestBuckets, Integers, SequenceTheorems, TLAPS

\* SMT has 30 seconds for each step; the steps it is not suited for name Zenon.
USE SMTT(30)

\* Bucket a comes before bucket b on the way from a target at distance d.
Before(d, a, b) == (a > b /\ a \in d) \/ (a < b /\ b \notin d)

\* Two keys are told apart by the most significant bit of the one in the higher
\* bucket, and the target's bit there says which of them is nearer.
LEMMA BeforeIsNearer ==
  ASSUME NEW d \in KeyBytes, NEW a \in Bit, NEW b \in Bit, Before(d, a, b),
         NEW x \in InBucket(a), NEW y \in InBucket(b)
  PROVE  Less(Distance(x, d), Distance(y, d))
<1> USE NumBucketsAssumption
<1>1. /\ x \subseteq Bit /\ a \in x /\ \A j \in x : j <= a
      /\ y \subseteq Bit /\ b \in y /\ \A j \in y : j <= b
  BY DEF InBucket, IsBucketIndex, KeyBytes
<1>2. CASE a > b /\ a \in d
  <2>1. a \in Distance(y, d) \ Distance(x, d)
    BY <1>1, <1>2 DEF Distance, Bit
  <2>2. \A j \in Bit : j > a => j \notin x /\ j \notin y
    BY <1>1, <1>2 DEF Bit
  <2> QED BY <2>1, <2>2 DEF Less, Distance
<1>3. CASE a < b /\ b \notin d
  <2>1. b \in Distance(y, d) \ Distance(x, d)
    BY <1>1, <1>3 DEF Distance, Bit
  <2>2. \A j \in Bit : j > b => j \notin x /\ j \notin y
    BY <1>1, <1>3 DEF Bit
  <2> QED BY <2>1, <2>2 DEF Less, Distance
<1> QED BY <1>2, <1>3 DEF Before

-----------------------------------------------------------------------------
Yielded(s, i) == \E n \in 1..Len(s) : s[n] = i

\* What has been yielded, from the state of the iterator
Progress(d, st, s) ==
  /\ st.tag = "Start" => s = << >> /\ IsStart(d, st)
  /\ st.tag = "ZoomIn" =>
       /\ \A j \in d : j >= st.i => Yielded(s, j)
       /\ \A n \in 1..Len(s) : s[n] >= st.i /\ (s[n] \in d \/ (d = {} /\ s[n] = 0))
  /\ st.tag = "ZoomOut" =>
       /\ \A j \in d : Yielded(s, j)
       /\ \A j \in Bit : j <= st.i => Yielded(s, j)
       /\ \A n \in 1..Len(s) : s[n] \in d \/ s[n] <= st.i
  /\ st.tag = "Done" => \A j \in Bit : Yielded(s, j)

Ordered(d, s) ==
  \A m, n \in 1..Len(s) : m < n /\ s[m] # s[n] => Before(d, s[m], s[n])

Repeats(s) == \A m, n \in 1..Len(s) : m < n /\ s[m] = s[n] => s[n] = 0

\* The inductive invariant.
Inv ==
  /\ distance \in KeyBytes /\ state \in IterState /\ yielded \in Seq(Bit)
  /\ Progress(distance, state, yielded)
  /\ Ordered(distance, yielded) /\ Repeats(yielded)

LEMMA AppendYields ==
  ASSUME NEW s \in Seq(Bit), NEW i \in Bit
  PROVE  /\ Append(s, i) \in Seq(Bit)
         /\ \A n \in 1..Len(Append(s, i)) : Append(s, i)[n] = i \/ (n \in 1..Len(s) /\ Append(s, i)[n] = s[n])
         /\ \A j : Yielded(Append(s, i), j) <=> Yielded(s, j) \/ j = i
<1>1. /\ Append(s, i) \in Seq(Bit) /\ Len(Append(s, i)) = Len(s) + 1
      /\ \A n \in 1..Len(s) : Append(s, i)[n] = s[n]
      /\ Append(s, i)[Len(s) + 1] = i
  BY AppendProperties
<1>2. \A n \in 1..(Len(s) + 1) : n = Len(s) + 1 \/ n \in 1..Len(s)
  OBVIOUS
<1>3. \A n \in 1..Len(s) : n \in 1..(Len(s) + 1)
  OBVIOUS
<1>4. Len(s) + 1 \in 1..(Len(s) + 1)
  OBVIOUS
<1> QED BY <1>1, <1>2, <1>3, <1>4 DEF Yielded

LEMMA AppendOrdered ==
  ASSUME NEW d, NEW s \in Seq(Bit), NEW i \in Bit, Ordered(d, s),
         \A n \in 1..Len(s) : s[n] = i \/ Before(d, s[n], i)
  PROVE  Ordered(d, Append(s, i))
<1>1. /\ Append(s, i) \in Seq(Bit) /\ Len(Append(s, i)) = Len(s) + 1
      /\ \A n \in 1..Len(s) : Append(s, i)[n] = s[n]
      /\ Append(s, i)[Len(s) + 1] = i
  BY AppendProperties
<1> SUFFICES ASSUME NEW m \in 1..(Len(s) + 1), NEW n \in 1..(Len(s) + 1), m < n,
                    Append(s, i)[m] # Append(s, i)[n]
             PROVE  Before(d, Append(s, i)[m], Append(s, i)[n])
  BY <1>1 DEF Ordered
<1>2. m \in 1..Len(s)
  OBVIOUS
<1>3. CASE n = Len(s) + 1
  BY <1>1, <1>2, <1>3
<1>4. CASE n \in 1..Len(s)
  BY <1>1, <1>2, <1>4 DEF Ordered
<1> QED BY <1>3, <1>4

LEMMA AppendRepeats ==
  ASSUME NEW s \in Seq(Bit), NEW i \in Bit, Repeats(s), i = 0 \/ \A n \in 1..Len(s) : s[n] # i
  PROVE  Repeats(Append(s, i))
<1>1. /\ Append(s, i) \in Seq(Bit) /\ Len(Append(s, i)) = Len(s) + 1
      /\ \A n \in 1..Len(s) : Append(s, i)[n] = s[n]
      /\ Append(s, i)[Len(s) + 1] = i
  BY AppendProperties
<1> SUFFICES ASSUME NEW m \in 1..(Len(s) + 1), NEW n \in 1..(Len(s) + 1), m < n,
                    Append(s, i)[m] = Append(s, i)[n]
             PROVE  Append(s, i)[n] = 0
  BY <1>1 DEF Repeats
<1>2. m \in 1..Len(s)
  OBVIOUS
<1>3. CASE n = Len(s) + 1
  BY <1>1, <1>2, <1>3
<1>4. CASE n \in 1..Len(s)
  BY <1>1, <1>2, <1>4 DEF Repeats
<1> QED BY <1>3, <1>4

LEMMA InvInit == Init => Inv
<1> SUFFICES ASSUME Init PROVE Inv
  OBVIOUS
<1>1. state.tag = "Start"
  BY DEF Init, IsStart, At
<1> QED BY <1>1, EmptySeq DEF Init, Inv, Progress, Ordered, Repeats

LEMMA InvNext == Inv /\ [Next]_vars => Inv'
<1> SUFFICES ASSUME Inv, [Next]_vars PROVE Inv'
  OBVIOUS
<1> USE NumBucketsAssumption
<1>0. CASE UNCHANGED vars
  BY <1>0 DEF vars, Inv, Progress, Ordered, Repeats, Yielded
<1>1. ASSUME Next PROVE Inv'
  <2> DEFINE d == distance
             s == yielded
  <2>1. /\ d \in KeyBytes /\ d \subseteq Bit /\ distance' = d /\ s \in Seq(Bit)
        /\ Progress(d, state, s) /\ Ordered(d, s) /\ Repeats(s)
    BY <1>1 DEF Inv, KeyBytes, Next
  <2>2. PICK t \in IterState :
               /\ IterNext(d, state, t)
               /\ state' = t
               /\ yielded' = IF t = Done THEN s ELSE Append(s, t.i)
    BY <1>1 DEF Next
  <2>b. \A n \in 1..Len(s) : s[n] \in Bit
    BY <2>1
  <2> HIDE DEF d, s
  <2>s. SUFFICES /\ yielded' \in Seq(Bit) /\ Progress(d, t, yielded')
                  /\ Ordered(d, yielded') /\ Repeats(yielded')
    BY <2>1, <2>2 DEF Inv
  <2>3. CASE state.tag = "Start" /\ t = At("ZoomIn", state.i)
    <3>1. s = << >> /\ IsStart(d, state)
      BY <2>1, <2>3 DEF Progress
    <3>2. t.tag = "ZoomIn" /\ t.i = state.i /\ t # Done /\ t.i \in Bit
      BY <2>3, <3>1 DEF At, Done, IsStart
    <3>3. IF d = {} THEN t.i = 0 ELSE IsBucketIndex(d, t.i)
      BY <3>1, <3>2 DEF IsStart, At
    <3>4. yielded' = Append(s, t.i)
      BY <2>2, <3>2
    <3>5. Ordered(d, Append(s, t.i))
      <4>1. 1..Len(s) = {}
        BY <3>1
      <4> QED BY <2>1, <3>2, <4>1, AppendOrdered
    <3>6. \A j \in d : j >= t.i => j = t.i
      BY <2>1, <3>2, <3>3 DEF IsBucketIndex, Bit
    <3>7. \A n \in 1..Len(Append(s, t.i)) : Append(s, t.i)[n] = t.i
      BY <2>1, <3>1, <3>2, AppendYields
    <3>8. t.i >= t.i /\ (t.i \in d \/ (d = {} /\ t.i = 0))
      BY <3>2, <3>3 DEF IsBucketIndex, Bit
    <3>9. Progress(d, t, Append(s, t.i))
      BY <2>1, <3>2, <3>6, <3>7, <3>8, AppendYields DEF Progress
    <3>10. Repeats(Append(s, t.i))
      <4>1. \A n \in 1..Len(s) : s[n] # t.i
        BY <3>1
      <4> QED BY <2>1, <3>2, <4>1, AppendRepeats
    <3> QED BY <2>1, <3>2, <3>4, <3>5, <3>9, <3>10, AppendYields
  <2>4. ASSUME state.tag = "ZoomIn", NEW j \in Bit, IsNextIn(d, state.i, j), t = At("ZoomIn", j)
        PROVE  /\ yielded' \in Seq(Bit) /\ Progress(d, t, yielded')
               /\ Ordered(d, yielded') /\ Repeats(yielded')
    <3>1. t.tag = "ZoomIn" /\ t.i = j /\ t # Done /\ yielded' = Append(s, j)
      BY <2>2, <2>4 DEF At, Done
    <3>2. /\ \A l \in d : l >= state.i => Yielded(s, l)
          /\ \A n \in 1..Len(s) : s[n] >= state.i /\ (s[n] \in d \/ (d = {} /\ s[n] = 0))
      BY <2>1, <2>4 DEF Progress
    <3>3. /\ j \in d /\ j < state.i /\ (\A l \in d : ~(j < l /\ l < state.i))
      BY <2>4 DEF IsNextIn
    <3>i. state.i \in Bit
      BY <2>4 DEF Inv, IterState, At, Done
    <3>4. \A n \in 1..Len(s) : Before(d, s[n], j) /\ s[n] >= j /\ s[n] \in d
      BY <2>b, <3>2, <3>3, <3>i DEF Before, Bit
    <3>5. Ordered(d, Append(s, j))
      BY <2>1, <3>4, AppendOrdered
    <3>6. \A l \in d : l >= j => l = j \/ l >= state.i
      BY <2>1, <3>3, <3>i DEF Bit
    <3>7. \A l \in d : l >= j => Yielded(Append(s, j), l)
      BY <2>1, <3>2, <3>6, AppendYields
    <3>8. \A n \in 1..Len(Append(s, j)) : Append(s, j)[n] >= j /\ Append(s, j)[n] \in d
      <4>1. j >= j
        BY DEF Bit
      <4> QED BY <4>1, <2>1, <3>3, <3>4, AppendYields
    <3>9. Progress(d, t, Append(s, j))
      BY <3>1, <3>7, <3>8 DEF Progress
    <3>10. Repeats(Append(s, j))
      <4>1. \A n \in 1..Len(s) : s[n] # j
        BY <2>b, <3>2, <3>3, <3>i DEF Bit
      <4> QED BY <2>1, <4>1, AppendRepeats
    <3> QED BY <2>1, <3>1, <3>5, <3>9, <3>10, AppendYields
  <2>5. CASE state.tag = "ZoomIn" /\ (~\E j \in d : j < state.i) /\ t = At("ZoomOut", 0)
    <3>1. t.tag = "ZoomOut" /\ t.i = 0 /\ t # Done /\ yielded' = Append(s, 0) /\ 0 \in Bit
      BY <2>2, <2>5 DEF At, Done, Bit
    <3>2. /\ \A l \in d : l >= state.i => Yielded(s, l)
          /\ \A n \in 1..Len(s) : s[n] >= state.i /\ (s[n] \in d \/ (d = {} /\ s[n] = 0))
      BY <2>1, <2>5 DEF Progress
    <3>i. state.i \in Bit
      BY <2>5 DEF Inv, IterState, At, Done
    <3>3. \A l \in d : Yielded(s, l)
      BY <2>1, <2>5, <3>2, <3>i DEF Bit
    <3>4. \A n \in 1..Len(s) : s[n] = 0 \/ Before(d, s[n], 0)
      BY <2>b, <3>2 DEF Before, Bit
    <3>5. Ordered(d, Append(s, 0))
      BY <2>1, <3>1, <3>4, AppendOrdered
    <3>6. \A j \in Bit : j <= 0 => j = 0
      BY DEF Bit
    <3>7. \A n \in 1..Len(Append(s, 0)) : Append(s, 0)[n] \in d \/ Append(s, 0)[n] <= 0
      BY <2>1, <3>1, <3>2, AppendYields
    <3>8. Progress(d, t, Append(s, 0))
      BY <2>1, <3>1, <3>3, <3>6, <3>7, AppendYields DEF Progress
    <3>9. Repeats(Append(s, 0))
      BY <2>1, <3>1, AppendRepeats
    <3> QED BY <2>1, <3>1, <3>5, <3>8, <3>9, AppendYields
  <2>6. ASSUME state.tag = "ZoomOut", NEW j \in Bit, IsNextOut(d, state.i, j), t = At("ZoomOut", j)
        PROVE  /\ yielded' \in Seq(Bit) /\ Progress(d, t, yielded')
               /\ Ordered(d, yielded') /\ Repeats(yielded')
    <3>1. t.tag = "ZoomOut" /\ t.i = j /\ t # Done /\ yielded' = Append(s, j)
      BY <2>2, <2>6 DEF At, Done
    <3>2. /\ \A l \in d : Yielded(s, l)
          /\ \A l \in Bit : l <= state.i => Yielded(s, l)
          /\ \A n \in 1..Len(s) : s[n] \in d \/ s[n] <= state.i
      BY <2>1, <2>6 DEF Progress
    <3>i. state.i \in Bit
      BY <2>6 DEF Inv, IterState, At, Done
    <3>3. j \notin d /\ state.i < j /\ \A l \in Bit \ d : ~(state.i < l /\ l < j)
      BY <2>6 DEF IsNextOut
    <3>4. \A n \in 1..Len(s) : Before(d, s[n], j)
      BY <2>b, <3>2, <3>3, <3>i DEF Before, Bit
    <3>5. Ordered(d, Append(s, j))
      BY <2>1, <3>4, AppendOrdered
    <3>6. \A l \in Bit : l <= j => l = j \/ l \in d \/ l <= state.i
      BY <3>3, <3>i DEF Bit
    <3>7. \A l \in Bit : l <= j => Yielded(Append(s, j), l)
      BY <2>1, <3>2, <3>6, AppendYields
    <3>8. \A n \in 1..Len(Append(s, j)) : Append(s, j)[n] \in d \/ Append(s, j)[n] <= j
      <4>1. j <= j
        BY DEF Bit
      <4>2. \A n \in 1..Len(s) : s[n] \in d \/ s[n] <= j
        BY <2>b, <3>2, <3>3, <3>i DEF Bit
      <4> QED BY <4>1, <4>2, <2>1, AppendYields
    <3>9. Progress(d, t, Append(s, j))
      BY <2>1, <3>1, <3>2, <3>7, <3>8, AppendYields DEF Progress
    <3>10. Repeats(Append(s, j))
      <4>1. \A n \in 1..Len(s) : s[n] # j
        BY <2>b, <3>2, <3>3, <3>i DEF Bit
      <4> QED BY <2>1, <4>1, AppendRepeats
    <3> QED BY <2>1, <3>1, <3>5, <3>9, <3>10, AppendYields
  <2>7. CASE state.tag = "ZoomOut" /\ (~\E j \in Bit \ d : state.i < j) /\ t = Done
    <3>1. t.tag = "Done" /\ yielded' = s
      BY <2>2, <2>7 DEF At, Done
    <3>2. /\ \A l \in d : Yielded(s, l)
          /\ \A l \in Bit : l <= state.i => Yielded(s, l)
      BY <2>1, <2>7 DEF Progress
    <3>i. state.i \in Bit
      BY <2>7 DEF Inv, IterState, At, Done
    <3>3. \A l \in Bit : l \in d \/ l <= state.i
      BY <2>7, <3>i DEF Bit
    <3> QED BY <2>1, <3>1, <3>2, <3>3 DEF Progress
  <2> QED BY <2>2, <2>3, <2>4, <2>5, <2>6, <2>7 DEF IterNext
<1> QED BY <1>0, <1>1

-----------------------------------------------------------------------------
\* kbucket/mod.rs:349-352: the buckets come in the order of their keys' distance
\* from the target.
THEOREM IncrementallyFurtherAlways == Spec => []IncrementallyFurther
<1>1. ASSUME Inv PROVE IncrementallyFurther
  <2> SUFFICES ASSUME NEW m \in 1..Len(yielded), NEW n \in 1..Len(yielded), m < n,
                      yielded[m] # yielded[n],
                      NEW x \in InBucket(yielded[m]), NEW y \in InBucket(yielded[n])
               PROVE  Less(Distance(x, distance), Distance(y, distance))
    BY DEF IncrementallyFurther
  <2>1. distance \in KeyBytes /\ yielded[m] \in Bit /\ yielded[n] \in Bit
    BY <1>1 DEF Inv
  <2>2. Before(distance, yielded[m], yielded[n])
    BY <1>1 DEF Inv, Ordered
  <2> QED BY <2>1, <2>2, BeforeIsNearer
<1> QED BY <1>1, InvInit, InvNext, PTL DEF Spec

\* kbucket/mod.rs:377-378: once the iterator is done, it has visited all buckets.
THEOREM VisitsAllAlways == Spec => []VisitsAll
<1>1. Inv => VisitsAll
  BY DEF Inv, Progress, VisitsAll, Yielded, Done, At
<1> QED BY <1>1, InvInit, InvNext, PTL DEF Spec

\* kbucket/mod.rs:390-441: the iterator returns to no bucket but bucket 0.
THEOREM RepeatsOnlyFirstAlways == Spec => []RepeatsOnlyFirst
<1>1. Inv => RepeatsOnlyFirst
  BY DEF Inv, Repeats, RepeatsOnlyFirst
<1> QED BY <1>1, InvInit, InvNext, PTL DEF Spec
=============================================================================
