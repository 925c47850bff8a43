--------------------------- MODULE ClosestBuckets ---------------------------
(***************************************************************************)
(* ClosestBucketsIter (kbucket/mod.rs): the order in which the buckets are *)
(* visited on the way from a target to the keys farthest away from it.     *)
(***************************************************************************)
EXTENDS Keyspace, Sequences

\* ClosestBucketsIterState
At(tag, i) == [tag |-> tag, i |-> i]
Done == At("Done", 0)

IterState == {At(tag, i) : tag \in {"Start", "ZoomIn", "ZoomOut"}, i \in Bit} \cup {Done}

\* ClosestBucketsIter::new
IsStart(d, st) ==
  \E i \in Bit : /\ st = At("Start", i)
                 /\ IF d = {} THEN i = 0 ELSE IsBucketIndex(d, i)

\* Mutant: the zoom-in follows the bits that are 0.
IsNextInZero(d, i, j) == j \in Bit \ d /\ j < i /\ ~\E l \in Bit \ d : j < l /\ l < i

\* j is the index next_in(i) finds: the next lower bit that is 1.
IsNextIn(d, i, j) == j \in d /\ j < i /\ ~\E l \in d : j < l /\ l < i

\* Mutants: next_out starts its search one index too far, or at the current index.
IsNextOutSkips(d, i, j) ==
  j \in Bit \ d /\ i + 1 < j /\ ~\E l \in Bit \ d : i + 1 < l /\ l < j

IsNextOutStays(d, i, j) == j \in Bit \ d /\ i <= j /\ ~\E l \in Bit \ d : i <= l /\ l < j

\* j is the index next_out(i) finds: the next higher bit that is 0.
IsNextOut(d, i, j) == j \in Bit \ d /\ i < j /\ ~\E l \in Bit \ d : i < l /\ l < j

\* Mutant: the iterator ends where it should turn to zoom out.
IterNextNoZoomOut(d, st, t) ==
  \/ st.tag = "Start" /\ t = At("ZoomIn", st.i)
  \/ /\ st.tag = "ZoomIn"
     /\ \/ \E j \in Bit : IsNextIn(d, st.i, j) /\ t = At("ZoomIn", j)
        \/ (~\E j \in d : j < st.i) /\ t = Done

\* ClosestBucketsIter::next takes the iterator from st to t; unless t is Done
\* it returns the bucket t.i.
IterNext(d, st, t) ==
  \/ st.tag = "Start" /\ t = At("ZoomIn", st.i)
  \/ /\ st.tag = "ZoomIn"
     /\ \/ \E j \in Bit : IsNextIn(d, st.i, j) /\ t = At("ZoomIn", j)
        \/ (~\E j \in d : j < st.i) /\ t = At("ZoomOut", 0)
  \/ /\ st.tag = "ZoomOut"
     /\ \/ \E j \in Bit : IsNextOut(d, st.i, j) /\ t = At("ZoomOut", j)
        \/ (~\E j \in Bit \ d : st.i < j) /\ t = Done
-----------------------------------------------------------------------------
VARIABLES distance,   \* of the target from the local key
          state,      \* the state of the iterator
          yielded     \* history: the bucket indices returned so far

vars == <<distance, state, yielded>>

Init ==
  /\ distance \in KeyBytes
  /\ state \in IterState /\ IsStart(distance, state)
  /\ yielded = << >>

Next ==
  /\ state # Done
  /\ \E t \in IterState :
        /\ IterNext(distance, state, t)
        /\ state' = t
        /\ yielded' = IF t = Done THEN yielded ELSE Append(yielded, t.i)
  /\ UNCHANGED distance

Spec == Init /\ [][Next]_vars
-----------------------------------------------------------------------------
\* The keys of bucket i, given by their distance from the local key
InBucket(i) == {x \in KeyBytes : IsBucketIndex(x, i)}

\* kbucket/mod.rs:349-352: every key of a bucket that is visited earlier is
\* nearer to the target than every key of a bucket that is visited later (the
\* XOR of a key's and the target's distance from the local key is the distance
\* between the two).
IncrementallyFurther ==
  \A m, n \in 1..Len(yielded) :
    m < n /\ yielded[m] # yielded[n] =>
      \A x \in InBucket(yielded[m]), y \in InBucket(yielded[n]) :
         Less(Distance(x, distance), Distance(y, distance))

\* kbucket/mod.rs:377-378: a finished iterator has visited all buckets.
VisitsAll == state = Done => \A i \in Bit : \E n \in 1..Len(yielded) : yielded[n] = i

\* kbucket/mod.rs:390-441: on its way in and out again the iterator returns to no
\* bucket but bucket 0, where it turns.
RepeatsOnlyFirst ==
  \A m, n \in 1..Len(yielded) : m < n /\ yielded[m] = yielded[n] => yielded[n] = 0
=============================================================================
