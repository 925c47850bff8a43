---------------------------- MODULE KBucketsTable ----------------------------
(***************************************************************************)
(* The routing table (kbucket/mod.rs): one bucket for each bit of the key  *)
(* space, and the iterator closest_keys/closest returns, which borrows the *)
(* table: between its steps only time passes.                              *)
(***************************************************************************)
EXTENDS BucketOps, Keyspace, FiniteSets

CONSTANTS local_key,    \* the key of the local peer
          MaxApplied    \* bound: AppliedPending results kept in the model

ASSUME TableAssumption ==
  /\ local_key \in KeyBytes
  /\ Key \subseteq KeyBytes \ {local_key}
  /\ MaxApplied \in Nat

VARIABLES buckets,           \* [Bit -> bucket]
          applied_pending,   \* number of AppliedPending results not yet taken
          target,            \* of the iterator that borrows the table, or None
          state,             \* of its ClosestBucketsIter
          closest            \* the keys it has yielded

vars == <<buckets, applied_pending, target, state, closest>>

Order == INSTANCE ClosestBuckets WITH distance <- target, yielded <- << >>

DistanceFrom(k) == Distance(local_key, k)

\* Mutant: the index of the least significant bit
IndexTrailing(k) ==
  CHOOSE i \in Bit : i \in DistanceFrom(k) /\ \A j \in DistanceFrom(k) : i <= j

Index(k) == CHOOSE i \in Bit : IsBucketIndex(DistanceFrom(k), i)

Table == UNION {Keys(buckets[i]) : i \in Bit}
-----------------------------------------------------------------------------
Init ==
  /\ buckets = [i \in Bit |-> New]
  /\ applied_pending = 0
  /\ target = None /\ state = Order!Done /\ closest = << >>

\* Applying the pending nodes of the buckets in I, and recording it
Push(I) ==
  LET n == Cardinality({i \in I : Applied(buckets[i]) # None})
  IN  /\ applied_pending + n <= MaxApplied
      /\ applied_pending' = applied_pending + n

\* entry(k), then an operation on the Entry it returns
EntryThen(k, b) ==
  /\ target = None
  /\ Push({Index(k)})
  /\ buckets' = [buckets EXCEPT ![Index(k)] = b]
  /\ UNCHANGED <<target, state, closest>>

EntryInsert(k, s) ==
  LET b == ApplyPending(buckets[Index(k)])
  IN  k \notin Keys(b) /\ ~IsPending(b, k) /\ EntryThen(k, Insert(b, k, s))

EntryUpdate(k, s) ==
  LET b == ApplyPending(buckets[Index(k)])
  IN  \/ k \in Keys(b) /\ EntryThen(k, Update(b, k, s))
      \/ k \notin Keys(b) /\ IsPending(b, k) /\ EntryThen(k, UpdatePending(b, s))

EntryRemove(k) ==
  LET b == ApplyPending(buckets[Index(k)])
  IN  \/ k \in Keys(b) /\ EntryThen(k, RemoveNode(b, k))
      \/ k \notin Keys(b) /\ IsPending(b, k) /\ EntryThen(k, RemovePending(b))

\* iter and buckets, driven to their end
Iter ==
  /\ target = None
  /\ Push(Bit)
  /\ buckets' = [i \in Bit |-> ApplyPending(buckets[i])]
  /\ UNCHANGED <<target, state, closest>>

TakeAppliedPending ==
  /\ target = None
  /\ applied_pending > 0 /\ applied_pending' = applied_pending - 1
  /\ UNCHANGED <<buckets, target, state, closest>>

\* closest_keys(t) and closest(t) build a ClosestIter.
Closest(t) ==
  /\ target = None
  /\ target' = t
  /\ \E st \in Order!IterState : Order!IsStart(DistanceFrom(t), st) /\ state' = st
  /\ closest' = << >>
  /\ UNCHANGED <<buckets, applied_pending>>

\* Mutant: the nodes of a bucket are not sorted.
BucketKeysUnsorted(b) == ApplyPending(b).nodes

\* fmap and sort_by: the keys of a bucket, sorted by their distance to the target
BucketKeys(b) ==
  LET S == Keys(ApplyPending(b))
  IN  CHOOSE s \in Injection(1..Cardinality(S), S) :
        \A m, n \in DOMAIN s : m < n => Less(Distance(target, s[m]), Distance(target, s[n]))

\* ClosestIter::next moves on to the next bucket, all of whose keys it yields
\* one by one before it moves on again.
ClosestNext ==
  /\ target # None /\ state # Order!Done
  /\ \E st \in Order!IterState :
        /\ Order!IterNext(DistanceFrom(target), state, st)
        /\ state' = st
        /\ IF st = Order!Done
           THEN UNCHANGED <<buckets, applied_pending, closest>>
           ELSE /\ Push({st.i})
                /\ buckets' = [buckets EXCEPT ![st.i] = ApplyPending(@)]
                /\ closest' = closest \o BucketKeys(buckets[st.i])
  /\ UNCHANGED target

\* The caller drops the iterator, at its end or before.
ClosestDrop ==
  /\ target # None
  /\ target' = None /\ state' = Order!Done /\ closest' = << >>
  /\ UNCHANGED <<buckets, applied_pending>>

Elapse(b) ==
  IF b.pending # None /\ b.pending.replace > 0 THEN [b EXCEPT !.pending.replace = @ - 1] ELSE b

Tick ==
  /\ \E i \in Bit : Elapse(buckets[i]) # buckets[i]
  /\ buckets' = [i \in Bit |-> Elapse(buckets[i])]
  /\ UNCHANGED <<applied_pending, target, state, closest>>

Next ==
  \/ \E k \in Key, s \in Status : EntryInsert(k, s) \/ EntryUpdate(k, s)
  \/ \E k \in Key : EntryRemove(k)
  \/ Iter \/ TakeAppliedPending
  \/ \E t \in KeyBytes : Closest(t)
  \/ ClosestNext \/ ClosestDrop
  \/ Tick

Spec == Init /\ [][Next]_vars
-----------------------------------------------------------------------------
\* Types, and: a key, pending or not, is in the bucket its distance from the
\* local key belongs to (kbucket/mod.rs:193-196).
TypeOK ==
  /\ \A i \in Bit :
       /\ \A k \in Keys(buckets[i]) : k \in Key /\ IsBucketIndex(DistanceFrom(k), i)
       /\ \A k \in Key : IsPending(buckets[i], k) => IsBucketIndex(DistanceFrom(k), i)
       /\ buckets[i].first_connected_pos \in Nat \cup {None}
  /\ applied_pending \in 0..MaxApplied
  /\ target \in KeyBytes \cup {None}
  /\ state \in Order!IterState
  /\ closest \in Seq(Key)

\* kbucket/mod.rs:259-260, 277-278, 454-481: whenever the caller of closest or
\* closest_keys stops, what it got are the keys of the table that are nearest to
\* the target: no key was followed by one that is nearer, and every other key is
\* farther away than each of them.
NearestFirst ==
  target # None =>
    /\ \A m, n \in 1..Len(closest) :
         m < n => ~Less(Distance(target, closest[n]), Distance(target, closest[m]))
    /\ \A k \in Table \ Range(closest), n \in 1..Len(closest) :
         Less(Distance(target, closest[n]), Distance(target, k))

\* kbucket/mod.rs:454-481: an iterator driven to its end has yielded the keys of
\* the table, although pending nodes take slots while it is under way.
ClosestComplete == target # None /\ state = Order!Done => Range(closest) = Table

\* kbucket/mod.rs:259-260: "an iterator over the keys closest to `target`,
\* ordered by increasing distance".
IncreasingDistance ==
  \A m, n \in 1..Len(closest) :
    m < n => Less(Distance(target, closest[m]), Distance(target, closest[n]))
=============================================================================
