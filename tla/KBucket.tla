------------------------------- MODULE KBucket -------------------------------
(***************************************************************************)
(* One bucket of the routing table, driven through the Entry API           *)
(* (kbucket/entry.rs) that KBucketsTable hands out: every access first     *)
(* applies a pending node whose timeout has elapsed.                       *)
(***************************************************************************)
EXTENDS BucketOps

VARIABLES bucket,    \* [nodes, first_connected_pos, pending]
          applied,   \* what apply_pending returned in the last step
          reported   \* history: the last status reported for each key

vars == <<bucket, applied, reported>>
-----------------------------------------------------------------------------
Init ==
  /\ bucket = New
  /\ applied = None
  /\ reported \in [Key -> Status]

\* KBucketsTable::entry applies the pending node, then looks the key up in what
\* is left (Entry::new): it is present, pending or absent.

\* AbsentEntry::insert
AbsentInsert(k, s) ==
  LET b == ApplyPending(bucket)
  IN  /\ k \notin Keys(b) /\ ~IsPending(b, k)
      /\ applied' = Applied(bucket)
      /\ bucket' = Insert(b, k, s)
      /\ reported' = [reported EXCEPT ![k] = s]

\* PresentEntry::update and PresentEntry::remove
PresentUpdate(k, s) ==
  LET b == ApplyPending(bucket)
  IN  /\ k \in Keys(b)
      /\ applied' = Applied(bucket)
      /\ bucket' = Update(b, k, s)
      /\ reported' = [reported EXCEPT ![k] = s]

PresentRemove(k) ==
  LET b == ApplyPending(bucket)
  IN  /\ k \in Keys(b)
      /\ applied' = Applied(bucket)
      /\ bucket' = RemoveNode(b, k)
      /\ UNCHANGED reported

\* PendingEntry::update and PendingEntry::remove
PendingUpdate(k, s) ==
  LET b == ApplyPending(bucket)
  IN  /\ k \notin Keys(b) /\ IsPending(b, k)
      /\ applied' = Applied(bucket)
      /\ bucket' = UpdatePending(b, s)
      /\ reported' = [reported EXCEPT ![k] = s]

PendingRemove(k) ==
  LET b == ApplyPending(bucket)
  IN  /\ k \notin Keys(b) /\ IsPending(b, k)
      /\ applied' = Applied(bucket)
      /\ bucket' = RemovePending(b)
      /\ UNCHANGED reported

\* KBucketsTable::iter, buckets, closest and closest_keys
Visit ==
  /\ bucket' = ApplyPending(bucket)
  /\ applied' = Applied(bucket)
  /\ UNCHANGED reported

\* Time passes.
Tick ==
  /\ bucket.pending # None
  /\ bucket.pending.replace > 0
  /\ bucket' = [bucket EXCEPT !.pending.replace = @ - 1]
  /\ applied' = None
  /\ UNCHANGED reported

Next ==
  \/ \E k \in Key, s \in Status :
        AbsentInsert(k, s) \/ PresentUpdate(k, s) \/ PendingUpdate(k, s)
  \/ \E k \in Key : PresentRemove(k) \/ PendingRemove(k)
  \/ Visit
  \/ Tick

Spec == Init /\ [][Next]_vars

\* Time passes, and RpcDht::poll_next walks over the whole table each time the
\* bootstrap interval has passed (rpc/mod.rs:828-829).
FairSpec == Spec /\ WF_vars(Tick) /\ WF_vars(Visit)
-----------------------------------------------------------------------------
\* Types of the fields of KBucket (bucket.rs:104-131); subtracting from
\* first_connected_pos never takes it below 0.
TypeOK ==
  /\ bucket \in [nodes : Seq(Key),
                 first_connected_pos : Nat \cup {None},
                 pending : PendingNode \cup {None}]
  /\ applied \in AppliedPending \cup {None}
  /\ reported \in [Key -> Status]

\* The bucket never holds more than K_VALUE nodes (ArrayVec::push and
\* ArrayVec::insert panic on a full array), and first_connected_pos, when set,
\* is the position of a node, so that `None' is the only way to say that no
\* entry is connected.
WellFormed ==
  /\ Len(bucket.nodes) <= K_VALUE
  /\ bucket.first_connected_pos # None => bucket.first_connected_pos < Len(bucket.nodes)

\* bucket.rs:23-26: a key is in the bucket at most once, the pending node
\* included, although insert itself never looks for the key.
UniqueEntries ==
  /\ \A i, j \in 1..Len(bucket.nodes) : bucket.nodes[i] = bucket.nodes[j] => i = j
  /\ bucket.pending # None => bucket.pending.key \notin Keys(bucket)

\* The status the bucket derives from a node's position is the status last
\* reported for that node, whatever was inserted, moved, evicted or removed
\* around it since.
StatusFaithful ==
  /\ \A i \in 1..Len(bucket.nodes) : StatusAt(bucket, i - 1) = reported[bucket.nodes[i]]
  /\ bucket.pending # None => bucket.pending.status = reported[bucket.pending.key]

\* A node leaves the bucket without having been removed only when a pending
\* node takes its slot; the victim is then the eldest node of a full bucket and
\* was last reported disconnected.
EvictsDisconnected ==
  [][\A k \in Keys(bucket) \ Keys(bucket') :
        \/ PresentRemove(k)
        \/ /\ applied' # None /\ applied'.evicted = k
           /\ reported[k] = "Disconnected"
           /\ IsFull(bucket) /\ k = bucket.nodes[1]]_vars

\* A pending node is decided upon: it does not stay pending for ever.
PendingResolves ==
  \A k \in Key : IsPending(bucket, k) ~> ~IsPending(bucket, k)
=============================================================================
