-------------------------- MODULE KBucketRefinement --------------------------
(* The array of nodes with its index implements the two queues of LruBucket.  *)
EXTENDS KBucket

NumDisconnected(b) ==
  IF b.first_connected_pos = None THEN Len(b.nodes) ELSE b.first_connected_pos

\* The two queues and the candidate that a bucket stands for
Abstraction(b) ==
  [disc |-> SubSeq(b.nodes, 1, NumDisconnected(b)),
   conn |-> SubSeq(b.nodes, NumDisconnected(b) + 1, Len(b.nodes)),
   cand |-> b.pending]

AbstractBucket == Abstraction(bucket)

Lru == INSTANCE LruBucket WITH lru <- AbstractBucket, Capacity <- K_VALUE,
                               Patience <- PendingTimeout

\* bucket.rs:101-102: the nodes are ordered from least-recently to most-recently
\* connected, disconnected ones first; every operation of the bucket is one of
\* the queue operations of LruBucket.
ImplementsLru == Lru!Spec
=============================================================================
