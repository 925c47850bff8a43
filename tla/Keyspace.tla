------------------------------ MODULE Keyspace ------------------------------
(***************************************************************************)
(* The key space (kbucket/key.rs).  A key, a hash digest in the code, is   *)
(* the set of its bits that are 1; bit NUM_BUCKETS - 1 is the most         *)
(* significant one.                                                        *)
(***************************************************************************)
EXTENDS Naturals

CONSTANT NUM_BUCKETS      \* 256 in the code: one bucket for each bit

ASSUME NumBucketsAssumption == NUM_BUCKETS \in Nat \ {0}

Bit == 0..(NUM_BUCKETS - 1)

KeyBytes == SUBSET Bit

\* Key::distance, the XOR metric
Distance(a, b) == (a \ b) \cup (b \ a)

\* The order of distances as integers: the most significant bit that differs decides.
Less(x, y) == \E i \in y \ x : \A j \in Bit : j > i => (j \in x <=> j \in y)

\* BucketIndex::new: the most significant bit of a distance from the local key.
\* No index satisfies this for distance {}, the local key itself.
IsBucketIndex(d, i) == i \in d /\ \A j \in d : j <= i
=============================================================================
