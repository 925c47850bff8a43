------------------------------ MODULE MCKBucket ------------------------------
(* KBucket with a few keys competing for fewer slots. *)
EXTENDS KBucketRefinement, TLC

Symmetry == Permutations(Key)
=============================================================================
