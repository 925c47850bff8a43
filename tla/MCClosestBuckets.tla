-------------------------- MODULE MCClosestBuckets --------------------------
(* ClosestBuckets for every distance of a key space of a few bits. *)
EXTENDS ClosestBuckets
=============================================================================
