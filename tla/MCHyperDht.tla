----------------------------- MODULE MCHyperDht -----------------------------
(* A node with two operations at a time, and a store that is smaller than the *)
(* number of keys.                                                            *)
EXTENDS HyperDht
=============================================================================
