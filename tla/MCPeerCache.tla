----------------------------- MODULE MCPeerCache -----------------------------
(* PeerCache with a few keys and addresses. *)
EXTENDS PeerCache, TLC

Symmetry == Permutations(Key) \cup Permutations(Address)
=============================================================================
