----------------------------- MODULE MCIoHandler -----------------------------
(* IoHandler with two requests, their responses and requests of the peers. *)
EXTENDS IoHandler, TLC

Symmetry == Permutations(Addr)
=============================================================================
