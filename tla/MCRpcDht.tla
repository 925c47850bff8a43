------------------------------ MODULE MCRpcDht ------------------------------
(* A node that knows of more peers than its bucket has slots, and runs more   *)
(* than one query at a time.                                                  *)
EXTENDS RpcDht
=============================================================================
