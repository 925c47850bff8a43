--------------------------- MODULE MCQueryStream ---------------------------
(* A query among a few other nodes: p1 is known at two addresses, one of     *)
(* which it shares with p2.  One bootstrap node is configured twice, and the *)
(* local node is named among the others.                                     *)
EXTENDS QueryStream

CONSTANTS l, p1, p2, a1, a2, a3

MCPeer == {[id |-> l, addr |-> a3], [id |-> p1, addr |-> a1], [id |-> p1, addr |-> a2],
           [id |-> p2, addr |-> a2]}
MCBootstrapNodes == [a \in Addr |-> CASE a = a1 -> 2 [] a = a2 -> 1 [] OTHER -> 0]
MCRank == [i \in Id |-> CASE i = l -> 3 [] i = p1 -> 2 [] i = p2 -> 1]
=============================================================================
