------------------------------ MODULE RpcEvents ------------------------------
(***************************************************************************)
(* What RpcDht (rpc/mod.rs) promises to the one who polls it: the events   *)
(* its stream yields.  A query that is started has responses and then one  *)
(* end, nothing after it.  The end of a query is its QueryResult, or, for  *)
(* the first find_node query that ends, Bootstrapped.                      *)
(***************************************************************************)
CONSTANTS QueryId,   \* ids of queries; one is used again once its query ended
          None

VARIABLES live,      \* the commands of the queries that have not ended
          booted,    \* Bootstrapped has been yielded
          event      \* what the last step yielded, or None

vars == <<live, booted, event>>

Cmd == {"FindNode", "Custom"}
Plain == {"RoutingUpdated", "Request", "RequestErr", "PingResult", "Bootstrapped"}
OfQuery == {"Response", "QueryResult"}
Event == [kind : Plain, query : {None}] \cup [kind : OfQuery, query : QueryId]

Yield(kind, q) == event' = [kind |-> kind, query |-> q]
-----------------------------------------------------------------------------
Init ==
  /\ \E F \in SUBSET QueryId :
       /\ \A q, r \in F : q = r
       /\ live = [q \in QueryId |-> IF q \in F THEN "FindNode" ELSE None]
  /\ booted = FALSE /\ event = None

Start(q, cmd) ==
  /\ live[q] = None /\ live' = [live EXCEPT ![q] = cmd]
  /\ event' = None
  /\ UNCHANGED booted

End(q) == live' = [live EXCEPT ![q] = None]

Other(kind) == kind # "Bootstrapped" /\ Yield(kind, None) /\ UNCHANGED <<live, booted>>

Response(q) == live[q] # None /\ Yield("Response", q) /\ UNCHANGED <<live, booted>>

QueryResult(q) ==
  /\ live[q] = "Custom" \/ (live[q] = "FindNode" /\ booted)
  /\ End(q)
  /\ Yield("QueryResult", q)
  /\ UNCHANGED booted

Bootstrapped ==
  /\ ~booted /\ booted' = TRUE
  /\ UNCHANGED live \/ \E q \in QueryId : live[q] = "FindNode" /\ End(q)
  /\ Yield("Bootstrapped", None)

Silent == event' = None /\ UNCHANGED <<live, booted>>

Next ==
  \/ \E q \in QueryId, cmd \in Cmd : Start(q, cmd)
  \/ \E q \in QueryId : Response(q) \/ QueryResult(q)
  \/ \E kind \in Plain : Other(kind)
  \/ Bootstrapped \/ Silent

Spec == Init /\ [][Next]_vars
=============================================================================
