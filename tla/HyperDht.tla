------------------------------ MODULE HyperDht ------------------------------
(***************************************************************************)
(* The DHT node (lib.rs) over the RPC node, of which it only sees the      *)
(* events RpcEvents promises: the operations of the user, the queries in   *)
(* progress and their results, and the store.                              *)
(*                                                                         *)
(* One step handles one event of the RPC node.  Replies to requests are    *)
(* left out; the peer cache that on_peers works on is in PeerCache.        *)
(***************************************************************************)
EXTENDS Store, Sequences, Functions

CONSTANTS QueryId,
          LocalAddr,    \* whether an operation on a topic has a local address
          LanBytes,     \* lengths of the encoded LAN peers of a response
          MaxEvents     \* bound: events queued for the user

VARIABLES pool,           \* of RpcDht: the commands of its queries
          booted,         \* of RpcDht
          inner,          \* the event of RpcDht that the last step handled, or None
          queries,        \* the queries in progress
          store,
          queued_events,
          task,           \* Polling: poll_next has not returned
          event           \* the event the last step returned to the user, or None

vars == <<pool, booted, inner, queries, store, queued_events, task, event>>

Rpc == INSTANCE RpcEvents WITH live <- pool, event <- inner

\* QueryStreamType: Topic is LookUp, Announce and UnAnnounce, Put is PutImmutable and
\* PutMutable.  Of the responses about a topic it is kept whether some had LAN peers and
\* whether LAN peers were made of them.
QueryStreamType ==
  [ty : {"Topic"}, local_address : BOOLEAN, lan_heard : BOOLEAN, lan : BOOLEAN]
    \cup [ty : {"Put"}]
    \cup [ty : {"GetImmutable"}, key : Value]
    \cup [ty : {"GetMutable"}, seq : 0..MaxSeq]

ASSUME HyperAssumption ==
  /\ LocalAddr \subseteq BOOLEAN
  /\ LanBytes \subseteq Nat
  /\ MaxEvents \in Nat
  /\ None \notin QueryId /\ None \notin QueryStreamType
  /\ None # "Custom" /\ None # "FindNode"

Init ==
  /\ Rpc!Init
  /\ queries = [q \in QueryId |-> None]
  /\ store = [k \in StorageKey |-> None]
  /\ queued_events = << >> /\ task = "Idle" /\ event = None
-----------------------------------------------------------------------------
\* An operation of the user starts a query under an id that is not in use.
Start(q, query) ==
  /\ task = "Idle"
  /\ \A n \in 1..Len(queued_events) : queued_events[n].query # q
  /\ Rpc!Start(q, "Custom")
  /\ queries' = [queries EXCEPT ![q] = query]
  /\ event' = None
  /\ UNCHANGED <<queued_events, task>>

\* A value that is stored is returned at once.
GetImmutable(q, v) ==
  /\ store[ImmKey(v)] = None
  /\ Start(q, [ty |-> "GetImmutable", key |-> v])
  /\ UNCHANGED store

GetMutable(q, seq) == Start(q, [ty |-> "GetMutable", seq |-> seq]) /\ UNCHANGED store

PutImmutable(q, v) == Start(q, [ty |-> "Put"]) /\ store' \in Put(store, ImmKey(v), v)

\* The signature is made with the key pair, or given by the user and not verified.
PutMutable(q, m) ==
  /\ m.value # None
  /\ Start(q, [ty |-> "Put"])
  /\ store' \in Put(store, MutKey(m), m)

\* lookup, announce, unannounce
OnTopic(q, local) ==
  /\ Start(q, [ty |-> "Topic", local_address |-> local, lan_heard |-> FALSE, lan |-> FALSE])
  /\ UNCHANGED store
-----------------------------------------------------------------------------
\* Mutant: poll_next is pending at once when no query is in progress.
PollSkipsIdle ==
  /\ task = "Idle"
  /\ IF \A q \in QueryId : pool[q] = None
     THEN event' = None /\ UNCHANGED <<task, queued_events>>
     ELSE IF queued_events # << >>
     THEN /\ event' = Head(queued_events) /\ queued_events' = Tail(queued_events)
          /\ UNCHANGED task
     ELSE task' = "Polling" /\ event' = None /\ UNCHANGED queued_events
  /\ Rpc!Silent
  /\ UNCHANGED <<queries, store>>

\* poll_next begins; it returns a queued event if there is one.
PollBegins ==
  /\ task = "Idle"
  /\ IF queued_events # << >>
     THEN /\ event' = Head(queued_events) /\ queued_events' = Tail(queued_events)
          /\ UNCHANGED task
     ELSE task' = "Polling" /\ event' = None /\ UNCHANGED queued_events
  /\ Rpc!Silent
  /\ UNCHANGED <<queries, store>>

\* Mutant: of what was queued meanwhile, only the first is returned.
PollReturnsFirst ==
  /\ task = "Polling" /\ task' = "Idle"
  /\ event' = IF queued_events # << >> THEN Head(queued_events) ELSE None
  /\ queued_events' = << >>
  /\ Rpc!Silent
  /\ UNCHANGED <<queries, store>>

\* RpcDht is pending: poll_next returns what was queued meanwhile, or is pending too.
PollReturns ==
  /\ task = "Polling" /\ task' = "Idle"
  /\ IF queued_events # << >>
     THEN event' = Head(queued_events) /\ queued_events' = Tail(queued_events)
     ELSE event' = None /\ UNCHANGED queued_events
  /\ Rpc!Silent
  /\ UNCHANGED <<queries, store>>

\* RpcDht has yielded an event that poll_next handles before it asks for the next.
Handle == task = "Polling" /\ UNCHANGED task /\ event' = None

\* on_command: a request for the store, or one for the peer cache, which leaves the
\* store as it is; a command the user has registered (CustomCommandQuery)
OnStoreUpdate ==
  /\ Handle /\ Rpc!Other("Request")
  /\ \/ \E m \in Mutable : store' \in UpdateMut(store, m)
     \/ \E target, v \in Value : store' \in UpdateImm(store, target, v)
  /\ UNCHANGED <<queries, queued_events>>

OnCustomCommand ==
  /\ Handle /\ Rpc!Other("Request")
  /\ Len(queued_events) < MaxEvents
  /\ queued_events' = Append(queued_events, [kind |-> "Request", query |-> None])
  /\ UNCHANGED <<queries, store>>

\* usize::trailing_zeros
TrailingZeros(n) ==
  IF n = 0 THEN 64 ELSE CHOOSE z \in 0..63 : n % 2^z = 0 /\ n % 2^(z + 1) # 0

\* decode_local_peers: how many LAN peers, of four bytes each, it makes of n bytes; when
\* the last of them is short, the slice that takes its port is out of range.
DecodeLocalPeers(n) == IF TrailingZeros(n) >= 2 THEN 0 ELSE n \div 4
DecodePanics(n) == TrailingZeros(n) < 2 /\ n % 4 # 0

\* QueryStreamInner::inject_response of peers and of n bytes of LAN peers
WithPeers(query, n) ==
  [query EXCEPT !.lan_heard = @ \/ n > 0,
                !.lan = @ \/ (query.local_address /\ DecodeLocalPeers(n) > 0)]

InjectPeers(q) ==
  /\ queries[q].ty = "Topic"
  /\ \E n \in LanBytes :
       IF queries[q].local_address /\ DecodePanics(n)
       THEN task' = "Panicked" /\ UNCHANGED queries
       ELSE UNCHANGED task /\ queries' = [queries EXCEPT ![q] = WithPeers(@, n)]
  /\ UNCHANGED store

\* A value that hashes to the key is stored.
InjectImmutable(q) ==
  /\ queries[q].ty = "GetImmutable"
  /\ \E v \in Value :
       IF v = queries[q].key THEN store' \in Put(store, ImmKey(v), v) ELSE UNCHANGED store
  /\ UNCHANGED <<queries, task>>

\* A value that verifies and is not older than asked for is stored, whatever its salt.
InjectMutable(q) ==
  /\ queries[q].ty = "GetMutable"
  /\ \E m \in Mutable :
       IF m.seq >= queries[q].seq /\ Verify(m)
       THEN store' \in Put(store, MutKey(m), m) ELSE UNCHANGED store
  /\ UNCHANGED <<queries, task>>

\* inject_response; a put takes no notice.
InjectResponse(q) ==
  /\ task = "Polling" /\ event' = None
  /\ Rpc!Response(q)
  /\ IF queries[q] = None \/ queries[q].ty = "Put"
     THEN UNCHANGED <<store, queries, task>>
     ELSE InjectPeers(q) \/ InjectImmutable(q) \/ InjectMutable(q)
  /\ UNCHANGED queued_events

\* Mutant: the query is looked up and not removed.
QueryFinishedKeeps(q) ==
  /\ Handle /\ Rpc!QueryResult(q)
  /\ queued_events' = IF queries[q] = None THEN queued_events
                      ELSE Append(queued_events, [kind |-> "QueryResult", query |-> q])
  /\ UNCHANGED <<store, queries>>

\* query_finished; finalize makes the result of the operation, of which only the query
\* is kept.
QueryFinished(q) ==
  /\ Handle /\ Rpc!QueryResult(q)
  /\ queries' = [queries EXCEPT ![q] = None]
  /\ queued_events' = IF queries[q] = None THEN queued_events
                      ELSE Append(queued_events, [kind |-> "QueryResult", query |-> q])
  /\ UNCHANGED store

\* Bootstrapped is returned at once, before the events that are queued.
Bootstrapped ==
  /\ task = "Polling" /\ task' = "Idle"
  /\ Rpc!Bootstrapped
  /\ event' = [kind |-> "Bootstrapped", query |-> None]
  /\ UNCHANGED <<queries, store, queued_events>>

\* RoutingUpdated stands for all the events poll_next passes over.  RpcDht starts the
\* queries it bootstraps with.
Ignored ==
  /\ Handle
  /\ \/ Rpc!Other("RoutingUpdated")
     \/ \E q \in QueryId : Rpc!Start(q, "FindNode")
  /\ UNCHANGED <<queries, store, queued_events>>

Next ==
  \/ \E q \in QueryId :
       \/ \E v \in Value : GetImmutable(q, v) \/ PutImmutable(q, v)
       \/ \E seq \in 0..MaxSeq : GetMutable(q, seq)
       \/ \E m \in Mutable : PutMutable(q, m)
       \/ \E local \in LocalAddr : OnTopic(q, local)
       \/ InjectResponse(q) \/ QueryFinished(q)
  \/ PollBegins \/ PollReturns
  \/ OnStoreUpdate \/ OnCustomCommand \/ Bootstrapped \/ Ignored

Spec == Init /\ [][Next]_vars

\* The user polls, RpcDht is pending now and then, and its queries end.
FairSpec ==
  /\ Spec
  /\ WF_vars(PollBegins) /\ WF_vars(PollReturns)
  /\ \A q \in QueryId : SF_vars(QueryFinished(q))
-----------------------------------------------------------------------------
\* Types; the cache holds no more than its capacity, and each entry under the key
\* of its kind and salt (store.rs:106-128).
TypeOK ==
  /\ pool \in [QueryId -> Rpc!Cmd \cup {None}] /\ booted \in BOOLEAN
  /\ queries \in [QueryId -> QueryStreamType \cup {None}]
  /\ Cardinality(Stored(store)) <= Capacity
  /\ \A s \in Salt : store[<<"Mutable", s>>] # None =>
       store[<<"Mutable", s>>] \in Mutable /\ store[<<"Mutable", s>>].salt = s
  /\ task \in {"Idle", "Polling", "Panicked"}

\* lib.rs:153-290, 508-512: the queries in progress are those of the user that
\* RpcDht runs: none is forgotten, none stays behind.
Tracked == \A q \in QueryId : queries[q] # None <=> pool[q] = "Custom"

UserPuts == \E q \in QueryId : queries[q] = None /\ queries'[q] # None
                               /\ queries'[q].ty = "Put"
GetAnswered == \E q \in QueryId : inner' = [kind |-> "Response", query |-> q]
                                  /\ queries[q] # None /\ queries[q].ty = "GetMutable"

\* store.rs:142-198, lib.rs:467-505: what is stored has a valid signature, unless the
\* user put it under a signature of their own, or is stored under its hash.
StoresVerified ==
  [][/\ \A s \in Salt : LET m == store'[<<"Mutable", s>>] IN
          m # store[<<"Mutable", s>>] /\ m # None => m.signed \/ UserPuts
     /\ \A v \in Value : store'[ImmKey(v)] \in {v, None}]_vars

\* m replaces n although it is older, or another value with the same number.
GoesBack(m, n) == m.seq < n.seq \/ (m.seq = n.seq /\ m.value # n.value)

\* store.rs:142-164, 201-212: the update of another node never takes a value back.
\* Only a put of the user does, and a response to a get, which is stored without
\* being compared (lib.rs:490-493).
UpdatesNeverGoBack ==
  [][\A s \in Salt : LET m == store'[<<"Mutable", s>>]
                         n == store[<<"Mutable", s>>]
     IN  m # None /\ n # None /\ GoesBack(m, n) => UserPuts \/ GetAnswered]_vars

Results == {queued_events[n].query : n \in 1..Len(queued_events)}

Promise == INSTANCE RpcEvents WITH
  live <- [q \in QueryId |-> IF queries[q] # None \/ q \in Results THEN "Custom" ELSE None]

\* lib.rs:508-554: each operation has one result, whatever order responses, results,
\* requests and Bootstrapped come in, and nothing comes for an operation that has none.
OneResult == Promise!Spec

\* lib.rs:508-554: the result of every operation reaches the user, unless the task
\* panics on the LAN peers of a response (peers.rs:136).
ResultArrives ==
  \A q \in QueryId :
    queries[q] # None ~> (event # None /\ event.query = q) \/ task = "Panicked"

\* lib.rs:703-704: "Only people with the same public IP as you will get these when
\* doing a lookup": the LAN peers in a response to a lookup are in its result.
LanPeersDelivered ==
  \A q \in QueryId :
    queries[q] # None /\ queries[q].ty = "Topic" /\ queries[q].local_address
      => (queries[q].lan_heard => queries[q].lan)
=============================================================================
