------------------------------- MODULE RpcDht -------------------------------
(***************************************************************************)
(* The RPC node (rpc/mod.rs, rpc/jobs.rs): the routing table, the pool of  *)
(* queries, the event queue and the two periodic jobs, as the task that    *)
(* polls the node drives them, and what wakes that task.                   *)
(*                                                                         *)
(* A step is a call of the user, a step of poll_next, or one of the        *)
(* environment, which runs while the node is polled too.  The nodes of the *)
(* network fall into one bucket.  Which nodes are due for a ping, what an  *)
(* answer says and what a query has found is left open.                    *)
(***************************************************************************)
EXTENDS BucketOps, FiniteSets

CONSTANTS Addr,              \* addresses of remote nodes
          QueryId,           \* ids of the queries in the pool
          BootstrapBelow     \* a table with fewer nodes is bootstrapped again

ASSUME RpcAssumption ==
  /\ BootstrapBelow \in Nat
  /\ None \notin QueryId /\ None \notin Addr
  /\ None \notin [query : QueryId, cmd : {"FindNode", "Custom"}, peers : SUBSET Key]
  /\ \A k \in {"FindNode", "Custom"} : None # k

VARIABLES bucket,            \* kbuckets: [nodes, first_connected_pos, pending]
          addr,              \* the address stored with a node
          queries,           \* the pool: the command of each query, None if not in it
          bootstrap_nodes,   \* there are some
          bootstrapped,
          queued_events,
          delay,             \* of the jobs: "running" unwatched, "watched", "expired"
          unsent,            \* the I/O handler has messages to send
          readable,          \* the socket has a message
          send_waker,        \* the task waits for the socket to send
          recv_waker,        \* the task waits for the socket to receive
          woken,             \* the task is to be polled
          pc,                \* where poll_next is: idle, io, finish
          result,            \* the query that is being finished: [query, cmd,
                             \* peers: those not yet taken]
          coincide,          \* history: both jobs fired in the last poll
          event              \* the event the last step returned, or None

table == <<bucket, addr>>
node == <<queries, bootstrap_nodes, bootstrapped>>
wakers == <<send_waker, recv_waker>>
vars == <<bucket, addr, queries, bootstrap_nodes, bootstrapped, queued_events, delay, unsent,
          readable, send_waker, recv_waker, woken, pc, result, coincide, event>>

Job == {"bootstrap", "ping"}
Cmd == {"FindNode", "Custom"}
Ev(kind) == [kind |-> kind, query |-> None]
Live == {q \in QueryId : queries[q] # None}
-----------------------------------------------------------------------------
\* Mutant: a node is added to a bucket that is full.
AddNodeUnchecked(i, a) ==
  LET b == ApplyPending(bucket)
  IN  IF i \in Keys(b) THEN bucket' = b /\ UNCHANGED addr
      ELSE bucket' = PushConnected(b, i) /\ addr' = [addr EXCEPT ![i] = a]

\* add_node: what becomes of the bucket, the address of i and the event queue
\* (Entry::Present only gets a new next_ping, Entry::Pending also the address)
AddNode(i, a) ==
  LET b == ApplyPending(bucket)
      c == IF i \in Keys(b) \/ IsPending(b, i) THEN b ELSE Insert(b, i, "Connected")
  IN  /\ bucket' = c
      /\ addr' = IF i \notin Keys(b) /\ (i \in Keys(c) \/ IsPending(c, i))
                 THEN [addr EXCEPT ![i] = a] ELSE addr

\* InsertResult::Inserted is reported.
RoutingUpdated(i) ==
  LET b == ApplyPending(bucket)
  IN  IF i \in Keys(b) \/ IsPending(b, i) \/ IsFull(b) THEN << >> ELSE <<Ev("RoutingUpdated")>>

\* Mutant: a node that failed is marked as disconnected, and kept.
RemovePeerDisconnects(i) ==
  LET b == ApplyPending(bucket)
  IN  bucket' = (IF i \in Keys(b) THEN Update(b, i, "Disconnected") ELSE b) /\ UNCHANGED addr

\* remove_peer
RemovePeer(i) ==
  LET b == ApplyPending(bucket)
  IN  /\ bucket' = CASE i \in Keys(b)                   -> RemoveNode(b, i)
                     [] i \notin Keys(b) /\ IsPending(b, i) -> RemovePending(b)
                     [] OTHER                           -> b
      /\ addr' = [addr EXCEPT ![i] = None]

\* remove_node: the first node of the table with address a
RemoveNodeAt(a) ==
  LET b == ApplyPending(bucket)
      P == {p \in 1..Len(b.nodes) : addr[b.nodes[p]] = a}
  IN  IF P = {} THEN bucket' = b /\ UNCHANGED addr
      ELSE \E p \in P : (\A r \in P : p <= r) /\ RemovePeer(b.nodes[p])

\* bootstrap.  Bound: the query is not started if all of QueryId are in the pool.
Bootstrap ==
  IF bootstrap_nodes
  THEN /\ IF Live = QueryId THEN UNCHANGED queries
          ELSE \E q \in QueryId \ Live : queries' = [queries EXCEPT ![q] = "FindNode"]
       /\ UNCHANGED <<bootstrapped, queued_events>>
  ELSE /\ queued_events' = IF bootstrapped THEN queued_events
                           ELSE Append(queued_events, Ev("Bootstrapped"))
       /\ bootstrapped' = TRUE
       /\ UNCHANGED queries

\* with_config
Init ==
  /\ bucket = New /\ addr = [i \in Key |-> None]
  /\ bootstrap_nodes \in BOOLEAN
  /\ IF bootstrap_nodes
     THEN /\ \E q \in QueryId : queries = [r \in QueryId |-> IF r = q THEN "FindNode" ELSE None]
          /\ bootstrapped = FALSE /\ queued_events = << >>
     ELSE /\ queries = [r \in QueryId |-> None]
          /\ bootstrapped = TRUE /\ queued_events = <<Ev("Bootstrapped")>>
  /\ delay = [j \in Job |-> "running"]
  /\ unsent = FALSE /\ readable = FALSE
  /\ send_waker = FALSE /\ recv_waker = FALSE
  /\ woken = TRUE /\ pc = "idle" /\ result = None /\ coincide = FALSE /\ event = None
-----------------------------------------------------------------------------
\* Calls of the user, who polls the node again afterwards
User == pc = "idle" /\ woken' = TRUE /\ event' = None
        /\ UNCHANGED <<bootstrap_nodes, delay, readable, wakers, pc, result, coincide>>

\* query, update, query_and_update: run_command
RunCommand(q, cmd) ==
  /\ User
  /\ q \notin Live /\ queries' = [queries EXCEPT ![q] = cmd]
  /\ bucket' = ApplyPending(bucket)
  /\ UNCHANGED <<addr, bootstrapped, queued_events, unsent>>

UserBootstrap ==
  /\ User /\ Bootstrap
  /\ bucket' = IF bootstrap_nodes THEN ApplyPending(bucket) ELSE bucket
  /\ UNCHANGED <<addr, unsent>>

UserRemovesPeer(i) ==
  User /\ RemovePeer(i) /\ UNCHANGED <<queries, bootstrapped, queued_events, unsent>>

\* ping, holepunch
UserSends == User /\ unsent' = TRUE /\ UNCHANGED <<table, queries, bootstrapped, queued_events>>

\* reply_command: reply, with the closer nodes
ReplyCommand ==
  /\ User
  /\ unsent' = TRUE
  /\ bucket' = ApplyPending(bucket)
  /\ UNCHANGED <<addr, queries, bootstrapped, queued_events>>
-----------------------------------------------------------------------------
Due(j) == delay[j] = "expired"

\* PeriodicJob::poll of both jobs.  A job that fires starts a new Delay, which has not
\* been polled and thus wakes nobody.
PollDelays == [j \in Job |-> IF Due(j) THEN "running" ELSE "watched"]

\* ping_some pings the nodes that are due; whether there are messages to send then
PingSome(b) == {unsent} \cup {TRUE : i \in Keys(b)}

\* Mutant: the ping job is polled only when the bootstrap job has not fired.
PollJobsInTurn ==
  /\ pc = "idle" /\ woken
  /\ pc' = "io" /\ woken' = FALSE
  /\ delay' = [j \in Job |-> IF j = "ping" /\ Due("bootstrap") THEN delay[j]
                            ELSE IF Due(j) THEN "running" ELSE "watched"]
  /\ coincide' = \A j \in Job : Due(j)
  /\ bucket' = IF \E j \in Job : Due(j) THEN ApplyPending(bucket) ELSE bucket
  /\ IF Due("bootstrap") /\ Len(bucket'.nodes) < BootstrapBelow
     THEN Bootstrap ELSE UNCHANGED <<queries, bootstrapped, queued_events>>
  /\ IF Due("ping") THEN unsent' \in PingSome(bucket') ELSE UNCHANGED unsent
  /\ event' = None
  /\ UNCHANGED <<addr, bootstrap_nodes, readable, wakers, result>>

\* poll_next begins.
PollJobs ==
  /\ pc = "idle" /\ woken
  /\ pc' = "io" /\ woken' = FALSE
  /\ delay' = PollDelays
  /\ coincide' = \A j \in Job : Due(j)
  /\ bucket' = IF \E j \in Job : Due(j) THEN ApplyPending(bucket) ELSE bucket
  /\ IF Due("bootstrap") /\ Len(bucket'.nodes) < BootstrapBelow
     THEN Bootstrap ELSE UNCHANGED <<queries, bootstrapped, queued_events>>
  /\ IF Due("ping") THEN unsent' \in PingSome(bucket') ELSE UNCHANGED unsent
  /\ event' = None
  /\ UNCHANGED <<addr, bootstrap_nodes, readable, wakers, result>>

Return(e) == pc' = "idle" /\ woken' = TRUE /\ event' = e

\* Queued events go first.
Drain ==
  /\ pc = "io" /\ queued_events # << >>
  /\ queued_events' = Tail(queued_events)
  /\ Return(Head(queued_events))
  /\ UNCHANGED <<table, node, delay, unsent, readable, wakers, result, coincide>>

\* IoHandler::poll_next sends what it has, unless the socket blocks.
IoSends ==
  /\ pc = "io" /\ queued_events = << >> /\ unsent
  /\ unsent' = FALSE /\ send_waker' = FALSE /\ event' = None
  /\ UNCHANGED <<table, node, queued_events, delay, readable, recv_waker, woken, pc, result, coincide>>

\* It reads a message.
Read ==
  /\ pc = "io" /\ queued_events = << >> /\ readable
  /\ readable' = FALSE /\ send_waker' = unsent /\ event' = None
  /\ UNCHANGED <<node, delay, recv_waker, woken, result, coincide>>

\* What the handlers of requests do, apart from adding the node
Outcome(reply, closest, events) == [reply |-> reply, closest |-> closest, events |-> events]
Ignored == Outcome(FALSE, FALSE, << >>)
RequestErr == Outcome(FALSE, FALSE, <<Ev("RequestErr")>>)

\* The value of a ping is not the own id, or it is, or there is none.
OnPing == {RequestErr, Outcome(TRUE, FALSE, << >>)}
OnFindnode == {Outcome(TRUE, TRUE, << >>), Ignored}
\* A holepunch to another node, to its sender, undecodable, or with a sender
OnHolepunch == {Outcome(TRUE, FALSE, << >>), Ignored}
\* A command that is registered or not, or without target
OnCommandReq == {Outcome(FALSE, FALSE, <<Ev("Request")>>), RequestErr}
\* No command, with a valid target, an invalid one, or none
MissingCommand == {Outcome(TRUE, TRUE, <<Ev("RequestErr")>>), RequestErr}

\* on_request from address a; the id is missing, not valid or the own one if i is None
OnRequest(i, a) ==
  /\ Read /\ UNCHANGED pc
  /\ \E o \in OnPing \cup OnFindnode \cup OnHolepunch \cup OnCommandReq \cup MissingCommand :
       /\ IF i # None THEN AddNode(i, a)
          ELSE bucket' = (IF o.closest THEN ApplyPending(bucket) ELSE bucket) /\ UNCHANGED addr
       /\ queued_events' = (IF i # None THEN RoutingUpdated(i) ELSE << >>) \o o.events
       /\ unsent' = (unsent \/ o.reply)

\* on_pong: Pong if the node is in the table, InvalidPong otherwise
OnPong ==
  /\ Read
  /\ queued_events' = <<Ev("PingResult")>>
  /\ bucket' \in {bucket, ApplyPending(bucket)}
  /\ UNCHANGED <<addr, unsent, pc>>

\* Mutant: the response is handed on although the query is gone.
OnResponseLate(q) ==
  /\ Read
  /\ queued_events' \in {<<[kind |-> "Response", query |-> q]>>, << >>}
  /\ UNCHANGED <<table, unsent, pc>>

\* on_response to a request of query q, which may be gone, and may keep the response
\* to itself
OnResponse(q) ==
  /\ Read
  /\ queued_events' \in {<<[kind |-> "Response", query |-> q]>> : r \in Live \cap {q}} \cup {<< >>}
  /\ UNCHANGED <<table, unsent, pc>>

\* InResponseBadRequestId from address a
OnBadRequestId(a) == Read /\ RemoveNodeAt(a) /\ UNCHANGED <<queued_events, unsent, pc>>

\* InMessageErr, InSocketErr
OnError == Read /\ UNCHANGED <<table, queued_events, unsent, pc>>

\* IoHandler::poll_next is pending: the socket has no message and wakes the task for
\* the next, or on_message has dropped the one it had.  The pool is polled next.
IoPending ==
  /\ pc = "io" /\ queued_events = << >>
  /\ \/ ~readable /\ recv_waker' = TRUE
     \/ readable /\ UNCHANGED recv_waker
  /\ readable' = FALSE /\ send_waker' = unsent /\ event' = None
  /\ UNCHANGED <<table, bootstrap_nodes, bootstrapped, queued_events, delay, woken, coincide>>
-----------------------------------------------------------------------------
\* Mutant: poll_next is pending once a query has sent a message.
PoolSendsOnce ==
  /\ IoPending /\ Live # {}
  /\ unsent' \in {unsent, TRUE}
  /\ pc' = "idle"
  /\ UNCHANGED <<queries, result>>

\* QueryPool::poll: a query has a message to send, or no token for it
PoolSends ==
  /\ IoPending /\ Live # {}
  /\ unsent' \in {unsent, TRUE}
  /\ UNCHANGED <<queries, pc, result>>

\* A query has finished or timed out.
PoolEnds(q) ==
  /\ IoPending /\ q \in Live
  /\ queries' = [queries EXCEPT ![q] = None]
  /\ result' = [query |-> q, cmd |-> queries[q], peers |-> Key]
  /\ pc' = "finish"
  /\ UNCHANGED unsent

\* query_finished: the peers of the result in no order, then the event.  What the
\* query knows of a peer is chosen when it is taken; the others are not contacted.
TakePeer(i) ==
  /\ pc = "finish" /\ i \in result.peers
  /\ result' = [result EXCEPT !.peers = @ \ {i}]
  /\ \/ RemovePeer(i) /\ UNCHANGED queued_events                  \* PeerState::Failed
     \/ /\ \E a \in Addr : AddNode(i, a)                          \* PeerState::Succeeded
        /\ queued_events' = queued_events \o RoutingUpdated(i)
  /\ event' = None
  /\ UNCHANGED <<node, delay, unsent, readable, wakers, woken, pc, coincide>>

QueryFinished ==
  /\ pc = "finish"
  /\ result' = None
  /\ IF result.cmd = "FindNode" /\ ~bootstrapped
     THEN bootstrapped' = TRUE /\ Return(Ev("Bootstrapped"))
     ELSE UNCHANGED bootstrapped /\ Return([kind |-> "QueryResult", query |-> result.query])
  /\ UNCHANGED <<table, queries, bootstrap_nodes, queued_events, delay, unsent, readable, wakers,
                 coincide>>

\* QueryPoolState::Waiting(None) or Idle: poll_next is pending.
PoolPending == IoPending /\ pc' = "idle" /\ UNCHANGED <<queries, unsent, result>>
-----------------------------------------------------------------------------
\* The environment; nothing looks at it while a query is finished.
Env == pc # "finish" /\ event' = None /\ UNCHANGED <<table, node, queued_events, unsent, pc, result, coincide>>

\* A message arrives, the socket can send again, the Delay of a job ends.
Arrive ==
  /\ Env
  /\ ~readable /\ readable' = TRUE
  /\ recv_waker' = FALSE /\ woken' = (woken \/ recv_waker)
  /\ UNCHANGED <<delay, send_waker>>

Writable ==
  /\ Env
  /\ send_waker /\ send_waker' = FALSE /\ woken' = TRUE
  /\ UNCHANGED <<delay, readable, recv_waker>>

Expire(j) ==
  /\ Env
  /\ delay[j] # "expired" /\ delay' = [delay EXCEPT ![j] = "expired"]
  /\ woken' = (woken \/ delay[j] = "watched")
  /\ UNCHANGED <<readable, wakers>>

Poll ==
  \/ PollJobs \/ Drain \/ IoSends
  \/ \E a \in Addr : OnBadRequestId(a) \/ \E i \in Key \cup {None} : OnRequest(i, a)
  \/ OnPong \/ (\E q \in QueryId : OnResponse(q)) \/ OnError
  \/ PoolSends \/ (\E q \in QueryId : PoolEnds(q))
  \/ (\E i \in Key : TakePeer(i)) \/ QueryFinished \/ PoolPending

Next ==
  \/ \E q \in QueryId, cmd \in Cmd : RunCommand(q, cmd)
  \/ UserBootstrap \/ UserSends \/ ReplyCommand \/ \E i \in Key : UserRemovesPeer(i)
  \/ Poll
  \/ Arrive \/ Writable \/ \E j \in Job : Expire(j)

Spec == Init /\ [][Next]_vars

\* The executor polls a task that is woken, and time passes, also while queries are
\* finished.
FairSpec == Spec /\ WF_vars(Poll) /\ \A j \in Job : SF_vars(Expire(j))
-----------------------------------------------------------------------------
\* Types; a node of the table has an address, and no other has one
\* (rpc/mod.rs:440-522).
TypeOK ==
  /\ bucket.nodes \in Seq(Key) /\ Len(bucket.nodes) <= K_VALUE
  /\ addr \in [Key -> Addr \cup {None}]
  /\ \A i \in Key : addr[i] # None <=> i \in Keys(bucket)
  /\ queries \in [QueryId -> Cmd \cup {None}]
  /\ bootstrap_nodes \in BOOLEAN /\ bootstrapped \in BOOLEAN
  /\ delay \in [Job -> {"running", "watched", "expired"}]
  /\ {unsent, readable, send_waker, recv_waker, woken} \subseteq BOOLEAN
  /\ pc \in {"idle", "io", "finish"} /\ (result = None <=> pc # "finish")
  /\ coincide \in BOOLEAN

Abstract == INSTANCE RpcEvents WITH
  live <- IF result = None THEN queries ELSE [queries EXCEPT ![result.query] = result.cmd],
  booted <- bootstrapped /\ Ev("Bootstrapped") \notin Range(queued_events)

\* rpc/mod.rs:710-879: every response of a query is yielded before the end of the
\* query, which is yielded once; Bootstrapped is yielded at most once.
ImplementsRpcEvents == Abstract!Spec

\* rpc/mod.rs:440-499: add_node only inserts connected nodes and no node is ever
\* reported disconnected, so that no node of the table is ever pending and
\* applied_pending, which nobody takes, does not grow.
NothingPending == bucket.pending = None

Asleep == pc = "idle" /\ ~woken

\* rpc/mod.rs:823-879: poll_next is only pending when no event is queued and all
\* messages are sent, or the socket wakes the task to send them.
SleepsWhenDone == Asleep => queued_events = << >> /\ (unsent => send_waker)

\* rpc/jobs.rs:23-31, rpc/io.rs:523-526: something wakes the task, a message or a
\* job, unless both jobs have fired in the same poll.
SomethingWakes == Asleep /\ ~coincide => recv_waker \/ \E j \in Job : delay[j] = "watched"

\* rpc/io.rs:523-526: a message that waits in the socket is read at last, also after
\* one that was dropped, as long as the jobs do not fire in the same poll.
MessagesAreRead == [](~coincide) => (readable ~> ~readable)

\* rpc/jobs.rs:23-31, rpc/mod.rs:834-836: nodes are pinged again and again, as long
\* as the jobs do not fire in the same poll and poll_next returns.
PingsAgain == [](~coincide) /\ []<>(pc = "idle") => (Due("ping") ~> ~Due("ping"))
=============================================================================
