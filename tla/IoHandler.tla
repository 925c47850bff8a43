------------------------------ MODULE IoHandler ------------------------------
(***************************************************************************)
(* The I/O handler (rpc/io.rs) over its socket (rpc/udp.rs): requests get  *)
(* an id, wait in a queue, are sent one at a time and then wait for their  *)
(* response; incoming messages become events for RpcDht.                   *)
(*                                                                         *)
(* External: the network, which loses, duplicates and reorders datagrams,  *)
(* and the remote peers.  Of a message only the parts the handler decides  *)
(* by are kept: it looks at the peer only to make and to check tokens, and *)
(* treats a Query and an Update it sends alike.  A token stands for the    *)
(* hash of the secret and the address it is made from.                     *)
(***************************************************************************)
EXTENDS UdpFramed, Naturals, Sequences, FiniteSets, Vec

CONSTANTS Addr,          \* the addresses of the peers
          RequestIds,    \* the number of request ids (2^64 in the code)
          RemoteId,      \* the request id the peers use
          MaxRequests,   \* bound on the requests issued
          MaxQueue,      \* bound on the messages in the sending queue
          MaxInbox       \* bound on the datagrams that wait at the socket

RequestId == 0..(RequestIds - 1)

VARIABLES next_req_id, pending_send, pending_flush, pending_recv,
          secrets,        \* the pair of secrets
          last_rotation,  \* "recent" while last_rotation + rotation lies ahead
          socket,
          event,          \* the event poll_next returned last, if RpcDht acts upon it
          inbox,          \* external: the datagrams on their way to the socket
          requests,       \* history: the request ids used
          punched,        \* history: those a holepunch used for two messages
          closed,         \* history: how often a request of the id was answered or cancelled
          issued          \* history: one of the tokens handed out

history == <<requests, punched, closed, issued>>
vars == <<next_req_id, pending_send, pending_flush, pending_recv, secrets, last_rotation,
          socket, event, inbox, history>>

Token == [secret : {1, 2}, addr : Addr]
MessageEvent == [ty : {"Request", "Response"}, rid : RequestId]

\* Beside the types of a message, a datagram may be one the codec cannot decode,
\* or one on_message drops for the length of its id or its type.
Datagram == [ty : {"Query", "Update", "Response", "Undecodable", "Malformed"},
             rid : RequestId \cup {None}, peer : Addr \cup {None}, token : Token \cup {None}]

\* RpcDht ignores the other events (the match of an InResponse shows in closed).
IoHandlerEvent == [tag : {"InRequest", "InResponseBadRequestId"}, rid : RequestId, peer : Addr]

ASSUME IoAssumption ==
  /\ RequestIds \in Nat \ {0} /\ MaxRequests \in 1..RequestIds /\ RemoteId \in RequestId
  /\ MaxQueue \in Nat /\ MaxInbox \in Nat
  /\ None \notin MessageEvent \cup IoHandlerEvent \cup Token
  /\ None \notin Addr \cup RequestId

Init ==
  /\ next_req_id \in RequestId   \* random_id
  /\ pending_send = << >> /\ pending_flush = None
  /\ pending_recv = {}
  /\ secrets = <<1, 2>> /\ last_rotation = "recent"
  /\ socket = NewSocket /\ event = None
  /\ inbox = {}
  /\ requests = {} /\ punched = {} /\ issued = None
  /\ closed = [r \in RequestId |-> 0]
-----------------------------------------------------------------------------
NextReqId == next_req_id' = (next_req_id + 1) % RequestIds

\* pending_send.push_back
Push(ms) == pending_send' = pending_send \o ms

\* query and update: the message gets the next id; for a holepunch with a
\* referrer, a copy with the same id is queued first, for the referrer.
SendRequest(holepunch) ==
  LET m == [ty |-> "Request", rid |-> next_req_id]
  IN  /\ Cardinality(requests) < MaxRequests /\ Len(pending_send) < MaxQueue
      /\ NextReqId
      /\ Push(IF holepunch THEN <<m, m>> ELSE <<m>>)
      /\ requests' = requests \cup {m.rid}
      /\ punched' = IF holepunch THEN punched \cup {m.rid} ELSE punched
      /\ UNCHANGED <<pending_flush, pending_recv, secrets, last_rotation, socket, event,
                     inbox, closed, issued>>

token(peer, secret) == [secret |-> secret, addr |-> peer]

\* response and reply hand out a token, error and a reply with an error do not.
SendResponse(ok) ==
  /\ event # None /\ event.tag = "InRequest" /\ Len(pending_send) < MaxQueue
  /\ Push(<<[ty |-> "Response", rid |-> event.rid]>>)
  /\ \/ ok /\ issued = None /\ issued' = token(event.peer, secrets[1])
     \/ UNCHANGED issued
  /\ event' = None
  /\ UNCHANGED <<next_req_id, pending_flush, pending_recv, secrets, last_rotation, socket,
                 inbox, requests, punched, closed>>

\* cancel looks in the queue first, whatever the type of the message; it does not
\* look at the message that is being flushed.
Cancel(rid) ==
  LET pos == {i \in 1..Len(pending_send) : pending_send[i].rid = rid}
      i   == CHOOSE j \in pos : \A l \in pos : j <= l
  IN  /\ \/ /\ pos # {}
            /\ pending_send' = VecRemove(pending_send, i - 1)
            /\ closed' = IF pending_send[i].ty = "Request" THEN [closed EXCEPT ![rid] = @ + 1] ELSE closed
            /\ UNCHANGED pending_recv
         \/ /\ pos = {} /\ rid \in pending_recv
            /\ pending_recv' = pending_recv \ {rid}
            /\ closed' = [closed EXCEPT ![rid] = @ + 1]
            /\ UNCHANGED pending_send
      /\ UNCHANGED <<next_req_id, pending_flush, secrets, last_rotation, socket, event,
                     inbox, requests, punched, issued>>
-----------------------------------------------------------------------------
Await(m) == pending_recv' = IF m.ty = "Request" THEN pending_recv \cup {m.rid} ELSE pending_recv

\* The message has been flushed.  That the sending failed, or that the datagram
\* got lost, makes no difference here: is_ready holds of an error as well.
Flushed(m, sock) ==
  /\ socket' = FlushReady(sock) /\ pending_flush' = None
  /\ Await(m)
  /\ event' = None
  /\ UNCHANGED <<secrets, last_rotation, inbox, closed>>

\* The condition of the code: it swaps the secrets while the interval has not
\* passed since the last time.
Rotate ==
  IF last_rotation = "recent" THEN secrets' = <<secrets[2], secrets[1]>> ELSE UNCHANGED secrets

\* poll_next returns Pending.
ReturnPending ==
  /\ event' = None
  /\ Rotate
  /\ UNCHANGED <<pending_recv, closed>>

\* Mutant: the request stays in pending_recv
OnResponseKeeps(rid, peer) ==
  IF rid \in pending_recv
  THEN closed' = [closed EXCEPT ![rid] = @ + 1] /\ event' = None /\ UNCHANGED pending_recv
  ELSE /\ event' = [tag |-> "InResponseBadRequestId", rid |-> rid, peer |-> peer]
       /\ UNCHANGED <<pending_recv, closed>>

\* The id alone decides: the peer need not be the one the request went to.
OnResponse(rid, peer) ==
  IF rid \in pending_recv
  THEN /\ pending_recv' = pending_recv \ {rid}
       /\ closed' = [closed EXCEPT ![rid] = @ + 1]
       /\ event' = None
  ELSE /\ event' = [tag |-> "InResponseBadRequestId", rid |-> rid, peer |-> peer]
       /\ UNCHANGED <<pending_recv, closed>>

\* Mutant: only the current secret counts
TokenCurrent(d) == d.token = token(d.peer, secrets[1])

TokenMatches(d) == \E i \in {1, 2} : d.token = token(d.peer, secrets[i])

\* on_message, or the error poll_next of the socket returns instead
OnMessage(d) ==
  \/ d.ty = "Response" /\ OnResponse(d.rid, d.peer) /\ UNCHANGED secrets
  \/ /\ d.ty = "Query" \/ (d.ty = "Update" /\ TokenMatches(d))
     /\ event' = [tag |-> "InRequest", rid |-> d.rid, peer |-> d.peer]
     /\ UNCHANGED <<pending_recv, closed, secrets>>
  \/ d.ty = "Undecodable" /\ event' = None /\ UNCHANGED <<pending_recv, closed, secrets>>
  \/ /\ d.ty = "Malformed" \/ (d.ty = "Update" /\ ~TokenMatches(d))
     /\ ReturnPending

Read(sock) ==
  \/ /\ socket' = RecvPending(sock)
     /\ ReturnPending /\ UNCHANGED inbox
  \/ \E d \in inbox :
       /\ inbox' = inbox \ {d}
       /\ socket' = RecvReady(sock)
       /\ OnMessage(d)

\* poll_next after start_send_next, with the message in pending_flush and the
\* socket it leaves
PollWith(flush, sock) ==
  \/ flush # None /\ Flushed(flush, sock)
  \/ /\ pending_flush' = flush
     /\ IF flush = None THEN Read(sock) ELSE ~sock.flushed /\ Read(FlushPending(sock))
     /\ UNCHANGED last_rotation

Poll ==
  /\ IF pending_flush # None \/ pending_send = << >>
     THEN PollWith(pending_flush, socket) /\ UNCHANGED pending_send
     ELSE /\ pending_send' = Tail(pending_send)
          /\ LET m == Head(pending_send)
             IN  IF CanStartSend(socket)
                 THEN PollWith(m, StartSend(socket, m))
                 ELSE /\ event' = None
                      /\ UNCHANGED <<pending_flush, pending_recv, secrets, last_rotation,
                                     socket, inbox, closed>>
  /\ UNCHANGED <<next_req_id, requests, punched, issued>>
-----------------------------------------------------------------------------
\* The time the interval takes has passed.
Elapse ==
  /\ last_rotation = "recent" /\ last_rotation' = "past"
  /\ UNCHANGED <<next_req_id, pending_send, pending_flush, pending_recv, secrets, socket,
                 event, inbox, history>>

network == <<next_req_id, pending_send, pending_flush, pending_recv, secrets, last_rotation,
             socket, event, history>>

Send(d) ==
  /\ d \notin inbox /\ Cardinality(inbox) < MaxInbox
  /\ inbox' = inbox \cup {d}
  /\ UNCHANGED network

\* A response arrives: of a peer that was asked, perhaps once more, or one to a
\* request that was never made (by this run of the program, at least).
Answer(rid, peer) == Send([ty |-> "Response", rid |-> rid, peer |-> peer, token |-> None])

\* A peer sends a message of its own; a token is one that was handed out.
Receive(ty, rid, peer, t) ==
  Send([ty |-> ty, rid |-> rid, peer |-> peer, token |-> t])

Lose(d) == inbox' = inbox \ {d} /\ UNCHANGED network

Next ==
  \/ \E holepunch \in BOOLEAN : SendRequest(holepunch)
  \/ \E ok \in BOOLEAN : SendResponse(ok)
  \/ \E r \in RequestId : Cancel(r)
  \/ Poll \/ Elapse
  \/ \E r \in RequestId, p \in Addr : Answer(r, p)
  \/ \E p \in Addr : Receive("Query", RemoteId, p, None)
  \/ \E p \in Addr, t \in {issued, None} : Receive("Update", RemoteId, p, t)
  \/ \E ty \in {"Undecodable", "Malformed"} : Receive(ty, None, None, None)
  \/ \E d \in inbox : Lose(d)

Spec == Init /\ [][Next]_vars

-----------------------------------------------------------------------------
\* Types of the fields of IoHandler; a request id stays in its range when it
\* wraps around (rpc/io.rs:183-187).
TypeOK ==
  /\ next_req_id \in RequestId
  /\ pending_send \in Seq(MessageEvent)
  /\ pending_flush \in MessageEvent \cup {None}
  /\ pending_recv \subseteq RequestId
  /\ secrets \in {<<1, 2>>, <<2, 1>>} /\ last_rotation \in {"recent", "past"}
  /\ event \in IoHandlerEvent \cup {None}
  /\ inbox \subseteq Datagram
  /\ requests \subseteq RequestId /\ issued \in Token \cup {None}

\* rpc/io.rs:460-471, rpc/udp.rs:121-165: there is a message in pending_flush
\* exactly while the socket has something to flush, so that start_send is never
\* called during a send (the message would be lost) and the buffers the socket
\* unwraps are there.
FlushMatchesSocket ==
  /\ socket.out = pending_flush
  /\ socket.flushed <=> pending_flush = None
  /\ socket.send_buf = ~socket.send_fut /\ (socket.flushed => socket.send_buf)
  /\ socket.recv_buf = ~socket.recv_fut

IsRequest(m, rid) == m = [ty |-> "Request", rid |-> rid]

\* How many times the request is queued, being sent, waited for, answered or cancelled
Places(rid) ==
  LET Count(b) == IF b THEN 1 ELSE 0
  IN  Cardinality({i \in 1..Len(pending_send) : IsRequest(pending_send[i], rid)})
      + Count(IsRequest(pending_flush, rid)) + Count(rid \in pending_recv)
      + closed[rid]

\* rpc/io.rs:183-187, 371-381, 489-510: a request is in one place at a time and
\* is answered at most once, whatever is lost, duplicated, reordered or made up
\* and wherever the ids start; the message of a holepunch and its copy may be
\* answered one each.
Accounted ==
  /\ TypeOK
  /\ \A r \in RequestId :
       IF r \in punched THEN Places(r) \in 1..2 ELSE Places(r) = IF r \in requests THEN 1 ELSE 0

\* rpc/io.rs:407-420, 435-438: a token is accepted from the peer that got it, no
\* matter how many times the secrets were rotated since: a rotation swaps the two and
\* makes no new one, so that no token is ever too old.
TokenStaysValid ==
  [][\A d \in inbox :
       d.ty = "Update" /\ d.token # None /\ d.token.addr = d.peer /\ Poll /\ d \notin inbox' =>
         event' = [tag |-> "InRequest", rid |-> d.rid, peer |-> d.peer]]_vars

\* rpc/mod.rs:131-132: "Set the key rotation interval to rotate the keys used to
\* create roundtrip tokens": the secrets are rotated when the interval has passed.
RotatesAtInterval == [][secrets' # secrets => last_rotation = "past"]_vars
=============================================================================
