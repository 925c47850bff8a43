--------------------------- MODULE IoHandlerProofs ---------------------------
(***************************************************************************)
(* Proofs about IoHandler.tla, for every number of request ids, of         *)
(* requests, of peers and of datagrams.                                    *)
(***************************************************************************)
EXTENDS IoHandler, FiniteSetTheorems, TLAPS

\* SMT has 30 seconds for each step; the steps it is not suited for name Zenon.
USE SMTT(30)

-----------------------------------------------------------------------------
(* The socket. *)

Socket == [flushed : BOOLEAN, send_buf : BOOLEAN, send_fut : BOOLEAN,
           out : MessageEvent \cup {None}, recv_buf : BOOLEAN, recv_fut : BOOLEAN]

\* FlushMatchesSocket, of a socket s and the message f in pending_flush
SocketOK(s, f) ==
  /\ s \in Socket
  /\ s.out = f
  /\ s.flushed <=> f = None
  /\ s.send_buf = ~s.send_fut /\ (s.flushed => s.send_buf)
  /\ s.recv_buf = ~s.recv_fut

LEMMA NewSocketOK == SocketOK(NewSocket, None)
BY Zenon DEF SocketOK, NewSocket, Socket

LEMMA StartSendOK ==
  ASSUME NEW s, SocketOK(s, None), NEW m \in MessageEvent
  PROVE  CanStartSend(s) /\ SocketOK(StartSend(s, m), m)
<1>1. CanStartSend(s)
  BY DEF CanStartSend, SocketOK
<1>2. m # None
  BY IoAssumption
<1>3. SocketOK(StartSend(s, m), m)
  BY <1>1, <1>2, Zenon DEF StartSend, SocketOK, Socket, CanStartSend
<1> QED BY <1>1, <1>3

LEMMA FlushReadyOK ==
  ASSUME NEW s, NEW f, SocketOK(s, f)
  PROVE  SocketOK(FlushReady(s), None)
BY Zenon DEF FlushReady, SocketOK, Socket

LEMMA FlushPendingOK ==
  ASSUME NEW s, NEW f, SocketOK(s, f), f # None
  PROVE  SocketOK(FlushPending(s), f)
BY Zenon DEF FlushPending, SocketOK, Socket

LEMMA RecvOK ==
  ASSUME NEW s, NEW f, SocketOK(s, f)
  PROVE  SocketOK(RecvPending(s), f) /\ SocketOK(RecvReady(s), f)
BY Zenon DEF RecvPending, RecvReady, SocketOK, Socket

-----------------------------------------------------------------------------
(* How often a request is in the sending queue. *)

LEMMA LeastNatural ==
  ASSUME NEW S \in SUBSET Nat, S # {}
  PROVE  \E i \in S : \A j \in S : i <= j
<1>1. PICK i \in S : \A j \in S : ~(<<j, i>> \in OpToRel(<, Nat))
  BY NatLessThanWellFounded, WFMin, Zenon
<1>2. \A j \in S : ~(j < i)
  BY <1>1, Zenon DEF OpToRel
<1> QED BY <1>2

Positions(s, rid) == {i \in 1..Len(s) : IsRequest(s[i], rid)}
Queued(s, rid) == Cardinality(Positions(s, rid))
One(b) == IF b THEN 1 ELSE 0

LEMMA PositionsFinite ==
  ASSUME NEW s \in Seq(MessageEvent), NEW rid
  PROVE  IsFiniteSet(Positions(s, rid)) /\ Queued(s, rid) \in Nat
<1>1. Len(s) \in Int
  OBVIOUS
<1>2. IsFiniteSet(1..Len(s))
  BY <1>1, FS_Interval
<1>3. IsFiniteSet(Positions(s, rid))
  BY <1>2, FS_Subset DEF Positions
<1> QED BY <1>3, FS_CardinalityType DEF Queued

LEMMA QueuedEmpty ==
  ASSUME NEW rid
  PROVE  Queued(<< >>, rid) = 0
<1>1. Positions(<< >>, rid) = {}
  BY DEF Positions
<1> QED BY <1>1, FS_EmptySet DEF Queued

\* push_back
LEMMA QueuedPush ==
  ASSUME NEW s \in Seq(MessageEvent), NEW m \in MessageEvent, NEW rid
  PROVE  /\ s \o <<m>> \in Seq(MessageEvent)
         /\ Queued(s \o <<m>>, rid) = Queued(s, rid) + One(IsRequest(m, rid))
<1> DEFINE t == s \o <<m>>
           n == Len(s)
<1>1. /\ n \in Nat /\ t \in Seq(MessageEvent) /\ Len(t) = n + 1
      /\ t[n + 1] = m /\ \A i \in 1..n : t[i] = s[i]
  OBVIOUS
<1> HIDE DEF t
<1>2. CASE IsRequest(m, rid)
  <2>1. Positions(t, rid) = Positions(s, rid) \cup {n + 1}
    BY <1>1, <1>2 DEF Positions
  <2>2. n + 1 \notin Positions(s, rid)
    BY <1>1 DEF Positions
  <2> QED BY <1>1, <1>2, <2>1, <2>2, PositionsFinite, FS_AddElement, ZenonT(30) DEF Queued, One, t
<1>3. CASE ~IsRequest(m, rid)
  <2>1. Positions(t, rid) = Positions(s, rid)
    BY <1>1, <1>3 DEF Positions
  <2> QED BY <1>1, <1>3, <2>1, PositionsFinite DEF Queued, One, t
<1> QED BY <1>2, <1>3

\* VecDeque::remove and pop_front
LEMMA QueuedRemove ==
  ASSUME NEW s \in Seq(MessageEvent), NEW p \in 0..(Len(s) - 1), NEW rid
  PROVE  /\ VecRemove(s, p) \in Seq(MessageEvent)
         /\ Queued(VecRemove(s, p), rid) = Queued(s, rid) - One(IsRequest(s[p + 1], rid))
<1> DEFINE t == VecRemove(s, p)
           n == Len(s)
           S == Positions(s, rid) \ {p + 1}
           T == Positions(t, rid)
           f == [i \in T |-> IF i <= p THEN i ELSE i + 1]
<1>1. /\ n \in Nat /\ p \in Nat /\ p + 1 \in 1..n /\ n - 1 \in Nat
      /\ \A i \in 1..n : s[i] \in MessageEvent
  OBVIOUS
<1>2. t = [i \in 1..(n - 1) |-> IF i <= p THEN s[i] ELSE s[i + 1]]
  BY DEF VecRemove
<1>3. /\ t \in Seq(MessageEvent) /\ Len(t) = n - 1
      /\ \A i \in 1..(n - 1) : t[i] = IF i <= p THEN s[i] ELSE s[i + 1]
  BY <1>1, <1>2
<1> HIDE DEF t
<1>4. /\ \A i \in T : i \in 1..(n - 1) /\ IsRequest(t[i], rid)
      /\ \A i \in S : i \in 1..n /\ i # p + 1 /\ IsRequest(s[i], rid)
  BY <1>3 DEF Positions
<1>5. f \in [T -> S]
  BY <1>1, <1>3, <1>4 DEF Positions
<1>6. \A i, j \in T : f[i] = f[j] => i = j
  BY <1>1, <1>4
<1>7. \A j \in S : \E i \in T : f[i] = j
  <2> SUFFICES ASSUME NEW j \in S PROVE \E i \in T : f[i] = j
    OBVIOUS
  <2>1. CASE j <= p
    <3>1. j \in T
      BY <1>1, <1>3, <1>4, <2>1 DEF Positions
    <3> QED BY <2>1, <3>1
  <2>2. CASE j > p
    <3>1. j - 1 \in T /\ ~(j - 1 <= p) /\ (j - 1) + 1 = j
      BY <1>1, <1>3, <1>4, <2>2 DEF Positions
    <3> QED BY <3>1
  <2> QED BY <1>1, <1>4, <2>1, <2>2
<1>8. ExistsBijection(T, S)
  <2>1. f \in Injection(T, S)
    BY <1>5, <1>6 DEF Injection, IsInjective
  <2>2. f \in Surjection(T, S)
    BY <1>5, <1>7 DEF Surjection
  <2> QED BY <2>1, <2>2, Zenon DEF ExistsBijection, Bijection
<1>9. Cardinality(S) = Cardinality(T)
  BY <1>3, <1>8, PositionsFinite, FS_Bijection
<1>10. Cardinality(S) = Queued(s, rid) - One(IsRequest(s[p + 1], rid))
  <2>1. p + 1 \in Positions(s, rid) <=> IsRequest(s[p + 1], rid)
    BY <1>1 DEF Positions
  <2>2. IsFiniteSet(Positions(s, rid)) /\ Queued(s, rid) \in Nat
    BY PositionsFinite
  <2>3. Cardinality(S) = IF p + 1 \in Positions(s, rid)
                         THEN Cardinality(Positions(s, rid)) - 1 ELSE Cardinality(Positions(s, rid))
    BY <2>2, FS_RemoveElement, Zenon
  <2> QED BY <2>1, <2>2, <2>3 DEF Queued, One
<1> QED BY <1>3, <1>9, <1>10 DEF Queued, t

LEMMA TailRemoves ==
  ASSUME NEW s \in Seq(MessageEvent), s # << >>
  PROVE  Tail(s) = VecRemove(s, 0)
<1> DEFINE t == VecRemove(s, 0)
           n == Len(s)
<1>1. n \in Nat /\ n >= 1 /\ \A i \in 1..n : s[i] \in MessageEvent
  OBVIOUS
<1>2. t = [i \in 1..(n - 1) |-> s[i + 1]]
  BY <1>1 DEF VecRemove
<1>3. t \in Seq(MessageEvent) /\ Len(t) = n - 1 /\ \A i \in 1..(n - 1) : t[i] = s[i + 1]
  BY <1>1, <1>2
<1>4. Tail(s) \in Seq(MessageEvent) /\ Len(Tail(s)) = n - 1 /\ \A i \in 1..(n - 1) : Tail(s)[i] = s[i + 1]
  BY <1>1
<1> HIDE DEF t
<1> QED BY <1>3, <1>4 DEF t

-----------------------------------------------------------------------------
(* The specification. *)

\* How many times a request is in the queue s, is the message f that is flushed,
\* is in recv, or was closed according to cl
Held(s, f, recv, cl, r) == Queued(s, r) + One(IsRequest(f, r)) + One(r \in recv) + cl[r]

AccountedFor(s, f, recv, cl) ==
  \A r \in RequestId :
    IF r \in punched THEN Held(s, f, recv, cl, r) \in 1..2
                     ELSE Held(s, f, recv, cl, r) = One(r \in requests)

\* How many ids ago r was last the next id
Behind(r) == IF r < next_req_id THEN next_req_id - r ELSE next_req_id - r + RequestIds

\* The requests have the latest ids.
IdsInOrder ==
  /\ IsFiniteSet(requests)
  /\ \A r \in RequestId : r \in requests <=> Behind(r) <= Cardinality(requests)

\* The messages that make an event have a request id and come from a peer.
InboxOK ==
  \A d \in inbox : d.ty \in {"Query", "Update", "Response"} => d.rid \in RequestId /\ d.peer \in Addr

\* The inductive invariant.
Inv ==
  /\ TypeOK /\ closed \in [RequestId -> Nat] /\ punched \subseteq requests
  /\ SocketOK(socket, pending_flush)
  /\ IdsInOrder
  /\ AccountedFor(pending_send, pending_flush, pending_recv, closed)
  /\ InboxOK

LEMMA HeldType ==
  ASSUME NEW s \in Seq(MessageEvent), NEW f, NEW recv, NEW cl \in [RequestId -> Nat],
         NEW r \in RequestId
  PROVE  /\ Queued(s, r) \in Nat /\ cl[r] \in Nat /\ Held(s, f, recv, cl, r) \in Nat
         /\ One(IsRequest(f, r)) \in {0, 1} /\ One(r \in recv) \in {0, 1}
<1>1. Queued(s, r) \in Nat
  BY PositionsFinite
<1>2. One(IsRequest(f, r)) \in {0, 1} /\ One(r \in recv) \in {0, 1}
  BY DEF One
<1>3. cl[r] \in Nat
  OBVIOUS
<1> QED BY <1>1, <1>2, <1>3 DEF Held

\* There is nothing where the message to flush would be.
LEMMA NoneIsNoRequest ==
  ASSUME NEW r \in RequestId
  PROVE  ~IsRequest(None, r)
BY IoAssumption DEF IsRequest, MessageEvent

LEMMA InvInit == Init => Inv
<1> SUFFICES ASSUME Init PROVE Inv
  OBVIOUS
<1>1. TypeOK /\ closed \in [RequestId -> Nat] /\ punched \subseteq requests
  BY DEF Init, TypeOK
<1>2. SocketOK(socket, pending_flush)
  BY NewSocketOK DEF Init
<1>3. IdsInOrder
  <2>1. IsFiniteSet(requests) /\ Cardinality(requests) = 0 /\ requests = {}
    BY FS_EmptySet DEF Init
  <2>2. \A r \in RequestId : Behind(r) > 0
    BY IoAssumption DEF Init, Behind, RequestId
  <2>3. \A r \in RequestId : Behind(r) \in Int
    BY IoAssumption DEF Init, Behind, RequestId
  <2> QED BY <2>1, <2>2, <2>3 DEF IdsInOrder
<1>4. AccountedFor(pending_send, pending_flush, pending_recv, closed)
  <2> SUFFICES ASSUME NEW r \in RequestId
               PROVE  Held(pending_send, pending_flush, pending_recv, closed, r) = 0
    BY DEF AccountedFor, Init, One
  <2>1. Queued(pending_send, r) = 0
    BY QueuedEmpty DEF Init
  <2>2. One(IsRequest(pending_flush, r)) = 0 /\ One(r \in pending_recv) = 0 /\ closed[r] = 0
    BY NoneIsNoRequest DEF Init, One
  <2> QED BY <2>1, <2>2 DEF Held
<1>5. InboxOK
  BY DEF Init, InboxOK
<1> QED BY <1>1, <1>2, <1>3, <1>4, <1>5 DEF Inv

\* next_req_id wraps around; the new id is one that no request has.
LEMMA NextIdStep ==
  ASSUME next_req_id \in RequestId, requests \subseteq RequestId, IdsInOrder,
         Cardinality(requests) < MaxRequests, NextReqId,
         requests' = requests \cup {next_req_id}
  PROVE  next_req_id \notin requests /\ next_req_id' \in RequestId /\ IdsInOrder'
<1> DEFINE x == next_req_id
           N == RequestIds
           c == Cardinality(requests)
<1>1. N \in Nat \ {0} /\ x \in 0..(N - 1) /\ MaxRequests \in 1..N
  BY IoAssumption DEF RequestId
<1>2. x' = IF x + 1 = N THEN 0 ELSE x + 1
  <2>1. x' = (x + 1) % N
    BY DEF NextReqId
  <2>2. CASE x + 1 = N
    BY <1>1, <2>1, <2>2, Z3
  <2>3. CASE x + 1 < N
    BY <1>1, <2>1, <2>3
  <2> QED BY <1>1, <2>2, <2>3
<1>3. c \in Nat /\ IsFiniteSet(requests)
  BY FS_CardinalityType DEF IdsInOrder
<1>4. Behind(x) = N
  BY <1>1 DEF Behind
<1>5. x \notin requests
  BY <1>1, <1>3, <1>4 DEF IdsInOrder
<1>6. IsFiniteSet(requests') /\ Cardinality(requests') = c + 1
  BY <1>3, <1>5, FS_AddElement
<1>7. ASSUME NEW r \in RequestId
      PROVE  r \in requests' <=> Behind(r)' <= c + 1
  <2>1. r \in 0..(N - 1) /\ Behind(r) \in Int
    BY <1>1 DEF RequestId, Behind
  <2>2. Behind(r)' = IF r < x' THEN x' - r ELSE x' - r + N
    BY DEF Behind
  <2>3. CASE r = x
    BY <1>1, <1>2, <1>3, <2>1, <2>2, <2>3
  <2>4. CASE r # x
    <3>1. Behind(r)' = Behind(r) + 1
      BY <1>1, <1>2, <2>1, <2>2, <2>4 DEF Behind
    <3> QED BY <1>3, <2>1, <2>4, <3>1 DEF IdsInOrder
  <2> QED BY <2>3, <2>4
<1> QED BY <1>1, <1>2, <1>5, <1>6, <1>7 DEF IdsInOrder, RequestId

LEMMA SendRequestStep ==
  ASSUME Inv, NEW holepunch \in BOOLEAN, SendRequest(holepunch)
  PROVE  Inv'
<1> DEFINE m == [ty |-> "Request", rid |-> next_req_id]
           x == next_req_id
           s == pending_send
           t == s \o <<m>>
<1>1. /\ Cardinality(requests) < MaxRequests /\ NextReqId
      /\ pending_send' = IF holepunch THEN s \o <<m, m>> ELSE s \o <<m>>
      /\ requests' = requests \cup {x}
      /\ punched' = IF holepunch THEN punched \cup {x} ELSE punched
      /\ UNCHANGED <<pending_flush, pending_recv, secrets, last_rotation, socket, event,
                     inbox, closed, issued>>
  BY DEF SendRequest, Push
<1>2. /\ x \in RequestId /\ s \in Seq(MessageEvent) /\ closed \in [RequestId -> Nat]
      /\ requests \subseteq RequestId /\ punched \subseteq requests
  BY DEF Inv, TypeOK
<1>3. x \notin requests /\ x' \in RequestId /\ IdsInOrder'
  BY <1>1, <1>2, NextIdStep DEF Inv
<1>4. m \in MessageEvent
  BY <1>2 DEF MessageEvent
<1>5. t \in Seq(MessageEvent) /\ t \o <<m>> \in Seq(MessageEvent) /\ s \o <<m, m>> = t \o <<m>>
  BY <1>2, <1>4
<1>6. ASSUME NEW r \in RequestId
      PROVE  /\ Queued(t, r) = Queued(s, r) + One(r = x)
             /\ Queued(t \o <<m>>, r) = Queued(s, r) + 2 * One(r = x)
  <2>1. One(IsRequest(m, r)) = One(r = x) /\ One(r = x) \in {0, 1}
    BY <1>2 DEF IsRequest, One
  <2> HIDE DEF m
  <2>2. Queued(s, r) \in Nat
    BY <1>2, PositionsFinite
  <2>3. Queued(t, r) = Queued(s, r) + One(IsRequest(m, r))
    BY <1>2, <1>4, QueuedPush
  <2> HIDE DEF t
  <2>4. Queued(t \o <<m>>, r) = Queued(t, r) + One(IsRequest(m, r))
    BY <1>4, <1>5, QueuedPush
  <2> QED BY <2>1, <2>2, <2>3, <2>4
<1>7. pending_send' \in Seq(MessageEvent)
  BY <1>1, <1>5
<1>8. AccountedFor(pending_send, pending_flush, pending_recv, closed)'
  <2> SUFFICES ASSUME NEW r \in RequestId
               PROVE  IF r \in punched'
                      THEN Held(pending_send', pending_flush, pending_recv, closed, r) \in 1..2
                      ELSE Held(pending_send', pending_flush, pending_recv, closed, r) = One(r \in requests')
    BY <1>1 DEF AccountedFor
  <2> DEFINE h == Held(s, pending_flush, pending_recv, closed, r)
  <2>1. h \in Nat /\ Queued(s, r) \in Nat
    BY <1>2, HeldType, Zenon
  <2>2. IF r \in punched THEN h \in 1..2 ELSE h = One(r \in requests)
    BY DEF Inv, AccountedFor
  <2>3. Held(pending_send', pending_flush, pending_recv, closed, r)
          = h + (IF r = x THEN (IF holepunch THEN 2 ELSE 1) ELSE 0)
    <3>1. Queued(pending_send', r) = Queued(s, r) + (IF r = x THEN (IF holepunch THEN 2 ELSE 1) ELSE 0)
      <4>1. Queued(t, r) = Queued(s, r) + One(r = x) /\ Queued(t \o <<m>>, r) = Queued(s, r) + 2 * One(r = x)
        BY <1>6
      <4>2. pending_send' = IF holepunch THEN t \o <<m>> ELSE t
        BY <1>1, <1>5, Zenon
      <4> HIDE DEF t, m
      <4> QED BY <2>1, <4>1, <4>2 DEF One
    <3>2. One(IsRequest(pending_flush, r)) \in Nat /\ One(r \in pending_recv) \in Nat /\ closed[r] \in Nat
      BY <1>2 DEF One
    <3> QED BY <2>1, <3>1, <3>2 DEF Held
  <2> HIDE DEF h
  <2>4. CASE r = x
    BY <1>1, <1>2, <1>3, <2>1, <2>2, <2>3, <2>4 DEF One
  <2>5. CASE r # x
    BY <1>1, <2>1, <2>2, <2>3, <2>5 DEF One
  <2> QED BY <2>4, <2>5
<1>9. TypeOK' /\ closed' \in [RequestId -> Nat] /\ punched' \subseteq requests'
  BY <1>1, <1>2, <1>3, <1>7 DEF Inv, TypeOK
<1> QED BY <1>1, <1>3, <1>8, <1>9, Zenon DEF Inv, InboxOK

LEMMA SendResponseStep ==
  ASSUME Inv, NEW ok \in BOOLEAN, SendResponse(ok)
  PROVE  Inv'
<1> DEFINE m == [ty |-> "Response", rid |-> event.rid]
           s == pending_send
<1>1. /\ event # None /\ event.tag = "InRequest"
      /\ pending_send' = s \o <<m>>
      /\ issued' = issued \/ issued' = token(event.peer, secrets[1])
      /\ event' = None
      /\ UNCHANGED <<next_req_id, pending_flush, pending_recv, secrets, last_rotation, socket,
                     inbox, requests, punched, closed>>
  BY DEF SendResponse, Push
<1>2. event \in IoHandlerEvent /\ event.peer \in Addr /\ s \in Seq(MessageEvent)
  BY <1>1 DEF Inv, TypeOK, IoHandlerEvent
<1>3. m \in MessageEvent
  BY <1>2 DEF MessageEvent, IoHandlerEvent
<1>4. \A r \in RequestId : ~IsRequest(m, r)
  BY DEF IsRequest
<1> HIDE DEF m
<1>5. pending_send' \in Seq(MessageEvent)
  BY <1>1, <1>2, <1>3
<1>6. ASSUME NEW r \in RequestId PROVE Queued(pending_send', r) = Queued(s, r)
  <2>1. Queued(s, r) \in Nat /\ One(IsRequest(m, r)) = 0
    BY <1>2, <1>4, PositionsFinite DEF One
  <2>2. Queued(s \o <<m>>, r) = Queued(s, r) + One(IsRequest(m, r))
    BY <1>2, <1>3, QueuedPush, Zenon
  <2> QED BY <1>1, <2>1, <2>2
<1>7. AccountedFor(pending_send, pending_flush, pending_recv, closed)'
  BY <1>1, <1>6, Zenon DEF Inv, AccountedFor, Held
<1>8. issued' \in Token \cup {None}
  <2>1. secrets[1] \in {1, 2}
    BY DEF Inv, TypeOK
  <2> QED BY <1>1, <1>2, <2>1 DEF Inv, TypeOK, token, Token
<1>9. TypeOK'
  BY <1>1, <1>5, <1>8 DEF Inv, TypeOK
<1> QED BY <1>1, <1>7, <1>9 DEF Inv, IdsInOrder, Behind, InboxOK

\* A request that is removed from pending_recv counts as closed.
LEMMA CloseOK ==
  ASSUME NEW s \in Seq(MessageEvent), NEW f, closed \in [RequestId -> Nat],
         AccountedFor(s, f, pending_recv, closed), NEW rid \in RequestId, rid \in pending_recv
  PROVE  AccountedFor(s, f, pending_recv \ {rid}, [closed EXCEPT ![rid] = @ + 1])
<1> DEFINE c == [closed EXCEPT ![rid] = @ + 1]
           v == pending_recv \ {rid}
<1> SUFFICES ASSUME NEW r \in RequestId
             PROVE  Held(s, f, v, c, r) = Held(s, f, pending_recv, closed, r)
  BY Zenon DEF AccountedFor
<1>1. Queued(s, r) \in Nat /\ One(IsRequest(f, r)) \in Nat /\ closed[r] \in Nat
  BY HeldType, Zenon DEF One
<1>2. One(r \in v) + c[r] = One(r \in pending_recv) + closed[r]
  BY <1>1 DEF One
<1>3. One(r \in v) \in Nat /\ c[r] \in Nat /\ One(r \in pending_recv) \in Nat
  BY DEF One
<1> HIDE DEF c, v
<1> QED BY <1>1, <1>2, <1>3 DEF Held

LEMMA CancelStep ==
  ASSUME Inv, NEW rid \in RequestId, Cancel(rid)
  PROVE  Inv'
<1> DEFINE s == pending_send
           pos == {i \in 1..Len(s) : s[i].rid = rid}
           i == CHOOSE j \in pos : \A l \in pos : j <= l
<1>1. /\ \/ /\ pos # {} /\ pending_send' = VecRemove(s, i - 1)
            /\ closed' = IF s[i].ty = "Request" THEN [closed EXCEPT ![rid] = @ + 1] ELSE closed
            /\ UNCHANGED pending_recv
         \/ /\ pos = {} /\ rid \in pending_recv
            /\ pending_recv' = pending_recv \ {rid}
            /\ closed' = [closed EXCEPT ![rid] = @ + 1]
            /\ UNCHANGED pending_send
      /\ UNCHANGED <<next_req_id, pending_flush, secrets, last_rotation, socket, event,
                     inbox, requests, punched, issued>>
  BY DEF Cancel
<1>2. s \in Seq(MessageEvent) /\ closed \in [RequestId -> Nat]
  BY DEF Inv, TypeOK
<1>3. closed' \in [RequestId -> Nat]
  <2>1. closed' = closed \/ closed' = [closed EXCEPT ![rid] = @ + 1]
    BY <1>1
  <2> QED BY <1>2, <2>1
<1>4. /\ pending_send' \in Seq(MessageEvent)
      /\ AccountedFor(pending_send, pending_flush, pending_recv, closed)'
  <2>1. CASE pos # {}
    <3>1. i \in pos
      <4>1. \E j \in pos : \A l \in pos : j <= l
        <5>1. pos \subseteq Nat
          OBVIOUS
        <5> HIDE DEF pos
        <5> QED BY <2>1, <5>1, LeastNatural
      <4> HIDE DEF pos
      <4> QED BY <4>1
    <3>2. i \in 1..Len(s) /\ s[i].rid = rid
      BY <3>1, Zenon
    <3>3. pending_send' = VecRemove(s, i - 1) /\ UNCHANGED <<pending_recv, pending_flush, requests, punched>>
          /\ closed' = IF s[i].ty = "Request" THEN [closed EXCEPT ![rid] = @ + 1] ELSE closed
      BY <1>1, <2>1, Zenon
    <3> HIDE DEF pos, i
    <3>4. i - 1 \in 0..(Len(s) - 1) /\ (i - 1) + 1 = i /\ s[i] \in MessageEvent
      BY <1>2, <3>2
    <3>5. pending_send' \in Seq(MessageEvent)
      BY <1>2, <3>3, <3>4, QueuedRemove, Zenon
    <3>6. ASSUME NEW r \in RequestId
          PROVE  Held(pending_send', pending_flush, pending_recv, closed', r)
                   = Held(s, pending_flush, pending_recv, closed, r)
      <4>1. Queued(pending_send', r) = Queued(s, r) - One(IsRequest(s[i], r))
        BY <1>2, <3>3, <3>4, QueuedRemove, Zenon
      <4>2. IsRequest(s[i], r) <=> r = rid /\ s[i].ty = "Request"
        BY <3>2, <3>4 DEF IsRequest, MessageEvent
      <4>3. closed'[r] = closed[r] + One(IsRequest(s[i], r))
        BY <1>2, <3>3, <4>2 DEF One
      <4>4. /\ Queued(s, r) \in Nat /\ closed[r] \in Nat /\ One(IsRequest(s[i], r)) \in Nat
            /\ One(IsRequest(pending_flush, r)) \in Nat /\ One(r \in pending_recv) \in Nat
        BY <1>2, PositionsFinite DEF One
      <4> QED BY <4>1, <4>3, <4>4 DEF Held
    <3> QED BY <3>3, <3>5, <3>6, Zenon DEF Inv, AccountedFor
  <2>2. CASE pos = {}
    <3>1. /\ rid \in pending_recv /\ pending_recv' = pending_recv \ {rid}
          /\ closed' = [closed EXCEPT ![rid] = @ + 1]
          /\ UNCHANGED <<pending_send, pending_flush, requests, punched>>
      BY <1>1, <2>2
    <3>2. AccountedFor(s, pending_flush, pending_recv \ {rid}, [closed EXCEPT ![rid] = @ + 1])
      BY <1>2, <3>1, CloseOK, Zenon DEF Inv
    <3> QED BY <1>2, <3>1, <3>2, Zenon DEF AccountedFor
  <2> QED BY <2>1, <2>2
<1>5. pending_recv' \subseteq pending_recv
  BY <1>1, Zenon
<1>6. TypeOK'
  BY <1>1, <1>4, <1>5, Zenon DEF Inv, TypeOK
<1> QED BY <1>1, <1>3, <1>4, <1>6, Zenon DEF Inv, IdsInOrder, Behind, InboxOK

-----------------------------------------------------------------------------
(* poll_next *)

\* What reading a message, or finding none, leaves
ReadLeaves(q, f) ==
  /\ SocketOK(socket', f) /\ inbox' \subseteq inbox
  /\ pending_recv' \subseteq pending_recv /\ closed' \in [RequestId -> Nat]
  /\ AccountedFor(q, f, pending_recv', closed')
  /\ secrets' \in {<<1, 2>>, <<2, 1>>}
  /\ event' \in IoHandlerEvent \cup {None}

LEMMA RotateOK ==
  ASSUME secrets \in {<<1, 2>>, <<2, 1>>}, Rotate
  PROVE  secrets' \in {<<1, 2>>, <<2, 1>>}
BY DEF Rotate

LEMMA OnResponseStep ==
  ASSUME Inv, NEW rid \in RequestId, NEW peer \in Addr, OnResponse(rid, peer),
         NEW f, NEW q \in Seq(MessageEvent), AccountedFor(q, f, pending_recv, closed)
  PROVE  /\ pending_recv' \subseteq pending_recv /\ closed' \in [RequestId -> Nat]
         /\ AccountedFor(q, f, pending_recv', closed')
         /\ event' \in IoHandlerEvent \cup {None}
<1>1. pending_recv \subseteq RequestId /\ closed \in [RequestId -> Nat]
  BY DEF Inv, TypeOK
<1>2. CASE rid \in pending_recv
  <2>1. /\ pending_recv' = pending_recv \ {rid} /\ event' = None
        /\ closed' = [closed EXCEPT ![rid] = @ + 1]
    BY <1>2 DEF OnResponse
  <2>2. AccountedFor(q, f, pending_recv \ {rid}, [closed EXCEPT ![rid] = @ + 1])
    BY <1>1, <1>2, CloseOK, Zenon
  <2>3. AccountedFor(q, f, pending_recv', closed')
    BY <2>1, <2>2
  <2> QED BY <1>1, <2>1, <2>3
<1>3. CASE rid \notin pending_recv
  <2>1. /\ event' = [tag |-> "InResponseBadRequestId", rid |-> rid, peer |-> peer]
        /\ pending_recv' = pending_recv /\ closed' = closed
    BY <1>3 DEF OnResponse
  <2>2. event' \in IoHandlerEvent
    BY <2>1 DEF IoHandlerEvent
  <2>3. AccountedFor(q, f, pending_recv', closed')
    BY <2>1
  <2> QED BY <1>1, <2>1, <2>2, <2>3
<1> QED BY <1>2, <1>3

LEMMA ReadStep ==
  ASSUME Inv, NEW sock, Read(sock), NEW f, SocketOK(sock, f),
         NEW q \in Seq(MessageEvent), AccountedFor(q, f, pending_recv, closed)
  PROVE  ReadLeaves(q, f)
<1>1. SocketOK(RecvPending(sock), f) /\ SocketOK(RecvReady(sock), f)
  BY RecvOK
<1>2. /\ pending_recv \subseteq RequestId /\ closed \in [RequestId -> Nat]
      /\ secrets \in {<<1, 2>>, <<2, 1>>}
  BY DEF Inv, TypeOK
<1>3. ASSUME event' = None, pending_recv' = pending_recv, closed' = closed
      PROVE  /\ pending_recv' \subseteq pending_recv /\ closed' \in [RequestId -> Nat]
             /\ AccountedFor(q, f, pending_recv', closed')
             /\ event' \in IoHandlerEvent \cup {None}
  <2>1. AccountedFor(q, f, pending_recv', closed')
    BY <1>3
  <2> QED BY <1>2, <1>3, <2>1
<1>4. ASSUME ReturnPending, inbox' \subseteq inbox, SocketOK(socket', f)
      PROVE  ReadLeaves(q, f)
  <2>1. event' = None /\ pending_recv' = pending_recv /\ closed' = closed
    BY <1>4 DEF ReturnPending
  <2>2. secrets' \in {<<1, 2>>, <<2, 1>>}
    BY <1>2, <1>4, RotateOK DEF ReturnPending
  <2> QED BY <1>3, <1>4, <2>1, <2>2 DEF ReadLeaves
<1>5. CASE socket' = RecvPending(sock) /\ ReturnPending /\ UNCHANGED inbox
  BY <1>1, <1>4, <1>5
<1>6. ASSUME NEW d \in inbox, inbox' = inbox \ {d}, socket' = RecvReady(sock), OnMessage(d)
      PROVE  ReadLeaves(q, f)
  <2>1. inbox' \subseteq inbox /\ SocketOK(socket', f)
    BY <1>1, <1>6, Zenon
  <2>2. CASE d.ty = "Response" /\ OnResponse(d.rid, d.peer) /\ UNCHANGED secrets
    <3>1. d.rid \in RequestId /\ d.peer \in Addr
      BY <2>2 DEF Inv, InboxOK
    <3> QED BY <1>2, <2>1, <2>2, <3>1, OnResponseStep DEF ReadLeaves
  <2>3. CASE /\ d.ty = "Query" \/ (d.ty = "Update" /\ TokenMatches(d))
             /\ event' = [tag |-> "InRequest", rid |-> d.rid, peer |-> d.peer]
             /\ UNCHANGED <<pending_recv, closed, secrets>>
    <3>1. d.rid \in RequestId /\ d.peer \in Addr
      BY <2>3 DEF Inv, InboxOK
    <3>2. event' \in IoHandlerEvent
      BY <2>3, <3>1, Zenon DEF IoHandlerEvent
    <3>3. AccountedFor(q, f, pending_recv', closed')
      BY <2>3
    <3> QED BY <1>2, <2>1, <2>3, <3>2, <3>3 DEF ReadLeaves
  <2>4. CASE d.ty = "Undecodable" /\ event' = None /\ UNCHANGED <<pending_recv, closed, secrets>>
    BY <1>2, <1>3, <2>1, <2>4 DEF ReadLeaves
  <2>5. CASE ReturnPending
    BY <1>4, <2>1, <2>5, Zenon
  <2> QED BY <1>6, <2>2, <2>3, <2>4, <2>5, Zenon DEF OnMessage
<1> QED BY <1>5, <1>6 DEF Read

LEMMA AwaitOK ==
  ASSUME NEW m \in MessageEvent, NEW q \in Seq(MessageEvent), closed \in [RequestId -> Nat],
         AccountedFor(q, m, pending_recv, closed), Await(m)
  PROVE  AccountedFor(q, None, pending_recv', closed)
<1> SUFFICES ASSUME NEW r \in RequestId
             PROVE  IF r \in punched THEN Held(q, None, pending_recv', closed, r) \in 1..2
                    ELSE Held(q, None, pending_recv', closed, r) = One(r \in requests)
  BY DEF AccountedFor
<1>1. Queued(q, r) \in Nat /\ closed[r] \in Nat
  BY HeldType, Zenon
<1>2. IF r \in punched THEN Held(q, m, pending_recv, closed, r) \in 1..2
      ELSE Held(q, m, pending_recv, closed, r) = One(r \in requests)
  BY DEF AccountedFor
<1>3. One(IsRequest(None, r)) = 0
  BY NoneIsNoRequest DEF One
<1>4. r \in pending_recv' <=> r \in pending_recv \/ IsRequest(m, r)
  BY DEF Await, IsRequest, MessageEvent
<1>5. Held(q, None, pending_recv', closed, r)
        = Queued(q, r) + One(r \in pending_recv \/ IsRequest(m, r)) + closed[r]
  BY <1>1, <1>3, <1>4 DEF Held, One
<1> HIDE DEF Held
<1>6. Held(q, m, pending_recv, closed, r)
        = Queued(q, r) + One(IsRequest(m, r)) + One(r \in pending_recv) + closed[r]
  BY DEF Held
<1> QED BY <1>1, <1>2, <1>5, <1>6 DEF One

LEMMA PollWithStep ==
  ASSUME Inv, NEW f \in MessageEvent \cup {None}, NEW sock, SocketOK(sock, f),
         pending_send' \in Seq(MessageEvent),
         AccountedFor(pending_send', f, pending_recv, closed),
         PollWith(f, sock), UNCHANGED <<next_req_id, requests, punched, issued>>
  PROVE  Inv'
<1>1. pending_recv \subseteq RequestId /\ closed \in [RequestId -> Nat]
  BY DEF Inv, TypeOK
<1>2. IdsInOrder' /\ punched' \subseteq requests'
  BY Zenon DEF Inv, IdsInOrder, Behind
<1>3. CASE f # None /\ Flushed(f, sock)
  <2>1. /\ socket' = FlushReady(sock) /\ pending_flush' = None /\ Await(f) /\ event' = None
        /\ secrets' = secrets /\ last_rotation' = last_rotation /\ inbox' = inbox /\ closed' = closed
    BY <1>3 DEF Flushed
  <2>2. f \in MessageEvent /\ f.rid \in RequestId
    BY <1>3, Zenon DEF MessageEvent
  <2>3. SocketOK(socket', pending_flush')
    BY <2>1, FlushReadyOK, Zenon
  <2>4. AccountedFor(pending_send', None, pending_recv', closed)
    BY <1>1, <2>1, <2>2, AwaitOK, ZenonT(30)
  <2>5. AccountedFor(pending_send, pending_flush, pending_recv, closed)'
    BY <2>1, <2>4, Zenon DEF AccountedFor
  <2>6. pending_recv' \subseteq RequestId
    BY <1>1, <2>1, <2>2, Zenon DEF Await
  <2>7. TypeOK'
    BY <1>1, <2>1, <2>2, <2>6, Zenon DEF Inv, TypeOK
  <2>8. InboxOK'
    BY <2>1 DEF Inv, InboxOK
  <2> QED BY <1>1, <1>2, <2>1, <2>3, <2>5, <2>7, <2>8, Zenon DEF Inv
<1>4. CASE /\ pending_flush' = f
           /\ IF f = None THEN Read(sock) ELSE ~sock.flushed /\ Read(FlushPending(sock))
           /\ UNCHANGED last_rotation
  <2>1. ReadLeaves(pending_send', f)
    <3>1. CASE f = None
      BY <1>4, <3>1, ReadStep
    <3>2. CASE f # None
      <4>1. SocketOK(FlushPending(sock), f) /\ Read(FlushPending(sock))
        BY <1>4, <3>2, FlushPendingOK, Zenon
      <4> QED BY <4>1, ReadStep
    <3> QED BY <3>1, <3>2
  <2>2. AccountedFor(pending_send, pending_flush, pending_recv, closed)'
    BY <1>4, <2>1, Zenon DEF ReadLeaves, AccountedFor
  <2>3. TypeOK'
    BY <1>1, <1>4, <2>1, Zenon DEF Inv, TypeOK, ReadLeaves
  <2>4. InboxOK'
    BY <2>1 DEF Inv, InboxOK, ReadLeaves
  <2>5. SocketOK(socket', pending_flush') /\ closed' \in [RequestId -> Nat]
    BY <1>4, <2>1, ZenonT(30) DEF ReadLeaves
  <2> QED BY <1>2, <2>2, <2>3, <2>4, <2>5, Zenon DEF Inv
<1> QED BY <1>3, <1>4 DEF PollWith

LEMMA PollStep == Inv /\ Poll => Inv'
<1> SUFFICES ASSUME Inv, Poll PROVE Inv'
  OBVIOUS
<1> DEFINE s == pending_send
           f == pending_flush
           m == Head(s)
<1>1. /\ s \in Seq(MessageEvent) /\ f \in MessageEvent \cup {None}
      /\ SocketOK(socket, f) /\ AccountedFor(s, f, pending_recv, closed)
      /\ closed \in [RequestId -> Nat]
      /\ UNCHANGED <<next_req_id, requests, punched, issued>>
  BY DEF Inv, TypeOK, Poll
<1>2. CASE f # None \/ s = << >>
  <2>1. PollWith(f, socket) /\ s' = s
    BY <1>2 DEF Poll
  <2> QED BY <1>1, <2>1, PollWithStep
<1>3. CASE f = None /\ s # << >>
  <2>1. m \in MessageEvent /\ m = s[1] /\ 0 \in 0..(Len(s) - 1) /\ Tail(s) \in Seq(MessageEvent)
    BY <1>1, <1>3
  <2>2. CanStartSend(socket) /\ SocketOK(StartSend(socket, m), m)
    BY <1>1, <1>3, <2>1, StartSendOK
  <2>3. s' = Tail(s) /\ PollWith(m, StartSend(socket, m))
    BY <1>3, <2>2 DEF Poll
  <2>4. Tail(s) = VecRemove(s, 0)
    BY <1>1, <1>3, TailRemoves
  <2>5. AccountedFor(Tail(s), m, pending_recv, closed)
    <3> SUFFICES ASSUME NEW r \in RequestId
                 PROVE  Held(Tail(s), m, pending_recv, closed, r) = Held(s, f, pending_recv, closed, r)
      BY <1>1 DEF AccountedFor
    <3>1. Queued(VecRemove(s, 0), r) = Queued(s, r) - One(IsRequest(s[0 + 1], r))
      BY <1>1, <2>1, QueuedRemove
    <3>2. One(IsRequest(f, r)) = 0
      BY <1>3, NoneIsNoRequest DEF One
    <3>3. Queued(s, r) \in Nat /\ closed[r] \in Nat
      BY <1>1, HeldType, Zenon
    <3>4. One(IsRequest(m, r)) \in Nat /\ One(r \in pending_recv) \in Nat
      BY DEF One
    <3>5. Queued(Tail(s), r) = Queued(s, r) - One(IsRequest(m, r))
      <4>1. 0 + 1 = 1
        OBVIOUS
      <4> QED BY ONLY <2>1, <2>4, <3>1, <4>1, Zenon
    <3> HIDE DEF m
    <3> QED BY <3>2, <3>3, <3>4, <3>5 DEF Held
  <2> HIDE DEF m
  <2> QED BY <1>1, <2>1, <2>2, <2>3, <2>5, PollWithStep, Zenon
<1> QED BY <1>2, <1>3

LEMMA SendStep ==
  ASSUME Inv, NEW d \in Datagram, Send(d),
         d.ty \in {"Query", "Update", "Response"} => d.rid \in RequestId /\ d.peer \in Addr
  PROVE  Inv'
<1>1. /\ inbox' = inbox \cup {d}
      /\ UNCHANGED <<next_req_id, pending_send, pending_flush, pending_recv, secrets, last_rotation,
                     socket, event, requests, punched, closed, issued>>
  BY DEF Send, network, history
<1>2. TypeOK' /\ InboxOK'
  BY <1>1, Zenon DEF Inv, TypeOK, InboxOK
<1> QED BY <1>1, <1>2 DEF Inv, IdsInOrder, Behind, AccountedFor

\* The steps that change nothing the invariant speaks of, or only lose datagrams
LEMMA QuietStep ==
  ASSUME Inv, inbox' \subseteq inbox, last_rotation' \in {"recent", "past"},
         UNCHANGED <<next_req_id, pending_send, pending_flush, pending_recv, secrets,
                     socket, event, requests, punched, closed, issued>>
  PROVE  Inv'
<1>1. TypeOK' /\ InboxOK'
  BY DEF Inv, TypeOK, InboxOK
<1> QED BY <1>1 DEF Inv, IdsInOrder, Behind, AccountedFor

LEMMA InvStep == Inv /\ [Next]_vars => Inv'
<1> SUFFICES ASSUME Inv, [Next]_vars PROVE Inv'
  OBVIOUS
<1>1. ASSUME NEW holepunch \in BOOLEAN, SendRequest(holepunch) PROVE Inv'
  BY <1>1, SendRequestStep
<1>2. ASSUME NEW ok \in BOOLEAN, SendResponse(ok) PROVE Inv'
  BY <1>2, SendResponseStep
<1>3. ASSUME NEW r \in RequestId, Cancel(r) PROVE Inv'
  BY <1>3, CancelStep
<1>4. CASE Poll
  BY <1>4, PollStep
<1>5. CASE Elapse
  BY <1>5, QuietStep DEF Elapse, history
<1>6. ASSUME NEW r \in RequestId, NEW p \in Addr, Answer(r, p) PROVE Inv'
  <2> DEFINE d == [ty |-> "Response", rid |-> r, peer |-> p, token |-> None]
  <2>1. d \in Datagram /\ d.rid = r /\ d.peer = p
    BY DEF Datagram
  <2>2. Send(d)
    BY <1>6 DEF Answer
  <2> HIDE DEF d
  <2> QED BY <2>1, <2>2, SendStep
<1>7. ASSUME NEW p \in Addr, NEW t \in Token \cup {None}, NEW ty \in {"Query", "Update"},
             Receive(ty, RemoteId, p, t)
      PROVE  Inv'
  <2> DEFINE d == [ty |-> ty, rid |-> RemoteId, peer |-> p, token |-> t]
  <2>1. d \in Datagram /\ d.rid \in RequestId /\ d.peer \in Addr
    BY IoAssumption DEF Datagram
  <2>2. Send(d)
    BY <1>7 DEF Receive
  <2> HIDE DEF d
  <2> QED BY <2>1, <2>2, SendStep
<1>8. ASSUME NEW ty \in {"Undecodable", "Malformed"}, Receive(ty, None, None, None) PROVE Inv'
  <2> DEFINE d == [ty |-> ty, rid |-> None, peer |-> None, token |-> None]
  <2>1. d \in Datagram /\ d.ty \notin {"Response", "Query", "Update"}
    BY DEF Datagram
  <2>2. Send(d)
    BY <1>8, Zenon DEF Receive
  <2> HIDE DEF d
  <2> QED BY <2>1, <2>2, SendStep
<1>9. ASSUME NEW d \in inbox, Lose(d) PROVE Inv'
  BY <1>9, QuietStep, Zenon DEF Lose, network, history, Inv, TypeOK
<1>10. CASE UNCHANGED vars
  BY <1>10, QuietStep DEF vars, history, Inv, TypeOK
<1>11. issued \in Token \cup {None}
  BY DEF Inv, TypeOK
<1> QED BY <1>1, <1>2, <1>3, <1>4, <1>5, <1>6, <1>7, <1>8, <1>9, <1>10, <1>11, Zenon DEF Next

-----------------------------------------------------------------------------
(* Theorems. *)

\* Every reachable state of the handler satisfies the inductive invariant.
THEOREM InvAlways == Spec => []Inv
BY InvInit, InvStep, PTL DEF Spec

\* rpc/io.rs:460-471, rpc/udp.rs:121-165: pending_flush and the socket agree on
\* the message that is being sent, so start_send never fails and never drops one.
THEOREM FlushMatchesSocketAlways == Spec => []FlushMatchesSocket
<1>1. Inv => FlushMatchesSocket
  BY DEF Inv, SocketOK, FlushMatchesSocket
<1> QED BY <1>1, InvAlways, PTL

\* rpc/io.rs:183-187, 371-381, 489-510: a request is in one place at a time and is
\* answered at most once, for every number of request ids and wherever they start.
THEOREM AccountedAlways == Spec => []Accounted
<1>1. Inv => Accounted
  <2> SUFFICES ASSUME Inv PROVE Accounted
    OBVIOUS
  <2>1. ASSUME NEW r \in RequestId
        PROVE  Places(r) = Held(pending_send, pending_flush, pending_recv, closed, r)
    BY DEF Places, Held, Queued, Positions, One
  <2>2. ASSUME NEW r \in RequestId
        PROVE  IF r \in punched THEN Places(r) \in 1..2
                                ELSE Places(r) = IF r \in requests THEN 1 ELSE 0
    BY <2>1 DEF Inv, AccountedFor, One
  <2>3. TypeOK
    BY DEF Inv
  <2> QED BY <2>2, <2>3 DEF Accounted
<1> QED BY <1>1, InvAlways, PTL

\* rpc/io.rs:407-420, 435-438: however often the secrets are swapped, poll_next
\* hands an Update with a token of its sender on to RpcDht.
THEOREM TokenStaysValidAlways == Spec => TokenStaysValid
<1> DEFINE A == \A d \in inbox :
                  d.ty = "Update" /\ d.token # None /\ d.token.addr = d.peer /\ Poll /\ d \notin inbox' =>
                    event' = [tag |-> "InRequest", rid |-> d.rid, peer |-> d.peer]
<1>1. Inv => A
  <2> SUFFICES ASSUME Inv, NEW d \in inbox, d.ty = "Update", d.token # None, d.token.addr = d.peer,
                      Poll, d \notin inbox'
               PROVE  event' = [tag |-> "InRequest", rid |-> d.rid, peer |-> d.peer]
    OBVIOUS
  <2>1. TokenMatches(d)
    <3>1. d.token \in Token /\ secrets \in {<<1, 2>>, <<2, 1>>}
      BY DEF Inv, TypeOK, Datagram
    <3>2. d.token = [secret |-> d.token.secret, addr |-> d.peer] /\ d.token.secret \in {1, 2}
      BY <3>1 DEF Token
    <3>3. \E i \in {1, 2} : secrets[i] = d.token.secret
      BY <3>1, <3>2
    <3> QED BY <3>2, <3>3 DEF TokenMatches, token
  <2>2. ASSUME NEW sock, Read(sock) PROVE OnMessage(d)
    BY <2>2 DEF Read
  <2>3. ASSUME NEW f, NEW sock, PollWith(f, sock) PROVE OnMessage(d)
    BY <2>2, <2>3, Zenon DEF PollWith, Flushed
  <2>4. OnMessage(d)
    BY <2>3 DEF Poll
  <2> QED BY <2>1, <2>4 DEF OnMessage
<1>2. Inv /\ [Next]_vars => [A]_vars
  BY <1>1
<1> QED BY <1>2, InvAlways, PTL DEF Spec, TokenStaysValid
=============================================================================
