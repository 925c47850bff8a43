---------------------------- MODULE RpcDhtProofs ----------------------------
(***************************************************************************)
(* Proofs about RpcDht for every set of nodes, addresses and queries and   *)
(* every capacity of the bucket: the routing table never has a pending     *)
(* node, what wakes the task that polls the node, and that the events it   *)
(* yields are those RpcEvents promises.                                    *)
(***************************************************************************)
EXTENDS RpcDht, Integers, TLAPS

\* SMT has 30 seconds for each step; the steps it is not suited for name Zenon.
USE SMTT(30)

-----------------------------------------------------------------------------
(* The bucket: all of its nodes are connected, whatever it goes through. *)

BucketType == [nodes : Seq(Key), first_connected_pos : Nat \cup {None}, pending : {None}]

Steady(b) ==
  /\ b \in BucketType
  /\ b.nodes = << >> => b.first_connected_pos = None
  /\ b.nodes # << >> => b.first_connected_pos = 0
  /\ \A m, n \in 1..Len(b.nodes) : b.nodes[m] = b.nodes[n] => m = n
  /\ Len(b.nodes) <= K_VALUE

LEMMA RangeMember ==
  ASSUME NEW S, NEW s \in Seq(S), NEW e
  PROVE  e \in Range(s) <=> \E n \in 1..Len(s) : s[n] = e
BY DEF Range

LEMMA SteadyNew == Steady(New) /\ Keys(New) = {}
BY ConstantsAssumption DEF New, Steady, BucketType, Keys, Range

LEMMA SteadyApplied ==
  ASSUME NEW b, Steady(b)
  PROVE  ApplyPending(b) = b /\ \A i : ~IsPending(b, i)
BY DEF Steady, BucketType, ApplyPending, PendingDue, IsPending

LEMMA SteadyInsert ==
  ASSUME NEW b, Steady(b), NEW i \in Key, i \notin Keys(b)
  PROVE  /\ Steady(Insert(b, i, "Connected"))
         /\ Keys(Insert(b, i, "Connected")) = IF IsFull(b) THEN Keys(b) ELSE Keys(b) \cup {i}
<1> DEFINE m == Append(b.nodes, i)
           f == IF b.first_connected_pos = None THEN Len(b.nodes) ELSE b.first_connected_pos
<1>0. b \in BucketType
  BY DEF Steady
<1>1. b.nodes \in Seq(Key)
  BY <1>0 DEF BucketType
<1>2. /\ m \in Seq(Key) /\ m # << >> /\ Len(m) = Len(b.nodes) + 1
      /\ m[Len(b.nodes) + 1] = i /\ \A n \in 1..Len(b.nodes) : m[n] = b.nodes[n]
  BY <1>1
<1>3. f = 0
  <2>1. 0 # None
    BY ConstantsAssumption
  <2>2. CASE b.nodes = << >>
    BY <2>2 DEF Steady
  <2>3. CASE b.nodes # << >>
    BY <2>1, <2>3 DEF Steady
  <2> QED BY <2>2, <2>3
<1>4. /\ PushConnected(b, i) \in BucketType
      /\ PushConnected(b, i).nodes = m /\ PushConnected(b, i).first_connected_pos = f
  <2>1. m \in Seq(Key) /\ f \in Nat \cup {None}
    BY <1>2, <1>3
  <2>2. PushConnected(b, i) = [b EXCEPT !.nodes = m, !.first_connected_pos = f]
    BY Zenon DEF PushConnected
  <2> HIDE DEF m, f
  <2> QED BY <1>0, <2>1, <2>2, Zenon DEF BucketType
<1>5. \A n \in 1..Len(b.nodes) : b.nodes[n] # i
  BY <1>1, RangeMember DEF Keys
<1> HIDE DEF m, f
<1>6. \A l, n \in 1..Len(m) : m[l] = m[n] => l = n
  <2>1. Len(b.nodes) \in Nat
    BY <1>1
  <2>2. \A l, n \in 1..Len(b.nodes) : b.nodes[l] = b.nodes[n] => l = n
    BY DEF Steady
  <2>3. \A n \in 1..Len(m) : n \in 1..Len(b.nodes) \/ n = Len(b.nodes) + 1
    BY <1>2, <2>1
  <2> QED BY <1>2, <1>5, <2>2, <2>3, Zenon
<1>7. Range(m) = Range(b.nodes) \cup {i}
  <2>1. Len(b.nodes) \in Nat
    BY <1>1
  <2>2. \A e : (\E n \in 1..Len(m) : m[n] = e) <=> (\E n \in 1..Len(b.nodes) : b.nodes[n] = e) \/ e = i
    BY <1>2, <2>1
  <2>3. \A e : e \in Range(m) <=> \E n \in 1..Len(m) : m[n] = e
    BY <1>2, RangeMember
  <2>4. \A e : e \in Range(b.nodes) <=> \E n \in 1..Len(b.nodes) : b.nodes[n] = e
    BY <1>1, RangeMember
  <2> QED BY <2>2, <2>3, <2>4, Zenon
<1>8. CASE ~IsFull(b)
  <2>1. Len(m) <= K_VALUE
    BY <1>1, <1>2, <1>8, ConstantsAssumption DEF IsFull, Steady
  <2>2. Insert(b, i, "Connected") = PushConnected(b, i)
    BY <1>8 DEF Insert
  <2>3. Steady(PushConnected(b, i))
    BY <1>2, <1>3, <1>4, <1>6, <2>1 DEF Steady
  <2> QED BY <1>4, <1>7, <1>8, <2>2, <2>3 DEF Keys
<1>9. CASE IsFull(b)
  <2>1. b.nodes # << >>
    BY <1>1, <1>9, ConstantsAssumption DEF IsFull
  <2>2. b.first_connected_pos = 0
    BY <2>1 DEF Steady
  <2>3. Insert(b, i, "Connected") = b
    BY <1>9, <2>2 DEF Insert
  <2> QED BY <1>9, <2>3
<1> QED BY <1>8, <1>9

LEMMA SteadyRemove ==
  ASSUME NEW b, Steady(b), NEW i \in Keys(b)
  PROVE  Steady(RemoveNode(b, i)) /\ Keys(RemoveNode(b, i)) = Keys(b) \ {i}
<1> DEFINE n == b.nodes
           p == Position(b, i)
           m == VecRemove(n, p)
           f == ConnectedPosAfterRemove(b, p, Len(m))
<1>0. b \in BucketType
  BY DEF Steady
<1>1. /\ n \in Seq(Key) /\ Len(n) \in Nat
      /\ \A x, y \in 1..Len(n) : n[x] = n[y] => x = y
  BY DEF Steady, BucketType
<1>2. PICK j \in 1..Len(n) : n[j] = i
  BY <1>1, RangeMember DEF Keys
<1>3. p \in 0..(Len(n) - 1) /\ n[p + 1] = i
  <2>1. /\ j - 1 \in 0..(Len(n) - 1)
        /\ n[(j - 1) + 1] = i
        /\ \A q \in 0..((j - 1) - 1) : n[q + 1] # i
    BY <1>1, <1>2
  <2> QED BY <2>1, Zenon DEF Position, VecPosition
<1>4. n # << >> /\ b.first_connected_pos = 0
  BY <1>1, <1>2 DEF Steady
<1>5. /\ m \in Seq(Key) /\ Len(m) = Len(n) - 1
      /\ \A x \in 1..(Len(n) - 1) : m[x] = IF x <= p THEN n[x] ELSE n[x + 1]
  BY <1>1, <1>3 DEF VecRemove
<1>6. f = IF Len(m) = 0 THEN None ELSE 0
  <2>1. StatusAt(b, p) = "Connected"
    BY <1>3, <1>4, ConstantsAssumption DEF StatusAt
  <2>2. f = IF 0 = p /\ p = Len(m) THEN None ELSE 0
    BY <1>4, <2>1 DEF ConnectedPosAfterRemove
  <2>3. Len(m) = 0 => p = 0
    BY <1>1, <1>3, <1>5
  <2> QED BY <2>2, <2>3
<1>7. /\ RemoveNode(b, i) \in BucketType
      /\ RemoveNode(b, i).nodes = m /\ RemoveNode(b, i).first_connected_pos = f
  <2> HIDE DEF p
  <2>1. f \in Nat \cup {None}
    BY <1>6
  <2> HIDE DEF m, f
  <2> QED BY <1>0, <1>5, <2>1, Zenon DEF RemoveNode, BucketType, m, f, n, p
<1> HIDE DEF n, p, m, f
<1>8. f \in Nat \cup {None} /\ (m = << >> => f = None) /\ (m # << >> => f = 0)
  BY <1>5, <1>6
<1>9. \A x, y \in 1..Len(m) : m[x] = m[y] => x = y
  BY <1>1, <1>3, <1>5
<1>10. Len(m) <= K_VALUE
  BY <1>1, <1>5, ConstantsAssumption DEF Steady, n
<1>11. Range(m) = Range(n) \ {i}
  <2>1. \A e : (\E x \in 1..Len(m) : m[x] = e) => (\E x \in 1..Len(n) : n[x] = e) /\ e # i
    BY <1>1, <1>3, <1>5
  <2>2. ASSUME NEW e, NEW x \in 1..Len(n), n[x] = e, e # i
        PROVE  \E y \in 1..Len(m) : m[y] = e
    <3>1. CASE x <= p
      BY <1>1, <1>3, <1>5, <2>2, <3>1
    <3>2. CASE x > p
      <4>1. x # p + 1
        BY <1>3, <2>2
      <4>2. x - 1 \in 1..Len(m) /\ m[x - 1] = n[x]
        BY <1>1, <1>3, <1>5, <3>2, <4>1
      <4> QED BY <2>2, <4>2
    <3> QED BY <1>3, <3>1, <3>2
  <2>3. \A e : e \in Range(m) <=> \E x \in 1..Len(m) : m[x] = e
    BY <1>5, RangeMember
  <2>4. \A e : e \in Range(n) <=> \E x \in 1..Len(n) : n[x] = e
    BY <1>1, RangeMember
  <2> QED BY <2>1, <2>2, <2>3, <2>4, Zenon
<1>12. Steady(RemoveNode(b, i))
  BY <1>7, <1>8, <1>9, <1>10 DEF Steady
<1> QED BY <1>7, <1>11, <1>12 DEF Keys, n

-----------------------------------------------------------------------------
(* The routing table through the steps of the node. *)

TableInv ==
  /\ Steady(bucket)
  /\ addr \in [Key -> Addr \cup {None}]
  /\ \A i \in Key : addr[i] # None <=> i \in Keys(bucket)

\* entry of a key, and every iteration over the table, changes nothing.
LEMMA TableApplied ==
  ASSUME TableInv
  PROVE  ApplyPending(bucket) = bucket /\ \A i : ~IsPending(bucket, i)
BY SteadyApplied DEF TableInv

LEMMA TableSame ==
  ASSUME TableInv, UNCHANGED <<bucket, addr>>
  PROVE  TableInv'
BY DEF TableInv

LEMMA TableAddNode ==
  ASSUME TableInv, NEW i \in Key, NEW a \in Addr, AddNode(i, a)
  PROVE  TableInv'
<1> DEFINE c == Insert(bucket, i, "Connected")
<1>1. /\ bucket' = IF i \in Keys(bucket) THEN bucket ELSE c
      /\ addr' = IF i \notin Keys(bucket)
                    /\ (i \in Keys(bucket') \/ IsPending(bucket', i))
                 THEN [addr EXCEPT ![i] = a] ELSE addr
  BY TableApplied, Zenon DEF AddNode
<1>2. CASE i \in Keys(bucket)
  BY <1>1, <1>2, TableSame
<1>3. CASE i \notin Keys(bucket)
  <2>1. Steady(c) /\ Keys(c) = IF IsFull(bucket) THEN Keys(bucket) ELSE Keys(bucket) \cup {i}
    BY <1>3, SteadyInsert DEF TableInv
  <2>2. ~IsPending(c, i)
    BY <2>1, SteadyApplied
  <2>3. bucket' = c /\ addr' = IF i \in Keys(c) THEN [addr EXCEPT ![i] = a] ELSE addr
    BY <1>1, <1>3, <2>2
  <2> HIDE DEF c
  <2> QED BY <1>3, <2>1, <2>3, RpcAssumption DEF TableInv
<1> QED BY <1>2, <1>3

LEMMA TableRemovePeer ==
  ASSUME TableInv, NEW i \in Key, RemovePeer(i)
  PROVE  TableInv'
<1>1. /\ bucket' = IF i \in Keys(bucket) THEN RemoveNode(bucket, i) ELSE bucket
      /\ addr' = [addr EXCEPT ![i] = None]
  BY TableApplied DEF RemovePeer
<1>2. CASE i \in Keys(bucket)
  <2>1. Steady(bucket') /\ Keys(bucket') = Keys(bucket) \ {i}
    BY <1>1, <1>2, SteadyRemove DEF TableInv
  <2> QED BY <1>1, <2>1 DEF TableInv
<1>3. CASE i \notin Keys(bucket)
  BY <1>1, <1>3 DEF TableInv
<1> QED BY <1>2, <1>3

LEMMA TableRemoveNodeAt ==
  ASSUME TableInv, NEW a \in Addr, RemoveNodeAt(a)
  PROVE  TableInv'
<1>1. bucket.nodes \in Seq(Key)
  BY DEF TableInv, Steady, BucketType
<1>2. \/ UNCHANGED <<bucket, addr>>
      \/ \E p \in 1..Len(bucket.nodes) : RemovePeer(bucket.nodes[p])
  BY TableApplied, Zenon DEF RemoveNodeAt
<1>3. \A p \in 1..Len(bucket.nodes) : bucket.nodes[p] \in Key
  BY <1>1
<1> QED BY <1>2, <1>3, TableSame, TableRemovePeer

LEMMA TableNext ==
  ASSUME TableInv, [Next]_vars
  PROVE  TableInv'
<1>1. ASSUME NEW q \in QueryId, NEW cmd \in Cmd, RunCommand(q, cmd) PROVE TableInv'
  BY <1>1, TableApplied, TableSame DEF RunCommand
<1>2. CASE UserBootstrap
  BY <1>2, TableApplied, TableSame DEF UserBootstrap
<1>3. CASE UserSends \/ ReplyCommand
  <2>1. bucket' = bucket /\ addr' = addr
    BY <1>3, TableApplied DEF UserSends, ReplyCommand, table
  <2> QED BY <2>1, TableSame
<1>4. ASSUME NEW i \in Key, UserRemovesPeer(i) PROVE TableInv'
  BY <1>4, TableRemovePeer DEF UserRemovesPeer
<1>5. CASE PollJobs
  <2>1. bucket' = bucket /\ addr' = addr
    BY <1>5, TableApplied DEF PollJobs
  <2> QED BY <2>1, TableSame
<1>6. CASE Drain \/ IoSends \/ QueryFinished \/ OnError
  BY <1>6, TableSame DEF Drain, IoSends, QueryFinished, OnError, table
<1>7. ASSUME NEW a \in Addr, OnBadRequestId(a) PROVE TableInv'
  BY <1>7, TableRemoveNodeAt DEF OnBadRequestId
<1>8. ASSUME NEW a \in Addr, NEW i \in Key \cup {None}, OnRequest(i, a) PROVE TableInv'
  <2>1. CASE i # None
    BY <1>8, <2>1, TableAddNode DEF OnRequest
  <2>2. CASE i = None
    <3>1. bucket' = bucket /\ addr' = addr
      BY <1>8, <2>2, TableApplied DEF OnRequest
    <3> QED BY <3>1, TableSame
  <2> QED BY <2>1, <2>2
<1>9. CASE OnPong
  <2>1. bucket' = bucket /\ addr' = addr
    BY <1>9, TableApplied DEF OnPong
  <2> QED BY <2>1, TableSame
<1>10. ASSUME NEW q \in QueryId, OnResponse(q) \/ PoolEnds(q) PROVE TableInv'
  BY <1>10, TableSame DEF OnResponse, PoolEnds, IoPending, table
<1>11. CASE PoolSends \/ PoolPending
  BY <1>11, TableSame, Zenon DEF PoolSends, PoolPending, IoPending, table
<1>12. ASSUME NEW i \in Key, TakePeer(i) PROVE TableInv'
  BY <1>12, TableAddNode, TableRemovePeer DEF TakePeer
<1>13. ASSUME NEW j \in Job, Arrive \/ Writable \/ Expire(j) PROVE TableInv'
  BY <1>13, TableSame DEF Arrive, Writable, Expire, Env, table
<1>14. CASE UNCHANGED vars
  BY <1>14, TableSame DEF vars
<1>15. Job # {}
  BY DEF Job
<1> QED BY <1>1, <1>2, <1>3, <1>4, <1>5, <1>6, <1>7, <1>8, <1>9, <1>10, <1>11, <1>12, <1>13,
           <1>14, <1>15 DEF Next, Poll

LEMMA TableInit == Init => TableInv
BY SteadyNew DEF Init, TableInv

\* rpc/mod.rs:440-499, 778-812: however nodes answer, fail and come back, none is ever
\* pending, for every capacity of the bucket.
THEOREM NothingPendingAlways == Spec => []NothingPending
<1>1. TableInv /\ [Next]_vars => TableInv'
  BY TableNext
<1>2. TableInv => NothingPending
  BY DEF TableInv, Steady, BucketType, NothingPending
<1> QED BY <1>1, <1>2, TableInit, PTL DEF Spec

-----------------------------------------------------------------------------
(* What wakes the task. *)

\* While the task is not to be polled, and until both jobs fire in one poll, a message
\* or a job will wake it, also in the midst of a poll.
WakeInv ==
  /\ delay \in [Job -> {"running", "watched", "expired"}]
  /\ unsent \in BOOLEAN /\ readable \in BOOLEAN
  /\ send_waker \in BOOLEAN /\ recv_waker \in BOOLEAN
  /\ woken \in BOOLEAN /\ coincide \in BOOLEAN
  /\ SleepsWhenDone
  /\ ~woken /\ ~coincide => recv_waker \/ \E j \in Job : delay[j] = "watched"

LEMMA WakeInit == Init => WakeInv
BY Zenon DEF Init, WakeInv, SleepsWhenDone, Asleep

HandlerOutcome == OnPing \cup OnFindnode \cup OnHolepunch \cup OnCommandReq \cup MissingCommand

LEMMA OutcomeType ==
  ASSUME NEW o \in HandlerOutcome
  PROVE  o.reply \in BOOLEAN /\ o.events \in {<< >>, <<Ev("Request")>>, <<Ev("RequestErr")>>}
<1> DEFINE E == {<< >>, <<Ev("Request")>>, <<Ev("RequestErr")>>}
<1>1. \E r, c \in BOOLEAN, e \in E : o = Outcome(r, c, e)
  <2>1. TRUE \in BOOLEAN /\ FALSE \in BOOLEAN
    OBVIOUS
  <2>2. << >> \in E /\ <<Ev("Request")>> \in E /\ <<Ev("RequestErr")>> \in E
    OBVIOUS
  <2> HIDE DEF E
  <2> QED BY <2>1, <2>2, Zenon
             DEF HandlerOutcome, OnPing, OnFindnode, OnHolepunch, OnCommandReq, MissingCommand,
                 Ignored, RequestErr
<1> HIDE DEF E
<1>2. o.reply \in BOOLEAN /\ o.events \in E
  BY <1>1 DEF Outcome
<1> QED BY <1>2 DEF E

LEMMA WakeNext ==
  ASSUME WakeInv, [Next]_vars
  PROVE  WakeInv'
<1> USE DEF WakeInv, SleepsWhenDone, Asleep
<1>1. ASSUME User, unsent' \in BOOLEAN PROVE WakeInv'
  BY <1>1 DEF User, wakers
<1>2. ASSUME NEW q \in QueryId, NEW cmd \in Cmd, RunCommand(q, cmd) PROVE WakeInv'
  BY <1>1, <1>2 DEF RunCommand
<1>3. CASE UserBootstrap \/ UserSends \/ ReplyCommand \/ \E i \in Key : UserRemovesPeer(i)
  <2>1. User /\ unsent' \in BOOLEAN
    BY <1>3, Zenon DEF UserBootstrap, UserSends, ReplyCommand, UserRemovesPeer
  <2> QED BY <1>1, <2>1
<1>4. CASE PollJobs
  <2>1. delay' = [j \in Job |-> IF Due(j) THEN "running" ELSE "watched"]
    BY <1>4 DEF PollJobs, PollDelays
  <2>2. /\ unsent' \in BOOLEAN /\ coincide' = (\A j \in Job : Due(j))
        /\ pc' = "io" /\ woken' = FALSE /\ UNCHANGED <<readable, send_waker, recv_waker>>
    BY <1>4, Zenon DEF PollJobs, PingSome, wakers
  <2>3. ~coincide' => \E j \in Job : delay'[j] = "watched"
    BY <2>1, <2>2
  <2>4. delay' \in [Job -> {"running", "watched", "expired"}]
    BY <2>1
  <2> QED BY <2>2, <2>3, <2>4, Zenon
<1>5. CASE Drain \/ QueryFinished
  BY <1>5, Zenon DEF Drain, QueryFinished, Return, wakers
<1>6. CASE IoSends
  BY <1>6, Zenon DEF IoSends
<1>7. ASSUME Read, unsent' \in BOOLEAN, pc' = pc PROVE WakeInv'
  BY <1>7, Zenon DEF Read
<1>8. ASSUME NEW a \in Addr, NEW i \in Key \cup {None}, OnRequest(i, a) PROVE WakeInv'
  <2>1. Read /\ pc' = pc /\ \E o \in HandlerOutcome : unsent' = (unsent \/ o.reply)
    BY <1>8, Zenon DEF OnRequest, HandlerOutcome
  <2>2. unsent' \in BOOLEAN
    BY <2>1, OutcomeType
  <2> QED BY <1>7, <2>1, <2>2
<1>9. ASSUME NEW a \in Addr, OnBadRequestId(a) PROVE WakeInv'
  BY <1>7, <1>9, Zenon DEF OnBadRequestId
<1>10. CASE OnPong \/ OnError \/ \E q \in QueryId : OnResponse(q)
  BY <1>7, <1>10 DEF OnPong, OnError, OnResponse
<1>11. ASSUME IoPending, unsent' \in BOOLEAN, unsent' = unsent \/ pc' # "idle" PROVE WakeInv'
  <2>1. /\ UNCHANGED <<delay, woken, coincide, queued_events>>
        /\ queued_events = << >> /\ readable' = FALSE /\ send_waker' = unsent
        /\ recv_waker' = TRUE \/ recv_waker' = recv_waker
    BY <1>11 DEF IoPending
  <2>2. SleepsWhenDone'
    BY <1>11, <2>1
  <2> QED BY <1>11, <2>1, <2>2, Zenon
<1>12. CASE PoolSends \/ PoolPending
  <2>1. CASE PoolSends
    BY <1>11, <2>1, Zenon DEF PoolSends, IoPending
  <2>2. CASE PoolPending
    BY <1>11, <2>2 DEF PoolPending
  <2> QED BY <1>12, <2>1, <2>2
<1>13. ASSUME NEW q \in QueryId, PoolEnds(q) PROVE WakeInv'
  BY <1>11, <1>13 DEF PoolEnds
<1>14. ASSUME NEW i \in Key, TakePeer(i) PROVE WakeInv'
  BY <1>14 DEF TakePeer, wakers
<1>15. CASE Arrive
  BY <1>15, Zenon DEF Arrive, Env
<1>16. CASE Writable
  BY <1>16, Zenon DEF Writable, Env
<1>17. ASSUME NEW j \in Job, Expire(j) PROVE WakeInv'
  <2>1. /\ delay' = [delay EXCEPT ![j] = "expired"] /\ woken' = (woken \/ delay[j] = "watched")
        /\ UNCHANGED <<readable, send_waker, recv_waker, unsent, pc, coincide, queued_events>>
    BY <1>17 DEF Expire, Env, wakers
  <2>2. ASSUME ~woken', ~coincide', ~recv_waker PROVE \E k \in Job : delay'[k] = "watched"
    <3>1. PICK k \in Job : delay[k] = "watched"
      BY <2>1, <2>2
    <3>2. k # j
      BY <2>1, <2>2, <3>1, Zenon
    <3> QED BY <2>1, <3>1, <3>2
  <2> QED BY <2>1, <2>2
<1>18. CASE UNCHANGED vars
  BY <1>18 DEF vars
<1> HIDE DEF WakeInv
<1> QED BY <1>2, <1>3, <1>4, <1>5, <1>6, <1>8, <1>9, <1>10, <1>12, <1>13, <1>14, <1>15, <1>16, <1>17,
           <1>18 DEF Next, Poll

\* rpc/mod.rs:823-879: the task goes to sleep only when everything it could do is done.
THEOREM SleepsWhenDoneAlways == Spec => []SleepsWhenDone
<1>1. WakeInv /\ [Next]_vars => WakeInv'
  BY WakeNext
<1>2. WakeInv => SleepsWhenDone
  BY DEF WakeInv
<1> QED BY <1>1, <1>2, WakeInit, PTL DEF Spec

\* rpc/jobs.rs:23-31: a task that sleeps is woken by a message or a job, unless both
\* jobs fired in its last poll.
THEOREM SomethingWakesAlways == Spec => []SomethingWakes
<1>1. WakeInv /\ [Next]_vars => WakeInv'
  BY WakeNext
<1>2. WakeInv => SomethingWakes
  BY DEF WakeInv, SomethingWakes, Asleep
<1> QED BY <1>1, <1>2, WakeInit, PTL DEF Spec

-----------------------------------------------------------------------------
(* The queue of events. *)

Boot == Ev("Bootstrapped")
Routing == Ev("RoutingUpdated")
Answer(q) == [kind |-> "Response", query |-> q]
PlainKind == {"RoutingUpdated", "Request", "RequestErr", "PingResult", "Bootstrapped"}
QEvent == {Ev(kind) : kind \in PlainKind} \cup {Answer(q) : q \in QueryId}
Once(s) == \A m, n \in 1..Len(s) : s[m] = Boot /\ s[n] = Boot => m = n

LEMMA Concat ==
  ASSUME NEW s \in Seq(QEvent), NEW t \in Seq(QEvent), Once(s), Boot \notin Range(t)
  PROVE  s \o t \in Seq(QEvent) /\ Once(s \o t) /\ Range(s \o t) = Range(s) \cup Range(t)
<1> DEFINE u == s \o t
<1>1. /\ Len(s) \in Nat /\ Len(t) \in Nat
      /\ u \in Seq(QEvent) /\ Len(u) = Len(s) + Len(t)
      /\ \A n \in 1..Len(u) : u[n] = IF n <= Len(s) THEN s[n] ELSE t[n - Len(s)]
  OBVIOUS
<1>2. \A n \in 1..Len(t) : t[n] # Boot /\ n + Len(s) \in 1..Len(u) /\ u[n + Len(s)] = t[n]
  BY <1>1, RangeMember
<1>3. \A n \in 1..Len(s) : n \in 1..Len(u) /\ u[n] = s[n]
  BY <1>1
<1> HIDE DEF u
<1>4. Once(u)
  <2> SUFFICES ASSUME NEW m \in 1..Len(u), NEW n \in 1..Len(u), u[m] = Boot, u[n] = Boot
               PROVE  m = n
    BY DEF Once
  <2>1. ASSUME NEW k \in 1..Len(u), k > Len(s) PROVE u[k] # Boot
    <3>1. k - Len(s) \in 1..Len(t)
      BY <1>1, <2>1
    <3> QED BY <1>1, <1>2, <2>1, <3>1
  <2>2. m <= Len(s) /\ n <= Len(s)
    BY <1>1, <2>1
  <2> QED BY <1>1, <2>2 DEF Once
<1>5. \A e : (\E n \in 1..Len(u) : u[n] = e)
                <=> (\E n \in 1..Len(s) : s[n] = e) \/ (\E n \in 1..Len(t) : t[n] = e)
  <2>1. ASSUME NEW n \in 1..Len(u)
        PROVE  (\E m \in 1..Len(s) : s[m] = u[n]) \/ (\E m \in 1..Len(t) : t[m] = u[n])
    <3>1. CASE n <= Len(s)
      BY <1>1, <3>1
    <3>2. CASE n > Len(s)
      <4>1. n - Len(s) \in 1..Len(t)
        BY <1>1, <3>2
      <4>2. u[n] = t[n - Len(s)]
        BY <1>1, <3>2
      <4> QED BY <4>1, <4>2
    <3> QED BY <1>1, <3>1, <3>2
  <2> QED BY <1>2, <1>3, <2>1, Zenon
<1>6. Range(u) = Range(s) \cup Range(t)
  <2>1. \A e : e \in Range(u) <=> \E n \in 1..Len(u) : u[n] = e
    BY <1>1, RangeMember, Zenon
  <2>2. \A e : /\ e \in Range(s) <=> \E n \in 1..Len(s) : s[n] = e
               /\ e \in Range(t) <=> \E n \in 1..Len(t) : t[n] = e
    BY RangeMember
  <2> QED BY <1>5, <2>1, <2>2, Zenon
<1> QED BY <1>1, <1>4, <1>6 DEF u

LEMMA AppendBoot ==
  ASSUME NEW s \in Seq(QEvent), Boot \notin Range(s)
  PROVE  /\ Append(s, Boot) \in Seq(QEvent) /\ Once(Append(s, Boot))
         /\ Range(Append(s, Boot)) = Range(s) \cup {Boot}
<1> DEFINE u == Append(s, Boot)
<1>1. Boot \in QEvent
  BY DEF Boot, QEvent, PlainKind
<1>2. /\ Len(s) \in Nat /\ u \in Seq(QEvent) /\ Len(u) = Len(s) + 1
      /\ u[Len(s) + 1] = Boot /\ \A n \in 1..Len(s) : u[n] = s[n]
  BY <1>1
<1>3. \A n \in 1..Len(s) : s[n] # Boot
  BY RangeMember
<1> HIDE DEF u
<1>4. Once(u)
  BY <1>2, <1>3 DEF Once
<1>5. \A e : (\E n \in 1..Len(u) : u[n] = e) <=> (\E n \in 1..Len(s) : s[n] = e) \/ e = Boot
  BY <1>2
<1>6. Range(u) = Range(s) \cup {Boot}
  <2>1. \A e : e \in Range(u) <=> \E n \in 1..Len(u) : u[n] = e
    BY <1>2, RangeMember
  <2>2. \A e : e \in Range(s) <=> \E n \in 1..Len(s) : s[n] = e
    BY RangeMember
  <2> QED BY <1>5, <2>1, <2>2
<1> QED BY <1>2, <1>4, <1>6 DEF u

LEMMA TailOf ==
  ASSUME NEW s \in Seq(QEvent), Once(s), s # << >>
  PROVE  /\ Head(s) \in QEvent /\ Tail(s) \in Seq(QEvent) /\ Once(Tail(s))
         /\ Range(s) = Range(Tail(s)) \cup {Head(s)}
         /\ Head(s) = Boot => Boot \notin Range(Tail(s))
<1> DEFINE t == Tail(s)
<1>1. /\ Len(s) \in Nat /\ Len(s) >= 1 /\ Head(s) = s[1] /\ s[1] \in QEvent
      /\ t \in Seq(QEvent) /\ Len(t) = Len(s) - 1
      /\ \A n \in 1..Len(t) : t[n] = s[n + 1]
  OBVIOUS
<1> HIDE DEF t
<1>2. \A n \in 1..Len(t) : n + 1 \in 1..Len(s)
  BY <1>1
<1>3. Once(t)
  <2> SUFFICES ASSUME NEW m \in 1..Len(t), NEW n \in 1..Len(t), t[m] = Boot, t[n] = Boot
               PROVE  m = n
    BY DEF Once
  <2>1. s[m + 1] = Boot /\ s[n + 1] = Boot
    BY <1>1
  <2>2. m + 1 = n + 1
    BY <1>2, <2>1 DEF Once
  <2> QED BY <1>1, <2>2
<1>4. \A e : (\E n \in 1..Len(s) : s[n] = e) <=> (\E n \in 1..Len(t) : t[n] = e) \/ e = s[1]
  <2>1. ASSUME NEW n \in 1..Len(s), n # 1 PROVE \E m \in 1..Len(t) : t[m] = s[n]
    <3>1. n - 1 \in 1..Len(t) /\ t[n - 1] = s[n]
      BY <1>1, <2>1
    <3> QED BY <3>1
  <2>2. \A e : (\E n \in 1..Len(s) : s[n] = e) => (\E n \in 1..Len(t) : t[n] = e) \/ e = s[1]
    BY <2>1
  <2>3. \A n \in 1..Len(t) : \E m \in 1..Len(s) : s[m] = t[n]
    BY <1>1, <1>2
  <2>4. 1 \in 1..Len(s)
    BY <1>1
  <2> QED BY <2>2, <2>3, <2>4
<1>5. \A e : e \in Range(t) <=> \E n \in 1..Len(t) : t[n] = e
  BY <1>1, RangeMember
<1>6. \A e : e \in Range(s) <=> \E n \in 1..Len(s) : s[n] = e
  BY RangeMember
<1>7. s[1] = Boot => \A n \in 1..Len(t) : t[n] # Boot
  BY <1>1, <1>2 DEF Once
<1>8. Range(s) = Range(t) \cup {s[1]}
  BY <1>4, <1>5, <1>6, Zenon
<1> QED BY <1>1, <1>3, <1>5, <1>7, <1>8 DEF t

-----------------------------------------------------------------------------
(* The queries and their events. *)

ResultType == [query : QueryId, cmd : Cmd, peers : SUBSET Key]

NodeInv ==
  /\ queries \in [QueryId -> Cmd \cup {None}]
  /\ bootstrap_nodes \in BOOLEAN /\ bootstrapped \in BOOLEAN
  /\ pc \in {"idle", "io", "finish"}
  /\ pc # "finish" => result = None
  /\ pc = "finish" => result \in ResultType /\ queries[result.query] = None

\* A response that is queued belongs to a query of the pool, as the pool is only
\* polled once the queue is empty.
QueueInv ==
  /\ queued_events \in Seq(QEvent) /\ Once(queued_events)
  /\ Boot \in Range(queued_events) => bootstrapped
  /\ \A q \in QueryId : Answer(q) \in Range(queued_events) => queries[q] # None
  /\ pc = "finish" => Range(queued_events) \subseteq {Routing}

\* The abstract actions under the refinement mapping
ALive == IF result = None THEN queries ELSE [queries EXCEPT ![result.query] = result.cmd]
ABooted == bootstrapped /\ Boot \notin Range(queued_events)
ASame == ALive' = ALive /\ ABooted' = ABooted

ASilent == event' = None /\ ASame
AStart == \E q \in QueryId, cmd \in Cmd :
            /\ ALive[q] = None /\ ALive' = [ALive EXCEPT ![q] = cmd]
            /\ event' = None /\ ABooted' = ABooted
AOther == \E kind \in PlainKind \ {"Bootstrapped"} : event' = Ev(kind) /\ ASame
AResponse == \E q \in QueryId : ALive[q] # None /\ event' = Answer(q) /\ ASame
AResult == \E q \in QueryId :
             /\ ALive[q] = "Custom" \/ (ALive[q] = "FindNode" /\ ABooted)
             /\ ALive' = [ALive EXCEPT ![q] = None] /\ ABooted' = ABooted
             /\ event' = [kind |-> "QueryResult", query |-> q]
ABoot == /\ ~ABooted /\ ABooted' = TRUE /\ event' = Boot
         /\ \/ ALive' = ALive
            \/ \E q \in QueryId : ALive[q] = "FindNode" /\ ALive' = [ALive EXCEPT ![q] = None]
AStep == ASilent \/ AStart \/ AOther \/ AResponse \/ AResult \/ ABoot

LEMMA AbstractSteps ==
  ASSUME AStep
  PROVE  Abstract!Next
<1> USE DEF ASame, ALive, ABooted, Boot, Ev
<1>1. ASSUME ASilent PROVE Abstract!Next
  BY <1>1 DEF ASilent, Abstract!Next, Abstract!Silent
<1>2. ASSUME AStart PROVE Abstract!Next
  <2>1. Cmd = Abstract!Cmd
    BY DEF Cmd, Abstract!Cmd
  <2> QED BY <1>2, <2>1 DEF AStart, Abstract!Next, Abstract!Start
<1>3. ASSUME AOther PROVE Abstract!Next
  <2>1. PlainKind = Abstract!Plain
    BY Zenon DEF PlainKind, Abstract!Plain
  <2> QED BY <1>3, <2>1 DEF AOther, Abstract!Next, Abstract!Other, Abstract!Yield
<1>4. ASSUME AResponse PROVE Abstract!Next
  BY <1>4 DEF AResponse, Answer, Abstract!Next, Abstract!Response, Abstract!Yield
<1>5. ASSUME AResult PROVE Abstract!Next
  BY <1>5, Zenon DEF AResult, Abstract!Next, Abstract!QueryResult, Abstract!End, Abstract!Yield
<1>6. ASSUME ABoot PROVE Abstract!Next
  BY <1>6, Zenon DEF ABoot, Abstract!Next, Abstract!Bootstrapped, Abstract!End, Abstract!Yield
<1> HIDE DEF ASame, ALive, ABooted, Boot, Ev
<1> QED BY <1>1, <1>2, <1>3, <1>4, <1>5, <1>6 DEF AStep

LEMMA EventsDiffer ==
  /\ \A q \in QueryId : Answer(q) # Boot /\ Answer(q) # Routing /\ Answer(q).query = q
  /\ \A kind \in PlainKind : Ev(kind) = Boot => kind = "Bootstrapped"
  /\ Routing # Boot /\ Routing \in QEvent /\ Boot \in QEvent
  /\ \A kind \in PlainKind, q \in QueryId : Ev(kind) # Answer(q)
  /\ \A q, r \in QueryId : Answer(q) = Answer(r) => q = r
<1> USE DEF Answer, Boot, Routing, Ev
<1>1. \A q : Answer(q).kind = "Response" /\ Answer(q).query = q
  OBVIOUS
<1>2. \A kind : Ev(kind).kind = kind
  OBVIOUS
<1> HIDE DEF Answer, Ev
<1>3. \A kind \in PlainKind : kind # "Response"
  BY DEF PlainKind
<1>4. "RoutingUpdated" \in PlainKind /\ "Bootstrapped" \in PlainKind
  BY DEF PlainKind
<1> QED BY <1>1, <1>2, <1>3, <1>4 DEF QEvent

\* A step that leaves the queries alone and queues events
LEMMA QueueStep ==
  ASSUME NodeInv, QueueInv, NEW t \in Seq(QEvent), Boot \notin Range(t),
         \A q \in QueryId : Answer(q) \in Range(t) => queries[q] # None,
         queued_events' = queued_events \o t, event' = None,
         UNCHANGED <<queries, bootstrap_nodes, bootstrapped, result>>,
         pc # "finish", pc' \in {"idle", "io"}
  PROVE  NodeInv' /\ QueueInv' /\ ASilent
<1>1. /\ queued_events' \in Seq(QEvent) /\ Once(queued_events')
      /\ Range(queued_events') = Range(queued_events) \cup Range(t)
  BY Concat DEF QueueInv
<1>2. NodeInv'
  BY DEF NodeInv
<1>3. QueueInv'
  BY <1>1 DEF QueueInv
<1>4. ABooted' = ABooted
  BY <1>1 DEF ABooted
<1>5. ALive' = ALive
  BY DEF ALive
<1> QED BY <1>2, <1>3, <1>4, <1>5 DEF ASilent, ASame

LEMMA QuietStep ==
  ASSUME NodeInv, QueueInv, event' = None, pc # "finish", pc' \in {"idle", "io"},
         UNCHANGED <<queries, bootstrap_nodes, bootstrapped, result, queued_events>>
  PROVE  NodeInv' /\ QueueInv' /\ ASilent
<1>1. NodeInv'
  BY DEF NodeInv
<1>2. QueueInv'
  BY DEF QueueInv
<1> QED BY <1>1, <1>2 DEF ASilent, ASame, ALive, ABooted

LEMMA StartStep ==
  ASSUME NodeInv, QueueInv, NEW q \in QueryId \ Live, NEW cmd \in Cmd,
         queries' = [queries EXCEPT ![q] = cmd], event' = None, pc # "finish",
         pc' \in {"idle", "io"},
         UNCHANGED <<bootstrap_nodes, bootstrapped, result, queued_events>>
  PROVE  NodeInv' /\ QueueInv' /\ AStart
<1>1. queries[q] = None /\ cmd # None /\ result = None
  BY RpcAssumption DEF Live, Cmd, NodeInv
<1>2. NodeInv'
  BY DEF NodeInv
<1>3. QueueInv'
  BY <1>1 DEF QueueInv, NodeInv
<1>4. ALive = queries /\ ALive' = queries'
  BY <1>1 DEF ALive
<1>5. ABooted' = ABooted
  BY DEF ABooted
<1> QED BY <1>1, <1>2, <1>3, <1>4, <1>5, Zenon DEF AStart

LEMMA BootstrapStep ==
  ASSUME NodeInv, QueueInv, Bootstrap, event' = None, pc # "finish", pc' \in {"idle", "io"},
         UNCHANGED <<bootstrap_nodes, result>>
  PROVE  NodeInv' /\ QueueInv' /\ (AStart \/ ASilent)
<1>1. CASE bootstrap_nodes
  <2>1. CASE Live = QueryId
    BY <1>1, <2>1, QuietStep DEF Bootstrap
  <2>2. CASE Live # QueryId
    <3>1. PICK q \in QueryId \ Live : queries' = [queries EXCEPT ![q] = "FindNode"]
      BY <1>1, <2>2 DEF Bootstrap
    <3>2. "FindNode" \in Cmd /\ UNCHANGED <<bootstrapped, queued_events>>
      BY <1>1 DEF Cmd, Bootstrap
    <3> QED BY <3>1, <3>2, StartStep, Zenon
  <2> QED BY <2>1, <2>2
<1>2. CASE ~bootstrap_nodes /\ bootstrapped
  <2>1. bootstrapped' = bootstrapped /\ UNCHANGED <<queries, queued_events>>
    BY <1>2 DEF Bootstrap, NodeInv
  <2> QED BY <2>1, QuietStep
<1>3. CASE ~bootstrap_nodes /\ ~bootstrapped
  <2>1. bootstrapped' = TRUE /\ queries' = queries /\ queued_events' = Append(queued_events, Boot)
    BY <1>3 DEF Bootstrap, Boot
  <2>2. Boot \notin Range(queued_events)
    BY <1>3 DEF QueueInv
  <2>3. /\ queued_events' \in Seq(QEvent) /\ Once(queued_events')
        /\ Range(queued_events') = Range(queued_events) \cup {Boot}
    BY <2>1, <2>2, AppendBoot DEF QueueInv
  <2>4. NodeInv'
    BY <2>1, Zenon DEF NodeInv
  <2>5. QueueInv'
    BY <2>1, <2>3, EventsDiffer DEF QueueInv
  <2>6. ABooted' = ABooted
    BY <1>3, <2>3 DEF ABooted
  <2>7. ALive' = ALive
    BY <2>1 DEF ALive
  <2> QED BY <2>4, <2>5, <2>6, <2>7 DEF ASilent, ASame
<1> QED BY <1>1, <1>2, <1>3 DEF NodeInv

LEMMA DrainStep ==
  ASSUME NodeInv, QueueInv, Drain
  PROVE  NodeInv' /\ QueueInv' /\ AStep
<1> DEFINE e == Head(queued_events)
           t == Tail(queued_events)
<1>1. /\ queued_events # << >> /\ queued_events' = t /\ event' = e /\ pc' = "idle" /\ pc = "io"
      /\ UNCHANGED <<queries, bootstrap_nodes, bootstrapped, result>>
  BY DEF Drain, Return, node
<1>2. /\ e \in QEvent /\ t \in Seq(QEvent) /\ Once(t) /\ Range(queued_events) = Range(t) \cup {e}
      /\ e = Boot => Boot \notin Range(t)
  BY <1>1, TailOf DEF QueueInv
<1> HIDE DEF e, t
<1>3. NodeInv'
  BY <1>1 DEF NodeInv
<1>4. QueueInv'
  BY <1>1, <1>2 DEF QueueInv
<1>5. ALive' = ALive /\ ALive = queries
  BY <1>1 DEF ALive, NodeInv
<1>6. CASE e = Boot
  <2>1. ~ABooted /\ ABooted' = TRUE
    BY <1>1, <1>2, <1>6 DEF ABooted, QueueInv
  <2> QED BY <1>1, <1>3, <1>4, <1>5, <1>6, <2>1 DEF ABoot, AStep
<1>7. ASSUME e # Boot PROVE ASame
  <2>1. ABooted' = ABooted
    BY <1>1, <1>2, <1>7 DEF ABooted
  <2> QED BY <1>5, <2>1 DEF ASame
<1>8. ASSUME NEW kind \in PlainKind, e = Ev(kind), e # Boot PROVE AOther
  <2>1. kind \in PlainKind \ {"Bootstrapped"}
    BY <1>8 DEF Boot
  <2> QED BY <1>1, <1>7, <1>8, <2>1 DEF AOther
<1>9. ASSUME NEW q \in QueryId, e = Answer(q) PROVE AResponse
  <2>1. queries[q] # None /\ e # Boot
    BY <1>2, <1>9, EventsDiffer DEF QueueInv
  <2> QED BY <1>1, <1>5, <1>7, <1>9, <2>1, Zenon DEF AResponse
<1> QED BY <1>2, <1>3, <1>4, <1>6, <1>8, <1>9 DEF AStep, QEvent

\* What a handler queues
LEMMA ReadStep ==
  ASSUME NodeInv, QueueInv, Read, pc' = pc, NEW t \in Seq(QEvent), queued_events' = t,
         Boot \notin Range(t), \A q \in QueryId : Answer(q) \in Range(t) => queries[q] # None
  PROVE  NodeInv' /\ QueueInv' /\ AStep
<1>1. /\ queued_events = << >> /\ pc = "io" /\ event' = None
      /\ UNCHANGED <<queries, bootstrap_nodes, bootstrapped, result>>
  BY DEF Read, node
<1>2. queued_events' = queued_events \o t
  BY <1>1
<1> QED BY <1>1, <1>2, QueueStep DEF AStep

LEMMA Singleton ==
  ASSUME NEW e \in QEvent
  PROVE  <<e>> \in Seq(QEvent) /\ Range(<<e>>) = {e} /\ Len(<<e>>) = 1
BY DEF Range

LEMMA Nothing == << >> \in Seq(QEvent) /\ Range(<< >>) = {} /\ Once(<< >>)
BY DEF Range, Once

LEMMA RoutingEvents ==
  ASSUME NEW i
  PROVE  RoutingUpdated(i) \in Seq(QEvent) /\ Range(RoutingUpdated(i)) \subseteq {Routing}
<1>1. RoutingUpdated(i) = << >> \/ RoutingUpdated(i) = <<Routing>>
  BY DEF RoutingUpdated, Routing
<1> QED BY <1>1, Singleton, Nothing, EventsDiffer, Zenon

LEMMA RequestStep ==
  ASSUME NodeInv, QueueInv, NEW i \in Key \cup {None}, NEW a \in Addr, OnRequest(i, a)
  PROVE  NodeInv' /\ QueueInv' /\ AStep
<1> DEFINE r == IF i # None THEN RoutingUpdated(i) ELSE << >>
<1>1. PICK o \in HandlerOutcome : queued_events' = r \o o.events
  BY Zenon DEF OnRequest, HandlerOutcome
<1>2. Read /\ pc' = pc
  BY DEF OnRequest
<1>3. r \in Seq(QEvent) /\ Range(r) \subseteq {Routing}
  BY RoutingEvents, Nothing
<1>4. "Request" \in PlainKind /\ "RequestErr" \in PlainKind
  BY Zenon DEF PlainKind
<1>5. /\ o.events \in Seq(QEvent) /\ Range(o.events) \subseteq {Ev("Request"), Ev("RequestErr")}
  <2>1. Ev("Request") \in QEvent /\ Ev("RequestErr") \in QEvent
    BY <1>4 DEF QEvent
  <2>2. \/ o.events = << >> \/ o.events = <<Ev("Request")>> \/ o.events = <<Ev("RequestErr")>>
    BY OutcomeType
  <2>3. CASE o.events = << >>
    BY <2>3, Nothing
  <2>4. CASE o.events = <<Ev("Request")>>
    BY <2>1, <2>4, Singleton
  <2>5. CASE o.events = <<Ev("RequestErr")>>
    BY <2>1, <2>5, Singleton
  <2> QED BY <2>2, <2>3, <2>4, <2>5
<1>6. \A q \in QueryId : Answer(q) \notin {Routing, Ev("Request"), Ev("RequestErr")}
  BY <1>4, EventsDiffer
<1>7. Boot \notin {Routing, Ev("Request"), Ev("RequestErr")}
  BY <1>4, EventsDiffer
<1> HIDE DEF r
<1>8. Once(r)
  <2>1. \A n \in 1..Len(r) : r[n] # Boot
    BY <1>3, <1>7, RangeMember
  <2> QED BY <2>1 DEF Once
<1>9. /\ r \o o.events \in Seq(QEvent)
      /\ Range(r \o o.events) \subseteq {Routing, Ev("Request"), Ev("RequestErr")}
  BY <1>3, <1>5, <1>7, <1>8, Concat, Zenon
<1> QED BY <1>1, <1>2, <1>6, <1>7, <1>9, ReadStep, Zenon

LEMMA PoolEndsStep ==
  ASSUME NodeInv, QueueInv, NEW q \in QueryId, PoolEnds(q)
  PROVE  NodeInv' /\ QueueInv' /\ AStep
<1> DEFINE c == queries[q]
<1>1. /\ queued_events = << >> /\ queued_events' = queued_events /\ pc = "io" /\ pc' = "finish"
      /\ c # None /\ queries' = [queries EXCEPT ![q] = None] /\ event' = None
      /\ result' = [query |-> q, cmd |-> c, peers |-> Key]
      /\ UNCHANGED <<bootstrap_nodes, bootstrapped>>
  BY DEF PoolEnds, IoPending, Live
<1>2. c \in Cmd
  BY <1>1 DEF NodeInv
<1> HIDE DEF c
<1>3. result' \in ResultType /\ result'.query = q /\ result'.cmd = c
  BY <1>1, <1>2 DEF ResultType
<1>4. result' # None
  BY <1>3, RpcAssumption, Zenon DEF ResultType, Cmd
<1>5. NodeInv'
  BY <1>1, <1>3 DEF NodeInv
<1>6. QueueInv'
  BY <1>1, Nothing DEF QueueInv
<1>7. ALive' = ALive
  <2>1. ALive = queries /\ ALive' = [queries' EXCEPT ![q] = c]
    BY <1>1, <1>3, <1>4 DEF ALive, NodeInv
  <2>2. [queries' EXCEPT ![q] = c] = queries
    BY <1>1, Zenon DEF NodeInv, c
  <2> QED BY <2>1, <2>2, Zenon
<1>8. ABooted' = ABooted
  BY <1>1 DEF ABooted
<1> QED BY <1>1, <1>5, <1>6, <1>7, <1>8, Zenon DEF ASilent, ASame, AStep

LEMMA TakePeerStep ==
  ASSUME NodeInv, QueueInv, NEW i \in Key, TakePeer(i)
  PROVE  NodeInv' /\ QueueInv' /\ AStep
<1>1. /\ pc = "finish" /\ pc' = pc /\ event' = None
      /\ result' = [result EXCEPT !.peers = @ \ {i}]
      /\ UNCHANGED <<queries, bootstrap_nodes, bootstrapped>>
      /\ queued_events' = queued_events \/ queued_events' = queued_events \o RoutingUpdated(i)
  BY DEF TakePeer, node
<1>2. /\ queued_events' \in Seq(QEvent) /\ Once(queued_events')
      /\ Range(queued_events') \subseteq {Routing}
  <2>1. Boot \notin Range(RoutingUpdated(i)) /\ RoutingUpdated(i) \in Seq(QEvent)
    BY RoutingEvents, EventsDiffer
  <2>2. /\ queued_events \in Seq(QEvent) /\ Once(queued_events)
        /\ Range(queued_events) \subseteq {Routing}
    BY <1>1 DEF QueueInv
  <2>3. Range(RoutingUpdated(i)) \subseteq {Routing}
    BY RoutingEvents
  <2> DEFINE u == queued_events \o RoutingUpdated(i)
  <2>4. u \in Seq(QEvent) /\ Once(u) /\ Range(u) \subseteq {Routing}
    BY <2>1, <2>2, <2>3, Concat
  <2> HIDE DEF u
  <2>5. queued_events' = queued_events \/ queued_events' = u
    BY <1>1 DEF u
  <2> QED BY <2>2, <2>4, <2>5
<1>3. result \in ResultType
  BY <1>1 DEF NodeInv
<1>4. result' \in ResultType /\ result'.query = result.query /\ result'.cmd = result.cmd
  BY <1>1, <1>3 DEF ResultType
<1>5. result # None /\ result' # None
  BY <1>3, <1>4, RpcAssumption DEF ResultType, Cmd
<1>6. NodeInv'
  BY <1>1, <1>4 DEF NodeInv
<1>7. QueueInv'
  BY <1>1, <1>2, EventsDiffer DEF QueueInv
<1>8. ALive' = ALive
  BY <1>1, <1>4, <1>5 DEF ALive
<1>9. ABooted' = ABooted
  <2>1. Boot \notin Range(queued_events) /\ Boot \notin Range(queued_events')
    BY <1>1, <1>2, EventsDiffer DEF QueueInv
  <2> QED BY <1>1, <2>1 DEF ABooted
<1> QED BY <1>1, <1>6, <1>7, <1>8, <1>9 DEF ASilent, ASame, AStep

LEMMA QueryFinishedStep ==
  ASSUME NodeInv, QueueInv, QueryFinished
  PROVE  NodeInv' /\ QueueInv' /\ AStep
<1> DEFINE q == result.query
<1>1. /\ pc = "finish" /\ pc' = "idle" /\ result' = None
      /\ UNCHANGED <<queries, bootstrap_nodes, queued_events>>
  BY DEF QueryFinished, Return
<1>2. result \in ResultType /\ queries[q] = None
  BY <1>1 DEF NodeInv
<1>3. q \in QueryId /\ result.cmd \in Cmd /\ result # None
  BY <1>2, RpcAssumption, Zenon DEF ResultType, Cmd
<1>4. Boot \notin Range(queued_events)
  BY <1>1, EventsDiffer DEF QueueInv
<1> HIDE DEF q
<1>5. /\ ALive[q] = result.cmd
      /\ ALive' = [ALive EXCEPT ![q] = None]
  <2>1. ALive = [queries EXCEPT ![q] = result.cmd] /\ ALive' = queries
    BY <1>1, <1>3 DEF ALive, q
  <2> QED BY <1>2, <1>3, <2>1, Zenon DEF NodeInv
<1>6. CASE result.cmd = "FindNode" /\ ~bootstrapped
  <2>1. bootstrapped' = TRUE /\ event' = Boot
    BY <1>6, Zenon DEF QueryFinished, Return, Boot
  <2>2. NodeInv' /\ QueueInv'
    BY <1>1, <2>1 DEF NodeInv, QueueInv
  <2>3. ~ABooted /\ ABooted' = TRUE
    BY <1>1, <1>4, <1>6, <2>1 DEF ABooted
  <2> QED BY <1>3, <1>5, <1>6, <2>1, <2>2, <2>3, Zenon DEF ABoot, AStep
<1>7. CASE ~(result.cmd = "FindNode" /\ ~bootstrapped)
  <2>1. bootstrapped' = bootstrapped /\ event' = [kind |-> "QueryResult", query |-> q]
    BY <1>7, Zenon DEF QueryFinished, Return, q
  <2>2. NodeInv' /\ QueueInv'
    BY <1>1, <2>1 DEF NodeInv, QueueInv
  <2>3. ABooted' = ABooted
    BY <1>1, <2>1 DEF ABooted
  <2>4. ALive[q] = "Custom" \/ (ALive[q] = "FindNode" /\ ABooted)
    BY <1>3, <1>4, <1>5, <1>7 DEF ABooted, Cmd
  <2> QED BY <1>3, <1>5, <2>1, <2>2, <2>3, <2>4, Zenon DEF AResult, AStep
<1> QED BY <1>6, <1>7

LEMMA EventNext ==
  ASSUME NodeInv, QueueInv, [Next]_vars
  PROVE  NodeInv' /\ QueueInv' /\ [Abstract!Next]_(Abstract!vars)
<1> DEFINE Goal == NodeInv' /\ QueueInv' /\ AStep
<1>1. ASSUME NEW q \in QueryId, NEW cmd \in Cmd, RunCommand(q, cmd) PROVE Goal
  <2>1. /\ q \in QueryId \ Live /\ queries' = [queries EXCEPT ![q] = cmd] /\ event' = None
        /\ pc # "finish" /\ pc' \in {"idle", "io"}
        /\ UNCHANGED <<bootstrap_nodes, bootstrapped, result, queued_events>>
    BY <1>1 DEF RunCommand, User
  <2> QED BY <2>1, StartStep, Zenon DEF AStep
<1>2. ASSUME UserBootstrap PROVE Goal
  <2>1. /\ Bootstrap /\ event' = None /\ pc # "finish" /\ pc' \in {"idle", "io"}
        /\ UNCHANGED <<bootstrap_nodes, result>>
    BY <1>2 DEF UserBootstrap, User
  <2> QED BY <2>1, BootstrapStep DEF AStep
<1>3. ASSUME event' = None, pc # "finish", pc' \in {"idle", "io"},
             UNCHANGED <<queries, bootstrap_nodes, bootstrapped, result, queued_events>>
      PROVE  Goal
  BY <1>3, QuietStep DEF AStep
<1>4. ASSUME UserSends \/ ReplyCommand \/ \E i \in Key : UserRemovesPeer(i) PROVE Goal
  BY <1>3, <1>4 DEF UserSends, ReplyCommand, UserRemovesPeer, User
<1>5. ASSUME PollJobs PROVE Goal
  <2>1. /\ event' = None /\ pc # "finish" /\ pc' \in {"idle", "io"}
        /\ UNCHANGED <<bootstrap_nodes, result>>
        /\ Bootstrap \/ UNCHANGED <<queries, bootstrapped, queued_events>>
    BY <1>5 DEF PollJobs
  <2> QED BY <1>3, <2>1, BootstrapStep DEF AStep
<1>6. ASSUME Drain PROVE Goal
  BY <1>6, DrainStep
<1>7. ASSUME IoSends PROVE Goal
  BY <1>3, <1>7 DEF IoSends, node
<1>8. ASSUME NEW a \in Addr, OnBadRequestId(a) PROVE Goal
  BY <1>3, <1>8 DEF OnBadRequestId, Read, node
<1>9. ASSUME OnError PROVE Goal
  BY <1>3, <1>9 DEF OnError, Read, node
<1>10. ASSUME NEW a \in Addr, NEW i \in Key \cup {None}, OnRequest(i, a) PROVE Goal
  BY <1>10, RequestStep
<1>11. ASSUME OnPong PROVE Goal
  <2>1. "PingResult" \in PlainKind /\ Ev("PingResult") \in QEvent
    BY DEF PlainKind, QEvent
  <2>2. Ev("PingResult") # Boot /\ \A q \in QueryId : Answer(q) # Ev("PingResult")
    BY <2>1, EventsDiffer
  <2>3. Read /\ pc' = pc /\ queued_events' = <<Ev("PingResult")>>
    BY <1>11 DEF OnPong
  <2> QED BY <2>1, <2>2, <2>3, Singleton, ReadStep, Zenon
<1>12. ASSUME NEW q \in QueryId, OnResponse(q) PROVE Goal
  <2>1. /\ Read /\ pc' = pc
        /\ queued_events' = << >> \/ (queries[q] # None /\ queued_events' = <<Answer(q)>>)
    BY <1>12 DEF OnResponse, Answer, Live
  <2>2. Answer(q) \in QEvent /\ Answer(q) # Boot
    BY EventsDiffer DEF QEvent
  <2>3. CASE queued_events' = << >>
    BY <2>1, <2>3, Nothing, ReadStep, Zenon
  <2>4. CASE queries[q] # None /\ queued_events' = <<Answer(q)>>
    <3>1. \A r \in QueryId : Answer(r) \in {Answer(q)} => queries[r] # None
      BY <2>4, EventsDiffer
    <3> QED BY <2>1, <2>2, <2>4, <3>1, Singleton, ReadStep, Zenon
  <2> QED BY <2>1, <2>3, <2>4, Zenon
<1>13. ASSUME PoolSends PROVE Goal
  BY <1>3, <1>13 DEF PoolSends, IoPending
<1>14. ASSUME PoolPending PROVE Goal
  BY <1>3, <1>14 DEF PoolPending, IoPending
<1>15. ASSUME NEW q \in QueryId, PoolEnds(q) PROVE Goal
  BY <1>15, PoolEndsStep
<1>16. ASSUME NEW i \in Key, TakePeer(i) PROVE Goal
  BY <1>16, TakePeerStep
<1>17. ASSUME QueryFinished PROVE Goal
  BY <1>17, QueryFinishedStep
<1>18. ASSUME Env PROVE Goal
  <2>1. pc' \in {"idle", "io"}
    BY <1>18 DEF Env, NodeInv
  <2> QED BY <1>3, <1>18, <2>1 DEF Env, node
<1>19. ASSUME Arrive \/ Writable \/ \E j \in Job : Expire(j) PROVE Goal
  BY <1>18, <1>19 DEF Arrive, Writable, Expire
<1>20. CASE UNCHANGED vars
  <2>1. UNCHANGED <<queries, bootstrap_nodes, bootstrapped, result, queued_events, pc, event>>
    BY <1>20 DEF vars
  <2>2. NodeInv' /\ QueueInv'
    BY <2>1 DEF NodeInv, QueueInv
  <2>3. UNCHANGED Abstract!vars
    BY <2>1 DEF Abstract!vars
  <2> QED BY <2>2, <2>3
<1>21. CASE Next
  <2>1. Goal
    <3> HIDE DEF Goal
    <3> QED BY <1>1, <1>2, <1>4, <1>5, <1>6, <1>7, <1>8, <1>9, <1>10, <1>11, <1>12, <1>13, <1>14, <1>15,
               <1>16, <1>17, <1>19, <1>21, Zenon DEF Next, Poll
  <2> QED BY <2>1, AbstractSteps
<1> QED BY <1>20, <1>21

LEMMA EventInit == Init => NodeInv /\ QueueInv /\ Abstract!Init
<1> SUFFICES ASSUME Init PROVE NodeInv /\ QueueInv /\ Abstract!Init
  OBVIOUS
<1>1. "FindNode" \in Cmd
  BY DEF Cmd
<1>2. NodeInv
  BY <1>1, Zenon DEF Init, NodeInv
<1>3. CASE bootstrap_nodes
  <2>1. queued_events = << >> /\ bootstrapped = FALSE /\ event = None /\ result = None /\ pc = "idle"
    BY <1>3 DEF Init
  <2>2. QueueInv
    BY <2>1, Nothing DEF QueueInv
  <2>3. PICK q \in QueryId : queries = [r \in QueryId |-> IF r = q THEN "FindNode" ELSE None]
    BY <1>3 DEF Init
  <2>4. \E F \in SUBSET QueryId :
          /\ \A x, y \in F : x = y
          /\ ALive = [r \in QueryId |-> IF r \in F THEN "FindNode" ELSE None]
    <3>1. ALive = [r \in QueryId |-> IF r \in {q} THEN "FindNode" ELSE None]
      BY <2>1, <2>3 DEF ALive
    <3>2. {q} \in SUBSET QueryId /\ \A x, y \in {q} : x = y
      OBVIOUS
    <3> QED BY <3>1, <3>2, Zenon
  <2>5. ABooted = FALSE
    BY <2>1 DEF ABooted
  <2> QED BY <1>2, <2>1, <2>2, <2>4, <2>5 DEF Abstract!Init, ALive, ABooted, Boot
<1>4. CASE ~bootstrap_nodes
  <2>1. /\ queued_events = <<Boot>> /\ bootstrapped = TRUE /\ event = None /\ result = None
        /\ pc = "idle" /\ queries = [r \in QueryId |-> None]
    BY <1>4 DEF Init, Boot
  <2>2. queued_events \in Seq(QEvent) /\ Range(queued_events) = {Boot} /\ Len(queued_events) = 1
    BY <2>1, Singleton, EventsDiffer
  <2>3. Once(queued_events)
    BY <2>2 DEF Once
  <2>4. QueueInv
    BY <2>1, <2>2, <2>3, EventsDiffer DEF QueueInv
  <2>5. \E F \in SUBSET QueryId :
          /\ \A x, y \in F : x = y
          /\ ALive = [r \in QueryId |-> IF r \in F THEN "FindNode" ELSE None]
    <3>1. ALive = [r \in QueryId |-> IF r \in {} THEN "FindNode" ELSE None]
      BY <2>1 DEF ALive
    <3>2. {} \in SUBSET QueryId /\ \A x, y \in {} : x = y
      OBVIOUS
    <3> QED BY <3>1, <3>2, Zenon
  <2>6. ABooted = FALSE
    BY <2>2 DEF ABooted
  <2> QED BY <1>2, <2>1, <2>4, <2>5, <2>6 DEF Abstract!Init, ALive, ABooted, Boot
<1> QED BY <1>3, <1>4

\* rpc/mod.rs:710-879: whatever arrives while queries run, the stream yields each of
\* their responses before their end, one end for each, and Bootstrapped once.
THEOREM ImplementsRpcEventsAlways == Spec => ImplementsRpcEvents
<1>1. NodeInv /\ QueueInv /\ [Next]_vars
        => NodeInv' /\ QueueInv' /\ [Abstract!Next]_(Abstract!vars)
  BY EventNext
<1> QED BY <1>1, EventInit, PTL DEF Spec, ImplementsRpcEvents, Abstract!Spec

\* rpc/mod.rs:440-522: the types, and a node of the table always has an address.
THEOREM TypeOKAlways == Spec => []TypeOK
<1> DEFINE Inv == TableInv /\ WakeInv /\ NodeInv /\ QueueInv
<1>1. Init => Inv
  BY TableInit, WakeInit, EventInit
<1>2. Inv /\ [Next]_vars => Inv'
  BY TableNext, WakeNext, EventNext
<1>3. Inv => TypeOK
  <2> SUFFICES ASSUME Inv PROVE TypeOK
    OBVIOUS
  <2>1. /\ bucket.nodes \in Seq(Key) /\ Len(bucket.nodes) <= K_VALUE
        /\ addr \in [Key -> Addr \cup {None}]
        /\ \A i \in Key : addr[i] # None <=> i \in Keys(bucket)
    BY DEF TableInv, Steady, BucketType
  <2>2. /\ delay \in [Job -> {"running", "watched", "expired"}] /\ coincide \in BOOLEAN
        /\ {unsent, readable, send_waker, recv_waker, woken} \subseteq BOOLEAN
    BY DEF WakeInv
  <2>3. pc = "finish" => result # None
    BY RpcAssumption DEF NodeInv, ResultType, Cmd
  <2> QED BY <2>1, <2>2, <2>3 DEF NodeInv, TypeOK
<1> HIDE DEF Inv
<1> QED BY <1>1, <1>2, <1>3, PTL DEF Spec
=============================================================================
