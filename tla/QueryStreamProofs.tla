-------------------------- MODULE QueryStreamProofs --------------------------
(***************************************************************************)
(* Proofs about QueryStream.tla, for all peers, bootstrap nodes and tables *)
(* a query starts from, and for every parallelism.                         *)
(***************************************************************************)
EXTENDS QueryStream, FiniteSetTheorems, TLAPS

\* SMT has 30 seconds for each step; the steps it is not suited for name Zenon.
USE SMTT(30)

-----------------------------------------------------------------------------
(* The peer iterator. *)

PeerState == {"Vacant", "Waiting", "Failed", "Succeeded"}

Iterator == [iter : [Addr -> Nat], peers : [Addr -> PeerState],
             state : {"Waiting", "Finished"}, num_waiting : 0..parallelism]

\* num_waiting counts the peers that are waited for.
IterOK(it) ==
  /\ it \in Iterator
  /\ IsFiniteSet(Waiting(it))
  /\ it.num_waiting = Cardinality(Waiting(it))

LEMMA NewIterOK ==
  ASSUME NEW backlog \in [Addr -> Nat]
  PROVE  /\ IterOK(NewIter(backlog))
         /\ Waiting(NewIter(backlog)) = {}
         /\ NewIter(backlog).state = "Waiting"
         /\ Backlog(NewIter(backlog)) = {a \in Addr : backlog[a] > 0}
<1> DEFINE it == NewIter(backlog)
<1>1. it \in Iterator /\ it.num_waiting = 0 /\ it.state = "Waiting"
  BY IterAssumption DEF NewIter, Iterator, PeerState
<1>2. Waiting(it) = {} /\ Backlog(it) = {a \in Addr : backlog[a] > 0}
  BY DEF NewIter, Waiting, Backlog
<1> QED BY <1>1, <1>2, FS_EmptySet DEF IterOK

\* next emits a: one more peer is waited for, and the backlog loses a only.
LEMMA EmitOK ==
  ASSUME NEW it, IterOK(it), NEW a \in Addr, NextEmits(it, a)
  PROVE  /\ IterOK(Emit(it, a))
         /\ a \notin Waiting(it)
         /\ Waiting(Emit(it, a)) = Waiting(it) \cup {a}
         /\ Emit(it, a).state = "Waiting"
         /\ Emit(it, a).num_waiting = it.num_waiting + 1
         /\ Emit(it, a).peers = [it.peers EXCEPT ![a] = "Waiting"]
         /\ \A b \in Addr : Emit(it, a).iter[b] <= it.iter[b]
         /\ Backlog(Emit(it, a)) = Backlog(it) \ {a}
<1> DEFINE e == Emit(it, a)
<1>1. /\ it \in Iterator /\ it.iter[a] > 0 /\ it.peers[a] = "Vacant"
      /\ it.num_waiting < parallelism /\ it.state = "Waiting"
  BY IterAssumption DEF NextEmits, AtCapacity, Backlog, IterOK, Iterator
<1>2. /\ e.iter = [it.iter EXCEPT ![a] = @ - 1]
      /\ e.peers = [it.peers EXCEPT ![a] = "Waiting"]
      /\ e.num_waiting = it.num_waiting + 1
      /\ e.state = it.state
  BY <1>1 DEF Emit, Iterator
<1>3. e \in Iterator
  <2>1. it.num_waiting + 1 \in 0..parallelism /\ it.iter[a] - 1 \in Nat
    BY <1>1, IterAssumption DEF Iterator
  <2> QED BY <1>1, <2>1, Zenon DEF Emit, Iterator, PeerState
<1> HIDE DEF e
<1>4. a \notin Waiting(it) /\ Waiting(e) = Waiting(it) \cup {a}
  BY <1>1, <1>2 DEF Waiting, Iterator
<1>5. IsFiniteSet(Waiting(e)) /\ Cardinality(Waiting(e)) = Cardinality(Waiting(it)) + 1
  BY <1>4, FS_AddElement DEF IterOK
<1>6. \A b \in Addr : e.iter[b] <= it.iter[b]
  BY <1>1, <1>2 DEF Iterator
<1>7. Backlog(e) = Backlog(it) \ {a}
  BY <1>1, <1>2 DEF Backlog, Iterator, PeerState
<1>8. IterOK(e)
  BY <1>2, <1>3, <1>5 DEF IterOK
<1> QED BY <1>1, <1>2, <1>4, <1>6, <1>7, <1>8 DEF e

\* on_success and on_failure: the peer is no longer waited for, no matter whether
\* it was; nothing else changes for the others.
LEMMA ResultOK ==
  ASSUME NEW it, IterOK(it), it.state = "Waiting", NEW a \in Addr,
         NEW e, e = OnSuccess(it, a) \/ e = OnFailure(it, a)
  PROVE  /\ IterOK(e)
         /\ Waiting(e) = Waiting(it) \ {a}
         /\ e.num_waiting >= it.num_waiting - 1
         /\ e.state = "Waiting"
         /\ e.iter = it.iter
         /\ \A b \in Addr : e.peers[b] = "Vacant" <=> it.peers[b] = "Vacant"
         /\ Backlog(e) = Backlog(it)
<1>1. it \in Iterator
  BY DEF IterOK
<1>2. CASE ~IsWaitingFor(it, a)
  <2>1. e = it
    BY <1>2 DEF OnSuccess, OnFailure
  <2>2. a \notin Waiting(it)
    BY <1>2 DEF IsWaitingFor, Waiting
  <2> QED BY <1>1, <2>1, <2>2 DEF Iterator
<1>3. CASE IsWaitingFor(it, a)
  <2>1. PICK s \in {"Succeeded", "Failed"} :
          e = [it EXCEPT !.peers[a] = s, !.num_waiting = @ - 1]
    BY <1>3 DEF OnSuccess, OnFailure
  <2>2. a \in Waiting(it)
    BY <1>3 DEF IsWaitingFor, Waiting
  <2>3. /\ IsFiniteSet(Waiting(it) \ {a})
        /\ Cardinality(Waiting(it) \ {a}) = it.num_waiting - 1
        /\ Cardinality(Waiting(it) \ {a}) \in Nat
    BY <2>2, FS_RemoveElement, FS_CardinalityType DEF IterOK
  <2>4. it.num_waiting - 1 \in 0..parallelism
    BY <1>1, <2>3, IterAssumption DEF Iterator
  <2>5. /\ e \in Iterator
        /\ e.iter = it.iter /\ e.state = it.state
        /\ e.peers = [it.peers EXCEPT ![a] = s]
        /\ e.num_waiting = it.num_waiting - 1
    BY <1>1, <2>1, <2>4, Zenon DEF Iterator, PeerState
  <2>6. Waiting(e) = Waiting(it) \ {a}
    BY <1>1, <2>5 DEF Waiting, Iterator
  <2>7. \A b \in Addr : e.peers[b] = "Vacant" <=> it.peers[b] = "Vacant"
    BY <1>1, <2>2, <2>5 DEF Waiting, Iterator
  <2>8. Backlog(e) = Backlog(it)
    BY <2>5, <2>7 DEF Backlog
  <2>9. IterOK(e)
    BY <2>3, <2>5, <2>6 DEF IterOK
  <2>10. e.num_waiting >= it.num_waiting - 1
    BY <1>1, <2>5 DEF Iterator
  <2> QED BY <2>5, <2>6, <2>7, <2>8, <2>9, <2>10
<1> QED BY <1>2, <1>3

\* next says Finished of an iterator that is under way: nobody is waited for and
\* the backlog is empty.
LEMMA FinishesOK ==
  ASSUME NEW it, IterOK(it), it.state = "Waiting", NextFinishes(it)
  PROVE  Waiting(it) = {} /\ Backlog(it) = {}
BY FS_EmptySet DEF IterOK, NextFinishes

-----------------------------------------------------------------------------
(* The peers a query knows. *)

TableEntry == [addr : Addr \cup {None}, state : {"Absent", "NotContacted", "Failed", "Succeeded"},
               token : Id \cup {None}]

LEMMA CountAtOK ==
  ASSUME NEW t, NEW I \in SUBSET Id, NEW a
  PROVE  CountAt(t, I, a) \in Nat /\ (CountAt(t, I, a) > 0 <=> \E i \in I : t[i].addr = a)
<1> DEFINE S == {i \in I : t[i].addr = a}
<1>1. IsFiniteSet(S)
  BY QueryAssumption, FS_Subset
<1>2. Cardinality(S) \in Nat /\ (Cardinality(S) = 0 <=> S = {})
  BY <1>1, FS_CardinalityType, FS_EmptySet
<1>3. CountAt(t, I, a) = Cardinality(S)
  BY DEF CountAt
<1>4. Cardinality(S) > 0 <=> S # {}
  BY <1>2
<1> QED BY <1>2, <1>3, <1>4

\* unverified_peers_iter yields the addresses of the peers not yet contacted.
LEMMA UnverifiedPeersOK ==
  ASSUME NEW t
  PROVE  /\ UnverifiedPeers(t) \in [Addr -> Nat]
         /\ \A a \in Addr : UnverifiedPeers(t)[a] > 0 <=>
              \E i \in Id : t[i].state = "NotContacted" /\ t[i].addr = a
BY CountAtOK DEF UnverifiedPeers

\* closest_peers_iter yields addresses of verified peers only.
LEMMA ClosestPeersOK ==
  ASSUME NEW t
  PROVE  /\ ClosestPeers(t) \in [Addr -> Nat]
         /\ \A a \in Addr : ClosestPeers(t)[a] > 0 =>
              \E i \in Id : t[i].state = "Succeeded" /\ t[i].addr = a
<1> DEFINE N == {i \in Verified(t) : Cardinality({j \in Verified(t) : Rank[j] < Rank[i]}) < K_VALUE}
<1>1. N \in SUBSET Id /\ \A i \in N : t[i].state = "Succeeded"
  BY DEF Verified
<1>2. ClosestPeers(t) = [a \in Addr |-> CountAt(t, N, a)]
  BY DEF ClosestPeers
<1> HIDE DEF N
<1> QED BY <1>1, <1>2, CountAtOK

LEMMA NewTableOK ==
  ASSUME NEW P \in SUBSET Peer
  PROVE  /\ NewTable(P) \in [Id -> TableEntry]
         /\ \A i \in Id : /\ NewTable(P)[i].state \in {"Absent", "NotContacted"}
                          /\ NewTable(P)[i].token = None
                          /\ NewTable(P)[i].state # "Absent" => NewTable(P)[i].addr \in Addr
<1> SUFFICES ASSUME NEW i \in Id
             PROVE  /\ NewTable(P)[i] \in TableEntry
                    /\ NewTable(P)[i].state \in {"Absent", "NotContacted"}
                    /\ NewTable(P)[i].token = None
                    /\ NewTable(P)[i].state # "Absent" => NewTable(P)[i].addr \in Addr
  BY Zenon DEF NewTable
<1>1. CASE \E p \in P : p.id = i
  <2> DEFINE p == CHOOSE p \in P : p.id = i
  <2>1. p \in P /\ p.id = i
    BY <1>1
  <2>2. NewTable(P)[i] = [addr |-> p.addr, state |-> "NotContacted", token |-> None]
    BY <1>1 DEF NewTable
  <2> HIDE DEF p
  <2>3. p.addr \in Addr
    BY <2>1, QueryAssumption
  <2> QED BY <2>1, <2>2, <2>3 DEF TableEntry
<1>2. CASE ~\E p \in P : p.id = i
  BY <1>2, Zenon DEF NewTable, Absent, TableEntry
<1> QED BY <1>1, <1>2

\* add_unverified: an entry is left as it is, or is to be contacted; the address
\* of a known peer stays.
LEMMA AddUnverifiedOK ==
  ASSUME NEW t \in [Id -> TableEntry], NEW P \in SUBSET Peer
  PROVE  /\ AddUnverified(t, P) \in [Id -> TableEntry]
         /\ \A i \in Id :
              \/ AddUnverified(t, P)[i] = t[i]
              \/ /\ AddUnverified(t, P)[i].state = "NotContacted"
                 /\ AddUnverified(t, P)[i].token = None
                 /\ IF t[i].state = "Absent"
                    THEN AddUnverified(t, P)[i].addr \in Addr
                    ELSE AddUnverified(t, P)[i].addr = t[i].addr
<1> DEFINE u == AddUnverified(t, P)
<1> SUFFICES ASSUME NEW i \in Id
             PROVE  /\ u[i] \in TableEntry
                    /\ \/ u[i] = t[i]
                       \/ /\ u[i].state = "NotContacted" /\ u[i].token = None
                          /\ IF t[i].state = "Absent" THEN u[i].addr \in Addr
                                                      ELSE u[i].addr = t[i].addr
  BY Zenon DEF AddUnverified
<1>1. CASE i # LocalId /\ \E p \in P : p.id = i
  <2> DEFINE p == CHOOSE p \in P : p.id = i
  <2>1. p \in P /\ p.id = i
    BY <1>1
  <2>2. u[i] = [addr |-> AddrOf(t, i, p.addr), state |-> "NotContacted", token |-> None]
    BY <1>1 DEF AddUnverified
  <2> HIDE DEF p, u
  <2>3. p.addr \in Addr
    BY <2>1, QueryAssumption
  <2>4. AddrOf(t, i, p.addr) = IF t[i].state = "Absent" THEN p.addr ELSE t[i].addr
    BY DEF AddrOf
  <2>5. t[i].addr \in Addr \cup {None}
    BY DEF TableEntry
  <2> QED BY <2>1, <2>2, <2>3, <2>4, <2>5 DEF TableEntry
<1>2. CASE ~(i # LocalId /\ \E p \in P : p.id = i)
  BY <1>2 DEF AddUnverified
<1> QED BY <1>1, <1>2

LEMMA AddVerifiedOK ==
  ASSUME NEW t \in [Id -> TableEntry], NEW i \in Id, NEW a \in Addr
  PROVE  /\ AddVerified(t, i, a) \in [Id -> TableEntry]
         /\ \A j \in Id :
              \/ AddVerified(t, i, a)[j] = t[j]
              \/ /\ j = i
                 /\ AddVerified(t, i, a)[j].state = "Succeeded"
                 /\ AddVerified(t, i, a)[j].token = i
                 /\ AddVerified(t, i, a)[j].addr = IF t[j].state = "Absent" THEN a ELSE t[j].addr
<1>1. CASE i = LocalId
  BY <1>1 DEF AddVerified
<1>2. CASE i # LocalId
  <2> DEFINE e == [addr |-> AddrOf(t, i, a), state |-> "Succeeded", token |-> i]
  <2>1. AddVerified(t, i, a) = [t EXCEPT ![i] = e]
    BY <1>2 DEF AddVerified
  <2>2. /\ e.addr = IF t[i].state = "Absent" THEN a ELSE t[i].addr
        /\ e.state = "Succeeded" /\ e.token = i
    BY DEF AddrOf
  <2>3. e \in TableEntry
    BY DEF TableEntry, AddrOf
  <2> HIDE DEF e
  <2> QED BY <2>1, <2>2, <2>3
<1> QED BY <1>1, <1>2

LEMMA SetFailedOK ==
  ASSUME NEW t \in [Id -> TableEntry], NEW i \in Id
  PROVE  /\ SetFailed(t, i) \in [Id -> TableEntry]
         /\ \A j \in Id : j # i => SetFailed(t, i)[j] = t[j]
         /\ SetFailed(t, i)[i].state = "Failed"
         /\ SetFailed(t, i)[i].token = None
         /\ SetFailed(t, i)[i].addr = t[i].addr
BY Zenon DEF SetFailed, TableEntry

-----------------------------------------------------------------------------
(* The specification. *)

\* A query under way, with the requests in flight and those sent before: its
\* requests belong to its phase and are no more than the peers it waits for, and a
\* phase has sent nothing to a peer it has not emitted.
QueryOK(q) ==
  /\ q.phase \in Phase /\ IterOK(q.iter) /\ q.iter.state = "Waiting"
  /\ \A r \in inflight : r.phase = q.phase
  /\ IsFiniteSet(inflight) /\ Cardinality(inflight) <= q.iter.num_waiting
  /\ \A a \in Addr : q.iter.peers[a] = "Vacant" => sent[q.phase][a] = 0
  /\ q.phase = "Bootstrap" => \A a \in Addr : sent["MovingCloser"][a] = 0
  /\ q.phase # "Updating" => \A a \in Addr : sent["Updating"][a] = 0

\* The inductive invariant.
Inv ==
  /\ TypeOK
  /\ ContactedOnce
  /\ Running => QueryOK(Query)
  /\ phase = "Finished" => Waiting(peer_iter) = {} /\ inflight = {}

\* An iterator that waits for nobody has left no request in flight.
LEMMA NoneInFlight ==
  ASSUME NEW q, QueryOK(q), Waiting(q.iter) = {}
  PROVE  inflight = {}
<1>1. IsFiniteSet(inflight) /\ Cardinality(inflight) <= 0
  BY FS_EmptySet DEF QueryOK, IterOK
<1> QED BY <1>1, FS_CardinalityType, FS_EmptySet

LEMMA InvInit == Init => Inv
<1> SUFFICES ASSUME Init PROVE Inv
  OBVIOUS
<1>1. PICK P \in SUBSET Peer : inner = NewTable(P)
  BY DEF Init, Named
<1>2. inner \in [Id -> TableEntry]
  BY <1>1, NewTableOK
<1>3. /\ IterOK(peer_iter) /\ peer_iter.state = "Waiting"
  BY NewIterOK, QueryAssumption DEF Init
<1>4. /\ \A p \in Phase, a \in Addr : sent[p][a] = 0
      /\ sent \in [Phase -> [Addr -> Nat]]
  BY DEF Init
<1>5. TypeOK
  BY <1>2, <1>3, <1>4, Zenon DEF TypeOK, Iterator, PeerState, TableEntry, Init, IterOK, Phase
<1>6. ContactedOnce
  BY <1>4 DEF ContactedOnce
<1>7. QueryOK(Query)
  <2>1. inflight = {} /\ peer_iter.num_waiting = 0 /\ phase = "Bootstrap"
    BY DEF Init, NewIter
  <2>2. IsFiniteSet(inflight) /\ Cardinality(inflight) <= peer_iter.num_waiting
    BY <2>1, FS_EmptySet
  <2> QED BY <1>3, <1>4, <2>1, <2>2 DEF QueryOK, Query, Phase
<1> QED BY <1>5, <1>6, <1>7 DEF Inv, Init

\* The phases a poll goes through before it sends or finishes keep a query in
\* order: it goes on only when nobody is waited for.
LEMMA AdvancedOK ==
  ASSUME Inv, Running
  PROVE  /\ QueryOK(AfterBootstrap(Query)) /\ QueryOK(Advanced)
         /\ AfterBootstrap(Query) = Query
            \/ /\ phase = "Bootstrap" /\ inflight = {}
               /\ AfterBootstrap(Query) =
                    [phase |-> "MovingCloser", iter |-> NewIter(UnverifiedPeers(inner))]
         /\ Advanced = AfterBootstrap(Query)
            \/ /\ AfterBootstrap(Query).phase = "MovingCloser" /\ inflight = {}
               /\ Backlog(AfterBootstrap(Query).iter) = {}
               /\ Advanced = [phase |-> "Updating", iter |-> NewIter(ClosestPeers(inner))]
<1> DEFINE q == Query
           b == AfterBootstrap(q)
<1>1. QueryOK(q) /\ q.phase = phase
  BY DEF Inv, Query
<1>2. b = q \/ /\ phase = "Bootstrap" /\ NextFinishes(q.iter)
               /\ b = [phase |-> "MovingCloser", iter |-> NewIter(UnverifiedPeers(inner))]
  BY DEF AfterBootstrap, Query
<1>3. b # q => inflight = {} /\ QueryOK(b)
  <2> SUFFICES ASSUME b # q PROVE inflight = {} /\ QueryOK(b)
    OBVIOUS
  <2>1. b.phase = "MovingCloser" /\ b.iter = NewIter(UnverifiedPeers(inner))
    BY <1>2
  <2>2. inflight = {}
    BY <1>1, <1>2, FinishesOK, NoneInFlight DEF QueryOK
  <2>3. IterOK(b.iter) /\ b.iter.state = "Waiting"
    BY <2>1, UnverifiedPeersOK, NewIterOK
  <2> HIDE DEF b
  <2>4. IsFiniteSet(inflight) /\ Cardinality(inflight) <= b.iter.num_waiting
    BY <2>2, <2>3, FS_EmptySet DEF IterOK, Iterator
  <2>5. \A a \in Addr : sent[b.phase][a] = 0 /\ sent["Updating"][a] = 0
    <3>1. q.phase = "Bootstrap"
      BY <1>1, <1>2, Zenon
    <3>2. \A a \in Addr : sent["MovingCloser"][a] = 0 /\ sent["Updating"][a] = 0
      BY <1>1, <3>1, Zenon DEF QueryOK
    <3> QED BY <2>1, <3>2, Zenon
  <2> QED BY <2>1, <2>2, <2>3, <2>4, <2>5 DEF QueryOK, Phase
<1>4. QueryOK(b)
  BY <1>1, <1>3
<1>5. Advanced = b
      \/ /\ b.phase = "MovingCloser" /\ NextFinishes(b.iter)
         /\ Advanced = [phase |-> "Updating", iter |-> NewIter(ClosestPeers(inner))]
  BY DEF Advanced, AfterMovingCloser
<1> HIDE DEF b
<1>6. Advanced # b => inflight = {} /\ Backlog(b.iter) = {} /\ QueryOK(Advanced)
  <2> SUFFICES ASSUME Advanced # b PROVE inflight = {} /\ Backlog(b.iter) = {} /\ QueryOK(Advanced)
    OBVIOUS
  <2>1. Advanced.phase = "Updating" /\ Advanced.iter = NewIter(ClosestPeers(inner))
    BY <1>5
  <2>2. inflight = {} /\ Backlog(b.iter) = {}
    BY <1>4, <1>5, FinishesOK, NoneInFlight DEF QueryOK
  <2>3. IterOK(Advanced.iter) /\ Advanced.iter.state = "Waiting"
    BY <2>1, ClosestPeersOK, NewIterOK
  <2>4. IsFiniteSet(inflight) /\ Cardinality(inflight) <= Advanced.iter.num_waiting
    BY <2>2, <2>3, FS_EmptySet DEF IterOK, Iterator
  <2>5. \A a \in Addr : sent["Updating"][a] = 0
    <3>1. b.phase = "MovingCloser"
      BY <1>5, Zenon
    <3> QED BY <1>4, <3>1, Zenon DEF QueryOK
  <2> QED BY <2>1, <2>2, <2>3, <2>4, <2>5 DEF QueryOK, Phase
<1> QED BY <1>2, <1>3, <1>4, <1>5, <1>6 DEF b

\* send of a query or an update
LEMMA RequestStep ==
  ASSUME Inv, NEW q, QueryOK(q), NEW a \in Addr, NextEmits(q.iter, a),
         NEW token \in Id \cup {None}, Request(q, a, token),
         phase' = q.phase, UNCHANGED <<ty, inner, stats, expired>>
  PROVE  Inv'
<1> DEFINE r == [addr |-> a, phase |-> q.phase, token |-> token]
<1>1. /\ peer_iter' = Emit(q.iter, a) /\ inflight' = inflight \cup {r}
      /\ sent' = [sent EXCEPT ![q.phase][a] = @ + 1]
  BY DEF Request
<1>2. /\ IterOK(peer_iter') /\ peer_iter'.state = "Waiting"
      /\ peer_iter'.num_waiting = q.iter.num_waiting + 1
      /\ peer_iter'.peers = [q.iter.peers EXCEPT ![a] = "Waiting"]
  BY <1>1, EmitOK, Zenon DEF QueryOK
<1>3. q.iter.peers[a] = "Vacant" /\ q.iter.peers \in [Addr -> PeerState]
  BY Zenon DEF NextEmits, Backlog, QueryOK, IterOK, Iterator
<1>4. q.phase \in Phase /\ sent \in [Phase -> [Addr -> Nat]] /\ sent[q.phase][a] = 0
  BY <1>3 DEF QueryOK, Inv, TypeOK
<1>5. /\ sent' \in [Phase -> [Addr -> Nat]]
      /\ sent'[q.phase][a] = 1
      /\ \A p \in Phase, b \in Addr : (p # q.phase \/ b # a) => sent'[p][b] = sent[p][b]
  BY <1>1, <1>4
<1>6. TypeOK'
  <2>1. r \in [addr : Addr, phase : Phase, token : Id \cup {None}]
    BY <1>4
  <2> QED BY <1>1, <1>2, <1>4, <1>5, <2>1 DEF TypeOK, Iterator, PeerState, TableEntry, Inv, IterOK
<1>7. ContactedOnce'
  BY <1>5 DEF Inv, ContactedOnce
<1>8. IsFiniteSet(inflight') /\ Cardinality(inflight') <= peer_iter'.num_waiting
  <2>1. /\ IsFiniteSet(inflight) /\ Cardinality(inflight) <= q.iter.num_waiting
        /\ q.iter.num_waiting \in Nat
    BY DEF QueryOK, IterOK, Iterator
  <2> HIDE DEF r
  <2>2. /\ IsFiniteSet(inflight \cup {r})
        /\ Cardinality(inflight \cup {r}) \in {Cardinality(inflight), Cardinality(inflight) + 1}
    BY <2>1, FS_AddElement, Zenon
  <2>3. Cardinality(inflight) \in Nat
    BY <2>1, FS_CardinalityType
  <2> QED BY <1>1, <1>2, <2>1, <2>2, <2>3
<1>9. QueryOK(Query)'
  <2>1. Query' = [phase |-> q.phase, iter |-> peer_iter']
    BY DEF Query
  <2>2. \A f \in inflight' : f.phase = q.phase
    BY <1>1 DEF QueryOK
  <2>3. \A b \in Addr : peer_iter'.peers[b] = "Vacant" => sent'[q.phase][b] = 0
    BY <1>2, <1>3, <1>4, <1>5 DEF QueryOK
  <2>4. /\ q.phase = "Bootstrap" => \A b \in Addr : sent'["MovingCloser"][b] = 0
        /\ q.phase # "Updating" => \A b \in Addr : sent'["Updating"][b] = 0
    BY <1>5 DEF QueryOK, Phase
  <2> QED BY <1>2, <1>4, <1>8, <2>1, <2>2, <2>3, <2>4, Zenon DEF QueryOK
<1>10. phase' # "Finished"
  BY <1>4, Zenon DEF Phase
<1> QED BY <1>6, <1>7, <1>9, <1>10, Zenon DEF Inv

\* MissingRoundtripToken: nothing is sent.
LEMMA MissingTokenStep ==
  ASSUME Inv, NEW q, QueryOK(q), NEW a \in Addr, NextEmits(q.iter, a),
         peer_iter' = OnFailure(Emit(q.iter, a), a),
         phase' = q.phase, UNCHANGED <<ty, inner, stats, expired, inflight, sent>>
  PROVE  Inv'
<1> DEFINE e == Emit(q.iter, a)
<1>1. /\ IterOK(e) /\ e.state = "Waiting"
      /\ a \notin Waiting(q.iter) /\ Waiting(e) = Waiting(q.iter) \cup {a}
      /\ e.peers = [q.iter.peers EXCEPT ![a] = "Waiting"]
  BY EmitOK, Zenon DEF QueryOK
<1> HIDE DEF e
<1>2. /\ IterOK(peer_iter') /\ peer_iter'.state = "Waiting"
      /\ Waiting(peer_iter') = Waiting(q.iter)
      /\ \A b \in Addr : peer_iter'.peers[b] = "Vacant" <=> e.peers[b] = "Vacant"
  <2>1. peer_iter' = OnSuccess(e, a) \/ peer_iter' = OnFailure(e, a)
    BY DEF e
  <2>2. IterOK(e) /\ e.state = "Waiting"
    BY <1>1
  <2>3. /\ IterOK(peer_iter') /\ peer_iter'.state = "Waiting"
        /\ Waiting(peer_iter') = Waiting(e) \ {a}
        /\ \A b \in Addr : peer_iter'.peers[b] = "Vacant" <=> e.peers[b] = "Vacant"
    BY ONLY <2>1, <2>2, a \in Addr, ResultOK
  <2> QED BY <1>1, <2>3
<1>3. \A b \in Addr : peer_iter'.peers[b] = "Vacant" => q.iter.peers[b] = "Vacant"
  <2>1. q.iter.peers \in [Addr -> PeerState]
    BY Zenon DEF QueryOK, IterOK, Iterator
  <2> QED BY <1>1, <1>2, <2>1, Zenon
<1>4. TypeOK'
  BY <1>2, ZenonT(30) DEF TypeOK, Iterator, PeerState, TableEntry, Inv, IterOK, QueryOK
<1>5. QueryOK(Query)'
  <2>1. Query' = [phase |-> q.phase, iter |-> peer_iter']
    BY DEF Query
  <2>2. peer_iter'.num_waiting = q.iter.num_waiting
    BY <1>2 DEF QueryOK, IterOK
  <2> QED BY <1>2, <1>3, <2>1, <2>2 DEF QueryOK
<1> QED BY <1>4, <1>5, ZenonT(30) DEF Inv, ContactedOnce, QueryOK, Phase

LEMMA PollStep ==
  ASSUME Inv, Poll
  PROVE  Inv'
<1>1. Running
  BY DEF Poll, PollSends, PollFinishes, PollTimesOut
<1>2. QueryOK(Advanced)
  BY <1>1, AdvancedOK
<1>3. CASE PollSends
  <2>1. PICK a \in Addr : NextEmits(Advanced.iter, a) /\ (SendQuery(Advanced, a) \/ SendUpdate(Advanced, a))
    BY <1>3 DEF PollSends
  <2>2. phase' = Advanced.phase /\ UNCHANGED <<ty, inner, stats, expired>>
    BY <1>3 DEF PollSends
  <2>3. CASE SendQuery(Advanced, a)
    <3>1. Request(Advanced, a, None)
      BY <2>3 DEF SendQuery
    <3> QED BY <1>2, <2>1, <2>2, <3>1, RequestStep
  <2>4. CASE SendUpdate(Advanced, a)
    <3>1. PICK token \in GetToken(inner, a) :
            IF token # None THEN Request(Advanced, a, token)
            ELSE /\ peer_iter' = OnFailure(Emit(Advanced.iter, a), a)
                 /\ UNCHANGED <<inflight, sent>>
      BY <2>4 DEF SendUpdate
    <3>2. token \in Id \cup {None}
      BY DEF GetToken, EntriesAt, Inv, TypeOK
    <3>3. CASE token # None
      BY <1>2, <2>1, <2>2, <3>1, <3>2, <3>3, RequestStep, Zenon
    <3>4. CASE token = None
      BY <1>2, <2>1, <2>2, <3>1, <3>4, MissingTokenStep
    <3> QED BY <3>3, <3>4
  <2> QED BY <2>1, <2>3, <2>4
<1>4. CASE PollFinishes
  <2> DEFINE it == Advanced.iter
  <2>1. /\ phase' = "Finished" /\ peer_iter' = [it EXCEPT !.state = "Finished"]
        /\ UNCHANGED <<ty, inner, stats, expired, inflight, sent>>
        /\ NextFinishes(it)
    BY <1>4 DEF PollFinishes
  <2>2. Waiting(it) = {} /\ it \in Iterator
    BY <1>2, <2>1, FinishesOK DEF QueryOK, IterOK
  <2>3. inflight = {}
    BY <1>2, <2>2, NoneInFlight
  <2> HIDE DEF it
  <2>4. peer_iter' \in Iterator /\ peer_iter'.peers = it.peers
    BY <2>1, <2>2 DEF Iterator
  <2>5. Waiting(peer_iter') = {}
    BY <2>2, <2>4 DEF Waiting
  <2>6. TypeOK'
    BY <2>1, <2>4, Zenon DEF TypeOK, Iterator, PeerState, TableEntry, Inv
  <2> QED BY <2>1, <2>3, <2>5, <2>6 DEF Inv, ContactedOnce, Running, Phase
<1>5. CASE PollTimesOut
  BY <1>5 DEF PollTimesOut, Inv, TypeOK, ContactedOnce, Running, Phase
<1> QED BY <1>3, <1>4, <1>5 DEF Poll

\* An answer from the address a, a timeout or a loss
LEMMA ArrivalStep ==
  ASSUME Inv, NEW r \in inflight, Arrives(r), NEW a \in Addr,
         stats' \in [requests : Nat, success : Nat, failure : Nat],
         inner' \in [Id -> TableEntry],
         \/ /\ Running
            /\ peer_iter' = OnSuccess(peer_iter, a) \/ peer_iter' = OnFailure(peer_iter, a)
         \/ UNCHANGED peer_iter
  PROVE  Inv'
<1>1. inflight' = inflight \ {r} /\ UNCHANGED <<ty, phase, expired, sent>>
  BY DEF Arrives
<1>2. Running => /\ IsFiniteSet(inflight')
                 /\ Cardinality(inflight') <= peer_iter.num_waiting - 1
                 /\ Cardinality(inflight') \in Nat
  <2> SUFFICES ASSUME Running
               PROVE  /\ IsFiniteSet(inflight')
                      /\ Cardinality(inflight') <= peer_iter.num_waiting - 1
                      /\ Cardinality(inflight') \in Nat
    OBVIOUS
  <2>1. /\ IsFiniteSet(inflight) /\ Cardinality(inflight) <= peer_iter.num_waiting
        /\ peer_iter.num_waiting \in Nat
    BY DEF Inv, QueryOK, Query, IterOK, Iterator
  <2>2. IsFiniteSet(inflight') /\ Cardinality(inflight') = Cardinality(inflight) - 1
    BY <1>1, <2>1, FS_RemoveElement
  <2>3. Cardinality(inflight) \in Nat /\ Cardinality(inflight') \in Nat
    BY <2>1, <2>2, FS_CardinalityType
  <2> QED BY <2>1, <2>2, <2>3
<1>3. Running => QueryOK(Query) /\ Query.iter = peer_iter /\ Query.phase = phase
  BY Zenon DEF Inv, Query
<1>4. CASE /\ Running
           /\ peer_iter' = OnSuccess(peer_iter, a) \/ peer_iter' = OnFailure(peer_iter, a)
  <2>1. /\ IterOK(peer_iter') /\ peer_iter'.state = "Waiting"
        /\ peer_iter'.num_waiting >= peer_iter.num_waiting - 1
        /\ \A b \in Addr : peer_iter'.peers[b] = "Vacant" <=> peer_iter.peers[b] = "Vacant"
    BY <1>3, <1>4, ResultOK DEF QueryOK
  <2>2. TypeOK'
    BY <1>1, <2>1, Zenon DEF TypeOK, Iterator, PeerState, TableEntry, Inv, IterOK
  <2>3. \A f \in inflight' : f.phase = phase
    BY <1>1, <1>3, <1>4, ZenonT(30) DEF QueryOK
  <2>4. Query' = [phase |-> phase, iter |-> peer_iter']
    BY <1>1, Zenon DEF Query
  <2>5. IsFiniteSet(inflight') /\ Cardinality(inflight') <= peer_iter'.num_waiting
    <3>1. peer_iter'.num_waiting \in Nat /\ peer_iter.num_waiting \in Nat
      BY <1>3, <1>4, <2>1 DEF IterOK, Iterator, QueryOK
    <3> QED BY <1>2, <1>4, <2>1, <3>1
  <2>6. QueryOK(Query)'
    BY <1>1, <1>3, <1>4, <2>1, <2>3, <2>4, <2>5 DEF QueryOK
  <2>7. phase' # "Finished"
    BY <1>1, <1>4, Zenon DEF Running, Phase
  <2> QED BY <1>1, <2>2, <2>6, <2>7, Zenon DEF Inv, ContactedOnce
<1>5. CASE UNCHANGED peer_iter
  <2>1. TypeOK'
    BY <1>1, <1>5 DEF TypeOK, Iterator, PeerState, TableEntry, Inv
  <2>2. Query' = Query
    BY <1>1, <1>5, Zenon DEF Query
  <2>3. Running' => QueryOK(Query)'
    <3> SUFFICES ASSUME Running' PROVE QueryOK(Query)'
      OBVIOUS
    <3>1. Running /\ QueryOK(Query) /\ Query.iter = peer_iter
      BY <1>1, <1>3 DEF Running
    <3>2. IsFiniteSet(inflight') /\ Cardinality(inflight') <= Query.iter.num_waiting
      <4>1. peer_iter.num_waiting \in Nat
        BY <3>1 DEF QueryOK, IterOK, Iterator
      <4> QED BY <1>2, <3>1, <4>1
    <3> QED BY <1>1, <2>2, <3>1, <3>2 DEF QueryOK
  <2> QED BY <1>1, <1>5, <2>1, <2>3, Zenon DEF Inv, ContactedOnce
<1> QED BY <1>4, <1>5

LEMMA InvStep == Inv /\ [Next]_vars => Inv'
<1> SUFFICES ASSUME Inv, [Next]_vars PROVE Inv'
  OBVIOUS
<1>1. CASE Poll
  BY <1>1, PollStep
<1>2. ASSUME NEW r \in inflight, Answer(r) \/ Lose(r) PROVE Inv'
  <2>1. r.addr \in Addr /\ inner \in [Id -> TableEntry]
        /\ stats \in [requests : Nat, success : Nat, failure : Nat]
    BY DEF Inv, TypeOK, TableEntry
  <2>2. ASSUME NEW from \in Addr, NEW i \in Id \cup {None}, InjectError(r, from, i) PROVE Inv'
    <3>1. inner' \in [Id -> TableEntry]
      BY <2>1, <2>2, SetFailedOK DEF InjectError
    <3>2. stats' \in [requests : Nat, success : Nat, failure : Nat]
      BY <2>1, <2>2 DEF InjectError
    <3> QED BY <2>2, <3>1, <3>2, ArrivalStep DEF InjectError
  <2>3. ASSUME NEW from \in Addr, NEW i \in Id \cup {None}, NEW P \in Named, NEW tok \in BOOLEAN,
               InjectResponse(r, from, i, P, tok)
        PROVE  Inv'
    <3>1. P \in SUBSET Peer
      BY DEF Named
    <3>2. Absorb(inner, P) \in [Id -> TableEntry]
      BY <2>1, <3>1, AddUnverifiedOK DEF Absorb
    <3>3. inner' \in [Id -> TableEntry]
      BY <2>1, <2>3, <3>2, AddVerifiedOK DEF InjectResponse
    <3>4. stats' \in [requests : Nat, success : Nat, failure : Nat]
      BY <2>1, <2>3 DEF InjectResponse
    <3> QED BY <2>3, <3>3, <3>4, ArrivalStep DEF InjectResponse
  <2>4. CASE OnTimeout(r)
    <3>1. \A i \in EntriesAt(inner, r.addr) : i \in Id
      BY DEF EntriesAt
    <3>2. inner' \in [Id -> TableEntry]
      BY <2>1, <2>4, <3>1, SetFailedOK DEF OnTimeout
    <3>3. stats' \in [requests : Nat, success : Nat, failure : Nat]
      BY <2>1, <2>4 DEF OnTimeout
    <3> QED BY <2>1, <2>4, <3>2, <3>3, ArrivalStep DEF OnTimeout
  <2>5. CASE Lose(r)
    BY <2>1, <2>5, ArrivalStep, Zenon DEF Lose
  <2> QED BY <1>2, <2>2, <2>3, <2>4, <2>5, Zenon DEF Answer
<1>3. CASE Expire
  BY <1>3, Zenon DEF Expire, Inv, TypeOK, ContactedOnce, Running, QueryOK, Query
<1>4. CASE UNCHANGED vars
  BY <1>4 DEF vars, Inv, TypeOK, ContactedOnce, Running, QueryOK, Query
<1> QED BY <1>1, <1>2, <1>3, <1>4 DEF Next

\* The invariant holds of every behaviour.
THEOREM InvAlways == Spec => []Inv
<1>1. Init => Inv
  BY InvInit
<1>2. Inv /\ [Next]_vars => Inv'
  BY InvStep
<1> QED BY <1>1, <1>2, PTL DEF Spec

\* fixed.rs:29-30, 88-118: for every parallelism, num_waiting counts the peers that
\* are waited for and never exceeds the parallelism, and the requests in flight are
\* those of the phase and never more than that, whoever answers them.
THEOREM WaitingMatchesAlways == Spec => []WaitingMatches
<1>1. Inv => WaitingMatches
  BY DEF Inv, WaitingMatches, TypeOK, QueryOK, Query, IterOK
<1> QED BY <1>1, InvAlways, PTL

\* fixed.rs:148-149: no phase of a query contacts an address twice.
THEOREM ContactedOnceAlways == Spec => []ContactedOnce
<1>1. Inv => ContactedOnce
  BY DEF Inv
<1> QED BY <1>1, InvAlways, PTL

-----------------------------------------------------------------------------
(* What a query knows of its peers.  HashMap::insert keeps the address of a  *)
(* known id (QueryTable!AddrOf), so that an address is known once and for    *)
(* all, whatever address an id answers from.                                 *)

Contacted(s, a) == s["MovingCloser"][a] > 0

\* Once the bootstrap nodes have answered, the peers that are neither contacted nor
\* settled by an answer or a timeout are still to come.
Covered(q) ==
  \A i \in Id : inner[i].state = "NotContacted" =>
    /\ q.phase = "MovingCloser" =>
         Contacted(sent, inner[i].addr) \/ inner[i].addr \in Backlog(q.iter)
    /\ q.phase = "Updating" => Contacted(sent, inner[i].addr)

\* The update r carries the token of an id that is known at its address.
TokenKnown(r) ==
  r.token \in Id /\ inner[r.token].state # "Absent" /\ inner[r.token].addr = r.addr

\* The second inductive invariant, relative to the first
KnowledgeInv ==
  /\ \A i \in Id : inner[i].state # "Absent" => inner[i].addr \in Addr
  /\ \A i \in Id : inner[i].token # None => inner[i].token = i
  /\ \A r \in inflight : r.phase = "Updating" => TokenKnown(r)
  /\ Running => Covered(Query)
  /\ phase = "Finished" =>
       \A i \in Id : inner[i].state = "NotContacted" => Contacted(sent, inner[i].addr)

LEMMA KnowledgeInit == Init => KnowledgeInv
<1> SUFFICES ASSUME Init PROVE KnowledgeInv
  OBVIOUS
<1>1. PICK P \in SUBSET Peer : inner = NewTable(P)
  BY DEF Init, Named
<1>2. \A i \in Id : /\ inner[i].token = None
                    /\ inner[i].state # "Absent" => inner[i].addr \in Addr
  BY <1>1, NewTableOK
<1>3. phase = "Bootstrap" /\ inflight = {}
  BY DEF Init
<1>4. Covered(Query)
  BY <1>3 DEF Query, Covered
<1> QED BY <1>2, <1>3, <1>4 DEF KnowledgeInv

\* The phases a poll goes through
LEMMA AdvancedCovered ==
  ASSUME Inv, KnowledgeInv, Running
  PROVE  Covered(Advanced)
<1> DEFINE b == AfterBootstrap(Query)
<1>1. b = Query \/ b = [phase |-> "MovingCloser", iter |-> NewIter(UnverifiedPeers(inner))]
  BY AdvancedOK
<1>2. /\ b.phase = "MovingCloser" \/ Advanced = b
      /\ Advanced # b => /\ Backlog(b.iter) = {}
                         /\ Advanced = [phase |-> "Updating", iter |-> NewIter(ClosestPeers(inner))]
  BY AdvancedOK, Zenon
<1>3. Covered(Query)
  BY DEF KnowledgeInv
<1> HIDE DEF b
<1>4. Covered(b)
  <2>1. CASE b = [phase |-> "MovingCloser", iter |-> NewIter(UnverifiedPeers(inner))]
    <3>1. b.phase = "MovingCloser" /\ b.iter = NewIter(UnverifiedPeers(inner))
      BY <2>1, Zenon
    <3>2. Backlog(b.iter) = {a \in Addr : UnverifiedPeers(inner)[a] > 0}
      BY <3>1, UnverifiedPeersOK, NewIterOK, Zenon
    <3>3. ASSUME NEW i \in Id, inner[i].state = "NotContacted"
          PROVE  inner[i].addr \in Backlog(b.iter)
      <4>1. inner[i].addr \in Addr
        BY <3>3 DEF KnowledgeInv
      <4> QED BY <3>2, <3>3, <4>1, UnverifiedPeersOK, Zenon
    <3> QED BY <3>1, <3>3 DEF Covered
  <2> QED BY <1>1, <1>3, <2>1
<1>5. CASE Advanced # b
  <2>1. Advanced.phase = "Updating"
    BY <1>2, <1>5
  <2>2. \A i \in Id : inner[i].state = "NotContacted" => Contacted(sent, inner[i].addr)
    BY <1>2, <1>4, <1>5, Zenon DEF Covered
  <2> QED BY <2>1, <2>2 DEF Covered
<1> QED BY <1>4, <1>5

\* send of a query or an update
LEMMA RequestKnows ==
  ASSUME Inv, KnowledgeInv, NEW q, QueryOK(q), Covered(q), NEW a \in Addr, NextEmits(q.iter, a),
         NEW token, q.phase = "Updating" => TokenKnown([addr |-> a, phase |-> q.phase, token |-> token]),
         Request(q, a, token), phase' = q.phase, UNCHANGED inner
  PROVE  KnowledgeInv'
<1> DEFINE r == [addr |-> a, phase |-> q.phase, token |-> token]
<1>1. /\ peer_iter' = Emit(q.iter, a) /\ inflight' = inflight \cup {r}
      /\ sent' = [sent EXCEPT ![q.phase][a] = @ + 1]
  BY DEF Request
<1>2. Backlog(peer_iter') = Backlog(q.iter) \ {a}
  BY <1>1, EmitOK, Zenon DEF QueryOK
<1>3. q.phase \in Phase /\ sent \in [Phase -> [Addr -> Nat]]
  BY Zenon DEF Inv, TypeOK, QueryOK
<1>4. \A b \in Addr : Contacted(sent, b) => Contacted(sent', b)
  <2>1. "MovingCloser" \in Phase
    BY DEF Phase
  <2> QED BY <1>1, <1>3, <2>1 DEF Contacted
<1>5. q.phase = "MovingCloser" => Contacted(sent', a)
  BY <1>1, <1>3 DEF Contacted
<1>6. \A f \in inflight' : f.phase = "Updating" => TokenKnown(f)'
  <2>1. \A f \in inflight : f.phase = "Updating" => TokenKnown(f)
    BY DEF KnowledgeInv
  <2>2. r.phase = "Updating" => TokenKnown(r)
    BY Zenon
  <2>3. \A f : TokenKnown(f)' <=> TokenKnown(f)
    BY Zenon DEF TokenKnown
  <2> HIDE DEF r
  <2> QED BY <1>1, <2>1, <2>2, <2>3, Zenon
<1>7. Covered(Query)'
  <2>1. Query'.phase = q.phase /\ Query'.iter = peer_iter'
    BY DEF Query
  <2>2. ASSUME NEW i \in Id, inner[i].state = "NotContacted"
        PROVE  /\ q.phase = "MovingCloser" =>
                    Contacted(sent', inner[i].addr) \/ inner[i].addr \in Backlog(peer_iter')
               /\ q.phase = "Updating" => Contacted(sent', inner[i].addr)
    <3>1. inner[i].addr \in Addr
      BY <2>2 DEF KnowledgeInv
    <3> QED BY <1>2, <1>4, <1>5, <2>2, <3>1, Zenon DEF Covered
  <2> QED BY <2>1, <2>2, Zenon DEF Covered
<1>8. phase' # "Finished"
  BY <1>3 DEF Phase
<1> QED BY <1>6, <1>7, <1>8, Zenon DEF KnowledgeInv

LEMMA PollKnows ==
  ASSUME Inv, KnowledgeInv, Poll
  PROVE  KnowledgeInv'
<1>1. Running
  BY DEF Poll, PollSends, PollFinishes, PollTimesOut
<1> DEFINE q == Advanced
<1>2. QueryOK(q) /\ Covered(q)
  BY <1>1, AdvancedOK, AdvancedCovered
<1>3. CASE PollSends
  <2>1. PICK a \in Addr : NextEmits(q.iter, a) /\ (SendQuery(q, a) \/ SendUpdate(q, a))
    BY <1>3 DEF PollSends
  <2>2. phase' = q.phase /\ UNCHANGED inner
    BY <1>3 DEF PollSends
  <2> HIDE DEF q
  <2>3. CASE SendQuery(q, a)
    <3>1. q.phase # "Updating" /\ Request(q, a, None)
      BY <2>3 DEF SendQuery
    <3> QED BY <1>2, <2>1, <2>2, <3>1, RequestKnows, Zenon
  <2>4. CASE SendUpdate(q, a)
    <3>1. PICK token \in GetToken(inner, a) :
            IF token # None THEN Request(q, a, token)
            ELSE peer_iter' = OnFailure(Emit(q.iter, a), a) /\ UNCHANGED <<inflight, sent>>
      BY <2>4 DEF SendUpdate
    <3>2. q.phase = "Updating"
      BY <2>4 DEF SendUpdate
    <3>3. CASE token # None
      <4>1. PICK i \in EntriesAt(inner, a) : token = inner[i].token
        BY DEF GetToken
      <4>2. i \in Id /\ inner[i].state # "Absent" /\ inner[i].addr = a
        BY DEF EntriesAt
      <4>3. token = i
        BY <3>3, <4>1, <4>2 DEF KnowledgeInv
      <4>4. TokenKnown([addr |-> a, phase |-> q.phase, token |-> token])
        BY <4>2, <4>3 DEF TokenKnown
      <4> QED BY <1>2, <2>1, <2>2, <3>1, <3>3, <4>4, RequestKnows
    <3>4. CASE token = None
      <4>1. UNCHANGED <<inflight, sent, inner>>
        BY <2>2, <3>1, <3>4
      <4>2. Query'.phase = "Updating" /\ phase' = "Updating"
        BY <2>2, <3>2 DEF Query
      <4>3. Covered(Query)'
        BY <1>2, <3>2, <4>1, <4>2, Zenon DEF Covered, Contacted
      <4> QED BY <4>1, <4>2, <4>3 DEF KnowledgeInv, TokenKnown
    <3> QED BY <3>3, <3>4
  <2> QED BY <2>1, <2>3, <2>4
<1>4. CASE PollFinishes
  <2>1. phase' = "Finished" /\ NextFinishes(q.iter) /\ UNCHANGED <<inner, inflight, sent>>
    BY <1>4 DEF PollFinishes
  <2>2. Backlog(q.iter) = {}
    BY <1>2, <2>1, FinishesOK, Zenon DEF QueryOK
  <2>3. q.phase # "Bootstrap"
    BY <2>1, Zenon DEF Advanced, AfterMovingCloser, AfterBootstrap
  <2> HIDE DEF q
  <2>4. \A i \in Id : inner[i].state = "NotContacted" => Contacted(sent, inner[i].addr)
    BY <1>2, <2>2, <2>3, Zenon DEF QueryOK, Covered, Phase
  <2> QED BY <2>1, <2>4 DEF KnowledgeInv, TokenKnown, Contacted, Running, Phase
<1>5. CASE PollTimesOut
  BY <1>5, ZenonT(30) DEF PollTimesOut, KnowledgeInv, TokenKnown, Running, Phase
<1> QED BY <1>3, <1>4, <1>5 DEF Poll

\* What an answer may do to entry i of the table: its address is kept once it is
\* known, and only while bootstrapping it becomes one that is to be contacted.
EntryStep(i, old, new) ==
  \/ new = old
  \/ /\ new.state \in {"NotContacted", "Failed", "Succeeded"}
     /\ new.state = "NotContacted" => phase = "Bootstrap"
     /\ new.token \in {None, i}
     /\ new.addr \in Addr
     /\ old.state # "Absent" => new.addr = old.addr

LEMMA ArrivalKnows ==
  ASSUME Inv, KnowledgeInv, NEW r \in inflight, Arrives(r),
         \A i \in Id : EntryStep(i, inner[i], inner'[i]), Running \/ UNCHANGED inner,
         Running => Backlog(peer_iter') = Backlog(peer_iter)
  PROVE  KnowledgeInv'
<1>1. inflight' = inflight \ {r} /\ UNCHANGED <<phase, sent>>
  BY DEF Arrives
<1>2. /\ \A i \in Id : inner'[i].state # "Absent" => inner'[i].addr \in Addr
      /\ \A i \in Id : inner'[i].token # None => inner'[i].token = i
  BY DEF EntryStep, KnowledgeInv
<1>3. \A f \in inflight' : f.phase = "Updating" => TokenKnown(f)'
  BY <1>1 DEF EntryStep, KnowledgeInv, TokenKnown
<1>4. CASE Running
  <2>1. Covered(Query) /\ Query.phase = phase /\ Query.iter = peer_iter
    BY <1>4 DEF KnowledgeInv, Query
  <2>2. Query'.phase = phase /\ Query'.iter = peer_iter'
    BY <1>1, Zenon DEF Query
  <2>3. ASSUME NEW i \in Id, inner'[i].state = "NotContacted", phase # "Bootstrap"
        PROVE  inner[i].state = "NotContacted" /\ inner'[i] = inner[i]
    BY <2>3, Zenon DEF EntryStep
  <2>4. Covered(Query)'
    <3> SUFFICES ASSUME NEW i \in Id, inner'[i].state = "NotContacted", phase # "Bootstrap"
                 PROVE  /\ phase = "MovingCloser" =>
                             Contacted(sent, inner'[i].addr) \/ inner'[i].addr \in Backlog(peer_iter')
                        /\ phase = "Updating" => Contacted(sent, inner'[i].addr)
      BY <1>1, <2>2 DEF Covered
    <3> QED BY <1>4, <2>1, <2>3, Zenon DEF Covered
  <2>5. phase' # "Finished"
    BY <1>1, <1>4 DEF Running, Phase
  <2> QED BY <1>2, <1>3, <2>4, <2>5, Zenon DEF KnowledgeInv
<1>5. CASE ~Running
  <2>1. ~Running'
    BY <1>1, <1>5 DEF Running
  <2> QED BY <1>1, <1>2, <1>3, <1>5, <2>1, Zenon DEF KnowledgeInv
<1> QED BY <1>4, <1>5

LEMMA KnowledgeStep ==
  ASSUME Inv, KnowledgeInv, [Next]_vars
  PROVE  KnowledgeInv'
<1>1. CASE Poll
  BY <1>1, PollKnows
<1>2. ASSUME NEW r \in inflight, Answer(r) \/ Lose(r) PROVE KnowledgeInv'
  <2>1. /\ r.addr \in Addr /\ inner \in [Id -> TableEntry]
        /\ \A i \in Id : inner[i].state # "Absent" => inner[i].addr \in Addr
    BY DEF Inv, TypeOK, TableEntry, KnowledgeInv
  <2>2. ASSUME NEW a \in Addr,
               \/ peer_iter' = OnSuccess(peer_iter, a)
               \/ peer_iter' = OnFailure(peer_iter, a)
               \/ peer_iter' = peer_iter,
               Running
        PROVE  Backlog(peer_iter') = Backlog(peer_iter)
    <3>1. IterOK(peer_iter) /\ peer_iter.state = "Waiting"
      BY <2>2 DEF Inv, QueryOK, Query
    <3> QED BY <2>2, <3>1, ResultOK
  <2>3. ASSUME NEW i \in Id, inner[i].state # "Absent", inner' = SetFailed(inner, i), NEW j \in Id
        PROVE  EntryStep(j, inner[j], inner'[j])
    BY <2>1, <2>3, SetFailedOK DEF EntryStep
  <2>4. ASSUME NEW from \in Addr, NEW i \in Id \cup {None}, InjectError(r, from, i)
        PROVE  KnowledgeInv'
    <3>1. ASSUME NEW j \in Id PROVE EntryStep(j, inner[j], inner'[j])
      <4>1. CASE inner' = inner
        BY <4>1 DEF EntryStep
      <4>2. CASE inner' # inner
        <5>1. i \in Id /\ inner[i].state # "Absent" /\ inner' = SetFailed(inner, i)
          BY <2>4, <4>2 DEF InjectError
        <5> QED BY <2>3, <5>1
      <4> QED BY <4>1, <4>2
    <3> QED BY <2>2, <2>4, <3>1, ArrivalKnows DEF InjectError
  <2>5. ASSUME NEW from \in Addr, NEW i \in Id \cup {None}, NEW P \in Named, NEW tok \in BOOLEAN,
               InjectResponse(r, from, i, P, tok)
        PROVE  KnowledgeInv'
    <3> DEFINE u == Absorb(inner, P)
    <3>1. P \in SUBSET Peer
      BY DEF Named
    <3>2. u \in [Id -> TableEntry] /\ \A j \in Id : EntryStep(j, inner[j], u[j])
      <4>1. CASE phase = "Bootstrap"
        <5>1. u = AddUnverified(inner, P)
          BY <4>1 DEF Absorb
        <5> HIDE DEF u
        <5> QED BY <2>1, <3>1, <4>1, <5>1, AddUnverifiedOK DEF EntryStep
      <4>2. CASE phase # "Bootstrap"
        BY <2>1, <4>2 DEF Absorb, EntryStep
      <4> QED BY <4>1, <4>2, Zenon
    <3>3. ASSUME NEW j \in Id PROVE EntryStep(j, inner[j], inner'[j])
      <4>1. \/ inner' = inner \/ inner' = u
            \/ i \in Id /\ inner' = AddVerified(u, i, from)
        BY <2>5 DEF InjectResponse
      <4> HIDE DEF u
      <4>2. CASE inner' = inner
        BY <4>2 DEF EntryStep
      <4>3. CASE inner' = u
        BY <3>2, <4>3, Zenon
      <4>4. CASE i \in Id /\ inner' = AddVerified(u, i, from)
        <5>1. CASE inner'[j] = u[j]
          BY <3>2, <5>1, Zenon
        <5>2. CASE inner'[j] # u[j]
          <6>1. /\ inner'[j].state = "Succeeded" /\ inner'[j].token = j
                /\ inner'[j].addr = IF u[j].state = "Absent" THEN from ELSE u[j].addr
            BY <3>2, <4>4, <5>2, AddVerifiedOK
          <6>2. EntryStep(j, inner[j], u[j])
            BY <3>2
          <6> QED BY <2>1, <6>1, <6>2 DEF EntryStep
        <5> QED BY <5>1, <5>2
      <4> QED BY <4>1, <4>2, <4>3, <4>4
    <3> QED BY <2>2, <2>5, <3>3, ArrivalKnows DEF InjectResponse
  <2>6. CASE OnTimeout(r)
    <3>1. ASSUME NEW j \in Id PROVE EntryStep(j, inner[j], inner'[j])
      <4>1. CASE inner' = inner
        BY <4>1, Zenon DEF EntryStep
      <4>2. CASE inner' # inner
        <5>1. PICK i \in EntriesAt(inner, r.addr) : inner' = SetFailed(inner, i)
          BY <2>6, <4>2 DEF OnTimeout
        <5>2. i \in Id /\ inner[i].state # "Absent"
          BY DEF EntriesAt
        <5> QED BY <2>3, <5>1, <5>2
      <4> QED BY <4>1, <4>2
    <3> QED BY <2>1, <2>2, <2>6, <3>1, ArrivalKnows DEF OnTimeout
  <2>7. CASE Lose(r)
    BY <2>7, ArrivalKnows, Zenon DEF Lose, EntryStep
  <2> QED BY <1>2, <2>4, <2>5, <2>6, <2>7 DEF Answer
<1>3. CASE Expire
  BY <1>3, Zenon DEF Expire, KnowledgeInv, TokenKnown, Running, Covered, Query
<1>4. CASE UNCHANGED vars
  BY <1>4, Zenon DEF vars, KnowledgeInv, TokenKnown, Running, Covered, Query
<1> QED BY <1>1, <1>2, <1>3, <1>4 DEF Next

\* What a query knows of its peers, in every behaviour
THEOREM KnowledgeAlways == Spec => []KnowledgeInv
<1>1. Init => KnowledgeInv
  BY KnowledgeInit
<1>2. Inv /\ KnowledgeInv /\ [Next]_vars => KnowledgeInv'
  BY KnowledgeStep
<1> QED BY <1>1, <1>2, InvAlways, PTL DEF Spec

\* rpc/query/mod.rs:328-380: whatever ids and addresses answers come with, a query
\* that finishes waits for nobody, and every peer it has heard of has answered with
\* a token under its id, has failed, or was contacted after it was heard of.
THEOREM NobodyLeftOutAlways == Spec => []NobodyLeftOut
<1>1. Inv /\ KnowledgeInv => NobodyLeftOut
  BY DEF Inv, KnowledgeInv, NobodyLeftOut, Contacted
<1> QED BY <1>1, InvAlways, KnowledgeAlways, PTL

\* rpc/query/mod.rs:382-395: whatever ids and addresses answers come with, an update
\* carries a token of a node with an id that is known at the update's address.
THEOREM TokenOfPeerAlways == Spec => []TokenOfPeer
<1>1. KnowledgeInv => TokenOfPeer
  BY DEF KnowledgeInv, TokenKnown, TokenOfPeer
<1> QED BY <1>1, KnowledgeAlways, PTL
=============================================================================
