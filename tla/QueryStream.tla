---------------------------- MODULE QueryStream ----------------------------
(***************************************************************************)
(* A query of the pool (rpc/query/mod.rs): it contacts the bootstrap nodes,*)
(* then the peers it has heard of, then, if it is an update, the closest   *)
(* peers that answered.  RpcDht polls it, sends what it asks for and hands *)
(* the answers back; answers can fail, time out or get lost.  An answer is *)
(* matched to its request by the request id alone: it may come from any    *)
(* address, and its sender, not the peer that was asked, is what the query *)
(* is told.                                                                *)
(***************************************************************************)
EXTENDS QueryTable

CONSTANTS Peer,            \* the peers that nodes may name: [id, addr]
          BootstrapNodes   \* [Addr -> Nat]: how often an address is configured

ASSUME QueryAssumption ==
  /\ Peer \subseteq [id : Id, addr : Addr]
  /\ BootstrapNodes \in [Addr -> Nat]
  /\ IsFiniteSet(Id) /\ LocalId \in Id /\ K_VALUE \in Nat \ {0} /\ Rank \in [Id -> Nat]
  /\ None \notin Addr /\ None \notin Id

VARIABLES ty,         \* QueryType
          phase,      \* QueryPeerIter, or how the query left the pool
          peer_iter,  \* the FixedPeersIter of the phase
          inner,      \* the QueryTable
          stats,      \* the counters of QueryStats
          expired,    \* the query timeout of the pool has elapsed
          inflight,   \* requests whose answer is on its way: [addr, phase, token]
          sent        \* history: how often a phase sent a request to an address

vars == <<ty, phase, peer_iter, inner, stats, expired, inflight, sent>>

QueryType == {"Query", "Update", "QueryUpdate"}
IsUpdate(t) == t \in {"Update", "QueryUpdate"}

Phase == {"Bootstrap", "MovingCloser", "Updating"}
Running == phase \in Phase

\* The peers of the routing table or of an answer: of several addresses for one
\* id the first counts, and the rest is left out here.
Named == {P \in SUBSET Peer : \A p, q \in P : p.id = q.id => p = q}
-----------------------------------------------------------------------------
\* RpcDht::run_command and QueryStream::bootstrap
Init ==
  /\ ty \in QueryType
  /\ phase = "Bootstrap"
  /\ peer_iter = NewIter(BootstrapNodes)
  /\ \E P \in Named : inner = NewTable({p \in P : p.id # LocalId})
  /\ stats = [requests |-> 0, success |-> 0, failure |-> 0]
  /\ expired = FALSE
  /\ inflight = {}
  /\ sent = [p \in Phase |-> [a \in Addr |-> 0]]

Query == [phase |-> phase, iter |-> peer_iter]

\* next_bootstrap and next_move_closer go on to the next phase as soon as the
\* iterator is finished, within the same poll.
AfterBootstrap(q) ==
  IF q.phase = "Bootstrap" /\ NextFinishes(q.iter)
  THEN [phase |-> "MovingCloser", iter |-> NewIter(UnverifiedPeers(inner))] ELSE q

AfterMovingCloser(q) ==
  IF q.phase = "MovingCloser" /\ NextFinishes(q.iter) /\ IsUpdate(ty)
  THEN [phase |-> "Updating", iter |-> NewIter(ClosestPeers(inner))] ELSE q

Advanced == AfterMovingCloser(AfterBootstrap(Query))

\* The QueryEvent that q emits becomes a request to a.
Request(q, a, token) ==
  /\ peer_iter' = Emit(q.iter, a)
  /\ inflight' = inflight \cup {[addr |-> a, phase |-> q.phase, token |-> token]}
  /\ sent' = [sent EXCEPT ![q.phase][a] = @ + 1]

\* send: the iterator of q has emitted a
SendQuery(q, a) == q.phase # "Updating" /\ Request(q, a, None)

SendUpdate(q, a) ==
  /\ q.phase = "Updating"
  /\ \E token \in GetToken(inner, a) :
       IF token # None
       THEN Request(q, a, token)
       ELSE /\ peer_iter' = OnFailure(Emit(q.iter, a), a)    \* MissingRoundtripToken
            /\ UNCHANGED <<inflight, sent>>

PollSends ==
  /\ Running
  /\ \E a \in Addr :
       /\ NextEmits(Advanced.iter, a)
       /\ SendQuery(Advanced, a) \/ SendUpdate(Advanced, a)
  /\ phase' = Advanced.phase
  /\ UNCHANGED <<ty, inner, stats, expired>>

\* QueryPoolState::Finished
PollFinishes ==
  /\ Running
  /\ NextFinishes(Advanced.iter)
  /\ phase' = "Finished"
  /\ peer_iter' = [Advanced.iter EXCEPT !.state = "Finished"]
  /\ UNCHANGED <<ty, inner, stats, expired, inflight, sent>>

Pending == ~NextFinishes(peer_iter) /\ \A a \in Addr : ~NextEmits(peer_iter, a)

\* Mutant: a query that still bootstraps is not timed out.
PollTimesOutLater ==
  /\ Running /\ Pending /\ expired /\ phase # "Bootstrap"
  /\ phase' = "TimedOut"
  /\ UNCHANGED <<ty, peer_iter, inner, stats, expired, inflight, sent>>

\* QueryPoolState::Timeout: the query is pending and has run out of time.
PollTimesOut ==
  /\ Running /\ Pending /\ expired
  /\ phase' = "TimedOut"
  /\ UNCHANGED <<ty, peer_iter, inner, stats, expired, inflight, sent>>

Poll == PollSends \/ PollFinishes \/ PollTimesOut
-----------------------------------------------------------------------------
\* An answer with the id of r arrives; RpcDht drops it if the query is gone.
Arrives(r) ==
  /\ r \in inflight
  /\ inflight' = inflight \ {r}
  /\ UNCHANGED <<ty, phase, expired, sent>>

\* inject_response of an error from the address `from', with the peer id i or none
InjectError(r, from, i) ==
  /\ Arrives(r)
  /\ IF Running
     THEN /\ stats' = [stats EXCEPT !.failure = @ + 1]
          /\ peer_iter' = OnFailure(peer_iter, from)
          /\ inner' = IF i # None /\ inner[i].state # "Absent" THEN SetFailed(inner, i) ELSE inner
     ELSE UNCHANGED <<stats, peer_iter, inner>>

\* Mutant: closer nodes are taken in every phase.
AbsorbAlways(t, P) == AddUnverified(t, P)

\* Closer nodes are only taken while bootstrapping.
Absorb(t, P) == IF phase = "Bootstrap" THEN AddUnverified(t, P) ELSE t

\* inject_response of a successful answer from the address `from' with peer id i,
\* closer nodes P, and a roundtrip token if tok holds
InjectResponse(r, from, i, P, tok) ==
  /\ Arrives(r)
  /\ IF Running
     THEN /\ stats' = [stats EXCEPT !.success = @ + 1]
          /\ peer_iter' = OnSuccess(peer_iter, from)
          /\ inner' = IF tok /\ i # None
                      THEN AddVerified(Absorb(inner, P), i, from)
                      ELSE Absorb(inner, P)
     ELSE UNCHANGED <<stats, peer_iter, inner>>

\* on_timeout, of the peer that was asked
OnTimeout(r) ==
  /\ Arrives(r)
  /\ IF Running
     THEN /\ stats' = [stats EXCEPT !.failure = @ + 1]
          /\ peer_iter' = OnFailure(peer_iter, r.addr)
          /\ IF EntriesAt(inner, r.addr) = {}
             THEN UNCHANGED inner
             ELSE \E i \in EntriesAt(inner, r.addr) : inner' = SetFailed(inner, i)
     ELSE UNCHANGED <<stats, peer_iter, inner>>

Answer(r) ==
  \/ \E from \in Addr, i \in Id \cup {None} :
       \/ InjectError(r, from, i)
       \/ \E P \in Named, tok \in BOOLEAN : InjectResponse(r, from, i, P, tok)
  \/ OnTimeout(r)

\* The request or its answer is lost.
Lose(r) == Arrives(r) /\ UNCHANGED <<stats, peer_iter, inner>>

\* The query timeout elapses.
Expire ==
  /\ Running /\ ~expired /\ expired' = TRUE
  /\ UNCHANGED <<ty, phase, peer_iter, inner, stats, inflight, sent>>

Next == Poll \/ (\E r \in inflight : Answer(r) \/ Lose(r)) \/ Expire

Spec == Init /\ [][Next]_vars

\* RpcDht::poll_next polls the pool until it is pending; a request that is not
\* lost is answered.
FairSpec == Spec /\ WF_vars(Poll) /\ WF_vars(\E r \in inflight : Answer(r))
-----------------------------------------------------------------------------
\* Types; no more results are awaited than the parallelism of the iterator
\* allows, and counting them never goes below 0 (fixed.rs:88-137).
TypeOK ==
  /\ ty \in QueryType
  /\ phase \in Phase \cup {"Finished", "TimedOut"}
  /\ peer_iter \in [iter : [Addr -> Nat],
                    peers : [Addr -> {"Vacant", "Waiting", "Failed", "Succeeded"}],
                    state : {"Waiting", "Finished"},
                    num_waiting : 0..parallelism]
  /\ inner \in [Id -> [addr : Addr \cup {None},
                       state : {"Absent", "NotContacted", "Failed", "Succeeded"},
                       token : Id \cup {None}]]
  /\ stats \in [requests : Nat, success : Nat, failure : Nat]
  /\ expired \in BOOLEAN
  /\ inflight \subseteq [addr : Addr, phase : Phase, token : Id \cup {None}]
  /\ sent \in [Phase -> [Addr -> Nat]]

\* fixed.rs:29-30, 88-118: num_waiting counts the peers that are waited for and
\* never exceeds the parallelism, whoever answers in whose place.  Every request
\* in flight holds one of these slots, its own or that of another peer: a phase
\* leaves no request behind whose answer would reach the iterator of the next.
WaitingMatches ==
  /\ TypeOK
  /\ Running =>
       /\ peer_iter.num_waiting = Cardinality(Waiting(peer_iter))
       /\ Cardinality(inflight) <= peer_iter.num_waiting
       /\ \A r \in inflight : r.phase = phase

\* fixed.rs:148-149: no phase contacts an address twice, under however many ids
\* the address is known.
ContactedOnce == \A p \in Phase, a \in Addr : sent[p][a] <= 1

\* rpc/query/mod.rs:328-380: a query that finishes waits for nobody, and every
\* peer it has heard of has answered with a token under its id, has failed, or was
\* contacted after it was heard of, whatever ids and addresses answers come with.
NobodyLeftOut ==
  phase = "Finished" =>
    /\ Waiting(peer_iter) = {} /\ inflight = {}
    /\ \A i \in Id : inner[i].state = "NotContacted" => sent["MovingCloser"][inner[i].addr] > 0

\* rpc/query/mod.rs:382-395, table.rs:52-59: the token of an update was handed out
\* by a node with an id that is known at the address the update is sent to: it is
\* the token of the node there unless that id has moved to another address.
TokenOfPeer ==
  \A r \in inflight : r.phase = "Updating" => inner[r.token].addr = r.addr

\* rpc/query/mod.rs:154-160: a query that has run out of time ends.
ExpiredEnds == expired ~> ~Running

\* A peer is waited for and no request is on its way that could end this.
Stranded == Cardinality(inflight) < Cardinality(Waiting(peer_iter))

\* fixed.rs:131-160: the query finishes by itself as long as every answer frees a
\* slot.  One that gets lost does not, nor one from an address that is not waited
\* for (rpc/io.rs:371-381 takes it all the same).
AnsweredFinishes == [](~expired /\ (Running => ~Stranded)) => <>(phase = "Finished")
=============================================================================
