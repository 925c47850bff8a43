----------------------------- MODULE QueryTable -----------------------------
(***************************************************************************)
(* The peers a query knows (rpc/query/table.rs), keyed by peer id:         *)
(*   [addr, state, token]                                                  *)
(* A roundtrip token is abstracted to the id of the peer that handed it    *)
(* out; the `to' address is left out.                                      *)
(***************************************************************************)
EXTENDS FixedPeersIter, FiniteSets

CONSTANTS Id,         \* peer ids, the local one included
          LocalId,
          Rank,       \* [Id -> Nat]: the order of distances to the target
          K_VALUE,
          None

Absent == [addr |-> None, state |-> "Absent", token |-> None]

\* QueryTable::new, from the closest peers of the routing table
NewTable(P) ==
  [i \in Id |-> IF \E p \in P : p.id = i
                THEN [addr |-> (CHOOSE p \in P : p.id = i).addr,
                      state |-> "NotContacted", token |-> None]
                ELSE Absent]

\* HashMap::insert keeps the key, and with it the address, that is already there.
AddrOf(t, i, a) == IF t[i].state = "Absent" THEN a ELSE t[i].addr

\* add_unverified, for each of the peers in P
AddUnverified(t, P) ==
  [i \in Id |->
     IF i # LocalId /\ \E p \in P : p.id = i
     THEN [addr |-> AddrOf(t, i, (CHOOSE p \in P : p.id = i).addr),
           state |-> "NotContacted", token |-> None]
     ELSE t[i]]

\* add_verified, of the peer i that answered from a with a token
AddVerified(t, i, a) ==
  IF i = LocalId THEN t
  ELSE [t EXCEPT ![i] = [addr |-> AddrOf(t, i, a), state |-> "Succeeded", token |-> i]]

SetFailed(t, i) == [t EXCEPT ![i] = [@ EXCEPT !.state = "Failed", !.token = None]]

Verified(t) == {i \in Id : t[i].state = "Succeeded"}

\* How many of the entries in I have the address a
CountAt(t, I, a) == Cardinality({i \in I : t[i].addr = a})

\* unverified_peers_iter
UnverifiedPeers(t) ==
  [a \in Addr |-> CountAt(t, {i \in Id : t[i].state = "NotContacted"}, a)]

\* closest_peers_iter: the K_VALUE verified peers nearest to the target
ClosestPeers(t) ==
  LET nearest == {i \in Verified(t) :
                   Cardinality({j \in Verified(t) : Rank[j] < Rank[i]}) < K_VALUE}
  IN  [a \in Addr |-> CountAt(t, nearest, a)]

\* get_token and the search of on_timeout stop at the first entry with the
\* address, in the order of a hash map: any of these.
EntriesAt(t, a) == {i \in Id : t[i].state # "Absent" /\ t[i].addr = a}

\* Mutant: the address is not looked at.
GetTokenAny(t, a) == {t[i].token : i \in {j \in Id : t[j].state # "Absent"}}

\* What get_token may return; only a verified entry has a token.
GetToken(t, a) == {t[i].token : i \in EntriesAt(t, a)}
=============================================================================
