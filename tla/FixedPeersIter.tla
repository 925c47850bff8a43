--------------------------- MODULE FixedPeersIter ---------------------------
(***************************************************************************)
(* The peer iterator that drives one phase of a query (rpc/query/fixed.rs):*)
(*   [iter, peers, state, num_waiting]                                     *)
(* `iter', the backlog, says how often an address is still to come: most   *)
(* backlogs are filled in the unspecified order of a hash map, and no      *)
(* property is about the order.                                            *)
(* A peer that has not been emitted is "Vacant".                           *)
(***************************************************************************)
EXTENDS Naturals

CONSTANTS Addr,          \* addresses of peers
          parallelism    \* permitted number of pending results

ASSUME IterAssumption == parallelism \in Nat \ {0}

NewIter(backlog) ==
  [iter |-> backlog, peers |-> [a \in Addr |-> "Vacant"], state |-> "Waiting", num_waiting |-> 0]

IsWaitingFor(it, a) == it.state = "Waiting" /\ it.peers[a] = "Waiting"

OnSuccess(it, a) ==
  IF IsWaitingFor(it, a)
  THEN [it EXCEPT !.peers[a] = "Succeeded", !.num_waiting = @ - 1] ELSE it

\* Mutant: a failed request keeps its slot.
OnFailureKeepsSlot(it, a) ==
  IF IsWaitingFor(it, a) THEN [it EXCEPT !.peers[a] = "Failed"] ELSE it

OnFailure(it, a) ==
  IF IsWaitingFor(it, a)
  THEN [it EXCEPT !.peers[a] = "Failed", !.num_waiting = @ - 1] ELSE it

AtCapacity(it) == it.num_waiting >= parallelism

\* Mutant: duplicates are emitted again.
BacklogWithDuplicates(it) == {a \in Addr : it.iter[a] > 0}

\* What the loop of next can still emit: it skips duplicates.
Backlog(it) == {a \in Addr : it.iter[a] > 0 /\ it.peers[a] = "Vacant"}

\* next returns PeersIterState::Finished ...
NextFinishes(it) ==
  \/ it.state = "Finished"
  \/ ~AtCapacity(it) /\ Backlog(it) = {} /\ it.num_waiting = 0

\* ... or Waiting(Some(a)), which leaves the iterator as Emit(it, a)
NextEmits(it, a) == it.state = "Waiting" /\ ~AtCapacity(it) /\ a \in Backlog(it)

Emit(it, a) ==
  [it EXCEPT !.iter[a] = @ - 1, !.peers[a] = "Waiting", !.num_waiting = @ + 1]

Waiting(it) == {a \in Addr : it.peers[a] = "Waiting"}
=============================================================================
