------------------------------ MODULE BucketOps ------------------------------
(***************************************************************************)
(* The operations of a bucket of the routing table (kbucket/bucket.rs), as *)
(* functions of the bucket they are applied to:                            *)
(*   [nodes, first_connected_pos, pending]                                 *)
(*                                                                         *)
(* Values stored with a node are abstracted away.  `replace', an Instant   *)
(* in the code, is the time left until that Instant; 0 means it passed.    *)
(***************************************************************************)
EXTENDS Naturals, Sequences, Functions, Vec

CONSTANTS Key,             \* keys whose distance falls into this bucket
          K_VALUE,         \* capacity of a bucket
          PendingTimeout,  \* pending_timeout, in ticks
          None             \* Option::None

Status == {"Connected", "Disconnected"}

PendingNode == [key : Key, status : Status, replace : 0..PendingTimeout]

AppliedPending == [inserted : Key, evicted : Key \cup {None}]

ASSUME ConstantsAssumption ==
  /\ K_VALUE \in Nat \ {0}
  /\ PendingTimeout \in Nat
  /\ None \notin Nat
  /\ None \notin PendingNode
  /\ None \notin AppliedPending
  /\ None \notin Key

-----------------------------------------------------------------------------
\* Positions count from 0, as in the code.

New == [nodes |-> << >>, first_connected_pos |-> None, pending |-> None]

IsFull(b) == Len(b.nodes) = K_VALUE

Keys(b) == Range(b.nodes)

Position(b, k) == VecPosition(b.nodes, k)

StatusAt(b, p) ==
  IF b.first_connected_pos # None /\ p >= b.first_connected_pos
  THEN "Connected" ELSE "Disconnected"

PushConnected(b, k) ==
  [b EXCEPT !.nodes = Append(@, k),
            !.first_connected_pos = IF @ = None THEN Len(b.nodes) ELSE @]

\* Mutant: the connected nodes move up, first_connected_pos does not.
PushDisconnectedKeepsPos(b, k) ==
  IF b.first_connected_pos = None
  THEN [b EXCEPT !.nodes = Append(@, k)]
  ELSE [b EXCEPT !.nodes = VecInsert(@, b.first_connected_pos, k)]

PushDisconnected(b, k) ==
  IF b.first_connected_pos = None
  THEN [b EXCEPT !.nodes = Append(@, k)]
  ELSE [b EXCEPT !.nodes = VecInsert(@, b.first_connected_pos, k),
                 !.first_connected_pos = @ + 1]

SetPending(b, k) ==
  [b EXCEPT !.pending = [key |-> k, status |-> "Connected", replace |-> PendingTimeout]]

Insert(b, k, s) ==
  CASE ~IsFull(b) /\ s = "Connected"    -> PushConnected(b, k)
    [] ~IsFull(b) /\ s = "Disconnected" -> PushDisconnected(b, k)
    [] /\ IsFull(b)
       /\ s = "Connected" /\ b.first_connected_pos # 0 /\ b.pending = None -> SetPending(b, k)
    [] OTHER -> b    \* InsertResult::Full

\* Mutants: the position shifts for a connected node too; the position of the
\* last connected node outlives the node.
ConnectedPosAlwaysShifts(b, p, len) ==
  IF b.first_connected_pos = None THEN None ELSE b.first_connected_pos - 1

ConnectedPosOutlives(b, p, len) ==
  IF StatusAt(b, p) = "Connected" \/ b.first_connected_pos = None
  THEN b.first_connected_pos ELSE b.first_connected_pos - 1

\* first_connected_pos once the node at p is gone and len nodes are left
ConnectedPosAfterRemove(b, p, len) ==
  CASE StatusAt(b, p) = "Connected" ->
         IF b.first_connected_pos = p /\ p = len THEN None ELSE b.first_connected_pos
    [] StatusAt(b, p) = "Disconnected" ->
         IF b.first_connected_pos = None THEN None ELSE b.first_connected_pos - 1

RemoveNode(b, k) ==
  LET p == Position(b, k)
      n == VecRemove(b.nodes, p)
  IN  [b EXCEPT !.nodes = n, !.first_connected_pos = ConnectedPosAfterRemove(b, p, Len(n))]

\* Mutant: a reconnected eldest node does not end the wait of the pending node.
UpdateKeepsPending(b, k, s) == Insert(RemoveNode(b, k), k, s)

Update(b, k, s) ==
  LET r == RemoveNode(b, k)
  IN  Insert(IF Position(b, k) = 0 /\ s = "Connected" THEN [r EXCEPT !.pending = None] ELSE r,
             k, s)

\* Mutant: an update of the pending node restarts its timeout.
UpdatePendingRestarts(b, s) ==
  [b EXCEPT !.pending.status = s, !.pending.replace = PendingTimeout]

UpdatePending(b, s) == [b EXCEPT !.pending.status = s]

RemovePending(b) == [b EXCEPT !.pending = None]

IsPending(b, k) == b.pending # None /\ b.pending.key = k

\* apply_pending on a full bucket whose node at position 0 is disconnected.
Replace(b, k, s) ==
  LET n == VecRemove(b.nodes, 0)
      f == b.first_connected_pos
  IN  CASE s = "Connected" ->
             [b EXCEPT !.nodes = Append(n, k),
                       !.first_connected_pos = IF f = None THEN Len(n) ELSE f - 1]
        [] s = "Disconnected" /\ f # None -> [b EXCEPT !.nodes = VecInsert(n, f - 1, k)]
        [] s = "Disconnected" /\ f = None -> [b EXCEPT !.nodes = Append(n, k)]

PendingDue(b) == b.pending # None /\ b.pending.replace = 0

\* Mutant: the eldest node makes room even when it is connected.
PlaceEvictsConnected(b, t) ==
  CASE ~IsFull(b) -> Insert(t, b.pending.key, b.pending.status)
    [] IsFull(b) /\ StatusAt(b, 0) = "Connected" ->
         IF b.pending.status = "Disconnected" THEN t
         ELSE [t EXCEPT !.nodes = Append(VecRemove(@, 0), b.pending.key)]
    [] IsFull(b) /\ StatusAt(b, 0) = "Disconnected" ->
         Replace(t, b.pending.key, b.pending.status)

\* The pending node of b, whose timeout has elapsed, is placed into t.
Place(b, t) ==
  CASE ~IsFull(b) -> Insert(t, b.pending.key, b.pending.status)
    [] IsFull(b) /\ StatusAt(b, 0) = "Connected" -> t
    [] IsFull(b) /\ StatusAt(b, 0) = "Disconnected" ->
         Replace(t, b.pending.key, b.pending.status)

\* Mutant: the pending node is not taken out before it is placed.
ApplyPendingNotTaken(b) == IF PendingDue(b) THEN Place(b, b) ELSE b

ApplyPending(b) == IF PendingDue(b) THEN Place(b, RemovePending(b)) ELSE b

\* The Option<AppliedPending> that apply_pending returns.
Applied(b) ==
  CASE PendingDue(b) /\ ~IsFull(b) -> [inserted |-> b.pending.key, evicted |-> None]
    [] PendingDue(b) /\ IsFull(b) /\ StatusAt(b, 0) = "Disconnected" ->
         [inserted |-> b.pending.key, evicted |-> b.nodes[1]]
    [] OTHER -> None
=============================================================================
