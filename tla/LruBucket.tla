------------------------------ MODULE LruBucket ------------------------------
(***************************************************************************)
(* What a k-bucket promises, without its representation.                   *)
(*                                                                         *)
(* kbucket/bucket.rs documents a bucket as a list "ordered from            *)
(* least-recently connected to most-recently connected" whose prefix is    *)
(* disconnected and whose suffix is connected.  Here that is two queues,   *)
(* each ordered by the time its members were last reported, and at most    *)
(* one candidate that waits for a slot.  KBucket.tla packs both queues in  *)
(* one array with an index and is shown to implement this module.          *)
(***************************************************************************)
EXTENDS Naturals, Sequences, Functions, Vec

CONSTANTS Key,         \* keys that fall into the bucket
          Capacity,    \* slots of the bucket
          Patience,    \* how long a candidate waits
          None

VARIABLE lru           \* [disc |-> queue, conn |-> queue, cand |-> candidate or None]

Members(q) == Range(q.disc) \cup Range(q.conn)
HasRoom(q) == Len(q.disc) + Len(q.conn) < Capacity
Eldest(q)  == Head(q.disc \o q.conn)

\* A report puts its subject at the young end of the queue of its status.
Enqueue(q, k, s) ==
  IF s = "Connected" THEN [q EXCEPT !.conn = Append(@, k)]
                     ELSE [q EXCEPT !.disc = Append(@, k)]

Drop(q, k) == [q EXCEPT !.disc = VecWithout(@, k), !.conn = VecWithout(@, k)]

\* A candidate whose wait is over takes a free slot, or the slot of the eldest
\* disconnected member; with neither it is given up.
Settle(q) ==
  LET given == [q EXCEPT !.cand = None]
  IN  CASE q.cand = None \/ q.cand.replace > 0 -> q
        [] OTHER ->
             IF HasRoom(q)
             THEN Enqueue(given, q.cand.key, q.cand.status)
             ELSE IF q.disc = << >>
                  THEN given
                  ELSE Enqueue([given EXCEPT !.disc = Tail(@)], q.cand.key, q.cand.status)

Offer(q, k, s) ==
  CASE HasRoom(q) -> Enqueue(q, k, s)
    [] ~HasRoom(q) /\ s = "Connected" /\ q.disc # << >> /\ q.cand = None ->
         [q EXCEPT !.cand = [key |-> k, status |-> s, replace |-> Patience]]
    [] OTHER -> q

\* The eldest member reporting itself connected ends the candidate's wait.
Report(q, k, s) ==
  LET r == Drop(q, k)
  IN  Enqueue(IF k = Eldest(q) /\ s = "Connected" THEN [r EXCEPT !.cand = None] ELSE r, k, s)

IsCand(q, k) == q.cand # None /\ q.cand.key = k
-----------------------------------------------------------------------------
Init == lru = [disc |-> << >>, conn |-> << >>, cand |-> None]

Step(q) ==
  \/ lru' = q
  \/ \E k \in Key, s \in {"Connected", "Disconnected"} :
        /\ k \notin Members(q)
        /\ IF IsCand(q, k) THEN lru' = [q EXCEPT !.cand.status = s]
                           ELSE lru' = Offer(q, k, s)
  \/ \E k \in Members(q), s \in {"Connected", "Disconnected"} : lru' = Report(q, k, s)
  \/ \E k \in Members(q) : lru' = Drop(q, k)
  \/ q.cand # None /\ lru' = [q EXCEPT !.cand = None]

Wait == lru.cand # None /\ lru.cand.replace > 0 /\ lru' = [lru EXCEPT !.cand.replace = @ - 1]

\* Every access settles the candidate first.
Next == Step(Settle(lru)) \/ Wait

Spec == Init /\ [][Next]_lru
=============================================================================
