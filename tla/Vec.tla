--------------------------------- MODULE Vec ---------------------------------
(* The vector operations the code takes from ArrayVec, Vec and LinkedList.   *)
(* Positions count from 0, as in the code; sequences count from 1.           *)
EXTENDS Naturals, Sequences, Functions

\* Vec::remove(p): the elements behind position p move down.
VecRemove(s, p) == [i \in 1..(Len(s) - 1) |-> IF i <= p THEN s[i] ELSE s[i + 1]]

\* Vec::insert(p, e): the elements from position p on move up.
VecInsert(s, p, e) ==
  [i \in 1..(Len(s) + 1) |-> IF i <= p THEN s[i] ELSE IF i = p + 1 THEN e ELSE s[i - 1]]

\* iter().position(|x| x == e), for an e that occurs in s
VecPosition(s, e) ==
  CHOOSE p \in 0..(Len(s) - 1) : s[p + 1] = e /\ \A q \in 0..(p - 1) : s[q + 1] # e

\* s without the first occurrence of e, if there is one
VecWithout(s, e) == IF e \in Range(s) THEN VecRemove(s, VecPosition(s, e)) ELSE s
=============================================================================
