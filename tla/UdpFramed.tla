------------------------------ MODULE UdpFramed ------------------------------
(***************************************************************************)
(* The sink and stream over a UDP socket (rpc/udp.rs) as operators on its  *)
(* state.  A buffer or a future is there (TRUE) or taken (FALSE); the      *)
(* content of the send buffer is the message and its address.              *)
(***************************************************************************)
CONSTANT None

NewSocket == [flushed |-> TRUE, send_buf |-> TRUE, send_fut |-> FALSE, out |-> None,
              recv_buf |-> TRUE, recv_fut |-> FALSE]

\* start_send fails while a send is in process: the buffer is then taken.
CanStartSend(s) == s.send_buf

StartSend(s, m) == [s EXCEPT !.out = m, !.flushed = FALSE]

\* poll_flush takes the buffer for a send future unless there is one already,
\* and polls it: Pending, or Ready (Ok or Err) with the buffer back in place.
FlushPending(s) == [s EXCEPT !.send_buf = FALSE, !.send_fut = TRUE]

\* Mutant: the socket is not marked as flushed
FlushReadyKeepsUnflushed(s) == [s EXCEPT !.send_buf = TRUE, !.send_fut = FALSE, !.out = None]

FlushReady(s) ==
  [s EXCEPT !.send_buf = TRUE, !.send_fut = FALSE, !.flushed = TRUE, !.out = None]

\* poll_next does the same with the receive buffer.
RecvPending(s) == [s EXCEPT !.recv_buf = FALSE, !.recv_fut = TRUE]

RecvReady(s) == [s EXCEPT !.recv_buf = TRUE, !.recv_fut = FALSE]
=============================================================================
