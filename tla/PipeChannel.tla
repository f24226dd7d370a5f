---------------------------- MODULE PipeChannel ----------------------------
(***************************************************************************)
(* What a pipe promises its users: a FIFO channel of bounded capacity with *)
(* two ends, each of which is closed once and for all.  Pipe.tla           *)
(* implements it.                                                          *)
(***************************************************************************)
EXTENDS Naturals, Sequences

CONSTANTS Byte, NoByte, Eof, Capacity

VARIABLES
  queue,         \* bytes written and not yet read, oldest first
  ropen, wopen,  \* the ends are open
  out            \* what the last successful receive returned

vars == <<queue, ropen, wopen, out>>

Init == queue = <<>> /\ ropen = TRUE /\ wopen = TRUE /\ out = NoByte

Send(b) ==
  /\ ropen /\ wopen /\ Len(queue) < Capacity
  /\ queue' = Append(queue, b)
  /\ UNCHANGED <<ropen, wopen, out>>

Receive ==
  /\ ropen /\ queue # <<>>
  /\ out' = Head(queue)
  /\ queue' = Tail(queue)
  /\ UNCHANGED <<ropen, wopen>>

EndOfFile ==
  /\ ropen /\ ~wopen /\ queue = <<>>
  /\ out' = Eof
  /\ UNCHANGED <<queue, ropen, wopen>>

CloseRead  == ropen /\ ropen' = FALSE /\ UNCHANGED <<queue, wopen, out>>
CloseWrite == wopen /\ wopen' = FALSE /\ UNCHANGED <<queue, ropen, out>>

Next == (\E b \in Byte : Send(b)) \/ Receive \/ EndOfFile \/ CloseRead \/ CloseWrite

Spec == Init /\ [][Next]_vars
=============================================================================
