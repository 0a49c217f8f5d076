---------------------------- MODULE ByteStream ----------------------------
(* What a script may rely on of a connection it reads: the bytes the peer  *)
(* sent, in their order, each once, and none after the connection was      *)
(* closed.  Bytes are numbered in the order in which they are sent.        *)
EXTENDS Integers, Sequences

VARIABLES sent, received, closed

Init == sent = 0 /\ received = << >> /\ closed = FALSE

Send == sent' = sent + 1 /\ UNCHANGED <<received, closed>>

(* Some of the bytes that follow those already received.                   *)
Receive ==
  /\ ~closed
  /\ \E k \in 1..(sent - Len(received)) :
       received' = received \o [i \in 1..k |-> Len(received) + i]
  /\ UNCHANGED <<sent, closed>>

Close == closed' = TRUE /\ UNCHANGED <<sent, received>>

Spec == Init /\ [][Send \/ Receive \/ Close]_<<sent, received, closed>>
=============================================================================
