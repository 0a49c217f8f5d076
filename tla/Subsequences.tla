---------------------------- MODULE Subsequences ----------------------------
(***************************************************************************)
(* Taking the elements at some positions out of a queue: what              *)
(* VecDeque::retain, and a loop that pushes back what it keeps, leave.     *)
(* (SelectSeq would say the same; it is defined by recursion, about which  *)
(* nothing can be proved here.  See Subsequences_proofs.)                  *)
(***************************************************************************)
EXTENDS Naturals, Sequences, FiniteSets

(* The nth smallest of a set of positions.                                 *)
Nth(I, n) == CHOOSE i \in I : Cardinality({j \in I : j <= i}) = n

(* The elements of `queue` at the positions in I, in their order.          *)
Retain(queue, I) == [n \in 1..Cardinality(I) |-> queue[Nth(I, n)]]
=============================================================================
