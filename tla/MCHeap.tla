------------------------------- MODULE MCHeap -------------------------------
(* Six nodes, some of them equally good, in a heap created for two. *)
EXTENDS Heap

MCNodes == 1..6
MCScore == [n \in MCNodes |-> n \div 3]

=============================================================================
