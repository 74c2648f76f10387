--------------------------- MODULE PriorityQueue ---------------------------
(***************************************************************************)
(* What the heaps of lib/libhnsw.c promise: a set of nodes from which the  *)
(* ones that come first are taken first, in any order among equals.        *)
(***************************************************************************)
CONSTANTS Nodes, NoNode

VARIABLES
  before,      \* which node comes before which
  inside,      \* the nodes in the queue
  top          \* the one taken last

vars == <<before, inside, top>>

Init ==
  /\ before \subseteq Nodes \X Nodes
  /\ inside = {} /\ top = NoNode

Push(n) ==
  /\ n \notin inside /\ inside' = inside \cup {n}
  /\ UNCHANGED <<before, top>>

Pop(n) ==
  /\ n \in inside /\ \A o \in inside : <<o, n>> \notin before
  /\ inside' = inside \ {n} /\ top' = n
  /\ UNCHANGED before

Next == \E n \in Nodes : Push(n) \/ Pop(n)

Spec == Init /\ [][Next]_vars

=============================================================================
