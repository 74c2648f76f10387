-------------------------------- MODULE Heap --------------------------------
(***************************************************************************)
(* The array heaps of lib/libhnsw.c: kc_hnsw_heap_push and                 *)
(* kc_hnsw_heap_pop, one iteration of their loops at a time.  The array is *)
(* indexed from 0, as in the code; what is left beyond size is erased.     *)
(* A push that finds no memory changes nothing and is left out.            *)
(*                                                                         *)
(* A node is pushed at most once at a time: kc_hnsw_search_level marks     *)
(* what it has pushed in visited.                                          *)
(***************************************************************************)
EXTENDS HnswScore, FiniteSets

CONSTANTS
  Nodes,       \* items of the index
  NoNode,      \* what a slot holds that must not be read
  Score,       \* how well each of them answers the query
  Capacity,    \* the capacity the heap is created with
  MaxSize      \* bound on the number of nodes in it

ASSUME ScoreAssumption == Score \in [Nodes -> Int]
ASSUME NodeAssumption  == NoNode \notin Nodes
ASSUME SizeAssumption  == Capacity \in Nat \ {0} /\ MaxSize \in Nat \ {0}

VARIABLES
  metric, worstFirst,          \* fixed when the heap is created
  data, size, capacity,        \* the heap
  pc,                          \* idle, up (in push) or down (in pop)
  i,                           \* the slot to fill
  item,                        \* the node that is to go there
  top                          \* what pop returns

kind == <<metric, worstFirst>>
vars == <<kind, data, size, capacity, pc, i, item, top>>

Slots == 0..(MaxSize - 1)

(* kc_hnsw_heap_has_priority. *)
Priority(m, n) ==
  IF worstFirst THEN Worse(metric, Score[m], Score[n])
                ELSE Better(metric, Score[m], Score[n])

TypeOK ==
  /\ metric \in Metrics /\ worstFirst \in BOOLEAN
  /\ data \in [Slots -> Nodes \cup {NoNode}]
  /\ \A k \in Slots : data[k] = NoNode => k >= size \/ (pc = "up" /\ k = i)
  /\ item \in Nodes \cup {NoNode} /\ top \in Nodes \cup {NoNode}
  /\ capacity \in Nat /\ size \in 0..capacity /\ size <= MaxSize
  /\ pc \in {"idle", "up", "down"}
  /\ i \in Slots /\ (pc = "up" => i < size)

(* What is in the heap; the slot i is a hole while a call is under way. *)
Used   == 0..(size - 1)
inside ==
  IF pc = "idle" \/ size = 0 THEN {data[k] : k \in Used}
  ELSE {data[k] : k \in Used \ {i}} \cup {item}

Init ==
  /\ metric \in Metrics /\ worstFirst \in BOOLEAN
  /\ data = [k \in Slots |-> NoNode] /\ size = 0 /\ capacity = Capacity
  /\ pc = "idle" /\ i = 0 /\ item = NoNode /\ top = NoNode

Push(n) ==
  /\ pc = "idle" /\ size < MaxSize /\ n \notin inside
  /\ capacity' = IF size = capacity THEN 2 * capacity ELSE capacity
  /\ i' = size /\ size' = size + 1 /\ item' = n /\ pc' = "up"
  /\ UNCHANGED <<kind, data, top>>

Parent(k) == (k - 1) \div 2

Rises == pc = "up" /\ i > 0 /\ Priority(item, data[Parent(i)])

SiftUp ==
  /\ Rises
  /\ data' = [data EXCEPT ![i] = data[Parent(i)]] /\ i' = Parent(i)
  /\ UNCHANGED <<kind, size, capacity, pc, item, top>>

(* The root is taken, and the last node looks for a place. *)
Pop ==
  /\ pc = "idle" /\ size > 0
  /\ top' = data[0] /\ item' = data[size - 1]
  /\ data' = [data EXCEPT ![size - 1] = NoNode]
  /\ size' = size - 1 /\ i' = 0 /\ pc' = "down"
  /\ UNCHANGED <<kind, capacity>>

MutChild(k) == 2 * k + 1

(* The child of k that comes first. *)
Child(k) ==
  LET c == 2 * k + 1 IN
  IF c + 1 < size /\ Priority(data[c + 1], data[c]) THEN c + 1 ELSE c

MutSinks == pc = "down" /\ 2 * i + 2 < size /\ Priority(data[Child(i)], item)

Sinks == pc = "down" /\ 2 * i + 1 < size /\ Priority(data[Child(i)], item)

SiftDown ==
  /\ Sinks
  /\ data' = [data EXCEPT ![i] = data[Child(i)]] /\ i' = Child(i)
  /\ UNCHANGED <<kind, size, capacity, pc, item, top>>

(* The node is written where the loop has stopped; what the last pop       *)
(* writes into an empty heap lies beyond size.                             *)
Settle ==
  /\ pc # "idle" /\ ~Rises /\ ~Sinks
  /\ data' = IF size = 0 THEN data ELSE [data EXCEPT ![i] = item]
  /\ pc' = "idle" /\ i' = 0 /\ item' = NoNode
  /\ UNCHANGED <<kind, size, capacity, top>>

Next ==
  \/ \E n \in Nodes : Push(n)
  \/ SiftUp \/ Pop \/ SiftDown \/ Settle

Spec == Init /\ [][Next]_vars

(***************************************************************************)
(* Properties.                                                             *)
(***************************************************************************)

(* No node comes before its parent.  While a call is under way this holds  *)
(* around the hole: in a push for the nodes below it and in a pop for the  *)
(* children of the hole against its parent.                                *)
HeapOrdered ==
  /\ \A k \in Used \ {0} :
       pc = "idle" \/ i \notin {k, Parent(k)} =>
         ~Priority(data[k], data[Parent(k)])
  /\ \A k \in Used \ {0} :
       pc # "idle" /\ Parent(k) = i =>
         /\ i > 0 => ~Priority(data[k], data[Parent(i)])
         /\ pc = "up" => ~Priority(data[k], item)
  /\ pc = "down" /\ i > 0 => ~Priority(item, data[Parent(i)])

(* A heap is a priority queue: push adds its node, pop takes one before    *)
(* which none of the others comes, and the loops change nothing.           *)
Queue == INSTANCE PriorityQueue WITH
  before <- {p \in Nodes \X Nodes : Priority(p[1], p[2])}
ImplementsQueue == Queue!Spec

=============================================================================
