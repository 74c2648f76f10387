----------------------------- MODULE HnswGraph -----------------------------
(***************************************************************************)
(* The layered graph of lib/libhnsw.c: kc_hnsw_build inserts the items one *)
(* after the other, kc_hnsw_search answers one query.  Both descend        *)
(* greedily through the upper layers and then run kc_hnsw_search_level,    *)
(* which is stepped here one neighbour at a time.                          *)
(*                                                                         *)
(* Vectors have one dimension.  The shuffle before the build and the       *)
(* random level of an item are arbitrary choices.  A heap is the set of    *)
(* its nodes, from which any one of the best (or worst) is popped; module  *)
(* Heap shows that this is what the array heaps do.                        *)
(***************************************************************************)
EXTENDS HnswScore, Sequences, FiniteSets

CONSTANTS
  MetricsUsed,             \* the metrics the index may be opened with
  Values, MaxCount,        \* the vectors, and how many items there may be
  MaxLevel,                \* 16 in the code
  M,                       \* edges made for an item on each layer
  EfConstruction,          \* nodes that a search of a layer keeps in a build
  EfSearch,                \* and at least in a search, 64 in the code
  BruteForceMax,           \* 1024 in the code: up to here everything is scored
  Limits, Thresholds       \* what a query may ask for

ASSUME MetricAssumption == MetricsUsed \subseteq Metrics
ASSUME ValuesAssumption == Values \subseteq Int /\ Thresholds \subseteq Int
ASSUME SizesAssumption  ==
  /\ MaxCount \in Nat /\ MaxLevel \in Nat /\ BruteForceMax \in Nat
  /\ M \in Nat \ {0} /\ EfConstruction \in Nat \ {0} /\ EfSearch \in Nat \ {0}
  /\ Limits \subseteq Nat \ {0}

VARIABLES
  metric,       \* chosen by kc_hnsw_open
  value,        \* the vectors of the items, in their shuffled order
  level,        \* items[n].level, -1 while n is not inserted
  edges,        \* items[n].neighbors[l].edges
  entry,        \* entry_point_idx
  maxLevel,     \* max_level
  i,            \* the item being inserted; past the last one when searching
  pc,           \* where the call is
  query,        \* the vector looked for
  l, curr,      \* layer and node the search is at
  candidates,   \* the best-first heap of kc_hnsw_search_level
  results,      \* its worst-first heap, then the nodes not yet used
  visited,      \* its marks
  todo,         \* the neighbours it has still to look at
  connected,    \* edges made for i on layer l
  limit, threshold,   \* arguments of kc_hnsw_search
  out           \* its answer

index  == <<metric, value, level, edges, entry, maxLevel>>
search == <<candidates, results, visited, todo>>
ask    == <<limit, threshold, out>>
vars   == <<index, i, pc, query, l, curr, search, connected, ask>>

Items    == DOMAIN value
Layers   == 0..MaxLevel
Inserted == {n \in Items : level[n] >= 0}
building == i \in Items
Targets(list) == {list[k] : k \in 1..Len(list)}

(* How well node n answers the query. *)
Fit(n) == Dist(metric, query, value[n])

BetterThan(m, n) == Better(metric, Fit(m), Fit(n))
WorseThan(m, n)  == Worse(metric, Fit(m), Fit(n))

BestOf(ns)  == {n \in ns : \A o \in ns : ~BetterThan(o, n)}
WorstOf(ns) == {n \in ns : \A o \in ns : ~WorseThan(o, n)}

TypeOK ==
  /\ metric \in MetricsUsed
  /\ Len(value) \in 1..MaxCount /\ \A n \in Items : value[n] \in Values
  /\ level \in [Items -> -1..MaxLevel]
  /\ \A n \in Items, y \in Layers : Targets(edges[n][y]) \subseteq Items
  /\ entry \in Items \cup {0} /\ maxLevel \in -1..MaxLevel
  /\ i \in 1..(Len(value) + 1) /\ l \in Layers /\ curr \in Items \cup {0}
  /\ pc \in {"insert", "descend", "search", "scan", "link", "ready", "emit",
             "answered", "failed"}
  /\ candidates \subseteq visited /\ results \subseteq Items
  /\ visited \subseteq Items /\ Targets(todo) \subseteq Items
  /\ connected \in 0..M
  /\ Targets(out) \subseteq Items

NoEdges(items) == [n \in items |-> [y \in Layers |-> <<>>]]

(* The items were added and are shuffled; kc_hnsw_build begins. *)
Init ==
  /\ metric \in MetricsUsed
  /\ \E n \in 1..MaxCount : value \in [1..n -> Values]
  /\ level = [n \in Items |-> -1] /\ edges = NoEdges(Items)
  /\ entry = 0 /\ maxLevel = -1 /\ i = 1 /\ pc = "insert"
  /\ query = 0 /\ l = 0 /\ curr = 0
  /\ candidates = {} /\ results = {} /\ visited = {} /\ todo = <<>>
  /\ connected = 0 /\ limit = 0 /\ threshold = 0 /\ out = <<>>

(* The search of a layer begins at node n. *)
SearchFrom(n) ==
  /\ candidates' = {n} /\ results' = {n} /\ visited' = {n} /\ todo' = <<>>
  /\ pc' = "search"

(***************************************************************************)
(* kc_hnsw_build, one item.                                                *)
(***************************************************************************)
NextItem ==
  /\ i' = i + 1
  /\ pc' = IF i = Len(value) THEN "ready" ELSE "insert"

FirstItem ==
  /\ pc = "insert" /\ entry = 0
  /\ \E y \in Layers : level' = [level EXCEPT ![i] = y] /\ maxLevel' = y
  /\ entry' = i /\ NextItem
  /\ UNCHANGED <<metric, value, edges, query, l, curr, search, connected, ask>>

Insert ==
  /\ pc = "insert" /\ entry # 0
  /\ \E y \in Layers : level' = [level EXCEPT ![i] = y]
  /\ query' = value[i] /\ curr' = entry /\ l' = maxLevel /\ pc' = "descend"
  /\ UNCHANGED <<metric, value, edges, entry, maxLevel, i, search, connected,
                 ask>>

(* The layer on which the descent ends. *)
floor == IF building THEN level[i] ELSE 0

(* The first of the best targets of a list. *)
Nearest(list) ==
  LET best == {k \in 1..Len(list) : list[k] \in BestOf(Targets(list))} IN
  list[CHOOSE k \in best : \A j \in best : k <= j]

MutCloser(list) ==
  list # <<>> /\ ~WorseThan(Nearest(list), curr)

(* A pass over the neighbours of curr improves on it. *)
Closer(list) == list # <<>> /\ BetterThan(Nearest(list), curr)

Descend ==
  /\ pc = "descend" /\ l > floor
  /\ LET list == edges[curr][l] IN
     IF Closer(list) THEN curr' = Nearest(list) /\ l' = l
                     ELSE curr' = curr /\ l' = l - 1
  /\ UNCHANGED <<index, i, pc, query, search, connected, ask>>

MutStartLayer ==
  /\ pc = "descend" /\ l <= floor /\ SearchFrom(curr)
  /\ l' = floor /\ connected' = 0
  /\ UNCHANGED <<index, i, query, curr, ask>>

StartLayer ==
  /\ pc = "descend" /\ l <= floor /\ SearchFrom(curr)
  /\ connected' = 0
  /\ UNCHANGED <<index, i, query, l, curr, ask>>

(***************************************************************************)
(* kc_hnsw_search_level.                                                   *)
(***************************************************************************)
ef == IF building THEN EfConstruction
      ELSE IF EfSearch < limit THEN limit ELSE EfSearch

Full == Cardinality(results) >= ef

Searched == pc' = IF building THEN "link" ELSE "emit"

MutTooFar(c) == Full /\ \A r \in results : ~BetterThan(c, r)

(* The best candidate is worse than all that is kept. *)
TooFar(c) == Full /\ \A r \in results : WorseThan(c, r)

Pop ==
  /\ pc = "search"
  /\ \E c \in BestOf(candidates) :
       /\ candidates' = candidates \ {c}
       /\ IF TooFar(c) THEN todo' = <<>> /\ Searched
                       ELSE todo' = edges[c][l] /\ pc' = "scan"
  /\ UNCHANGED <<index, i, query, l, curr, results, visited, connected, ask>>

Drained ==
  /\ pc = "search" /\ candidates = {} /\ Searched
  /\ UNCHANGED <<index, i, query, l, curr, search, connected, ask>>

(* A node not seen before is kept if there is room or if it is better than *)
(* the worst one, which then goes.                                         *)
Scan ==
  /\ pc = "scan" /\ todo # <<>> /\ todo' = Tail(todo)
  /\ visited' = visited \cup {Head(todo)}
  /\ LET n == Head(todo) IN
     IF n \notin visited /\ (~Full \/ \E r \in results : BetterThan(n, r))
       THEN /\ candidates' = candidates \cup {n}
            /\ IF Full
                 THEN \E w \in WorstOf(results \cup {n}) :
                        results' = (results \cup {n}) \ {w}
                 ELSE results' = results \cup {n}
       ELSE UNCHANGED <<candidates, results>>
  /\ UNCHANGED <<index, i, pc, query, l, curr, connected, ask>>

Scanned ==
  /\ pc = "scan" /\ todo = <<>> /\ pc' = "search"
  /\ UNCHANGED <<index, i, query, l, curr, search, connected, ask>>

(***************************************************************************)
(* kc_hnsw_add_edge and the end of the insertion of an item.               *)
(***************************************************************************)
MaxDegree(y) == IF y = 0 THEN 2 * M ELSE M

(* The first of the edges of n that lead to the worst targets. *)
WorstEdge(n, list) ==
  LET fit(k)  == Dist(metric, value[n], value[list[k]])
      worst == {k \in 1..Len(list) :
                  \A j \in 1..Len(list) : ~Worse(metric, fit(j), fit(k))}
  IN  CHOOSE k \in worst : \A j \in worst : k <= j

(* The edge at k is overwritten by the last one. *)
Dropped(list, k) ==
  [j \in 1..(Len(list) - 1) |-> IF j = k THEN list[Len(list)] ELSE list[j]]

MutAddEdge(g, n, target, y) ==
  IF target \in Targets(g[n][y]) THEN g
  ELSE [g EXCEPT ![n][y] = Append(@, target)]

AddEdge(g, n, target, y) ==
  IF target \in Targets(g[n][y]) THEN g
  ELSE LET list == Append(g[n][y], target) IN
       [g EXCEPT ![n][y] = IF Len(list) > MaxDegree(y)
                             THEN Dropped(list, WorstEdge(n, list)) ELSE list]

(* The item and the best node left are joined in both directions. *)
Link ==
  /\ pc = "link" /\ connected < M
  /\ \E b \in BestOf(results) :
       /\ edges' = AddEdge(AddEdge(edges, i, b, l), b, i, l)
       /\ results' = results \ {b}
       /\ curr' = IF connected = 0 THEN b ELSE curr
  /\ connected' = connected + 1
  /\ UNCHANGED <<metric, value, level, entry, maxLevel, i, pc, query, l,
                 candidates, visited, todo, ask>>

Linked == pc = "link" /\ (connected = M \/ results = {})

NextLayer ==
  /\ Linked /\ l > 0 /\ l' = l - 1 /\ SearchFrom(curr) /\ connected' = 0
  /\ UNCHANGED <<index, i, query, curr, ask>>

MutItemDone ==
  /\ Linked /\ l = 0 /\ NextItem
  /\ IF level[i] > maxLevel THEN maxLevel' = level[i] ELSE UNCHANGED maxLevel
  /\ results' = {} /\ connected' = 0
  /\ UNCHANGED <<metric, value, level, edges, entry, query, l, curr,
                 candidates, visited, todo, ask>>

ItemDone ==
  /\ Linked /\ l = 0 /\ NextItem
  /\ IF level[i] > maxLevel THEN maxLevel' = level[i] /\ entry' = i
                            ELSE UNCHANGED <<maxLevel, entry>>
  /\ results' = {} /\ connected' = 0
  /\ UNCHANGED <<metric, value, level, edges, query, l, curr, candidates,
                 visited, todo, ask>>

(* No memory: what was built is thrown away. *)
BuildFails ==
  /\ building /\ pc \in {"insert", "search", "scan", "link"}
  /\ pc' = "failed"
  /\ level' = [n \in Items |-> -1] /\ edges' = NoEdges(Items)
  /\ entry' = 0 /\ maxLevel' = -1
  /\ candidates' = {} /\ results' = {} /\ visited' = {} /\ todo' = <<>>
  /\ UNCHANGED <<metric, value, i, query, l, curr, connected, ask>>

(***************************************************************************)
(* kc_hnsw_search on the built index.                                      *)
(***************************************************************************)
BruteForce(k) == Len(value) <= EfSearch \/ Len(value) <= k
                 \/ Len(value) <= BruteForceMax

Search(q, k, t) ==
  /\ pc = "ready" /\ query' = q /\ limit' = k /\ threshold' = t
  /\ IF BruteForce(k)
       THEN pc' = "emit" /\ results' = Items /\ UNCHANGED <<l, curr>>
       ELSE pc' = "descend" /\ curr' = entry /\ l' = maxLevel
            /\ UNCHANGED results
  /\ UNCHANGED <<index, i, candidates, visited, todo, connected, out>>

Accepts(s) == ~Worse(metric, s, threshold)

(* The sorted results are written out while there is room. *)
Emit ==
  /\ pc = "emit" /\ Len(out) < limit
  /\ \E b \in BestOf(results) :
       /\ results' = results \ {b}
       /\ out' = IF Accepts(Fit(b)) THEN Append(out, b) ELSE out
  /\ UNCHANGED <<index, i, pc, query, l, curr, candidates, visited, todo,
                 connected, limit, threshold>>

Answered ==
  /\ pc = "emit" /\ (Len(out) = limit \/ results = {})
  /\ pc' = "answered"
  /\ UNCHANGED <<index, i, query, l, curr, search, connected, ask>>

SearchFails ==
  /\ ~building /\ pc \in {"ready", "search", "scan"} /\ pc' = "failed"
  /\ UNCHANGED <<index, i, query, l, curr, search, connected, ask>>

Steps ==
  \/ FirstItem \/ Insert \/ Descend \/ StartLayer
  \/ Pop \/ Drained \/ Scan \/ Scanned
  \/ Link \/ NextLayer \/ ItemDone
  \/ Emit \/ Answered

Next ==
  \/ Steps \/ BuildFails \/ SearchFails
  \/ \E q \in Values, k \in Limits, t \in Thresholds : Search(q, k, t)

Spec == Init /\ [][Next]_vars

(* A build or a search that has begun goes on. *)
FairSpec == Spec /\ WF_vars(Steps)

(***************************************************************************)
(* Properties.                                                             *)
(***************************************************************************)

(* neighbors[l] is an array of level + 1 lists.  No list beyond it is ever *)
(* read or written: edges of a layer lead to nodes of that layer, and so   *)
(* do the descent and the candidates of a search.                          *)
InLayers ==
  /\ \A n \in Items, y \in Layers :
       edges[n][y] # <<>> => y <= level[n] /\
         \A t \in Targets(edges[n][y]) : y <= level[t]
  /\ pc = "descend" => l <= level[curr]
  /\ pc \in {"search", "scan"} => \A c \in candidates : l <= level[c]
  /\ pc = "link" => l <= level[i] /\ \A r \in results : l <= level[r]

(* The lists stay within the degree bounds, and no node is its own         *)
(* neighbour or is listed twice.                                           *)
Degrees ==
  \A n \in Items, y \in Layers :
    LET list == edges[n][y] IN
    /\ Len(list) <= MaxDegree(y)
    /\ n \notin Targets(list)
    /\ Cardinality(Targets(list)) = Len(list)

(* Between two insertions, and for every search, the entry point lies on   *)
(* the highest layer there is.                                             *)
EntryOnTop ==
  pc \in {"insert", "ready"} /\ entry # 0 =>
    level[entry] = maxLevel /\ \A n \in Inserted : level[n] <= maxLevel

(* A search of the graph stops at a local optimum: no neighbour of the     *)
(* best item it found is better.                                           *)
LocalOptimum ==
  pc = "answered" /\ out # <<>> =>
    \A n \in Targets(edges[out[1]][0]) : ~BetterThan(n, out[1])

(* Neither the descents nor the searches of a layer run for ever, in a     *)
(* build or in a search.                                                   *)
CallsEnd ==
  pc \notin {"ready", "answered", "failed"}
    ~> pc \in {"ready", "answered", "failed"}

=============================================================================
