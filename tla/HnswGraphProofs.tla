-------------------------- MODULE HnswGraphProofs --------------------------
(***************************************************************************)
(* The layered graph, for every set of vectors, any number of items and    *)
(* layers, and every setting of M and of the sizes of a search: the lists  *)
(* of edges are what kc_hnsw_build means them to be, no list is accessed   *)
(* that an item does not have, and a search ends at a local optimum.       *)
(*                                                                         *)
(* Better and Worse compare distances one way or the other, by metric.     *)
(* Where the order matters the proofs replace them by a rank that is       *)
(* greater for the better node.                                            *)
(***************************************************************************)
EXTENDS HnswGraph, SequenceTheorems, FiniteSetTheorems, WellFoundedInduction,
        TLAPS

(***************************************************************************)
(* The inductive invariant.                                                *)
(***************************************************************************)

(* The types, those of the lists included. *)
Shape ==
  /\ metric \in MetricsUsed
  /\ value \in Seq(Values) /\ Len(value) \in 1..MaxCount
  /\ level \in [Items -> -1..MaxLevel]
  /\ edges \in [Items -> [Layers -> Seq(Items)]]
  /\ entry \in Items \cup {0} /\ maxLevel \in -1..MaxLevel
  /\ i \in 1..(Len(value) + 1)
  /\ pc \in {"insert", "descend", "search", "scan", "link", "ready", "emit",
             "answered", "failed"}
  /\ query \in Int /\ l \in Layers /\ curr \in Items \cup {0}
  /\ candidates \subseteq visited /\ results \subseteq Items
  /\ visited \subseteq Items /\ todo \in Seq(Items)
  /\ connected \in 0..M
  /\ limit \in Nat /\ threshold \in Int /\ out \in Seq(Items)

(* What a list of edges of node n on layer y must be. *)
GoodList(list, n, y) ==
  /\ Len(list) <= MaxDegree(y)
  /\ \A j, k \in 1..Len(list) : list[j] = list[k] => j = k
  /\ list # <<>> => y <= level[n]
  /\ \A k \in 1..Len(list) : list[k] # n /\ y <= level[list[k]]

GoodEdges(g) ==
  \A n \in Items, y \in Layers : GoodList(g[n][y], n, y)

(* A call is past the choice of a level and not at its end. *)
Underway == pc \in {"descend", "search", "scan", "link"}

(* How far the build has come. *)
BuildInv ==
  /\ pc \in {"ready", "emit", "answered"} => ~building
  /\ pc \in {"insert", "link"} => building
  /\ building => \A n \in Items : n > i => level[n] = -1
  /\ pc = "insert" => level[i] = -1
  /\ building /\ Underway => level[i] >= 0

(* The entry point; the item being inserted is not compared with it yet. *)
EntryInv ==
  /\ entry = 0 => \A n \in Items : level[n] = -1
  /\ entry # 0 => /\ level[entry] = maxLevel /\ maxLevel >= 0
                  /\ \A n \in Items : n = i \/ level[n] <= maxLevel
  /\ building => entry # i
  /\ pc \notin {"insert", "failed"} => entry # 0

(* Where the search is: everything it holds lies on its layer. *)
PlaceInv ==
  /\ Underway => curr \in Items /\ l <= level[curr]
  /\ pc \in {"search", "scan"} =>
       /\ results \subseteq visited
       /\ \A n \in visited : l <= level[n]
  /\ pc \in {"search", "scan", "link"} => l <= floor
  /\ pc = "scan" => \A n \in Targets(todo) : l <= level[n]
  /\ pc = "link" => \A n \in results : l <= level[n]

(* The item being inserted is not found by its own search: nothing leads   *)
(* to it on the layers that are still to be linked.                        *)
SelfInv ==
  building /\ Underway =>
    /\ curr # i
    /\ pc \in {"search", "scan"} => i \notin visited /\ i \notin Targets(todo)
    /\ pc = "link" => i \notin results
    /\ \A n \in Items, y \in Layers :
         (IF pc = "link" THEN y < l ELSE y <= l) =>
           i \notin Targets(edges[n][y])

(* A search of a layer has expanded what it keeps or still has it as a     *)
(* candidate, and nothing that it dropped is better than what it keeps.    *)
SearchInv ==
  pc \in {"search", "scan"} =>
    /\ pc = "search" => todo = <<>>
    /\ \A r \in results \ candidates :
         Targets(edges[r][l]) \subseteq visited \cup Targets(todo)
    /\ \A n \in visited \ results : Full /\ \A r \in results : ~BetterThan(n, r)

(* No neighbour of n on the lowest layer is better. *)
Optimal(n) == \A t \in Targets(edges[n][0]) : ~BetterThan(t, n)

(* The first node of the answer is the best one kept; if that was not      *)
(* accepted, no later one is.                                              *)
AnswerInv ==
  /\ pc \notin {"emit", "answered", "failed"} => out = <<>>
  /\ pc \in {"search", "scan"} /\ ~building => l = 0
  /\ pc = "emit" /\ out = <<>> =>
       \/ \A n \in BestOf(results) : Optimal(n)
       \/ \A n \in results : ~Accepts(Fit(n))
  /\ pc \in {"emit", "answered"} /\ out # <<>> => Optimal(out[1])

GraphInv ==
  /\ Shape /\ GoodEdges(edges) /\ BuildInv /\ EntryInv /\ PlaceInv
  /\ SelfInv /\ SearchInv /\ AnswerInv

-----------------------------------------------------------------------------
(* Sequences and finite sets. *)

LEMMA TargetsFacts ==
  ASSUME NEW S, NEW list \in Seq(S)
  PROVE  /\ Targets(list) \subseteq S
         /\ \A n : n \in Targets(list) <=> \E k \in 1..Len(list) : n = list[k]
         /\ list = <<>> => Targets(list) = {}
<1>1. Len(list) \in Nat /\ \A k \in 1..Len(list) : list[k] \in S
  BY ElementOfSeq
<1>2. list = <<>> => 1..Len(list) = {}
  BY EmptySeq
<1> QED
  BY <1>1, <1>2 DEF Targets

LEMMA HeadAndTail ==
  ASSUME NEW S, NEW list \in Seq(S), list # <<>>
  PROVE  /\ Head(list) \in Targets(list)
         /\ Targets(list) = {Head(list)} \cup Targets(Tail(list))
         /\ Targets(Tail(list)) \subseteq Targets(list)
<1>1. Len(list) \in Nat /\ Len(list) > 0
  BY EmptySeq, LenProperties
<1>2. /\ Tail(list) \in Seq(S) /\ Len(Tail(list)) = Len(list) - 1
      /\ \A k \in 1..Len(Tail(list)) : Tail(list)[k] = list[k + 1]
  BY HeadTailProperties
<1>3. Head(list) = list[1] /\ 1 \in 1..Len(list)
  BY <1>1
<1>4. \A k \in 1..Len(Tail(list)) : k + 1 \in 1..Len(list)
  BY <1>1, <1>2
<1>5. \A k \in 1..Len(list) : k = 1 \/ k - 1 \in 1..Len(Tail(list))
  BY <1>1, <1>2
<1>6. ASSUME NEW k \in 1..Len(list), k # 1
      PROVE  list[k] \in Targets(Tail(list))
  <2>1. k - 1 \in 1..Len(Tail(list)) /\ (k - 1) + 1 = k
    BY <1>1, <1>5, <1>6
  <2>2. Tail(list)[k - 1] = list[k]
    BY <1>2, <2>1
  <2> QED
    BY <2>1, <2>2 DEF Targets
<1>7. Targets(Tail(list)) \subseteq Targets(list)
  BY <1>2, <1>4 DEF Targets
<1>8. Head(list) \in Targets(list)
  BY <1>3 DEF Targets
<1>9. Targets(list) \subseteq {Head(list)} \cup Targets(Tail(list))
  <2> SUFFICES ASSUME NEW t \in Targets(list)
               PROVE  t = Head(list) \/ t \in Targets(Tail(list))
    OBVIOUS
  <2>1. PICK k \in 1..Len(list) : t = list[k]
    BY TargetsFacts
  <2> QED
    BY <1>3, <1>6, <2>1
<1> QED
  BY <1>7, <1>8, <1>9

(* A nonempty set of naturals has a least element. *)
LEMMA LeastPlace ==
  ASSUME NEW T, T \subseteq Nat, T # {}
  PROVE  \E x \in T : \A y \in T : x <= y
<1> DEFINE R == {ss \in Nat \X Nat : ss[1] < ss[2]}
<1>1. IsWellFoundedOn(R, Nat)
  BY NatLessThanWellFounded, Zenon DEF OpToRel
<1> HIDE DEF R
<1>2. PICK x \in T : \A y \in T : ~(<<y, x>> \in R)
  BY <1>1, WFMin
<1>3. \A y \in T : ~(y < x)
  BY <1>2 DEF R
<1> QED
  BY <1>2, <1>3

(* Finitely many integers have a greatest one: otherwise there is a least  *)
(* m such that the first m have none.                                      *)
LEMMA GreatestExists ==
  ASSUME NEW n \in Nat, n > 0, NEW r \in [1..n -> Int]
  PROVE  \E k \in 1..n : \A j \in 1..n : r[j] <= r[k]
<1> DEFINE Top(m) == \E k \in 1..m : \A j \in 1..m : r[j] <= r[k]
           T == {m \in 1..n : ~Top(m)}
<1>1. ASSUME T # {} PROVE FALSE
  <2>1. T \subseteq Nat
    OBVIOUS
  <2>2. PICK x \in T : \A y \in T : x <= y
    BY <1>1, <2>1, LeastPlace
  <2>3. x \in 1..n /\ ~Top(x)
    BY <2>2
  <2>4. CASE x = 1
    <3>1. r[1] \in Int
      BY <2>3, <2>4
    <3>2. \A j \in 1..1 : j = 1
      OBVIOUS
    <3>3. 1 \in 1..1 /\ \A j \in 1..1 : r[j] <= r[1]
      BY <3>1, <3>2
    <3>4. Top(1)
      BY <3>3
    <3> QED
      BY <2>3, <2>4, <3>4
  <2>5. CASE x # 1
    <3>1. x - 1 \in 1..n /\ ~(x <= x - 1)
      BY <2>3, <2>5
    <3>2a. x - 1 \notin T
      <4> HIDE DEF T
      <4> QED
        BY <2>2, <3>1
    <3>2. PICK k \in 1..(x - 1) : \A j \in 1..(x - 1) : r[j] <= r[k]
      BY <3>1, <3>2a
    <3>3. k \in 1..x /\ x \in 1..x /\ 1..x = (1..(x - 1)) \cup {x}
      BY <2>3, <3>2
    <3>4. r[k] \in Int /\ r[x] \in Int /\ \A j \in 1..x : r[j] \in Int
      BY <2>3, <3>3
    <3>5. CASE r[x] <= r[k]
      BY <2>3, <3>2, <3>3, <3>5
    <3>6. CASE r[x] > r[k]
      <4>1. \A j \in 1..x : r[j] <= r[x]
        BY <3>2, <3>3, <3>4, <3>6
      <4> QED
        BY <2>3, <3>3, <4>1
    <3> QED
      BY <3>4, <3>5, <3>6
  <2> QED
    BY <2>4, <2>5
<1>2. n \in 1..n
  OBVIOUS
<1>3. Top(n)
  BY <1>1, <1>2
<1> QED
  BY <1>3

-----------------------------------------------------------------------------
(* Ranks. *)

Ranks(r, t) ==
  /\ r \in [Items -> Int] /\ t \in Int
  /\ \A m, n \in Items : /\ BetterThan(m, n) <=> r[m] > r[n]
                         /\ WorseThan(m, n)  <=> r[m] < r[n]
  /\ \A n \in Items : Accepts(Fit(n)) <=> r[n] >= t

LEMMA DistType ==
  ASSUME NEW m \in Metrics, NEW a \in Int, NEW b \in Int
  PROVE  Dist(m, a, b) \in Int
<1>1. PICK p \in Int : p = a * b
  OBVIOUS
<1>2. PICK x \in Int : x = a * a
  OBVIOUS
<1>3. PICK y \in Int : y = b * b
  OBVIOUS
<1>4. Sign(p) \in Int
  BY DEF Sign
<1>5. x + y - 2 * p \in Int
  OBVIOUS
<1> QED
  BY <1>1, <1>2, <1>3, <1>4, <1>5 DEF Dist, Metrics

LEMMA ItemsFacts ==
  ASSUME Shape
  PROVE  /\ Items = 1..Len(value) /\ Len(value) \in Nat /\ Len(value) >= 1
         /\ \A n \in Items : value[n] \in Values
         /\ Layers \subseteq Nat /\ 0 \in Layers
         /\ 0 \notin Items /\ Items \subseteq Nat /\ IsFiniteSet(Items)
<1>1. value \in Seq(Values) /\ Len(value) \in 1..MaxCount
  BY DEF Shape
<1>2. Items = 1..Len(value) /\ \A n \in Items : value[n] \in Values
  BY <1>1, LenProperties, ElementOfSeq DEF Items
<1>3. Len(value) \in Nat /\ Len(value) >= 1
  BY <1>1, SizesAssumption
<1>4. IsFiniteSet(Items)
  BY <1>2, <1>3, FS_Interval
<1> QED
  BY <1>2, <1>3, <1>4, SizesAssumption DEF Layers

(* The numbers in the index. *)
LEMMA Numbers ==
  ASSUME Shape
  PROVE  /\ i \in Nat /\ i >= 1 /\ i <= Len(value) + 1
         /\ \A n \in Items : level[n] \in Int /\ level[n] >= -1
         /\ \A y \in Layers : y \in Int /\ y >= 0
         /\ l \in Int /\ l >= 0
         /\ maxLevel \in Int /\ maxLevel >= -1
         /\ \A n \in Items, y \in Layers : edges[n][y] \in Seq(Items)
<1>1. i \in Nat /\ i >= 1 /\ i <= Len(value) + 1
  BY ItemsFacts DEF Shape
<1>2. \A n \in Items : level[n] \in -1..MaxLevel
  BY DEF Shape
<1>3. MaxLevel \in Nat
  BY SizesAssumption
<1>4. \A n \in Items : level[n] \in Int /\ level[n] >= -1
  BY <1>2, <1>3
<1>5. \A y \in Layers : y \in Int /\ y >= 0
  BY <1>3 DEF Layers
<1>6. maxLevel \in Int /\ maxLevel >= -1
  BY <1>3 DEF Shape
<1>7. \A n \in Items, y \in Layers : edges[n][y] \in Seq(Items)
  BY DEF Shape
<1>8. l \in Int /\ l >= 0
  BY <1>5 DEF Shape
<1> QED
  BY <1>1, <1>4, <1>5, <1>6, <1>7, <1>8

LEMMA RanksExist ==
  ASSUME Shape
  PROVE  \E r, t : Ranks(r, t)
<1> DEFINE low == metric = "l2"
           r == [n \in Items |-> IF low THEN -Fit(n) ELSE Fit(n)]
           t == IF low THEN -threshold ELSE threshold
<1>1. \A n \in Items : Fit(n) \in Int
  BY ItemsFacts, DistType, MetricAssumption, ValuesAssumption DEF Shape, Fit
<1>2. threshold \in Int
  BY DEF Shape
<1>3. r \in [Items -> Int] /\ t \in Int
  BY <1>1, <1>2
<1>4. ASSUME NEW m \in Items, NEW n \in Items
      PROVE  /\ BetterThan(m, n) <=> r[m] > r[n]
             /\ WorseThan(m, n)  <=> r[m] < r[n]
  <2>1. Fit(m) \in Int /\ Fit(n) \in Int
    BY <1>1
  <2> QED
    BY <2>1 DEF BetterThan, WorseThan, Better, Worse
<1>5. ASSUME NEW n \in Items PROVE Accepts(Fit(n)) <=> r[n] >= t
  <2>1. Fit(n) \in Int
    BY <1>1
  <2> QED
    BY <1>2, <2>1 DEF Accepts, Worse
<1> QED
  BY <1>3, <1>4, <1>5 DEF Ranks

LEMMA RanksKept ==
  ASSUME NEW r, NEW t, Ranks(r, t),
         UNCHANGED <<metric, value, query, threshold>>
  PROVE  Ranks(r, t)'
BY DEF Ranks, BetterThan, WorseThan, Accepts, Fit, Items

(* The nearest target of a list is one of its targets. *)
LEMMA NearestIsTarget ==
  ASSUME Shape, NEW list \in Seq(Items), list # <<>>
  PROVE  Nearest(list) \in Targets(list)
<1> DEFINE best == {k \in 1..Len(list) : list[k] \in BestOf(Targets(list))}
<1>1. PICK r, t : Ranks(r, t)
  BY RanksExist
<1>2. Len(list) \in Nat /\ Len(list) > 0 /\ \A k \in 1..Len(list) : list[k] \in Items
  BY EmptySeq, ElementOfSeq
<1>3. [k \in 1..Len(list) |-> r[list[k]]] \in [1..Len(list) -> Int]
  BY <1>1, <1>2 DEF Ranks
<1>4. PICK k \in 1..Len(list) : \A j \in 1..Len(list) : r[list[j]] <= r[list[k]]
  <2> DEFINE s == [k \in 1..Len(list) |-> r[list[k]]]
  <2>1. \E k \in 1..Len(list) : \A j \in 1..Len(list) : s[j] <= s[k]
    <3> HIDE DEF s
    <3> QED
      BY <1>2, <1>3, GreatestExists DEF s
  <2> QED
    BY <2>1
<1>5. \A j \in 1..Len(list) : ~BetterThan(list[j], list[k])
  BY <1>1, <1>2, <1>4 DEF Ranks
<1>6. k \in best
  BY <1>5 DEF BestOf, Targets
<1>7. best \subseteq Nat /\ best # {}
  BY <1>2, <1>6
<1>8. \E x \in best : \A y \in best : x <= y
  <2> HIDE DEF best
  <2> QED
    BY <1>7, LeastPlace
<1>9. (CHOOSE x \in best : \A y \in best : x <= y) \in best
  <2> HIDE DEF best
  <2> QED
    BY <1>8
<1> QED
  BY <1>9 DEF Nearest, Targets

-----------------------------------------------------------------------------
(* kc_hnsw_add_edge. *)

(* A list from which an edge is dropped is one shorter and holds nothing   *)
(* new, whichever edge it is.                                              *)
LEMMA DroppedFacts ==
  ASSUME NEW S, NEW list \in Seq(S), list # <<>>, NEW k
  PROVE  /\ Dropped(list, k) \in Seq(S)
         /\ Len(Dropped(list, k)) = Len(list) - 1
         /\ \A j \in 1..(Len(list) - 1) :
              Dropped(list, k)[j] = IF j = k THEN list[Len(list)] ELSE list[j]
<1>1. Len(list) \in Nat /\ Len(list) > 0 /\ \A j \in 1..Len(list) : list[j] \in S
  BY EmptySeq, ElementOfSeq
<1> DEFINE n == Len(list) - 1
<1>2. n \in Nat /\ Len(list) \in 1..Len(list) /\ \A j \in 1..n : j \in 1..Len(list)
  BY <1>1
<1>3. Dropped(list, k) \in [1..n -> S]
  BY <1>1, <1>2 DEF Dropped
<1>4. Dropped(list, k) \in Seq(S)
  BY <1>2, <1>3, SeqDef
<1>5. DOMAIN Dropped(list, k) = 1..n
  BY DEF Dropped
<1>6. Len(Dropped(list, k)) = n
  <2>1. Len(Dropped(list, k)) \in Nat
        /\ DOMAIN Dropped(list, k) = 1..Len(Dropped(list, k))
    BY <1>4, LenProperties
  <2> QED
    BY <1>2, <1>5, <2>1
<1> QED
  BY <1>4, <1>6 DEF Dropped

(* Graphs g and h differ on layer y only. *)
SameBut(h, g, y) ==
  \A m \in Items, z \in Layers : z # y => h[m][z] = g[m][z]

LEMMA GoodAppend ==
  ASSUME Shape, NEW list \in Seq(Items), NEW n \in Items, NEW t \in Items,
         NEW y \in Layers, GoodList(list, n, y), t # n, t \notin Targets(list),
         y <= level[n], y <= level[t], NEW k
  PROVE  LET long == Append(list, t)
             kept == IF Len(long) > MaxDegree(y) THEN Dropped(long, k)
                                                 ELSE long
         IN  kept \in Seq(Items) /\ GoodList(kept, n, y)
<1> DEFINE long == Append(list, t)
           kept == IF Len(long) > MaxDegree(y) THEN Dropped(long, k) ELSE long
<1>1. /\ long \in Seq(Items) /\ Len(long) = Len(list) + 1 /\ Len(list) \in Nat
      /\ \A j \in 1..Len(list) : long[j] = list[j]
      /\ long[Len(list) + 1] = t
  BY AppendProperties, LenProperties
<1>2. long # <<>>
  BY <1>1, EmptySeq
<1>3. \A j \in 1..Len(long) : j \in 1..Len(list) \/ j = Len(list) + 1
  BY <1>1
<1>4. MaxDegree(y) \in Nat
  BY SizesAssumption DEF MaxDegree
<1>5. Len(list) <= MaxDegree(y)
  BY DEF GoodList
<1>6. t \notin {list[j] : j \in 1..Len(list)}
  BY DEF Targets
<1> HIDE DEF long
<1>7. \A j, m \in 1..Len(long) : long[j] = long[m] => j = m
  BY <1>1, <1>3, <1>6 DEF GoodList
<1>8. \A j \in 1..Len(long) : long[j] # n /\ y <= level[long[j]]
  BY <1>1, <1>3 DEF GoodList
<1>9. CASE Len(long) > MaxDegree(y)
  <2>1. /\ Dropped(long, k) \in Seq(Items) /\ Len(Dropped(long, k)) = Len(list)
        /\ \A j \in 1..Len(list) : Dropped(long, k)[j] =
             IF j = k THEN long[Len(long)] ELSE long[j]
    <3>1. Len(long) - 1 = Len(list)
      BY <1>1
    <3> QED
      BY <1>1, <1>2, <3>1, DroppedFacts
  <2>2. PICK d : d = Dropped(long, k)
    OBVIOUS
  <2>3. \A j \in 1..Len(list) : j \in 1..Len(long) /\ j # Len(long)
    BY <1>1
  <2>4. Len(long) \in 1..Len(long)
    BY <1>1
  <2>5. \A j \in 1..Len(d) : d[j] # n /\ y <= level[d[j]]
    BY <1>8, <2>1, <2>2, <2>3, <2>4
  <2>6. \A j, m \in 1..Len(d) : d[j] = d[m] => j = m
    BY <1>7, <2>1, <2>2, <2>3, <2>4
  <2>7. GoodList(d, n, y)
    BY <1>5, <2>1, <2>2, <2>5, <2>6 DEF GoodList
  <2> QED
    BY <1>9, <2>1, <2>2, <2>7 DEF long
<1>10. CASE Len(long) <= MaxDegree(y)
  <2>1. GoodList(long, n, y)
    BY <1>7, <1>8, <1>10 DEF GoodList
  <2>2. ~(Len(long) > MaxDegree(y))
    BY <1>1, <1>4, <1>10
  <2> QED
    BY <1>1, <2>1, <2>2 DEF long
<1> QED
  BY <1>1, <1>4, <1>9, <1>10

(* An edge between two nodes of a layer leaves a good graph good, and does *)
(* not touch the other layers.                                             *)
LEMMA AddEdgeGood ==
  ASSUME Shape, NEW g \in [Items -> [Layers -> Seq(Items)]], GoodEdges(g),
         NEW n \in Items, NEW t \in Items, n # t,
         NEW y \in Layers, y <= level[n], y <= level[t],
         NEW h, h = AddEdge(g, n, t, y)
  PROVE  /\ h \in [Items -> [Layers -> Seq(Items)]] /\ GoodEdges(h)
         /\ SameBut(h, g, y)
<1>1. CASE t \in Targets(g[n][y])
  BY <1>1 DEF AddEdge, SameBut
<1>2. CASE t \notin Targets(g[n][y])
  <2> DEFINE long == Append(g[n][y], t)
             kept == IF Len(long) > MaxDegree(y)
                       THEN Dropped(long, WorstEdge(n, long)) ELSE long
  <2>1. g[n][y] \in Seq(Items) /\ GoodList(g[n][y], n, y)
    BY DEF GoodEdges
  <2>2. kept \in Seq(Items) /\ GoodList(kept, n, y)
    BY <1>2, <2>1, GoodAppend
  <2>3. AddEdge(g, n, t, y) = [g EXCEPT ![n][y] = kept]
    BY <1>2 DEF AddEdge
  <2>4. PICK x : x = kept
    OBVIOUS
  <2>5. h = [g EXCEPT ![n][y] = x]
    BY <2>3, <2>4
  <2>7. x \in Seq(Items) /\ GoodList(x, n, y)
    BY <2>2, <2>4
  <2> HIDE DEF long, kept
  <2>8. h \in [Items -> [Layers -> Seq(Items)]]
    BY <2>5, <2>7
  <2>9. \A m \in Items, z \in Layers :
          h[m][z] = IF m = n /\ z = y THEN x ELSE g[m][z]
    BY <2>5
  <2>10. GoodEdges(h)
    BY <2>7, <2>9 DEF GoodEdges
  <2> QED
    BY <2>8, <2>9, <2>10 DEF SameBut
<1> QED
  BY <1>1, <1>2

(* So do two nodes of a layer that are joined in both directions. *)
LEMMA JoinGood ==
  ASSUME Shape, GoodEdges(edges), NEW n \in Items, NEW t \in Items, n # t,
         NEW y \in Layers, y <= level[n], y <= level[t],
         NEW h, h = AddEdge(AddEdge(edges, n, t, y), t, n, y)
  PROVE  /\ h \in [Items -> [Layers -> Seq(Items)]] /\ GoodEdges(h)
         /\ SameBut(h, edges, y)
<1>1. PICK e : e = edges
  OBVIOUS
<1>2. e \in [Items -> [Layers -> Seq(Items)]] /\ GoodEdges(e)
  BY <1>1 DEF Shape
<1>3. PICK g : g = AddEdge(e, n, t, y)
  OBVIOUS
<1>4. /\ g \in [Items -> [Layers -> Seq(Items)]] /\ GoodEdges(g)
      /\ SameBut(g, e, y)
  BY <1>2, <1>3, AddEdgeGood
<1>5. h = AddEdge(g, t, n, y) /\ t # n
  BY <1>1, <1>3
<1>6. /\ h \in [Items -> [Layers -> Seq(Items)]] /\ GoodEdges(h)
      /\ SameBut(h, g, y)
  BY <1>4, <1>5, AddEdgeGood
<1> QED
  BY <1>1, <1>4, <1>6 DEF SameBut

-----------------------------------------------------------------------------
(* The initial states, and what no step changes. *)

LEMMA InitInv ==
  ASSUME Init
  PROVE  GraphInv
<1>1. PICK n \in 1..MaxCount : value \in [1..n -> Values]
  BY DEF Init
<1>2. n \in Nat /\ MaxCount \in Nat
  BY SizesAssumption
<1>3. value \in Seq(Values) /\ Len(value) = n
  <2>1. value \in Seq(Values)
    BY <1>1, <1>2, SeqDef
  <2>2. Len(value) \in Nat /\ DOMAIN value = 1..Len(value)
    BY <2>1, LenProperties
  <2> QED
    BY <1>1, <1>2, <2>1, <2>2
<1>4. 0 \in Layers /\ 0 \in 0..M /\ -1 \in -1..MaxLevel
  BY SizesAssumption DEF Layers
<1>5. level \in [Items -> -1..MaxLevel]
  BY <1>4 DEF Init
<1>6. edges \in [Items -> [Layers -> Seq(Items)]]
  <2>1. <<>> \in Seq(Items)
    BY EmptySeq
  <2> QED
    BY <2>1 DEF Init, NoEdges
<1>7. 1 \in 1..(Len(value) + 1)
  BY <1>1, <1>2, <1>3
<1>8. <<>> \in Seq(Items)
  BY EmptySeq
<1>9. Shape
  BY <1>1, <1>3, <1>4, <1>5, <1>6, <1>7, <1>8 DEF Init, Shape
<1>10. GoodEdges(edges)
  <2>1. \A m \in Items, y \in Layers : edges[m][y] = <<>>
    BY DEF Init, NoEdges
  <2>2. \A y \in Layers : MaxDegree(y) >= 0
    BY SizesAssumption DEF MaxDegree
  <2>3. Len(<<>>) = 0 /\ 1..0 = {}
    OBVIOUS
  <2> QED
    BY <2>1, <2>2, <2>3 DEF GoodEdges, GoodList
<1>11. building /\ i \in Items /\ \A m \in Items : level[m] = -1
  BY <1>9, ItemsFacts DEF Init, building
<1>12. BuildInv /\ EntryInv
  BY <1>9, <1>11, ItemsFacts DEF Init, BuildInv, EntryInv, Underway
<1>13. PlaceInv /\ SelfInv /\ SearchInv /\ AnswerInv
  BY DEF Init, PlaceInv, SelfInv, SearchInv, AnswerInv, Underway
<1> QED
  BY <1>9, <1>10, <1>12, <1>13 DEF GraphInv

LEMMA Fixed ==
  ASSUME Next
  PROVE  UNCHANGED <<metric, value>> /\ Items' = Items
<1>1. UNCHANGED <<metric, value>>
  BY DEF Next, Steps, FirstItem, Insert, Descend, StartLayer, Pop, Drained,
         Scan, Scanned, Link, NextLayer, ItemDone, Emit, Answered,
         BuildFails, SearchFails, Search, index
<1> QED
  BY <1>1 DEF Items

(* The steps of a search change nothing in the index. *)
LEMMA GoodKept ==
  ASSUME GoodEdges(edges), Next, UNCHANGED <<edges, level>>
  PROVE  GoodEdges(edges)'
BY Fixed DEF GoodEdges, GoodList

-----------------------------------------------------------------------------
(* Types. *)

(* The part of Shape that a step may change, apart from the edges. *)
LEMMA ShapeOf ==
  ASSUME Shape, Next,
         level' \in [Items -> -1..MaxLevel],
         edges' \in [Items -> [Layers -> Seq(Items)]],
         entry' \in Items \cup {0}, maxLevel' \in -1..MaxLevel,
         i' \in 1..(Len(value) + 1),
         pc' \in {"insert", "descend", "search", "scan", "link", "ready",
                  "emit", "answered", "failed"},
         query' \in Int, l' \in Layers, curr' \in Items \cup {0},
         candidates' \subseteq visited', results' \subseteq Items,
         visited' \subseteq Items, todo' \in Seq(Items),
         connected' \in 0..M,
         limit' \in Nat, threshold' \in Int, out' \in Seq(Items)
  PROVE  Shape'
BY Fixed DEF Shape

LEMMA NextShape ==
  ASSUME GraphInv, Next
  PROVE  Shape'
<1> USE DEF GraphInv
<1>0. /\ Items = 1..Len(value) /\ Len(value) \in Nat /\ Len(value) >= 1
      /\ Items \subseteq Nat /\ 0 \notin Items
      /\ <<>> \in Seq(Items) /\ 0 \in 0..M /\ 0 \in Layers
      /\ \A n \in Items : value[n] \in Int
      /\ \A n \in Items, y \in Layers : edges[n][y] \in Seq(Items)
  <2>1. <<>> \in Seq(Items)
    BY EmptySeq
  <2>2. 0 \in 0..M
    BY SizesAssumption
  <2>3. \A n \in Items : value[n] \in Int
    BY ItemsFacts, ValuesAssumption
  <2>4. \A n \in Items, y \in Layers : edges[n][y] \in Seq(Items)
    BY DEF Shape
  <2> QED
    BY <2>1, <2>2, <2>3, <2>4, ItemsFacts
<1>1. CASE FirstItem
  <2>1. i \in Items /\ i + 1 \in 1..(Len(value) + 1)
    BY <1>0, <1>1 DEF FirstItem, BuildInv, building
  <2>2. \A y \in Layers : y \in -1..MaxLevel
    BY SizesAssumption DEF Layers
  <2>3. PICK y \in Layers : level' = [level EXCEPT ![i] = y] /\ maxLevel' = y
    BY <1>1 DEF FirstItem
  <2>4. level' \in [Items -> -1..MaxLevel] /\ maxLevel' \in -1..MaxLevel
    BY <2>2, <2>3 DEF Shape
  <2> QED
    BY <1>1, <2>1, <2>4, ShapeOf DEF FirstItem, NextItem, Shape, search, ask
<1>2. CASE Insert
  <2>1. i \in Items
    BY <1>2 DEF Insert, BuildInv, building
  <2>2. \A y \in Layers : y \in -1..MaxLevel
    BY SizesAssumption DEF Layers
  <2>3. PICK y \in Layers : level' = [level EXCEPT ![i] = y]
    BY <1>2 DEF Insert
  <2>4. level' \in [Items -> -1..MaxLevel]
    BY <2>2, <2>3 DEF Shape
  <2>5. maxLevel \in Layers
    BY <1>2, SizesAssumption DEF Insert, EntryInv, Shape, Layers
  <2>6. query' \in Int /\ l' \in Layers /\ curr' \in Items \cup {0}
    BY <1>0, <1>2, <2>1, <2>5 DEF Insert, Shape
  <2> QED
    BY <1>2, <2>4, <2>6, ShapeOf DEF Insert, Shape, search, ask
<1>3. CASE Descend
  <2>1. curr \in Items /\ edges[curr][l] \in Seq(Items)
    BY <1>0, <1>3 DEF Descend, PlaceInv, Underway, Shape
  <2>2. Closer(edges[curr][l]) => Nearest(edges[curr][l]) \in Items
    BY <2>1, NearestIsTarget, TargetsFacts DEF Closer
  <2>3. floor \in Int /\ floor >= 0
    BY <1>3 DEF Descend, floor, BuildInv, Underway, Shape, building
  <2>4. l - 1 \in Layers
    BY <1>3, <2>3, SizesAssumption DEF Descend, Shape, Layers
  <2>5. curr' \in Items /\ l' \in Layers
    BY <1>3, <2>1, <2>2, <2>4 DEF Descend, Shape
  <2> QED
    BY <1>3, <2>5, ShapeOf DEF Descend, Shape, search, ask, index
<1>4. CASE StartLayer
  <2>1. curr \in Items
    BY <1>4 DEF StartLayer, PlaceInv, Underway
  <2> QED
    BY <1>0, <1>4, <2>1, ShapeOf DEF StartLayer, SearchFrom, Shape, ask, index
<1>5. CASE Pop
  <2>1. PICK c \in candidates :
          /\ candidates' = candidates \ {c}
          /\ IF TooFar(c) THEN todo' = <<>> /\ Searched
                          ELSE todo' = edges[c][l] /\ pc' = "scan"
    BY <1>5 DEF Pop, BestOf
  <2>2. c \in Items
    BY <2>1 DEF Shape
  <2>3. todo' \in Seq(Items)
    <3>1. edges[c][l] \in Seq(Items)
      BY <1>0, <2>2 DEF Shape
    <3> QED
      BY <1>0, <2>1, <3>1
  <2>4. pc' \in {"link", "emit", "scan"}
    BY <2>1 DEF Searched
  <2> QED
    BY <1>5, <2>1, <2>3, <2>4, ShapeOf DEF Pop, Shape, ask, index
<1>6. CASE Drained
  BY <1>6, ShapeOf DEF Drained, Searched, Shape, search, ask, index
<1>7. CASE Scan
  <2>1. Head(todo) \in Items /\ Tail(todo) \in Seq(Items)
    BY <1>7, HeadTailProperties DEF Scan, Shape
  <2>2. visited' \subseteq Items /\ todo' \in Seq(Items)
    BY <1>7, <2>1 DEF Scan, Shape
  <2>3. candidates' \subseteq visited' /\ results' \subseteq Items
    <3>1. candidates' \subseteq visited'
      BY <1>7 DEF Scan, Shape
    <3>2. results' \subseteq results \cup {Head(todo)}
      BY <1>7 DEF Scan
    <3> QED
      BY <2>1, <3>1, <3>2 DEF Shape
  <2> QED
    BY <1>7, <2>2, <2>3, ShapeOf DEF Scan, Shape, ask, index
<1>8. CASE Scanned
  BY <1>8, ShapeOf DEF Scanned, Shape, search, ask, index
<1>9. CASE Link
  <2>1. PICK b \in results :
          /\ edges' = AddEdge(AddEdge(edges, i, b, l), b, i, l)
          /\ results' = results \ {b}
          /\ curr' = IF connected = 0 THEN b ELSE curr
    BY <1>9 DEF Link, BestOf
  <2>2. i \in Items /\ b \in Items /\ i # b /\ l <= level[i] /\ l <= level[b]
    BY <1>9, <2>1
       DEF Link, BuildInv, building, SelfInv, PlaceInv, Underway, Shape, floor
  <2>3. PICK h : h = edges'
    OBVIOUS
  <2>4. l \in Layers
    BY DEF Shape
  <2>5. edges' \in [Items -> [Layers -> Seq(Items)]]
    BY <2>1, <2>2, <2>3, <2>4, JoinGood
  <2>6. connected' \in 0..M
    BY <1>9, SizesAssumption DEF Link, Shape
  <2> QED
    BY <1>9, <2>1, <2>2, <2>5, <2>6, ShapeOf DEF Link, Shape, ask
<1>10. CASE NextLayer
  <2>1. curr \in Items /\ l - 1 \in Layers
    BY <1>10, SizesAssumption
       DEF NextLayer, Linked, PlaceInv, Underway, Shape, Layers
  <2> QED
    BY <1>0, <1>10, <2>1, ShapeOf
       DEF NextLayer, SearchFrom, Shape, ask, index
<1>11. CASE ItemDone
  <2>1. i \in Items /\ i + 1 \in 1..(Len(value) + 1)
    BY <1>0, <1>11 DEF ItemDone, Linked, BuildInv, building
  <2>2. entry' \in Items \cup {0} /\ maxLevel' \in -1..MaxLevel
    BY <1>11, <2>1 DEF ItemDone, Shape
  <2> QED
    BY <1>0, <1>11, <2>1, <2>2, ShapeOf DEF ItemDone, NextItem, Shape, ask
<1>12. CASE Emit
  <2>1. PICK b \in results :
          /\ results' = results \ {b}
          /\ out' = IF Accepts(Fit(b)) THEN Append(out, b) ELSE out
    BY <1>12 DEF Emit, BestOf
  <2>2. b \in Items /\ Append(out, b) \in Seq(Items)
    BY <2>1, AppendProperties DEF Shape
  <2>3. out' \in Seq(Items)
    BY <2>1, <2>2 DEF Shape
  <2> QED
    BY <1>12, <2>1, <2>3, ShapeOf DEF Emit, Shape, index
<1>13. CASE Answered
  BY <1>13, ShapeOf DEF Answered, Shape, search, ask, index
<1>14. CASE BuildFails
  <2>1. edges' \in [Items -> [Layers -> Seq(Items)]]
    BY <1>0, <1>14 DEF BuildFails, NoEdges
  <2>2. -1 \in -1..MaxLevel /\ level' \in [Items -> -1..MaxLevel]
    BY <1>14, SizesAssumption DEF BuildFails
  <2> QED
    BY <1>0, <1>14, <2>1, <2>2, ShapeOf DEF BuildFails, Shape, ask
<1>15. CASE SearchFails
  BY <1>15, ShapeOf DEF SearchFails, Shape, search, ask, index
<1>16. CASE \E q \in Values, k \in Limits, t \in Thresholds : Search(q, k, t)
  <2>1. PICK q \in Values, k \in Limits, t \in Thresholds : Search(q, k, t)
    BY <1>16
  <2>2. query' \in Int /\ limit' \in Nat /\ threshold' \in Int
    BY <2>1, ValuesAssumption, SizesAssumption DEF Search
  <2>3. entry \in Items /\ maxLevel \in Layers
    BY <2>1, SizesAssumption DEF Search, EntryInv, Shape, Layers
  <2>4. l' \in Layers /\ curr' \in Items \cup {0} /\ results' \subseteq Items
        /\ pc' \in {"emit", "descend"}
    BY <2>1, <2>3 DEF Search, Shape
  <2> QED
    BY <2>1, <2>2, <2>4, ShapeOf DEF Search, Shape, index
<1> QED
  BY <1>1, <1>2, <1>3, <1>4, <1>5, <1>6, <1>7, <1>8, <1>9, <1>10, <1>11,
     <1>12, <1>13, <1>14, <1>15, <1>16 DEF Next, Steps

-----------------------------------------------------------------------------
(* The lists of edges. *)

(* A list stays good when levels rise. *)
LEMMA GoodRaised ==
  ASSUME GraphInv, Next, UNCHANGED edges, i \in Items, level[i] = -1,
         NEW y \in Layers, level' = [level EXCEPT ![i] = y]
  PROVE  GoodEdges(edges)'
<1>1. \A n \in Items : level[n] \in Int /\ level'[n] \in Int
                       /\ level[n] <= level'[n]
  <2>1. \A n \in Items : level'[n] = IF n = i THEN y ELSE level[n]
    BY DEF GraphInv, Shape
  <2> QED
    BY <2>1, Numbers DEF GraphInv
<1>2. \A n \in Items, z \in Layers :
        z \in Int /\ Len(edges[n][z]) \in Nat
        /\ \A k \in 1..Len(edges[n][z]) : edges[n][z][k] \in Items
  BY ElementOfSeq, LenProperties, Numbers DEF GraphInv
<1>3. ASSUME NEW n \in Items, NEW z \in Layers
      PROVE  GoodList(edges[n][z], n, z)'
  BY <1>1, <1>2 DEF GraphInv, GoodEdges, GoodList
<1> QED
  BY <1>3, Fixed DEF GoodEdges

LEMMA NextGood ==
  ASSUME GraphInv, Next
  PROVE  GoodEdges(edges)'
<1>1. CASE FirstItem
  BY <1>1, GoodRaised DEF FirstItem, GraphInv, BuildInv, building
<1>2. CASE Insert
  BY <1>2, GoodRaised DEF Insert, GraphInv, BuildInv, building
<1>3. CASE Link
  <2>1. PICK b \in results :
          edges' = AddEdge(AddEdge(edges, i, b, l), b, i, l)
    BY <1>3 DEF Link, BestOf
  <2>2. i \in Items /\ b \in Items /\ i # b /\ l <= level[i] /\ l <= level[b]
    BY <1>3, <2>1 DEF Link, GraphInv, BuildInv, building, SelfInv, PlaceInv,
                      Underway, Shape, floor
  <2>3. PICK h : h = edges'
    OBVIOUS
  <2>4. l \in Layers
    BY DEF GraphInv, Shape
  <2>5. GoodEdges(h)
    BY <2>1, <2>2, <2>3, <2>4, JoinGood DEF GraphInv
  <2>6. level' = level
    BY <1>3 DEF Link
  <2> QED
    BY <2>3, <2>5, <2>6, Fixed DEF GoodEdges, GoodList
<1>4. CASE BuildFails
  <2>1. \A n \in Items, y \in Layers : edges'[n][y] = <<>>
    BY <1>4 DEF BuildFails, NoEdges
  <2>2. \A y \in Layers : MaxDegree(y) >= 0
    BY SizesAssumption DEF MaxDegree
  <2>3. Len(<<>>) = 0 /\ 1..0 = {}
    OBVIOUS
  <2> QED
    BY <2>1, <2>2, <2>3, Fixed DEF GoodEdges, GoodList
<1>5. CASE UNCHANGED <<edges, level>>
  BY <1>5, GoodKept DEF GraphInv
<1> QED
  BY <1>1, <1>2, <1>3, <1>4, <1>5
     DEF Next, Steps, Descend, StartLayer, Pop, Drained, Scan, Scanned,
         NextLayer, ItemDone, Emit, Answered, SearchFails, Search, index

-----------------------------------------------------------------------------
(* The build and the entry point. *)

LEMMA NextBuild ==
  ASSUME GraphInv, Next
  PROVE  BuildInv' /\ EntryInv'
<1> USE DEF GraphInv
<1>0. /\ Items = 1..Len(value) /\ Len(value) \in Nat /\ Len(value) >= 1
      /\ Items \subseteq Nat /\ 0 \notin Items
      /\ i \in Nat /\ i >= 1 /\ i <= Len(value) + 1
      /\ \A n \in Items : level[n] \in Int /\ level[n] >= -1
      /\ \A y \in Layers : y \in Int /\ y >= 0
      /\ maxLevel \in Int /\ maxLevel >= -1
      /\ UNCHANGED <<metric, value>> /\ Items' = Items
  BY ItemsFacts, Numbers, Fixed
<1>1. CASE FirstItem
  <2>1. i \in Items /\ entry = 0 /\ entry' = i /\ i' = i + 1
        /\ pc' = IF i = Len(value) THEN "ready" ELSE "insert"
    BY <1>1 DEF FirstItem, NextItem, BuildInv, building
  <2>2. PICK y \in Layers : level' = [level EXCEPT ![i] = y] /\ maxLevel' = y
    BY <1>1 DEF FirstItem
  <2>3. \A n \in Items : level'[n] = IF n = i THEN y ELSE -1
    BY <2>1, <2>2 DEF EntryInv, Shape
  <2>4. y \in Int /\ y >= 0
    BY <1>0
  <2>5. pc' = "insert" => i' \in Items
    BY <1>0, <2>1
  <2>6. pc' = "ready" => i' \notin Items
    BY <1>0, <2>1
  <2>7. BuildInv'
    BY <1>0, <2>1, <2>3, <2>5, <2>6 DEF BuildInv, building, Underway
  <2>8. EntryInv'
    BY <1>0, <2>1, <2>2, <2>3, <2>4 DEF EntryInv, building
  <2> QED
    BY <2>7, <2>8
<1>2. CASE Insert
  <2>1. i \in Items /\ entry # 0 /\ entry' = entry /\ i' = i /\ pc = "insert"
        /\ pc' = "descend" /\ maxLevel' = maxLevel /\ entry # i
    BY <1>2 DEF Insert, BuildInv, EntryInv, building
  <2>2. PICK y \in Layers : level' = [level EXCEPT ![i] = y]
    BY <1>2 DEF Insert
  <2>3. \A n \in Items : level'[n] = IF n = i THEN y ELSE level[n]
    BY <2>1, <2>2 DEF Shape
  <2>4. y \in Int /\ y >= 0 /\ entry \in Items
    BY <1>0, <2>1 DEF Shape
  <2>5. BuildInv'
    BY <1>0, <2>1, <2>3, <2>4 DEF BuildInv, building, Underway
  <2>6. EntryInv'
    BY <1>0, <2>1, <2>3, <2>4 DEF EntryInv, building
  <2> QED
    BY <2>5, <2>6
<1>3. CASE ItemDone
  <2>1. i \in Items /\ i' = i + 1 /\ entry # 0 /\ entry # i /\ level' = level
        /\ level[i] >= 0 /\ pc = "link"
        /\ pc' = IF i = Len(value) THEN "ready" ELSE "insert"
    BY <1>3 DEF ItemDone, Linked, NextItem, BuildInv, EntryInv, building,
                Underway
  <2>2. i' \in Items => level[i'] = -1
    BY <1>0, <2>1 DEF BuildInv, building
  <2>3. pc' = "insert" => i' \in Items
    BY <1>0, <2>1
  <2>4. pc' = "ready" => i' \notin Items
    BY <1>0, <2>1
  <2>5. BuildInv'
    BY <1>0, <2>1, <2>2, <2>3, <2>4 DEF BuildInv, building, Underway
  <2>6. CASE level[i] > maxLevel
    <3>1. maxLevel' = level[i] /\ entry' = i
      BY <1>3, <2>6 DEF ItemDone
    <3>2. \A n \in Items : level[n] <= level[i]
      BY <1>0, <2>1, <2>6 DEF EntryInv
    <3> QED
      BY <1>0, <2>1, <2>5, <3>1, <3>2 DEF EntryInv, building
  <2>7. CASE ~(level[i] > maxLevel)
    <3>1. maxLevel' = maxLevel /\ entry' = entry
      BY <1>3, <2>7 DEF ItemDone
    <3>2. \A n \in Items : level[n] <= maxLevel
      BY <1>0, <2>1, <2>7 DEF EntryInv
    <3>3. entry # i'
      <4>1. entry = i' => level[entry] = -1
        BY <2>1, <2>2 DEF Shape
      <4> QED
        BY <1>0, <2>1, <4>1 DEF EntryInv
    <3> QED
      BY <1>0, <2>1, <2>5, <3>1, <3>2, <3>3 DEF EntryInv, building
  <2> QED
    BY <2>6, <2>7
<1>4. CASE BuildFails
  <2>1. pc' = "failed" /\ i' = i /\ entry' = 0
        /\ \A n \in Items : level'[n] = -1
    BY <1>4 DEF BuildFails
  <2> QED
    BY <1>0, <2>1 DEF BuildInv, EntryInv, building, Underway
<1>5. ASSUME UNCHANGED <<level, entry, maxLevel, i>>, pc # "insert",
             pc' # "insert", pc # "failed",
             pc' \in {"ready", "emit", "answered"} => ~building,
             pc' = "link" => building,
             building /\ Underway' => Underway
      PROVE  BuildInv' /\ EntryInv'
  BY <1>0, <1>5 DEF BuildInv, EntryInv, building, Underway
<1>6. CASE Link
  BY <1>5, <1>6 DEF Link, BuildInv, Underway
<1>7. CASE Descend \/ StartLayer \/ NextLayer
  BY <1>5, <1>7 DEF Descend, StartLayer, NextLayer, Linked, SearchFrom,
                    BuildInv, Underway, index
<1>8. CASE Pop \/ Drained
  <2>1. pc = "search"
        /\ (pc' = "scan" \/ pc' = IF building THEN "link" ELSE "emit")
    BY <1>8 DEF Pop, Drained, Searched
  <2> QED
    BY <1>5, <1>8, <2>1 DEF Pop, Drained, Underway, index
<1>9. CASE Scan \/ Scanned
  BY <1>5, <1>9 DEF Scan, Scanned, Underway, index
<1>10. CASE Emit \/ Answered \/ SearchFails
  BY <1>5, <1>10 DEF Emit, Answered, SearchFails, BuildInv, Underway, index
<1>11. CASE \E q \in Values, k \in Limits, t \in Thresholds : Search(q, k, t)
  <2>1. pc = "ready" /\ ~building /\ UNCHANGED <<level, entry, maxLevel, i>>
        /\ pc' \in {"emit", "descend"}
    BY <1>11 DEF Search, BuildInv, index
  <2> QED
    BY <1>5, <2>1
<1> QED
  BY <1>1, <1>2, <1>3, <1>4, <1>6, <1>7, <1>8, <1>9, <1>10, <1>11
     DEF Next, Steps

-----------------------------------------------------------------------------
(* Where a search is. *)

(* What an edge on layer y leads to lies on layer y. *)
LEMMA TargetOnLayer ==
  ASSUME GraphInv, NEW n \in Items, NEW y \in Layers,
         NEW t \in Targets(edges[n][y])
  PROVE  t \in Items /\ y <= level[t] /\ y <= level[n] /\ t # n
<1>1. edges[n][y] \in Seq(Items)
  BY Numbers DEF GraphInv
<1>2. PICK k \in 1..Len(edges[n][y]) : t = edges[n][y][k]
  BY <1>1, TargetsFacts
<1>3. GoodList(edges[n][y], n, y)
  BY DEF GraphInv, GoodEdges
<1>4. edges[n][y] # <<>>
  BY <1>1, TargetsFacts
<1>5. t \in Items
  BY <1>1, TargetsFacts
<1> QED
  BY <1>2, <1>3, <1>4, <1>5 DEF GoodList

(* The descent: a pass over the neighbours of curr ends at a node of the   *)
(* same layer, and one that leads nowhere goes down a layer.               *)
LEMMA DescentStep ==
  ASSUME GraphInv, Descend
  PROVE  /\ curr' \in Items /\ l' <= level[curr'] /\ l' <= l
         /\ curr' = curr \/ curr' \in Targets(edges[curr][l])
<1> DEFINE list == edges[curr][l]
<1>1. curr \in Items /\ l \in Layers /\ l <= level[curr] /\ list \in Seq(Items)
  BY Numbers DEF GraphInv, Shape, Descend, PlaceInv, Underway
<1>2. l \in Int /\ level[curr] \in Int
  BY <1>1, Numbers DEF GraphInv
<1>3. CASE Closer(list)
  <2>1. curr' = Nearest(list) /\ l' = l /\ list # <<>>
    BY <1>3 DEF Descend, Closer
  <2>2. curr' \in Targets(list)
    BY <1>1, <2>1, NearestIsTarget DEF GraphInv
  <2> QED
    BY <1>1, <1>2, <2>1, <2>2, TargetOnLayer
<1>4. CASE ~Closer(list)
  <2>1. curr' = curr /\ l' = l - 1
    BY <1>4 DEF Descend
  <2> QED
    BY <1>1, <1>2, <2>1
<1> QED
  BY <1>3, <1>4

LEMMA NextPlace ==
  ASSUME GraphInv, Next
  PROVE  PlaceInv'
<1>0. /\ \A n \in Items : level[n] \in Int
      /\ l \in Int /\ l >= 0 /\ l \in Layers
      /\ Items' = Items /\ 0 \notin Items
      /\ visited \subseteq Items /\ results \subseteq Items
      /\ candidates \subseteq visited
  BY Numbers, Fixed, ItemsFacts DEF GraphInv, Shape
<1> USE DEF GraphInv
<1>1. CASE FirstItem \/ ItemDone
  <2>1. pc' \in {"ready", "insert"}
    BY <1>1 DEF FirstItem, ItemDone, NextItem
  <2> QED
    BY <2>1 DEF PlaceInv, Underway
<1>2. CASE Insert
  <2>1. pc' = "descend" /\ curr' = entry /\ l' = maxLevel /\ entry \in Items
        /\ level[entry] = maxLevel /\ entry # i
    BY <1>2 DEF Insert, Shape, EntryInv, BuildInv
  <2>2. level'[entry] = level[entry]
    BY <1>2, <2>1 DEF Insert, Shape
  <2>3. maxLevel \in Int
    BY Numbers
  <2> QED
    BY <1>0, <2>1, <2>2, <2>3 DEF PlaceInv, Underway
<1>3. CASE Descend
  BY <1>0, <1>3, DescentStep DEF Descend, PlaceInv, Underway, index
<1>4. CASE StartLayer
  <2>1. pc = "descend" /\ pc' = "search" /\ visited' = {curr} /\ l' = l
        /\ results' = {curr} /\ curr' = curr /\ l <= floor
        /\ UNCHANGED <<level, i, value>>
    BY <1>4 DEF StartLayer, SearchFrom, index
  <2>2. curr \in Items /\ l <= level[curr]
    BY <2>1 DEF PlaceInv, Underway
  <2>3. floor' = floor
    BY <2>1 DEF floor, building, Items
  <2> QED
    BY <1>0, <2>1, <2>2, <2>3 DEF PlaceInv, Underway
<1>5. CASE Pop
  <2>1. PICK c \in candidates :
          IF TooFar(c) THEN todo' = <<>> /\ Searched
                       ELSE todo' = edges[c][l] /\ pc' = "scan"
    BY <1>5 DEF Pop, BestOf
  <2>2. pc = "search" /\ UNCHANGED <<level, i, value, l, curr, results, visited>>
    BY <1>5 DEF Pop, index
  <2>3. floor' = floor
    BY <2>2 DEF floor, building, Items
  <2>4. pc' = "scan" => \A n \in Targets(todo') : l <= level[n]
    BY <1>0, <2>1, TargetOnLayer DEF Searched
  <2>5. pc' \in {"scan", "link", "emit"}
    BY <2>1 DEF Searched
  <2>6. curr \in Items /\ l <= level[curr] /\ l <= floor
        /\ results \subseteq visited /\ \A n \in visited : l <= level[n]
    BY <2>2 DEF PlaceInv, Underway
  <2>7. Targets(todo)' = Targets(todo')
    BY DEF Targets
  <2> QED
    BY <1>0, <2>2, <2>3, <2>4, <2>5, <2>6, <2>7 DEF PlaceInv, Underway
<1>6. CASE Drained
  <2>1. pc = "search" /\ UNCHANGED <<level, i, value, l, curr, results, visited>>
        /\ pc' \in {"link", "emit"}
    BY <1>6 DEF Drained, Searched, search, index
  <2>2. floor' = floor
    BY <2>1 DEF floor, building, Items
  <2>3. curr \in Items /\ l <= level[curr] /\ l <= floor
        /\ results \subseteq visited /\ \A n \in visited : l <= level[n]
    BY <2>1 DEF PlaceInv, Underway
  <2> QED
    BY <1>0, <2>1, <2>2, <2>3 DEF PlaceInv, Underway
<1>7. CASE Scan
  <2>1. pc = "scan" /\ todo # <<>> /\ todo' = Tail(todo) /\ pc' = "scan"
        /\ visited' = visited \cup {Head(todo)}
        /\ results' \subseteq results \cup {Head(todo)}
        /\ UNCHANGED <<level, i, value, l, curr>>
    BY <1>7 DEF Scan, index
  <2>2. floor' = floor
    BY <2>1 DEF floor, building, Items
  <2>3. curr \in Items /\ l <= level[curr] /\ l <= floor
        /\ results \subseteq visited /\ (\A n \in visited : l <= level[n])
        /\ \A n \in Targets(todo) : l <= level[n]
    BY <2>1 DEF PlaceInv, Underway
  <2>4. Head(todo) \in Targets(todo) /\ Targets(Tail(todo)) \subseteq Targets(todo)
    BY <2>1, HeadAndTail DEF Shape
  <2>5. Targets(todo)' = Targets(Tail(todo))
    BY <2>1 DEF Targets
  <2> QED
    BY <1>0, <2>1, <2>2, <2>3, <2>4, <2>5 DEF PlaceInv, Underway
<1>8. CASE Scanned
  <2>1. pc = "scan" /\ pc' = "search"
        /\ UNCHANGED <<level, i, value, l, curr, results, visited>>
    BY <1>8 DEF Scanned, search, index
  <2>2. floor' = floor
    BY <2>1 DEF floor, building, Items
  <2> QED
    BY <1>0, <2>1, <2>2 DEF PlaceInv, Underway
<1>9. CASE Link
  <2>1. PICK b \in results : /\ results' = results \ {b}
                             /\ curr' = IF connected = 0 THEN b ELSE curr
    BY <1>9 DEF Link, BestOf
  <2>2. pc = "link" /\ pc' = "link" /\ UNCHANGED <<level, i, value, l>>
    BY <1>9 DEF Link
  <2>3. floor' = floor
    BY <2>2 DEF floor, building, Items
  <2>4. curr \in Items /\ l <= level[curr] /\ l <= floor
        /\ \A n \in results : l <= level[n]
    BY <2>2 DEF PlaceInv, Underway
  <2>5. curr' \in Items /\ l <= level[curr']
    BY <1>0, <2>1, <2>4
  <2> QED
    BY <1>0, <2>1, <2>2, <2>3, <2>4, <2>5 DEF PlaceInv, Underway
<1>10. CASE NextLayer
  <2>1. pc = "link" /\ pc' = "search" /\ visited' = {curr} /\ l' = l - 1
        /\ results' = {curr} /\ curr' = curr
        /\ UNCHANGED <<level, i, value>>
    BY <1>10 DEF NextLayer, Linked, SearchFrom, index
  <2>2. curr \in Items /\ l <= level[curr] /\ l <= floor
    BY <2>1 DEF PlaceInv, Underway
  <2>3. floor' = floor /\ floor \in Int
    BY <1>0, <2>1 DEF floor, building, Items
  <2>4. l - 1 <= level[curr] /\ l - 1 <= floor
    BY <1>0, <2>2, <2>3
  <2> QED
    BY <1>0, <2>1, <2>2, <2>3, <2>4 DEF PlaceInv, Underway
<1>11. CASE Emit \/ Answered \/ BuildFails \/ SearchFails
  <2>1. pc' \in {"emit", "answered", "failed"}
    BY <1>11 DEF Emit, Answered, BuildFails, SearchFails
  <2> QED
    BY <2>1 DEF PlaceInv, Underway
<1>12. CASE \E q \in Values, k \in Limits, t \in Thresholds : Search(q, k, t)
  <2>1. pc' = "emit" \/ (pc' = "descend" /\ curr' = entry /\ l' = maxLevel)
    BY <1>12 DEF Search
  <2>2. entry \in Items /\ level[entry] = maxLevel /\ level' = level
    BY <1>12 DEF Search, EntryInv, Shape, index
  <2>3. maxLevel \in Int
    BY Numbers
  <2> QED
    BY <1>0, <2>1, <2>2, <2>3 DEF PlaceInv, Underway
<1> QED
  BY <1>1, <1>2, <1>3, <1>4, <1>5, <1>6, <1>7, <1>8, <1>9, <1>10, <1>11, <1>12
     DEF Next, Steps

-----------------------------------------------------------------------------
(* The item being inserted. *)

(* Nothing leads to item i on the layers up to y. *)
Unreached(y) ==
  \A n \in Items, z \in Layers : z <= y => i \notin Targets(edges[n][z])

LEMMA NextSelf ==
  ASSUME GraphInv, Next
  PROVE  SelfInv'
<1>0. /\ l \in Int /\ l >= 0 /\ l \in Layers /\ Items' = Items
      /\ visited \subseteq Items /\ results \subseteq Items
      /\ candidates \subseteq visited /\ todo \in Seq(Items)
      /\ \A y \in Layers : y \in Int /\ y >= 0
      /\ \A n \in Items, y \in Layers : edges[n][y] \in Seq(Items)
  BY Numbers, Fixed DEF GraphInv, Shape
<1>1. Targets(todo)' = Targets(todo')
      /\ \A n, y : Targets(edges[n][y])' = Targets(edges'[n][y])
  BY DEF Targets
<1> USE DEF GraphInv
<1>2. ASSUME building, Underway, UNCHANGED i
      PROVE  /\ i \in Items /\ curr # i
             /\ pc \in {"search", "scan"} =>
                  i \notin visited /\ i \notin Targets(todo)
             /\ pc = "link" => i \notin results
             /\ pc # "link" => Unreached(l)
             /\ pc = "link" => Unreached(l - 1)
  <2>1. \A y \in Layers : y <= l - 1 => y < l
    BY <1>0
  <2> QED
    BY <1>0, <1>2, <2>1 DEF SelfInv, Unreached, building
<1>3. ASSUME UNCHANGED <<edges, i>>, NEW y, Unreached(y), l' <= y, y \in Int,
             l' \in Int, building, curr' # i,
             pc' \in {"search", "scan"} =>
               i \notin visited' /\ i \notin Targets(todo'),
             pc' = "link" => i \notin results'
      PROVE  SelfInv'
  <2>1. ASSUME NEW n \in Items, NEW z \in Layers,
               IF pc' = "link" THEN z < l' ELSE z <= l'
        PROVE  i \notin Targets(edges[n][z])
    <3>1. z <= y
      BY <1>0, <1>3, <2>1
    <3> QED
      BY <1>3, <3>1 DEF Unreached
  <2> QED
    BY <1>0, <1>1, <1>3, <2>1 DEF SelfInv
<1>4. ASSUME ~building, UNCHANGED i PROVE SelfInv'
  BY <1>0, <1>4 DEF SelfInv, building
<1>5. CASE FirstItem \/ ItemDone
  <2>1. pc' \in {"ready", "insert"}
    BY <1>5 DEF FirstItem, ItemDone, NextItem
  <2> QED
    BY <2>1 DEF SelfInv, Underway
<1>6. CASE Insert
  <2>1. i \in Items /\ level[i] = -1 /\ entry # i /\ pc' = "descend"
        /\ curr' = entry /\ l' = maxLevel /\ UNCHANGED <<edges, i>>
    BY <1>6 DEF Insert, BuildInv, EntryInv, building
  <2>2. maxLevel \in Int
    BY Numbers
  <2>3. Unreached(maxLevel)
    <3>1. ASSUME NEW n \in Items, NEW z \in Layers, i \in Targets(edges[n][z])
          PROVE  FALSE
      BY <1>0, <2>1, <3>1, TargetOnLayer
    <3> QED
      BY <3>1 DEF Unreached
  <2> QED
    BY <1>3, <2>1, <2>2, <2>3 DEF building
<1>7. CASE Descend
  <2>1. pc = "descend" /\ pc' = "descend" /\ UNCHANGED <<edges, i>>
    BY <1>7 DEF Descend, index
  <2>2. curr \in Items /\ l' <= l /\ l' \in Layers
        /\ (curr' = curr \/ curr' \in Targets(edges[curr][l]))
    BY <1>7, DescentStep, NextShape DEF Shape, PlaceInv, Underway, Descend
  <2>3. CASE building
    <3>1. Unreached(l) /\ curr # i
      BY <1>2, <2>1, <2>3 DEF Underway
    <3>2. curr' # i
      BY <1>0, <2>2, <3>1 DEF Unreached
    <3> QED
      BY <1>0, <1>3, <2>1, <2>2, <2>3, <3>1, <3>2
  <2> QED
    BY <1>4, <2>1, <2>3
<1>8. CASE StartLayer \/ NextLayer
  <2>1. UNCHANGED <<edges, i, curr>> /\ visited' = {curr} /\ todo' = <<>>
        /\ pc' = "search"
    BY <1>8 DEF StartLayer, NextLayer, SearchFrom, index
  <2>2. \/ pc = "descend" /\ l' = l
        \/ pc = "link" /\ l' = l - 1
    BY <1>8 DEF StartLayer, NextLayer, Linked
  <2>3. Targets(todo') = {}
    BY <2>1, TargetsFacts, EmptySeq
  <2>4. CASE building
    <3>1. curr # i /\ Unreached(l')
      BY <1>2, <2>1, <2>2, <2>4 DEF Underway
    <3> QED
      BY <1>0, <1>3, <2>1, <2>2, <2>3, <2>4, <3>1
  <2> QED
    BY <1>4, <2>1, <2>4
<1>9. CASE Pop
  <2>1. PICK c \in candidates :
          IF TooFar(c) THEN todo' = <<>> /\ Searched
                       ELSE todo' = edges[c][l] /\ pc' = "scan"
    BY <1>9 DEF Pop, BestOf
  <2>2. pc = "search" /\ UNCHANGED <<edges, i, l, curr, results, visited>>
    BY <1>9 DEF Pop, index
  <2>3. CASE building
    <3>1. curr # i /\ Unreached(l) /\ i \notin visited
      BY <1>2, <2>2, <2>3 DEF Underway
    <3>2. c \in Items
      BY <1>0, <2>1
    <3>3. i \notin Targets(edges[c][l])
      BY <1>0, <3>1, <3>2 DEF Unreached
    <3>4. Targets(<<>>) = {}
      BY TargetsFacts, EmptySeq
    <3>5. i \notin Targets(todo')
      BY <2>1, <3>3, <3>4
    <3>6. i \notin results
      BY <2>2, <3>1 DEF PlaceInv
    <3> QED
      BY <1>0, <1>3, <2>2, <2>3, <3>1, <3>5, <3>6
  <2> QED
    BY <1>4, <2>2, <2>3
<1>10. CASE Drained \/ Scanned
  <2>1. UNCHANGED <<edges, i, l, curr, results, visited, todo>>
        /\ pc \in {"search", "scan"}
    BY <1>10 DEF Drained, Scanned, search, index
  <2>2. CASE building
    <3>1. curr # i /\ Unreached(l) /\ i \notin visited /\ i \notin Targets(todo)
      BY <1>2, <2>1, <2>2 DEF Underway
    <3>2. i \notin results
      BY <2>1, <3>1 DEF PlaceInv
    <3> QED
      BY <1>0, <1>3, <2>1, <2>2, <3>1, <3>2
  <2> QED
    BY <1>4, <2>1, <2>2
<1>11. CASE Scan
  <2>1. pc = "scan" /\ pc' = "scan" /\ todo # <<>> /\ todo' = Tail(todo)
        /\ visited' = visited \cup {Head(todo)}
        /\ UNCHANGED <<edges, i, l, curr>>
    BY <1>11 DEF Scan, index
  <2>2. CASE building
    <3>1. curr # i /\ Unreached(l) /\ i \notin visited /\ i \notin Targets(todo)
      BY <1>2, <2>1, <2>2 DEF Underway
    <3>2. i \notin visited' /\ i \notin Targets(todo')
      BY <1>0, <2>1, <3>1, HeadAndTail
    <3> QED
      BY <1>0, <1>3, <2>1, <2>2, <3>1, <3>2
  <2> QED
    BY <1>4, <2>1, <2>2
<1>12. CASE Link
  <2>1. PICK b \in results :
          /\ edges' = AddEdge(AddEdge(edges, i, b, l), b, i, l)
          /\ results' = results \ {b}
          /\ curr' = IF connected = 0 THEN b ELSE curr
    BY <1>12 DEF Link, BestOf
  <2>2. pc = "link" /\ pc' = "link" /\ UNCHANGED <<i, l>> /\ building
    BY <1>12 DEF Link, BuildInv
  <2>3. i \in Items /\ b \in Items /\ i # b /\ l <= level[i] /\ l <= level[b]
    BY <2>1, <2>2
       DEF BuildInv, building, SelfInv, PlaceInv, Underway, Shape, floor
  <2>4. PICK h : h = edges'
    OBVIOUS
  <2>5. \A m \in Items, z \in Layers : z # l => h[m][z] = edges[m][z]
    <3>1. SameBut(h, edges, l)
      BY <1>0, <2>1, <2>3, <2>4, JoinGood
    <3> QED
      BY <3>1 DEF SameBut
  <2>7. curr # i /\ i \notin results /\ Unreached(l - 1)
    BY <1>2, <2>2 DEF Underway
  <2>8. ASSUME NEW n \in Items, NEW z \in Layers, z < l
        PROVE  i \notin Targets(edges'[n][z])
    <3>1. z <= l - 1 /\ z # l
      BY <1>0, <2>8
    <3> QED
      BY <2>4, <2>5, <2>7, <3>1 DEF Unreached
  <2>9. curr' # i /\ i \notin results'
    BY <2>1, <2>3, <2>7
  <2> QED
    BY <1>0, <1>1, <2>2, <2>8, <2>9 DEF SelfInv
<1>13. CASE Emit \/ Answered \/ BuildFails \/ SearchFails
  <2>1. pc' \in {"emit", "answered", "failed"}
    BY <1>13 DEF Emit, Answered, BuildFails, SearchFails
  <2> QED
    BY <2>1 DEF SelfInv, Underway
<1>14. CASE \E q \in Values, k \in Limits, t \in Thresholds : Search(q, k, t)
  BY <1>4, <1>14 DEF Search, BuildInv
<1> QED
  BY <1>5, <1>6, <1>7, <1>8, <1>9, <1>10, <1>11, <1>12, <1>13, <1>14
     DEF Next, Steps

-----------------------------------------------------------------------------
(* The search of a layer. *)

(* A full set of results stays full when the worst one makes room. *)
LEMMA StaysFull ==
  ASSUME Shape, NEW n \in Items, n \notin results, NEW w \in results \cup {n}
  PROVE  Cardinality((results \cup {n}) \ {w}) = Cardinality(results)
         /\ Cardinality(results) \in Nat
<1>1. IsFiniteSet(results)
  BY ItemsFacts, FS_Subset DEF Shape
<1>2. Cardinality(results) \in Nat
  BY <1>1, FS_CardinalityType
<1>3. IsFiniteSet(results \cup {n})
      /\ Cardinality(results \cup {n}) = Cardinality(results) + 1
  BY <1>1, FS_AddElement
<1>4. Cardinality((results \cup {n}) \ {w}) = Cardinality(results \cup {n}) - 1
  BY <1>3, FS_RemoveElement
<1> QED
  BY <1>2, <1>3, <1>4

(* The invariant for the scan of one neighbour. *)
LEMMA ScanSearch ==
  ASSUME GraphInv, Next, Scan
  PROVE  SearchInv'
<1> USE DEF GraphInv
<1> DEFINE n == Head(todo)
<1>1. pc = "scan" /\ pc' = "scan" /\ todo # <<>> /\ todo' = Tail(todo)
      /\ visited' = visited \cup {n}
      /\ UNCHANGED <<metric, value, query, threshold, edges, i, l, limit>>
  BY DEF Scan, index, ask
<1>2. n \in Items /\ Targets(todo) = {n} \cup Targets(Tail(todo))
  BY <1>1, HeadAndTail, TargetsFacts DEF Shape
<1>3. visited \cup Targets(todo) = visited' \cup Targets(todo')
  BY <1>1, <1>2
<1>4. results \subseteq visited /\ visited \subseteq Items /\ Items' = Items
  BY <1>1, Fixed DEF PlaceInv, Shape
<1>5. \/ UNCHANGED <<candidates, results>>
      \/ candidates' = candidates \cup {n} /\ results' \subseteq results \cup {n}
  BY DEF Scan
<1>6. ef' = ef
  BY <1>1, <1>4 DEF ef, building
<1>7. PICK r, t : Ranks(r, t)
  BY RanksExist
<1>8. Ranks(r, t)'
  BY <1>1, <1>7, RanksKept
<1>9. ASSUME NEW x \in results' \ candidates'
      PROVE  Targets(edges'[x][l']) \subseteq visited' \cup Targets(todo')
  <2>1. x \in results \ candidates
    BY <1>5
  <2>2. Targets(edges[x][l]) \subseteq visited \cup Targets(todo)
    BY <1>1, <2>1 DEF SearchInv
  <2> QED
    BY <1>1, <1>3, <2>2
<1>10. \A x \in visited \ results : Full /\ \A o \in results : r[x] <= r[o]
  <2> TAKE x \in visited \ results
  <2>1. Full /\ \A o \in results : ~BetterThan(x, o)
    BY <1>1 DEF SearchInv
  <2>2. \A o \in results : o \in Items /\ x \in Items
    BY <1>4
  <2> QED
    BY <1>7, <2>1, <2>2 DEF Ranks
<1>11. ASSUME NEW x \in visited' \ results'
       PROVE  Full' /\ \A o \in results' : r[x] <= r[o]
  <2>1. CASE n \in visited
    <3>1. results' = results /\ visited' = visited
      BY <1>1, <2>1 DEF Scan
    <3> QED
      BY <1>6, <1>10, <1>11, <3>1 DEF Full
  <2>2. CASE n \notin visited /\ Full /\ \A o \in results : ~BetterThan(n, o)
    <3>1. results' = results
      BY <2>2 DEF Scan
    <3>2. \A o \in results : r[n] <= r[o]
      <4> TAKE o \in results
      <4>1. o \in Items /\ ~BetterThan(n, o)
        BY <1>4, <2>2
      <4> QED
        BY <1>2, <1>7, <4>1 DEF Ranks
    <3>3. Full'
      BY <1>6, <2>2, <3>1 DEF Full
    <3> QED
      BY <1>1, <1>10, <1>11, <3>1, <3>2, <3>3
  <2>3. CASE n \notin visited /\ ~Full
    <3>1. results' = results \cup {n}
      BY <2>3 DEF Scan
    <3>2. x \in visited \ results
      BY <1>1, <1>11, <3>1
    <3> QED
      BY <1>10, <2>3, <3>2
  <2>4. CASE n \notin visited /\ Full /\ \E o \in results : BetterThan(n, o)
    <3>1. PICK w \in WorstOf(results \cup {n}) :
            results' = (results \cup {n}) \ {w}
      BY <2>4 DEF Scan
    <3>2. PICK o \in results : BetterThan(n, o)
      BY <2>4
    <3>3. w \in results \cup {n}
          /\ \A q \in results \cup {n} : ~WorseThan(q, w)
      BY <3>1 DEF WorstOf
    <3>4. \A q \in results \cup {n} : q \in Items
      BY <1>2, <1>4
    <3>5. /\ \A q \in results \cup {n} : r[q] \in Int /\ r[w] <= r[q]
          /\ r[o] < r[n]
      BY <1>2, <1>7, <3>2, <3>3, <3>4 DEF Ranks
    <3>6. Full'
      <4>1. n \notin results
        BY <1>4, <2>4
      <4>2. Cardinality(results') = Cardinality(results)
        BY <1>2, <3>1, <3>3, <4>1, StaysFull
      <4> QED
        BY <1>6, <2>4, <4>2 DEF Full
    <3>7. CASE x = w
      BY <3>1, <3>5, <3>6, <3>7
    <3>8. CASE x # w
      <4>1. x \in visited \ results
        BY <1>1, <1>11, <3>1, <3>8
      <4>2. \A q \in results : r[x] <= r[q]
        BY <1>10, <4>1
      <4>3. r[x] \in Int
        BY <1>4, <1>7, <4>1 DEF Ranks
      <4>4. r[x] <= r[n]
        BY <3>2, <3>5, <4>2, <4>3
      <4> QED
        BY <3>1, <3>6, <4>2, <4>4
    <3> QED
      BY <3>7, <3>8
  <2> QED
    BY <2>1, <2>2, <2>3, <2>4
<1>12. ASSUME NEW x \in visited' \ results', NEW o \in results'
       PROVE  ~BetterThan(x, o)'
  <2>1. r[x] <= r[o]
    BY <1>11
  <2>2. x \in Items /\ o \in Items /\ r[x] \in Int /\ r[o] \in Int
    <3>1. x \in Items /\ o \in Items
      BY <1>1, <1>2, <1>4, <1>5
    <3> QED
      BY <1>7, <3>1 DEF Ranks
  <2>3. BetterThan(x, o)' <=> r[x] > r[o]
    BY <1>4, <1>8, <2>2 DEF Ranks
  <2> QED
    BY <2>1, <2>2, <2>3
<1>13. /\ Targets(todo)' = Targets(todo')
       /\ \A x : Targets(edges[x][l])' = Targets(edges'[x][l'])
  BY DEF Targets
<1> QED
  BY <1>1, <1>9, <1>11, <1>12, <1>13 DEF SearchInv

LEMMA NextSearch ==
  ASSUME GraphInv, Next
  PROVE  SearchInv'
<1> USE DEF GraphInv
<1>1. Targets(<<>>) = {}
  BY TargetsFacts, EmptySeq
<1>2. /\ Targets(todo)' = Targets(todo')
      /\ \A x : Targets(edges[x][l])' = Targets(edges'[x][l'])
  BY DEF Targets
<1>3. CASE Scan
  BY <1>3, ScanSearch
<1>4. CASE StartLayer \/ NextLayer
  <2>1. candidates' = {curr} /\ results' = {curr} /\ visited' = {curr}
        /\ todo' = <<>>
    BY <1>4 DEF StartLayer, NextLayer, SearchFrom
  <2> QED
    BY <2>1 DEF SearchInv
<1>5. ASSUME pc \in {"search", "scan"}, pc' \in {"search", "scan"},
             UNCHANGED <<metric, value, query, edges, i, l, limit, results,
                         visited>>
      PROVE  \A n \in visited' \ results' :
               Full' /\ \A o \in results' : ~BetterThan(n, o)'
  <2>1. Full' = Full
    BY <1>5 DEF Full, ef, building, Items
  <2>2. \A n, o : BetterThan(n, o)' = BetterThan(n, o)
    BY <1>5 DEF BetterThan, Fit
  <2> QED
    BY <1>5, <2>1, <2>2 DEF SearchInv
<1>6. CASE Pop
  <2>1. PICK c \in candidates :
          /\ candidates' = candidates \ {c}
          /\ IF TooFar(c) THEN todo' = <<>> /\ Searched
                          ELSE todo' = edges[c][l] /\ pc' = "scan"
    BY <1>6 DEF Pop, BestOf
  <2>2. pc = "search" /\ todo = <<>>
        /\ UNCHANGED <<metric, value, query, edges, i, l, limit, results,
                       visited>>
    BY <1>6 DEF Pop, SearchInv, index, ask
  <2>3. CASE TooFar(c)
    <3>1. pc' \in {"link", "emit"}
      BY <2>1, <2>3 DEF Searched
    <3> QED
      BY <3>1 DEF SearchInv
  <2>4. CASE ~TooFar(c)
    <3>1. todo' = edges[c][l] /\ pc' = "scan"
      BY <2>1, <2>4
    <3>2. ASSUME NEW x \in results' \ candidates'
          PROVE  Targets(edges'[x][l']) \subseteq visited' \cup Targets(todo')
      <4>1. CASE x = c
        BY <2>2, <3>1, <4>1
      <4>2. CASE x # c
        <5>1. x \in results \ candidates
          BY <2>1, <2>2, <4>2
        <5>2. Targets(edges[x][l]) \subseteq visited \cup Targets(todo)
          BY <2>2, <5>1 DEF SearchInv
        <5> QED
          BY <1>1, <2>2, <5>2
      <4> QED
        BY <4>1, <4>2
    <3>3. \A n \in visited' \ results' :
            Full' /\ \A o \in results' : ~BetterThan(n, o)'
      BY <1>5, <2>2, <3>1
    <3> QED
      BY <1>2, <3>1, <3>2, <3>3 DEF SearchInv
  <2> QED
    BY <2>3, <2>4
<1>7. CASE Scanned
  <2>1. pc = "scan" /\ pc' = "search" /\ todo = <<>>
        /\ UNCHANGED <<metric, value, query, edges, i, l, limit, results,
                       visited, candidates, todo>>
    BY <1>7 DEF Scanned, index, search, ask
  <2>2. \A n \in visited' \ results' :
          Full' /\ \A o \in results' : ~BetterThan(n, o)'
    BY <1>5, <2>1
  <2>3. \A x \in results \ candidates :
          Targets(edges[x][l]) \subseteq visited \cup Targets(todo)
    BY <2>1 DEF SearchInv
  <2> QED
    BY <1>2, <2>1, <2>2, <2>3 DEF SearchInv
<1>8. CASE pc' \notin {"search", "scan"}
  BY <1>8 DEF SearchInv
<1>9. CASE FirstItem \/ Insert \/ Descend \/ Drained \/ Link \/ ItemDone
           \/ Emit \/ Answered \/ BuildFails \/ SearchFails
  <2>1. pc' \notin {"search", "scan"}
    BY <1>9 DEF FirstItem, Insert, Descend, Drained, Searched, Link, ItemDone,
                NextItem, Emit, Answered, BuildFails, SearchFails
  <2> QED
    BY <1>8, <2>1
<1>10. CASE \E q \in Values, k \in Limits, t \in Thresholds : Search(q, k, t)
  <2>1. pc' \in {"emit", "descend"}
    BY <1>10 DEF Search
  <2> QED
    BY <1>8, <2>1
<1> QED
  BY <1>3, <1>4, <1>6, <1>7, <1>9, <1>10 DEF Next, Steps

-----------------------------------------------------------------------------
(* The answer of a search. *)

(* When the search of a layer stops, everything it keeps that none of the  *)
(* others is better than has been expanded, and its neighbours, kept or    *)
(* dropped, are no better.                                                 *)
LEMMA SearchEnds ==
  ASSUME GraphInv, pc = "search",
         candidates = {} \/ \E c \in BestOf(candidates) : TooFar(c),
         NEW b \in BestOf(results), NEW n \in Targets(edges[b][l])
  PROVE  ~BetterThan(n, b)
<1> USE DEF GraphInv
<1>1. PICK r, t : Ranks(r, t)
  BY RanksExist
<1>2. b \in results /\ \A o \in results : ~BetterThan(o, b)
  BY DEF BestOf
<1>3. results \subseteq visited /\ visited \subseteq Items
      /\ candidates \subseteq visited
  BY DEF PlaceInv, Shape
<1>4. b \notin candidates
  <2> SUFFICES ASSUME b \in candidates PROVE FALSE
    OBVIOUS
  <2>1. PICK c \in BestOf(candidates) : TooFar(c)
    OBVIOUS
  <2>2. c \in candidates /\ ~BetterThan(b, c)
    BY <2>1 DEF BestOf
  <2>3. WorseThan(c, b)
    BY <1>2, <2>1 DEF TooFar
  <2>4. b \in Items /\ c \in Items
    BY <1>2, <1>3, <2>2
  <2> QED
    BY <1>1, <2>2, <2>3, <2>4 DEF Ranks
<1>5. todo = <<>> /\ Targets(<<>>) = {}
  BY TargetsFacts, EmptySeq DEF SearchInv
<1>6. Targets(edges[b][l]) \subseteq visited \cup Targets(todo)
  BY <1>2, <1>4 DEF SearchInv
<1>7. n \in visited
  BY <1>5, <1>6
<1>8. CASE n \in results
  BY <1>2, <1>8
<1>9. CASE n \notin results
  BY <1>2, <1>7, <1>9 DEF SearchInv
<1> QED
  BY <1>8, <1>9

LEMMA NextAnswer ==
  ASSUME GraphInv, Next
  PROVE  AnswerInv'
<1> USE DEF GraphInv
<1>0. l \in Int /\ l >= 0 /\ Items' = Items /\ UNCHANGED <<metric, value>>
  BY Numbers, Fixed
<1>1. ASSUME UNCHANGED <<edges, query>>
      PROVE  /\ \A n, o : BetterThan(n, o)' <=> BetterThan(n, o)
             /\ \A n : Optimal(n)' <=> Optimal(n)
             /\ \A n : Fit(n)' = Fit(n)
             /\ \A ns : BestOf(ns)' = BestOf(ns)
  <2>1. \A n : Fit(n)' = Fit(n)
    BY <1>0, <1>1 DEF Fit
  <2>2. \A n, o : BetterThan(n, o)' <=> BetterThan(n, o)
    BY <1>0, <2>1 DEF BetterThan
  <2>3. \A n : Optimal(n)' <=> Optimal(n)
    BY <1>1, <2>2 DEF Optimal, Targets
  <2>4. \A ns : BestOf(ns)' = BestOf(ns)
    BY <2>2 DEF BestOf
  <2> QED
    BY <2>1, <2>2, <2>3, <2>4
<1>2. ASSUME pc' \notin {"emit", "answered", "failed", "search", "scan"},
             out' = <<>>
      PROVE  AnswerInv'
  BY <1>2 DEF AnswerInv
<1>3. CASE FirstItem \/ Insert \/ ItemDone \/ Descend \/ Link
  <2>1. pc \notin {"emit", "answered", "failed"} /\ out' = out
        /\ pc' \notin {"emit", "answered", "failed", "search", "scan"}
    BY <1>3 DEF FirstItem, Insert, ItemDone, Linked, NextItem, Descend, Link,
                ask
  <2> QED
    BY <1>2, <2>1 DEF AnswerInv
<1>4. CASE StartLayer
  <2>1. pc = "descend" /\ pc' = "search" /\ UNCHANGED <<out, l, i>>
        /\ l <= floor
    BY <1>4 DEF StartLayer, SearchFrom, ask
  <2>2. ~building => l = 0
    BY <1>0, <2>1 DEF floor
  <2> QED
    BY <1>0, <2>1, <2>2 DEF AnswerInv, building
<1>5. CASE NextLayer
  <2>1. pc = "link" /\ pc' = "search" /\ UNCHANGED <<out, i>> /\ building
    BY <1>5 DEF NextLayer, Linked, SearchFrom, BuildInv, ask
  <2> QED
    BY <1>0, <2>1 DEF AnswerInv, building
<1>6. CASE Scan \/ Scanned
  <2>1. pc \in {"search", "scan"} /\ pc' \in {"search", "scan"}
        /\ UNCHANGED <<out, l, i>>
    BY <1>6 DEF Scan, Scanned, ask
  <2> QED
    BY <1>0, <2>1 DEF AnswerInv, building
<1>7. ASSUME pc = "search", Searched, UNCHANGED <<edges, query, out, l, i, results>>,
             candidates = {} \/ \E c \in BestOf(candidates) : TooFar(c)
      PROVE  AnswerInv'
  <2>1. out = <<>>
    BY <1>7 DEF AnswerInv
  <2>2. CASE building
    BY <1>2, <1>7, <2>1, <2>2 DEF Searched
  <2>3. CASE ~building
    <3>1. pc' = "emit" /\ l = 0
      BY <1>7, <2>3 DEF Searched, AnswerInv
    <3>2. \A n \in BestOf(results) : Optimal(n)
      BY <1>7, <3>1, SearchEnds DEF Optimal
    <3>3. \A n \in BestOf(results)' : Optimal(n)'
      <4>1. BestOf(results)' = BestOf(results)
        BY <1>0, <1>7 DEF BestOf, BetterThan, Fit
      <4> QED
        BY <1>1, <1>7, <3>2, <4>1
    <3> QED
      BY <1>7, <2>1, <3>1, <3>3 DEF AnswerInv
  <2> QED
    BY <2>2, <2>3
<1>8. CASE Drained
  BY <1>7, <1>8 DEF Drained, index, search, ask
<1>9. CASE Pop
  <2>1. PICK c \in BestOf(candidates) :
          IF TooFar(c) THEN todo' = <<>> /\ Searched
                       ELSE todo' = edges[c][l] /\ pc' = "scan"
    BY <1>9 DEF Pop
  <2>2. pc = "search" /\ UNCHANGED <<edges, query, out, l, i, results>>
    BY <1>9 DEF Pop, index, ask
  <2>3. CASE TooFar(c)
    BY <1>7, <2>1, <2>2, <2>3
  <2>4. CASE ~TooFar(c)
    BY <1>0, <2>1, <2>2, <2>4 DEF AnswerInv, building
  <2> QED
    BY <2>3, <2>4
<1>10. CASE Emit
  <2>1. PICK b \in BestOf(results) :
          /\ results' = results \ {b}
          /\ out' = IF Accepts(Fit(b)) THEN Append(out, b) ELSE out
    BY <1>10 DEF Emit
  <2>2. pc = "emit" /\ pc' = "emit"
        /\ UNCHANGED <<edges, query, threshold, l, i>>
    BY <1>10 DEF Emit, index
  <2>3. out \in Seq(Items) /\ b \in results /\ b \in Items
        /\ results \subseteq Items
    BY <2>1 DEF Shape, BestOf
  <2>4. CASE out # <<>>
    <3>1. out' # <<>> /\ out'[1] = out[1]
      <4>1. Len(out) \in Nat /\ Len(out) >= 1
        BY <2>3, <2>4, EmptySeq, LenProperties
      <4>2. Append(out, b)[1] = out[1] /\ Append(out, b) # <<>>
        BY <2>3, <4>1, AppendProperties
      <4> QED
        BY <2>1, <2>4, <4>2
    <3>2. Optimal(out[1])
      BY <2>2, <2>4 DEF AnswerInv
    <3>3. Optimal(out[1])'
      BY <1>1, <2>2, <3>1, <3>2 DEF Optimal
    <3> QED
      BY <2>2, <3>1, <3>3 DEF AnswerInv
  <2>5. CASE out = <<>> /\ Accepts(Fit(b))
    <3>1. Optimal(b)
      BY <2>1, <2>2, <2>3, <2>5 DEF AnswerInv
    <3>2. out' = Append(<<>>, b) /\ out'[1] = b /\ out' # <<>>
      BY <2>1, <2>3, <2>5, AppendProperties, EmptySeq
    <3>3. Optimal(out[1])'
      BY <1>0, <2>2, <3>1, <3>2 DEF Optimal, BetterThan, Fit, Targets
    <3> QED
      BY <2>2, <3>2, <3>3 DEF AnswerInv
  <2>6. CASE out = <<>> /\ ~Accepts(Fit(b))
    <3>1. out' = <<>>
      BY <2>1, <2>6
    <3>2. PICK r, t : Ranks(r, t)
      BY RanksExist
    <3>3. \A o \in results : ~Accepts(Fit(o))
      <4> TAKE o \in results
      <4>1. o \in Items /\ ~BetterThan(o, b)
        BY <2>1, <2>3 DEF BestOf
      <4>2. r[o] <= r[b] /\ r[b] < t /\ r[o] \in Int /\ r[b] \in Int /\ t \in Int
        BY <2>3, <2>6, <3>2, <4>1 DEF Ranks
      <4>3. ~(r[o] >= t)
        BY <4>2
      <4> QED
        BY <3>2, <4>1, <4>3 DEF Ranks
    <3>4. \A o \in results' : ~Accepts(Fit(o))'
      BY <1>0, <2>1, <2>2, <3>3 DEF Accepts, Fit
    <3> QED
      BY <2>2, <3>1, <3>4 DEF AnswerInv
  <2> QED
    BY <2>4, <2>5, <2>6
<1>11. CASE Answered
  <2>1. pc = "emit" /\ pc' = "answered" /\ UNCHANGED <<edges, query, out>>
    BY <1>11 DEF Answered, index, ask
  <2>2. Optimal(out[1])' <=> Optimal(out[1])
    BY <1>0, <2>1 DEF Optimal, BetterThan, Fit, Targets
  <2> QED
    BY <2>1, <2>2 DEF AnswerInv
<1>12. CASE BuildFails \/ SearchFails
  <2>1. pc' = "failed"
    BY <1>12 DEF BuildFails, SearchFails
  <2> QED
    BY <2>1 DEF AnswerInv
<1>13. CASE \E q \in Values, k \in Limits, t \in Thresholds : Search(q, k, t)
  <2>1. PICK q \in Values, k \in Limits, t \in Thresholds : Search(q, k, t)
    BY <1>13
  <2>2. out' = <<>> /\ UNCHANGED edges
        /\ (pc' = "descend" \/ (pc' = "emit" /\ results' = Items))
    BY <2>1 DEF Search, AnswerInv, index
  <2>3. CASE pc' = "descend"
    BY <1>2, <2>2, <2>3
  <2>4. CASE pc' = "emit"
    <3>1. results' = Items
      BY <2>2, <2>4
    <3>2. 0 \in Layers
      BY ItemsFacts
    <3>3. ASSUME NEW n \in BestOf(results)', NEW x \in Targets(edges[n][0])'
          PROVE  ~BetterThan(x, n)'
      <4>1. n \in Items /\ \A o \in Items : ~BetterThan(o, n)'
        BY <3>1, <3>3 DEF BestOf
      <4>2. x \in Targets(edges[n][0])
        BY <2>2, <3>3 DEF Targets
      <4>3. x \in Items
        BY <3>2, <4>1, <4>2, TargetOnLayer
      <4> QED
        BY <4>1, <4>3
    <3> QED
      BY <2>2, <2>4, <3>3 DEF AnswerInv, Optimal
  <2> QED
    BY <2>2, <2>3, <2>4
<1> QED
  BY <1>3, <1>4, <1>5, <1>6, <1>8, <1>9, <1>10, <1>11, <1>12, <1>13
     DEF Next, Steps

-----------------------------------------------------------------------------
(* The theorems. *)

LEMMA NextInv ==
  ASSUME GraphInv, [Next]_vars
  PROVE  GraphInv'
<1>1. CASE Next
  BY <1>1, NextShape, NextGood, NextBuild, NextPlace, NextSelf, NextSearch,
     NextAnswer DEF GraphInv
<1>2. CASE UNCHANGED vars
  <2> USE <1>2 DEF vars, index, search, ask, GraphInv
  <2>1. Items' = Items /\ building' = building
    BY DEF Items, building
  <2>2. Shape'
    BY <2>1 DEF Shape
  <2>3. GoodEdges(edges)'
    BY <2>1 DEF GoodEdges, GoodList
  <2>4. BuildInv' /\ EntryInv'
    BY <2>1 DEF BuildInv, EntryInv, Underway
  <2>5. PlaceInv' /\ SelfInv'
    BY <2>1 DEF PlaceInv, SelfInv, Underway, Targets, floor
  <2>6. \A n, o : BetterThan(n, o)' = BetterThan(n, o)
    BY DEF BetterThan, Fit
  <2>7. SearchInv'
    BY <2>1, <2>6 DEF SearchInv, Full, ef, Targets
  <2>8. AnswerInv'
    BY <2>1, <2>6 DEF AnswerInv, BestOf, Optimal, Accepts, Fit, Targets
  <2> QED
    BY <2>2, <2>3, <2>4, <2>5, <2>7, <2>8
<1> QED
  BY <1>1, <1>2

LEMMA SpecInv == Spec => []GraphInv
<1>1. Init => GraphInv
  BY InitInv
<1>2. GraphInv /\ [Next]_vars => GraphInv'
  BY NextInv
<1> QED
  BY <1>1, <1>2, PTL DEF Spec

(* A list without repetitions has as many targets as edges. *)
LEMMA TargetsCounted ==
  ASSUME NEW S, NEW list \in Seq(S),
         \A j, k \in 1..Len(list) : list[j] = list[k] => j = k
  PROVE  Cardinality(Targets(list)) = Len(list)
<1>1. Len(list) \in Nat /\ list \in [1..Len(list) -> S]
  BY LenProperties
<1>2. list \in [1..Len(list) -> Targets(list)]
  BY <1>1 DEF Targets
<1>3. list \in Bijection(1..Len(list), Targets(list))
  <2>1. list \in Injection(1..Len(list), Targets(list))
    BY <1>2 DEF Injection, IsInjective
  <2>2. \A t \in Targets(list) : \E k \in 1..Len(list) : list[k] = t
    BY DEF Targets
  <2>3. list \in Surjection(1..Len(list), Targets(list))
    BY <1>2, <2>2 DEF Surjection
  <2> QED
    BY <2>1, <2>3 DEF Bijection
<1>4. ExistsBijection(1..Len(list), Targets(list))
  BY <1>3 DEF ExistsBijection
<1>5. IsFiniteSet(1..Len(list)) /\ Cardinality(1..Len(list)) = Len(list)
  BY <1>1, FS_Interval
<1> QED
  BY <1>4, <1>5, FS_Bijection

(* Type correctness of kc_hnsw_build and kc_hnsw_search: every index they  *)
(* follow is an item, and every layer one of the MaxLevel + 1.             *)
THEOREM TypeCorrect == Spec => []TypeOK
<1>1. GraphInv => TypeOK
  <2> SUFFICES ASSUME GraphInv PROVE TypeOK
    OBVIOUS
  <2> USE DEF GraphInv
  <2>1. \A n \in Items, y \in Layers : Targets(edges[n][y]) \subseteq Items
    BY Numbers, TargetsFacts
  <2>2. Targets(todo) \subseteq Items /\ Targets(out) \subseteq Items
    BY TargetsFacts DEF Shape
  <2>3. \A n \in Items : value[n] \in Values
    BY ItemsFacts
  <2> QED
    BY <2>1, <2>2, <2>3 DEF Shape, TypeOK
<1> QED
  BY <1>1, SpecInv, PTL

(* No list of neighbours is read or written that the item does not have:   *)
(* edges, descents and candidates stay on layers that their items reach.   *)
THEOREM AccessesInLayers == Spec => []InLayers
<1>1. GraphInv => InLayers
  <2> SUFFICES ASSUME GraphInv PROVE InLayers
    OBVIOUS
  <2> USE DEF GraphInv
  <2>1. \A n \in Items, y \in Layers :
          edges[n][y] # <<>> => y <= level[n] /\
            \A t \in Targets(edges[n][y]) : y <= level[t]
    BY TargetOnLayer DEF GoodEdges, GoodList
  <2>2. pc = "descend" => l <= level[curr]
    BY DEF PlaceInv, Underway
  <2>3. pc \in {"search", "scan"} => \A c \in candidates : l <= level[c]
    BY DEF PlaceInv, Shape
  <2>4. pc = "link" => l <= level[i] /\ \A r \in results : l <= level[r]
    BY DEF PlaceInv, BuildInv, floor
  <2> QED
    BY <2>1, <2>2, <2>3, <2>4 DEF InLayers
<1> QED
  BY <1>1, SpecInv, PTL

(* kc_hnsw_add_edge keeps every list within M edges, 2 M on layer 0, and   *)
(* free of loops and repetitions.                                          *)
THEOREM DegreesBounded == Spec => []Degrees
<1>1. GraphInv => Degrees
  <2> SUFFICES ASSUME GraphInv, NEW n \in Items, NEW y \in Layers
               PROVE  /\ Len(edges[n][y]) <= MaxDegree(y)
                      /\ n \notin Targets(edges[n][y])
                      /\ Cardinality(Targets(edges[n][y])) = Len(edges[n][y])
    BY DEF Degrees
  <2>1. edges[n][y] \in Seq(Items) /\ GoodList(edges[n][y], n, y)
    BY Numbers DEF GraphInv, GoodEdges
  <2>2. n \notin Targets(edges[n][y])
    BY TargetOnLayer
  <2>3. Cardinality(Targets(edges[n][y])) = Len(edges[n][y])
    BY <2>1, TargetsCounted DEF GoodList
  <2> QED
    BY <2>1, <2>2, <2>3 DEF GoodList
<1> QED
  BY <1>1, SpecInv, PTL

(* After each insertion of kc_hnsw_build the entry point lies on the       *)
(* highest layer there is, so that a descent passes every layer.           *)
THEOREM EntryIsOnTop == Spec => []EntryOnTop
<1>1. GraphInv => EntryOnTop
  <2> SUFFICES ASSUME GraphInv, pc \in {"insert", "ready"}, entry # 0
               PROVE  /\ level[entry] = maxLevel
                      /\ \A n \in Inserted : level[n] <= maxLevel
    BY DEF EntryOnTop
  <2> USE DEF GraphInv
  <2>1. level[entry] = maxLevel /\ \A n \in Items : n = i \/ level[n] <= maxLevel
    BY DEF EntryInv
  <2>2. i \in Items => level[i] = -1
    BY DEF BuildInv, building
  <2>3. i \notin Inserted
    BY <2>2 DEF Inserted
  <2> QED
    BY <2>1, <2>3 DEF Inserted
<1> QED
  BY <1>1, SpecInv, PTL

(* What kc_hnsw_search returns first is a local optimum of the graph: none *)
(* of its neighbours on layer 0 answers the query better, whatever the     *)
(* graph, the query and the size of the search.                            *)
THEOREM AnswerIsLocalOptimum == Spec => []LocalOptimum
<1>1. GraphInv => LocalOptimum
  BY DEF GraphInv, AnswerInv, Optimal, LocalOptimum
<1> QED
  BY <1>1, SpecInv, PTL

=============================================================================
