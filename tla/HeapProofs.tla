----------------------------- MODULE HeapProofs -----------------------------
(***************************************************************************)
(* The array heaps are priority queues, for every set of nodes, every      *)
(* score and every size.                                                   *)
(*                                                                         *)
(* Priority compares scores one way or the other, by metric and kind of    *)
(* heap.  The proofs replace it by a rank that is greater for the node     *)
(* that comes first, so that the order of the heap is arithmetic.          *)
(***************************************************************************)
EXTENDS Heap, WellFoundedInduction, TLAPS

Ranks(r) ==
  /\ r \in [Nodes -> Int]
  /\ \A m, n \in Nodes : Priority(m, n) <=> r[m] > r[n]

(* HeapOrdered by rank. *)
OrderedBy(r) ==
  /\ \A k \in Used \ {0} :
       pc = "idle" \/ i \notin {k, Parent(k)} =>
         r[data[k]] <= r[data[Parent(k)]]
  /\ \A k \in Used \ {0} :
       pc # "idle" /\ Parent(k) = i =>
         /\ i > 0 => r[data[k]] <= r[data[Parent(i)]]
         /\ pc = "up" => r[data[k]] <= r[item]
  /\ pc = "down" /\ i > 0 => r[item] <= r[data[Parent(i)]]

(* What a call under way holds in its hands, and where its hole is. *)
CallInv ==
  /\ capacity >= 1
  /\ pc # "idle" => item \in Nodes
  /\ pc = "down" => i < size \/ (size = 0 /\ i = 0)

(* No node is in the heap twice. *)
Distinct ==
  /\ \A j, k \in Used :
       (pc = "idle" \/ i \notin {j, k}) /\ data[j] = data[k] => j = k
  /\ pc # "idle" => \A k \in Used \ {i} : data[k] # item

(* The inductive invariant. *)
HeapInv == TypeOK /\ CallInv /\ Distinct /\ HeapOrdered

-----------------------------------------------------------------------------
(* Places in the array. *)

LEMMA ParentFacts ==
  ASSUME NEW k \in Nat, k > 0
  PROVE  /\ Parent(k) \in Nat /\ Parent(k) < k
         /\ k = 2 * Parent(k) + 1 \/ k = 2 * Parent(k) + 2
BY SMT DEF Parent

LEMMA ChildFacts ==
  ASSUME NEW k \in Nat
  PROVE  Parent(2 * k + 1) = k /\ Parent(2 * k + 2) = k
BY SMT DEF Parent

(* A nonempty set of naturals has a least element. *)
LEMMA LeastSlot ==
  ASSUME NEW T, T \subseteq Nat, T # {}
  PROVE  \E x \in T : \A y \in T : x <= y
<1> DEFINE R == {ss \in Nat \X Nat : ss[1] < ss[2]}
<1>1. IsWellFoundedOn(R, Nat)
  BY NatLessThanWellFounded, Zenon DEF OpToRel
<1> HIDE DEF R
<1>2. PICK x \in T : \A y \in T : ~(<<y, x>> \in R)
  BY <1>1, WFMin
<1>3. \A y \in T : ~(y < x)
  BY <1>2 DEF R
<1> QED
  BY <1>2, <1>3

-----------------------------------------------------------------------------
(* Ranks. *)

LEMMA RankExists ==
  ASSUME TypeOK
  PROVE  \E r : Ranks(r)
<1> DEFINE up == worstFirst <=> metric = "l2"
           r  == [n \in Nodes |-> IF up THEN Score[n] ELSE -Score[n]]
<1>1. r \in [Nodes -> Int]
  BY ScoreAssumption
<1>2. ASSUME NEW m \in Nodes, NEW n \in Nodes
      PROVE  Priority(m, n) <=> r[m] > r[n]
  <2>1. Score[m] \in Int /\ Score[n] \in Int
    BY ScoreAssumption
  <2>2. worstFirst \in BOOLEAN
    BY DEF TypeOK
  <2> QED
    BY <2>1, <2>2 DEF Priority, Better, Worse
<1> QED
  BY <1>1, <1>2 DEF Ranks

LEMMA RankKept ==
  ASSUME NEW r, Ranks(r), UNCHANGED kind
  PROVE  Ranks(r)'
BY DEF Ranks, kind, Priority

(* The nodes that HeapOrdered speaks of are there. *)
LEMMA Filled ==
  ASSUME TypeOK, CallInv
  PROVE  /\ size \in Nat /\ size <= MaxSize /\ Used \subseteq Slots
         /\ \A k \in Used : data[k] \in Nodes \/ (pc = "up" /\ k = i)
         /\ \A k \in Used \ {0} : Parent(k) \in Used
         /\ i \in Nat /\ (size > 0 /\ pc # "idle" => i \in Used)
<1>1. size \in Nat /\ size <= MaxSize /\ Used \subseteq Slots
  BY SizeAssumption DEF TypeOK, Used, Slots
<1>2. \A k \in Used : data[k] \in Nodes \/ (pc = "up" /\ k = i)
  BY <1>1 DEF TypeOK, Used, Slots
<1>3. \A k \in Used \ {0} : Parent(k) \in Used
  BY <1>1, ParentFacts DEF Used
<1>4. i \in Nat /\ (size > 0 /\ pc # "idle" => i \in Used)
  BY <1>1 DEF TypeOK, CallInv, Used, Slots
<1> QED
  BY <1>1, <1>2, <1>3, <1>4

LEMMA OrderIsByRank ==
  ASSUME TypeOK, CallInv, NEW r, Ranks(r)
  PROVE  HeapOrdered <=> OrderedBy(r)
<1>1. \A m, n \in Nodes : ~Priority(m, n) <=> r[m] <= r[n]
  BY DEF Ranks
<1>2. \A k \in Used \ {0} :
        pc = "idle" \/ i \notin {k, Parent(k)} =>
          data[k] \in Nodes /\ data[Parent(k)] \in Nodes
  BY Filled DEF TypeOK
<1>3. pc # "idle" /\ i > 0 /\ i \in Used => data[Parent(i)] \in Nodes
  <2> HAVE pc # "idle" /\ i > 0 /\ i \in Used
  <2>1. Parent(i) \in Used /\ Parent(i) # i
    BY Filled, ParentFacts
  <2> QED
    BY Filled, <2>1
<1>4. \A k \in Used \ {0} : Parent(k) = i => data[k] \in Nodes /\ i \in Used
  <2> TAKE k \in Used \ {0}
  <2> HAVE Parent(k) = i
  <2>1. k # i
    BY Filled, ParentFacts DEF Used
  <2> QED
    BY Filled, <2>1
<1>5. pc = "down" /\ i > 0 => i \in Used
  BY Filled DEF CallInv
<1>6. pc # "idle" => item \in Nodes
  BY DEF CallInv
<1>7. ASSUME NEW k \in Used \ {0}
      PROVE  (pc = "idle" \/ i \notin {k, Parent(k)} =>
                ~Priority(data[k], data[Parent(k)]))
        <=>  (pc = "idle" \/ i \notin {k, Parent(k)} =>
                r[data[k]] <= r[data[Parent(k)]])
  BY <1>1, <1>2
<1>8. ASSUME NEW k \in Used \ {0}
      PROVE  (pc # "idle" /\ Parent(k) = i =>
               /\ i > 0 => ~Priority(data[k], data[Parent(i)])
               /\ pc = "up" => ~Priority(data[k], item))
        <=>  (pc # "idle" /\ Parent(k) = i =>
               /\ i > 0 => r[data[k]] <= r[data[Parent(i)]]
               /\ pc = "up" => r[data[k]] <= r[item])
  BY <1>1, <1>3, <1>4, <1>6
<1>9. (pc = "down" /\ i > 0 => ~Priority(item, data[Parent(i)]))
        <=> (pc = "down" /\ i > 0 => r[item] <= r[data[Parent(i)]])
  BY <1>1, <1>3, <1>5, <1>6
<1> QED
  BY <1>7, <1>8, <1>9 DEF HeapOrdered, OrderedBy

LEMMA OrderIsByRankNext ==
  ASSUME NEW CONSTANT r
  PROVE  (TypeOK /\ CallInv /\ Ranks(r) => (HeapOrdered <=> OrderedBy(r)))'
<1>1. TypeOK /\ CallInv /\ Ranks(r) => (HeapOrdered <=> OrderedBy(r))
  BY OrderIsByRank
<1> QED
  BY <1>1, PTL

-----------------------------------------------------------------------------
(* Type correctness and the hole. *)

LEMMA InitInv ==
  ASSUME Init
  PROVE  HeapInv
<1>1. 0 \in Slots /\ Used = {}
  BY SizeAssumption DEF Init, Slots, Used
<1>2. TypeOK
  BY <1>1, SizeAssumption DEF Init, TypeOK, Slots
<1>3. CallInv
  BY SizeAssumption DEF Init, CallInv
<1>4. Distinct /\ HeapOrdered
  BY <1>1 DEF Init, Distinct, HeapOrdered
<1> QED
  BY <1>2, <1>3, <1>4 DEF HeapInv

(* The child chosen by a pop is a child, and none of the two comes before  *)
(* it.                                                                     *)
LEMMA ChosenChild ==
  ASSUME TypeOK, CallInv, NEW r, Ranks(r), pc = "down", 2 * i + 1 < size
  PROVE  /\ Child(i) \in Used /\ Child(i) # 0 /\ Child(i) # i
         /\ Parent(Child(i)) = i /\ data[Child(i)] \in Nodes
         /\ \A k \in Used \ {0} :
              Parent(k) = i => r[data[k]] <= r[data[Child(i)]]
<1> DEFINE c == 2 * i + 1
<1>1. i \in Nat /\ size \in Nat
  BY Filled
<1>2. c \in Used /\ data[c] \in Nodes
  BY <1>1, Filled DEF Used
<1>3. c + 1 < size => c + 1 \in Used /\ data[c + 1] \in Nodes
  BY <1>1, Filled DEF Used
<1>4. Parent(c) = i /\ Parent(c + 1) = i
  <2>1. c + 1 = 2 * i + 2
    BY <1>1
  <2> QED
    BY <1>1, <2>1, ChildFacts
<1>5. Child(i) \in {c, c + 1} /\ (Child(i) = c + 1 => c + 1 < size)
  BY DEF Child
<1>6. ASSUME NEW k \in Used \ {0}, Parent(k) = i
      PROVE  r[data[k]] <= r[data[Child(i)]]
  <2>1. k = c \/ (k = c + 1 /\ c + 1 < size)
    BY <1>1, <1>6, ParentFacts DEF Used
  <2>2. r[data[c]] \in Int /\ (c + 1 < size => r[data[c + 1]] \in Int)
    BY <1>2, <1>3 DEF Ranks
  <2>3. c + 1 < size =>
          (Priority(data[c + 1], data[c]) <=> r[data[c + 1]] > r[data[c]])
    BY <1>2, <1>3 DEF Ranks
  <2>4. CASE c + 1 < size /\ Priority(data[c + 1], data[c])
    <3>1. Child(i) = c + 1
      BY <2>4 DEF Child
    <3> QED
      BY <2>1, <2>2, <2>3, <2>4, <3>1
  <2>5. CASE ~(c + 1 < size /\ Priority(data[c + 1], data[c]))
    <3>1. Child(i) = c
      BY <2>5 DEF Child
    <3> QED
      BY <2>1, <2>2, <2>3, <2>5, <3>1
  <2> QED
    BY <2>4, <2>5
<1> QED
  BY <1>1, <1>2, <1>3, <1>4, <1>5, <1>6

LEMMA NextType ==
  ASSUME TypeOK, CallInv, Next
  PROVE  TypeOK' /\ CallInv'
<1> USE SizeAssumption, NodeAssumption
<1>0. /\ size \in Nat /\ capacity \in Nat /\ MaxSize \in Nat
      /\ size <= capacity /\ size <= MaxSize /\ i \in Nat /\ i < MaxSize
  BY DEF TypeOK, Slots
<1>1. ASSUME NEW n \in Nodes, Push(n) PROVE TypeOK' /\ CallInv'
  <2>1. capacity' \in Nat /\ size' \in 0..capacity' /\ capacity' >= 1
    BY <1>0, <1>1 DEF Push, CallInv
  <2>2. i' \in Slots /\ i' < size' /\ size' <= MaxSize
    BY <1>0, <1>1 DEF Push, Slots
  <2>3. \A k \in Slots : data'[k] = NoNode =>
                           k >= size' \/ (pc' = "up" /\ k = i')
    BY <1>0, <1>1 DEF Push, TypeOK, Slots
  <2> QED
    BY <1>1, <2>1, <2>2, <2>3 DEF Push, TypeOK, CallInv, kind
<1>2. ASSUME SiftUp PROVE TypeOK' /\ CallInv'
  <2> DEFINE p == Parent(i)
  <2>1. pc = "up" /\ i > 0 /\ p \in Nat /\ p < i /\ i < size
    BY <1>0, <1>2, ParentFacts DEF SiftUp, Rises, TypeOK
  <2>2. p \in Slots /\ data[p] \in Nodes /\ i \in Slots
    BY <1>0, <2>1 DEF TypeOK, Slots
  <2>3. data' = [data EXCEPT ![i] = data[p]] /\ i' = p
    BY <1>2 DEF SiftUp
  <2> HIDE DEF p
  <2>4. data' \in [Slots -> Nodes \cup {NoNode}]
    BY <2>2, <2>3 DEF TypeOK
  <2>5. \A k \in Slots : data'[k] = NoNode => k >= size
    BY <2>1, <2>2, <2>3 DEF TypeOK
  <2>6. i' \in Slots /\ i' < size
    BY <1>0, <2>1, <2>2, <2>3
  <2> QED
    BY <1>2, <2>4, <2>5, <2>6, <2>1 DEF SiftUp, TypeOK, CallInv, kind
<1>3. ASSUME Pop PROVE TypeOK' /\ CallInv'
  <2>1. size - 1 \in Slots /\ 0 \in Slots
    BY <1>0, <1>3 DEF Pop, Slots
  <2>2. data[0] \in Nodes /\ data[size - 1] \in Nodes
    BY <1>0, <1>3, <2>1 DEF Pop, TypeOK
  <2>3. data' \in [Slots -> Nodes \cup {NoNode}]
    BY <1>3, <2>1 DEF Pop, TypeOK
  <2>4. \A k \in Slots : data'[k] = NoNode => k >= size'
    BY <1>0, <1>3, <2>1 DEF Pop, TypeOK, Slots
  <2>5. size' \in 0..capacity' /\ size' <= MaxSize
    BY <1>0, <1>3 DEF Pop
  <2>6. i' = 0 /\ (i' < size' \/ (size' = 0 /\ i' = 0))
    BY <1>0, <1>3 DEF Pop
  <2> QED
    BY <1>3, <2>1, <2>2, <2>3, <2>4, <2>5, <2>6
       DEF Pop, TypeOK, CallInv, kind
<1>4. ASSUME SiftDown PROVE TypeOK' /\ CallInv'
  <2> DEFINE c == Child(i)
  <2>1. pc = "down" /\ 2 * i + 1 < size
    BY <1>4 DEF SiftDown, Sinks
  <2>2. c \in Used /\ data[c] \in Nodes
    BY <2>1, RankExists, ChosenChild
  <2>3. c \in Slots /\ c < size /\ i \in Slots
    BY <1>0, <2>2 DEF Used, Slots, TypeOK
  <2>4. data' = [data EXCEPT ![i] = data[c]] /\ i' = c
    BY <1>4 DEF SiftDown
  <2> HIDE DEF c
  <2>5. data' \in [Slots -> Nodes \cup {NoNode}]
    BY <2>2, <2>3, <2>4 DEF TypeOK
  <2>6. \A k \in Slots : data'[k] = NoNode => k >= size
    BY <2>1, <2>2, <2>3, <2>4 DEF TypeOK
  <2> QED
    BY <1>4, <2>1, <2>3, <2>4, <2>5, <2>6 DEF SiftDown, TypeOK, CallInv, kind
<1>5. ASSUME Settle PROVE TypeOK' /\ CallInv'
  <2>1. item \in Nodes /\ pc \in {"up", "down"}
    BY <1>5 DEF Settle, TypeOK, CallInv
  <2>2. 0 \in Slots
    BY <1>0 DEF Slots
  <2>3. data' \in [Slots -> Nodes \cup {NoNode}]
    BY <1>5, <2>1 DEF Settle, TypeOK
  <2>4. \A k \in Slots : data'[k] = NoNode => k >= size
    <3>1. CASE size = 0
      BY <1>0, <3>1 DEF Slots
    <3>2. CASE size # 0
      BY <1>5, <2>1, <3>2 DEF Settle, TypeOK
    <3> QED
      BY <3>1, <3>2
  <2> QED
    BY <1>5, <2>2, <2>3, <2>4 DEF Settle, TypeOK, CallInv, kind
<1> QED
  BY <1>1, <1>2, <1>3, <1>4, <1>5 DEF Next

-----------------------------------------------------------------------------
(* No step breaks the order. *)

LEMMA NextOrder ==
  ASSUME TypeOK, CallInv, Next, NEW r, Ranks(r), OrderedBy(r)
  PROVE  OrderedBy(r)'
<1>0. /\ size \in Nat /\ i \in Nat /\ size <= MaxSize /\ Used \subseteq Slots
      /\ \A k \in Used \ {0} : Parent(k) \in Used /\ Parent(k) < k
  BY Filled, ParentFacts DEF Used
<1>1. \A k \in Used : k \in Nat /\ k < size
  BY <1>0 DEF Used
<1>2. \A k \in Nat : k < size => k \in Used
  BY <1>0 DEF Used
<1>3. ASSUME NEW n \in Nodes, Push(n) PROVE OrderedBy(r)'
  <2>1. pc = "idle" /\ pc' = "up" /\ i' = size /\ data' = data
        /\ size' = size + 1
    BY <1>3 DEF Push
  <2>2. ASSUME NEW k \in Used' \ {0}
        PROVE  /\ k \in Nat /\ Parent(k) < k /\ k <= size
               /\ k # size => k \in Used \ {0}
    BY <1>0, <2>1, ParentFacts DEF Used
  <2>3. ASSUME NEW k \in Used' \ {0}, size \notin {k, Parent(k)}
        PROVE  r[data[k]] <= r[data[Parent(k)]]
    BY <2>1, <2>2, <2>3 DEF OrderedBy
  <2>4. ASSUME NEW k \in Used' \ {0} PROVE Parent(k) # size
    <3>1. Parent(k) \in Nat
      BY <2>2, ParentFacts DEF Used
    <3> QED
      BY <1>0, <2>2, <3>1
  <2> QED
    BY <2>1, <2>3, <2>4 DEF OrderedBy
<1>4. ASSUME SiftUp PROVE OrderedBy(r)'
  <2> DEFINE p == Parent(i)
  <2>1. pc = "up" /\ i > 0 /\ Priority(item, data[p]) /\ i < size
        /\ data' = [data EXCEPT ![i] = data[p]] /\ i' = p /\ size' = size
        /\ pc' = "up" /\ item' = item
    BY <1>4 DEF SiftUp, Rises, TypeOK
  <2>2. i \in Used \ {0} /\ p \in Used /\ p < i /\ p \in Nat
    BY <1>0, <1>1, <1>2, <2>1
  <2>3. /\ \A k \in Used : data'[k] = IF k = i THEN data[p] ELSE data[k]
        /\ \A k \in Used \ {i} : data[k] \in Nodes /\ r[data[k]] \in Int
        /\ item \in Nodes /\ r[item] \in Int
    BY <1>0, <2>1, Filled DEF TypeOK, CallInv, Ranks
  <2>4. r[item] > r[data[p]] /\ r[data[p]] \in Int
    BY <2>1, <2>2, <2>3 DEF Ranks
  <2>5. Used' = Used
    BY <2>1 DEF Used
  <2> HIDE DEF p
  <2>6. ASSUME NEW k \in Used \ {0}, p \notin {k, Parent(k)}
        PROVE  r[data'[k]] <= r[data'[Parent(k)]]
    <3>1. k # i
      BY <2>6 DEF p
    <3>2. Parent(k) \in Used
      BY <1>0
    <3>3. CASE Parent(k) = i
      BY <2>1, <2>3, <3>1, <3>2, <3>3 DEF OrderedBy, p
    <3>4. CASE Parent(k) # i
      BY <2>1, <2>3, <3>1, <3>2, <3>4 DEF OrderedBy
    <3> QED
      BY <3>3, <3>4
  <2>7. p > 0 => r[data[p]] <= r[data[Parent(p)]] /\ Parent(p) \in Used
                 /\ Parent(p) < p
    <3> HAVE p > 0
    <3>1. p \in Used \ {0} /\ Parent(p) < p /\ Parent(p) \in Used
      BY <1>0, <2>2
    <3>2. i \notin {p, Parent(p)}
      BY <1>1, <2>2, <3>1
    <3> QED
      BY <3>1, <3>2 DEF OrderedBy
  <2>8. ASSUME NEW k \in Used \ {0}, Parent(k) = p
        PROVE  /\ p > 0 => r[data'[k]] <= r[data'[Parent(p)]]
               /\ r[data'[k]] <= r[item]
    <3>1. r[data'[k]] <= r[data[p]] /\ r[data'[k]] \in Int
      <4>1. CASE k = i
        BY <2>3, <2>4, <4>1
      <4>2. CASE k # i
        <5>1. i \notin {k, Parent(k)}
          BY <2>2, <2>8, <4>2
        <5> QED
          BY <2>3, <2>8, <4>2, <5>1 DEF OrderedBy
      <4> QED
        BY <4>1, <4>2
    <3>2. p > 0 => data'[Parent(p)] = data[Parent(p)]
                   /\ r[data[Parent(p)]] \in Int
      <4> HAVE p > 0
      <4>1. Parent(p) # i /\ Parent(p) \in Used
        BY <1>1, <2>2, <2>7
      <4> QED
        BY <2>3, <4>1
    <3> QED
      BY <2>3, <2>4, <2>7, <3>1, <3>2
  <2> QED
    BY <2>1, <2>5, <2>6, <2>8 DEF OrderedBy
<1>5. ASSUME Pop PROVE OrderedBy(r)'
  <2>1. pc = "idle" /\ pc' = "down" /\ i' = 0 /\ size' = size - 1 /\ size > 0
        /\ data' = [data EXCEPT ![size - 1] = NoNode]
    BY <1>5 DEF Pop
  <2>2. ASSUME NEW k \in Used' \ {0}
        PROVE  /\ k \in Used \ {0} /\ data'[k] = data[k]
               /\ data'[Parent(k)] = data[Parent(k)]
    <3>1. k \in Used \ {0} /\ k < size - 1
      BY <1>0, <2>1 DEF Used
    <3>2. Parent(k) \in Used /\ Parent(k) < size - 1
      BY <1>0, <1>1, <3>1
    <3> QED
      BY <1>0, <2>1, <3>1, <3>2 DEF TypeOK
  <2>3. ASSUME NEW k \in Used' \ {0}
        PROVE  r[data'[k]] <= r[data'[Parent(k)]]
    BY <2>1, <2>2 DEF OrderedBy
  <2> QED
    BY <2>1, <2>3 DEF OrderedBy
<1>6. ASSUME SiftDown PROVE OrderedBy(r)'
  <2> DEFINE c == Child(i)
  <2>1. pc = "down" /\ 2 * i + 1 < size /\ Priority(data[c], item)
        /\ data' = [data EXCEPT ![i] = data[c]] /\ i' = c /\ size' = size
        /\ pc' = "down" /\ item' = item
    BY <1>6 DEF SiftDown, Sinks
  <2>2. /\ c \in Used \ {0} /\ Parent(c) = i /\ data[c] \in Nodes
        /\ \A k \in Used \ {0} : Parent(k) = i => r[data[k]] <= r[data[c]]
    BY <2>1, ChosenChild
  <2>3. i < c /\ i \in Used /\ c \in Nat
    BY <1>0, <1>1, <2>2
  <2>4. /\ \A k \in Used : data'[k] = IF k = i THEN data[c] ELSE data[k]
        /\ \A k \in Used : data[k] \in Nodes /\ r[data[k]] \in Int
        /\ item \in Nodes /\ r[item] \in Int
    BY <1>0, <2>1, Filled DEF TypeOK, CallInv, Ranks
  <2>5. r[data[c]] > r[item]
    BY <2>1, <2>2, <2>4 DEF Ranks
  <2>6. Used' = Used
    BY <2>1 DEF Used
  <2> HIDE DEF c
  <2>7. ASSUME NEW k \in Used \ {0}, c \notin {k, Parent(k)}
        PROVE  r[data'[k]] <= r[data'[Parent(k)]]
    <3>1. Parent(k) \in Used /\ Parent(k) # k
      BY <1>0, <1>1
    <3>2. CASE k = i
      <4>1. r[data[c]] <= r[data[Parent(i)]]
        BY <1>1, <2>1, <2>2, <3>2 DEF OrderedBy
      <4> QED
        BY <2>4, <3>1, <3>2, <4>1
    <3>3. CASE Parent(k) = i
      BY <2>2, <2>4, <3>1, <3>3
    <3>4. CASE i \notin {k, Parent(k)}
      BY <2>4, <3>1, <3>4 DEF OrderedBy
    <3> QED
      BY <3>2, <3>3, <3>4
  <2>8. ASSUME NEW k \in Used \ {0}, Parent(k) = c
        PROVE  r[data'[k]] <= r[data'[Parent(c)]]
    <3>1. c < k /\ k # i /\ c # i
      BY <1>0, <1>1, <2>3, <2>8
    <3>2. r[data[k]] <= r[data[c]]
      BY <2>8, <3>1 DEF OrderedBy
    <3> QED
      BY <2>2, <2>3, <2>4, <3>1, <3>2
  <2>9. r[item] <= r[data'[Parent(c)]]
    BY <2>2, <2>3, <2>4, <2>5
  <2> QED
    BY <2>1, <2>6, <2>7, <2>8, <2>9 DEF OrderedBy
<1>7. ASSUME Settle PROVE OrderedBy(r)'
  <2>1. pc # "idle" /\ pc' = "idle" /\ size' = size /\ ~Rises /\ ~Sinks
    BY <1>7 DEF Settle
  <2>2. Used' = Used
    BY <2>1 DEF Used
  <2>3. CASE size = 0
    BY <2>1, <2>2, <2>3, <1>1 DEF OrderedBy
  <2>4. CASE size # 0
    <3>1. i \in Used /\ data' = [data EXCEPT ![i] = item]
      BY <1>7, <1>0, <2>1, <2>4, Filled DEF Settle
    <3>2. /\ \A k \in Used : data'[k] = IF k = i THEN item ELSE data[k]
          /\ \A k \in Used \ {i} : data[k] \in Nodes /\ r[data[k]] \in Int
          /\ item \in Nodes /\ r[item] \in Int
      BY <1>0, <2>1, <3>1, Filled DEF TypeOK, CallInv, Ranks
    <3>3. pc = "up" \/ pc = "down"
      BY <2>1 DEF TypeOK
    <3>4. i > 0 => r[item] <= r[data[Parent(i)]]
      <4> HAVE i > 0
      <4>1. Parent(i) \in Used \ {i}
        BY <1>0, <1>1, <3>1
      <4>2. CASE pc = "up"
        <5>1. ~Priority(item, data[Parent(i)])
          BY <2>1, <4>2 DEF Rises
        <5> QED
          BY <3>2, <4>1, <5>1 DEF Ranks
      <4>3. CASE pc = "down"
        BY <4>3 DEF OrderedBy
      <4> QED
        BY <3>3, <4>2, <4>3
    <3>5. ASSUME NEW k \in Used \ {0}, Parent(k) = i
          PROVE  r[data[k]] <= r[item] /\ k # i
      <4>0. k # i /\ k \in Nat /\ k < size
        BY <1>0, <1>1, <3>5
      <4>1. CASE pc = "up"
        BY <3>5, <4>0, <4>1 DEF OrderedBy
      <4>2. CASE pc = "down"
        <5>1. 2 * i + 1 < size
          BY <1>0, <3>5, <4>0, ParentFacts
        <5>2. ~Priority(data[Child(i)], item)
          BY <2>1, <4>2, <5>1 DEF Sinks
        <5>3. data[Child(i)] \in Nodes /\ r[data[k]] <= r[data[Child(i)]]
          BY <3>5, <4>2, <5>1, ChosenChild
        <5>4. r[data[Child(i)]] \in Int /\ r[data[Child(i)]] <= r[item]
          BY <3>2, <5>2, <5>3 DEF Ranks
        <5> QED
          BY <3>2, <4>0, <5>3, <5>4
      <4> QED
        BY <3>3, <4>1, <4>2
    <3>6. ASSUME NEW k \in Used \ {0}
          PROVE  r[data'[k]] <= r[data'[Parent(k)]]
      <4>1. Parent(k) \in Used /\ Parent(k) # k
        BY <1>0, <1>1
      <4>2. CASE k = i
        <5>1. i > 0
          BY <1>1, <4>2
        <5> QED
          BY <3>2, <3>4, <4>1, <4>2, <5>1
      <4>3. CASE Parent(k) = i
        BY <3>2, <3>5, <4>1, <4>3
      <4>4. CASE i \notin {k, Parent(k)}
        BY <3>2, <4>1, <4>4 DEF OrderedBy
      <4> QED
        BY <4>2, <4>3, <4>4
    <3> QED
      BY <2>1, <2>2, <3>6 DEF OrderedBy
  <2> QED
    BY <2>3, <2>4
<1> QED
  BY <1>3, <1>4, <1>5, <1>6, <1>7 DEF Next

-----------------------------------------------------------------------------
(* What is in the heap: a push adds its node, a pop takes the root and the *)
(* loops change nothing.                                                   *)

LEMMA InsideNext ==
  ASSUME TypeOK, CallInv, Distinct, Next
  PROVE  /\ Distinct'
         /\ \/ \E n \in Nodes : Push(n) /\ n \notin inside
                                /\ inside' = inside \cup {n}
            \/ Pop /\ data[0] \in inside /\ inside' = inside \ {data[0]}
            \/ UNCHANGED <<inside, top>>
<1>0. /\ size \in Nat /\ i \in Nat /\ Used \subseteq Slots
      /\ \A k \in Used : data[k] \in Nodes \/ (pc = "up" /\ k = i)
      /\ size > 0 /\ pc # "idle" => i \in Used
  BY Filled
<1>1. ASSUME NEW n \in Nodes, Push(n)
      PROVE  /\ Distinct' /\ n \notin inside
             /\ inside' = inside \cup {n}
  <2>1. pc = "idle" /\ pc' = "up" /\ i' = size /\ data' = data /\ item' = n
        /\ size' = size + 1 /\ n \notin inside
    BY <1>1 DEF Push
  <2>2. Used' \ {i'} = Used /\ size' # 0
    BY <1>0, <2>1 DEF Used
  <2>3. inside = {data[k] : k \in Used}
    BY <2>1 DEF inside
  <2>4. inside' = {data[k] : k \in Used} \cup {n}
    BY <2>1, <2>2 DEF inside
  <2>5. Distinct'
    BY <2>1, <2>2, <2>3 DEF Distinct
  <2> QED
    BY <2>1, <2>3, <2>4, <2>5
<1>2. ASSUME SiftUp PROVE Distinct' /\ UNCHANGED <<inside, top>>
  <2> DEFINE p == Parent(i)
  <2>1. pc = "up" /\ i > 0 /\ i < size
        /\ data' = [data EXCEPT ![i] = data[p]] /\ i' = p /\ size' = size
        /\ pc' = "up" /\ item' = item /\ top' = top
    BY <1>2 DEF SiftUp, Rises, TypeOK
  <2>2. i \in Used /\ p \in Used /\ p # i
    BY <1>0, <2>1, ParentFacts DEF Used
  <2>3. \A k \in Used : data'[k] = IF k = i THEN data[p] ELSE data[k]
    BY <1>0, <2>1 DEF TypeOK
  <2>4. Used' = Used /\ size # 0
    BY <1>0, <2>1 DEF Used
  <2> HIDE DEF p
  <2>5. Distinct'
    BY <2>1, <2>2, <2>3, <2>4 DEF Distinct
  <2>6. {data'[k] : k \in Used \ {p}} = {data[k] : k \in Used \ {i}}
    BY <2>2, <2>3
  <2>7. inside' = inside
    BY <2>1, <2>4, <2>6 DEF inside
  <2> QED
    BY <2>1, <2>5, <2>7
<1>3. ASSUME Pop
      PROVE  /\ Distinct' /\ data[0] \in inside
             /\ inside' = inside \ {data[0]}
  <2>1. pc = "idle" /\ pc' = "down" /\ i' = 0 /\ size' = size - 1 /\ size > 0
        /\ data' = [data EXCEPT ![size - 1] = NoNode]
        /\ item' = data[size - 1]
    BY <1>3 DEF Pop
  <2>2. 0 \in Used /\ size - 1 \in Used /\ Used' = Used \ {size - 1}
    BY <1>0, <2>1 DEF Used
  <2>3. \A k \in Used' : data'[k] = data[k]
    BY <1>0, <2>1, <2>2 DEF TypeOK
  <2>4. \A j, k \in Used : data[j] = data[k] => j = k
    BY <2>1 DEF Distinct
  <2>5. Distinct'
    BY <2>1, <2>2, <2>3, <2>4 DEF Distinct
  <2>6. inside = {data[k] : k \in Used}
    BY <2>1 DEF inside
  <2>7. CASE size = 1
    <3>1. Used = {0} /\ Used' = {}
      BY <2>1, <2>7 DEF Used
    <3>2. inside' = {data'[k] : k \in Used'}
      BY <2>1, <2>7 DEF inside
    <3> QED
      BY <2>5, <2>6, <3>1, <3>2
  <2>8. CASE size # 1
    <3>1. inside' = {data'[k] : k \in Used' \ {0}} \cup {data[size - 1]}
      BY <1>0, <2>1, <2>8 DEF inside
    <3>2. size - 1 # 0
      BY <1>0, <2>8
    <3>3. {data'[k] : k \in Used' \ {0}} \cup {data[size - 1]}
            = {data[k] : k \in Used \ {0}}
      BY <2>2, <2>3, <3>2
    <3>4. {data[k] : k \in Used \ {0}} = {data[k] : k \in Used} \ {data[0]}
      BY <2>2, <2>4
    <3> QED
      BY <2>2, <2>5, <2>6, <3>1, <3>3, <3>4
  <2> QED
    BY <2>7, <2>8
<1>4. ASSUME SiftDown PROVE Distinct' /\ UNCHANGED <<inside, top>>
  <2> DEFINE c == Child(i)
  <2>1. pc = "down" /\ 2 * i + 1 < size
        /\ data' = [data EXCEPT ![i] = data[c]] /\ i' = c /\ size' = size
        /\ pc' = "down" /\ item' = item /\ top' = top
    BY <1>4 DEF SiftDown, Sinks
  <2>2. i \in Used /\ c \in Used /\ c # i
    BY <1>0, <2>1, RankExists, ChosenChild
  <2>3. \A k \in Used : data'[k] = IF k = i THEN data[c] ELSE data[k]
    BY <1>0, <2>1 DEF TypeOK
  <2>4. Used' = Used /\ size # 0
    BY <1>0, <2>1 DEF Used
  <2> HIDE DEF c
  <2>5. Distinct'
    BY <2>1, <2>2, <2>3, <2>4 DEF Distinct
  <2>6. {data'[k] : k \in Used \ {c}} = {data[k] : k \in Used \ {i}}
    BY <2>2, <2>3
  <2>7. inside' = inside
    BY <2>1, <2>4, <2>6 DEF inside
  <2> QED
    BY <2>1, <2>5, <2>7
<1>5. ASSUME Settle PROVE Distinct' /\ UNCHANGED <<inside, top>>
  <2>1. pc # "idle" /\ pc' = "idle" /\ size' = size /\ top' = top
    BY <1>5 DEF Settle
  <2>2. Used' = Used
    BY <2>1 DEF Used
  <2>3. CASE size = 0
    <3>1. Used = {}
      BY <2>3 DEF Used
    <3>2. inside = {} /\ inside' = {}
      BY <2>1, <2>2, <2>3, <3>1 DEF inside
    <3> QED
      BY <2>1, <2>2, <3>1, <3>2 DEF Distinct
  <2>4. CASE size # 0
    <3>1. i \in Used /\ data' = [data EXCEPT ![i] = item]
      BY <1>5, <1>0, <2>1, <2>4 DEF Settle
    <3>2. \A k \in Used : data'[k] = IF k = i THEN item ELSE data[k]
      BY <1>0, <3>1 DEF TypeOK
    <3>3. Distinct'
      BY <2>1, <2>2, <3>1, <3>2 DEF Distinct
    <3>4. {data'[k] : k \in Used} = {data[k] : k \in Used \ {i}} \cup {item}
      BY <3>1, <3>2
    <3>5. inside' = inside
      BY <2>1, <2>2, <2>4, <3>4 DEF inside
    <3> QED
      BY <2>1, <3>3, <3>5
  <2> QED
    BY <2>3, <2>4
<1> QED
  BY <1>1, <1>2, <1>3, <1>4, <1>5 DEF Next

LEMMA NextInv ==
  ASSUME HeapInv, [Next]_vars
  PROVE  HeapInv'
<1>1. CASE Next
  <2>1. TypeOK' /\ CallInv' /\ Distinct'
    BY <1>1, NextType, InsideNext DEF HeapInv
  <2>2. PICK r : Ranks(r)
    BY RankExists DEF HeapInv
  <2>3. OrderedBy(r)
    BY <2>2, OrderIsByRank DEF HeapInv
  <2>4. OrderedBy(r)'
    BY <1>1, <2>2, <2>3, NextOrder DEF HeapInv
  <2>5. UNCHANGED kind
    BY <1>1 DEF Next, Push, SiftUp, Pop, SiftDown, Settle
  <2>6. Ranks(r)'
    BY <2>2, <2>5, RankKept
  <2>7. HeapOrdered'
    BY <2>1, <2>4, <2>6, OrderIsByRankNext
  <2> QED
    BY <2>1, <2>7 DEF HeapInv
<1>2. CASE UNCHANGED vars
  BY <1>2 DEF vars, kind, HeapInv, TypeOK, CallInv, Distinct, HeapOrdered,
              Used, Priority
<1> QED
  BY <1>1, <1>2

-----------------------------------------------------------------------------
(* The root comes first: a slot that came before it would have a least     *)
(* one, and the parent of that one would come before the root as well.     *)
LEMMA RootIsFirst ==
  ASSUME HeapInv, pc = "idle", size > 0
  PROVE  \A k \in Used : ~Priority(data[k], data[0])
<1>1. PICK r : Ranks(r)
  BY RankExists DEF HeapInv
<1>2. OrderedBy(r)
  BY <1>1, OrderIsByRank DEF HeapInv
<1>3. /\ size \in Nat /\ \A k \in Used : data[k] \in Nodes /\ k \in Nat
      /\ 0 \in Used
      /\ \A k \in Used \ {0} : Parent(k) \in Used /\ Parent(k) < k
  BY Filled, ParentFacts DEF HeapInv, Used
<1>4. \A k \in Used : r[data[k]] \in Int
  BY <1>1, <1>3 DEF Ranks
<1> DEFINE T == {k \in Used : r[data[k]] > r[data[0]]}
<1>5. ASSUME T # {} PROVE FALSE
  <2>1. T \subseteq Nat
    BY <1>3
  <2>2. PICK x \in T : \A y \in T : x <= y
    BY <1>5, <2>1, LeastSlot
  <2>3. x \in Used \ {0}
    BY <1>3, <1>4, <2>2
  <2>4. r[data[x]] <= r[data[Parent(x)]]
    BY <1>2, <2>3 DEF OrderedBy
  <2>5. Parent(x) \in T
    BY <1>3, <1>4, <2>2, <2>3, <2>4
  <2> QED
    BY <1>3, <2>2, <2>3, <2>5
<1> QED
  BY <1>1, <1>3, <1>4, <1>5 DEF Ranks

LEMMA SpecInv == Spec => []HeapInv
<1>1. Init => HeapInv
  BY InitInv
<1>2. HeapInv /\ [Next]_vars => HeapInv'
  BY NextInv
<1> QED
  BY <1>1, <1>2, PTL DEF Spec

(* Every slot that kc_hnsw_heap_push and kc_hnsw_heap_pop read lies within *)
(* the array and holds a node, for every capacity and every size.          *)
THEOREM TypeCorrect == Spec => []TypeOK
<1>1. HeapInv => TypeOK
  BY DEF HeapInv
<1> QED
  BY <1>1, SpecInv, PTL

(* No node comes before its parent: not between two calls, and not around  *)
(* the hole that the loops of a push and of a pop move through the array.  *)
THEOREM HeapIsOrdered == Spec => []HeapOrdered
<1>1. HeapInv => HeapOrdered
  BY DEF HeapInv
<1> QED
  BY <1>1, SpecInv, PTL

(* The heaps of kc_hnsw_search_level are priority queues: each call does,  *)
(* in one of its steps, what the queue does, and every other step of its   *)
(* loop is invisible.                                                      *)
THEOREM HeapIsQueue == Spec => ImplementsQueue
<1> DEFINE before == {p \in Nodes \X Nodes : Priority(p[1], p[2])}
<1>1. Init => Queue!Init
  <2> HAVE Init
  <2>1. Used = {}
    BY DEF Init, Used
  <2>2. inside = {}
    BY <2>1 DEF Init, inside
  <2> QED
    BY <2>2 DEF Init, Queue!Init
<1>2. HeapInv /\ [Next]_vars => [Queue!Next]_(Queue!vars)
  <2> SUFFICES ASSUME HeapInv, [Next]_vars
               PROVE  [Queue!Next]_(Queue!vars)
    OBVIOUS
  <2>1. CASE UNCHANGED vars
    BY <2>1 DEF vars, kind, Queue!vars, inside, Used, Priority
  <2>2. CASE Next
    <3>1. UNCHANGED kind
      BY <2>2 DEF Next, Push, SiftUp, Pop, SiftDown, Settle
    <3>2. before' = before
      BY <3>1 DEF kind, Priority
    <3>3. ASSUME NEW n \in Nodes, Push(n), n \notin inside,
                 inside' = inside \cup {n}
          PROVE  Queue!Next
      <4>1. top' = top
        BY <3>3 DEF Push
      <4>2. Queue!Push(n)
        BY <3>2, <3>3, <4>1 DEF Queue!Push
      <4> QED
        BY <4>2 DEF Queue!Next
    <3>4. ASSUME Pop, data[0] \in inside, inside' = inside \ {data[0]}
          PROVE  Queue!Next
      <4>1. pc = "idle" /\ size > 0 /\ top' = data[0]
        BY <3>4 DEF Pop
      <4>2. \A k \in Used : ~Priority(data[k], data[0]) /\ data[k] \in Nodes
        BY <4>1, RootIsFirst, Filled DEF HeapInv
      <4>3. inside = {data[k] : k \in Used}
        BY <4>1 DEF inside
      <4>4. \A o \in inside : <<o, data[0]>> \notin before
        BY <4>2, <4>3
      <4>5. data[0] \in Nodes
        BY <3>4, <4>2, <4>3
      <4> HIDE DEF before
      <4>6. Queue!Pop(data[0])
        BY <3>2, <3>4, <4>1, <4>4 DEF Queue!Pop, before
      <4> QED
        BY <4>5, <4>6 DEF Queue!Next
    <3>5. ASSUME UNCHANGED <<inside, top>> PROVE UNCHANGED Queue!vars
      BY <3>2, <3>5 DEF Queue!vars
    <3> QED
      BY <2>2, <3>3, <3>4, <3>5, InsideNext DEF HeapInv
  <2> QED
    BY <2>1, <2>2
<1> QED
  BY <1>1, <1>2, SpecInv, PTL DEF Spec, ImplementsQueue, Queue!Spec

=============================================================================
