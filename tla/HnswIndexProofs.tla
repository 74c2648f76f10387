-------------------------- MODULE HnswIndexProofs --------------------------
(***************************************************************************)
(* Proofs about the items of a vector index and the lock around them, for  *)
(* any set of threads, any capacities and any bound on the items.          *)
(***************************************************************************)
EXTENDS HnswIndex, SequenceTheorems, FiniteSetTheorems, TLAPS

(***************************************************************************)
(* The inductive invariant: who is inside the lock, what each thread has   *)
(* copied, what the array has room for, and where every item is.           *)
(***************************************************************************)
Shape ==
  /\ items \in Seq(Items)
  /\ capacity \in Nat /\ allocated \in 0..capacity /\ entrySet \in BOOLEAN
  /\ writer \in Threads \cup {NoThread} /\ readers \subseteq Threads
  /\ pc \in [Threads -> {"out", "searchWait"} \cup Waiting \cup Writing
                          \cup Reading]
  /\ copy \in [Threads -> Seq(Items)]
  /\ answer \in [Threads -> (SUBSET Items) \cup {{Refused}, {NoMemory}}]
  /\ live \subseteq Items
  /\ rebuilt \in BOOLEAN /\ overrun \in BOOLEAN /\ closed \in BOOLEAN

Locking ==
  /\ \A t \in Threads : pc[t] \in Writing <=> writer = t
  /\ \A t \in Threads : pc[t] \in Reading <=> t \in readers
  /\ writer # NoThread => readers = {}

CopyOf(t) ==
  /\ pc[t] \notin {"store", "build", "compare"} => copy[t] = <<>>
  /\ pc[t] = "store" => Len(copy[t]) = 1
  /\ pc[t] = "build" => copy[t] = items
  /\ pc[t] = "compare" =>
       /\ entrySet /\ Len(copy[t]) <= Len(items)
       /\ \A k \in 1..Len(copy[t]) : copy[t][k] = items[k]
  /\ pc[t] \in {"unset", "build", "compare"} => items # <<>>

Copies == \A t \in Threads : CopyOf(t)

Room ==
  /\ Len(items) <= capacity
  /\ \A t \in Threads : pc[t] \in {"duplicate", "store"} => Len(items) < capacity
  /\ ~rebuilt => allocated = capacity /\ ~overrun

(* An item that was copied and not freed is in the array once or in the    *)
(* hands of the thread that adds it, never both.                           *)
Placed ==
  /\ \A x \in Items :
       x \in live <=> \/ \E k \in 1..Len(items) : items[k] = x
                      \/ \E t \in Threads : pc[t] = "store" /\ copy[t][1] = x
  /\ \A i \in 1..Len(items) : \A j \in 1..Len(items) :
       items[i] = items[j] => i = j
  /\ \A t \in Threads : pc[t] = "store" =>
       \A k \in 1..Len(items) : items[k] # copy[t][1]

IndexInv ==
  Shape /\ Locking /\ Copies /\ Room /\ Placed /\ AnswersStayValid

LEMMA InitInv == Init => IndexInv
<1> SUFFICES ASSUME Init PROVE IndexInv
  OBVIOUS
<1> USE ThreadAssumption, BoundAssumption
<1>1. Shape
  <2>1. answer \in [Threads -> (SUBSET Items) \cup {{Refused}, {NoMemory}}]
    BY Zenon DEF Init
  <2>2. copy \in [Threads -> Seq(Items)] /\ items \in Seq(Items)
    BY DEF Init
  <2>3. pc \in [Threads -> {"out", "searchWait"} \cup Waiting \cup Writing
                            \cup Reading]
    BY DEF Init
  <2>4. entrySet \in BOOLEAN /\ rebuilt \in BOOLEAN /\ overrun \in BOOLEAN
        /\ closed \in BOOLEAN
    BY DEF Init
  <2> QED
    BY <2>1, <2>2, <2>3, <2>4 DEF Init, Shape
<1>2. Locking /\ Copies /\ Placed
  BY DEF Init, Locking, Copies, CopyOf, Placed, Writing, Reading
<1>3. Room /\ AnswersStayValid
  BY DEF Init, Room, AnswersStayValid
<1> QED
  BY <1>1, <1>2, <1>3 DEF IndexInv

(* The thread that writes is alone inside the lock. *)
LEMMA WriterAlone ==
  ASSUME IndexInv, NEW t \in Threads, pc[t] \in Writing, NEW u \in Threads
  PROVE  u # t => pc[u] \notin Writing \cup Reading
BY ThreadAssumption DEF IndexInv, Locking

(* While a thread reads, none writes. *)
LEMMA NoWriter ==
  ASSUME IndexInv, NEW t \in Threads, pc[t] \in Reading, NEW u \in Threads
  PROVE  pc[u] \notin Writing
BY ThreadAssumption DEF IndexInv, Locking

(* The calls, and the steps that only take or release the lock. *)
LEMMA LockInv ==
  ASSUME IndexInv, NEW t \in Threads,
         Calls(t) \/ Acquire(t) \/ WriteUnlock(t) \/ ReadUnlock(t)
  PROVE  IndexInv'
<1> USE ThreadAssumption, BoundAssumption
        DEF Waiting, Writing, Reading, index, lock, locals, ghosts, Goes, To
<1>1. /\ UNCHANGED <<items, capacity, allocated, entrySet, copy, answer, live,
                     rebuilt, overrun, closed>>
      /\ \A u \in Threads : u # t => pc'[u] = pc[u]
      /\ pc[t] \notin {"store", "build", "compare", "duplicate", "unset"}
      /\ pc'[t] \notin {"store", "build", "compare", "duplicate", "unset"}
  BY DEF Calls, Acquire, WriteUnlock, ReadUnlock, ReserveCall, AddCall,
         BuildCall, SearchCall, WriteLock, SearchLock, IndexInv, Shape
<1>2. Shape'
  BY DEF Calls, Acquire, WriteUnlock, ReadUnlock, ReserveCall, AddCall,
         BuildCall, SearchCall, WriteLock, SearchLock, IndexInv, Shape
<1>3. Locking'
  <2> USE DEF IndexInv, Shape, Locking
  <2>1. CASE Calls(t)
    BY <2>1 DEF Calls, ReserveCall, AddCall, BuildCall, SearchCall
  <2>2. CASE Acquire(t)
    <3>1. CASE SearchLock(t)
      BY <3>1 DEF SearchLock
    <3>2. CASE ~SearchLock(t)
      BY <2>2, <3>2 DEF Acquire, WriteLock
    <3> QED
      BY <3>1, <3>2
  <2>3. CASE WriteUnlock(t)
    BY <2>3 DEF WriteUnlock
  <2>4. CASE ReadUnlock(t)
    BY <2>4 DEF ReadUnlock
  <2> QED
    BY <2>1, <2>2, <2>3, <2>4
<1>4. Copies'
  BY <1>1 DEF IndexInv, Copies, CopyOf
<1>5. Room'
  BY <1>1 DEF IndexInv, Room
<1>6. Placed'
  BY <1>1 DEF IndexInv, Placed
<1>7. AnswersStayValid'
  BY <1>1 DEF IndexInv, AnswersStayValid
<1> QED
  BY <1>2, <1>3, <1>4, <1>5, <1>6, <1>7 DEF IndexInv

(* A step inside the lock that keeps it. *)
LEMMA StaysInside ==
  ASSUME IndexInv, NEW t \in Threads, NEW from, NEW where, Goes(t, from, where),
         UNCHANGED lock,
         \/ from \in Writing /\ where \in Writing
         \/ from \in Reading /\ where \in Reading
  PROVE  /\ Locking'
         /\ pc[t] = from /\ pc'[t] = where
         /\ pc' \in [Threads -> {"out", "searchWait"} \cup Waiting \cup Writing
                                  \cup Reading]
         /\ \A u \in Threads : u # t => pc'[u] = pc[u]
         /\ from \in Writing => \A u \in Threads : u # t =>
              pc[u] \notin Writing \cup Reading
         /\ from \in Reading => \A u \in Threads : pc[u] \notin Writing
<1> USE DEF Goes, To
<1>1. /\ pc[t] = from /\ pc'[t] = where
      /\ \A u \in Threads : u # t => pc'[u] = pc[u]
  BY DEF IndexInv, Shape
<1>2. pc' \in [Threads -> {"out", "searchWait"} \cup Waiting \cup Writing
                          \cup Reading]
  BY DEF IndexInv, Shape
<1>3. Locking'
  BY <1>1 DEF IndexInv, Locking, lock, Writing, Reading
<1>4. from \in Writing => \A u \in Threads : u # t =>
        pc[u] \notin Writing \cup Reading
  BY <1>1, WriterAlone
<1>5. from \in Reading => \A u \in Threads : pc[u] \notin Writing
  BY <1>1, NoWriter
<1> QED
  BY <1>1, <1>2, <1>3, <1>4, <1>5

(* kc_hnsw_reserve, and the growth of the array in kc_hnsw_add: the items  *)
(* are not touched, the array does not shrink.                             *)
LEMMA GrowInv ==
  ASSUME IndexInv, NEW t \in Threads,
         Reserve(t) \/ ReserveFails(t) \/ AddGrow(t) \/ AddGrowFails(t)
  PROVE  IndexInv'
<1>1. /\ UNCHANGED <<items, entrySet, writer, readers, copy, answer, live,
                     rebuilt, overrun, closed>>
      /\ UNCHANGED lock
      /\ \/ Goes(t, "reserve", "wunlock") \/ Goes(t, "grow", "duplicate")
         \/ Goes(t, "grow", "wunlock")
  BY DEF Reserve, ReserveFails, AddGrow, AddGrowFails, index, lock, locals,
         ghosts
<1>2. /\ Locking' /\ pc[t] \in {"reserve", "grow"}
      /\ pc'[t] \in {"wunlock", "duplicate"}
      /\ pc' \in [Threads -> {"out", "searchWait"} \cup Waiting \cup Writing
                                  \cup Reading]
      /\ \A u \in Threads : u # t =>
           pc'[u] = pc[u] /\ pc[u] \notin Writing \cup Reading
  BY <1>1, StaysInside DEF Writing, Reading
<1>3. /\ capacity' \in Nat /\ allocated' \in 0..capacity'
      /\ capacity' >= capacity
      /\ allocated = capacity => allocated' = capacity'
      /\ pc'[t] = "duplicate" => Len(items) < capacity'
  <2> USE BoundAssumption DEF ReserveLocked
  <2>1. Len(items) <= capacity /\ capacity \in Nat /\ allocated \in 0..capacity
        /\ Len(items) \in Nat
    BY DEF IndexInv, Room, Shape
  <2>2. CASE Reserve(t)
    <3>1. pc'[t] = "wunlock"
      BY <2>2 DEF Reserve, Goes, To, IndexInv, Shape
    <3> QED
      BY <2>1, <2>2, <3>1 DEF Reserve
  <2>3. CASE AddGrow(t)
    BY <2>1, <2>3 DEF AddGrow
  <2>4. CASE ReserveFails(t) \/ AddGrowFails(t)
    <3>1. pc'[t] = "wunlock"
      BY <2>4 DEF ReserveFails, AddGrowFails, Goes, To, IndexInv, Shape
    <3> QED
      BY <2>1, <2>4, <3>1 DEF ReserveFails, AddGrowFails, index
  <2> QED
    BY <2>2, <2>3, <2>4
<1>4. Shape'
  BY <1>1, <1>2, <1>3 DEF IndexInv, Shape
<1>5. Copies'
  BY <1>1, <1>2 DEF IndexInv, Copies, CopyOf
<1>6. Room'
  <2>1. \A u \in Threads : u # t => pc'[u] \notin {"duplicate", "store"}
    BY <1>2 DEF Writing
  <2> QED
    BY <1>1, <1>2, <1>3, <2>1 DEF IndexInv, Room, Shape
<1>7. Placed'
  BY <1>1, <1>2 DEF IndexInv, Placed
<1>8. AnswersStayValid'
  BY <1>1 DEF IndexInv, AnswersStayValid
<1> QED
  BY <1>2, <1>4, <1>5, <1>6, <1>7, <1>8 DEF IndexInv

(* Appending a sequence of one element. *)
LEMMA ConcatOne ==
  ASSUME NEW S, NEW s \in Seq(S), NEW e \in Seq(S), Len(e) = 1
  PROVE  /\ s \o e \in Seq(S) /\ Len(s \o e) = Len(s) + 1
         /\ \A k \in 1..Len(s) : (s \o e)[k] = s[k]
         /\ (s \o e)[Len(s) + 1] = e[1]
<1>1. /\ s \o e \in Seq(S) /\ Len(s \o e) = Len(s) + Len(e)
      /\ \A k \in 1..(Len(s) + Len(e)) :
           (s \o e)[k] = IF k <= Len(s) THEN s[k] ELSE e[k - Len(s)]
  BY ConcatProperties
<1>2. Len(s) \in Nat /\ Len(s) + 1 - Len(s) = 1
  OBVIOUS
<1> QED
  BY <1>1, <1>2

(* The rest of kc_hnsw_add. *)
LEMMA AddInv ==
  ASSUME IndexInv, NEW t \in Threads,
         AddDuplicate(t) \/ AddDuplicateFails(t) \/ AddStore(t) \/ AddUnset(t)
  PROVE  IndexInv'
<1>0. /\ items \in Seq(Items) /\ copy \in [Threads -> Seq(Items)]
      /\ Len(items) \in Nat /\ capacity \in Nat /\ live \subseteq Items
  BY DEF IndexInv, Shape
<1>1. CASE AddDuplicate(t)
  <2>1. /\ UNCHANGED <<items, capacity, allocated, entrySet, writer, readers,
                       answer, rebuilt, overrun, closed>>
        /\ UNCHANGED lock /\ Goes(t, "duplicate", "store")
    BY <1>1 DEF AddDuplicate, index, lock
  <2>2. /\ Locking' /\ pc[t] = "duplicate" /\ pc'[t] = "store"
        /\ pc' \in [Threads -> {"out", "searchWait"} \cup Waiting \cup Writing
                                    \cup Reading]
        /\ \A u \in Threads : u # t =>
             pc'[u] = pc[u] /\ pc[u] \notin Writing \cup Reading
    BY <2>1, StaysInside DEF Writing, Reading
  <2>3. PICK i \in Items : /\ i \notin live /\ live' = live \cup {i}
                           /\ copy' = [copy EXCEPT ![t] = <<i>>]
    BY <1>1 DEF AddDuplicate
  <2>4. /\ copy' \in [Threads -> Seq(Items)] /\ copy'[t] = <<i>>
        /\ Len(copy'[t]) = 1 /\ copy'[t][1] = i
        /\ \A u \in Threads : u # t => copy'[u] = copy[u]
    BY <1>0, <2>3
  <2>5. \A u \in Threads : u # t => pc'[u] \notin {"store", "duplicate"}
    BY <2>2 DEF Writing
  <2>6. Shape'
    BY <2>1, <2>2, <2>3, <2>4 DEF IndexInv, Shape
  <2>7. Copies'
    <3> SUFFICES ASSUME NEW u \in Threads PROVE CopyOf(u)'
      BY DEF Copies
    <3>1. CASE u = t
      BY <2>1, <2>2, <2>4, <3>1 DEF CopyOf
    <3>2. CASE u # t
      BY <2>1, <2>2, <2>4, <3>2 DEF IndexInv, Copies, CopyOf
    <3> QED
      BY <3>1, <3>2
  <2>8. Room'
    BY <2>1, <2>2 DEF IndexInv, Room
  <2>9. Placed'
    <3>1. \A u \in Threads : pc[u] # "store"
      BY <2>2, <2>5
    <3>2. \A k \in 1..Len(items) : items[k] \in Items /\ items[k] \in live
      BY <1>0 DEF IndexInv, Placed
    <3> QED
      BY <2>1, <2>2, <2>3, <2>4, <2>5, <3>1, <3>2 DEF IndexInv, Placed
  <2>10. AnswersStayValid'
    BY <2>1, <2>3 DEF IndexInv, AnswersStayValid
  <2> QED
    BY <2>2, <2>6, <2>7, <2>8, <2>9, <2>10 DEF IndexInv
<1>2. CASE AddDuplicateFails(t) \/ AddUnset(t)
  <2>1. /\ UNCHANGED <<items, capacity, allocated, writer, readers, copy,
                       answer, live, rebuilt, overrun, closed>>
        /\ UNCHANGED lock /\ entrySet' \in {entrySet, FALSE}
        /\ \/ Goes(t, "duplicate", "wunlock") \/ Goes(t, "unset", "wunlock")
    BY <1>2 DEF AddDuplicateFails, AddUnset, index, lock, locals, ghosts
  <2>2. /\ Locking' /\ pc[t] \in {"duplicate", "unset"} /\ pc'[t] = "wunlock"
        /\ pc' \in [Threads -> {"out", "searchWait"} \cup Waiting \cup Writing
                                    \cup Reading]
        /\ \A u \in Threads : u # t =>
             pc'[u] = pc[u] /\ pc[u] \notin Writing \cup Reading
    BY <2>1, StaysInside DEF Writing, Reading
  <2>3. Shape'
    BY <2>1, <2>2 DEF IndexInv, Shape
  <2>4. Copies'
    BY <2>1, <2>2 DEF IndexInv, Copies, CopyOf, Reading
  <2>5. Room' /\ Placed' /\ AnswersStayValid'
    BY <2>1, <2>2 DEF IndexInv, Room, Placed, AnswersStayValid
  <2> QED
    BY <2>2, <2>3, <2>4, <2>5 DEF IndexInv
<1>3. CASE AddStore(t)
  <2>1. /\ UNCHANGED <<capacity, allocated, entrySet, writer, readers, answer,
                       live, rebuilt, closed>>
        /\ UNCHANGED lock /\ Goes(t, "store", "unset")
        /\ overrun' = (Len(items) >= allocated)
        /\ items' = items \o copy[t] /\ copy' = [copy EXCEPT ![t] = <<>>]
    BY <1>3 DEF AddStore, lock
  <2>2. /\ Locking' /\ pc[t] = "store" /\ pc'[t] = "unset"
        /\ pc' \in [Threads -> {"out", "searchWait"} \cup Waiting \cup Writing
                                    \cup Reading]
        /\ \A u \in Threads : u # t =>
             pc'[u] = pc[u] /\ pc[u] \notin Writing \cup Reading
    BY <2>1, StaysInside DEF Writing, Reading
  <2>3. \A u \in Threads : u # t =>
          pc'[u] \notin {"store", "duplicate", "build", "compare", "unset"}
    BY <2>2 DEF Writing, Reading
  <2>4. /\ Len(copy[t]) = 1 /\ copy[t] \in Seq(Items) /\ copy[t][1] \in Items
    BY <1>0, <2>2 DEF IndexInv, Copies, CopyOf
  <2>5. /\ items' \in Seq(Items) /\ Len(items') = Len(items) + 1
        /\ \A k \in 1..Len(items) : items'[k] = items[k]
        /\ items'[Len(items) + 1] = copy[t][1]
        /\ items' # <<>>
    <3>1. /\ items' \in Seq(Items) /\ Len(items') = Len(items) + 1
          /\ \A k \in 1..Len(items) : items'[k] = items[k]
          /\ items'[Len(items) + 1] = copy[t][1]
      BY <1>0, <2>1, <2>4, ConcatOne
    <3> QED
      BY <1>0, <3>1
  <2>6. /\ copy' \in [Threads -> Seq(Items)] /\ copy'[t] = <<>>
        /\ \A u \in Threads : u # t => copy'[u] = copy[u]
    BY <1>0, <2>1
  <2>7. Shape'
    <3>1. overrun' \in BOOLEAN
      BY <2>1
    <3> QED
      BY <2>1, <2>2, <2>5, <2>6, <3>1 DEF IndexInv, Shape
  <2>8. Copies'
    BY <2>1, <2>2, <2>3, <2>5, <2>6 DEF IndexInv, Copies, CopyOf
  <2>9. Room'
    BY <1>0, <2>1, <2>2, <2>3, <2>5 DEF IndexInv, Room, Shape
  <2>10. Placed'
    <3>1. \A x \in Items :
            (\E k \in 1..Len(items') : items'[k] = x)
              <=> (\E k \in 1..Len(items) : items[k] = x) \/ copy[t][1] = x
      <4>1. 1..Len(items') = 1..Len(items) \cup {Len(items) + 1}
        BY <1>0, <2>5
      <4> QED
        BY <2>5, <4>1
    <3>2. \A u \in Threads : pc'[u] # "store" /\ (pc[u] = "store" => u = t)
      BY <2>2, <2>3
    <3>3. \A x \in Items :
            x \in live' <=> \/ \E k \in 1..Len(items') : items'[k] = x
                            \/ \E u \in Threads : pc'[u] = "store"
                                                  /\ copy'[u][1] = x
      BY <2>1, <2>2, <3>1, <3>2 DEF IndexInv, Placed
    <3>4. \A i \in 1..Len(items') : \A j \in 1..Len(items') :
            items'[i] = items'[j] => i = j
      <4>1. 1..Len(items') = 1..Len(items) \cup {Len(items) + 1}
        BY <1>0, <2>5
      <4> QED
        BY <2>2, <2>5, <4>1 DEF IndexInv, Placed
    <3> QED
      BY <3>2, <3>3, <3>4 DEF Placed
  <2>11. AnswersStayValid'
    BY <2>1 DEF IndexInv, AnswersStayValid
  <2> QED
    BY <2>2, <2>7, <2>8, <2>9, <2>10, <2>11 DEF IndexInv
<1> QED
  BY <1>1, <1>2, <1>3

(* A shuffle reaches every place once. *)
LEMMA Shuffle ==
  ASSUME NEW n \in Nat, NEW p \in Bijection(1..n, 1..n)
  PROVE  /\ \A k \in 1..n : p[k] \in 1..n
         /\ \A i, j \in 1..n : p[i] = p[j] => i = j
         /\ \A k \in 1..n : \E i \in 1..n : p[i] = k
BY DEF Bijection, Injection, Surjection, IsInjective

(* kc_hnsw_build. *)
LEMMA BuildInv ==
  ASSUME IndexInv, NEW t \in Threads,
         BuildNothing(t) \/ BuildCopy(t) \/ BuildFails(t) \/ BuildCommit(t)
  PROVE  IndexInv'
<1>0. /\ items \in Seq(Items) /\ copy \in [Threads -> Seq(Items)]
      /\ Len(items) \in Nat /\ capacity \in Nat /\ live \subseteq Items
      /\ <<>> \in Seq(Items)
  BY DEF IndexInv, Shape
<1>1. CASE BuildNothing(t) \/ BuildCopy(t) \/ BuildFails(t)
  <2>1. /\ UNCHANGED <<items, capacity, allocated, entrySet, writer, readers,
                       answer, live, rebuilt, overrun, closed>>
        /\ UNCHANGED lock
        /\ \/ Goes(t, "allocate", "wunlock") \/ Goes(t, "build", "wunlock")
           \/ Goes(t, "allocate", "build") /\ items # <<>>
    BY <1>1 DEF BuildNothing, BuildCopy, BuildFails, index, lock, locals, ghosts
  <2>2. /\ Locking' /\ pc[t] \in {"allocate", "build"}
        /\ pc'[t] \in {"wunlock", "build"}
        /\ pc'[t] = "build" => items # <<>>
        /\ pc' \in [Threads -> {"out", "searchWait"} \cup Waiting \cup Writing
                                    \cup Reading]
        /\ \A u \in Threads : u # t =>
             pc'[u] = pc[u] /\ pc[u] \notin Writing \cup Reading
    BY <2>1, StaysInside DEF Writing, Reading
  <2>3. /\ copy' \in [Threads -> Seq(Items)]
        /\ pc'[t] = "build" => copy'[t] = items
        /\ pc'[t] = "wunlock" => copy'[t] = <<>>
        /\ \A u \in Threads : u # t => copy'[u] = copy[u]
    <3>1. CASE BuildNothing(t)
      <4>1. pc[t] = "allocate" /\ pc'[t] = "wunlock" /\ copy' = copy
        BY <1>0, <3>1 DEF BuildNothing, Goes, To, IndexInv, Shape, locals
      <4>2. copy[t] = <<>>
        BY <4>1 DEF IndexInv, Copies, CopyOf
      <4> QED
        BY <1>0, <4>1, <4>2
    <3>2. CASE BuildCopy(t)
      <4>1. pc'[t] = "build" /\ copy' = [copy EXCEPT ![t] = items]
        BY <3>2 DEF BuildCopy, Goes, To, IndexInv, Shape
      <4> QED
        BY <1>0, <4>1
    <3>3. CASE BuildFails(t)
      <4>1. pc'[t] = "wunlock" /\ copy' = [copy EXCEPT ![t] = <<>>]
        BY <3>3 DEF BuildFails, Goes, To, IndexInv, Shape
      <4> QED
        BY <1>0, <4>1
    <3> QED
      BY <1>1, <3>1, <3>2, <3>3
  <2>4. Shape'
    BY <2>1, <2>2, <2>3 DEF IndexInv, Shape
  <2>5. Copies'
    <3> SUFFICES ASSUME NEW u \in Threads PROVE CopyOf(u)'
      BY DEF Copies
    <3>1. CASE u = t
      BY <2>1, <2>2, <2>3, <3>1 DEF CopyOf
    <3>2. CASE u # t
      BY <2>1, <2>2, <2>3, <3>2 DEF IndexInv, Copies, CopyOf
    <3> QED
      BY <3>1, <3>2
  <2>6. Room'
    BY <2>1, <2>2 DEF IndexInv, Room
  <2>7. Placed'
    <3>1. \A u \in Threads : pc[u] # "store" /\ pc'[u] # "store"
      BY <2>2 DEF Writing
    <3> QED
      BY <2>1, <3>1 DEF IndexInv, Placed
  <2>8. AnswersStayValid'
    BY <2>1 DEF IndexInv, AnswersStayValid
  <2> QED
    BY <2>2, <2>4, <2>5, <2>6, <2>7, <2>8 DEF IndexInv
<1>2. CASE BuildCommit(t)
  <2>1. /\ UNCHANGED <<capacity, writer, readers, answer, live, overrun, closed>>
        /\ UNCHANGED lock /\ Goes(t, "build", "wunlock")
        /\ allocated' = Len(copy[t]) /\ entrySet' = TRUE /\ rebuilt' = TRUE
        /\ copy' = [copy EXCEPT ![t] = <<>>]
    BY <1>2 DEF BuildCommit, lock
  <2>2. /\ Locking' /\ pc[t] = "build" /\ pc'[t] = "wunlock"
        /\ pc' \in [Threads -> {"out", "searchWait"} \cup Waiting \cup Writing
                                    \cup Reading]
        /\ \A u \in Threads : u # t =>
             pc'[u] = pc[u] /\ pc[u] \notin Writing \cup Reading
    BY <2>1, StaysInside DEF Writing, Reading
  <2>3. copy[t] = items
    BY <2>2 DEF IndexInv, Copies, CopyOf
  <2>4. PICK p \in Bijection(DOMAIN items, DOMAIN items) :
          items' = [k \in DOMAIN items |-> items[p[k]]]
    BY <1>2, <2>3 DEF BuildCommit
  <2>5. /\ items' \in Seq(Items) /\ Len(items') = Len(items)
        /\ \A x : (\E k \in 1..Len(items') : items'[k] = x)
                   <=> (\E k \in 1..Len(items) : items[k] = x)
        /\ (\A i, j \in 1..Len(items) : items[i] = items[j] => i = j)
             => \A i, j \in 1..Len(items') : items'[i] = items'[j] => i = j
    <3>1. /\ DOMAIN items = 1..Len(items)
          /\ \A k \in 1..Len(items) : items[k] \in Items
      BY <1>0, LenProperties, ElementOfSeq
    <3>2. p \in [1..Len(items) -> 1..Len(items)]
      BY <3>1 DEF Bijection, Injection
    <3>3. /\ items' \in Seq(Items) /\ Len(items') = Len(items)
          /\ \A k \in 1..Len(items) : items'[k] = items[p[k]]
      BY <1>0, <2>4, <3>1, <3>2
    <3>4. /\ \A k \in 1..Len(items) : p[k] \in 1..Len(items)
          /\ \A i, j \in 1..Len(items) : p[i] = p[j] => i = j
          /\ \A k \in 1..Len(items) : \E i \in 1..Len(items) : p[i] = k
      BY <1>0, <3>1, Shuffle
    <3>5. ASSUME NEW x
          PROVE  (\E k \in 1..Len(items) : items'[k] = x)
                   <=> (\E k \in 1..Len(items) : items[k] = x)
      <4>1. ASSUME NEW k \in 1..Len(items), items'[k] = x
            PROVE  \E i \in 1..Len(items) : items[i] = x
        <5>1. p[k] \in 1..Len(items) /\ items[p[k]] = x
          BY <3>3, <3>4, <4>1
        <5> QED
          BY <5>1
      <4>2. ASSUME NEW k \in 1..Len(items), items[k] = x
            PROVE  \E i \in 1..Len(items) : items'[i] = x
        <5>1. PICK i \in 1..Len(items) : p[i] = k
          BY <3>4
        <5>2. items'[i] = x
          BY <3>3, <4>2, <5>1
        <5> QED
          BY <5>2
      <4> QED
        BY <4>1, <4>2
    <3>6. ASSUME \A i, j \in 1..Len(items) : items[i] = items[j] => i = j,
                 NEW i \in 1..Len(items), NEW j \in 1..Len(items),
                 items'[i] = items'[j]
          PROVE  i = j
      <4>1. p[i] \in 1..Len(items) /\ p[j] \in 1..Len(items)
        BY <3>4
      <4>2. items[p[i]] = items[p[j]]
        BY <3>3, <3>6
      <4>3. p[i] = p[j]
        BY <3>6, <4>1, <4>2
      <4> QED
        BY <3>4, <4>3
    <3> QED
      BY <3>3, <3>5, <3>6
  <2>6. /\ copy' \in [Threads -> Seq(Items)] /\ copy'[t] = <<>>
        /\ \A u \in Threads : u # t => copy'[u] = copy[u]
    BY <1>0, <2>1
  <2>7. Len(items) <= capacity
    BY DEF IndexInv, Room
  <2>8. Shape'
    <3>1. allocated' \in 0..capacity'
      BY <1>0, <2>1, <2>3, <2>7
    <3>2. rebuilt' \in BOOLEAN /\ entrySet' \in BOOLEAN
      BY <2>1
    <3> QED
      BY <2>1, <2>2, <2>5, <2>6, <3>1, <3>2 DEF IndexInv, Shape
  <2>9. Copies'
    <3> SUFFICES ASSUME NEW u \in Threads PROVE CopyOf(u)'
      BY DEF Copies
    <3>1. CASE u = t
      BY <2>2, <2>6, <3>1 DEF CopyOf
    <3>2. CASE u # t
      BY <2>1, <2>2, <2>6, <3>2
         DEF IndexInv, Copies, CopyOf, Writing, Reading
    <3> QED
      BY <3>1, <3>2
  <2>10. Room'
    BY <2>1, <2>2, <2>5, <2>7 DEF IndexInv, Room, Writing
  <2>11. Placed'
    <3>1. \A u \in Threads : pc[u] # "store" /\ pc'[u] # "store"
      BY <2>2 DEF Writing
    <3> QED
      BY <2>1, <2>5, <3>1 DEF IndexInv, Placed
  <2>12. AnswersStayValid'
    BY <2>1 DEF IndexInv, AnswersStayValid
  <2> QED
    BY <2>2, <2>8, <2>9, <2>10, <2>11, <2>12 DEF IndexInv
<1> QED
  BY <1>1, <1>2

(* kc_hnsw_search: what has been compared is a prefix of the items, which  *)
(* no one changes meanwhile.                                               *)
LEMMA CompareInv ==
  ASSUME IndexInv, NEW t \in Threads, SearchStart(t) \/ SearchCompare(t)
  PROVE  IndexInv'
<1>0. /\ items \in Seq(Items) /\ copy \in [Threads -> Seq(Items)]
      /\ Len(items) \in Nat /\ copy[t] \in Seq(Items) /\ Len(copy[t]) \in Nat
  BY DEF IndexInv, Shape
<1>1. /\ UNCHANGED <<items, capacity, allocated, entrySet, writer, readers,
                     answer, live, rebuilt, overrun, closed>>
      /\ UNCHANGED lock /\ items # <<>>
      /\ \/ Goes(t, "look", "compare") \/ Goes(t, "compare", "compare")
  BY DEF SearchStart, SearchCompare, index, lock, locals, ghosts, Goes,
         IndexInv, Copies, CopyOf
<1>2. /\ Locking' /\ pc[t] \in {"look", "compare"} /\ pc'[t] = "compare"
      /\ pc' \in [Threads -> {"out", "searchWait"} \cup Waiting \cup Writing
                                  \cup Reading]
      /\ \A u \in Threads : u # t => pc'[u] = pc[u]
      /\ \A u \in Threads : pc[u] \notin Writing
  BY <1>1, StaysInside DEF Writing, Reading
<1>3. /\ copy' \in [Threads -> Seq(Items)] /\ entrySet
      /\ \A u \in Threads : u # t => copy'[u] = copy[u]
      /\ Len(copy'[t]) <= Len(items)
      /\ \A k \in 1..Len(copy'[t]) : copy'[t][k] = items[k]
  <2>1. CASE SearchStart(t)
    <3>1. copy' = copy /\ entrySet /\ pc[t] = "look"
      BY <2>1 DEF SearchStart, locals, Goes
    <3>2. copy[t] = <<>>
      BY <3>1 DEF IndexInv, Copies, CopyOf
    <3> QED
      BY <1>0, <3>1, <3>2
  <2>2. CASE SearchCompare(t)
    <3> DEFINE e == items[Len(copy[t]) + 1]
    <3>1. /\ copy' = [copy EXCEPT ![t] = Append(copy[t], e)]
          /\ pc[t] = "compare" /\ Len(copy[t]) < Len(items)
      BY <2>2 DEF SearchCompare, Goes
    <3>2. /\ entrySet /\ \A k \in 1..Len(copy[t]) : copy[t][k] = items[k]
      BY <3>1 DEF IndexInv, Copies, CopyOf
    <3>3. e \in Items
      BY <1>0, <3>1, ElementOfSeq
    <3>4. /\ copy'[t] = Append(copy[t], e)
          /\ copy' \in [Threads -> Seq(Items)]
          /\ \A u \in Threads : u # t => copy'[u] = copy[u]
      BY <1>0, <3>1, <3>3
    <3>5. /\ Len(copy'[t]) = Len(copy[t]) + 1
          /\ \A k \in 1..Len(copy[t]) : copy'[t][k] = copy[t][k]
          /\ copy'[t][Len(copy[t]) + 1] = e
      BY <1>0, <3>3, <3>4
    <3>6. \A k \in 1..Len(copy'[t]) :
            k \in 1..Len(copy[t]) \/ k = Len(copy[t]) + 1
      BY <1>0, <3>5
    <3> QED
      BY <1>0, <3>1, <3>2, <3>4, <3>5, <3>6
  <2> QED
    BY <2>1, <2>2
<1>4. Shape'
  BY <1>1, <1>2, <1>3 DEF IndexInv, Shape
<1>5. Copies'
  <2> SUFFICES ASSUME NEW u \in Threads PROVE CopyOf(u)'
    BY DEF Copies
  <2>1. CASE u = t
    BY <1>1, <1>2, <1>3, <2>1 DEF CopyOf
  <2>2. CASE u # t
    BY <1>1, <1>2, <1>3, <2>2 DEF IndexInv, Copies, CopyOf
  <2> QED
    BY <2>1, <2>2
<1>6. Room'
  BY <1>1, <1>2 DEF IndexInv, Room
<1>7. Placed'
  <2>1. \A u \in Threads : pc[u] # "store" /\ pc'[u] # "store"
    BY <1>2 DEF Writing
  <2> QED
    BY <1>1, <2>1 DEF IndexInv, Placed
<1>8. AnswersStayValid'
  BY <1>1 DEF IndexInv, AnswersStayValid
<1> QED
  BY <1>2, <1>4, <1>5, <1>6, <1>7, <1>8 DEF IndexInv

(* The answer that kc_hnsw_search gives. *)
LEMMA AnswerInv ==
  ASSUME IndexInv, NEW t \in Threads,
         SearchEmpty(t) \/ SearchRefused(t) \/ SearchFails(t) \/ SearchDone(t)
  PROVE  IndexInv'
<1>0. /\ items \in Seq(Items) /\ copy \in [Threads -> Seq(Items)]
      /\ <<>> \in Seq(Items)
      /\ answer \in [Threads -> (SUBSET Items) \cup {{Refused}, {NoMemory}}]
  <2>1. <<>> \in Seq(Items)
    OBVIOUS
  <2> QED
    BY <2>1 DEF IndexInv, Shape
<1>1. PICK a, from :
        /\ Answers(t, from, a) /\ from \in {"look", "compare"}
        /\ \/ a \in {{}, {Refused}, {NoMemory}}
           \/ a = Range(copy[t]) /\ from = "compare"
  <2>1. CASE SearchEmpty(t)
    BY <2>1 DEF SearchEmpty
  <2>2. CASE SearchRefused(t)
    BY <2>2 DEF SearchRefused
  <2>3. CASE SearchFails(t)
    BY <2>3 DEF SearchFails
  <2>4. CASE SearchDone(t)
    BY <2>4 DEF SearchDone
  <2> QED
    BY <2>1, <2>2, <2>3, <2>4
<1>2. /\ UNCHANGED <<items, capacity, allocated, entrySet, writer, readers,
                     live, rebuilt, overrun, closed>>
      /\ UNCHANGED lock /\ Goes(t, from, "runlock")
      /\ answer' = [answer EXCEPT ![t] = a]
      /\ copy' = [copy EXCEPT ![t] = <<>>]
  BY <1>1 DEF Answers, index, lock, ghosts
<1>3. /\ Locking' /\ pc[t] = from /\ pc'[t] = "runlock"
      /\ pc' \in [Threads -> {"out", "searchWait"} \cup Waiting \cup Writing
                                  \cup Reading]
      /\ \A u \in Threads : u # t => pc'[u] = pc[u]
      /\ \A u \in Threads : pc[u] \notin Writing
  BY <1>1, <1>2, StaysInside DEF Writing, Reading
<1>4. a \in {{Refused}, {NoMemory}} \/ a \subseteq live
  <2>1. CASE a = Range(copy[t]) /\ from = "compare"
    <3>1. /\ copy[t] \in Seq(Items) /\ DOMAIN copy[t] = 1..Len(copy[t])
          /\ Len(copy[t]) \in Nat /\ Len(items) \in Nat
      BY <1>0, LenProperties
    <3>2. /\ Len(copy[t]) <= Len(items)
          /\ \A k \in 1..Len(copy[t]) : copy[t][k] = items[k]
      BY <1>3, <2>1 DEF IndexInv, Copies, CopyOf
    <3>3. \A k \in 1..Len(items) : items[k] \in live
      BY <1>0, ElementOfSeq DEF IndexInv, Placed
    <3>4. \A k \in DOMAIN copy[t] : copy[t][k] \in live
      BY <3>1, <3>2, <3>3
    <3> QED
      BY <2>1, <3>4 DEF Range
  <2>2. CASE a \in {{}, {Refused}, {NoMemory}}
    BY <2>2
  <2> QED
    BY <1>1, <2>1, <2>2
<1>5. /\ copy' \in [Threads -> Seq(Items)] /\ copy'[t] = <<>>
      /\ \A u \in Threads : u # t => copy'[u] = copy[u]
  BY <1>0, <1>2
<1>6. /\ answer' \in [Threads -> (SUBSET Items) \cup {{Refused}, {NoMemory}}]
      /\ answer'[t] = a
      /\ \A u \in Threads : u # t => answer'[u] = answer[u]
  <2>1. live \subseteq Items
    BY DEF IndexInv, Shape
  <2>2. a \in (SUBSET Items) \cup {{Refused}, {NoMemory}}
    BY <1>4, <2>1
  <2> QED
    BY <1>0, <1>2, <2>2
<1>7. Shape'
  BY <1>2, <1>3, <1>5, <1>6 DEF IndexInv, Shape
<1>8. Copies'
  <2> SUFFICES ASSUME NEW u \in Threads PROVE CopyOf(u)'
    BY DEF Copies
  <2>1. CASE u = t
    BY <1>2, <1>3, <1>5, <2>1 DEF CopyOf
  <2>2. CASE u # t
    BY <1>2, <1>3, <1>5, <2>2 DEF IndexInv, Copies, CopyOf
  <2> QED
    BY <2>1, <2>2
<1>9. Room'
  BY <1>2, <1>3 DEF IndexInv, Room
<1>10. Placed'
  <2>1. \A u \in Threads : pc[u] # "store" /\ pc'[u] # "store"
    BY <1>3 DEF Writing
  <2> QED
    BY <1>2, <2>1 DEF IndexInv, Placed
<1>11. AnswersStayValid'
  BY <1>2, <1>4, <1>6 DEF IndexInv, AnswersStayValid
<1> QED
  BY <1>3, <1>7, <1>8, <1>9, <1>10, <1>11 DEF IndexInv

(* kc_hnsw_close, when no thread is inside a call. *)
LEMMA CloseInv ==
  ASSUME IndexInv, HnswClose
  PROVE  IndexInv'
<1>1. /\ UNCHANGED <<writer, readers, pc, copy, answer, rebuilt, overrun>>
      /\ \A u \in Threads : pc[u] = "out"
      /\ items' = <<>> /\ allocated' = 0 /\ capacity' = 0 /\ entrySet' = FALSE
      /\ live' = live \ Range(items) /\ closed' = TRUE
  BY DEF HnswClose, lock, locals
<1>2. items' \in Seq(Items) /\ Len(items') = 0
  BY <1>1
<1>3. live' = {}
  <2>1. \A x \in Items : x \in live => \E k \in 1..Len(items) : items[k] = x
    BY <1>1 DEF IndexInv, Placed
  <2>2. live \subseteq Items /\ DOMAIN items = 1..Len(items)
    BY LenProperties DEF IndexInv, Shape
  <2> QED
    BY <1>1, <2>1, <2>2 DEF Range
<1>4. Shape'
  <2>1. closed' \in BOOLEAN /\ entrySet' \in BOOLEAN
    BY <1>1
  <2> QED
    BY <1>1, <1>2, <1>3, <2>1 DEF IndexInv, Shape
<1>5. Locking'
  BY <1>1 DEF IndexInv, Locking
<1>6. Copies'
  BY <1>1 DEF IndexInv, Copies, CopyOf
<1>7. Room'
  BY <1>1, <1>2 DEF IndexInv, Room
<1>8. Placed'
  BY <1>1, <1>2, <1>3 DEF IndexInv, Placed
<1>9. AnswersStayValid'
  BY <1>1 DEF AnswersStayValid
<1> QED
  BY <1>4, <1>5, <1>6, <1>7, <1>8, <1>9 DEF IndexInv

LEMMA NextInv == IndexInv /\ [Next]_vars => IndexInv'
<1> SUFFICES ASSUME IndexInv, [Next]_vars PROVE IndexInv'
  OBVIOUS
<1>1. CASE UNCHANGED vars
  <2>1. UNCHANGED <<items, capacity, allocated, entrySet, writer, readers, pc,
                    copy, answer, live, rebuilt, overrun, closed>>
    BY <1>1 DEF vars, index, lock, locals, ghosts
  <2>2. Shape'
    BY <2>1 DEF IndexInv, Shape
  <2>3. Locking' /\ Copies' /\ Room'
    BY <2>1 DEF IndexInv, Locking, Copies, CopyOf, Room
  <2>4. Placed' /\ AnswersStayValid'
    BY <2>1 DEF IndexInv, Placed, AnswersStayValid
  <2> QED
    BY <2>2, <2>3, <2>4 DEF IndexInv
<1>2. CASE HnswClose
  BY <1>2, CloseInv
<1>3. ASSUME NEW t \in Threads, Calls(t) \/ Acquire(t) \/ Step(t)
      PROVE  IndexInv'
  BY <1>3, LockInv, GrowInv, AddInv, BuildInv, CompareInv, AnswerInv DEF Step
<1> QED
  BY <1>1, <1>2, <1>3 DEF Next

LEMMA SpecInv == Spec => []IndexInv
BY InitInv, NextInv, PTL DEF Spec

(***************************************************************************)
(* What the invariant says of the properties.                              *)
(***************************************************************************)

(* The state stays well formed; the array never holds more items than      *)
(* there are, since it holds each at most once.                            *)
THEOREM TypeCorrect == Spec => []TypeOK
<1>1. IndexInv => TypeOK
  <2> SUFFICES ASSUME IndexInv PROVE Len(items) <= MaxItems
    BY DEF IndexInv, Shape, Locking, TypeOK
  <2>1. /\ Len(items) \in Nat /\ MaxItems \in Nat
        /\ items \in [1..Len(items) -> Items]
    BY BoundAssumption, LenProperties DEF IndexInv, Shape
  <2>2. items \in Injection(1..Len(items), Items)
    BY <2>1 DEF Injection, IsInjective, IndexInv, Placed
  <2>3. /\ IsFiniteSet(Items) /\ Cardinality(Items) = MaxItems
        /\ Cardinality(1..Len(items)) = Len(items)
    <3>1. \A n \in Nat : IsFiniteSet(1..n) /\ Cardinality(1..n) = n
      <4> TAKE n \in Nat
      <4>1. /\ IsFiniteSet(1..n)
            /\ Cardinality(1..n) = IF 1 > n THEN 0 ELSE n - 1 + 1
        BY FS_Interval
      <4> QED
        BY <4>1
    <3> QED
      BY <2>1, <3>1 DEF Items
  <2> QED
    BY <2>2, <2>3, FS_Injection
<1> QED
  BY <1>1, SpecInv, PTL

(* Whatever threads add, build and search at the same time, and wherever   *)
(* memory runs out: every copy is in the array once or in the hands of the *)
(* thread that adds it.                                                    *)
THEOREM ItemsAreOwned == Spec => []Owned
<1>1. IndexInv => Owned
  <2> SUFFICES ASSUME IndexInv PROVE Owned
    OBVIOUS
  <2> DEFINE held == UNION {Range(copy[t]) :
                              t \in {u \in Threads : pc[u] = "store"}}
  <2>1. /\ items \in Seq(Items) /\ DOMAIN items = 1..Len(items)
        /\ live \subseteq Items /\ copy \in [Threads -> Seq(Items)]
        /\ \A k \in 1..Len(items) : items[k] \in Items
    BY LenProperties, ElementOfSeq DEF IndexInv, Shape
  <2>2. ASSUME NEW t \in Threads, pc[t] = "store"
        PROVE  Range(copy[t]) = {copy[t][1]} /\ copy[t][1] \in Items
    <3>1. Len(copy[t]) = 1 /\ copy[t] \in Seq(Items)
      BY <2>1, <2>2 DEF IndexInv, Copies, CopyOf
    <3>2. DOMAIN copy[t] = {1} /\ copy[t][1] \in Items
      BY <3>1, LenProperties, ElementOfSeq
    <3> QED
      BY <3>2 DEF Range
  <2>3. \A x : x \in held <=>
          \E t \in Threads : pc[t] = "store" /\ copy[t][1] = x
    <3>1. \A x : x \in held <=>
            \E t \in Threads : pc[t] = "store" /\ x \in Range(copy[t])
      OBVIOUS
    <3> QED
      BY <2>2, <3>1
  <2>4. \A x : x \in Range(items) <=> \E k \in 1..Len(items) : items[k] = x
    BY <2>1 DEF Range
  <2>5. held \subseteq Items /\ Range(items) \subseteq Items
    BY <2>1, <2>2, <2>3, <2>4
  <2> HIDE DEF held
  <2>6. live = Range(items) \cup held
    BY <2>1, <2>3, <2>4, <2>5 DEF IndexInv, Placed
  <2>7. Range(items) \cap held = {}
    BY <2>3, <2>4 DEF IndexInv, Placed
  <2> QED
    BY <2>6, <2>7 DEF Owned, IndexInv, Placed, held
<1> QED
  BY <1>1, SpecInv, PTL

(* The ids a search answered with stay valid until the index is closed.    *)
THEOREM AnswersAreValid == Spec => []AnswersStayValid
<1>1. IndexInv => AnswersStayValid
  BY DEF IndexInv
<1> QED
  BY <1>1, SpecInv, PTL

(* kc_hnsw_add writes beyond the array only after a build replaced it.     *)
THEOREM RoomUntilBuild == Spec => []RoomBeforeBuild
<1>1. IndexInv => RoomBeforeBuild
  BY DEF IndexInv, Room, Shape, RoomBeforeBuild
<1> QED
  BY <1>1, SpecInv, PTL

(***************************************************************************)
(* The index implements IndexService.                                      *)
(***************************************************************************)

(* How many threads have an item in the array that does not count yet. *)
Fresh(place) == Cardinality({t \in Threads : place[t] = "unset"})

(* The items that count, and the threads whose search has no answer yet. *)
StoredIn(list, place) == {list[k] : k \in 1..(Len(list) - Fresh(place))}
SearchingIn(place) ==
  {t \in Threads : place[t] \in {"searchWait"} \cup (Reading \ {"runlock"})}

LEMMA FreshIs ==
  ASSUME NEW place
  PROVE  /\ (\A t \in Threads : place[t] # "unset") => Fresh(place) = 0
         /\ \A t \in Threads :
              place[t] = "unset" /\ (\A u \in Threads : place[u] = "unset" => u = t)
                => Fresh(place) = 1
<1>1. ASSUME \A t \in Threads : place[t] # "unset"
      PROVE  {t \in Threads : place[t] = "unset"} = {}
  BY <1>1
<1>2. ASSUME NEW t \in Threads, place[t] = "unset",
             \A u \in Threads : place[u] = "unset" => u = t
      PROVE  {u \in Threads : place[u] = "unset"} = {t}
  BY <1>2
<1> QED
  BY <1>1, <1>2, FS_EmptySet, FS_Singleton DEF Fresh

(* Outside kc_hnsw_add all the items in the array count. *)
LEMMA AllStored ==
  ASSUME NEW list \in Seq(Items), NEW place,
         \A t \in Threads : place[t] # "unset"
  PROVE  /\ StoredIn(list, place) = {list[k] : k \in 1..Len(list)}
         /\ StoredIn(list, place) = {} <=> list = <<>>
<1>1. Fresh(place) = 0 /\ Len(list) \in Nat
  BY FreshIs
<1>2. StoredIn(list, place) = {list[k] : k \in 1..Len(list)}
  BY <1>1 DEF StoredIn
<1>3. ASSUME list # <<>> PROVE list[1] \in StoredIn(list, place)
  BY <1>2, <1>3, EmptySeq
<1>4. ASSUME list = <<>> PROVE StoredIn(list, place) = {}
  BY <1>2, <1>4
<1> QED
  BY <1>2, <1>3, <1>4

LEMMA Stutters ==
  ASSUME StoredIn(items', pc') = StoredIn(items, pc),
         SearchingIn(pc') = SearchingIn(pc), UNCHANGED <<entrySet, answer>>
  PROVE  UNCHANGED Service!vars
BY DEF Service!vars, StoredIn, Fresh, SearchingIn

(* Steps of a thread that neither adds an item nor asks nor answers. *)
LEMMA QuietStep ==
  ASSUME NEW t \in Threads, pc' = [pc EXCEPT ![t] = pc'[t]],
         UNCHANGED <<items, entrySet, answer>>, IndexInv,
         pc[t] # "unset" /\ pc'[t] # "unset",
         t \in SearchingIn(pc) <=> t \in SearchingIn(pc')
  PROVE  UNCHANGED Service!vars
<1>1. \A u \in Threads : u # t => pc'[u] = pc[u]
  BY DEF IndexInv, Shape
<1>2. {u \in Threads : pc'[u] = "unset"} = {u \in Threads : pc[u] = "unset"}
  BY <1>1
<1>3. SearchingIn(pc') = SearchingIn(pc)
  BY <1>1 DEF SearchingIn
<1>4. StoredIn(items', pc') = StoredIn(items, pc)
  BY <1>2 DEF StoredIn, Fresh
<1> QED
  BY <1>3, <1>4, Stutters

(* kc_hnsw_add: the item counts when the entry point has been unset. *)
LEMMA StoreRefines ==
  ASSUME IndexInv, NEW t \in Threads, AddStore(t)
  PROVE  UNCHANGED Service!vars
<1>1. /\ items' = items \o copy[t] /\ UNCHANGED <<entrySet, answer>>
      /\ pc[t] = "store" /\ pc' = [pc EXCEPT ![t] = "unset"]
  BY DEF AddStore, Goes, To
<1>2. \A u \in Threads : u # t => pc[u] \notin Writing \cup Reading
  BY <1>1, WriterAlone DEF Writing
<1>3. pc'[t] = "unset" /\ \A u \in Threads : u # t => pc'[u] = pc[u]
  BY <1>1 DEF IndexInv, Shape
<1>4. Fresh(pc) = 0 /\ Fresh(pc') = 1
  <2>1. \A u \in Threads : pc[u] # "unset"
    BY <1>1, <1>2 DEF Writing
  <2>2. \A u \in Threads : pc'[u] = "unset" => u = t
    BY <1>3, <2>1
  <2> QED
    BY <1>3, <2>1, <2>2, FreshIs
<1>5. SearchingIn(pc') = SearchingIn(pc)
  BY <1>1, <1>3 DEF SearchingIn, Reading
<1>6. /\ items \in Seq(Items) /\ copy[t] \in Seq(Items) /\ Len(copy[t]) = 1
  BY <1>1 DEF IndexInv, Shape, Copies, CopyOf
<1>7. /\ Len(items') = Len(items) + 1 /\ Len(items) \in Nat
      /\ \A k \in 1..Len(items) : items'[k] = items[k]
  BY <1>1, <1>6, ConcatOne
<1>8. StoredIn(items', pc') = StoredIn(items, pc)
  <2>1. Len(items') - Fresh(pc') = Len(items) /\ Len(items) - Fresh(pc) = Len(items)
    BY <1>4, <1>7
  <2> QED
    BY <1>7, <2>1 DEF StoredIn
<1> QED
  BY <1>1, <1>5, <1>8, Stutters

LEMMA UnsetRefines ==
  ASSUME IndexInv, NEW t \in Threads, AddUnset(t)
  PROVE  \E i \in Items : Service!Add(i)
<1>1. /\ UNCHANGED <<items, answer>> /\ entrySet' = FALSE
      /\ pc[t] = "unset" /\ pc' = [pc EXCEPT ![t] = "wunlock"]
  BY DEF AddUnset, Goes, To, locals
<1>2. \A u \in Threads : u # t => pc[u] \notin Writing \cup Reading
  BY <1>1, WriterAlone DEF Writing
<1>3. pc'[t] = "wunlock" /\ \A u \in Threads : u # t => pc'[u] = pc[u]
  BY <1>1 DEF IndexInv, Shape
<1>4. Fresh(pc) = 1 /\ Fresh(pc') = 0
  <2>1. \A u \in Threads : u # t => pc[u] # "unset"
    BY <1>2 DEF Writing
  <2>2. \A u \in Threads : pc'[u] # "unset"
    BY <1>3, <2>1
  <2> QED
    BY <1>1, <2>1, <2>2, FreshIs
<1>5. SearchingIn(pc') = SearchingIn(pc)
  BY <1>1, <1>3 DEF SearchingIn, Reading
<1>6. /\ items \in Seq(Items) /\ Len(items) \in Nat \ {0}
      /\ \A i, j \in 1..Len(items) : items[i] = items[j] => i = j
  BY <1>1, EmptySeq DEF IndexInv, Shape, Copies, CopyOf, Placed
<1> DEFINE n == Len(items)
<1>7. PICK x \in Items : x = items[n]
  BY <1>6, ElementOfSeq
<1>8. n \in 1..n /\ 1..n = 1..(n - 1) \cup {n} /\ n \notin 1..(n - 1)
      /\ 1..(n - 1) \subseteq 1..n
  BY <1>6
<1>9. /\ StoredIn(items, pc) = {items[k] : k \in 1..(n - 1)}
      /\ StoredIn(items', pc') = {items[k] : k \in 1..n}
  <2>1. Len(items) - Fresh(pc) = n - 1 /\ Len(items') - Fresh(pc') = n
    BY <1>1, <1>4, <1>6
  <2> QED
    BY <1>1, <2>1 DEF StoredIn
<1>10. x \notin StoredIn(items, pc)
  BY <1>6, <1>7, <1>9, <1>8
<1>11. StoredIn(items', pc') = StoredIn(items, pc) \cup {x}
  BY <1>7, <1>9, <1>8
<1> HIDE DEF n
<1>12. Service!Add(x)
  BY <1>1, <1>5, <1>10, <1>11, Zenon
     DEF Service!Add, StoredIn, Fresh, SearchingIn
<1> QED
  BY <1>7, <1>12

(* The shuffled copy holds the same items. *)
LEMMA BuildRefines ==
  ASSUME IndexInv, NEW t \in Threads, BuildCommit(t)
  PROVE  Service!Build
<1>1. /\ UNCHANGED answer /\ entrySet' = TRUE
      /\ pc[t] = "build" /\ pc' = [pc EXCEPT ![t] = "wunlock"]
  BY DEF BuildCommit, Goes, To
<1>2. /\ items \in Seq(Items) /\ Len(items) \in Nat /\ DOMAIN items = 1..Len(items)
      /\ copy[t] = items /\ items # <<>>
  BY <1>1, LenProperties DEF IndexInv, Shape, Copies, CopyOf
<1>3. /\ pc'[t] = "wunlock"
      /\ \A u \in Threads : u # t =>
           pc'[u] = pc[u] /\ pc[u] \notin Writing \cup Reading
  BY <1>1, WriterAlone DEF IndexInv, Shape, Writing
<1>4. \A u \in Threads : pc[u] # "unset" /\ pc'[u] # "unset"
  BY <1>1, <1>3 DEF Writing
<1>5. SearchingIn(pc') = SearchingIn(pc)
  BY <1>1, <1>3 DEF SearchingIn, Reading
<1>6. PICK p \in Bijection(1..Len(items), 1..Len(items)) :
        items' = [k \in 1..Len(items) |-> items[p[k]]]
  BY <1>2 DEF BuildCommit
<1>7. /\ \A k \in 1..Len(items) : p[k] \in 1..Len(items)
      /\ \A k \in 1..Len(items) : \E i \in 1..Len(items) : p[i] = k
  BY <1>2, Shuffle
<1>8. \A k \in 1..Len(items) : items[k] \in Items
  BY <1>2, ElementOfSeq
<1>9. /\ items' \in Seq(Items) /\ Len(items') = Len(items)
      /\ \A k \in 1..Len(items) : items'[k] = items[p[k]]
  BY <1>2, <1>6, <1>7, <1>8
<1>10. {items'[k] : k \in 1..Len(items')} = {items[k] : k \in 1..Len(items)}
  <2>1. ASSUME NEW k \in 1..Len(items)
        PROVE  items'[k] \in {items[j] : j \in 1..Len(items)}
    BY <1>7, <1>9
  <2>2. ASSUME NEW k \in 1..Len(items)
        PROVE  items[k] \in {items'[j] : j \in 1..Len(items)}
    <3>1. PICK j \in 1..Len(items) : p[j] = k
      BY <1>7
    <3>2. items'[j] = items[k]
      BY <1>9, <3>1
    <3> QED
      BY <3>2
  <2> QED
    BY <1>9, <2>1, <2>2
<1>11. /\ StoredIn(items', pc') = StoredIn(items, pc)
       /\ StoredIn(items, pc) # {}
  <2>1. /\ StoredIn(items, pc) = {items[k] : k \in 1..Len(items)}
        /\ StoredIn(items, pc) # {}
    BY <1>2, <1>4, AllStored
  <2>2. StoredIn(items', pc') = {items'[k] : k \in 1..Len(items')}
    BY <1>4, <1>9, AllStored
  <2> QED
    BY <1>10, <2>1, <2>2
<1> QED
  BY <1>1, <1>5, <1>11, Zenon
     DEF Service!Build, StoredIn, Fresh, SearchingIn

(* A search sees the items at one moment: it holds the read lock. *)
LEMMA AnswerRefines ==
  ASSUME IndexInv, NEW t \in Threads,
         SearchEmpty(t) \/ SearchRefused(t) \/ SearchFails(t) \/ SearchDone(t)
  PROVE  Service!Answer(t)
<1>1. /\ UNCHANGED <<items, entrySet>>
      /\ pc[t] \in {"look", "compare"} /\ pc' = [pc EXCEPT ![t] = "runlock"]
  BY DEF SearchEmpty, SearchRefused, SearchFails, SearchDone, Answers, Goes, To,
         index
<1>2. /\ items \in Seq(Items) /\ Len(items) \in Nat /\ DOMAIN items = 1..Len(items)
  BY LenProperties DEF IndexInv, Shape
<1>3. pc'[t] = "runlock" /\ \A u \in Threads : u # t => pc'[u] = pc[u]
  BY <1>1 DEF IndexInv, Shape
<1>4. \A u \in Threads : pc[u] # "unset" /\ pc'[u] # "unset"
  BY <1>1, <1>3, NoWriter DEF Reading, Writing
<1>5. t \in SearchingIn(pc) /\ SearchingIn(pc') = SearchingIn(pc) \ {t}
  BY <1>1, <1>3 DEF SearchingIn, Reading
<1>6. /\ StoredIn(items, pc) = {items[k] : k \in 1..Len(items)}
      /\ StoredIn(items, pc) = {} <=> items = <<>>
      /\ StoredIn(items', pc') = StoredIn(items, pc)
  <2>1. /\ StoredIn(items, pc) = {items[k] : k \in 1..Len(items)}
        /\ StoredIn(items, pc) = {} <=> items = <<>>
    BY <1>2, <1>4, AllStored
  <2>2. StoredIn(items, pc') = {items[k] : k \in 1..Len(items)}
    BY <1>2, <1>4, AllStored
  <2> QED
    BY <1>1, <2>1, <2>2
<1>7. LET stored == StoredIn(items, pc)
      IN  \/ answer' = [answer EXCEPT ![t] = IF stored = {} \/ entrySet THEN stored
                                             ELSE {Refused}]
          \/ stored # {} /\ entrySet /\ answer' = [answer EXCEPT ![t] = {NoMemory}]
  <2>1. CASE SearchEmpty(t)
    BY <1>6, <2>1 DEF SearchEmpty, Answers
  <2>2. CASE SearchRefused(t)
    BY <1>6, <2>2 DEF SearchRefused, Answers
  <2>3. CASE SearchFails(t)
    BY <1>6, <2>3 DEF SearchFails, Answers
  <2>4. CASE SearchDone(t)
    <3>1. /\ answer' = [answer EXCEPT ![t] = Range(copy[t])] /\ pc[t] = "compare"
          /\ Len(copy[t]) >= Len(items)
      BY <2>4 DEF SearchDone, Answers, Goes
    <3>2. /\ copy[t] \in Seq(Items) /\ entrySet /\ Len(copy[t]) = Len(items)
          /\ \A k \in 1..Len(copy[t]) : copy[t][k] = items[k]
      BY <1>2, <3>1 DEF IndexInv, Shape, Copies, CopyOf
    <3>3. copy[t] = items
      BY <1>2, <3>2, SeqEqual
    <3>4. Range(copy[t]) = StoredIn(items, pc)
      BY <1>2, <1>6, <3>3 DEF Range
    <3> QED
      BY <3>1, <3>2, <3>4
  <2> QED
    BY <2>1, <2>2, <2>3, <2>4
<1> QED
  BY <1>1, <1>5, <1>6, <1>7, Zenon
     DEF Service!Answer, StoredIn, Fresh, SearchingIn

LEMMA AskRefines ==
  ASSUME IndexInv, NEW t \in Threads, SearchCall(t)
  PROVE  Service!Ask(t)
<1>1. /\ UNCHANGED <<items, entrySet, answer>>
      /\ pc[t] = "out" /\ pc' = [pc EXCEPT ![t] = "searchWait"]
  BY DEF SearchCall, Goes, To, index, locals
<1>2. pc'[t] = "searchWait" /\ \A u \in Threads : u # t => pc'[u] = pc[u]
  BY <1>1 DEF IndexInv, Shape
<1>3. t \notin SearchingIn(pc) /\ SearchingIn(pc') = SearchingIn(pc) \cup {t}
  BY <1>1, <1>2 DEF SearchingIn, Reading
<1>4. {u \in Threads : pc'[u] = "unset"} = {u \in Threads : pc[u] = "unset"}
  BY <1>1, <1>2
<1>5. StoredIn(items', pc') = StoredIn(items, pc)
  BY <1>1, <1>4 DEF StoredIn, Fresh
<1> QED
  BY <1>1, <1>3, <1>5, Zenon DEF Service!Ask, StoredIn, Fresh, SearchingIn

LEMMA CloseRefines ==
  ASSUME IndexInv, HnswClose
  PROVE  Service!Close
<1>1. /\ UNCHANGED <<pc, answer>> /\ items' = <<>> /\ entrySet' = FALSE
      /\ \A t \in Threads : pc[t] = "out"
  BY DEF HnswClose, locals
<1>2. SearchingIn(pc) = {} /\ SearchingIn(pc') = {}
  BY <1>1 DEF SearchingIn, Reading
<1>3. StoredIn(items', pc') = {}
  <2>1. items' \in Seq(Items) /\ \A t \in Threads : pc'[t] # "unset"
    BY <1>1
  <2> QED
    BY <1>1, <2>1, AllStored
<1> QED
  BY <1>1, <1>2, <1>3, Zenon DEF Service!Close, StoredIn, Fresh, SearchingIn

LEMMA StepRefines ==
  IndexInv /\ [Next]_vars => [Service!Next]_(Service!vars)
<1> SUFFICES ASSUME IndexInv, [Next]_vars
             PROVE  [Service!Next]_(Service!vars)
  OBVIOUS
<1>1. CASE UNCHANGED vars
  <2>1. UNCHANGED <<items, pc, entrySet, answer>>
    BY <1>1 DEF vars, index, locals
  <2> QED
    BY <2>1, Stutters
<1>2. CASE HnswClose
  BY <1>2, CloseRefines DEF Service!Next
<1>3. ASSUME NEW t \in Threads, Calls(t) \/ Acquire(t) \/ Step(t)
      PROVE  [Service!Next]_(Service!vars)
  <2>1. CASE AddStore(t)
    BY <2>1, StoreRefines
  <2>2. CASE AddUnset(t)
    BY <2>2, UnsetRefines DEF Service!Next
  <2>3. CASE BuildCommit(t)
    BY <2>3, BuildRefines DEF Service!Next
  <2>4. CASE SearchCall(t)
    BY <2>4, AskRefines DEF Service!Next
  <2>5. CASE SearchEmpty(t) \/ SearchRefused(t) \/ SearchFails(t) \/ SearchDone(t)
    BY <2>5, AnswerRefines DEF Service!Next
  <2>6. CASE \/ ReserveCall(t) \/ AddCall(t) \/ BuildCall(t) \/ Acquire(t)
             \/ WriteUnlock(t) \/ Reserve(t) \/ ReserveFails(t) \/ AddGrow(t)
             \/ AddGrowFails(t) \/ AddDuplicate(t) \/ AddDuplicateFails(t)
             \/ BuildNothing(t) \/ BuildCopy(t) \/ BuildFails(t)
             \/ SearchStart(t) \/ SearchCompare(t) \/ ReadUnlock(t)
    <3>1. /\ pc' = [pc EXCEPT ![t] = pc'[t]]
          /\ UNCHANGED <<items, entrySet, answer>>
          /\ pc[t] # "unset" /\ pc'[t] # "unset"
          /\ t \in SearchingIn(pc) <=> t \in SearchingIn(pc')
      BY <2>6
         DEF ReserveCall, AddCall, BuildCall, Acquire, WriteLock, SearchLock,
             WriteUnlock, Reserve, ReserveFails, AddGrow, AddGrowFails,
             AddDuplicate, AddDuplicateFails, BuildNothing, BuildCopy,
             BuildFails, SearchStart, SearchCompare, ReadUnlock, Goes, To,
             index, locals, SearchingIn, Reading, IndexInv, Shape
    <3> QED
      BY <3>1, QuietStep
  <2> QED
    BY <1>3, <2>1, <2>2, <2>3, <2>4, <2>5, <2>6 DEF Calls, Step
<1> QED
  BY <1>1, <1>2, <1>3 DEF Next

(* The lock makes the calls of concurrent threads atomic: every behaviour  *)
(* of the index is one of IndexService, for any number of threads.         *)
THEOREM IndexIsService == Spec => ImplementsIndex
<1>1. Init => Service!Init
  <2> SUFFICES ASSUME Init PROVE Service!Init
    OBVIOUS
  <2>1. /\ items = <<>> /\ entrySet = FALSE /\ answer = [t \in Threads |-> {}]
        /\ \A t \in Threads : pc[t] = "out"
    BY DEF Init
  <2>2. SearchingIn(pc) = {}
    BY <2>1 DEF SearchingIn, Reading
  <2>3. StoredIn(items, pc) = {}
    <3>1. items \in Seq(Items) /\ \A t \in Threads : pc[t] # "unset"
      BY <2>1
    <3> QED
      BY <2>1, <3>1, AllStored
  <2> QED
    BY <2>1, <2>2, <2>3, Zenon DEF Service!Init, StoredIn, Fresh, SearchingIn
<1> QED
  BY <1>1, SpecInv, StepRefines, PTL DEF Spec, ImplementsIndex, Service!Spec

=============================================================================
