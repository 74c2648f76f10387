----------------------------- MODULE HnswIndex -----------------------------
(***************************************************************************)
(* The items of one vector index of lib/libhnsw.c and the read-write lock  *)
(* around them: kc_hnsw_reserve, kc_hnsw_add, kc_hnsw_build,               *)
(* kc_hnsw_search and kc_hnsw_close called by several threads.  The graph  *)
(* itself is module HnswGraph; here a build is a copy of the items, a      *)
(* shuffle of the copy, and its installation, and a search compares the    *)
(* items one after the other (the path for up to 1024 items).              *)
(*                                                                         *)
(* An item stands for its copied id and vector.  A write beyond the items  *)
(* array is undefined, so the model stops there, in overrun.               *)
(***************************************************************************)
EXTENDS Naturals, Sequences, FiniteSets, Functions

CONSTANTS
  Threads,        \* the threads that share the index
  NoThread,
  MaxItems,       \* bound on the items that are added
  FirstCapacity,  \* the capacity the first item asks for: 8 in the code
  Reserves,       \* the capacities kc_hnsw_reserve is called with
  Refused,        \* KC_HNSW_ESTATE
  NoMemory        \* KC_HNSW_ENOMEM

ASSUME ThreadAssumption == NoThread \notin Threads
ASSUME BoundAssumption  ==
  MaxItems \in Nat /\ FirstCapacity \in Nat \ {0} /\ Reserves \subseteq Nat

VARIABLES
  items,          \* the entries in use: hnsw->items up to hnsw->count
  capacity,       \* hnsw->capacity
  allocated,      \* the entries the items array really has
  entrySet,       \* hnsw->entry_point_set
  writer, readers,\* who holds the lock
  pc,             \* what each thread is doing
  copy,           \* the items it has copied or compared so far
  answer,         \* what its last search returned
  \* history
  live,           \* the item copies that have not been freed
  rebuilt,        \* whether a build ever replaced the array
  overrun,        \* whether an item was written beyond the array
  closed

index  == <<items, capacity, allocated, entrySet>>
lock   == <<writer, readers>>
locals == <<copy, answer>>
ghosts == <<live, rebuilt, overrun, closed>>
vars   == <<index, lock, pc, locals, ghosts>>

Items == 1..MaxItems

Waiting  == {"addWait", "buildWait", "reserveWait"}
Writing  == {"grow", "duplicate", "store", "unset", "allocate", "build",
             "reserve", "wunlock"}
Reading  == {"look", "compare", "runlock"}

TypeOK ==
  /\ items \in Seq(Items) /\ Len(items) <= MaxItems
  /\ capacity \in Nat /\ allocated \in 0..capacity /\ entrySet \in BOOLEAN
  /\ writer \in Threads \cup {NoThread} /\ readers \subseteq Threads
  /\ writer # NoThread => readers = {}
  /\ pc \in [Threads -> {"out", "searchWait"} \cup Waiting \cup Writing
                          \cup Reading]
  /\ copy \in [Threads -> Seq(Items)]
  /\ answer \in [Threads -> (SUBSET Items) \cup {{Refused}, {NoMemory}}]
  /\ live \subseteq Items
  /\ rebuilt \in BOOLEAN /\ overrun \in BOOLEAN /\ closed \in BOOLEAN

(* kc_hnsw_open. *)
Init ==
  /\ items = <<>> /\ capacity = 0 /\ allocated = 0 /\ entrySet = FALSE
  /\ writer = NoThread /\ readers = {}
  /\ pc = [t \in Threads |-> "out"]
  /\ copy = [t \in Threads |-> <<>>] /\ answer = [t \in Threads |-> {}]
  /\ live = {} /\ rebuilt = FALSE /\ overrun = FALSE /\ closed = FALSE

running == ~overrun /\ ~closed

To(t, where) == pc' = [pc EXCEPT ![t] = where]
Goes(t, from, where) == running /\ pc[t] = from /\ To(t, where)

-----------------------------------------------------------------------------
(* kc_hnsw_wlock, and kc_hnsw_wunlock just before a writing call returns. *)
WriteLock(t, wait, where) ==
  /\ Goes(t, wait, where)
  /\ writer = NoThread /\ readers = {} /\ writer' = t
  /\ UNCHANGED <<index, readers, locals, ghosts>>

WriteUnlock(t) ==
  /\ Goes(t, "wunlock", "out")
  /\ writer' = NoThread
  /\ UNCHANGED <<index, readers, locals, ghosts>>

-----------------------------------------------------------------------------
(* kc_hnsw_reserve_locked: the array is reallocated only to grow. *)
ReserveLocked(c) ==
  IF c <= capacity THEN UNCHANGED <<capacity, allocated>>
                   ELSE capacity' = c /\ allocated' = c

ReserveCall(t) ==
  /\ Goes(t, "out", "reserveWait")
  /\ UNCHANGED <<index, lock, locals, ghosts>>

Reserve(t) ==
  /\ Goes(t, "reserve", "wunlock")
  /\ \E c \in Reserves : ReserveLocked(c)
  /\ UNCHANGED <<items, entrySet, lock, locals, ghosts>>

ReserveFails(t) ==
  /\ Goes(t, "reserve", "wunlock")
  /\ \E c \in Reserves : c > capacity
  /\ UNCHANGED <<index, lock, locals, ghosts>>

-----------------------------------------------------------------------------
(* kc_hnsw_add. *)
AddCall(t) ==
  /\ Goes(t, "out", "addWait")
  /\ Len(items) + Cardinality({u \in Threads : pc[u] \in
       {"addWait", "grow", "duplicate", "store"}}) < MaxItems
  /\ UNCHANGED <<index, lock, locals, ghosts>>

MutAddGrow(t) ==
  /\ Goes(t, "grow", "duplicate")
  /\ IF Len(items) = capacity + 1
     THEN ReserveLocked(IF capacity = 0 THEN FirstCapacity ELSE 2 * capacity)
     ELSE UNCHANGED <<capacity, allocated>>
  /\ UNCHANGED <<items, entrySet, lock, locals, ghosts>>

AddGrow(t) ==
  /\ Goes(t, "grow", "duplicate")
  /\ IF Len(items) = capacity
     THEN ReserveLocked(IF capacity = 0 THEN FirstCapacity ELSE 2 * capacity)
     ELSE UNCHANGED <<capacity, allocated>>
  /\ UNCHANGED <<items, entrySet, lock, locals, ghosts>>

MutAddGrowFails(t) ==
  /\ Goes(t, "grow", "out")
  /\ Len(items) = capacity
  /\ UNCHANGED <<index, lock, locals, ghosts>>

AddGrowFails(t) ==
  /\ Goes(t, "grow", "wunlock")
  /\ Len(items) = capacity
  /\ UNCHANGED <<index, lock, locals, ghosts>>

(* The id and the vector are copied. *)
AddDuplicate(t) ==
  /\ Goes(t, "duplicate", "store")
  /\ \E i \in Items :
       /\ i \notin live /\ \A j \in Items : j < i => j \in live
       /\ live' = live \cup {i} /\ copy' = [copy EXCEPT ![t] = <<i>>]
  /\ UNCHANGED <<index, lock, answer, rebuilt, overrun, closed>>

MutAddDuplicateFails(t) ==
  /\ Goes(t, "duplicate", "wunlock")
  /\ \E i \in Items \ live : live' = live \cup {i}
  /\ UNCHANGED <<index, lock, locals, rebuilt, overrun, closed>>

(* There is no memory for the id; or there is none for the vector, and the *)
(* copy of the id is freed.                                                *)
AddDuplicateFails(t) ==
  /\ Goes(t, "duplicate", "wunlock")
  /\ UNCHANGED <<index, lock, locals, ghosts>>

(* The entry at count is written and count goes up. *)
AddStore(t) ==
  /\ Goes(t, "store", "unset")
  /\ overrun' = (Len(items) >= allocated)
  /\ items' = items \o copy[t] /\ copy' = [copy EXCEPT ![t] = <<>>]
  /\ UNCHANGED <<capacity, allocated, entrySet, lock, answer, live,
                 rebuilt, closed>>

MutAddUnset(t) ==
  /\ Goes(t, "unset", "wunlock")
  /\ UNCHANGED <<index, lock, locals, ghosts>>

AddUnset(t) ==
  /\ Goes(t, "unset", "wunlock")
  /\ entrySet' = FALSE
  /\ UNCHANGED <<items, capacity, allocated, lock, locals, ghosts>>

-----------------------------------------------------------------------------
(* kc_hnsw_build. *)
BuildCall(t) ==
  /\ Goes(t, "out", "buildWait")
  /\ UNCHANGED <<index, lock, locals, ghosts>>

BuildNothing(t) ==
  /\ Goes(t, "allocate", "wunlock") /\ items = <<>>
  /\ UNCHANGED <<index, lock, locals, ghosts>>

BuildCopy(t) ==
  /\ Goes(t, "allocate", "build") /\ items # <<>>
  /\ copy' = [copy EXCEPT ![t] = items]
  /\ UNCHANGED <<index, lock, answer, ghosts>>

MutBuildFails(t) ==
  /\ \/ Goes(t, "allocate", "wunlock") /\ items # <<>>
     \/ Goes(t, "build", "wunlock")
  /\ live' = live \ Range(copy[t])
  /\ copy' = [copy EXCEPT ![t] = <<>>]
  /\ UNCHANGED <<index, lock, answer, rebuilt, overrun, closed>>

(* No memory, at any point: the copy is freed and the index is as it was. *)
BuildFails(t) ==
  /\ \/ Goes(t, "allocate", "wunlock") /\ items # <<>>
     \/ Goes(t, "build", "wunlock")
  /\ copy' = [copy EXCEPT ![t] = <<>>]
  /\ UNCHANGED <<index, lock, answer, ghosts>>

(* The shuffled copy, which has room for exactly these items, replaces the *)
(* array; capacity is not touched.                                         *)
BuildCommit(t) ==
  /\ Goes(t, "build", "wunlock")
  /\ \E p \in Bijection(DOMAIN copy[t], DOMAIN copy[t]) :
       items' = [k \in DOMAIN copy[t] |-> copy[t][p[k]]]
  /\ allocated' = Len(copy[t]) /\ entrySet' = TRUE
  /\ copy' = [copy EXCEPT ![t] = <<>>] /\ rebuilt' = TRUE
  /\ UNCHANGED <<capacity, lock, answer, live, overrun, closed>>

-----------------------------------------------------------------------------
(* kc_hnsw_search. *)
SearchCall(t) ==
  /\ Goes(t, "out", "searchWait")
  /\ UNCHANGED <<index, lock, locals, ghosts>>

SearchLock(t) ==
  /\ Goes(t, "searchWait", "look")
  /\ writer = NoThread /\ readers' = readers \cup {t}
  /\ UNCHANGED <<index, writer, locals, ghosts>>

Answers(t, from, a) ==
  /\ Goes(t, from, "runlock")
  /\ answer' = [answer EXCEPT ![t] = a]
  /\ copy' = [copy EXCEPT ![t] = <<>>]
  /\ UNCHANGED <<index, lock, ghosts>>

SearchEmpty(t)   == items = <<>> /\ Answers(t, "look", {})
SearchRefused(t) == items # <<>> /\ ~entrySet /\ Answers(t, "look", {Refused})
SearchFails(t)   == items # <<>> /\ entrySet /\ Answers(t, "look", {NoMemory})

SearchStart(t) ==
  /\ Goes(t, "look", "compare") /\ items # <<>> /\ entrySet
  /\ UNCHANGED <<index, lock, locals, ghosts>>

SearchCompare(t) ==
  /\ Goes(t, "compare", "compare") /\ Len(copy[t]) < Len(items)
  /\ copy' = [copy EXCEPT ![t] = Append(@, items[Len(@) + 1])]
  /\ UNCHANGED <<index, lock, answer, ghosts>>

SearchDone(t) ==
  /\ Len(copy[t]) >= Len(items)
  /\ Answers(t, "compare", Range(copy[t]))

ReadUnlock(t) ==
  /\ Goes(t, "runlock", "out")
  /\ readers' = readers \ {t}
  /\ UNCHANGED <<index, writer, locals, ghosts>>

-----------------------------------------------------------------------------
(* kc_hnsw_close: not called while a thread holds the index (hnsw.h). *)
HnswClose ==
  /\ running /\ \A t \in Threads : pc[t] = "out"
  /\ items' = <<>> /\ allocated' = 0 /\ capacity' = 0 /\ entrySet' = FALSE
  /\ live' = live \ Range(items) /\ closed' = TRUE
  /\ UNCHANGED <<lock, pc, locals, rebuilt, overrun>>

Acquire(t) ==
  \/ WriteLock(t, "addWait", "grow") \/ WriteLock(t, "buildWait", "allocate")
  \/ WriteLock(t, "reserveWait", "reserve") \/ SearchLock(t)

Step(t) ==
  \/ WriteUnlock(t) \/ Reserve(t) \/ ReserveFails(t)
  \/ AddGrow(t) \/ AddGrowFails(t) \/ AddDuplicate(t) \/ AddDuplicateFails(t)
  \/ AddStore(t) \/ AddUnset(t)
  \/ BuildNothing(t) \/ BuildCopy(t) \/ BuildFails(t) \/ BuildCommit(t)
  \/ SearchEmpty(t) \/ SearchRefused(t) \/ SearchFails(t) \/ SearchStart(t)
  \/ SearchCompare(t) \/ SearchDone(t) \/ ReadUnlock(t)

Calls(t) == ReserveCall(t) \/ AddCall(t) \/ BuildCall(t) \/ SearchCall(t)

Next == HnswClose \/ \E t \in Threads : Calls(t) \/ Acquire(t) \/ Step(t)

Fairness == \A t \in Threads : WF_vars(Step(t)) /\ SF_vars(Acquire(t))

Spec == Init /\ [][Next]_vars /\ Fairness

-----------------------------------------------------------------------------
(* Every copy of an id is in the array exactly once or in the hands of the *)
(* kc_hnsw_add that made it, through growth, failed additions, failed      *)
(* builds and shuffles: nothing leaks, nothing is freed twice.             *)
Owned ==
  LET held == UNION {Range(copy[t]) : t \in {u \in Threads : pc[u] = "store"}}
  IN  /\ live = Range(items) \cup held
      /\ \A i \in 1..Len(items) : \A j \in 1..Len(items) :
           items[i] = items[j] => i = j
      /\ Range(items) \cap held = {}

(* The ids a search handed out are pointers into the index: they stay      *)
(* valid until kc_hnsw_close, whatever is added or built in between.       *)
AnswersStayValid ==
  \A t \in Threads :
    ~closed /\ answer[t] \notin {{Refused}, {NoMemory}}
      => answer[t] \subseteq live

(* As long as no build has replaced the array, which is how libipa uses    *)
(* the index, kc_hnsw_add never writes beyond it.  After a build that may  *)
(* happen: capacity then exceeds what the array has room for.              *)
RoomBeforeBuild == overrun \/ allocated < capacity => rebuilt

(* What hnsw.h says of kc_hnsw_add, which "inserts one vector and its      *)
(* identifier into the index", at any time, and of kc_hnsw_reserve, whose  *)
(* capacity it relies on.  The code violates it after a build.             *)
AddStaysInside == ~overrun

(* Every call returns.  Searches do whatever the others do; a call that    *)
(* needs the write lock does unless readers keep overlapping for ever,     *)
(* since a read lock is granted while writers wait.                        *)
CallsReturn ==
  \A t \in Threads :
    /\ pc[t] \in {"searchWait"} \cup Reading ~> pc[t] = "out" \/ overrun
    /\ []<>(readers = {}) =>
         (pc[t] \in Waiting \cup Writing ~> pc[t] = "out" \/ overrun)

(* The lock makes the calls atomic: the index implements IndexService.  An *)
(* item counts as added when kc_hnsw_add has also unset the entry point.   *)
Service == INSTANCE IndexService WITH
  Refused   <- {Refused},
  NoMemory  <- {NoMemory},
  stored    <- {items[k] : k \in 1..(Len(items) -
                  Cardinality({t \in Threads : pc[t] = "unset"}))},
  ready     <- entrySet,
  searching <- {t \in Threads : pc[t] \in {"searchWait"} \cup
                                          (Reading \ {"runlock"})}

ImplementsIndex == Service!Spec

=============================================================================
