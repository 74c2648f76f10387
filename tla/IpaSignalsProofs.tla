-------------------------- MODULE IpaSignalsProofs --------------------------
(***************************************************************************)
(* Proofs about the signal registry, for any schemas, signals and          *)
(* callbacks.                                                              *)
(***************************************************************************)
EXTENDS IpaSignals, SequenceTheorems, TLAPS

(***************************************************************************)
(* The inductive invariant.  While an entry is removed one place of the    *)
(* array is a hole; all the other entries in use are as registered.        *)
(***************************************************************************)
Adding == {"grow", "grown", "sig", "cb", "count"}

Hole(x) ==
  IF call.x # x THEN 0
  ELSE IF call.pc \in {"moveSig", "moveCb"} THEN call.i
  ELSE IF call.pc = "shrink" THEN n[x] ELSE 0

Solid(x) == 1..n[x] \ {Hole(x)}

(* The call under way knows where it is. *)
CallInv ==
  /\ call.pc \in {"moveSig", "moveCb"} => call.i \in 1..(n[call.x] - 1)
  /\ call.pc = "moveCb" =>
       handlers[call.x][call.i].sig = handlers[call.x][call.i + 1].sig
  /\ call.pc = "shrink" => n[call.x] >= 1
  /\ call.pc \in Removing => call.sig \in Signals
  /\ call.pc \in Adding =>
       /\ call.sig \in Signals /\ call.cb \in Callbacks
       /\ table[call.x][call.sig] = NoCallback
       /\ call.i = n[call.x] + 1
  /\ call.pc = "grow" => n[call.x] = Len(handlers[call.x])
  /\ call.pc \in Adding \ {"grow"} => call.i <= Len(handlers[call.x])
  /\ call.pc \in {"cb", "count"} => handlers[call.x][call.i].sig = call.sig
  /\ call.pc = "count" => handlers[call.x][call.i].cb = call.cb
  /\ call.pc \in Closing => life[call.x] # "freed"

RegisteredIn(x) ==
  /\ \A i \in Solid(x) :
       /\ handlers[x][i].sig \in Signals /\ handlers[x][i].cb \in Callbacks
       /\ table[x][handlers[x][i].sig] = handlers[x][i].cb
  /\ \A i, j \in Solid(x) : handlers[x][i].sig = handlers[x][j].sig => i = j
  /\ \A s \in Signals :
       table[x][s] # NoCallback =>
         \/ \E i \in Solid(x) : handlers[x][i].sig = s
         \/ call.x = x /\ call.pc \in Removing /\ call.sig = s
  /\ call.x = x /\ call.pc \in Removing =>
       \A i \in Solid(x) : handlers[x][i].sig # call.sig

(* A dispatch that nothing has disturbed. *)
Undisturbed == ~shifted /\ life[disp.x] # "freed"

DispatchInv ==
  /\ disp.pc \in {"test", "call"} => disp.cb = NoCallback
  /\ disp.pc = "test" => disp.i >= 1
  /\ disp.pc = "call" /\ life[disp.x] # "freed" =>
       disp.i \in 1..Len(handlers[disp.x])
  /\ disp.pc \in {"test", "call"} /\ Undisturbed =>
       /\ table[disp.x][disp.sig] \in during
       /\ ~(call.x = disp.x /\ call.pc \in Removing)
  /\ disp.pc = "test" /\ Undisturbed =>
       /\ disp.i \in 1..(n[disp.x] + 1)
       /\ \A j \in 1..(disp.i - 1) : handlers[disp.x][j].sig # disp.sig
  /\ disp.pc = "call" /\ Undisturbed =>
       /\ disp.i \in 1..n[disp.x]
       /\ handlers[disp.x][disp.i].sig = disp.sig

(* The entries in use, and the one a dispatch has chosen, which may be in  *)
(* use no longer, have a callback.                                         *)
StoredInv ==
  /\ \A x \in Schemas : \A i \in 1..n[x] : handlers[x][i].cb # Junk
  /\ disp.pc = "call" /\ life[disp.x] # "freed" =>
       handlers[disp.x][disp.i].cb # Junk
  /\ CallsStored

SigInv ==
  /\ TypeOK /\ n \in [Schemas -> Nat]
  /\ CallInv /\ (\A x \in Schemas : RegisteredIn(x))
  /\ DispatchInv /\ CallsRegistered /\ StoredInv

-----------------------------------------------------------------------------
(* What the type invariant says of the fields of a call and of a dispatch. *)
CallRecord ==
  [pc : Removing \cup Growing \cup Closing \cup {"sig", "cb", "count"},
   x : Schemas, sig : Signals \cup {Junk},
   cb : Callbacks \cup {NoCallback}, i : Nat]

USE DEF CallRecord, Closing

LEMMA CallFields ==
  ASSUME TypeOK
  PROVE  /\ call.pc = "idle" => call = Idle
         /\ call.pc # "idle" =>
              call \in CallRecord
BY DEF TypeOK, Idle, Removing, Growing

LEMMA DispFields ==
  ASSUME TypeOK
  PROVE  /\ disp.pc = "idle" => disp = Idle
         /\ disp.pc # "idle" =>
              disp \in [pc : {"test", "call", "return"}, x : Schemas,
                        sig : Signals, cb : Callbacks \cup {NoCallback, Junk},
                        i : Nat]
BY DEF TypeOK, Idle

(* What a store into one half of an entry does to the arrays. *)
SigStore(x, i, v) == handlers' = [handlers EXCEPT ![x][i].sig = v]
CbStore(x, i, v)  == handlers' = [handlers EXCEPT ![x][i].cb = v]

LEMMA SigStored ==
  ASSUME handlers \in [Schemas -> Seq(Entry)], NEW x \in Schemas,
         NEW i \in 1..Len(handlers[x]), NEW v \in Signals \cup {Junk},
         SigStore(x, i, v)
  PROVE  /\ handlers' \in [Schemas -> Seq(Entry)]
         /\ \A y \in Schemas : y # x => handlers'[y] = handlers[y]
         /\ Len(handlers'[x]) = Len(handlers[x])
         /\ \A j \in 1..Len(handlers[x]) :
              /\ handlers'[x][j].cb = handlers[x][j].cb
              /\ handlers'[x][j].sig = IF j = i THEN v ELSE handlers[x][j].sig
<1>1. handlers[x] \in Seq(Entry) /\ handlers[x][i] \in Entry
  BY ElementOfSeq
<1>2. handlers'[x] = [handlers[x] EXCEPT ![i] = [handlers[x][i] EXCEPT !.sig = v]]
  BY DEF SigStore
<1>3. [handlers[x][i] EXCEPT !.sig = v] \in Entry
  BY <1>1 DEF Entry
<1>4. handlers'[x] \in Seq(Entry) /\ Len(handlers'[x]) = Len(handlers[x])
  BY <1>1, <1>2, <1>3, ExceptSeq
<1>5. \A j \in 1..Len(handlers[x]) :
        /\ handlers'[x][j].cb = handlers[x][j].cb
        /\ handlers'[x][j].sig = IF j = i THEN v ELSE handlers[x][j].sig
  BY <1>1, <1>2, ElementOfSeq DEF Entry
<1> QED
  BY <1>4, <1>5 DEF SigStore

LEMMA CbStored ==
  ASSUME handlers \in [Schemas -> Seq(Entry)], NEW x \in Schemas,
         NEW i \in 1..Len(handlers[x]), NEW v \in Callbacks \cup {Junk},
         CbStore(x, i, v)
  PROVE  /\ handlers' \in [Schemas -> Seq(Entry)]
         /\ \A y \in Schemas : y # x => handlers'[y] = handlers[y]
         /\ Len(handlers'[x]) = Len(handlers[x])
         /\ \A j \in 1..Len(handlers[x]) :
              /\ handlers'[x][j].sig = handlers[x][j].sig
              /\ handlers'[x][j].cb = IF j = i THEN v ELSE handlers[x][j].cb
<1>1. handlers[x] \in Seq(Entry) /\ handlers[x][i] \in Entry
  BY ElementOfSeq
<1>2. handlers'[x] = [handlers[x] EXCEPT ![i] = [handlers[x][i] EXCEPT !.cb = v]]
  BY DEF CbStore
<1>3. [handlers[x][i] EXCEPT !.cb = v] \in Entry
  BY <1>1 DEF Entry
<1>4. handlers'[x] \in Seq(Entry) /\ Len(handlers'[x]) = Len(handlers[x])
  BY <1>1, <1>2, <1>3, ExceptSeq
<1>5. \A j \in 1..Len(handlers[x]) :
        /\ handlers'[x][j].sig = handlers[x][j].sig
        /\ handlers'[x][j].cb = IF j = i THEN v ELSE handlers[x][j].cb
  BY <1>1, <1>2, ElementOfSeq DEF Entry
<1> QED
  BY <1>4, <1>5 DEF CbStore

-----------------------------------------------------------------------------
(* The type invariant, action by action. *)
Shape == TypeOK /\ n \in [Schemas -> Nat]

LEMMA RegisterTypes ==
  ASSUME SigInv, NEW x \in Schemas, NEW s \in Signals,
         NEW c \in Callbacks \cup {NoCallback}, Registers(x, s, c)
  PROVE  /\ table' \in [Schemas -> [Signals -> Callbacks \cup {NoCallback}]]
         /\ during' \subseteq Callbacks \cup {NoCallback}
         /\ table'[x][s] = c
         /\ \A r \in Signals : r # s => table'[x][r] = table[x][r]
         /\ \A y \in Schemas : y # x => table'[y] = table[y]
<1>1. table' \in [Schemas -> [Signals -> Callbacks \cup {NoCallback}]]
  BY DEF SigInv, TypeOK, Registers
<1>2. during' \subseteq Callbacks \cup {NoCallback}
  BY DEF SigInv, TypeOK, Registers
<1> QED
  BY <1>1, <1>2 DEF SigInv, TypeOK, Registers

LEMMA ShiftTypes ==
  ASSUME SigInv, NEW x, Shifts(x)
  PROVE  shifted' \in BOOLEAN
BY DEF SigInv, TypeOK, Shifts

(* The entries found are in use, and so is the first of them. *)
LEMMA FirstFound ==
  ASSUME SigInv, NEW x \in Schemas, NEW s \in Signals, Found(x, s) # {},
         call.pc = "idle"
  PROVE  /\ FirstOf(Found(x, s)) \in 1..n[x]
         /\ handlers[x][FirstOf(Found(x, s))].sig = s
         /\ Solid(x) = 1..n[x]
<1>1. Solid(x) = 1..n[x]
  BY DEF SigInv, Solid, Hole
<1>2. \A i, j \in Found(x, s) : i = j
  BY <1>1 DEF SigInv, RegisteredIn, Found
<1>3. PICK i \in Found(x, s) : TRUE
  OBVIOUS
<1>4. i \in Nat /\ \A j \in Found(x, s) : i <= j
  BY <1>2, <1>3 DEF Found, SigInv
<1>5. FirstOf(Found(x, s)) \in Found(x, s)
  BY <1>3, <1>4 DEF FirstOf
<1> QED
  BY <1>1, <1>5 DEF Found

(***************************************************************************)
(* What an action has to show of the rest of the invariant when it         *)
(* disturbs neither the dispatch nor the entries of a schema.              *)
(***************************************************************************)
ArraysStay ==
  \A y \in Schemas : life'[y] # "freed" =>
    life[y] # "freed" /\ 1..Len(handlers[y]) \subseteq 1..Len(handlers'[y])

(* A callback once stored is there, and the entries in use have one. *)
StoresStay ==
  /\ \A y \in Schemas : \A j \in 1..n'[y] : handlers'[y][j].cb # Junk
  /\ \A y \in Schemas : life'[y] # "freed" =>
       \A j \in 1..Len(handlers[y]) :
         handlers[y][j].cb # Junk => handlers'[y][j].cb # Junk

LEMMA StoredKept ==
  ASSUME SigInv, disp' = disp, ArraysStay, StoresStay
  PROVE  StoredInv'
<1>1. disp.pc = "call" => disp.x \in Schemas
  BY DispFields DEF SigInv
<1>2. CallsStored'
  BY DEF SigInv, StoredInv, CallsStored
<1>3. ASSUME disp.pc = "call", life'[disp.x] # "freed"
      PROVE  handlers'[disp.x][disp.i].cb # Junk
  BY <1>1, <1>3 DEF SigInv, DispatchInv, StoredInv, ArraysStay, StoresStay
<1> QED
  BY <1>2, <1>3 DEF StoredInv, StoresStay

LEMMA DispatchKept ==
  ASSUME SigInv, Shape', disp' = disp, ArraysStay,
         disp.pc \in {"test", "call"} /\ Undisturbed' =>
           /\ Undisturbed /\ table'[disp.x][disp.sig] \in during'
           /\ ~(call'.x = disp.x /\ call'.pc \in Removing)
           /\ n'[disp.x] >= n[disp.x]
           /\ \A j \in 1..n[disp.x] :
                handlers'[disp.x][j].sig = handlers[disp.x][j].sig,
         disp.pc = "return" /\ ~shifted' => ~shifted /\ during \subseteq during'
  PROVE  DispatchInv' /\ CallsRegistered'
<1>1. disp.pc # "idle" => disp.x \in Schemas /\ disp.i \in Nat
  BY DispFields DEF SigInv
<1>2. \A x \in Schemas : n[x] \in Nat /\ n'[x] \in Nat
  BY DEF SigInv, Shape
<1>3. DispatchInv'
  BY <1>1, <1>2 DEF SigInv, DispatchInv, ArraysStay
<1>4. CallsRegistered'
  BY DEF SigInv, CallsRegistered
<1> QED
  BY <1>3, <1>4

LEMMA EntriesKept ==
  ASSUME SigInv, NEW x \in Schemas,
         Solid(x)' = Solid(x), table'[x] = table[x],
         \A i \in Solid(x) :
           /\ handlers'[x][i].sig = handlers[x][i].sig
           /\ handlers'[x][i].cb = handlers[x][i].cb,
         call'.x = x /\ call'.pc \in Removing <=>
           call.x = x /\ call.pc \in Removing,
         call'.x = x /\ call'.pc \in Removing => call'.sig = call.sig
  PROVE  RegisteredIn(x)'
<1>1. RegisteredIn(x)
  BY DEF SigInv
<1> QED
  BY <1>1 DEF RegisteredIn

LEMMA NoHole ==
  ASSUME SigInv, NEW x \in Schemas
  PROVE  /\ ~(call.x = x /\ call.pc \in Removing) => Solid(x) = 1..n[x]
         /\ ~(call'.x = x /\ call'.pc \in Removing) /\ n'[x] \in Nat =>
              Solid(x)' = 1..n'[x]
BY DEF SigInv, Solid, Hole, Removing

-----------------------------------------------------------------------------
LEMMA ReplaceInv ==
  ASSUME SigInv, NEW x \in Schemas, NEW s \in Signals, NEW c \in Callbacks,
         Replace(x, s, c)
  PROVE  SigInv'
<1> DEFINE k == FirstOf(Found(x, s))
<1>1. call.pc = "idle" /\ call' = call /\ call = Idle /\ Found(x, s) # {}
  BY CallFields DEF SigInv, Replace
<1>2. k \in 1..n[x] /\ handlers[x][k].sig = s /\ Solid(x) = 1..n[x]
  BY <1>1, FirstFound
<1>3. handlers \in [Schemas -> Seq(Entry)] /\ 1..n[x] \subseteq 1..Len(handlers[x])
  BY DEF SigInv, TypeOK
<1>4. handlers' = [handlers EXCEPT ![x][k].cb = c]
  BY DEF Replace
<1>5. PICK q \in 1..Len(handlers[x]) : q = k
  BY <1>2, <1>3
<1>6. /\ handlers' \in [Schemas -> Seq(Entry)]
      /\ \A y \in Schemas : y # x => handlers'[y] = handlers[y]
      /\ Len(handlers'[x]) = Len(handlers[x])
      /\ \A j \in 1..Len(handlers[x]) :
           /\ handlers'[x][j].sig = handlers[x][j].sig
           /\ handlers'[x][j].cb = IF j = q THEN c ELSE handlers[x][j].cb
  <2>1. CbStore(x, q, c)
    BY <1>4, <1>5 DEF CbStore
  <2>2. c \in Callbacks \cup {Junk}
    OBVIOUS
  <2> QED
    BY <1>3, <2>1, <2>2, CbStored
<1>7. /\ table' \in [Schemas -> [Signals -> Callbacks \cup {NoCallback}]]
      /\ during' \subseteq Callbacks \cup {NoCallback}
      /\ table'[x][s] = c
      /\ \A r \in Signals : r # s => table'[x][r] = table[x][r]
      /\ \A y \in Schemas : y # x => table'[y] = table[y]
  BY RegisterTypes DEF Replace
<1>8. Shape'
  <2>1. \A y \in Schemas : n'[y] \in 0..Len(handlers'[y])
    BY <1>6 DEF Replace, SigInv, TypeOK
  <2>2. shifted' \in BOOLEAN /\ wild' \in BOOLEAN
    BY DEF Replace, SigInv, TypeOK
  <2> QED
    BY <1>6, <1>7, <2>1, <2>2 DEF Replace, SigInv, TypeOK, Shape, listen
<1>9. CallInv'
  BY <1>1 DEF CallInv, Idle, Removing, Adding
<1>10. ASSUME NEW y \in Schemas PROVE RegisteredIn(y)'
  <2>1. CASE y # x
    <3>1. Solid(y)' = Solid(y)
      BY <1>1, <1>6 DEF Solid, Hole, Replace
    <3> QED
      BY <1>1, <1>6, <1>7, <2>1, <3>1, EntriesKept
  <2>2. CASE y = x
    <3>1. Solid(x)' = 1..n[x]
      BY <1>1 DEF Solid, Hole, Replace, Idle, SigInv
    <3>2. RegisteredIn(x)
      BY DEF SigInv
    <3>3. \A i \in 1..n[x] : i # q => handlers[x][i].sig # s
      BY <1>2, <1>5, <3>2 DEF RegisteredIn
    <3>4. \A i \in 1..n[x] :
           /\ handlers'[x][i].sig = handlers[x][i].sig
           /\ handlers'[x][i].cb = IF i = q THEN c ELSE handlers[x][i].cb
      BY <1>3, <1>6
    <3>5. \A i \in 1..n[x] :
            /\ handlers'[x][i].sig \in Signals /\ handlers'[x][i].cb \in Callbacks
            /\ table'[x][handlers'[x][i].sig] = handlers'[x][i].cb
      BY <1>2, <1>5, <1>7, <3>2, <3>3, <3>4 DEF RegisteredIn
    <3>6. \A i, j \in 1..n[x] : handlers'[x][i].sig = handlers'[x][j].sig => i = j
      BY <1>2, <3>2, <3>4 DEF RegisteredIn
    <3>7. call'.pc \notin Removing /\ call.pc \notin Removing
      BY <1>1 DEF Removing
    <3>8. \A r \in Signals : table'[x][r] # NoCallback =>
            \E i \in 1..n[x] : handlers'[x][i].sig = r
      BY <1>2, <1>5, <1>7, <3>2, <3>4, <3>7 DEF RegisteredIn
    <3> QED
      BY <2>2, <3>1, <3>5, <3>6, <3>7, <3>8 DEF RegisteredIn
  <2> QED
    BY <2>1, <2>2
<1>11. DispatchInv' /\ CallsRegistered'
  <2>1. disp' = disp /\ shifted' = shifted /\ life' = life /\ n' = n
    BY DEF Replace
  <2>2. call'.pc \notin Removing
    BY <1>1 DEF Removing
  <2>3. during \subseteq during'
    BY DEF Replace, Registers
  <2>4. ASSUME disp.pc \in {"test", "call"}, Undisturbed'
        PROVE  /\ Undisturbed /\ table'[disp.x][disp.sig] \in during'
               /\ n'[disp.x] >= n[disp.x]
               /\ \A j \in 1..n[disp.x] :
                    handlers'[disp.x][j].sig = handlers[disp.x][j].sig
    <3>1. disp.x \in Schemas /\ disp.sig \in Signals
      BY <2>4, DispFields DEF SigInv
    <3>2. Undisturbed
      BY <2>1, <2>4 DEF Undisturbed
    <3>3. table[disp.x][disp.sig] \in during
      BY <2>4, <3>2 DEF SigInv, DispatchInv
    <3>4. table'[disp.x][disp.sig] \in during'
      BY <1>7, <3>1, <3>3 DEF Replace, Registers
    <3>5. \A j \in 1..n[disp.x] :
            handlers'[disp.x][j].sig = handlers[disp.x][j].sig
      BY <1>3, <1>6, <3>1
    <3> QED
      BY <2>1, <3>1, <3>2, <3>4, <3>5 DEF SigInv
  <2>5. ArraysStay
    BY <1>6, <2>1 DEF ArraysStay
  <2> QED
    BY <1>8, <2>1, <2>2, <2>3, <2>4, <2>5, DispatchKept
<1>12. StoredInv'
  <2>1. disp' = disp /\ ArraysStay
    BY <1>6 DEF Replace, ArraysStay
  <2>2. c # Junk /\ n' = n
    BY NamesAssumption DEF Replace
  <2>3. \A y \in Schemas : \A j \in 1..Len(handlers[y]) :
          handlers[y][j].cb # Junk => handlers'[y][j].cb # Junk
    BY <1>6, <2>2
  <2>4. \A y \in Schemas : 1..n[y] \subseteq 1..Len(handlers[y])
    BY DEF SigInv, TypeOK
  <2>5. StoresStay
    BY <2>2, <2>3, <2>4 DEF SigInv, StoredInv, StoresStay
  <2> QED
    BY <2>1, <2>5, StoredKept
<1> QED
  BY <1>8, <1>9, <1>10, <1>11, <1>12 DEF SigInv, Shape

-----------------------------------------------------------------------------
(* A step that changes no entry in use and registers nothing. *)
LEMMA QuietInv ==
  ASSUME SigInv, Shape', CallInv',
         UNCHANGED <<n, disp, ghosts>>,
         call.pc \notin Removing, call'.pc \notin Removing,
         ArraysStay,
         \A y \in Schemas : \A j \in 1..n[y] :
           /\ handlers'[y][j].sig = handlers[y][j].sig
           /\ handlers'[y][j].cb = handlers[y][j].cb,
         \A y \in Schemas : \A j \in 1..Len(handlers[y]) :
           handlers[y][j].cb # Junk => handlers'[y][j].cb # Junk
  PROVE  SigInv'
<1> USE DEF ghosts
<1>1. ASSUME NEW y \in Schemas PROVE RegisteredIn(y)'
  <2>1. Solid(y) = 1..n[y] /\ Solid(y)' = 1..n[y]
    BY NoHole DEF SigInv
  <2> QED
    BY <2>1, EntriesKept
<1>2. DispatchInv' /\ CallsRegistered'
  <2>1. ASSUME disp.pc \in {"test", "call"}, Undisturbed'
        PROVE  /\ Undisturbed /\ table'[disp.x][disp.sig] \in during'
               /\ n'[disp.x] >= n[disp.x]
               /\ \A j \in 1..n[disp.x] :
                    handlers'[disp.x][j].sig = handlers[disp.x][j].sig
    <3>1. disp.x \in Schemas
      BY <2>1, DispFields DEF SigInv
    <3>2. Undisturbed
      BY <2>1, <3>1 DEF Undisturbed, ArraysStay
    <3> QED
      BY <2>1, <3>1, <3>2 DEF SigInv, DispatchInv
  <2> QED
    BY <2>1, DispatchKept
<1>3. StoredInv'
  <2>1. StoresStay
    BY DEF SigInv, StoredInv, StoresStay
  <2> QED
    BY <2>1, StoredKept
<1> QED
  BY <1>1, <1>2, <1>3 DEF SigInv, Shape

LEMMA BeginAppendInv ==
  ASSUME SigInv, NEW x \in Schemas, NEW s \in Signals, NEW c \in Callbacks,
         BeginAppend(x, s, c)
  PROVE  SigInv'
<1> USE DEF state, listen, ghosts
<1>1. call = Idle /\ n[x] \in Nat /\ n[x] <= Len(handlers[x])
      /\ Len(handlers[x]) \in Nat
  BY CallFields DEF SigInv, TypeOK, BeginAppend
<1>2. call' \in [pc : {"grow", "sig"}, x : Schemas, sig : Signals,
                 cb : Callbacks, i : Nat]
  BY <1>1 DEF BeginAppend
<1>3. Shape'
  <2>1. call' \in {Idle} \cup CallRecord
    BY <1>2 DEF Growing
  <2> QED
    BY <2>1 DEF SigInv, TypeOK, Shape, BeginAppend
<1>4. table[x][s] = NoCallback
  <2>1. RegisteredIn(x) /\ call.pc \notin Removing /\ Solid(x) = 1..n[x]
    BY <1>1, NoHole DEF SigInv, Idle, Removing
  <2> QED
    BY <2>1 DEF RegisteredIn, BeginAppend, Found
<1>5. CallInv'
  BY <1>1, <1>4 DEF CallInv, BeginAppend, Adding, Removing
<1>6. call.pc \notin Removing /\ call'.pc \notin Removing
  BY <1>1, <1>2 DEF Idle, Removing
<1>8. ArraysStay
  BY DEF BeginAppend, ArraysStay
<1> QED
  BY <1>3, <1>5, <1>6, <1>8, QuietInv DEF BeginAppend

LEMMA GrowInv ==
  ASSUME SigInv, Grow
  PROVE  SigInv'
<1> USE DEF state, listen, ghosts
<1> DEFINE x == call.x
           L == Len(handlers[x])
           M == NewCapacity(L)
           new == [i \in 1..M |->
                    IF i <= L THEN handlers[x][i] ELSE [sig |-> Junk, cb |-> Junk]]
<1>1. /\ call \in [pc : {"grow"}, x : Schemas, sig : Signals \cup {Junk},
                   cb : Callbacks \cup {NoCallback}, i : Nat]
      /\ call' = [call EXCEPT !.pc = "grown"]
  BY CallFields DEF SigInv, Grow, Goes
<1>2. handlers' = [handlers EXCEPT ![x] = new]
  BY DEF Grow
<1>3. x \in Schemas /\ handlers \in [Schemas -> Seq(Entry)] /\ n[x] \in 0..L
      /\ L \in Nat /\ handlers[x] \in Seq(Entry) /\ n[x] = L /\ call.i = n[x] + 1
  BY <1>1 DEF SigInv, TypeOK, CallInv, Adding
<1>4. M \in Nat /\ M >= L + 1
  BY <1>3, CapacityAssumption DEF NewCapacity
<1> HIDE DEF M
<1>5. \A i \in 1..L : handlers[x][i] \in Entry
  BY <1>3, ElementOfSeq
<1>6. new \in Seq(Entry) /\ Len(new) = M
  <2>1. new \in [1..M -> Entry]
    BY <1>3, <1>4, <1>5 DEF Entry
  <2> HIDE DEF new
  <2> QED
    BY <1>4, <2>1
<1>7. \A i \in 1..L : new[i] = handlers[x][i]
  BY <1>3, <1>4
<1> HIDE DEF new
<1>8. /\ handlers' \in [Schemas -> Seq(Entry)] /\ handlers'[x] = new
      /\ \A y \in Schemas : y # x => handlers'[y] = handlers[y]
  BY <1>2, <1>3, <1>6
<1>9. Shape'
  <2>1. call' \in {Idle} \cup CallRecord
    BY <1>1 DEF Growing
  <2>2. \A y \in Schemas : n'[y] \in 0..Len(handlers'[y])
    <3>1. n' = n /\ \A y \in Schemas : n[y] \in 0..Len(handlers[y])
      BY DEF SigInv, TypeOK, Grow
    <3>2. n'[x] \in 0..Len(handlers'[x])
      BY <1>3, <1>4, <1>6, <1>8, <3>1
    <3>3. ASSUME NEW y \in Schemas, y # x
          PROVE  n'[y] \in 0..Len(handlers'[y])
      BY <1>8, <3>1, <3>3
    <3> QED
      BY <3>2, <3>3
  <2>3. moved' \in [Schemas -> BOOLEAN]
    BY DEF SigInv, TypeOK, Grow
  <2>4. shifted' \in BOOLEAN /\ wild' \in BOOLEAN
    BY DEF SigInv, TypeOK, Grow
  <2> QED
    BY <1>8, <2>1, <2>2, <2>3, <2>4 DEF SigInv, TypeOK, Shape, Grow
<1>10. CallInv'
  BY <1>1, <1>3, <1>4, <1>6, <1>8 DEF SigInv, CallInv, Grow, Adding, Removing
<1>11. call.pc \notin Removing /\ call'.pc \notin Removing
  BY <1>1 DEF Removing
<1>12. \A y \in Schemas : \A j \in 1..Len(handlers[y]) :
         handlers[y][j].cb # Junk => handlers'[y][j].cb # Junk
  BY <1>3, <1>7, <1>8
<1>13. \A y \in Schemas : \A j \in 1..n[y] :
         /\ handlers'[y][j].sig = handlers[y][j].sig
         /\ handlers'[y][j].cb = handlers[y][j].cb
  BY <1>3, <1>7, <1>8
<1>14. ArraysStay
  <2>1. 1..Len(handlers[x]) \subseteq 1..Len(handlers'[x])
    BY <1>3, <1>4, <1>6, <1>8
  <2>2. life' = life
    BY DEF Grow
  <2> QED
    BY <1>8, <2>1, <2>2 DEF ArraysStay
<1> QED
  BY <1>9, <1>10, <1>11, <1>12, <1>13, <1>14, QuietInv DEF Grow, Goes

LEMMA GrowEndsInv ==
  ASSUME SigInv, GrowFails \/ Grown
  PROVE  SigInv'
<1> USE DEF state, listen, ghosts
<1>1. /\ call \in [pc : {"grow", "grown"}, x : Schemas,
                   sig : Signals \cup {Junk},
                   cb : Callbacks \cup {NoCallback}, i : Nat]
      /\ ~wild /\ UNCHANGED <<handlers, n, life, listen, disp, ghosts>>
  BY CallFields DEF SigInv, GrowFails, Grown, Goes
<1>2. call.pc \notin Removing /\ ArraysStay
  BY <1>1 DEF Removing, ArraysStay
<1>3. CASE GrowFails
  <2>1. call' = Idle /\ moved' = moved /\ call.pc = "grow"
    BY <1>3 DEF GrowFails, Goes
  <2>2. Shape'
    BY <1>1, <2>1 DEF SigInv, TypeOK, Shape
  <2>3. CallInv'
    BY <2>1 DEF CallInv, Idle, Removing, Adding
  <2>4. call'.pc \notin Removing
    BY <2>1 DEF Idle, Removing
  <2> QED
    BY <1>1, <1>2, <2>2, <2>3, <2>4, QuietInv
<1>4. CASE Grown
  <2>1. call' = [call EXCEPT !.pc = "sig"] /\ call.pc = "grown"
        /\ moved' = [moved EXCEPT ![call.x] = FALSE]
    BY <1>4 DEF Grown, Goes
  <2>2. Shape'
    <3>1. call' \in {Idle} \cup CallRecord
      BY <1>1, <2>1
    <3>2. moved' \in [Schemas -> BOOLEAN]
      BY <2>1 DEF SigInv, TypeOK
    <3> QED
      BY <1>1, <3>1, <3>2 DEF SigInv, TypeOK, Shape
  <2>3. CallInv'
    BY <1>1, <2>1 DEF SigInv, CallInv, Removing, Adding
  <2>4. call'.pc \notin Removing
    BY <1>1, <2>1 DEF Removing
  <2> QED
    BY <1>1, <1>2, <2>2, <2>3, <2>4, QuietInv
<1> QED
  BY <1>3, <1>4

LEMMA AppendSigInv ==
  ASSUME SigInv, AppendSig
  PROVE  SigInv'
<1> USE DEF state, listen, ghosts
<1>1. /\ call \in [pc : {"sig"}, x : Schemas, sig : Signals \cup {Junk},
                   cb : Callbacks \cup {NoCallback}, i : Nat]
      /\ ~wild /\ UNCHANGED <<n, life, moved, listen, disp, ghosts>>
      /\ call' = [call EXCEPT !.pc = "cb"]
  BY CallFields DEF SigInv, AppendSig, Goes
<1>2. /\ handlers \in [Schemas -> Seq(Entry)] /\ call.x \in Schemas
      /\ \A y \in Schemas : n[y] \in 0..Len(handlers[y])
      /\ n[call.x] \in Nat /\ call.i = n[call.x] + 1
      /\ Len(handlers[call.x]) \in Nat
      /\ call.i \in 1..Len(handlers[call.x]) /\ call.sig \in Signals
  BY <1>1 DEF SigInv, TypeOK, CallInv, Adding
<1>3. PICK x \in Schemas, i \in 1..Len(handlers[call.x]),
            v \in Signals \cup {Junk} :
        x = call.x /\ i = call.i /\ v = call.sig
  BY <1>2
<1>4. SigStore(x, i, v)
  BY <1>3 DEF AppendSig, StoreSig, SigStore
<1>5. /\ handlers' \in [Schemas -> Seq(Entry)]
      /\ \A y \in Schemas : y # x => handlers'[y] = handlers[y]
      /\ Len(handlers'[x]) = Len(handlers[x])
      /\ \A j \in 1..Len(handlers[x]) :
           /\ handlers'[x][j].cb = handlers[x][j].cb
           /\ handlers'[x][j].sig = IF j = i THEN v ELSE handlers[x][j].sig
  BY <1>2, <1>3, <1>4, SigStored
<1>6. Shape'
  <2>1. \A y \in Schemas : n'[y] \in 0..Len(handlers'[y])
    BY <1>1, <1>2, <1>5
  <2>2. call' \in {Idle} \cup CallRecord
    BY <1>1
  <2> QED
    BY <1>1, <1>5, <2>1, <2>2 DEF SigInv, TypeOK, Shape
<1>7. CallInv'
  BY <1>1, <1>2, <1>3, <1>5 DEF SigInv, CallInv, Removing, Adding
<1>8. call.pc \notin Removing /\ call'.pc \notin Removing
  BY <1>1 DEF Removing
<1>9. \A y \in Schemas : \A j \in 1..n[y] :
         /\ handlers'[y][j].sig = handlers[y][j].sig
         /\ handlers'[y][j].cb = handlers[y][j].cb
  <2>1. \A j \in 1..n[x] : j \in 1..Len(handlers[x]) /\ j # i
    BY <1>2, <1>3
  <2>2. \A j \in 1..n[x] :
          /\ handlers'[x][j].sig = handlers[x][j].sig
          /\ handlers'[x][j].cb = handlers[x][j].cb
    BY <1>5, <2>1
  <2> QED
    BY <1>5, <2>2
<1>10. ArraysStay
  BY <1>1, <1>5 DEF ArraysStay
<1>11. \A y \in Schemas : \A j \in 1..Len(handlers[y]) :
         handlers[y][j].cb # Junk => handlers'[y][j].cb # Junk
  BY <1>5
<1> QED
  BY <1>1, <1>6, <1>7, <1>8, <1>9, <1>10, <1>11, QuietInv

LEMMA AppendCbInv ==
  ASSUME SigInv, AppendCb
  PROVE  SigInv'
<1> USE DEF state, listen, ghosts
<1>1. /\ call \in [pc : {"cb"}, x : Schemas, sig : Signals \cup {Junk},
                   cb : Callbacks \cup {NoCallback}, i : Nat]
      /\ ~wild /\ UNCHANGED <<n, life, moved, listen, disp, ghosts>>
      /\ call' = [call EXCEPT !.pc = "count"]
  BY CallFields DEF SigInv, AppendCb, Goes
<1>2. /\ handlers \in [Schemas -> Seq(Entry)] /\ call.x \in Schemas
      /\ \A y \in Schemas : n[y] \in 0..Len(handlers[y])
      /\ n[call.x] \in Nat /\ call.i = n[call.x] + 1
      /\ Len(handlers[call.x]) \in Nat
      /\ call.i \in 1..Len(handlers[call.x]) /\ call.cb \in Callbacks
      /\ handlers[call.x][call.i].sig = call.sig
  BY <1>1 DEF SigInv, TypeOK, CallInv, Adding
<1>3. PICK x \in Schemas, i \in 1..Len(handlers[call.x]),
            v \in Callbacks \cup {Junk} :
        x = call.x /\ i = call.i /\ v = call.cb
  BY <1>2
<1>4. CbStore(x, i, v)
  BY <1>3 DEF AppendCb, StoreCb, CbStore
<1>5. /\ handlers' \in [Schemas -> Seq(Entry)]
      /\ \A y \in Schemas : y # x => handlers'[y] = handlers[y]
      /\ Len(handlers'[x]) = Len(handlers[x])
      /\ \A j \in 1..Len(handlers[x]) :
           /\ handlers'[x][j].sig = handlers[x][j].sig
           /\ handlers'[x][j].cb = IF j = i THEN v ELSE handlers[x][j].cb
  BY <1>2, <1>3, <1>4, CbStored
<1>6. Shape'
  <2>1. \A y \in Schemas : n'[y] \in 0..Len(handlers'[y])
    BY <1>1, <1>2, <1>5
  <2>2. call' \in {Idle} \cup CallRecord
    BY <1>1
  <2> QED
    BY <1>1, <1>5, <2>1, <2>2 DEF SigInv, TypeOK, Shape
<1>7. CallInv'
  BY <1>1, <1>2, <1>3, <1>5 DEF SigInv, CallInv, Removing, Adding
<1>8. call.pc \notin Removing /\ call'.pc \notin Removing
  BY <1>1 DEF Removing
<1>9. \A y \in Schemas : \A j \in 1..n[y] :
         /\ handlers'[y][j].sig = handlers[y][j].sig
         /\ handlers'[y][j].cb = handlers[y][j].cb
  <2>1. \A j \in 1..n[x] : j \in 1..Len(handlers[x]) /\ j # i
    BY <1>2, <1>3
  <2>2. \A j \in 1..n[x] :
          /\ handlers'[x][j].sig = handlers[x][j].sig
          /\ handlers'[x][j].cb = handlers[x][j].cb
    BY <1>5, <2>1
  <2> QED
    BY <1>5, <2>2
<1>10. ArraysStay
  BY <1>1, <1>5 DEF ArraysStay
<1>11. \A y \in Schemas : \A j \in 1..Len(handlers[y]) :
         handlers[y][j].cb # Junk => handlers'[y][j].cb # Junk
  <2>1. v # Junk
    BY <1>2, <1>3, NamesAssumption
  <2> QED
    BY <1>5, <2>1
<1> QED
  BY <1>1, <1>6, <1>7, <1>8, <1>9, <1>10, <1>11, QuietInv

(* The entry added becomes one of those in use. *)
LEMMA AppendCountInv ==
  ASSUME SigInv, AppendCount
  PROVE  SigInv'
<1> USE DEF state, listen, ghosts
<1>1. /\ call \in [pc : {"count"}, x : Schemas, sig : Signals \cup {Junk},
                   cb : Callbacks \cup {NoCallback}, i : Nat]
      /\ ~wild /\ UNCHANGED <<handlers, life, moved, listen, disp, shifted, wild>>
      /\ call' = Idle
  BY CallFields DEF SigInv, AppendCount, Goes
<1>2. /\ handlers \in [Schemas -> Seq(Entry)] /\ call.x \in Schemas
      /\ \A y \in Schemas : n[y] \in 0..Len(handlers[y])
      /\ n \in [Schemas -> Nat] /\ call.i = n[call.x] + 1
      /\ Len(handlers[call.x]) \in Nat
      /\ call.i \in 1..Len(handlers[call.x])
      /\ call.sig \in Signals /\ call.cb \in Callbacks
      /\ handlers[call.x][call.i].sig = call.sig
      /\ handlers[call.x][call.i].cb = call.cb
      /\ table[call.x][call.sig] = NoCallback
  BY <1>1 DEF SigInv, TypeOK, CallInv, Adding
<1>3. PICK x \in Schemas, s \in Signals, c \in Callbacks :
        x = call.x /\ s = call.sig /\ c = call.cb
  BY <1>2
<1>4. /\ table' \in [Schemas -> [Signals -> Callbacks \cup {NoCallback}]]
      /\ during' \subseteq Callbacks \cup {NoCallback}
      /\ table'[x][s] = c
      /\ \A r \in Signals : r # s => table'[x][r] = table[x][r]
      /\ \A y \in Schemas : y # x => table'[y] = table[y]
  <2>1. Registers(x, s, c)
    BY <1>3 DEF AppendCount
  <2> QED
    BY <2>1, RegisterTypes
<1>5. /\ n' \in [Schemas -> Nat] /\ n'[x] = n[x] + 1
      /\ \A y \in Schemas : y # x => n'[y] = n[y]
  BY <1>2, <1>3 DEF AppendCount
<1>6. Shape'
  <2>1. \A y \in Schemas : n'[y] \in 0..Len(handlers'[y])
    BY <1>1, <1>2, <1>3, <1>5
  <2> QED
    BY <1>1, <1>4, <1>5, <2>1 DEF SigInv, TypeOK, Shape
<1>7. CallInv'
  BY <1>1 DEF CallInv, Idle, Removing, Adding
<1>8. call.pc \notin Removing /\ call'.pc \notin Removing
  BY <1>1 DEF Removing, Idle
<1>9. \A y \in Schemas : Solid(y) = 1..n[y] /\ Solid(y)' = 1..n'[y]
  BY <1>5, <1>8, NoHole
<1>10. ASSUME NEW y \in Schemas PROVE RegisteredIn(y)'
  <2>1. CASE y # x
    BY <1>1, <1>4, <1>5, <1>8, <1>9, <2>1, EntriesKept
  <2>2. CASE y = x
    <3>1. RegisteredIn(x) /\ Solid(x) = 1..n[x] /\ n[x] \in Nat
      BY <1>2, <1>9 DEF SigInv
    <3>2. Solid(x)' = 1..n[x] \cup {n[x] + 1}
      BY <1>5, <1>9, <3>1
    <3>3. \A i \in 1..n[x] : handlers[x][i].sig # s
      <4>1. table[x][s] \notin Callbacks
        BY <1>2, <1>3, NamesAssumption
      <4> QED
        BY <3>1, <4>1 DEF RegisteredIn
    <3>4. handlers[x][n[x] + 1].sig = s /\ handlers[x][n[x] + 1].cb = c
      BY <1>2, <1>3
    <3>5. \A i \in Solid(x)' :
            /\ handlers[x][i].sig \in Signals /\ handlers[x][i].cb \in Callbacks
            /\ table'[x][handlers[x][i].sig] = handlers[x][i].cb
      BY <1>4, <3>1, <3>2, <3>3, <3>4 DEF RegisteredIn
    <3>6. \A i, j \in Solid(x)' : handlers[x][i].sig = handlers[x][j].sig => i = j
      BY <3>1, <3>2, <3>3, <3>4 DEF RegisteredIn
    <3>7. \A r \in Signals : table'[x][r] # NoCallback =>
            \E i \in Solid(x)' : handlers[x][i].sig = r
      BY <1>4, <1>8, <3>1, <3>2, <3>4 DEF RegisteredIn
    <3> QED
      BY <1>1, <1>8, <2>2, <3>5, <3>6, <3>7 DEF RegisteredIn
  <2> QED
    BY <2>1, <2>2
<1>11. DispatchInv' /\ CallsRegistered'
  <2>1. during \subseteq during'
    BY DEF AppendCount, Registers
  <2>2. ASSUME disp.pc \in {"test", "call"}, Undisturbed'
        PROVE  /\ Undisturbed /\ table'[disp.x][disp.sig] \in during'
               /\ n'[disp.x] >= n[disp.x]
    <3>1. disp.x \in Schemas /\ disp.sig \in Signals
      BY <2>2, DispFields DEF SigInv
    <3>2. Undisturbed
      BY <1>1, <2>2 DEF Undisturbed
    <3>3. table[disp.x][disp.sig] \in during
      BY <2>2, <3>2 DEF SigInv, DispatchInv
    <3>4. table'[disp.x][disp.sig] \in during'
      BY <1>3, <1>4, <3>1, <3>3 DEF AppendCount, Registers
    <3>5. n'[disp.x] >= n[disp.x]
      <4>1. \A y \in Schemas : n'[y] >= n[y]
        <5> SUFFICES ASSUME NEW y \in Schemas PROVE n'[y] >= n[y]
          OBVIOUS
        <5>1. n[y] \in Nat /\ n[x] \in Nat
          BY <1>2
        <5> QED
          BY <1>5, <5>1
      <4> QED
        BY <3>1, <4>1
    <3> QED
      BY <3>2, <3>4, <3>5
  <2>3. ArraysStay
    BY <1>1 DEF ArraysStay
  <2> QED
    BY <1>1, <1>6, <1>8, <2>1, <2>2, <2>3, DispatchKept
<1>12. StoredInv'
  <2>1. ArraysStay
    BY <1>1 DEF ArraysStay
  <2>2. handlers[x][n[x] + 1].cb # Junk
    BY <1>2, <1>3, NamesAssumption
  <2>3. \A j \in 1..(n[x] + 1) : j \in 1..n[x] \/ j = n[x] + 1
    BY <1>2
  <2>4. StoresStay
    BY <1>1, <1>5, <2>2, <2>3 DEF SigInv, StoredInv, StoresStay
  <2> QED
    BY <1>1, <2>1, <2>4, StoredKept
<1> QED
  BY <1>6, <1>7, <1>10, <1>11, <1>12 DEF SigInv, Shape

-----------------------------------------------------------------------------
LEMMA ListenInv ==
  ASSUME SigInv, NEW x \in Schemas,
         ListenSignals(x) \/ \E s \in Signals : ListenSignal(x, s)
  PROVE  SigInv'
<1> USE DEF state, ghosts
<1>1. /\ ctx' = x /\ installed' \subseteq Signals /\ call = Idle
      /\ ~wild /\ UNCHANGED <<state, call, disp, ghosts>>
  BY CallFields DEF SigInv, TypeOK, ListenSignals, ListenSignal
<1>2. Shape' /\ CallInv'
  BY <1>1 DEF SigInv, TypeOK, Shape, CallInv
<1>3. call.pc \notin Removing /\ ArraysStay
  BY <1>1 DEF Idle, Removing, ArraysStay
<1> QED
  BY <1>1, <1>2, <1>3, QuietInv

LEMMA BeginCloseInv ==
  ASSUME SigInv, NEW x \in Schemas, BeginClose(x)
  PROVE  SigInv'
<1> USE DEF listen, ghosts
<1>1. /\ call = Idle /\ ~wild
      /\ UNCHANGED <<handlers, n, moved, listen, disp, ghosts>>
      /\ life' = [life EXCEPT ![x] = "closing"]
      /\ call' = [pc |-> "freeArray", x |-> x, sig |-> Junk, cb |-> NoCallback, i |-> 0]
  BY CallFields DEF SigInv, BeginClose, Idle
<1>2. Shape'
  <2>1. call' \in {Idle} \cup CallRecord
    BY <1>1
  <2>2. life' \in [Schemas -> {"open", "closing", "unhandled", "freed"}]
    BY <1>1 DEF SigInv, TypeOK
  <2> QED
    BY <1>1, <2>1, <2>2 DEF SigInv, TypeOK, Shape
<1>3. CallInv'
  BY <1>1 DEF SigInv, TypeOK, CallInv, Removing, Adding
<1>4. call.pc \notin Removing /\ call'.pc \notin Removing
  BY <1>1 DEF Idle, Removing
<1>5. ArraysStay
  <2>1. life[x] = "open"
    BY DEF BeginClose
  <2> QED
    BY <1>1, <2>1 DEF SigInv, TypeOK, ArraysStay
<1> QED
  BY <1>1, <1>2, <1>3, <1>4, <1>5, QuietInv

LEMMA FreeHandlersInv ==
  ASSUME SigInv, FreeHandlers
  PROVE  SigInv'
<1> USE DEF listen, ghosts
<1>1. /\ call \in [pc : {"freeArray"}, x : Schemas, sig : Signals \cup {Junk},
                   cb : Callbacks \cup {NoCallback}, i : Nat]
      /\ UNCHANGED <<handlers, n, moved, listen, disp, ghosts>>
      /\ call' = [call EXCEPT !.pc = "freeSchema"]
      /\ life' = [life EXCEPT ![call.x] = "unhandled"]
  BY CallFields DEF SigInv, FreeHandlers, Goes
<1>2. Shape'
  <2>1. call' \in {Idle} \cup CallRecord
    BY <1>1
  <2>2. life' \in [Schemas -> {"open", "closing", "unhandled", "freed"}]
    BY <1>1 DEF SigInv, TypeOK
  <2> QED
    BY <1>1, <2>1, <2>2 DEF SigInv, TypeOK, Shape
<1>3. CallInv'
  BY <1>1 DEF SigInv, TypeOK, CallInv, Removing, Adding
<1>4. call.pc \notin Removing /\ call'.pc \notin Removing
  BY <1>1 DEF Removing
<1>5. ArraysStay
  <2>1. life[call.x] # "freed"
    BY <1>1 DEF SigInv, CallInv
  <2> QED
    BY <1>1, <2>1 DEF SigInv, TypeOK, ArraysStay
<1> QED
  BY <1>1, <1>2, <1>3, <1>4, <1>5, QuietInv

LEMMA EndCloseInv ==
  ASSUME SigInv, EndClose
  PROVE  SigInv'
<1> USE DEF listen
<1>1. /\ call \in [pc : {"freeSchema"}, x : Schemas, sig : Signals \cup {Junk},
                   cb : Callbacks \cup {NoCallback}, i : Nat]
      /\ ~wild /\ UNCHANGED <<moved, listen, disp, during, shifted, wild>>
      /\ call' = Idle
  BY CallFields DEF SigInv, EndClose, Goes
<1>2. PICK x \in Schemas : x = call.x
  BY <1>1
<1>3. /\ life' \in [Schemas -> {"open", "closing", "unhandled", "freed"}]
      /\ life'[x] = "freed" /\ \A y \in Schemas : y # x => life'[y] = life[y]
  BY <1>2 DEF SigInv, TypeOK, EndClose
<1>4. /\ handlers' \in [Schemas -> Seq(Entry)]
      /\ handlers'[x] = <<>>
      /\ \A y \in Schemas : y # x => handlers'[y] = handlers[y]
  <2>1. <<>> \in Seq(Entry)
    BY EmptySeq
  <2> QED
    BY <1>2, <2>1 DEF SigInv, TypeOK, EndClose
<1>5. /\ n' \in [Schemas -> Nat] /\ n'[x] = 0
      /\ \A y \in Schemas : y # x => n'[y] = n[y]
  BY <1>2 DEF SigInv, EndClose
<1>6. /\ table' \in [Schemas -> [Signals -> Callbacks \cup {NoCallback}]]
      /\ table'[x] = [s \in Signals |-> NoCallback]
      /\ \A y \in Schemas : y # x => table'[y] = table[y]
  BY <1>2 DEF SigInv, TypeOK, EndClose
<1>7. Shape'
  <2>1. n'[x] \in 0..Len(handlers'[x])
    BY <1>4, <1>5
  <2>2. \A y \in Schemas : y # x => n'[y] \in 0..Len(handlers'[y])
    BY <1>4, <1>5 DEF SigInv, TypeOK
  <2>3. \A y \in Schemas : n'[y] \in 0..Len(handlers'[y])
    BY <2>1, <2>2
  <2> QED
    BY <1>1, <1>3, <1>4, <1>5, <1>6, <2>3 DEF SigInv, TypeOK, Shape
<1>8. CallInv'
  BY <1>1 DEF CallInv, Idle, Removing, Adding
<1>9. call.pc \notin Removing /\ call'.pc \notin Removing
  BY <1>1 DEF Idle, Removing
<1>10. \A y \in Schemas : Solid(y) = 1..n[y] /\ Solid(y)' = 1..n'[y]
  BY <1>5, <1>9, NoHole
<1>11. ASSUME NEW y \in Schemas PROVE RegisteredIn(y)'
  <2>1. CASE y # x
    BY <1>4, <1>5, <1>6, <1>9, <1>10, <2>1, EntriesKept
  <2>2. CASE y = x
    <3>1. Solid(x)' = {}
      BY <1>5, <1>10
    <3>2. \A s \in Signals : table'[x][s] = NoCallback
      BY <1>6
    <3> QED
      BY <1>9, <2>2, <3>1, <3>2 DEF RegisteredIn
  <2> QED
    BY <2>1, <2>2
<1>12. DispatchInv' /\ CallsRegistered'
  <2>1. ASSUME disp.pc \in {"test", "call"}, Undisturbed'
        PROVE  /\ Undisturbed /\ table'[disp.x][disp.sig] \in during'
               /\ n'[disp.x] >= n[disp.x]
               /\ \A j \in 1..n[disp.x] :
                    handlers'[disp.x][j].sig = handlers[disp.x][j].sig
    <3>1. disp.x \in Schemas /\ disp.x # x
      BY <1>1, <1>3, <2>1, DispFields DEF SigInv, Undisturbed
    <3>2. Undisturbed
      BY <1>1, <1>3, <2>1, <3>1 DEF Undisturbed
    <3>3. n[disp.x] \in Nat
      BY <3>1 DEF SigInv
    <3> QED
      BY <1>1, <1>4, <1>5, <1>6, <2>1, <3>1, <3>2, <3>3 DEF SigInv, DispatchInv
  <2>2. ArraysStay
    BY <1>3, <1>4 DEF ArraysStay
  <2> QED
    BY <1>1, <1>7, <1>9, <2>1, <2>2, DispatchKept
<1>13. StoredInv'
  <2>1. ArraysStay
    BY <1>3, <1>4 DEF ArraysStay
  <2>2. StoresStay
    <3>1. \A y \in Schemas : \A j \in 1..n'[y] : handlers'[y][j].cb # Junk
      <4>1. ASSUME NEW y \in Schemas, y # x
            PROVE  \A j \in 1..n'[y] : handlers'[y][j].cb # Junk
        <5>1. handlers'[y] = handlers[y] /\ n'[y] = n[y]
          BY <1>4, <1>5, <4>1
        <5>2. \A j \in 1..n[y] : handlers[y][j].cb # Junk
          BY DEF SigInv, StoredInv
        <5> QED
          BY <5>1, <5>2
      <4>2. 1..n'[x] = {}
        BY <1>5
      <4> QED
        BY <4>1, <4>2
    <3>2. \A y \in Schemas : life'[y] # "freed" => handlers'[y] = handlers[y]
      BY <1>3, <1>4
    <3> QED
      BY <3>1, <3>2 DEF StoresStay
  <2> QED
    BY <1>1, <2>1, <2>2, StoredKept
<1> QED
  BY <1>7, <1>8, <1>11, <1>12, <1>13 DEF SigInv, Shape

-----------------------------------------------------------------------------
(* The dispatch only reads the registry. *)
LEMMA ReadsInv ==
  ASSUME SigInv, UNCHANGED <<state, listen, call, table>>,
         disp' \in {Idle} \cup
           [pc : {"test", "call", "return"}, x : Schemas, sig : Signals,
            cb : Callbacks \cup {NoCallback, Junk}, i : Nat],
         during' \subseteq Callbacks \cup {NoCallback},
         shifted' \in BOOLEAN, wild' \in BOOLEAN,
         DispatchInv', CallsRegistered', CallsStored',
         disp'.pc = "call" /\ life[disp'.x] # "freed" =>
           handlers[disp'.x][disp'.i].cb # Junk
  PROVE  SigInv'
<1> USE DEF state, listen
<1>1. Shape' /\ CallInv' /\ StoredInv'
  BY DEF SigInv, TypeOK, Shape, CallInv, StoredInv
<1>2. ASSUME NEW y \in Schemas PROVE RegisteredIn(y)'
  BY DEF SigInv, RegisteredIn, Solid, Hole
<1> QED
  BY <1>1, <1>2 DEF SigInv, Shape

LEMMA DeliverInv ==
  ASSUME SigInv, NEW s \in Signals, Deliver(s)
  PROVE  SigInv'
<1> USE DEF state, listen
<1>1. /\ ctx \in Schemas /\ UNCHANGED <<state, listen, call, table, wild>> /\ ~wild
      /\ disp' = [pc |-> "test", x |-> ctx, sig |-> s, i |-> 1,
                  cb |-> NoCallback]
      /\ during' = {table[ctx][s]}
      /\ n[ctx] \in Nat
  BY DEF SigInv, TypeOK, Deliver
<1>2. /\ shifted' \in BOOLEAN
      /\ ~shifted' => ~(call.pc \in Removing /\ call.x = ctx)
  <2>1. shifted' = (call.pc \in Removing /\ call.x = ctx)
    BY DEF Deliver
  <2> QED
    BY <2>1, Zenon
<1>3. during' \subseteq Callbacks \cup {NoCallback}
  BY <1>1 DEF SigInv, TypeOK
<1>4. DispatchInv'
  BY <1>1, <1>2 DEF DispatchInv, Undisturbed
<1>5. CallsRegistered' /\ CallsStored'
  BY <1>1 DEF CallsRegistered, CallsStored
<1>6. wild' \in BOOLEAN
  BY <1>1 DEF SigInv, TypeOK
<1> QED
  BY <1>1, <1>2, <1>3, <1>4, <1>5, <1>6, ReadsInv

LEMMA ReadsFreedInv ==
  ASSUME SigInv, ReadsFreed
  PROVE  SigInv'
<1> USE DEF state, listen
<1>1. /\ UNCHANGED <<state, listen, call, disp, table, during, shifted>>
      /\ disp.pc \in {"test", "call"} /\ Freed /\ wild'
  BY DEF ReadsFreed
<1>3. /\ CallsStored'
      /\ disp.pc = "call" /\ life[disp.x] # "freed" =>
           handlers[disp.x][disp.i].cb # Junk
  BY <1>1 DEF SigInv, StoredInv, CallsStored
<1>4. DispatchInv' /\ CallsRegistered'
  BY <1>1 DEF SigInv, DispatchInv, Undisturbed, CallsRegistered
<1>5. shifted' \in BOOLEAN /\ during' \subseteq Callbacks \cup {NoCallback}
  BY <1>1 DEF SigInv, TypeOK
<1>6. wild' \in BOOLEAN
  BY DEF ReadsFreed
<1>7. disp' \in {Idle} \cup
        [pc : {"test", "call", "return"}, x : Schemas, sig : Signals,
         cb : Callbacks \cup {NoCallback, Junk}, i : Nat]
  BY <1>1 DEF SigInv, TypeOK
<1> QED
  BY <1>1, <1>3, <1>4, <1>5, <1>6, <1>7, ReadsInv

LEMMA RaiseInv ==
  ASSUME SigInv, RaiseTest \/ RaiseCall \/ RaiseError
  PROVE  SigInv'
<1> USE DEF state, listen, ghosts
<1>1. /\ UNCHANGED <<state, listen, call, ghosts>> /\ ~wild /\ ~Freed
      /\ disp \in [pc : {"test", "call"}, x : Schemas, sig : Signals,
                   cb : Callbacks \cup {NoCallback, Junk}, i : Nat]
  BY DispFields DEF SigInv, RaiseTest, RaiseCall, RaiseError
<1>2. PICK x \in Schemas, s \in Signals : x = disp.x /\ s = disp.sig
  BY <1>1
<1>3. /\ n[x] \in Nat /\ disp.i \in Nat /\ handlers[x] \in Seq(Entry)
      /\ Len(handlers[x]) \in Nat /\ n[x] <= Len(handlers[x])
  BY <1>1, <1>2 DEF SigInv, TypeOK
<1>4. /\ shifted' \in BOOLEAN /\ during' \subseteq Callbacks \cup {NoCallback}
      /\ wild' \in BOOLEAN
  BY <1>1 DEF SigInv, TypeOK
<1>5. life[x] # "freed" /\ \A i \in 1..n[x] : handlers[x][i].cb # Junk
  BY <1>1, <1>2 DEF SigInv, StoredInv, Freed
<1>6. Undisturbed <=> ~shifted
  BY <1>1 DEF Freed, Undisturbed
<1>7. disp.cb = NoCallback
  BY <1>1 DEF SigInv, DispatchInv
<1>8. ~shifted => /\ table[x][s] \in during /\ Solid(x) = 1..n[x]
                  /\ ~(call.x = x /\ call.pc \in Removing)
  BY <1>1, <1>2, <1>6, NoHole DEF SigInv, DispatchInv
<1>9. CASE RaiseTest
  <2>1. /\ disp.pc = "test" /\ disp.i <= n[x]
        /\ disp' = IF handlers[x][disp.i].sig = s
                   THEN [disp EXCEPT !.pc = "call"]
                   ELSE [disp EXCEPT !.i = @ + 1]
    BY <1>2, <1>9 DEF RaiseTest
  <2>2. disp' \in [pc : {"test", "call"}, x : Schemas, sig : Signals,
                   cb : Callbacks \cup {NoCallback, Junk}, i : Nat]
    BY <1>1, <2>1
  <2>6. disp.i \in 1..n[x] /\ 1..n[x] \subseteq 1..Len(handlers[x])
    BY <1>3, <2>1 DEF SigInv, DispatchInv
  <2>3. ~shifted => /\ disp.i \in 1..n[x]
                    /\ \A j \in 1..(disp.i - 1) : handlers[x][j].sig # s
    BY <1>2, <1>3, <1>6, <2>1 DEF SigInv, DispatchInv
  <2>4. CASE handlers[x][disp.i].sig = s
    <3>1. disp' = [disp EXCEPT !.pc = "call"]
      BY <2>1, <2>4
    <3> QED
      <4>1. DispatchInv'
        BY <1>1, <1>2, <1>6, <1>7, <1>8, <2>3, <2>4, <2>6, <3>1
           DEF DispatchInv, Undisturbed
      <4>2. CallsRegistered' /\ CallsStored'
        BY <1>1, <3>1 DEF CallsRegistered, CallsStored
      <4>3. handlers[disp'.x][disp'.i].cb # Junk
        BY <1>1, <1>2, <1>5, <2>6, <3>1
      <4> QED
        BY <1>1, <1>4, <2>2, <4>1, <4>2, <4>3, ReadsInv
  <2>5. CASE handlers[x][disp.i].sig # s
    <3>1. disp' = [disp EXCEPT !.i = @ + 1]
      BY <2>1, <2>5
    <3>2. ~shifted => /\ disp.i + 1 \in 1..(n[x] + 1)
                      /\ \A j \in 1..((disp.i + 1) - 1) : handlers[x][j].sig # s
      BY <1>3, <2>3, <2>5
    <3> QED
      <4>1. DispatchInv'
        BY <1>1, <1>2, <1>6, <1>7, <1>8, <2>1, <2>6, <3>1, <3>2
           DEF DispatchInv, Undisturbed
      <4>2. CallsRegistered' /\ CallsStored' /\ disp'.pc = "test"
        BY <1>1, <2>1, <3>1 DEF CallsRegistered, CallsStored
      <4> QED
        BY <1>1, <1>4, <2>2, <4>1, <4>2, ReadsInv
  <2> QED
    BY <2>4, <2>5
<1>10. CASE RaiseCall
  <2>1. /\ disp.pc = "call"
        /\ disp' = [disp EXCEPT !.pc = "return", !.cb = handlers[x][disp.i].cb]
    BY <1>2, <1>10 DEF RaiseCall
  <2>2. ~shifted => /\ disp.i \in 1..n[x] /\ handlers[x][disp.i].sig = s
    BY <1>2, <1>6, <2>1 DEF SigInv, DispatchInv
  <2>3. ~shifted => handlers[x][disp.i].cb = table[x][s]
    <3>1. RegisteredIn(x)
      BY DEF SigInv
    <3> QED
      BY <1>8, <2>2, <3>1 DEF RegisteredIn
  <2>4. DispatchInv' /\ CallsRegistered'
    BY <1>1, <1>8, <2>1, <2>3 DEF DispatchInv, CallsRegistered
  <2>5. handlers[x][disp.i].cb \in Callbacks \cup {NoCallback, Junk}
    <3>1. disp.i \in 1..Len(handlers[x])
      BY <1>1, <1>2, <2>1 DEF SigInv, DispatchInv, Freed
    <3>2. handlers[x][disp.i] \in Entry
      BY <1>3, <3>1, ElementOfSeq
    <3> QED
      BY <3>2 DEF Entry
  <2>6. disp' \in [pc : {"return"}, x : Schemas, sig : Signals,
                   cb : Callbacks \cup {NoCallback, Junk}, i : Nat]
    BY <1>1, <2>1, <2>5
  <2>7. CallsStored' /\ disp'.pc = "return"
    BY <1>1, <1>2, <1>5, <2>1 DEF SigInv, StoredInv, CallsStored
  <2> QED
    BY <1>1, <1>4, <2>4, <2>6, <2>7, ReadsInv
<1>11. CASE RaiseError
  <2>1. disp.pc = "test" /\ disp.i > n[x] /\ disp' = [disp EXCEPT !.pc = "return"]
    BY <1>2, <1>11 DEF RaiseError
  <2>2. ~shifted => \A j \in 1..n[x] : handlers[x][j].sig # s
    <3>1. ~shifted => \A j \in 1..(disp.i - 1) : handlers[x][j].sig # s
      BY <1>2, <1>6, <2>1 DEF SigInv, DispatchInv
    <3> QED
      BY <1>3, <2>1, <3>1
  <2>3. ~shifted => table[x][s] = NoCallback
    <3>1. RegisteredIn(x)
      BY DEF SigInv
    <3> QED
      BY <1>8, <2>2, <3>1 DEF RegisteredIn
  <2>4. DispatchInv' /\ CallsRegistered'
    BY <1>1, <1>7, <1>8, <2>1, <2>3 DEF DispatchInv, CallsRegistered
  <2>5. disp' \in [pc : {"return"}, x : Schemas, sig : Signals,
                   cb : Callbacks \cup {NoCallback, Junk}, i : Nat]
    BY <1>1, <2>1
  <2>6. CallsStored' /\ disp'.pc = "return"
    BY <1>1, <1>7, <2>1, NamesAssumption DEF CallsStored
  <2> QED
    BY <1>1, <1>4, <2>4, <2>5, <2>6, ReadsInv
<1> QED
  BY <1>9, <1>10, <1>11

LEMMA ReturnedInv ==
  ASSUME SigInv, Returned
  PROVE  SigInv'
<1> USE DEF state, listen
<1>1. /\ UNCHANGED <<state, listen, call, table, wild>> /\ ~wild
      /\ disp' = Idle /\ during' = {} /\ shifted' = FALSE
  BY DEF Returned
<1>2. DispatchInv' /\ CallsRegistered' /\ CallsStored' /\ disp'.pc = "idle"
  BY <1>1 DEF DispatchInv, CallsRegistered, CallsStored, Idle
<1>3. wild' \in BOOLEAN /\ shifted' \in BOOLEAN
  BY <1>1 DEF SigInv, TypeOK
<1>4. disp' \in {Idle} \cup
        [pc : {"test", "call", "return"}, x : Schemas, sig : Signals,
         cb : Callbacks \cup {NoCallback, Junk}, i : Nat]
  BY <1>1
<1>5. during' \subseteq Callbacks \cup {NoCallback}
  BY <1>1
<1> QED
  BY <1>1, <1>2, <1>3, <1>4, <1>5, ReadsInv

-----------------------------------------------------------------------------
(* A removal is seen by the dispatches of its own schema only. *)
LEMMA RemovalSeen ==
  ASSUME SigInv, Shape', disp' = disp, ArraysStay, during \subseteq during',
         NEW x \in Schemas, Shifts(x),
         \A y \in Schemas : y # x =>
           /\ table'[y] = table[y] /\ n'[y] = n[y]
           /\ handlers'[y] = handlers[y],
         call'.pc \in Removing => call'.x = x
  PROVE  DispatchInv' /\ CallsRegistered'
<1>1. ~shifted' => ~shifted /\ x # disp.x
  <2>1. shifted' = (shifted \/ x = disp.x)
    BY DEF Shifts
  <2> QED
    BY <2>1, Zenon
<1>2. ASSUME disp.pc \in {"test", "call"}, Undisturbed'
      PROVE  /\ Undisturbed /\ table'[disp.x][disp.sig] \in during'
             /\ ~(call'.x = disp.x /\ call'.pc \in Removing)
             /\ n'[disp.x] >= n[disp.x]
             /\ \A j \in 1..n[disp.x] :
                  handlers'[disp.x][j].sig = handlers[disp.x][j].sig
  <2>1. disp.x \in Schemas /\ disp.x # x /\ n[disp.x] \in Nat
    BY <1>1, <1>2, DispFields DEF SigInv, Undisturbed
  <2>2. Undisturbed
    BY <1>1, <1>2, <2>1 DEF Undisturbed, ArraysStay
  <2>3. table[disp.x][disp.sig] \in during
    BY <1>2, <2>2 DEF SigInv, DispatchInv
  <2> QED
    BY <2>1, <2>2, <2>3
<1> QED
  BY <1>1, <1>2, DispatchKept

(* The first entry of the signal becomes the hole. *)
LEMMA RemoveInv ==
  ASSUME SigInv, NEW x \in Schemas, NEW s \in Signals, Remove(x, s)
  PROVE  SigInv'
<1> USE DEF state, listen
<1>1. /\ call.pc = "idle" /\ call = Idle /\ ~wild /\ Found(x, s) # {}
      /\ UNCHANGED <<state, listen, disp, table, during, wild>>
  BY CallFields DEF SigInv, Remove
<1>2. PICK i \in 1..n[x] : i = FirstOf(Found(x, s))
  BY <1>1, FirstFound
<1>3. n[x] \in Nat /\ i \in Nat /\ 1 <= i /\ i <= n[x]
      /\ handlers[x][i].sig = s /\ Solid(x) = 1..n[x]
  BY <1>1, <1>2, FirstFound DEF SigInv
<1>4. call' = [pc |-> IF i < n[x] THEN "moveSig" ELSE "shrink",
               x |-> x, sig |-> s, cb |-> NoCallback, i |-> i]
  BY <1>2 DEF Remove
<1>5. Shape'
  <2>1. call' \in {Idle} \cup CallRecord
    BY <1>3, <1>4 DEF Removing
  <2>2. shifted' \in BOOLEAN
    BY ShiftTypes DEF Remove
  <2> QED
    BY <1>1, <2>1, <2>2 DEF SigInv, TypeOK, Shape
<1>6. CallInv'
  BY <1>1, <1>3, <1>4 DEF CallInv, Removing, Adding
<1>7. Solid(x)' = 1..n[x] \ {i}
  BY <1>1, <1>3, <1>4 DEF Solid, Hole
<1>8. ASSUME NEW y \in Schemas PROVE RegisteredIn(y)'
  <2>1. CASE y # x
    <3>1. call'.x # y /\ call.pc \notin Removing
      BY <1>1, <1>4, <2>1 DEF Removing
    <3>2. Solid(y)' = Solid(y)
      BY <1>1, <3>1 DEF Solid, Hole, Removing
    <3> QED
      BY <1>1, <3>1, <3>2, EntriesKept
  <2>2. CASE y = x
    <3>1. RegisteredIn(x) /\ call.pc \notin Removing
      BY <1>1 DEF SigInv, Removing
    <3>2. call'.x = x /\ call'.pc \in Removing /\ call'.sig = s
      BY <1>4 DEF Removing
    <3>3. \A j \in 1..n[x] \ {i} : handlers[x][j].sig # s
      BY <1>3, <3>1 DEF RegisteredIn
    <3>4. \A r \in Signals : table[x][r] # NoCallback =>
            (\E j \in 1..n[x] \ {i} : handlers[x][j].sig = r) \/ r = s
      BY <1>3, <3>1 DEF RegisteredIn
    <3> QED
      BY <1>1, <1>3, <1>7, <2>2, <3>1, <3>2, <3>3, <3>4 DEF RegisteredIn
  <2> QED
    BY <2>1, <2>2
<1>9. DispatchInv' /\ CallsRegistered'
  <2>1. ArraysStay
    BY <1>1 DEF ArraysStay
  <2>2. Shifts(x) /\ call'.x = x
    BY <1>4 DEF Remove
  <2> QED
    BY <1>1, <1>5, <2>1, <2>2, RemovalSeen
<1>10. StoredInv'
  <2>1. ArraysStay /\ StoresStay
    BY <1>1 DEF SigInv, StoredInv, ArraysStay, StoresStay
  <2> QED
    BY <1>1, <2>1, StoredKept
<1> QED
  BY <1>5, <1>6, <1>8, <1>9, <1>10 DEF SigInv, Shape

(* The half of an entry that is stored into the hole is not looked at. *)
LEMMA MoveSigInv ==
  ASSUME SigInv, MoveSig
  PROVE  SigInv'
<1> USE DEF listen
<1>1. /\ call \in [pc : {"moveSig"}, x : Schemas, sig : Signals \cup {Junk},
                   cb : Callbacks \cup {NoCallback}, i : Nat]
      /\ call' = [call EXCEPT !.pc = "moveCb"] /\ ~wild
      /\ UNCHANGED <<n, life, moved, listen, disp, table, during, wild>>
  BY CallFields DEF SigInv, MoveSig, Goes
<1>2. PICK x \in Schemas : x = call.x
  BY <1>1
<1>3. /\ handlers \in [Schemas -> Seq(Entry)] /\ handlers[x] \in Seq(Entry)
      /\ Len(handlers[x]) \in Nat /\ n[x] \in Nat /\ n[x] <= Len(handlers[x])
      /\ call.i \in Nat /\ call.i >= 1 /\ call.i + 1 <= n[x]
      /\ call.sig \in Signals
  BY <1>1, <1>2 DEF SigInv, TypeOK, CallInv, Removing
<1>4. handlers[x][call.i + 1] \in Entry
  BY <1>3, ElementOfSeq
<1>5. PICK i \in 1..Len(handlers[x]), v \in Signals \cup {Junk} :
        i = call.i /\ v = handlers[x][call.i + 1].sig
  BY <1>3, <1>4 DEF Entry
<1>6. SigStore(x, i, v)
  BY <1>2, <1>5 DEF MoveSig, StoreSig, SigStore
<1>7. /\ handlers' \in [Schemas -> Seq(Entry)]
      /\ \A y \in Schemas : y # x => handlers'[y] = handlers[y]
      /\ Len(handlers'[x]) = Len(handlers[x])
      /\ \A j \in 1..Len(handlers[x]) :
           /\ handlers'[x][j].cb = handlers[x][j].cb
           /\ handlers'[x][j].sig = IF j = i THEN v ELSE handlers[x][j].sig
  BY <1>3, <1>6, SigStored
<1>8. Shape'
  <2>1. call' \in {Idle} \cup CallRecord
    BY <1>1 DEF Removing
  <2>2. shifted' \in BOOLEAN
    BY ShiftTypes DEF MoveSig
  <2>3. \A y \in Schemas : n'[y] \in 0..Len(handlers'[y])
    BY <1>1, <1>7 DEF SigInv, TypeOK
  <2> QED
    BY <1>1, <1>7, <2>1, <2>2, <2>3 DEF SigInv, TypeOK, Shape
<1>9. CallInv'
  <2>1. call'.pc = "moveCb" /\ call'.x = x /\ call'.i = i /\ call'.sig \in Signals
    BY <1>1, <1>2, <1>3, <1>5
  <2>2. handlers'[x][i].sig = handlers'[x][i + 1].sig
    BY <1>3, <1>5, <1>7
  <2>3. i \in 1..(n'[x] - 1)
    BY <1>1, <1>3, <1>5
  <2> QED
    BY <2>1, <2>2, <2>3 DEF CallInv, Removing, Adding
<1>10. ASSUME NEW y \in Schemas PROVE RegisteredIn(y)'
  <2>1. Solid(y)' = Solid(y)
    BY <1>1 DEF Solid, Hole
  <2>2. \A j \in Solid(x) : j \in 1..Len(handlers[x]) /\ j # i
    BY <1>1, <1>2, <1>3, <1>5 DEF Solid, Hole
  <2>3. \A j \in Solid(y) : /\ handlers'[y][j].sig = handlers[y][j].sig
                            /\ handlers'[y][j].cb = handlers[y][j].cb
    BY <1>7, <2>2
  <2>4. call'.x = call.x /\ call'.sig = call.sig
        /\ call.pc \in Removing /\ call'.pc \in Removing
    BY <1>1 DEF Removing
  <2> QED
    BY <1>1, <2>1, <2>3, <2>4, EntriesKept
<1>11. DispatchInv' /\ CallsRegistered'
  <2>1. ArraysStay
    BY <1>1, <1>7 DEF ArraysStay
  <2>2. Shifts(x) /\ call'.x = x
    BY <1>1, <1>2 DEF MoveSig
  <2> QED
    BY <1>1, <1>7, <1>8, <2>1, <2>2, RemovalSeen
<1>12. StoredInv'
  <2>1. ArraysStay
    BY <1>1, <1>7 DEF ArraysStay
  <2>2. \A y \in Schemas : \A j \in 1..Len(handlers[y]) :
          handlers[y][j].cb # Junk => handlers'[y][j].cb # Junk
    BY <1>7
  <2>3. \A y \in Schemas : 1..n[y] \subseteq 1..Len(handlers[y])
    BY DEF SigInv, TypeOK
  <2>4. StoresStay
    BY <1>1, <2>2, <2>3 DEF SigInv, StoredInv, StoresStay
  <2> QED
    BY <1>1, <2>1, <2>4, StoredKept
<1> QED
  BY <1>8, <1>9, <1>10, <1>11, <1>12 DEF SigInv, Shape

(* The entry above the hole is now complete in it: the hole moves up. *)
LEMMA MoveCbInv ==
  ASSUME SigInv, MoveCb
  PROVE  SigInv'
<1> USE DEF listen
<1>1. /\ call \in [pc : {"moveCb"}, x : Schemas, sig : Signals \cup {Junk},
                   cb : Callbacks \cup {NoCallback}, i : Nat]
      /\ ~wild
      /\ UNCHANGED <<n, life, moved, listen, disp, table, during, wild>>
      /\ call' = IF call.i + 1 < n[call.x]
                 THEN [call EXCEPT !.pc = "moveSig", !.i = @ + 1]
                 ELSE [call EXCEPT !.pc = "shrink"]
  BY CallFields DEF SigInv, MoveCb
<1>2. PICK x \in Schemas : x = call.x
  BY <1>1
<1>3. /\ handlers \in [Schemas -> Seq(Entry)] /\ handlers[x] \in Seq(Entry)
      /\ Len(handlers[x]) \in Nat /\ n[x] \in Nat /\ n[x] <= Len(handlers[x])
      /\ call.i \in Nat /\ call.i >= 1 /\ call.i + 1 <= n[x]
      /\ call.sig \in Signals
      /\ handlers[x][call.i].sig = handlers[x][call.i + 1].sig
  BY <1>1, <1>2 DEF SigInv, TypeOK, CallInv, Removing
<1>4. handlers[x][call.i + 1] \in Entry
  BY <1>3, ElementOfSeq
<1>5. PICK i \in 1..Len(handlers[x]), v \in Callbacks \cup {Junk} :
        i = call.i /\ v = handlers[x][call.i + 1].cb
  BY <1>3, <1>4 DEF Entry
<1>6. CbStore(x, i, v)
  BY <1>2, <1>5 DEF MoveCb, StoreCb, CbStore
<1>7. /\ handlers' \in [Schemas -> Seq(Entry)]
      /\ \A y \in Schemas : y # x => handlers'[y] = handlers[y]
      /\ Len(handlers'[x]) = Len(handlers[x])
      /\ \A j \in 1..Len(handlers[x]) :
           /\ handlers'[x][j].sig = handlers[x][j].sig
           /\ handlers'[x][j].cb = IF j = i THEN v ELSE handlers[x][j].cb
  BY <1>3, <1>6, CbStored
<1>8. /\ call' \in CallRecord
      /\ call'.x = x /\ call'.sig = call.sig /\ call'.sig \in Signals
      /\ call'.pc = IF i + 1 < n[x] THEN "moveSig" ELSE "shrink"
      /\ call'.pc = "moveSig" => call'.i = i + 1
  <2>1. CASE call.i + 1 < n[call.x]
    <3>1. call' = [pc |-> "moveSig", x |-> x, sig |-> call.sig,
                   cb |-> call.cb, i |-> i + 1]
      BY <1>1, <1>2, <1>5, <2>1
    <3>2. i + 1 \in Nat /\ i + 1 < n[x]
      BY <1>2, <1>3, <1>5, <2>1
    <3>3. call' \in CallRecord
      BY <1>1, <3>1, <3>2 DEF Removing
    <3> QED
      BY <1>3, <3>1, <3>2, <3>3
  <2>2. CASE ~(call.i + 1 < n[call.x])
    <3>1. call' = [call EXCEPT !.pc = "shrink"]
      BY <1>1, <2>2
    <3> QED
      BY <1>1, <1>2, <1>3, <1>5, <2>2, <3>1 DEF Removing
  <2> QED
    BY <2>1, <2>2
<1>9. Shape'
  <2>2. shifted' \in BOOLEAN
    BY ShiftTypes DEF MoveCb
  <2>3. \A y \in Schemas : n'[y] \in 0..Len(handlers'[y])
    BY <1>1, <1>7 DEF SigInv, TypeOK
  <2> QED
    BY <1>1, <1>7, <1>8, <2>2, <2>3 DEF SigInv, TypeOK, Shape
<1>10. CallInv'
  BY <1>1, <1>3, <1>5, <1>8 DEF CallInv, Removing, Adding
<1>11. ASSUME NEW y \in Schemas PROVE RegisteredIn(y)'
  <2>1. CASE y # x
    <3>1. Solid(y)' = Solid(y)
      BY <1>1, <1>2, <1>8, <2>1 DEF Solid, Hole
    <3> QED
      BY <1>1, <1>2, <1>7, <1>8, <2>1, <3>1, EntriesKept
  <2>2. CASE y = x
    <3>1. RegisteredIn(x) /\ call.x = x /\ call.pc \in Removing
      BY <1>1, <1>2 DEF SigInv, Removing
    <3>2. Solid(x) = 1..n[x] \ {i} /\ Solid(x)' = 1..n[x] \ {i + 1}
      BY <1>1, <1>2, <1>3, <1>5, <1>8 DEF Solid, Hole
    <3>3. \A j \in 1..n[x] : j \in 1..Len(handlers[x])
      BY <1>3
    <3>4. /\ i + 1 \in Solid(x) /\ i \in Solid(x)'
          /\ handlers'[x][i].sig = handlers[x][i + 1].sig
          /\ handlers'[x][i].cb = handlers[x][i + 1].cb
      BY <1>3, <1>5, <1>7, <3>2
    <3>5. \A j \in Solid(x)' : j # i =>
            /\ j \in Solid(x) /\ j # i + 1
            /\ handlers'[x][j].sig = handlers[x][j].sig
            /\ handlers'[x][j].cb = handlers[x][j].cb
      BY <1>7, <3>2, <3>3
    <3>6. \A j \in Solid(x) : j # i + 1 => j \in Solid(x)' /\ j # i
      BY <3>2
    <3>7. \A j \in Solid(x)' :
            /\ handlers'[x][j].sig \in Signals /\ handlers'[x][j].cb \in Callbacks
            /\ table[x][handlers'[x][j].sig] = handlers'[x][j].cb
            /\ handlers'[x][j].sig # call.sig
      BY <3>1, <3>4, <3>5 DEF RegisteredIn
    <3>8. \A j, k \in Solid(x)' : handlers'[x][j].sig = handlers'[x][k].sig => j = k
      <4> SUFFICES ASSUME NEW j \in Solid(x)', NEW k \in Solid(x)',
                          handlers'[x][j].sig = handlers'[x][k].sig
                   PROVE  j = k
        OBVIOUS
      <4>1. \A p, q \in Solid(x) : handlers[x][p].sig = handlers[x][q].sig => p = q
        BY <3>1 DEF RegisteredIn
      <4>2. CASE j = i
        BY <3>4, <3>5, <4>1, <4>2
      <4>3. CASE k = i
        BY <3>4, <3>5, <4>1, <4>3
      <4>4. CASE j # i /\ k # i
        BY <3>5, <4>1, <4>4
      <4> QED
        BY <4>2, <4>3, <4>4
    <3>9. \A r \in Signals : table[x][r] # NoCallback =>
            (\E j \in Solid(x)' : handlers'[x][j].sig = r) \/ r = call.sig
      <4> SUFFICES ASSUME NEW r \in Signals, table[x][r] # NoCallback,
                          r # call.sig
                   PROVE  \E j \in Solid(x)' : handlers'[x][j].sig = r
        OBVIOUS
      <4>1. PICK k \in Solid(x) : handlers[x][k].sig = r
        BY <3>1 DEF RegisteredIn
      <4>2. CASE k = i + 1
        BY <3>4, <4>1, <4>2
      <4>3. CASE k # i + 1
        BY <3>5, <3>6, <4>1, <4>3
      <4> QED
        BY <4>2, <4>3
    <3>10. call'.pc \in Removing
      BY <1>8 DEF Removing
    <3> QED
      BY <1>1, <1>8, <2>2, <3>7, <3>8, <3>9, <3>10 DEF RegisteredIn
  <2> QED
    BY <2>1, <2>2
<1>12. DispatchInv' /\ CallsRegistered'
  <2>1. ArraysStay
    BY <1>1, <1>7 DEF ArraysStay
  <2>2. Shifts(x)
    BY <1>2 DEF MoveCb
  <2> QED
    BY <1>1, <1>7, <1>8, <1>9, <2>1, <2>2, RemovalSeen
<1>13. StoredInv'
  <2>1. ArraysStay
    BY <1>1, <1>7 DEF ArraysStay
  <2>2. v # Junk
    BY <1>3, <1>5 DEF SigInv, StoredInv
  <2>3. \A y \in Schemas : \A j \in 1..Len(handlers[y]) :
          handlers[y][j].cb # Junk => handlers'[y][j].cb # Junk
    BY <1>7, <2>2
  <2>4. \A y \in Schemas : 1..n[y] \subseteq 1..Len(handlers[y])
    BY DEF SigInv, TypeOK
  <2>5. StoresStay
    BY <1>1, <2>3, <2>4 DEF SigInv, StoredInv, StoresStay
  <2> QED
    BY <1>1, <2>1, <2>5, StoredKept
<1> QED
  BY <1>9, <1>10, <1>11, <1>12, <1>13 DEF SigInv, Shape

(* The hole is the last entry, and n no longer counts it. *)
LEMMA ShrinkInv ==
  ASSUME SigInv, Shrink
  PROVE  SigInv'
<1> USE DEF listen
<1>1. /\ call \in [pc : {"shrink"}, x : Schemas, sig : Signals \cup {Junk},
                   cb : Callbacks \cup {NoCallback}, i : Nat]
      /\ ~wild /\ call' = Idle
      /\ UNCHANGED <<handlers, life, moved, listen, disp, wild>>
  BY CallFields DEF SigInv, Shrink, Goes
<1>2. PICK x \in Schemas, s \in Signals : x = call.x /\ s = call.sig
  BY <1>1 DEF SigInv, CallInv, Removing
<1>3. /\ n \in [Schemas -> Nat] /\ n[x] \in Nat /\ n[x] >= 1
      /\ \A y \in Schemas : n[y] \in 0..Len(handlers[y])
  BY <1>1, <1>2 DEF SigInv, TypeOK, CallInv
<1>4. /\ n' \in [Schemas -> Nat] /\ n'[x] = n[x] - 1
      /\ \A y \in Schemas : y # x => n'[y] = n[y]
  <2>1. n' = [n EXCEPT ![x] = n[x] - 1] /\ n[x] - 1 \in Nat
    BY <1>2, <1>3 DEF Shrink
  <2> QED
    BY <1>3, <2>1
<1>5. /\ table' \in [Schemas -> [Signals -> Callbacks \cup {NoCallback}]]
      /\ during' \subseteq Callbacks \cup {NoCallback}
      /\ table'[x][s] = NoCallback
      /\ \A r \in Signals : r # s => table'[x][r] = table[x][r]
      /\ \A y \in Schemas : y # x => table'[y] = table[y]
  <2>1. Registers(x, s, NoCallback)
    BY <1>2 DEF Shrink
  <2> QED
    BY <2>1, RegisterTypes
<1>6. Shape'
  <2>1. shifted' \in BOOLEAN
    BY ShiftTypes DEF Shrink
  <2>2. \A y \in Schemas : n'[y] \in 0..Len(handlers'[y])
    <3>1. n'[x] \in 0..Len(handlers[x])
      BY <1>3, <1>4
    <3> QED
      BY <1>1, <1>3, <1>4, <3>1
  <2> QED
    BY <1>1, <1>4, <1>5, <2>1, <2>2 DEF SigInv, TypeOK, Shape
<1>7. CallInv' /\ call'.pc \notin Removing
  BY <1>1 DEF CallInv, Idle, Removing, Adding
<1>8. ASSUME NEW y \in Schemas PROVE RegisteredIn(y)'
  <2>1. CASE y # x
    <3>1. Solid(y)' = Solid(y)
      BY <1>1, <1>2, <1>3, <1>4, <1>7, <2>1 DEF Solid, Hole, Idle
    <3> QED
      BY <1>1, <1>2, <1>5, <1>7, <2>1, <3>1, EntriesKept
  <2>2. CASE y = x
    <3>1. RegisteredIn(x) /\ call.x = x /\ call.pc \in Removing
      BY <1>1, <1>2 DEF SigInv, Removing
    <3>2. Solid(x) = 1..n[x] \ {n[x]}
      BY <1>1, <1>2 DEF Solid, Hole
    <3>3. Solid(x)' = 1..(n[x] - 1)
      BY <1>4, <1>7, NoHole
    <3>4. Solid(x)' = Solid(x)
      BY <1>3, <3>2, <3>3
    <3> QED
      BY <1>1, <1>2, <1>5, <1>7, <2>2, <3>1, <3>4 DEF RegisteredIn
  <2> QED
    BY <2>1, <2>2
<1>9. DispatchInv' /\ CallsRegistered'
  <2>1. ArraysStay
    BY <1>1 DEF ArraysStay
  <2>2. Shifts(x)
    BY <1>2 DEF Shrink
  <2>3. during \subseteq during'
    BY DEF Shrink, Registers
  <2> QED
    BY <1>1, <1>4, <1>5, <1>6, <1>7, <2>1, <2>2, <2>3, RemovalSeen
<1>10. StoredInv'
  <2>1. ArraysStay
    BY <1>1 DEF ArraysStay
  <2>2. \A y \in Schemas : 1..n'[y] \subseteq 1..n[y]
    BY <1>3, <1>4
  <2>3. StoresStay
    BY <1>1, <2>2 DEF SigInv, StoredInv, StoresStay
  <2> QED
    BY <1>1, <2>1, <2>3, StoredKept
<1> QED
  BY <1>6, <1>7, <1>8, <1>9, <1>10 DEF SigInv, Shape

-----------------------------------------------------------------------------
LEMMA InitInv == Init => SigInv
<1> SUFFICES ASSUME Init PROVE SigInv
  OBVIOUS
<1>1. handlers \in [Schemas -> Seq(Entry)]
      /\ \A x \in Schemas : Len(handlers[x]) = 0
  BY EmptySeq DEF Init
<1>2. table \in [Schemas -> [Signals -> Callbacks \cup {NoCallback}]]
  BY DEF Init
<1>3. TypeOK
  <2>1. moved \in [Schemas -> BOOLEAN]
    BY DEF Init
  <2>2. shifted \in BOOLEAN /\ wild \in BOOLEAN
    BY DEF Init
  <2>3. \A x \in Schemas : n[x] \in 0..Len(handlers[x])
    <3> SUFFICES ASSUME NEW x \in Schemas PROVE n[x] \in 0..Len(handlers[x])
      OBVIOUS
    <3>1. n[x] = 0
      BY DEF Init
    <3>2. Len(handlers[x]) = 0
      BY <1>1
    <3> QED
      BY <3>1, <3>2
  <2>4. life \in [Schemas -> {"open", "closing", "unhandled", "freed"}]
    BY DEF Init
  <2>5. ctx \in Schemas \cup {NoSchema} /\ installed \subseteq Signals
    BY DEF Init
  <2>6. during \subseteq Callbacks \cup {NoCallback}
    BY DEF Init
  <2>7. call = Idle /\ disp = Idle
    BY DEF Init
  <2> QED
    BY <1>1, <1>2, <2>1, <2>2, <2>3, <2>4, <2>5, <2>6, <2>7 DEF TypeOK
<1>4. n \in [Schemas -> Nat] /\ CallInv /\ DispatchInv /\ CallsRegistered
  BY DEF Init, CallInv, DispatchInv, CallsRegistered, Idle, Removing, Adding
<1>5. StoredInv
  BY DEF Init, StoredInv, CallsStored, Idle
<1>6. ASSUME NEW x \in Schemas PROVE RegisteredIn(x)
  <2>1. Solid(x) = {} /\ call.pc \notin Removing
    BY DEF Init, Solid, Hole, Idle, Removing
  <2>2. \A s \in Signals : table[x][s] = NoCallback
    BY DEF Init
  <2> QED
    BY <2>1, <2>2 DEF RegisteredIn
<1> QED
  BY <1>3, <1>4, <1>5, <1>6 DEF SigInv

LEMMA NextInv == SigInv /\ [Next]_vars => SigInv'
<1> SUFFICES ASSUME SigInv, [Next]_vars PROVE SigInv'
  OBVIOUS
<1>1. CASE UNCHANGED vars
  <2>1. UNCHANGED <<handlers, n, life, moved, ctx, installed, call, disp, table,
                    during, shifted, wild>>
    BY <1>1 DEF vars, state, listen, ghosts
  <2>2. TypeOK' /\ (n \in [Schemas -> Nat])'
    BY <2>1 DEF SigInv, TypeOK
  <2>3. CallInv' /\ DispatchInv' /\ CallsRegistered' /\ StoredInv'
    BY <2>1 DEF SigInv, CallInv, DispatchInv, Undisturbed, CallsRegistered,
                StoredInv, CallsStored
  <2>4. ASSUME NEW x \in Schemas PROVE RegisteredIn(x)'
    BY <2>1 DEF SigInv, RegisteredIn, Solid, Hole
  <2> QED
    BY <2>2, <2>3, <2>4 DEF SigInv
<1>2. CASE OnSignal
  BY <1>2, RemoveInv, ReplaceInv, BeginAppendInv, MoveSigInv, MoveCbInv,
     ShrinkInv, GrowInv, GrowEndsInv, AppendSigInv, AppendCbInv,
     AppendCountInv DEF OnSignal
<1>3. CASE Dispatch
  BY <1>3, ReadsFreedInv, RaiseInv, ReturnedInv DEF Dispatch
<1>4. ASSUME NEW x \in Schemas, ListenSignals(x) PROVE SigInv'
  BY <1>4, ListenInv
<1>5. CASE FreeHandlers \/ EndClose
  BY <1>5, FreeHandlersInv, EndCloseInv
<1>6. ASSUME NEW x \in Schemas, BeginClose(x) PROVE SigInv'
  BY <1>6, BeginCloseInv
<1>7. ASSUME NEW x \in Schemas, NEW s \in Signals, ListenSignal(x, s)
      PROVE  SigInv'
  BY <1>7, ListenInv
<1>8. ASSUME NEW s \in Signals, Deliver(s) PROVE SigInv'
  BY <1>8, DeliverInv
<1> QED
  BY <1>1, <1>2, <1>3, <1>4, <1>5, <1>6, <1>7, <1>8 DEF Next

LEMMA SpecInv == Spec => []SigInv
BY InitInv, NextInv, PTL DEF Spec

(***************************************************************************)
(* The results.                                                            *)
(***************************************************************************)

(* Every value of the registry has its type: in particular a call only     *)
(* stores inside the array, and a dispatch only takes a callback from an   *)
(* entry inside it.                                                        *)
THEOREM TypeCorrect == Spec => []TypeOK
<1>1. SigInv => TypeOK
  BY DEF SigInv
<1> QED
  BY <1>1, SpecInv, PTL

(* Whenever kc_ipa_on_signal is not running, each signal has the callback  *)
(* registered last, in one entry, whatever was appended, replaced and      *)
(* removed before, and whichever growth failed.                            *)
THEOREM RegistryIsRight == Spec => []Registry
<1>1. SigInv => Registry
  <2> SUFFICES ASSUME SigInv, call.pc = "idle", NEW x \in Schemas,
                      NEW s \in Signals
               PROVE  IF table[x][s] = NoCallback THEN Found(x, s) = {}
                      ELSE \E i \in Found(x, s) :
                             Found(x, s) = {i} /\ handlers[x][i].cb = table[x][s]
    BY DEF Registry
  <2>1. RegisteredIn(x) /\ Solid(x) = 1..n[x] /\ call.pc \notin Removing
    BY NoHole DEF SigInv, Removing
  <2>2. CASE table[x][s] = NoCallback
    <3>1. table[x][s] \notin Callbacks
      BY <2>2, NamesAssumption
    <3>2. Found(x, s) = {}
      BY <2>1, <3>1 DEF RegisteredIn, Found
    <3> QED
      BY <2>2, <3>2
  <2>3. CASE table[x][s] # NoCallback
    <3>1. PICK i \in 1..n[x] : handlers[x][i].sig = s
      BY <2>1, <2>3 DEF RegisteredIn
    <3>2. Found(x, s) = {i}
      BY <2>1, <3>1 DEF RegisteredIn, Found
    <3>3. handlers[x][i].cb = table[x][s]
      BY <2>1, <3>1 DEF RegisteredIn
    <3> QED
      BY <2>3, <3>2, <3>3
  <2> QED
    BY <2>2, <2>3
<1> QED
  BY <1>1, SpecInv, PTL

(* A dispatch of kc_ipa_raise_signal that no removal disturbs calls a      *)
(* callback that was registered while it ran, however its reads interleave *)
(* with the stores of kc_ipa_on_signal.                                    *)
THEOREM DispatchCallsRegistered == Spec => []CallsRegistered
<1>1. SigInv => CallsRegistered
  BY DEF SigInv
<1> QED
  BY <1>1, SpecInv, PTL

(* A dispatch never calls through an entry that was not written: also the *)
(* one it chose before the entries moved, or before a removal left it out  *)
(* of use and an append reused it, holds a callback that some call stored. *)
THEOREM DispatchCallsStored == Spec => []CallsStored
<1>1. SigInv => CallsStored
  BY DEF SigInv, StoredInv
<1> QED
  BY <1>1, SpecInv, PTL

=============================================================================
