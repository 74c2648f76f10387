----------------------------- MODULE IpaSignals -----------------------------
(***************************************************************************)
(* The signal registry of src/libipa.c: kc_ipa_on_signal, the listeners,   *)
(* kc_ipa_raise_signal and kc_ipa_close, store by store, with an OS signal *)
(* that may be delivered between any two stores, to the thread that makes  *)
(* them or to another one (the embedding worker blocks no signal).         *)
(*                                                                         *)
(* One thread of the program uses the registry, as nothing locks it, and   *)
(* one signal is dispatched at a time: a dispatch only reads.  Reading     *)
(* freed memory is undefined, so the model stops there, in wild.           *)
(***************************************************************************)
EXTENDS Naturals, Sequences

CONSTANTS
  Schemas, NoSchema,       \* NoSchema: g_signal_ctx before any listener
  Signals, Callbacks,
  NoCallback,              \* NULL
  Junk,                    \* what an entry holds that was never written
  FirstCapacity            \* capacity of the first array: 4 in the code

ASSUME NamesAssumption ==
  /\ NoSchema \notin Schemas /\ NoCallback \notin Callbacks
  /\ Junk \notin Callbacks \cup {NoCallback} \cup Signals
ASSUME CapacityAssumption == FirstCapacity \in Nat \ {0}

VARIABLES
  handlers,     \* signal_handlers of each schema, as long as its capacity
  n,            \* n_signal_handlers
  life,         \* what kc_ipa_close has freed of it; unhandled: its array
  moved,        \* whether realloc has moved the array of the pointer
  ctx,          \* g_signal_ctx
  installed,    \* the OS signals wired to kc_ipa_signal_listener
  call,         \* the kc_ipa_on_signal or kc_ipa_close under way
  disp,         \* the dispatch under way, or the last one
  \* history
  table,        \* the callback each call that returned left registered
  during,       \* the callbacks registered for disp.sig while it ran
  shifted,      \* whether entries were removed or moved while it ran
  wild          \* whether it read freed memory

state  == <<handlers, n, life, moved>>
listen == <<ctx, installed>>
ghosts == <<table, during, shifted, wild>>
vars   == <<state, listen, call, disp, ghosts>>

Entry == [sig : Signals \cup {Junk}, cb : Callbacks \cup {Junk}]
Removing == {"moveSig", "moveCb", "shrink"}
Growing  == {"grow", "grown"}
Closing  == {"freeArray", "freeSchema"}

Idle ==
  [pc |-> "idle", x |-> NoSchema, sig |-> Junk, cb |-> NoCallback, i |-> 0]

TypeOK ==
  /\ handlers \in [Schemas -> Seq(Entry)]
  /\ \A x \in Schemas : n[x] \in 0..Len(handlers[x])
  /\ life \in [Schemas -> {"open", "closing", "unhandled", "freed"}]
  /\ moved \in [Schemas -> BOOLEAN]
  /\ ctx \in Schemas \cup {NoSchema} /\ installed \subseteq Signals
  /\ call \in {Idle} \cup
       [pc : Removing \cup Growing \cup Closing \cup {"sig", "cb", "count"},
        x : Schemas, sig : Signals \cup {Junk},
        cb : Callbacks \cup {NoCallback}, i : Nat]
  /\ disp \in {Idle} \cup
       [pc : {"test", "call", "return"}, x : Schemas, sig : Signals,
        cb : Callbacks \cup {NoCallback, Junk}, i : Nat]
  /\ table \in [Schemas -> [Signals -> Callbacks \cup {NoCallback}]]
  /\ during \subseteq Callbacks \cup {NoCallback}
  /\ shifted \in BOOLEAN /\ wild \in BOOLEAN

(* Every schema has just been opened. *)
Init ==
  /\ handlers = [x \in Schemas |-> <<>>] /\ n = [x \in Schemas |-> 0]
  /\ life = [x \in Schemas |-> "open"] /\ moved = [x \in Schemas |-> FALSE]
  /\ ctx = NoSchema /\ installed = {}
  /\ call = Idle /\ disp = Idle
  /\ table = [x \in Schemas |-> [s \in Signals |-> NoCallback]]
  /\ during = {} /\ shifted = FALSE /\ wild = FALSE

(* The entries kc_ipa_raise_signal would find for a signal. *)
Found(x, s) == {i \in 1..n[x] : handlers[x][i].sig = s}
FirstOf(S)  == CHOOSE i \in S : \A j \in S : i <= j

-----------------------------------------------------------------------------
(* Bookkeeping: a call registers a callback, and what a dispatch under way *)
(* on the same schema may then have seen.                                  *)
Registers(x, s, c) ==
  /\ table' = [table EXCEPT ![x][s] = c]
  /\ during' = IF <<x, s>> = <<disp.x, disp.sig>> THEN during \cup {c}
                                                  ELSE during

Shifts(x) == shifted' = (shifted \/ x = disp.x)

Goes(from, to) ==
  /\ ~wild /\ call.pc = from
  /\ call' = IF to = "idle" THEN Idle ELSE [call EXCEPT !.pc = to]

StoreSig(i, v) == handlers' = [handlers EXCEPT ![call.x][i].sig = v]
StoreCb(i, v)  == handlers' = [handlers EXCEPT ![call.x][i].cb = v]

-----------------------------------------------------------------------------
(* kc_ipa_on_signal finds the signal and has a callback: one store. *)
Replace(x, s, c) ==
  /\ ~wild /\ call.pc = "idle" /\ life[x] = "open" /\ Found(x, s) # {}
  /\ handlers' = [handlers EXCEPT ![x][FirstOf(Found(x, s))].cb = c]
  /\ Registers(x, s, c)
  /\ UNCHANGED <<n, life, moved, listen, call, disp, shifted, wild>>

(* It finds it and has none: the entries above are moved down, the signal  *)
(* and the callback of an entry one after the other, and n goes down.      *)
Remove(x, s) ==
  /\ ~wild /\ call.pc = "idle" /\ life[x] = "open" /\ Found(x, s) # {}
  /\ LET i == FirstOf(Found(x, s))
     IN  call' = [pc |-> IF i < n[x] THEN "moveSig" ELSE "shrink",
                  x |-> x, sig |-> s, cb |-> NoCallback, i |-> i]
  /\ Shifts(x)
  /\ UNCHANGED <<state, listen, disp, table, during, wild>>

MoveSig ==
  /\ Goes("moveSig", "moveCb")
  /\ StoreSig(call.i, handlers[call.x][call.i + 1].sig)
  /\ Shifts(call.x)
  /\ UNCHANGED <<n, life, moved, listen, disp, table, during, wild>>

MutMoveCb ==
  /\ ~wild /\ call.pc = "moveCb"
  /\ StoreCb(call.i, handlers[call.x][call.i + 1].cb)
  /\ call' = IF call.i + 2 < n[call.x]
             THEN [call EXCEPT !.pc = "moveSig", !.i = @ + 1]
             ELSE [call EXCEPT !.pc = "shrink"]
  /\ Shifts(call.x)
  /\ UNCHANGED <<n, life, moved, listen, disp, table, during, wild>>

MoveCb ==
  /\ ~wild /\ call.pc = "moveCb"
  /\ StoreCb(call.i, handlers[call.x][call.i + 1].cb)
  /\ call' = IF call.i + 1 < n[call.x]
             THEN [call EXCEPT !.pc = "moveSig", !.i = @ + 1]
             ELSE [call EXCEPT !.pc = "shrink"]
  /\ Shifts(call.x)
  /\ UNCHANGED <<n, life, moved, listen, disp, table, during, wild>>

Shrink ==
  /\ Goes("shrink", "idle")
  /\ n' = [n EXCEPT ![call.x] = @ - 1]
  /\ Registers(call.x, call.sig, NoCallback) /\ Shifts(call.x)
  /\ UNCHANGED <<handlers, life, moved, listen, disp, wild>>

(* It finds none: without a callback it returns; with one the array grows, *)
(* if it is full, and an entry is added behind the others.                 *)
BeginAppend(x, s, c) ==
  /\ ~wild /\ call.pc = "idle" /\ life[x] = "open" /\ Found(x, s) = {}
  /\ call' = [pc |-> IF n[x] >= Len(handlers[x]) THEN "grow" ELSE "sig",
              x |-> x, sig |-> s, cb |-> c, i |-> n[x] + 1]
  /\ UNCHANGED <<state, listen, disp, ghosts>>

NewCapacity(c) == IF c = 0 THEN FirstCapacity ELSE 2 * c

(* realloc may move the array; the pointer is stored afterwards. *)
Grow ==
  /\ Goes("grow", "grown")
  /\ handlers' = [handlers EXCEPT ![call.x] =
       [i \in 1..NewCapacity(Len(@)) |->
          IF i <= Len(@) THEN @[i] ELSE [sig |-> Junk, cb |-> Junk]]]
  /\ moved' = [moved EXCEPT ![call.x] = TRUE]
  /\ UNCHANGED <<n, life, listen, disp, ghosts>>

GrowFails ==
  /\ Goes("grow", "idle")
  /\ UNCHANGED <<state, listen, disp, ghosts>>

Grown ==
  /\ Goes("grown", "sig")
  /\ moved' = [moved EXCEPT ![call.x] = FALSE]
  /\ UNCHANGED <<handlers, n, life, listen, disp, ghosts>>

MutAppendSig ==
  /\ Goes("sig", "cb") /\ StoreSig(call.i, call.sig)
  /\ n' = [n EXCEPT ![call.x] = call.i]
  /\ UNCHANGED <<life, moved, listen, disp, ghosts>>

AppendSig ==
  /\ Goes("sig", "cb") /\ StoreSig(call.i, call.sig)
  /\ UNCHANGED <<n, life, moved, listen, disp, ghosts>>

AppendCb ==
  /\ Goes("cb", "count") /\ StoreCb(call.i, call.cb)
  /\ UNCHANGED <<n, life, moved, listen, disp, ghosts>>

AppendCount ==
  /\ Goes("count", "idle")
  /\ n' = [n EXCEPT ![call.x] = call.i]
  /\ Registers(call.x, call.sig, call.cb)
  /\ UNCHANGED <<handlers, life, moved, listen, disp, shifted, wild>>

-----------------------------------------------------------------------------
(* kc_ipa_listen_signals, and kc_ipa_listen_signal for one OS signal. *)
ListenSignals(x) ==
  /\ ~wild /\ call.pc = "idle" /\ life[x] = "open"
  /\ ctx' = x
  /\ UNCHANGED <<state, installed, call, disp, ghosts>>

ListenSignal(x, s) ==
  /\ ~wild /\ call.pc = "idle" /\ life[x] = "open"
  /\ ctx' = x /\ installed' = installed \cup {s}
  /\ UNCHANGED <<state, call, disp, ghosts>>

(* kc_ipa_close closes the members, then frees the array, then the schema; *)
(* n_signal_handlers and g_signal_ctx keep their values.                   *)
BeginClose(x) ==
  /\ ~wild /\ call.pc = "idle" /\ life[x] = "open"
  /\ life' = [life EXCEPT ![x] = "closing"]
  /\ call' = [Idle EXCEPT !.pc = "freeArray", !.x = x]
  /\ UNCHANGED <<handlers, n, moved, listen, disp, ghosts>>

FreeHandlers ==
  /\ Goes("freeArray", "freeSchema")
  /\ life' = [life EXCEPT ![call.x] = "unhandled"]
  /\ UNCHANGED <<handlers, n, moved, listen, disp, ghosts>>

EndClose ==
  /\ Goes("freeSchema", "idle")
  /\ life' = [life EXCEPT ![call.x] = "freed"]
  /\ handlers' = [handlers EXCEPT ![call.x] = <<>>]
  /\ n' = [n EXCEPT ![call.x] = 0]
  /\ table' = [table EXCEPT ![call.x] = [s \in Signals |-> NoCallback]]
  /\ UNCHANGED <<moved, listen, disp, during, shifted, wild>>

-----------------------------------------------------------------------------
(* An OS signal reaches kc_ipa_signal_listener, which raises it. *)
Deliver(s) ==
  /\ ~wild /\ disp.pc = "idle" /\ s \in installed /\ ctx # NoSchema
  /\ disp' = [pc |-> "test", x |-> ctx, sig |-> s, i |-> 1, cb |-> NoCallback]
  /\ during' = {table[ctx][s]}
  /\ shifted' = (call.pc \in Removing /\ call.x = ctx)
  /\ UNCHANGED <<state, listen, call, table, wild>>

(* Each test reads n_signal_handlers and, up to it, the entry; the call    *)
(* reads the entry that was found.                                         *)
ReadsEntry == disp.pc = "call" \/ disp.i <= n[disp.x]

Freed ==
  \/ life[disp.x] = "freed"
  \/ ReadsEntry /\ (moved[disp.x] \/ life[disp.x] = "unhandled")

ReadsFreed ==
  /\ ~wild /\ disp.pc \in {"test", "call"} /\ Freed
  /\ wild' = TRUE
  /\ UNCHANGED <<state, listen, call, disp, table, during, shifted>>

RaiseTest ==
  /\ ~wild /\ disp.pc = "test" /\ ~Freed /\ disp.i <= n[disp.x]
  /\ disp' = IF handlers[disp.x][disp.i].sig = disp.sig
             THEN [disp EXCEPT !.pc = "call"] ELSE [disp EXCEPT !.i = @ + 1]
  /\ UNCHANGED <<state, listen, call, ghosts>>

RaiseCall ==
  /\ ~wild /\ disp.pc = "call" /\ ~Freed
  /\ disp' = [disp EXCEPT !.pc = "return", !.cb = handlers[disp.x][disp.i].cb]
  /\ UNCHANGED <<state, listen, call, ghosts>>

RaiseError ==
  /\ ~wild /\ disp.pc = "test" /\ ~Freed /\ disp.i > n[disp.x]
  /\ disp' = [disp EXCEPT !.pc = "return"]
  /\ UNCHANGED <<state, listen, call, ghosts>>

(* The callback and the listener return. *)
Returned ==
  /\ ~wild /\ disp.pc = "return"
  /\ disp' = Idle /\ during' = {} /\ shifted' = FALSE
  /\ UNCHANGED <<state, listen, call, table, wild>>

OnSignal ==
  \/ \E x \in Schemas, s \in Signals :
       \/ Remove(x, s)
       \/ \E c \in Callbacks : Replace(x, s, c) \/ BeginAppend(x, s, c)
  \/ MoveSig \/ MoveCb \/ Shrink
  \/ Grow \/ GrowFails \/ Grown \/ AppendSig \/ AppendCb \/ AppendCount

Dispatch == ReadsFreed \/ RaiseTest \/ RaiseCall \/ RaiseError \/ Returned

Next ==
  \/ OnSignal \/ Dispatch \/ FreeHandlers \/ EndClose
  \/ \E x \in Schemas : ListenSignals(x) \/ BeginClose(x)
  \/ \E x \in Schemas, s \in Signals : ListenSignal(x, s)
  \/ \E s \in Signals : Deliver(s)

Spec == Init /\ [][Next]_vars

-----------------------------------------------------------------------------
(* Whenever no call is under way, a signal finds the callback that was     *)
(* registered last, exactly once, after any sequence of registrations,     *)
(* removals from the middle of the array, growths and failures.            *)
Registry ==
  call.pc = "idle" =>
    \A x \in Schemas, s \in Signals :
      LET F == Found(x, s)
      IN  IF table[x][s] = NoCallback THEN F = {}
          ELSE \E i \in F : F = {i} /\ handlers[x][i].cb = table[x][s]

(* A dispatch during which nothing is removed calls a callback that was    *)
(* registered for its signal at some moment while it ran, and none only if *)
(* there was a moment without one: replacing and appending are atomic to   *)
(* it, although they are several stores.  A removal is not: between the    *)
(* two halves of a moved entry a signal gets the callback of another one.  *)
CallsRegistered ==
  disp.pc = "return" /\ ~shifted => disp.cb \in during

(* Whatever is removed, moved or appended while a signal is dispatched,    *)
(* also behind an entry the dispatch has already chosen, it calls through  *)
(* a pointer that a call of kc_ipa_on_signal stored: never through an      *)
(* entry that was not written yet.                                         *)
CallsStored == disp.pc = "return" => disp.cb # Junk

(* What the comment on kc_ipa_raise_signal says, "calling the registered   *)
(* callback if any", of every dispatch: it calls what was registered for   *)
(* its signal at some moment while it ran, and what it reads is there.     *)
(* The code violates it in three ways: after kc_ipa_close, which leaves    *)
(* the schema in g_signal_ctx; during realloc; and during memmove.  The    *)
(* two properties below single out the second and the third.               *)
RaisesRegistered == ~wild /\ (disp.pc = "return" => disp.cb \in during)

(* What a signal that interrupts the call under way, and is dispatched     *)
(* before it goes on, gets.                                                *)
Interrupt(x, s) ==
  IF Found(x, s) = {} THEN NoCallback ELSE handlers[x][FirstOf(Found(x, s))].cb

(* What the comment on kc_ipa_raise_signal says, for a signal that         *)
(* interrupts kc_ipa_on_signal: "the registered callback if any" is the    *)
(* one of before the call or the one of after it, and other signals than   *)
(* the call's are not concerned.  The code violates it: memmove leaves,    *)
(* for a moment, the signal of one handler with the callback of another.   *)
InterruptsSeeRegistered ==
  \A x \in Schemas, s \in Signals :
    life[x] = "open" /\ ~moved[x] =>
      \/ Interrupt(x, s) = table[x][s]
      \/ <<call.x, call.sig>> = <<x, s>> /\ Interrupt(x, s) = call.cb

(* A raise on an open schema, whatever is being registered, reads memory   *)
(* the schema owns.  The code violates it: between realloc and the store   *)
(* of its result the array of the pointer is freed.                        *)
OpenRaisesSafely == wild => life[disp.x] # "open"

=============================================================================
