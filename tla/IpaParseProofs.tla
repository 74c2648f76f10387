--------------------------- MODULE IpaParseProofs ---------------------------
(***************************************************************************)
(* Proofs about the embedding context, for any set of calling threads, and *)
(* about concurrent kc_ipa_parse calls on one schema that share it, for    *)
(* any number of windows.                                                  *)
(***************************************************************************)
EXTENDS IpaParse, TLAPS

(***************************************************************************)
(* The inductive invariant of the context: who holds which mutex, who      *)
(* sleeps where, what a posted request implies, and what closing implies.  *)
(***************************************************************************)
Holders ==
  /\ \A p \in Callers : pc[p] \in {"scan", "busy", "found"} <=> poolMutex = p
  /\ \A p \in Callers :
       pc[p] \in {"busy", "found", "post", "woken"} <=> mutex = p
  /\ wpc = "loop" <=> mutex = Worker

Sleepers ==
  /\ \A p \in sleepPool : pc[p] = "poolWait"
  /\ \A p \in sleepRes : pc[p] = "wait"
  /\ sleepReq # {} => wpc = "wait"

(* A posted request is that of a waiting caller; a waiting caller whose    *)
(* request has not been carried out is the one that posted it.             *)
Request ==
  /\ hasReq => ~done /\ owner \in Callers /\ pc[owner] \in {"wait", "woken"}
  /\ \A p \in Callers : pc[p] \in {"found", "post"} => ~hasReq
  /\ \A p \in Callers :
       pc[p] \in {"wait", "woken"} /\ p \notin computed => hasReq /\ owner = p
  /\ \A p \in Callers : pc[p] = "notify" => p \in computed

Closing ==
  /\ cpc # "open" => \A p \in Callers : pc[p] = "idle"
  /\ shutdown <=> cpc \in {"join", "freed"}
  /\ wpc = "exited" => shutdown
  /\ cpc = "freed" => wpc = "exited"

EmbInv == EmbTypeOK /\ Holders /\ Sleepers /\ Request /\ Closing

LEMMA EmbInitInv == EmbInit => EmbInv
BY ThreadsAssumption
   DEF EmbInit, EmbInv, EmbTypeOK, Places, Holders, Sleepers, Request, Closing

(* A signal wakes sleepers, it puts nobody to sleep. *)
LEMMA SignalledSubset ==
  ASSUME NEW S, NEW T \in Signalled(S) PROVE T \subseteq S
BY DEF Signalled

(* The steps of kc_emb_exec. *)
LEMMA CallerInv ==
  ASSUME EmbInv, NEW p \in Callers, Call(p) \/ Exec(p)
  PROVE  EmbInv'
<1> USE ThreadsAssumption DEF EmbInv, flags, history, Goto
<1>1. CASE Call(p)
  BY <1>1 DEF Call, EmbTypeOK, Places, Holders, Sleepers, Request, Closing
<1>2. CASE LockPool(p)
  BY <1>2 DEF LockPool, EmbTypeOK, Places, Holders, Sleepers, Request, Closing
<1>3. CASE LockWorker(p)
  BY <1>3 DEF LockWorker, EmbTypeOK, Places, Holders, Sleepers, Request, Closing
<1>4. CASE SkipBusy(p)
  BY <1>4 DEF SkipBusy, EmbTypeOK, Places, Holders, Sleepers, Request, Closing
<1>5. CASE UnlockPool(p)
  BY <1>5 DEF UnlockPool, EmbTypeOK, Places, Holders, Sleepers, Request, Closing
<1>6. CASE Post(p)
  <2>1. sleepReq' \subseteq sleepReq
    BY <1>6, SignalledSubset DEF Post
  <2>2. EmbTypeOK'
    BY <1>6, <2>1 DEF Post, EmbTypeOK, Places
  <2>3. Holders'
    BY <1>6 DEF Post, EmbTypeOK, Holders
  <2>4. Sleepers'
    BY <1>6, <2>1 DEF Post, EmbTypeOK, Sleepers
  <2>5. Request'
    BY <1>6 DEF Post, EmbTypeOK, Holders, Request
  <2>6. Closing'
    BY <1>6 DEF Post, EmbTypeOK, Closing
  <2> QED
    BY <2>2, <2>3, <2>4, <2>5, <2>6
<1>7. CASE Wake(p)
  BY <1>7 DEF Wake, EmbTypeOK, Places, Holders, Sleepers, Request, Closing
<1>8. CASE SleepAgain(p)
  BY <1>8 DEF SleepAgain, EmbTypeOK, Places, Holders, Sleepers, Request, Closing
<1>9. CASE TakeResult(p)
  BY <1>9 DEF TakeResult, EmbTypeOK, Places, Holders, Sleepers, Request, Closing
<1>10. CASE Notify(p)
  BY <1>10, SignalledSubset DEF Notify, EmbTypeOK, Places, Holders, Sleepers, Request, Closing
<1> QED
  BY <1>1, <1>2, <1>3, <1>4, <1>5, <1>6, <1>7, <1>8, <1>9, <1>10 DEF Exec

(* The steps of the worker thread. *)
LEMMA WorkerInv ==
  ASSUME EmbInv, WorkerStep
  PROVE  EmbInv'
<1> USE ThreadsAssumption DEF EmbInv, flags, history
<1>1. CASE WorkerLock
  BY <1>1 DEF WorkerLock, EmbTypeOK, Holders, Sleepers, Request, Closing
<1>2. CASE WorkerSleep
  BY <1>2 DEF WorkerSleep, EmbTypeOK, Holders, Sleepers, Request, Closing
<1>3. CASE WorkerExec
  <2>1. sleepRes' \subseteq sleepRes
    BY <1>3, SignalledSubset DEF WorkerExec
  <2>2. EmbTypeOK' /\ Holders' /\ Sleepers' /\ Closing'
    BY <1>3, <2>1 DEF WorkerExec, EmbTypeOK, Holders, Sleepers, Request, Closing
  <2>3. Request'
    BY <1>3 DEF WorkerExec, EmbTypeOK, Holders, Request
  <2> QED
    BY <2>2, <2>3
<1>4. CASE WorkerExit
  BY <1>4 DEF WorkerExit, EmbTypeOK, Holders, Sleepers, Request, Closing
<1> QED
  BY <1>1, <1>2, <1>3, <1>4 DEF WorkerStep

(* The steps of kc_emb_close, and spurious wake-ups. *)
LEMMA CloseInv ==
  ASSUME EmbInv, Close \/ CloseStep \/ Spurious
  PROVE  EmbInv'
<1> USE ThreadsAssumption DEF EmbInv, flags, history
<1>1. CASE Close
  BY <1>1 DEF Close, EmbTypeOK, Holders, Sleepers, Request, Closing
<1>2. CASE CloseSignal
  <2>1. sleepReq' \subseteq sleepReq
    BY <1>2, SignalledSubset DEF CloseSignal
  <2> QED
    BY <1>2, <2>1 DEF CloseSignal, EmbTypeOK, Holders, Sleepers, Request, Closing
<1>3. CASE CloseJoin
  BY <1>3 DEF CloseJoin, EmbTypeOK, Holders, Sleepers, Request, Closing
<1>4. CASE Spurious
  <2>1. sleepPool' \subseteq sleepPool /\ sleepRes' \subseteq sleepRes
        /\ sleepReq' \subseteq sleepReq
    BY <1>4 DEF Spurious
  <2> QED
    BY <1>4, <2>1 DEF Spurious, EmbTypeOK, Holders, Sleepers, Request, Closing
<1> QED
  BY <1>1, <1>2, <1>3, <1>4 DEF CloseStep

LEMMA EmbNextInv == EmbInv /\ [EmbNext]_embVars => EmbInv'
<1> SUFFICES ASSUME EmbInv, [EmbNext]_embVars PROVE EmbInv'
  OBVIOUS
<1>1. CASE UNCHANGED embVars
  BY <1>1 DEF embVars, flags, history, EmbInv, EmbTypeOK, Holders, Sleepers,
              Request, Closing
<1>2. CASE EmbNext
  BY <1>2, CallerInv, WorkerInv, CloseInv DEF EmbNext
<1> QED
  BY <1>1, <1>2

(* EmbInv says all that the properties need. *)
LEMMA EmbInvImplies == EmbInv => LiveBuffer /\ BufferReady /\ FreedUnused
<1> SUFFICES ASSUME EmbInv PROVE LiveBuffer /\ BufferReady /\ FreedUnused
  OBVIOUS
<1>1. LiveBuffer /\ BufferReady
  BY DEF EmbInv, Request, LiveBuffer, BufferReady
<1>2. FreedUnused
  BY ThreadsAssumption
     DEF EmbInv, EmbTypeOK, Holders, Sleepers, Closing, FreedUnused
<1> QED
  BY <1>1, <1>2

LEMMA EmbSpecInv == EmbSpec => []EmbInv
BY EmbInitInv, EmbNextInv, PTL DEF EmbSpec

(* The state of the context stays well formed, for any number of threads. *)
THEOREM EmbTypeCorrect == EmbSpec => []EmbTypeOK
<1>1. EmbInv => EmbTypeOK
  BY DEF EmbInv
<1> QED
  BY <1>1, EmbSpecInv, PTL

(* However many threads call kc_emb_exec at once, the worker never writes  *)
(* into the buffer of a call that has returned.                            *)
THEOREM BuffersAreLive == EmbSpec => []LiveBuffer
<1>1. EmbInv => LiveBuffer
  BY EmbInvImplies
<1> QED
  BY <1>1, EmbSpecInv, PTL

(* No call returns before its own request has been carried out. *)
THEOREM BuffersAreReady == EmbSpec => []BufferReady
<1>1. EmbInv => BufferReady
  BY EmbInvImplies
<1> QED
  BY <1>1, EmbSpecInv, PTL

(* What kc_emb_close frees is not used by any thread any more. *)
THEOREM ClosedIsUnused == EmbSpec => []FreedUnused
<1>1. EmbInv => FreedUnused
  BY EmbInvImplies
<1> QED
  BY <1>1, EmbSpecInv, PTL


-----------------------------------------------------------------------------
(***************************************************************************)
(* The inductive invariant of the parses: schema->lock admits one thread,  *)
(* so the request slot, done and result of the worker always belong to     *)
(* that thread.                                                            *)
(***************************************************************************)
Serial ==
  /\ \A p \in Callers : ppc[p] = "scan" <=> lock = p
  /\ \A p \in Callers : pc[p] # "idle" => lock = p

Own ==
  \A p \in Callers :
    /\ pc[p] \in {"wait", "woken"} => owner = p /\ (done => result = p)
    /\ pc[p] = "notify" => ret[p] = p
    /\ pc[p] \notin {"busy", "poolWait"}

ParseTypeOK ==
  /\ lock \in Callers \cup {NoThread}
  /\ ppc \in [Callers -> {"out", "lock", "scan"}]
  /\ windows \in [Callers -> 0..MaxWindows]
  /\ wild \subseteq Callers

ParseInv == EmbInv /\ ParseTypeOK /\ Serial /\ Own

LEMMA ParseInitInv == Init => ParseInv
<1> SUFFICES ASSUME Init PROVE ParseInv
  OBVIOUS
<1>1. EmbInv
  BY EmbInitInv DEF Init
<1>2. ParseTypeOK /\ Serial /\ Own
  BY ThreadsAssumption, WindowsAssumption
     DEF Init, EmbInit, ParseTypeOK, Serial, Own
<1> QED
  BY <1>1, <1>2 DEF ParseInv

(* Every step is a step of the embedding context or leaves it alone. *)
LEMMA NextIsEmbNext == Next => [EmbNext]_embVars
BY DEF Next, ParseCall, ParseStep, ParseLock, ParseNoBuffer, ParseExec,
       ParseDone, IpaClose, Background, EmbNext

(* Steps of kc_ipa_parse itself leave the embedding context alone. *)
LEMMA ParseOnlyInv ==
  ASSUME ParseInv, NEW p \in Callers,
         ParseCall(p) \/ ParseLock(p) \/ ParseNoBuffer(p) \/ ParseDone(p)
  PROVE  (ParseTypeOK /\ Serial /\ Own)'
<1> USE ThreadsAssumption DEF ParseInv
<1>1. UNCHANGED <<pc, owner, done, result, ret>>
  BY DEF ParseCall, ParseLock, ParseNoBuffer, ParseDone, embVars, flags, history
<1>2. Own'
  BY <1>1 DEF Own
<1>3. ParseTypeOK'
  BY DEF ParseTypeOK, ParseCall, ParseLock, ParseNoBuffer, ParseDone
<1>4. Serial'
  BY <1>1 DEF Serial, ParseTypeOK, ParseCall, ParseLock, ParseNoBuffer, ParseDone
<1> QED
  BY <1>2, <1>3, <1>4

(* The steps inside kc_emb_exec belong to the holder of the lock. *)
LEMMA ExecOwn ==
  ASSUME ParseInv, NEW p \in Callers, Exec(p) /\ UNCHANGED parseVars
  PROVE  (ParseTypeOK /\ Serial /\ Own)'
<1> USE ThreadsAssumption DEF ParseInv, Goto, flags, history
<1>1. UNCHANGED <<lock, ppc, windows, wild>>
  BY DEF parseVars
<1>2. ParseTypeOK'
  BY <1>1 DEF ParseTypeOK
<1>3. pc \in [Callers -> Places] /\ pc[p] # "idle" /\ lock = p
      /\ \A q \in Callers \ {p} : pc[q] = "idle" /\ pc'[q] = "idle"
  BY DEF EmbInv, EmbTypeOK, Serial, Exec, LockPool, LockWorker, SkipBusy,
         UnlockPool, Post, Wake, SleepAgain, TakeResult, Notify
<1>4. Serial'
  BY <1>1, <1>3 DEF Serial
<1>5. Own'
  <2>1. CASE LockPool(p)
    BY <2>1, <1>3 DEF LockPool, Own
  <2>2. CASE LockWorker(p)
    <3>1. ~hasReq
      BY <2>2, <1>3 DEF LockWorker, EmbInv, Request
    <3> QED
      BY <2>2, <3>1, <1>3 DEF LockWorker, Own
  <2>3. CASE SkipBusy(p)
    BY <2>3 DEF SkipBusy, Own
  <2>4. CASE UnlockPool(p)
    BY <2>4, <1>3 DEF UnlockPool, Own
  <2>5. CASE Post(p)
    BY <2>5, <1>3 DEF Post, Own
  <2>6. CASE Wake(p)
    BY <2>6, <1>3 DEF Wake, Own
  <2>7. CASE SleepAgain(p)
    BY <2>7, <1>3 DEF SleepAgain, Own
  <2>8. CASE TakeResult(p)
    BY <2>8, <1>3 DEF TakeResult, Own, EmbInv, EmbTypeOK
  <2>9. CASE Notify(p)
    BY <2>9, <1>3 DEF Notify, Own
  <2> QED
    BY <2>1, <2>2, <2>3, <2>4, <2>5, <2>6, <2>7, <2>8, <2>9 DEF Exec
<1> QED
  BY <1>2, <1>4, <1>5

LEMMA ParseNextInv == ParseInv /\ [Next]_vars => ParseInv'
<1> SUFFICES ASSUME ParseInv, [Next]_vars PROVE ParseInv'
  OBVIOUS
<1> USE ThreadsAssumption
<1>1. EmbInv'
  <2>1. [EmbNext]_embVars
    BY NextIsEmbNext DEF vars
  <2> QED
    BY <2>1, EmbNextInv DEF ParseInv
<1>2. (ParseTypeOK /\ Serial /\ Own)'
  <2>1. CASE UNCHANGED vars
    BY <2>1 DEF vars, embVars, parseVars, flags, history, ParseInv, ParseTypeOK,
                Serial, Own
  <2>2. ASSUME NEW p \in Callers,
               ParseCall(p) \/ ParseLock(p) \/ ParseNoBuffer(p) \/ ParseDone(p)
        PROVE  (ParseTypeOK /\ Serial /\ Own)'
    BY <2>2, ParseOnlyInv
  <2>3. ASSUME NEW p \in Callers, ParseExec(p)
        PROVE  (ParseTypeOK /\ Serial /\ Own)'
    <3>1. ParseTypeOK'
      BY <2>3, WindowsAssumption DEF ParseExec, ParseInv, ParseTypeOK
    <3>2. Serial' /\ Own'
      BY <2>3 DEF ParseExec, Call, Goto, flags, ParseInv, EmbInv, EmbTypeOK,
                  Serial, Own
    <3> QED
      BY <3>1, <3>2
  <2>4. ASSUME NEW p \in Callers, Exec(p) /\ UNCHANGED parseVars
        PROVE  (ParseTypeOK /\ Serial /\ Own)'
    BY <2>4, ExecOwn
  <2>5. CASE IpaClose \/ Background
    <3>1. UNCHANGED <<lock, ppc, windows, wild>>
      BY <2>5 DEF IpaClose, Background, parseVars
    <3>2. UNCHANGED <<pc, ret, owner>>
      BY <2>5 DEF IpaClose, Background, Close, CloseStep, CloseSignal, CloseJoin,
                  Spurious, WorkerStep, WorkerLock, WorkerSleep, WorkerExec,
                  WorkerExit, flags, history
    <3>3. UNCHANGED <<done, result>> \/ (done' = TRUE /\ result' = owner)
      BY <2>5 DEF IpaClose, Background, Close, CloseStep, CloseSignal, CloseJoin,
                  Spurious, WorkerStep, WorkerLock, WorkerSleep, WorkerExec,
                  WorkerExit, flags, history
    <3> QED
      BY <3>1, <3>2, <3>3 DEF ParseInv, ParseTypeOK, Serial, Own
  <2> QED
    BY <2>1, <2>2, <2>3, <2>4, <2>5 DEF Next, ParseStep
<1> QED
  BY <1>1, <1>2 DEF ParseInv

LEMMA ParseSpecInv == Spec => []ParseInv
BY ParseInitInv, ParseNextInv, PTL DEF Spec

(* Every reachable state of the schema and its context is well formed. *)
THEOREM ParseTypeCorrect == Spec => []TypeOK
<1>1. ParseInv => TypeOK
  BY DEF ParseInv, EmbInv, ParseTypeOK, TypeOK
<1> QED
  BY <1>1, ParseSpecInv, PTL

(* Under schema->lock every kc_emb_exec call is told its own status, which *)
(* the embedding context alone does not guarantee.                         *)
THEOREM StatusIsOwn == Spec => []OwnStatus
<1>1. ParseInv => OwnStatus
  BY DEF ParseInv, Own, OwnStatus
<1> QED
  BY <1>1, ParseSpecInv, PTL

(* Under schema->lock the pool's waiting loop and the sharing of cond_res  *)
(* never come into play.                                                   *)
THEOREM LockPreventsContention == Spec => []NeverContended
<1>1. ParseInv => NeverContended
  BY DEF ParseInv, Own, Serial, EmbInv, EmbTypeOK, Sleepers, NeverContended
<1> QED
  BY <1>1, ParseSpecInv, PTL

(***************************************************************************)
(* The refinement.                                                         *)
(***************************************************************************)

(* One caller at most is inside kc_emb_exec. *)
OneActive(place, p) ==
  place[p] # "idle" /\ \A q \in Callers : place[q] # "idle" => q = p

LEMMA ActiveIs ==
  ASSUME NEW place, NEW p \in Callers, OneActive(place, p)
  PROVE  ActiveIn(place) = p /\ p # NoThread
BY ThreadsAssumption, Zenon DEF ActiveIn, OneActive

LEMMA ActiveIsNone ==
  ASSUME NEW place, \A p \in Callers : place[p] = "idle"
  PROVE  /\ ActiveIn(place) = NoThread
         /\ \A filled : PhaseIn(place, filled) = "free"
BY DEF ActiveIn, PhaseIn

(* How far its call is. *)
LEMMA PhaseIs ==
  ASSUME NEW place, NEW p \in Callers, OneActive(place, p), NEW filled
  PROVE  PhaseIn(place, filled) =
           IF place[p] = "notify" THEN "told"
           ELSE IF p \in filled THEN "filled" ELSE "asked"
<1>1. ActiveIn(place) = p /\ p # NoThread
  BY ActiveIs
<1> QED
  BY <1>1 DEF PhaseIn

LEMMA SerialOneActive ==
  ASSUME NEW p \in Callers
  PROVE  /\ Serial /\ pc[p] # "idle" => OneActive(pc, p)
         /\ Serial' /\ pc'[p] # "idle" => OneActive(pc', p)
BY ThreadsAssumption DEF Serial, OneActive

(* Steps of kc_emb_exec map to steps of the service. *)
LEMMA ExecRefines ==
  ASSUME ParseInv, ParseInv', NEW p \in Callers, Exec(p)
  PROVE  [Service!Next]_(Service!serviceVars)
<1> USE DEF Goto, flags, history
<1>1. Serial /\ Serial' /\ pc \in [Callers -> Places]
  BY DEF ParseInv, EmbInv, EmbTypeOK
<1>2. CASE LockPool(p) \/ LockWorker(p) \/ SkipBusy(p) \/ UnlockPool(p)
           \/ Post(p) \/ Wake(p) \/ SleepAgain(p)
  <2>1. /\ pc[p] \notin {"idle", "notify"} /\ pc'[p] \notin {"idle", "notify"}
        /\ UNCHANGED <<computed, ret>>
    BY <1>1, <1>2 DEF LockPool, LockWorker, SkipBusy, UnlockPool, Post, Wake,
                      SleepAgain
  <2>2. OneActive(pc, p) /\ OneActive(pc', p)
    BY <1>1, <2>1, SerialOneActive
  <2>3. ActiveIn(pc) = p /\ ActiveIn(pc') = p
    BY <2>2, ActiveIs
  <2>4. PhaseIn(pc, computed) = PhaseIn(pc', computed)
    BY <2>1, <2>2, PhaseIs
  <2> QED
    BY <2>1, <2>3, <2>4 DEF Service!serviceVars
<1>3. CASE TakeResult(p)
  <2>1. pc[p] = "woken" /\ pc'[p] = "notify" /\ computed' = computed
        /\ ret' = [ret EXCEPT ![p] = result] /\ done
    BY <1>1, <1>3 DEF TakeResult
  <2>2. p \in computed /\ result = p
    BY <2>1 DEF ParseInv, EmbInv, Request, Own
  <2>3. OneActive(pc, p) /\ OneActive(pc', p)
    BY <1>1, <2>1, SerialOneActive
  <2>4. ActiveIn(pc) = p /\ ActiveIn(pc') = p
    BY <2>3, ActiveIs
  <2>5. PhaseIn(pc, computed) = "filled" /\ PhaseIn(pc', computed) = "told"
    BY <2>1, <2>2, <2>3, PhaseIs
  <2>6. Service!Tell
    BY <2>1, <2>2, <2>4, <2>5 DEF Service!Tell
  <2> QED
    BY <2>6 DEF Service!Next, Service!Serve
<1>4. CASE Notify(p)
  <2>1. /\ pc[p] = "notify" /\ ret' = ret /\ computed' = computed
        /\ pc' = [pc EXCEPT ![p] = "idle"]
    BY <1>4 DEF Notify
  <2>2. OneActive(pc, p)
    BY <1>1, <2>1, SerialOneActive
  <2>3. \A q \in Callers : pc'[q] = "idle"
    BY <1>1, <2>1, <2>2 DEF OneActive
  <2>4. PhaseIn(pc, computed) = "told"
    BY <2>1, <2>2, PhaseIs
  <2>5. ActiveIn(pc') = NoThread /\ PhaseIn(pc', computed') = "free"
    BY <2>3, ActiveIsNone
  <2>6. Service!Return
    BY <2>1, <2>4, <2>5 DEF Service!Return
  <2> QED
    BY <2>6 DEF Service!Next, Service!Serve
<1> QED
  BY <1>2, <1>3, <1>4 DEF Exec

(* The worker's inference fills the buffer of the active caller. *)
LEMMA WorkerRefines ==
  ASSUME ParseInv, WorkerExec
  PROVE  [Service!Next]_(Service!serviceVars)
<1>1. /\ owner \in Callers /\ pc[owner] \in {"wait", "woken"}
      /\ pc' = pc /\ ret' = ret /\ computed' = computed \cup {owner}
  BY DEF WorkerExec, ParseInv, EmbInv, Request
<1>2. OneActive(pc, owner)
  BY <1>1, SerialOneActive DEF ParseInv
<1>3. PhaseIn(pc', computed') = "filled"
  BY <1>1, <1>2, PhaseIs
<1>4. PhaseIn(pc, computed) \in {"filled", "asked"}
  BY <1>1, <1>2, PhaseIs
<1>5. Service!Fill \/ UNCHANGED Service!serviceVars
  BY <1>1, <1>3, <1>4 DEF Service!Fill, Service!serviceVars
<1> QED
  BY <1>5 DEF Service!Next, Service!Serve

(* Beginning a call asks the service, which is free. *)
LEMMA CallRefines ==
  ASSUME ParseInv, ParseInv', NEW p \in Callers, ParseExec(p)
  PROVE  Service!Ask(p)
<1>1. /\ pc[p] = "idle" /\ pc' = [pc EXCEPT ![p] = "pool"] /\ ret' = ret
      /\ p \notin computed' /\ lock = p /\ pc \in [Callers -> Places]
  BY DEF ParseExec, Call, Goto, ParseInv, Serial, EmbInv, EmbTypeOK
<1>2. \A q \in Callers : pc[q] = "idle"
  BY <1>1 DEF ParseInv, Serial
<1>3. ActiveIn(pc) = NoThread
  BY <1>2, ActiveIsNone
<1>4. OneActive(pc', p) /\ pc'[p] = "pool"
  BY <1>1, <1>2 DEF OneActive
<1>5. ActiveIn(pc') = p
  BY <1>4, ActiveIs
<1>6. PhaseIn(pc', computed') = "asked"
  BY <1>1, <1>4, PhaseIs
<1> QED
  BY <1>1, <1>3, <1>5, <1>6 DEF Service!Ask

LEMMA StepRefines ==
  ParseInv /\ ParseInv' /\ [Next]_vars => [Service!Next]_(Service!serviceVars)
<1> SUFFICES ASSUME ParseInv, ParseInv', [Next]_vars
             PROVE  [Service!Next]_(Service!serviceVars)
  OBVIOUS
<1>1. ASSUME UNCHANGED <<pc, computed, ret>>
      PROVE  [Service!Next]_(Service!serviceVars)
  BY <1>1 DEF Service!serviceVars
<1>2. ASSUME NEW p \in Callers,
             ParseCall(p) \/ ParseLock(p) \/ ParseNoBuffer(p) \/ ParseDone(p)
      PROVE  UNCHANGED <<pc, computed, ret>>
  BY <1>2 DEF ParseCall, ParseLock, ParseNoBuffer, ParseDone, embVars, history
<1>3. ASSUME NEW p \in Callers, ParseExec(p)
      PROVE  [Service!Next]_(Service!serviceVars)
  BY <1>3, CallRefines DEF Service!Next
<1>4. ASSUME NEW p \in Callers, Exec(p)
      PROVE  [Service!Next]_(Service!serviceVars)
  BY <1>4, ExecRefines
<1>5. CASE IpaClose \/ Background
  <2>1. CASE WorkerExec
    BY <2>1, WorkerRefines
  <2>2. CASE ~WorkerExec
    BY <1>1, <1>5, <2>2
       DEF IpaClose, Background, Close, CloseStep, CloseSignal, CloseJoin,
           Spurious, WorkerStep, WorkerLock, WorkerSleep, WorkerExit, history
  <2> QED
    BY <2>1, <2>2
<1>6. CASE UNCHANGED vars
  BY <1>1, <1>6 DEF vars, embVars, history
<1> QED
  BY <1>1, <1>2, <1>3, <1>4, <1>5, <1>6 DEF Next, ParseStep

(* The parser's use of the worker thread implements the service: calls are *)
(* served one at a time and each is told its own status.                   *)
THEOREM ImplementsEmbService == Spec => Service!Spec
<1>1. Init => Service!Init
  <2> SUFFICES ASSUME Init PROVE Service!Init
    OBVIOUS
  <2>1. \A p \in Callers : pc[p] = "idle"
    BY DEF Init, EmbInit
  <2> QED
    BY <2>1, ActiveIsNone DEF Init, EmbInit, Service!Init
<1> QED
  BY <1>1, ParseSpecInv, StepRefines, PTL DEF Spec, Service!Spec

=============================================================================
