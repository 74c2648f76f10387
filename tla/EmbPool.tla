------------------------------ MODULE EmbPool ------------------------------
(***************************************************************************)
(* The embedding context of lib/libemb.c: one worker thread that owns the  *)
(* inference context, the threads that call kc_emb_exec, and the thread    *)
(* that calls kc_emb_close.  Two mutexes (the pool's and the worker's) and *)
(* three condition variables are modelled as POSIX defines them: a wait    *)
(* releases the mutex and sleeps in one step, a signal wakes one sleeper   *)
(* if there is one, a woken thread must lock the mutex again, and a        *)
(* sleeper may also wake up spuriously.                                    *)
(*                                                                         *)
(* kc_emb_open creates one worker (n_workers = 1), so the scan over the    *)
(* workers is a look at that one.  The inference itself is external: it    *)
(* ends, with some status, in one step.                                    *)
(***************************************************************************)
EXTENDS FiniteSets, Naturals

CONSTANTS
  Callers,    \* the threads that call kc_emb_exec
  Worker,     \* the worker thread
  NoThread    \* nobody: a free mutex, no request

ASSUME ThreadsAssumption ==
  Worker \notin Callers /\ NoThread \notin Callers /\ Worker # NoThread

VARIABLES
  poolMutex,   \* owner of ctx->pool_mutex
  mutex,       \* owner of w->mutex
  hasReq,      \* w->has_req
  done,        \* w->done
  shutdown,    \* w->shutdown
  owner,       \* w->input and w->out: the caller they belong to
  result,      \* w->result: the caller whose request it is the status of
  sleepPool,   \* callers asleep on ctx->pool_cond
  sleepRes,    \* callers asleep on w->cond_res
  sleepReq,    \* the worker when asleep on w->cond_req
  pc,          \* where each caller is in kc_emb_exec
  wpc,         \* where the worker is
  cpc,         \* where kc_emb_close is
  computed,    \* history: the callers whose request has been carried out
  ret          \* the status each caller's last call returned

flags   == <<hasReq, done, shutdown, owner, result>>
history == <<computed, ret>>
embVars == <<poolMutex, mutex, flags, sleepPool, sleepRes, sleepReq,
             pc, wpc, cpc, history>>

Places == {"idle", "pool", "scan", "found", "busy", "poolWait", "post",
           "wait", "woken", "notify"}

EmbTypeOK ==
  /\ poolMutex \in Callers \cup {NoThread}
  /\ mutex \in Callers \cup {Worker, NoThread}
  /\ hasReq \in BOOLEAN /\ done \in BOOLEAN /\ shutdown \in BOOLEAN
  /\ owner \in Callers \cup {NoThread} /\ result \in Callers \cup {NoThread}
  /\ sleepPool \subseteq Callers /\ sleepRes \subseteq Callers
  /\ sleepReq \subseteq {Worker}
  /\ pc \in [Callers -> Places]
  /\ wpc \in {"lock", "loop", "wait", "exited"}
  /\ cpc \in {"open", "lock", "join", "freed"}
  /\ computed \subseteq Callers
  /\ ret \in [Callers -> Callers \cup {NoThread}]

(* kc_emb_open: the worker thread has been created. *)
EmbInit ==
  /\ poolMutex = NoThread /\ mutex = NoThread
  /\ hasReq = FALSE /\ done = FALSE /\ shutdown = FALSE
  /\ owner = NoThread /\ result = NoThread
  /\ sleepPool = {} /\ sleepRes = {} /\ sleepReq = {}
  /\ pc = [p \in Callers |-> "idle"] /\ wpc = "lock" /\ cpc = "open"
  /\ computed = {} /\ ret = [p \in Callers |-> NoThread]

(* pthread_cond_signal: what the sleepers on a condition may become. *)
Signalled(sleepers) ==
  IF sleepers = {} THEN {{}} ELSE {sleepers \ {t} : t \in sleepers}

Goto(p, place) == pc' = [pc EXCEPT ![p] = place]

(***************************************************************************)
(* kc_emb_exec, called by p.                                               *)
(***************************************************************************)
(* Nobody may call once kc_emb_close has been called. *)
Call(p) ==
  /\ pc[p] = "idle" /\ cpc = "open"
  /\ Goto(p, "pool") /\ computed' = computed \ {p}
  /\ UNCHANGED <<poolMutex, mutex, flags, sleepPool, sleepRes, sleepReq,
                 wpc, cpc, ret>>

(* Also the end of pthread_cond_wait on pool_cond. *)
LockPool(p) ==
  /\ pc[p] = "pool" \/ (pc[p] = "poolWait" /\ p \notin sleepPool)
  /\ poolMutex = NoThread /\ poolMutex' = p
  /\ Goto(p, "scan")
  /\ UNCHANGED <<mutex, flags, sleepPool, sleepRes, sleepReq, wpc, cpc, history>>

(* The worker is taken when it has no request. *)
LockWorker(p) ==
  /\ pc[p] = "scan" /\ mutex = NoThread /\ mutex' = p
  /\ Goto(p, IF hasReq THEN "busy" ELSE "found")
  /\ UNCHANGED <<poolMutex, flags, sleepPool, sleepRes, sleepReq, wpc, cpc,
                 history>>

SkipBusy(p) ==
  /\ pc[p] = "busy" /\ mutex = p /\ mutex' = NoThread
  /\ poolMutex = p /\ poolMutex' = NoThread
  /\ sleepPool' = sleepPool \cup {p}
  /\ Goto(p, "poolWait")
  /\ UNCHANGED <<flags, sleepRes, sleepReq, wpc, cpc, history>>

UnlockPool(p) ==
  /\ pc[p] = "found" /\ poolMutex' = NoThread
  /\ Goto(p, "post")
  /\ UNCHANGED <<mutex, flags, sleepPool, sleepRes, sleepReq, wpc, cpc, history>>

MutPost(p) ==
  /\ pc[p] = "post"
  /\ owner' = p /\ hasReq' = TRUE
  /\ UNCHANGED <<done, shutdown, result>>
  /\ sleepReq' \in Signalled(sleepReq)
  /\ mutex' = NoThread /\ sleepRes' = sleepRes \cup {p}
  /\ Goto(p, "wait")
  /\ UNCHANGED <<poolMutex, sleepPool, wpc, cpc, history>>

MutPostSilent(p) ==
  /\ pc[p] = "post"
  /\ owner' = p /\ done' = FALSE /\ hasReq' = TRUE
  /\ UNCHANGED <<shutdown, result>>
  /\ mutex' = NoThread /\ sleepRes' = sleepRes \cup {p}
  /\ Goto(p, "wait")
  /\ UNCHANGED <<poolMutex, sleepPool, sleepReq, wpc, cpc, history>>

(* The request is posted and, done being 0, the caller goes to sleep. *)
Post(p) ==
  /\ pc[p] = "post"
  /\ owner' = p /\ done' = FALSE /\ hasReq' = TRUE
  /\ UNCHANGED <<shutdown, result>>
  /\ sleepReq' \in Signalled(sleepReq)
  /\ mutex' = NoThread /\ sleepRes' = sleepRes \cup {p}
  /\ Goto(p, "wait")
  /\ UNCHANGED <<poolMutex, sleepPool, wpc, cpc, history>>

(* The end of pthread_cond_wait on cond_res. *)
Wake(p) ==
  /\ pc[p] = "wait" /\ p \notin sleepRes
  /\ mutex = NoThread /\ mutex' = p
  /\ Goto(p, "woken")
  /\ UNCHANGED <<poolMutex, flags, sleepPool, sleepRes, sleepReq, wpc, cpc,
                 history>>

SleepAgain(p) ==
  /\ pc[p] = "woken" /\ ~done
  /\ mutex' = NoThread /\ sleepRes' = sleepRes \cup {p}
  /\ Goto(p, "wait")
  /\ UNCHANGED <<poolMutex, flags, sleepPool, sleepReq, wpc, cpc, history>>

MutTakeResult(p) ==
  /\ pc[p] = "woken"
  /\ ret' = [ret EXCEPT ![p] = result]
  /\ mutex' = NoThread
  /\ Goto(p, "notify")
  /\ UNCHANGED <<poolMutex, flags, sleepPool, sleepRes, sleepReq, wpc, cpc,
                 computed>>

TakeResult(p) ==
  /\ pc[p] = "woken" /\ done
  /\ ret' = [ret EXCEPT ![p] = result]
  /\ mutex' = NoThread
  /\ Goto(p, "notify")
  /\ UNCHANGED <<poolMutex, flags, sleepPool, sleepRes, sleepReq, wpc, cpc,
                 computed>>

(* Lock the pool, signal pool_cond, unlock, return. *)
Notify(p) ==
  /\ pc[p] = "notify" /\ poolMutex = NoThread
  /\ sleepPool' \in Signalled(sleepPool)
  /\ Goto(p, "idle")
  /\ UNCHANGED <<poolMutex, mutex, flags, sleepRes, sleepReq, wpc, cpc, history>>

Exec(p) ==
  \/ LockPool(p) \/ LockWorker(p) \/ SkipBusy(p) \/ UnlockPool(p)
  \/ Post(p) \/ Wake(p) \/ SleepAgain(p) \/ TakeResult(p) \/ Notify(p)

(***************************************************************************)
(* kc_emb_worker_thread.                                                   *)
(***************************************************************************)
(* At the start, and at the end of pthread_cond_wait on cond_req. *)
WorkerLock ==
  /\ wpc = "lock" \/ (wpc = "wait" /\ sleepReq = {})
  /\ mutex = NoThread /\ mutex' = Worker
  /\ wpc' = "loop"
  /\ UNCHANGED <<poolMutex, flags, sleepPool, sleepRes, sleepReq, pc, cpc,
                 history>>

WorkerSleep ==
  /\ wpc = "loop" /\ ~hasReq /\ ~shutdown
  /\ mutex' = NoThread /\ sleepReq' = {Worker}
  /\ wpc' = "wait"
  /\ UNCHANGED <<poolMutex, flags, sleepPool, sleepRes, pc, cpc, history>>

(* The inference runs with the mutex held. *)
WorkerExec ==
  /\ wpc = "loop" /\ hasReq /\ ~shutdown
  /\ computed' = computed \cup {owner}
  /\ result' = owner /\ hasReq' = FALSE /\ done' = TRUE
  /\ UNCHANGED <<shutdown, owner>>
  /\ sleepRes' \in Signalled(sleepRes)
  /\ UNCHANGED <<poolMutex, mutex, sleepPool, sleepReq, pc, wpc, cpc, ret>>

WorkerExit ==
  /\ wpc = "loop" /\ shutdown
  /\ mutex' = NoThread /\ wpc' = "exited"
  /\ UNCHANGED <<poolMutex, flags, sleepPool, sleepRes, sleepReq, pc, cpc,
                 history>>

WorkerStep == WorkerLock \/ WorkerSleep \/ WorkerExec \/ WorkerExit

(***************************************************************************)
(* kc_emb_close.  It "must not be called while kc_emb_exec() is active".   *)
(***************************************************************************)
Close ==
  /\ cpc = "open" /\ \A p \in Callers : pc[p] = "idle"
  /\ cpc' = "lock"
  /\ UNCHANGED <<poolMutex, mutex, flags, sleepPool, sleepRes, sleepReq, pc,
                 wpc, history>>

MutCloseSignal ==
  /\ cpc = "lock" /\ mutex = NoThread
  /\ shutdown' = TRUE /\ UNCHANGED sleepReq
  /\ cpc' = "join"
  /\ UNCHANGED <<poolMutex, mutex, hasReq, done, owner, result, sleepPool,
                 sleepRes, pc, wpc, history>>

(* Lock the worker, set shutdown, signal cond_req, unlock. *)
CloseSignal ==
  /\ cpc = "lock" /\ mutex = NoThread
  /\ shutdown' = TRUE /\ sleepReq' \in Signalled(sleepReq)
  /\ cpc' = "join"
  /\ UNCHANGED <<poolMutex, mutex, hasReq, done, owner, result, sleepPool,
                 sleepRes, pc, wpc, history>>

MutCloseJoin ==
  /\ cpc = "join"
  /\ cpc' = "freed"
  /\ UNCHANGED <<poolMutex, mutex, flags, sleepPool, sleepRes, sleepReq, pc,
                 wpc, history>>

(* pthread_join, then the mutexes, the conditions and the context go. *)
CloseJoin ==
  /\ cpc = "join" /\ wpc = "exited"
  /\ cpc' = "freed"
  /\ UNCHANGED <<poolMutex, mutex, flags, sleepPool, sleepRes, sleepReq, pc,
                 wpc, history>>

CloseStep == CloseSignal \/ CloseJoin

(* A sleeper wakes up without a signal. *)
Spurious ==
  /\ \/ /\ \E p \in sleepPool : sleepPool' = sleepPool \ {p}
        /\ UNCHANGED <<sleepRes, sleepReq>>
     \/ /\ \E p \in sleepRes : sleepRes' = sleepRes \ {p}
        /\ UNCHANGED <<sleepPool, sleepReq>>
     \/ /\ sleepReq # {} /\ sleepReq' = {}
        /\ UNCHANGED <<sleepPool, sleepRes>>
  /\ UNCHANGED <<poolMutex, mutex, flags, pc, wpc, cpc, history>>

EmbNext ==
  \/ \E p \in Callers : Call(p) \/ Exec(p)
  \/ WorkerStep \/ Close \/ CloseStep \/ Spurious

EmbSpec == EmbInit /\ [][EmbNext]_embVars

(* Every thread keeps running, and a thread waiting for a mutex that is    *)
(* released again and again gets it.                                       *)
EmbFairSpec ==
  /\ EmbSpec
  /\ \A p \in Callers : SF_embVars(Exec(p))
  /\ SF_embVars(WorkerStep) /\ SF_embVars(CloseStep)

(***************************************************************************)
(* Properties.                                                             *)
(***************************************************************************)

(* The worker only ever writes into the buffer of a caller that is still   *)
(* inside kc_emb_exec and asleep or about to test done: w->out never       *)
(* outlives the call it was posted by, whatever the callers interleave.    *)
LiveBuffer ==
  hasReq => owner \in Callers /\ pc[owner] \in {"wait", "woken"}

(* A caller that has seen done has had its own buffer filled, even when    *)
(* the done it saw answers another caller's request.                       *)
BufferReady == \A p \in Callers : pc[p] = "notify" => p \in computed

(* kc_emb_close destroys the mutexes, the conditions and the inference     *)
(* context when no thread holds, awaits or will use them any more.         *)
FreedUnused ==
  cpc = "freed" =>
    /\ wpc = "exited" /\ mutex = NoThread /\ poolMutex = NoThread
    /\ sleepPool = {} /\ sleepRes = {} /\ sleepReq = {}
    /\ \A p \in Callers : pc[p] = "idle"

(* kc_emb_close returns: the shutdown request reaches the worker in        *)
(* whatever place it is, also before it has run for the first time.        *)
CloseReturns == (cpc = "lock") ~> (cpc = "freed")

(* emb.h: "Multiple callers on the same context are serialized."  The      *)
(* status a call returns is the status of its own request.                 *)
OwnStatus ==
  \A p \in Callers : pc[p] = "notify" => ret[p] = p

(* emb.h: kc_emb_exec "blocks until the result is ready".  A call whose    *)
(* buffer is filled returns.                                               *)
ReadyReturns ==
  \A p \in Callers : (pc[p] = "wait" /\ p \in computed) ~> (pc[p] = "idle")

=============================================================================
