------------------------------ MODULE IpaParse ------------------------------
(***************************************************************************)
(* kc_ipa_parse and kc_ipa_close (src/libipa.c) over the embedding context *)
(* of module EmbPool: several threads parse with one schema.  A parse      *)
(* holds schema->lock from its beginning to its end and calls kc_emb_exec  *)
(* for the windows its traversal visits, so at most one thread at a time   *)
(* uses the embedding context.                                             *)
(*                                                                         *)
(* The traversal itself is module Ngram; here it is the number of          *)
(* inferences it asks for.                                                 *)
(***************************************************************************)
EXTENDS EmbPool

CONSTANT MaxWindows    \* the most inferences one traversal asks for

ASSUME WindowsAssumption == MaxWindows \in Nat

VARIABLES
  lock,      \* owner of schema->lock
  ppc,       \* where each thread is in kc_ipa_parse
  windows,   \* the inferences its traversal will still ask for
  wild       \* the threads that freed through an uninitialised pointer

parseVars == <<lock, ppc, windows, wild>>
vars      == <<embVars, parseVars>>

TypeOK ==
  /\ EmbTypeOK
  /\ lock \in Callers \cup {NoThread}
  /\ ppc \in [Callers -> {"out", "lock", "scan"}]
  /\ windows \in [Callers -> 0..MaxWindows]
  /\ wild \subseteq Callers

(* kc_ipa_open has returned the schema. *)
Init ==
  /\ EmbInit
  /\ lock = NoThread
  /\ ppc = [p \in Callers |-> "out"] /\ windows = [p \in Callers |-> 0]
  /\ wild = {}

ParseCall(p) ==
  /\ ppc[p] = "out" /\ cpc = "open"
  /\ ppc' = [ppc EXCEPT ![p] = "lock"]
  /\ UNCHANGED <<embVars, lock, windows, wild>>

MutParseLock(p) ==
  /\ ppc[p] = "lock"
  /\ lock' = p /\ ppc' = [ppc EXCEPT ![p] = "scan"]
  /\ \E n \in 0..MaxWindows : windows' = [windows EXCEPT ![p] = n]
  /\ UNCHANGED <<embVars, wild>>

(* The lock is taken and the embedding buffer allocated. *)
ParseLock(p) ==
  /\ ppc[p] = "lock" /\ lock = NoThread
  /\ lock' = p /\ ppc' = [ppc EXCEPT ![p] = "scan"]
  /\ \E n \in 0..MaxWindows : windows' = [windows EXCEPT ![p] = n]
  /\ UNCHANGED <<embVars, wild>>

(* The buffer could not be allocated: "goto done" unlocks and returns.  It *)
(* jumps over the initialisation of ctx, whose matches pointer is then     *)
(* read, and freed through when the stale bytes are not null.              *)
ParseNoBuffer(p) ==
  /\ ppc[p] = "lock" /\ lock = NoThread
  /\ ppc' = [ppc EXCEPT ![p] = "out"]
  /\ wild' \in {wild, wild \cup {p}}
  /\ UNCHANGED <<embVars, lock, windows>>

(* The visitor asks for the embedding of a window. *)
ParseExec(p) ==
  /\ ppc[p] = "scan" /\ windows[p] > 0
  /\ Call(p)
  /\ windows' = [windows EXCEPT ![p] = @ - 1]
  /\ UNCHANGED <<lock, ppc, wild>>

MutParseDone(p) ==
  /\ ppc[p] = "scan" /\ windows[p] = 0 /\ pc[p] = "idle"
  /\ ppc' = [ppc EXCEPT ![p] = "out"]
  /\ UNCHANGED <<embVars, lock, windows, wild>>

ParseDone(p) ==
  /\ ppc[p] = "scan" /\ windows[p] = 0 /\ pc[p] = "idle"
  /\ lock' = NoThread /\ ppc' = [ppc EXCEPT ![p] = "out"]
  /\ UNCHANGED <<embVars, windows, wild>>

(* kc_ipa_close, when no parse is in progress. *)
IpaClose ==
  /\ \A p \in Callers : ppc[p] = "out"
  /\ Close /\ UNCHANGED parseVars

ParseStep(p) ==
  \/ ParseLock(p) \/ ParseNoBuffer(p) \/ ParseExec(p) \/ ParseDone(p)
  \/ Exec(p) /\ UNCHANGED parseVars

Background == (WorkerStep \/ CloseStep \/ Spurious) /\ UNCHANGED parseVars

Next ==
  \/ \E p \in Callers : ParseCall(p) \/ ParseStep(p)
  \/ IpaClose \/ Background

Spec == Init /\ [][Next]_vars

(* As in EmbPool: threads keep running, and a thread waiting for a mutex   *)
(* that is released again and again gets it.                               *)
FairSpec ==
  /\ Spec
  /\ \A p \in Callers : SF_vars(ParseStep(p))
  /\ SF_vars(WorkerStep /\ UNCHANGED parseVars)
  /\ SF_vars(CloseStep /\ UNCHANGED parseVars)

(***************************************************************************)
(* Properties.                                                             *)
(***************************************************************************)

(* schema->lock hides every contention on the embedding context: no caller *)
(* finds the worker with a request, so nobody sleeps on pool_cond and no   *)
(* two callers sleep on cond_res.                                          *)
NeverContended ==
  /\ \A p \in Callers : pc[p] \notin {"busy", "poolWait"}
  /\ \A p, q \in sleepRes : p = q

(* A parse that has begun returns, whatever the other threads do. *)
ParseReturns == \A p \in Callers : (ppc[p] = "lock") ~> (ppc[p] = "out")

(* ipa.h: kc_ipa_parse returns "KC_IPA_ERROR on failure".  Failing to      *)
(* allocate the embedding buffer is reported, and nothing else is freed.   *)
FailsCleanly == wild = {}

(* Seen from the parser, the worker thread, the mutexes and the condition  *)
(* variables are a service that answers one call at a time.                *)
ActiveIn(place) ==
  IF \E p \in Callers : place[p] # "idle"
    THEN CHOOSE p \in Callers : place[p] # "idle" ELSE NoThread

PhaseIn(place, filled) ==
  IF ActiveIn(place) = NoThread THEN "free"
  ELSE IF place[ActiveIn(place)] = "notify" THEN "told"
  ELSE IF ActiveIn(place) \in filled THEN "filled" ELSE "asked"

Service == INSTANCE EmbService WITH
  active <- ActiveIn(pc), phase <- PhaseIn(pc, computed), status <- ret

(* The schema's use of the embedding context implements that service, and  *)
(* its calls complete.                                                     *)
ImplementsService == Service!FairSpec

=============================================================================
