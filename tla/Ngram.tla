------------------------------- MODULE Ngram -------------------------------
(***************************************************************************)
(* kc_ngram_execute (lib/libngram.c): the descending sliding-window        *)
(* traversal that drives the island parser.  Windows of LoopMax tokens,    *)
(* then one token less, down to minTokens, slide over the count tokens of  *)
(* the input.  A window inside a closed span is skipped; every other one   *)
(* is handed to the visitor, whose answer 1 closes it.                     *)
(*                                                                         *)
(* The traversal is generic in its visitor, so the visitor's answer is a   *)
(* nondeterministic choice, and every allocation may fail.  Its calls on   *)
(* the closed-span array are the steps of module ClosedSpans.              *)
(***************************************************************************)
EXTENDS ClosedSpans, Windows

CONSTANTS
  Counts,    \* the token counts the input text may have
  Options    \* the values min_tokens and max_tokens may be given

ASSUME CountsAssumption  == Counts \subseteq Nat
ASSUME OptionsAssumption == Options \subseteq Int

(* The spans of the array include the windows of every input. *)
ASSUME WindowsAssumption ==
  \A n \in Counts : \A s, e \in 0..(n - 1) : s <= e => Span(s, e) \in Spans

VARIABLES
  count,       \* tokens.count
  minTokens,   \* options->min_tokens
  maxTokens,   \* options->max_tokens
  pc,          \* where the call is
  window,      \* window_size
  start,       \* first token of the current window
  emitted,     \* number of chunks the visitor accepted
  rc,          \* the return value, meaningful once pc = "done"
  visited,     \* history: the windows handed to the visitor
  matched      \* history: the windows the visitor closed

input   == <<count, minTokens, maxTokens>>
place   == <<window, start>>
history == <<emitted, visited, matched>>
vars    == <<spansVars, input, pc, place, rc, history>>

(* The current window. *)
current == Span(start, start + window - 1)

MutLoopMax == count

(* loop_max, the first window size. *)
LoopMax == IF maxTokens = 0 \/ count < maxTokens THEN count ELSE maxTokens

OptionsValid ==
  /\ minTokens >= 1
  /\ maxTokens > 0 => maxTokens >= minTokens

TypeOK ==
  /\ SpansTypeOK
  /\ count \in Counts /\ minTokens \in Int /\ maxTokens \in Int
  /\ pc \in {"begin", "scan", "probe", "visit", "add", "done"}
  /\ window \in Int /\ start \in Nat
  /\ emitted \in Nat /\ rc \in Int
  /\ visited \subseteq Spans /\ matched \subseteq visited

Init ==
  /\ SpansInit
  /\ count \in Counts /\ minTokens \in Options /\ maxTokens \in Options
  /\ pc = "begin" /\ window = 0 /\ start = 0 /\ emitted = 0 /\ rc = 0
  /\ visited = {} /\ matched = {}

Return(value) == rc' = value /\ pc' = "done" /\ UNCHANGED <<input, place>>

(* The inner loop goes on to the next window of the same size. *)
Advance ==
  start' = start + 1 /\ pc' = "scan" /\ UNCHANGED <<input, window, rc>>

Goto(next) == pc' = next /\ UNCHANGED <<input, place, rc>>

(***************************************************************************)
(* Entry: argument check, tokenisation, choice of the first window size.   *)
(* Every return frees the closed spans and the tokens.                     *)
(***************************************************************************)
RejectOptions ==
  pc = "begin" /\ ~OptionsValid /\ Release /\ Return(-1) /\ UNCHANGED history

(* A token could not be stored. *)
SplitFails ==
  /\ pc = "begin" /\ OptionsValid /\ count > 0
  /\ Release /\ Return(-1) /\ UNCHANGED history

NoTokens ==
  /\ pc = "begin" /\ OptionsValid /\ count = 0
  /\ Release /\ Return(0) /\ UNCHANGED history

StartScan ==
  /\ pc = "begin" /\ OptionsValid /\ count > 0
  /\ window' = LoopMax /\ start' = 0 /\ pc' = "scan"
  /\ UNCHANGED <<spansVars, input, rc, history>>

(***************************************************************************)
(* The two nested loops over window sizes and window positions.            *)
(***************************************************************************)
Finish ==
  /\ pc = "scan" /\ window < minTokens
  /\ Release /\ Return(emitted) /\ UNCHANGED history

MutNarrowStuck ==
  /\ pc = "scan" /\ window >= minTokens /\ start > count - window
  /\ start' = 0
  /\ UNCHANGED <<spansVars, input, pc, window, rc, history>>

Narrow ==
  /\ pc = "scan" /\ window >= minTokens /\ start > count - window
  /\ window' = window - 1 /\ start' = 0
  /\ UNCHANGED <<spansVars, input, pc, rc, history>>

EnterWindow ==
  /\ pc = "scan" /\ window >= minTokens /\ start <= count - window
  /\ BeginProbe(current) /\ Goto("probe") /\ UNCHANGED history

Probing ==
  pc = "probe" /\ ProbeIterate /\ Goto("probe") /\ UNCHANGED history

Skip ==
  pc = "probe" /\ ProbeReturn /\ Answer /\ Advance /\ UNCHANGED history

Emit ==
  pc = "probe" /\ ProbeReturn /\ ~Answer /\ Goto("visit") /\ UNCHANGED history

(***************************************************************************)
(* The visitor's answers: negative, 1, or anything else.                   *)
(***************************************************************************)
VisitAbort ==
  /\ pc = "visit" /\ Release /\ Return(-1)
  /\ visited' = visited \cup {current} /\ UNCHANGED <<emitted, matched>>

(* The chunk counts as emitted unless the visitor aborts. *)
Accept == emitted' = emitted + 1 /\ visited' = visited \cup {current}

VisitKeepOpen ==
  pc = "visit" /\ Accept /\ Advance /\ UNCHANGED <<spansVars, matched>>

VisitClose ==
  /\ pc = "visit" /\ Accept /\ matched' = matched \cup {current}
  /\ BeginAdd(current) /\ Goto("add")

(* The addition goes on, or has returned. *)
Adding ==
  /\ pc = "add"
  /\ FindIterate \/ FindReturn \/ PruneOrPlace
  /\ IF op' = "idle" THEN Advance ELSE Goto("add")
  /\ UNCHANGED history

(* The array could not grow: the traversal is abandoned. *)
AddingFails ==
  pc = "add" /\ AddFails /\ Return(-1) /\ UNCHANGED history

Next ==
  \/ RejectOptions \/ SplitFails \/ NoTokens \/ StartScan
  \/ Finish \/ Narrow \/ EnterWindow \/ Probing \/ Skip \/ Emit
  \/ VisitAbort \/ VisitKeepOpen \/ VisitClose
  \/ Adding \/ AddingFails

Spec == Init /\ [][Next]_vars

(* One thread runs the loops, and the visitor returns. *)
FairSpec == Spec /\ WF_vars(Next)

(***************************************************************************)
(* Properties.                                                             *)
(***************************************************************************)

(* In the order of the traversal no island lies inside another one, so the *)
(* array holds every island and nothing else while none is being added:    *)
(* kc_ngram_add_closed_span never drops a span, new or old.                *)
IslandsKept ==
  pc \in {"scan", "probe", "visit"} =>
    {closed[i] : i \in 1..Len(closed)} = matched

(* The traversal hands over exactly the windows it promises, in the order  *)
(* it promises: it implements module Traversal.                            *)
Promise == INSTANCE Traversal WITH islands <- matched, running <- (pc # "done")

ImplementsTraversal == Promise!Spec

(* The call returns. *)
Termination == <>(pc = "done")

=============================================================================
