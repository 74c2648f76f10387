---------------------------- MODULE ClosedSpans ----------------------------
(***************************************************************************)
(* The closed-span array as an abstract data type: spans are added and     *)
(* queried in any order, one call at a time.  The two binary searches and  *)
(* the removal loop advance one iteration per step, so that what a call    *)
(* answers is a property and not a definition.                             *)
(*                                                                         *)
(* kc_ngram_execute (module Ngram) is one client of this type and composes *)
(* with its steps; it adds spans in descending size only.                  *)
(***************************************************************************)
EXTENDS SpanArray

CONSTANT Spans    \* the spans a client may add or ask about

ASSUME SpansAssumption ==
  Spans \subseteq {s \in [start : Nat, end : Nat] : s.start <= s.end}

VARIABLES
  closed,   \* closed_spans[0 .. closed_count - 1]
  op,       \* the call in progress
  span,     \* its argument
  left,     \* left of the binary search, then insert_at
  right,    \* right of the binary search, then remove_end
  added     \* history: the spans whose addition was requested

spansVars == <<closed, op, span, left, right, added>>

(* The argument when no call is in progress. *)
NoSpan == Span(0, 0)

SpansTypeOK ==
  /\ closed \in Seq(Spans)
  /\ op \in {"idle", "probe", "find", "prune", "released"}
  /\ span \in Spans \cup {NoSpan}
  /\ op \in {"probe", "find", "prune"} => span \in Spans
  /\ left \in 0..Len(closed) /\ right \in left..Len(closed)
  /\ added \subseteq Spans

SpansInit ==
  /\ closed = <<>> /\ added = {}
  /\ op = "idle" /\ span = NoSpan /\ left = 0 /\ right = 0

(* A binary search starts on the whole array. *)
Begin(call, s) ==
  /\ op = "idle"
  /\ op' = call /\ span' = s /\ left' = 0 /\ right' = Len(closed)
  /\ UNCHANGED closed

(* A call returns. *)
EndCall ==
  /\ op' = "idle" /\ span' = NoSpan /\ left' = 0 /\ right' = 0
  /\ UNCHANGED added

mid == Mid(left, right)

MutSearch(call, goRight) ==
  /\ op = call /\ left < right
  /\ IF goRight THEN left' = mid /\ right' = right
                ELSE left' = left /\ right' = mid
  /\ UNCHANGED <<closed, op, span, added>>

(* One iteration of a binary search. *)
Search(call, goRight) ==
  /\ op = call /\ left < right
  /\ IF goRight THEN left' = mid + 1 /\ right' = right
                ELSE left' = left /\ right' = mid
  /\ UNCHANGED <<closed, op, span, added>>

(***************************************************************************)
(* kc_ngram_span_is_closed.                                                *)
(***************************************************************************)
BeginProbe(s) == Begin("probe", s) /\ UNCHANGED added

ProbeIterate == Search("probe", ProbeRight(closed, mid, span))

(* The answer of the call, once the search has ended. *)
Answer == IsClosedAt(closed, left, span)

ProbeReturn == op = "probe" /\ left >= right /\ EndCall /\ UNCHANGED closed

(***************************************************************************)
(* kc_ngram_add_closed_span.                                               *)
(***************************************************************************)
BeginAdd(s) == Begin("find", s) /\ added' = added \cup {s}

FindIterate == Search("find", FindRight(closed, mid, span))

MutFindReturn ==
  /\ op = "find" /\ left >= right /\ UNCHANGED closed
  /\ IF Redundant(closed, left, span)
       THEN EndCall
       ELSE /\ op' = "prune" /\ right' = left + 1
            /\ UNCHANGED <<span, left, added>>

(* The span needs no entry, or the spans it contains are removed first. *)
FindReturn ==
  /\ op = "find" /\ left >= right /\ UNCHANGED closed
  /\ IF Redundant(closed, left, span)
       THEN EndCall
       ELSE op' = "prune" /\ right' = left /\ UNCHANGED <<span, left, added>>

(* The removal loop, then the insertion. *)
PruneOrPlace ==
  /\ op = "prune"
  /\ IF Prunes(closed, right, span)
       THEN right' = right + 1 /\ UNCHANGED <<closed, op, span, left, added>>
       ELSE closed' = Placed(closed, left, right, span) /\ EndCall

(* The client frees the array; it also does so when growing it failed. *)
Released ==
  /\ op' = "released" /\ span' = NoSpan /\ left' = 0 /\ right' = 0
  /\ closed' = <<>> /\ added' = {}

AddFails ==
  /\ op = "prune" /\ ~Prunes(closed, right, span)
  /\ ~CoveredNext(closed, right, span)
  /\ Released

Release == op = "idle" /\ Released

(* A call in progress is completed; a client need not make another one. *)
Calls ==
  \/ ProbeIterate \/ ProbeReturn
  \/ FindIterate \/ FindReturn \/ PruneOrPlace \/ AddFails

SpansNext ==
  \/ \E s \in Spans : BeginProbe(s) \/ BeginAdd(s)
  \/ Calls
  \/ Release

SpansSpec == SpansInit /\ [][SpansNext]_spansVars

SpansFairSpec == SpansSpec /\ WF_spansVars(Calls)

(***************************************************************************)
(* Properties.                                                             *)
(***************************************************************************)

(* The array is sorted by start, as every binary search over it requires,  *)
(* and by end, since no kept span contains another one.                    *)
Sorted ==
  \A i, j \in 1..Len(closed) :
    i < j => closed[i].start < closed[j].start /\ closed[i].end < closed[j].end

(* kc_ngram_span_is_closed looks at one array element; its answer is the   *)
(* one a scan over every span ever added would give.                       *)
ProbeExact ==
  op = "probe" /\ left >= right =>
    (Answer <=> \E m \in added : Within(span, m))

(* Pruning loses nothing: outside an addition the array holds exactly the  *)
(* maximal spans among those added.                                        *)
KeepsMaximal ==
  op \in {"idle", "probe"} =>
    {closed[i] : i \in 1..Len(closed)} =
      {m \in added : \A n \in added : Within(m, n) => n = m}

(* No call loops for ever on the array. *)
CallReturns == op \in {"probe", "find", "prune"} ~> op \in {"idle", "released"}

=============================================================================
