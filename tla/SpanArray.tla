----------------------------- MODULE SpanArray -----------------------------
(***************************************************************************)
(* The closed-span array of lib/libngram.c, as operators: the tests and    *)
(* the splice that kc_ngram_span_is_closed, kc_ngram_find_span_insert_index *)
(* and kc_ngram_add_closed_span make on it.  An array of the code is a     *)
(* sequence here, so spans[i] of the code is spans[i + 1].  The loops are  *)
(* stepped by the modules that use these operators.                        *)
(***************************************************************************)
EXTENDS Integers, Sequences

(* A span of tokens; both bounds are inclusive. *)
Span(s, e) == [start |-> s, end |-> e]

(* Span a lies inside span b. *)
Within(a, b) == b.start <= a.start /\ a.end <= b.end

(* The probe of a binary search over the indexes left .. right - 1. *)
Mid(left, right) == left + (right - left) \div 2

MutProbeRight(spans, mid, s) == spans[mid + 1].start < s.start

(* kc_ngram_span_is_closed looks for the last span starting at or before s: *)
(* the search goes on to the right of mid,                                  *)
ProbeRight(spans, mid, s) == spans[mid + 1].start <= s.start

(* and the one span found is tested. *)
IsClosedAt(spans, left, s) == left > 0 /\ Within(s, spans[left])

MutFindRight(spans, mid, s) == spans[mid + 1].start > s.start

(* kc_ngram_find_span_insert_index: the first span starting at or after s. *)
FindRight(spans, mid, s) == spans[mid + 1].start < s.start

(* A neighbour of the insertion point already covers s. *)
Redundant(spans, at, s) ==
  \/ at > 0 /\ Within(s, spans[at])
  \/ /\ at < Len(spans)
     /\ spans[at + 1].start = s.start /\ spans[at + 1].end >= s.end

(* The removal loop takes one more span. *)
Prunes(spans, to, s) == to < Len(spans) /\ spans[to + 1].end <= s.end

(* The array without the spans at indexes at .. to - 1. *)
Pruned(spans, at, to) ==
  SubSeq(spans, 1, at) \o SubSeq(spans, to + 1, Len(spans))

(* The span that follows the removed ones covers s after all. *)
CoveredNext(spans, to, s) == to < Len(spans) /\ Within(s, spans[to + 1])

MutPlaced(spans, at, to, s) ==
  SubSeq(spans, 1, at) \o <<s>> \o SubSeq(spans, at + 1, Len(spans))

(* The array after a successful insertion. *)
Placed(spans, at, to, s) ==
  IF CoveredNext(spans, to, s)
    THEN Pruned(spans, at, to)
    ELSE SubSeq(spans, 1, at) \o <<s>> \o SubSeq(spans, to + 1, Len(spans))

=============================================================================
