---------------------------- MODULE NgramProofs ----------------------------
(***************************************************************************)
(* Proofs about the closed-span array, for every set of spans, and about   *)
(* the traversal that uses it, for every input and all options.            *)
(***************************************************************************)
EXTENDS Ngram, SequenceTheorems, FiniteSetTheorems, TLAPS

(***************************************************************************)
(* The inductive invariant.  Sorted is what the binary searches rely on;   *)
(* Kept and Covered tie the array to the spans added so far; the three     *)
(* loop invariants say what the iterations made so far have established.   *)
(***************************************************************************)
Kept == \A i \in 1..Len(closed) : closed[i] \in added

(* The array covers every span added, but for the one being added. *)
Covered ==
  \A m \in added :
    \/ \E i \in 1..Len(closed) : Within(m, closed[i])
    \/ op \in {"find", "prune"} /\ m = span

ProbeLoop ==
  op = "probe" =>
    /\ \A i \in 1..left : closed[i].start <= span.start
    /\ \A i \in (right + 1)..Len(closed) : closed[i].start > span.start

FindLoop ==
  op = "find" =>
    /\ span \in added
    /\ \A i \in 1..left : closed[i].start < span.start
    /\ \A i \in (right + 1)..Len(closed) : closed[i].start >= span.start

(* Up to left the array is kept, up to right it is removed; a later span   *)
(* that is not removed reaches further than the new one.                   *)
PruneLoop ==
  op = "prune" =>
    /\ span \in added
    /\ \A i \in 1..left : closed[i].start < span.start /\ closed[i].end < span.end
    /\ \A i \in (left + 1)..right :
         closed[i].start >= span.start /\ closed[i].end <= span.end
    /\ \A i \in (right + 1)..Len(closed) :
         /\ closed[i].start >= span.start
         /\ closed[i].start = span.start => closed[i].end < span.end

SpansInv ==
  SpansTypeOK /\ Sorted /\ Kept /\ Covered /\ ProbeLoop /\ FindLoop /\ PruneLoop

(***************************************************************************)
(* The outcomes of FindReturn and PruneOrPlace.                            *)
(***************************************************************************)
AddRedundant ==
  /\ op = "find" /\ left >= right /\ Redundant(closed, left, span)
  /\ EndCall /\ UNCHANGED closed

BeginPrune ==
  /\ op = "find" /\ left >= right /\ ~Redundant(closed, left, span)
  /\ op' = "prune" /\ right' = left
  /\ UNCHANGED <<closed, span, left, added>>

PruneIterate ==
  /\ op = "prune" /\ Prunes(closed, right, span)
  /\ right' = right + 1
  /\ UNCHANGED <<closed, op, span, left, added>>

AddPlaced ==
  /\ op = "prune" /\ ~Prunes(closed, right, span)
  /\ closed' = Placed(closed, left, right, span)
  /\ EndCall

LEMMA CallOutcomes ==
  /\ FindReturn => AddRedundant \/ BeginPrune
  /\ PruneOrPlace => PruneIterate \/ AddPlaced
BY DEF FindReturn, PruneOrPlace, AddRedundant, BeginPrune, PruneIterate,
   AddPlaced

(***************************************************************************)
(* Facts about the operators.                                              *)
(***************************************************************************)

(* A span has natural bounds in order. *)
LEMMA SpanBounds ==
  ASSUME NEW s \in Spans
  PROVE  /\ s = [start |-> s.start, end |-> s.end]
         /\ s.start \in Nat /\ s.end \in Nat /\ s.start <= s.end
BY SpansAssumption

(* The probe of a binary search lies inside the range searched. *)
LEMMA MidBounds ==
  ASSUME NEW l \in Nat, NEW r \in Nat, l < r
  PROVE  Mid(l, r) \in l..(r - 1)
BY DEF Mid

(* Indexes of the part of the array behind an insertion. *)
LEMMA TailIndex ==
  ASSUME NEW n \in Nat, NEW at \in 0..n, NEW to \in at..n,
         NEW i \in (at + 2)..(at + 1 + (n - to))
  PROVE  /\ i - (at + 1) \in 1..(n - to)
         /\ to + (i - (at + 1)) = i - (at + 1) + to
OBVIOUS

(* The elements of a concatenation r of a, s and b. *)
IsJoin(S, a, s, b, r) ==
  /\ r \in Seq(S)
  /\ Len(r) = Len(a) + 1 + Len(b)
  /\ \A i \in 1..Len(a) : r[i] = a[i]
  /\ r[Len(a) + 1] = s
  /\ \A i \in (Len(a) + 2)..(Len(a) + 1 + Len(b)) : r[i] = b[i - (Len(a) + 1)]

LEMMA ConcatThree ==
  ASSUME NEW S, NEW a \in Seq(S), NEW s \in S, NEW b \in Seq(S)
  PROVE  IsJoin(S, a, s, b, a \o <<s>> \o b)
<1> DEFINE c == a \o <<s>>
<1>1. /\ c \in Seq(S) /\ Len(c) = Len(a) + 1
      /\ \A i \in 1..Len(a) : c[i] = a[i]
      /\ c[Len(a) + 1] = s
  OBVIOUS
<1>2. a \o <<s>> \o b = c \o b
  OBVIOUS
<1> HIDE DEF c
<1>3. /\ c \o b \in Seq(S)
      /\ Len(c \o b) = Len(c) + Len(b)
      /\ \A i \in 1..(Len(c) + Len(b)) :
           (c \o b)[i] = IF i <= Len(c) THEN c[i] ELSE b[i - Len(c)]
  BY <1>1, ConcatProperties, Zenon
<1> QED
  BY <1>1, <1>2, <1>3 DEF IsJoin

(* The elements of q after s has replaced those from at + 1 to to. *)
IsSplice(S, q, at, to, s, r) ==
  /\ r \in Seq(S)
  /\ Len(r) = at + 1 + (Len(q) - to)
  /\ \A i \in 1..at : r[i] = q[i]
  /\ r[at + 1] = s
  /\ \A i \in (at + 2)..Len(r) : r[i] = q[i - (at + 1) + to]

LEMMA SpliceProperties ==
  ASSUME NEW S, NEW q \in Seq(S), NEW s \in S,
         NEW at \in 0..Len(q), NEW to \in at..Len(q), NEW r,
         r = SubSeq(q, 1, at) \o <<s>> \o SubSeq(q, to + 1, Len(q))
  PROVE  IsSplice(S, q, at, to, s, r)
<1> DEFINE a == SubSeq(q, 1, at)
           b == SubSeq(q, to + 1, Len(q))
<1>1. a \in Seq(S) /\ Len(a) = at /\ \A i \in 1..at : a[i] = q[i]
  OBVIOUS
<1>2. /\ b \in Seq(S) /\ Len(b) = Len(q) - to
      /\ \A i \in 1..(Len(q) - to) : b[i] = q[to + i]
  OBVIOUS
<1>3. r = a \o <<s>> \o b
  OBVIOUS
<1> HIDE DEF a, b
<1>4. a \in Seq(S) /\ b \in Seq(S) /\ Len(a) = at /\ Len(b) = Len(q) - to
  BY <1>1, <1>2, Zenon
<1>5. IsJoin(S, a, s, b, r)
  BY <1>3, <1>4, ConcatThree, Zenon
<1>6. /\ r \in Seq(S)
      /\ Len(r) = at + 1 + (Len(q) - to)
      /\ \A i \in 1..at : r[i] = a[i]
      /\ r[at + 1] = s
      /\ \A i \in (at + 2)..Len(r) : r[i] = b[i - (at + 1)]
  BY <1>4, <1>5, Zenon DEF IsJoin
<1>7. \A i \in (at + 2)..Len(r) : r[i] = q[i - (at + 1) + to]
  <2> TAKE i \in (at + 2)..Len(r)
  <2>1. r[i] = b[i - (at + 1)]
    BY <1>6, Zenon
  <2>2. i \in (at + 2)..(at + 1 + (Len(q) - to)) /\ Len(q) \in Nat
    BY <1>6, LenProperties, Zenon
  <2>3. /\ i - (at + 1) \in 1..(Len(q) - to)
        /\ to + (i - (at + 1)) = i - (at + 1) + to
    BY <2>2, TailIndex, Zenon
  <2>4. b[i - (at + 1)] = q[to + (i - (at + 1))]
    BY <1>2, <2>3, Zenon
  <2> QED
    BY <2>1, <2>3, <2>4, Zenon
<1>8. \A i \in 1..at : r[i] = q[i]
  BY <1>1, <1>6, Zenon
<1> QED
  BY <1>6, <1>7, <1>8, Zenon DEF IsSplice

(***************************************************************************)
(* The invariant is inductive.                                             *)
(***************************************************************************)
LEMMA SpansInitInv == SpansInit => SpansInv
BY DEF SpansInit, SpansInv, SpansTypeOK, NoSpan, Sorted, Kept, Covered, ProbeLoop, FindLoop,
       PruneLoop

(* A search begins with nothing excluded. *)
LEMMA BeginPreserves ==
  ASSUME SpansInv, NEW s \in Spans, BeginProbe(s) \/ BeginAdd(s)
  PROVE  SpansInv'
<1> USE DEF SpansInv, Begin
<1>1. SpansTypeOK'
  BY DEF SpansTypeOK, BeginProbe, BeginAdd
<1>2. Sorted' /\ Kept' /\ Covered'
  BY DEF Sorted, Kept, Covered, BeginProbe, BeginAdd
<1>3. ProbeLoop' /\ FindLoop' /\ PruneLoop'
  BY DEF ProbeLoop, FindLoop, PruneLoop, BeginProbe, BeginAdd, SpansTypeOK
<1> QED
  BY <1>1, <1>2, <1>3

(* An iteration of either search keeps the elements outside left .. right  *)
(* on the right side of the argument, because the array is sorted.         *)
LEMMA SearchPreserves ==
  ASSUME SpansInv, ProbeIterate \/ FindIterate
  PROVE  SpansInv'
<1> USE DEF SpansInv, Search
<1>1. left \in Nat /\ right \in Nat /\ left < right /\ right <= Len(closed)
      /\ mid \in left..(right - 1) /\ Len(closed) \in Nat
  BY MidBounds DEF SpansTypeOK, ProbeIterate, FindIterate, mid
<1>2. closed' = closed /\ op' = op /\ span' = span /\ added' = added
      /\ op \in {"probe", "find"} /\ span \in Spans
  BY DEF SpansTypeOK, ProbeIterate, FindIterate
<1>3. SpansTypeOK'
  BY <1>1, <1>2 DEF SpansTypeOK, ProbeIterate, FindIterate
<1>4. Sorted' /\ Kept' /\ Covered'
  BY <1>2 DEF Sorted, Kept, Covered
<1>5. \A i \in 1..Len(closed) : closed[i] \in Spans /\ closed[i].start \in Nat
  BY SpanBounds DEF SpansTypeOK
<1>6. span.start \in Nat
  BY <1>2, SpanBounds
<1>7. \A i, j \in 1..Len(closed) : i <= j => closed[i].start <= closed[j].start
  BY <1>5 DEF Sorted
<1>8. /\ mid + 1 \in 1..Len(closed)
      /\ \A i \in 1..(mid + 1) :
           i \in 1..Len(closed) /\ closed[i].start <= closed[mid + 1].start
      /\ \A i \in (mid + 1)..Len(closed) :
           i \in 1..Len(closed) /\ closed[mid + 1].start <= closed[i].start
  BY <1>1, <1>7
<1>9. ProbeLoop'
  <2>1. CASE op = "probe"
    <3>1. CASE closed[mid + 1].start <= span.start
      <4>1. left' = mid + 1 /\ right' = right
        BY <3>1, <2>1 DEF ProbeIterate, FindIterate, ProbeRight
      <4>2. \A i \in 1..(mid + 1) : closed[i].start <= span.start
        BY <3>1, <1>5, <1>6, <1>8
      <4> QED
        BY <4>1, <4>2, <1>2, <2>1 DEF ProbeLoop
    <3>2. CASE ~(closed[mid + 1].start <= span.start)
      <4>1. left' = left /\ right' = mid
        BY <3>2, <2>1 DEF ProbeIterate, FindIterate, ProbeRight
      <4>2. \A i \in (mid + 1)..Len(closed) : closed[i].start > span.start
        BY <3>2, <1>5, <1>6, <1>8
      <4> QED
        BY <4>1, <4>2, <1>2, <2>1 DEF ProbeLoop
    <3> QED
      BY <3>1, <3>2
  <2> QED
    BY <2>1, <1>2 DEF ProbeLoop
<1>10. FindLoop'
  <2>1. CASE op = "find"
    <3>1. CASE closed[mid + 1].start < span.start
      <4>1. left' = mid + 1 /\ right' = right
        BY <3>1, <2>1 DEF ProbeIterate, FindIterate, FindRight
      <4>2. \A i \in 1..(mid + 1) : closed[i].start < span.start
        BY <3>1, <1>5, <1>6, <1>8
      <4> QED
        BY <4>1, <4>2, <1>2, <2>1 DEF FindLoop
    <3>2. CASE ~(closed[mid + 1].start < span.start)
      <4>1. left' = left /\ right' = mid
        BY <3>2, <2>1 DEF ProbeIterate, FindIterate, FindRight
      <4>2. \A i \in (mid + 1)..Len(closed) : closed[i].start >= span.start
        BY <3>2, <1>5, <1>6, <1>8
      <4> QED
        BY <4>1, <4>2, <1>2, <2>1 DEF FindLoop
    <3> QED
      BY <3>1, <3>2
  <2> QED
    BY <2>1, <1>2 DEF FindLoop
<1>11. PruneLoop'
  BY <1>2 DEF PruneLoop
<1> QED
  BY <1>3, <1>4, <1>9, <1>10, <1>11

(* The spans of the array, and of the call in progress, have bounds. *)
LEMMA ArrayBounds ==
  ASSUME SpansTypeOK
  PROVE  /\ Len(closed) \in Nat /\ left \in Nat /\ right \in Nat
         /\ \A i \in 1..Len(closed) :
              /\ closed[i] \in Spans
              /\ closed[i].start \in Nat /\ closed[i].end \in Nat
         /\ op \in {"probe", "find", "prune"} =>
              span.start \in Nat /\ span.end \in Nat
BY SpanBounds DEF SpansTypeOK

(* A call that changes nothing of the array ends: the query, and the       *)
(* addition of a span that a neighbour of the insertion point covers.      *)
LEMMA ReturnPreserves ==
  ASSUME SpansInv, ProbeReturn \/ AddRedundant
  PROVE  SpansInv'
<1> USE DEF SpansInv, EndCall
<1>1. SpansTypeOK'
  BY DEF SpansTypeOK, ProbeReturn, AddRedundant, NoSpan
<1>2. Sorted' /\ Kept'
  BY DEF Sorted, Kept, ProbeReturn, AddRedundant
<1>3. Covered'
  <2>1. CASE ProbeReturn
    BY <2>1 DEF Covered, ProbeReturn
  <2>2. CASE AddRedundant
    <3>1. \E i \in 1..Len(closed) : Within(span, closed[i])
      <4>1. CASE left > 0 /\ Within(span, closed[left])
        BY <4>1, ArrayBounds DEF SpansTypeOK
      <4>2. CASE left < Len(closed) /\ closed[left + 1].start = span.start
                 /\ closed[left + 1].end >= span.end
        <5>1. left + 1 \in 1..Len(closed)
          BY <4>2, ArrayBounds
        <5>2. Within(span, closed[left + 1])
          BY <4>2, <5>1, <2>2, ArrayBounds DEF Within, AddRedundant
        <5> QED
          BY <5>1, <5>2
      <4> QED
        BY <4>1, <4>2, <2>2 DEF AddRedundant, Redundant
    <3> QED
      BY <3>1, <2>2 DEF Covered, AddRedundant
  <2> QED
    BY <2>1, <2>2
<1>4. ProbeLoop' /\ FindLoop' /\ PruneLoop'
  BY DEF ProbeLoop, FindLoop, PruneLoop, ProbeReturn, AddRedundant
<1> QED
  BY <1>1, <1>2, <1>3, <1>4

(* A span that no neighbour covers ends behind every span before its place. *)
LEMMA BeginPrunePreserves ==
  ASSUME SpansInv, BeginPrune
  PROVE  SpansInv'
<1> USE DEF SpansInv
<1>1. /\ op = "find" /\ op' = "prune" /\ left = right /\ left' = left /\ right' = left
      /\ closed' = closed /\ span' = span /\ added' = added
  BY DEF BeginPrune, SpansTypeOK
<1>2. SpansTypeOK'
  BY <1>1, ArrayBounds DEF SpansTypeOK
<1>3. Sorted' /\ Kept' /\ Covered' /\ ProbeLoop' /\ FindLoop'
  BY <1>1 DEF Sorted, Kept, Covered, ProbeLoop, FindLoop
<1>4. PruneLoop'
  <2>1. ~Redundant(closed, left, span)
    BY DEF BeginPrune
  <2>2. \A i \in 1..left : closed[i].end < span.end
    <3> TAKE i \in 1..left
    <3>1. left \in 1..Len(closed) /\ i \in 1..Len(closed)
      BY ArrayBounds DEF SpansTypeOK
    <3>2. closed[left].end < span.end
      BY <3>1, <2>1, <1>1, ArrayBounds DEF Redundant, Within, FindLoop
    <3>3. closed[i].end <= closed[left].end
      BY <3>1, ArrayBounds DEF Sorted
    <3> QED
      BY <3>1, <3>2, <3>3, <1>1, ArrayBounds
  <2>3. ASSUME NEW i \in (left + 1)..Len(closed), closed[i].start = span.start
        PROVE  closed[i].end < span.end
    <3>1. i \in 1..Len(closed) /\ left + 1 \in 1..Len(closed) /\ left < Len(closed)
      BY ArrayBounds
    <3>2. closed[left + 1].start >= span.start
      BY <3>1, <1>1 DEF FindLoop
    <3>3. i = left + 1
      BY <3>1, <3>2, <2>3, <1>1, ArrayBounds DEF Sorted
    <3> QED
      BY <3>1, <3>3, <2>1, <2>3, <1>1, ArrayBounds DEF Redundant
  <2>4. \A i \in (left + 1)..left : FALSE
    BY ArrayBounds
  <2> QED
    BY <2>2, <2>3, <2>4, <1>1 DEF PruneLoop, FindLoop
<1> QED
  BY <1>2, <1>3, <1>4

LEMMA PruneIteratePreserves ==
  ASSUME SpansInv, PruneIterate
  PROVE  SpansInv'
<1> USE DEF SpansInv
<1>1. /\ op = "prune" /\ op' = op /\ left' = left /\ right' = right + 1
      /\ closed' = closed /\ span' = span /\ added' = added
      /\ right < Len(closed) /\ closed[right + 1].end <= span.end
  BY DEF PruneIterate, Prunes
<1>2. SpansTypeOK'
  BY <1>1, ArrayBounds DEF SpansTypeOK
<1>3. Sorted' /\ Kept' /\ Covered' /\ ProbeLoop' /\ FindLoop'
  BY <1>1 DEF Sorted, Kept, Covered, ProbeLoop, FindLoop
<1>4. PruneLoop'
  <2>1. \A i \in (left + 1)..(right + 1) : i \in (left + 1)..right \/ i = right + 1
    BY ArrayBounds
  <2>2. right + 1 \in (right + 1)..Len(closed)
    BY <1>1, ArrayBounds
  <2>3. \A i \in (right + 1 + 1)..Len(closed) : i \in (right + 1)..Len(closed)
    BY ArrayBounds
  <2> QED
    BY <2>1, <2>2, <2>3, <1>1 DEF PruneLoop
<1> QED
  BY <1>2, <1>3, <1>4

LEMMA ReleasePreserves ==
  ASSUME SpansInv, AddFails \/ Release
  PROVE  SpansInv'
<1>1. /\ op' = "released" /\ span' = NoSpan /\ left' = 0 /\ right' = 0
      /\ closed' = <<>> /\ added' = {}
  BY DEF AddFails, Release, Released
<1>2. SpansTypeOK'
  BY <1>1 DEF SpansTypeOK
<1>3. Sorted' /\ Kept' /\ Covered' /\ ProbeLoop' /\ FindLoop' /\ PruneLoop'
  BY <1>1 DEF Sorted, Kept, Covered, ProbeLoop, FindLoop, PruneLoop
<1> QED
  BY <1>2, <1>3 DEF SpansInv

(* The insertion: the spans in front of left start and end before the new  *)
(* one, those behind right start and end after it, those between lie       *)
(* inside it.                                                              *)
LEMMA AddPlacedPreserves ==
  ASSUME SpansInv, AddPlaced
  PROVE  SpansInv'
<1> DEFINE n == Len(closed)
<1>1. /\ op = "prune" /\ op' = "idle" /\ left' = 0 /\ right' = 0
      /\ span' = NoSpan /\ added' = added
      /\ closed' = Placed(closed, left, right, span)
      /\ right < n => ~(closed[right + 1].end <= span.end)
  BY DEF AddPlaced, EndCall, Prunes
<1>2. /\ n \in Nat /\ left \in 0..n /\ right \in left..n
      /\ closed \in Seq(Spans) /\ span \in Spans /\ span \in added
      /\ span.start \in Nat /\ span.end \in Nat
      /\ \A i \in 1..n : closed[i].start \in Nat /\ closed[i].end \in Nat
  BY <1>1, ArrayBounds DEF SpansInv, SpansTypeOK, PruneLoop
<1>3. \A i \in (right + 1)..n : closed[i].end > span.end /\ closed[i].start > span.start
  <2> TAKE i \in (right + 1)..n
  <2>1. right < n /\ right + 1 \in 1..n /\ i \in 1..n /\ right + 1 <= i
    BY <1>2
  <2>2. closed[right + 1].end <= closed[i].end
    BY <2>1, <1>2 DEF SpansInv, Sorted
  <2>3. closed[i].end > span.end
    BY <2>1, <2>2, <1>1, <1>2
  <2>4. closed[i].start >= span.start /\ (closed[i].start = span.start => closed[i].end < span.end)
    BY <1>1 DEF SpansInv, PruneLoop
  <2> QED
    BY <2>1, <2>3, <2>4, <1>2
<1>4. ~CoveredNext(closed, right, span)
  <2>1. right < n => right + 1 \in (right + 1)..n /\ right + 1 \in 1..n
    BY <1>2
  <2> QED
    BY <2>1, <1>2, <1>3 DEF CoveredNext, Within
<1>5. closed' = SubSeq(closed, 1, left) \o <<span>> \o SubSeq(closed, right + 1, n)
  BY <1>1, <1>4 DEF Placed
<1>6. IsSplice(Spans, closed, left, right, span, closed')
  BY <1>2, <1>5, SpliceProperties, Zenon
<1> DEFINE k == Len(closed')
<1>7. closed' \in Seq(Spans)
  BY <1>6 DEF IsSplice
<1>8. k = left + 1 + (n - right) /\ k \in Nat /\ left + 1 \in 1..k
  BY <1>2, <1>6 DEF IsSplice
<1>9. /\ \A i \in 1..left : closed'[i] = closed[i]
      /\ closed'[left + 1] = span
      /\ \A i \in (left + 2)..k : closed'[i] = closed[i - (left + 1) + right]
  BY <1>6, Zenon DEF IsSplice
<1>10. \A i \in 1..left : closed[i].start < span.start /\ closed[i].end < span.end
  BY <1>1 DEF SpansInv, PruneLoop
<1>11. \A i \in (left + 1)..right : Within(closed[i], span)
  BY <1>1, <1>2 DEF SpansInv, PruneLoop, Within
<1>12. SpansTypeOK'
  BY <1>1, <1>2, <1>7, <1>8 DEF SpansTypeOK, SpansInv
<1> HIDE DEF n, k
<1>13. \A i \in 1..k : i \in 1..left \/ i = left + 1 \/ i \in (left + 2)..k
  BY <1>2, <1>8
<1>14. \A i \in 1..left : i \in 1..n /\ i \in 1..k
  BY <1>2, <1>8
<1>15. ASSUME NEW i \in (left + 2)..k
       PROVE  /\ i - (left + 1) + right \in (right + 1)..n
              /\ i - (left + 1) + right \in 1..n
  BY <1>2, <1>8
<1>16. Sorted'
  <2> SUFFICES ASSUME NEW i \in 1..k, NEW j \in 1..k, i < j
               PROVE  closed'[i].start < closed'[j].start /\ closed'[i].end < closed'[j].end
    BY DEF Sorted, k
  <2>0. \A x, y \in 1..n :
          x < y => closed[x].start < closed[y].start /\ closed[x].end < closed[y].end
    BY DEF SpansInv, Sorted, n
  <2>1. CASE i \in 1..left /\ j \in 1..left
    BY <2>0, <2>1, <1>9, <1>14
  <2>2. CASE i \in 1..left /\ j = left + 1
    BY <2>2, <1>9, <1>10
  <2>3. CASE i \in 1..left /\ j \in (left + 2)..k
    <3> DEFINE b == j - (left + 1) + right
    <3>1. b \in (right + 1)..n /\ b \in 1..n /\ i \in 1..n
      BY <2>3, <1>14, <1>15
    <3>2. closed'[i] = closed[i] /\ closed'[j] = closed[b]
      BY <2>3, <1>9
    <3> HIDE DEF b
    <3>3. closed[i].start < span.start /\ closed[i].end < span.end
          /\ closed[b].start > span.start /\ closed[b].end > span.end
      BY <3>1, <2>3, <1>3, <1>10 DEF n
    <3> QED
      BY <3>1, <3>2, <3>3, <1>2
  <2>4. CASE i = left + 1 /\ j \in (left + 2)..k
    <3> DEFINE b == j - (left + 1) + right
    <3>1. b \in (right + 1)..n /\ b \in 1..n
      BY <2>4, <1>15
    <3>2. closed'[i] = span /\ closed'[j] = closed[b]
      BY <2>4, <1>9
    <3> HIDE DEF b
    <3> QED
      BY <3>1, <3>2, <1>2, <1>3 DEF n
  <2>5. CASE i \in (left + 2)..k /\ j \in (left + 2)..k
    <3> DEFINE a == i - (left + 1) + right
               b == j - (left + 1) + right
    <3>1. a \in 1..n /\ b \in 1..n /\ a < b
      BY <2>5, <1>2, <1>15
    <3>2. closed'[i] = closed[a] /\ closed'[j] = closed[b]
      BY <2>5, <1>9
    <3> QED
      BY <3>1, <3>2, <2>0
  <2> QED
    BY <2>1, <2>2, <2>3, <2>4, <2>5, <1>2, <1>13
<1>17. Kept'
  <2> SUFFICES ASSUME NEW i \in 1..k PROVE closed'[i] \in added
    BY <1>1 DEF Kept, k
  <2>1. \A x \in 1..n : closed[x] \in added
    BY DEF SpansInv, Kept, n
  <2>2. CASE i \in 1..left
    BY <2>1, <2>2, <1>9, <1>14
  <2>3. CASE i = left + 1
    BY <2>3, <1>2, <1>9
  <2>4. CASE i \in (left + 2)..k
    BY <2>1, <2>4, <1>9, <1>15
  <2> QED
    BY <2>2, <2>3, <2>4, <1>13
<1>18. Covered'
  <2> SUFFICES ASSUME NEW m \in added
               PROVE  \E i \in 1..k : Within(m, closed'[i])
    BY <1>1 DEF Covered, k
  <2>1. m.start \in Nat /\ m.end \in Nat
    BY SpanBounds DEF SpansInv, SpansTypeOK
  <2>2. Within(m, span) => \E i \in 1..k : Within(m, closed'[i])
    BY <1>8, <1>9
  <2>3. CASE m = span
    BY <2>2, <2>3, <1>2 DEF Within
  <2>4. CASE m # span
    <3>1. PICK i \in 1..n : Within(m, closed[i])
      BY <1>1, <2>4 DEF SpansInv, Covered, n
    <3>2. CASE i \in 1..left
      BY <3>1, <3>2, <1>9, <1>14
    <3>3. CASE i \in (left + 1)..right
      <4>1. Within(m, span)
        BY <3>1, <3>3, <1>2, <1>11, <2>1 DEF Within, n
      <4> QED
        BY <4>1, <2>2
    <3>4. CASE i \in (right + 1)..n
      <4> DEFINE j == i - right + left + 1
      <4>1. j \in (left + 2)..k /\ j \in 1..k /\ j - (left + 1) + right = i
        BY <3>4, <1>2, <1>8
      <4>2. closed'[j] = closed[i]
        BY <4>1, <1>9
      <4> QED
        BY <4>1, <4>2, <3>1
    <3> QED
      BY <3>2, <3>3, <3>4, <1>2
  <2> QED
    BY <2>3, <2>4
<1>19. ProbeLoop' /\ FindLoop' /\ PruneLoop'
  BY <1>1 DEF ProbeLoop, FindLoop, PruneLoop
<1> QED
  BY <1>12, <1>16, <1>17, <1>18, <1>19 DEF SpansInv

LEMMA SpansNextInv == SpansInv /\ [SpansNext]_spansVars => SpansInv'
<1> SUFFICES ASSUME SpansInv, [SpansNext]_spansVars PROVE SpansInv'
  OBVIOUS
<1>1. CASE UNCHANGED spansVars
  BY <1>1 DEF spansVars, SpansInv, SpansTypeOK, Sorted, Kept, Covered, ProbeLoop, FindLoop,
              PruneLoop
<1>2. CASE \E s \in Spans : BeginProbe(s) \/ BeginAdd(s)
  BY <1>2, BeginPreserves
<1>3. CASE Calls
  <2>1. CASE ProbeIterate \/ FindIterate
    BY <2>1, SearchPreserves
  <2>2. CASE ProbeReturn
    BY <2>2, ReturnPreserves
  <2>3. CASE FindReturn
    BY <2>3, CallOutcomes, ReturnPreserves, BeginPrunePreserves
  <2>4. CASE PruneOrPlace
    BY <2>4, CallOutcomes, PruneIteratePreserves, AddPlacedPreserves
  <2>5. CASE AddFails
    BY <2>5, ReleasePreserves
  <2> QED
    BY <1>3, <2>1, <2>2, <2>3, <2>4, <2>5 DEF Calls
<1>4. CASE Release
  BY <1>4, ReleasePreserves
<1> QED
  BY <1>1, <1>2, <1>3, <1>4 DEF SpansNext

LEMMA SpansSpecInv == SpansSpec => []SpansInv
BY SpansInitInv, SpansNextInv, PTL DEF SpansSpec

(***************************************************************************)
(* The properties that the runs check, for every set of spans.             *)
(***************************************************************************)

(* Every state of the array, the searches and the removal loop is well     *)
(* formed: left and right never leave the array.                           *)
THEOREM SpansTypeCorrect == SpansSpec => []SpansTypeOK
<1>1. SpansInv => SpansTypeOK
  BY DEF SpansInv
<1> QED
  BY <1>1, SpansSpecInv, PTL

(* kc_ngram_add_closed_span keeps the array sorted. *)
THEOREM AlwaysSorted == SpansSpec => []Sorted
<1>1. SpansInv => Sorted
  BY DEF SpansInv
<1> QED
  BY <1>1, SpansSpecInv, PTL

LEMMA ProbeAnswers == SpansInv => ProbeExact
<1> SUFFICES ASSUME SpansInv, op = "probe", left >= right
             PROVE  Answer <=> \E m \in added : Within(span, m)
  BY DEF ProbeExact
<1>1. left = right /\ left \in 0..Len(closed)
  BY ArrayBounds DEF SpansInv, SpansTypeOK
<1>2. ASSUME Answer PROVE \E m \in added : Within(span, m)
  <2>1. left \in 1..Len(closed) /\ Within(span, closed[left])
    BY <1>1, <1>2, ArrayBounds DEF Answer, IsClosedAt, SpansInv
  <2> QED
    BY <2>1 DEF SpansInv, Kept
<1>3. ASSUME NEW m \in added, Within(span, m) PROVE Answer
  <2>1. PICK i \in 1..Len(closed) : Within(m, closed[i])
    BY DEF SpansInv, Covered
  <2>2. m.start \in Nat /\ m.end \in Nat
    BY SpanBounds DEF SpansInv, SpansTypeOK
  <2>3. closed[i].start <= span.start /\ span.end <= closed[i].end
    BY <1>3, <2>1, <2>2, ArrayBounds DEF Within, SpansInv
  <2>4. i \in 1..left
    BY <1>1, <2>3, ArrayBounds DEF SpansInv, ProbeLoop
  <2>5. left \in 1..Len(closed) /\ closed[left].start <= span.start
    BY <1>1, <2>4, ArrayBounds DEF SpansInv, ProbeLoop
  <2>6. closed[i].end <= closed[left].end
    BY <2>4, <2>5, ArrayBounds DEF SpansInv, Sorted
  <2>7. span.end <= closed[left].end
    BY <2>3, <2>5, <2>6, ArrayBounds DEF SpansInv
  <2> QED
    BY <2>5, <2>7 DEF Answer, IsClosedAt, Within
<1> QED
  BY <1>2, <1>3

(* kc_ngram_span_is_closed answers as a scan over all the spans added      *)
(* would: the last span starting at or before the argument reaches as far  *)
(* as any other one that does.                                             *)
THEOREM ProbeIsExact == SpansSpec => []ProbeExact
BY ProbeAnswers, SpansSpecInv, PTL

LEMMA ArrayHolds == SpansInv => KeepsMaximal
<1> SUFFICES ASSUME SpansInv, op \in {"idle", "probe"}
             PROVE  {closed[i] : i \in 1..Len(closed)} =
                      {m \in added : \A x \in added : Within(m, x) => x = m}
  BY DEF KeepsMaximal
<1>1. \A m \in added : /\ m = [start |-> m.start, end |-> m.end]
                       /\ m.start \in Nat /\ m.end \in Nat
  BY SpanBounds DEF SpansInv, SpansTypeOK
<1>2. \A m \in added : \E i \in 1..Len(closed) : Within(m, closed[i])
  BY DEF SpansInv, Covered
<1>3. \A i \in 1..Len(closed) : closed[i] \in added
  BY DEF SpansInv, Kept
<1>4. \A a, b \in added : Within(a, b) /\ Within(b, a) => a = b
  <2> TAKE a \in added, b \in added
  <2> HAVE Within(a, b) /\ Within(b, a)
  <2>1. a.start = b.start /\ a.end = b.end
    BY <1>1 DEF Within
  <2> QED
    BY <2>1, <1>1
<1>5. ASSUME NEW i \in 1..Len(closed), NEW x \in added, Within(closed[i], x)
      PROVE  x = closed[i]
  <2>1. PICK j \in 1..Len(closed) : Within(x, closed[j])
    BY <1>2
  <2>2. Within(closed[i], closed[j])
    BY <1>1, <1>3, <1>5, <2>1 DEF Within
  <2>3. /\ closed[i].start \in Nat /\ closed[j].start \in Nat
        /\ closed[i].end \in Nat /\ closed[j].end \in Nat
    BY <1>1, <1>3
  <2>4. ~(i < j) /\ ~(j < i)
    BY <2>2, <2>3 DEF SpansInv, Sorted, Within
  <2>5. i = j
    BY <2>4, ArrayBounds DEF SpansInv
  <2> QED
    BY <2>1, <2>5, <1>3, <1>4, <1>5
<1>6. ASSUME NEW m \in added, \A x \in added : Within(m, x) => x = m
      PROVE  \E i \in 1..Len(closed) : m = closed[i]
  BY <1>2, <1>3, <1>6
<1> QED
  BY <1>3, <1>5, <1>6

(* Pruning and redundancy lose nothing and keep nothing twice: between     *)
(* calls the array holds the maximal spans among those added.              *)
THEOREM ArrayIsMaximal == SpansSpec => []KeepsMaximal
BY ArrayHolds, SpansSpecInv, PTL


(***************************************************************************)
(* The traversal.  Its inductive invariant says which call on the array is *)
(* in progress at each place of the loops, where the loops are, and what   *)
(* has become of the windows they have gone over.                          *)
(***************************************************************************)
admitted == WindowsOf(count, minTokens, maxTokens)

(* The loops have gone over window w. *)
Earlier(w) == Size(w) > window \/ (Size(w) = window /\ w.start < start)

InLoops == pc \notin {"begin", "done"}

(* A call on the array is about the current window, and every island has   *)
(* been given to the array.                                                *)
CallInv ==
  /\ pc \in {"begin", "scan", "visit"} => op = "idle"
  /\ pc = "probe" => op = "probe" /\ span = current
  /\ pc = "add" => op \in {"find", "prune"} /\ span = current
  /\ pc = "done" => op = "released"
  /\ pc # "done" => added = matched

LoopInv ==
  /\ InLoops => OptionsValid /\ count > 0 /\ window <= LoopMax
  /\ pc \in {"probe", "visit", "add"} =>
       window >= minTokens /\ start <= count - window

(* An admitted window left behind was handed over or lies in an island. *)
Swept ==
  InLoops =>
    \A w \in admitted :
      Earlier(w) => w \in visited \/ \E i \in matched : Within(w, i)

(* Only admitted windows left behind were handed over, and the current one *)
(* while it is being closed.                                               *)
HandedOver ==
  /\ pc # "done" =>
       \A v \in visited : v \in admitted /\ (Earlier(v) \/ (pc = "add" /\ v = current))
  /\ pc = "begin" => visited = {}
  /\ pc = "add" => current \in visited
  /\ pc = "visit" => \A i \in matched : ~Within(current, i)

Counted ==
  /\ IsFiniteSet(visited)
  /\ pc # "done" => emitted = Cardinality(visited)

(* No island lies inside another one. *)
Apart ==
  pc # "done" => \A a, b \in matched : Within(a, b) => a = b

NgramInv ==
  /\ SpansInv /\ TypeOK
  /\ CallInv /\ LoopInv /\ Swept /\ HandedOver /\ Counted /\ Apart


(***************************************************************************)
(* Windows.                                                                *)
(***************************************************************************)

(* The admitted windows are spans within the input, no longer than the     *)
(* first window size and no shorter than the minimum.                      *)
LEMMA AdmittedBounds ==
  ASSUME TypeOK, NEW w \in admitted
  PROVE  /\ w = Span(w.start, w.end) /\ w \in Spans
         /\ w.start \in Nat /\ w.end \in Nat /\ w.end = w.start + Size(w) - 1
         /\ Size(w) \in Nat /\ minTokens <= Size(w) /\ Size(w) <= LoopMax
         /\ w.start + Size(w) <= count
<1>1. /\ count \in Nat /\ minTokens \in Int /\ maxTokens \in Int
      /\ count \in Counts
  BY CountsAssumption DEF TypeOK
<1>2. /\ w \in [start : 0..(count - 1), end : 0..(count - 1)]
      /\ w.start <= w.end /\ minTokens <= Size(w)
      /\ maxTokens = 0 \/ Size(w) <= maxTokens
  BY DEF admitted, WindowsOf
<1>3. w.start \in 0..(count - 1) /\ w.end \in 0..(count - 1) /\ w = Span(w.start, w.end)
  BY <1>2 DEF Span
<1>4. w \in Spans
  BY <1>1, <1>2, <1>3, WindowsAssumption
<1>5. /\ w.start \in Nat /\ w.end \in Nat /\ w.end = w.start + Size(w) - 1
      /\ Size(w) \in Nat /\ w.start + Size(w) <= count
  BY <1>1, <1>2, <1>3 DEF Size
<1>6. Size(w) <= LoopMax
  BY <1>1, <1>2, <1>5 DEF LoopMax
<1> QED
  BY <1>2, <1>3, <1>4, <1>5, <1>6

(* The loops stay on admitted windows. *)
LEMMA CurrentBounds ==
  ASSUME TypeOK, OptionsValid, window <= LoopMax,
         window >= minTokens, start <= count - window
  PROVE  /\ current \in Spans /\ current \in admitted /\ Size(current) = window
         /\ current.start = start /\ current.end = start + window - 1
         /\ window \in Nat /\ window >= 1 /\ start \in Nat
<1>1. /\ count \in Nat /\ minTokens \in Int /\ maxTokens \in Int
      /\ count \in Counts /\ window \in Int /\ start \in Nat
  BY CountsAssumption DEF TypeOK
<1>2. window \in Nat /\ window >= 1
  BY <1>1 DEF OptionsValid
<1>3. current.start = start /\ current.end = start + window - 1
  BY DEF current, Span
<1>4. Size(current) = window
  BY <1>1, <1>3 DEF Size
<1>5. start \in 0..(count - 1) /\ start + window - 1 \in 0..(count - 1)
      /\ start <= start + window - 1
  BY <1>1, <1>2
<1>6. current \in Spans
  BY <1>1, <1>5, WindowsAssumption DEF current
<1>7. current \in [start : 0..(count - 1), end : 0..(count - 1)]
  BY <1>5 DEF current, Span
<1>8. maxTokens = 0 \/ window <= maxTokens
  BY <1>1 DEF LoopMax
<1>9. current \in admitted
  BY <1>3, <1>4, <1>5, <1>7, <1>8 DEF admitted, WindowsOf, OptionsValid
<1> QED
  BY <1>1, <1>2, <1>3, <1>4, <1>6, <1>9

(* The current window is the only one of its size at its place. *)
LEMMA OnlyCurrent ==
  ASSUME TypeOK, NEW w \in admitted, Size(w) = window, w.start = start
  PROVE  w = current
BY AdmittedBounds DEF current

(* Every call made on the array is one of module ClosedSpans, and nothing  *)
(* else touches the array.                                                 *)
LEMMA SpansStep == NgramInv /\ [Next]_vars => [SpansNext]_spansVars
<1> SUFFICES ASSUME NgramInv, [Next]_vars PROVE [SpansNext]_spansVars
  OBVIOUS
<1>0. CASE UNCHANGED vars
  BY <1>0 DEF vars
<1>1. CASE RejectOptions \/ SplitFails \/ NoTokens \/ Finish \/ VisitAbort
  BY <1>1 DEF RejectOptions, SplitFails, NoTokens, Finish, VisitAbort, SpansNext
<1>2. CASE StartScan \/ Narrow \/ VisitKeepOpen
  BY <1>2 DEF StartScan, Narrow, VisitKeepOpen
<1>3. CASE EnterWindow
  <2>1. current \in Spans
    BY <1>3, CurrentBounds DEF EnterWindow, NgramInv, LoopInv, InLoops
  <2> QED
    BY <1>3, <2>1 DEF EnterWindow, SpansNext
<1>4. CASE Probing \/ Skip \/ Emit \/ Adding \/ AddingFails
  BY <1>4 DEF Probing, Skip, Emit, Adding, AddingFails, SpansNext, Calls
<1>5. CASE VisitClose
  <2>1. current \in Spans
    BY <1>5, CurrentBounds DEF VisitClose, NgramInv, LoopInv, InLoops
  <2> QED
    BY <1>5, <2>1 DEF VisitClose, SpansNext
<1> QED
  BY <1>0, <1>1, <1>2, <1>3, <1>4, <1>5 DEF Next

LEMMA NgramInitInv == Init => NgramInv
<1> SUFFICES ASSUME Init PROVE NgramInv
  OBVIOUS
<1>1. SpansInv
  BY SpansInitInv DEF Init
<1>2. TypeOK
  BY <1>1, OptionsAssumption DEF Init, TypeOK, SpansInv
<1>3. CallInv /\ LoopInv /\ Swept /\ HandedOver /\ Apart
  BY DEF Init, SpansInit, CallInv, LoopInv, Swept, HandedOver, Apart, InLoops
<1>4. Counted
  BY FS_EmptySet DEF Init, Counted
<1> QED
  BY <1>1, <1>2, <1>3, <1>4 DEF NgramInv


(***************************************************************************)
(* The steps of the traversal preserve its invariant.                      *)
(***************************************************************************)
LEMMA InputKept ==
  ASSUME UNCHANGED input
  PROVE  /\ count' = count /\ minTokens' = minTokens /\ maxTokens' = maxTokens
         /\ admitted' = admitted /\ LoopMax' = LoopMax
         /\ OptionsValid' <=> OptionsValid
BY DEF input, admitted, WindowsOf, Size, LoopMax, OptionsValid

LEMMA PlaceKept ==
  ASSUME UNCHANGED place
  PROVE  /\ window' = window /\ start' = start /\ current' = current
         /\ \A w : Earlier(w)' <=> Earlier(w)
BY DEF place, current, Span, Earlier, Size

(* A return: nothing but the types is promised of what is left behind. *)
LEMMA ReturnKeeps ==
  ASSUME NgramInv, SpansInv', pc' = "done", op' = "released",
         UNCHANGED <<input, place, emitted, matched>>, rc' \in Int,
         visited' = visited \/ (visited' = visited \cup {current} /\ current \in Spans)
  PROVE  NgramInv'
<1>1. TypeOK'
  BY DEF TypeOK, NgramInv, SpansInv, input, place
<1>2. IsFiniteSet(visited')
  BY FS_AddElement DEF NgramInv, Counted
<1>3. CallInv' /\ LoopInv' /\ Swept' /\ HandedOver' /\ Counted' /\ Apart'
  BY <1>2 DEF CallInv, LoopInv, Swept, HandedOver, Counted, Apart, InLoops
<1> QED
  BY <1>1, <1>3 DEF NgramInv

LEMMA ReturnsPreserve ==
  ASSUME NgramInv, SpansInv',
         \/ RejectOptions \/ SplitFails \/ NoTokens \/ Finish
         \/ VisitAbort \/ AddingFails
  PROVE  NgramInv'
<1>1. pc' = "done" /\ op' = "released" /\ UNCHANGED <<input, place>>
  BY DEF RejectOptions, SplitFails, NoTokens, Finish, VisitAbort, AddingFails,
         Return, Release, AddFails, Released
<1>2. UNCHANGED <<emitted, matched>>
  BY DEF RejectOptions, SplitFails, NoTokens, Finish, VisitAbort, AddingFails,
         history
<1>3. rc' \in Int
  BY DEF RejectOptions, SplitFails, NoTokens, Finish, VisitAbort, AddingFails,
         Return, NgramInv, TypeOK
<1>4. visited' = visited \/ (visited' = visited \cup {current} /\ current \in Spans)
  <2>1. CASE VisitAbort
    BY <2>1, CurrentBounds DEF VisitAbort, NgramInv, LoopInv, InLoops
  <2>2. CASE ~VisitAbort
    BY <2>2 DEF RejectOptions, SplitFails, NoTokens, Finish, AddingFails, history
  <2> QED
    BY <2>1, <2>2
<1> QED
  BY <1>1, <1>2, <1>3, <1>4, ReturnKeeps

(* The loops begin: no admitted window is longer than the first size. *)
LEMMA StartPreserves ==
  ASSUME NgramInv, SpansInv', StartScan
  PROVE  NgramInv'
<1>1. /\ pc = "begin" /\ OptionsValid /\ count > 0
      /\ window' = LoopMax /\ start' = 0 /\ pc' = "scan"
      /\ UNCHANGED spansVars /\ UNCHANGED input /\ UNCHANGED history /\ rc' = rc
  BY DEF StartScan
<1>2. LoopMax \in Int
  BY CountsAssumption DEF LoopMax, NgramInv, TypeOK
<1>3. TypeOK'
  BY <1>1, <1>2 DEF NgramInv, TypeOK, SpansInv, input, history
<1>4. visited = {} /\ visited' = {} /\ matched = {} /\ matched' = {}
      /\ emitted' = emitted
  BY <1>1 DEF NgramInv, HandedOver, TypeOK, history
<1>5. CallInv'
  BY <1>1, <1>4 DEF NgramInv, CallInv, spansVars
<1>6. LoopInv'
  BY <1>1, <1>2, InputKept DEF LoopInv, InLoops
<1>7. Swept'
  <2> SUFFICES ASSUME NEW w \in admitted' PROVE ~(Earlier(w))'
    BY DEF Swept
  <2>1. w \in admitted /\ TypeOK
    BY <1>1, InputKept DEF NgramInv
  <2> QED
    BY <2>1, <1>1, <1>2, AdmittedBounds DEF Earlier, Size
<1>8. HandedOver' /\ Counted' /\ Apart'
  BY <1>1, <1>4 DEF NgramInv, HandedOver, Counted, Apart
<1> QED
  BY <1>3, <1>5, <1>6, <1>7, <1>8 DEF NgramInv

(* The next size: every window of the size now done starts before start. *)
LEMMA NarrowPreserves ==
  ASSUME NgramInv, SpansInv', Narrow
  PROVE  NgramInv'
<1>1. /\ pc = "scan" /\ pc' = "scan" /\ start > count - window
      /\ window' = window - 1 /\ start' = 0
      /\ UNCHANGED spansVars /\ UNCHANGED input /\ UNCHANGED history /\ rc' = rc
  BY DEF Narrow
<1>2. /\ window \in Int /\ start \in Nat /\ count \in Nat /\ LoopMax \in Int
      /\ OptionsValid /\ count > 0 /\ window <= LoopMax /\ TypeOK
  BY <1>1, CountsAssumption DEF NgramInv, TypeOK, LoopInv, InLoops, LoopMax
<1>3. TypeOK'
  BY <1>1 DEF NgramInv, TypeOK, SpansInv, input, history
<1>4. visited' = visited /\ matched' = matched /\ emitted' = emitted
  BY <1>1 DEF history
<1>5. CallInv'
  BY <1>1, <1>4 DEF NgramInv, CallInv, spansVars
<1>6. LoopInv'
  BY <1>1, <1>2, InputKept DEF LoopInv, InLoops
<1>7. \A w \in admitted : Earlier(w)' <=> Earlier(w)
  <2> TAKE w \in admitted
  <2>1. w.start \in Nat /\ Size(w) \in Nat /\ w.start + Size(w) <= count
    BY <1>2, AdmittedBounds
  <2>2. Size(w) = window => w.start < start
    BY <1>1, <1>2, <2>1
  <2>3. Earlier(w)' <=> Size(w) > window - 1 \/ (Size(w) = window - 1 /\ w.start < 0)
    BY <1>1 DEF Earlier, Size
  <2>4. Size(w) > window - 1 \/ (Size(w) = window - 1 /\ w.start < 0)
          <=> Earlier(w)
    BY <1>2, <2>1, <2>2 DEF Earlier
  <2> QED
    BY <2>3, <2>4, Zenon
<1>8. Swept'
  BY <1>1, <1>4, <1>7, InputKept DEF NgramInv, Swept, InLoops
<1>9. HandedOver'
  BY <1>1, <1>4, <1>7, InputKept DEF NgramInv, HandedOver
<1>10. Counted' /\ Apart'
  BY <1>1, <1>4 DEF NgramInv, Counted, Apart
<1> QED
  BY <1>3, <1>5, <1>6, <1>8, <1>9, <1>10 DEF NgramInv


(* The loops stay at their place and the history is kept: a call on the    *)
(* array begins, goes on, or has answered that the window is open.         *)
LEMMA StayPreserves ==
  ASSUME NgramInv, SpansInv',
         EnterWindow \/ Probing \/ Emit \/ (Adding /\ op' # "idle")
  PROVE  NgramInv'
<1>1. /\ UNCHANGED input /\ UNCHANGED place /\ UNCHANGED history /\ rc' = rc
      /\ pc \in {"scan", "probe", "add"} /\ pc' \in {"probe", "visit", "add"}
      /\ pc = "add" <=> pc' = "add"
  BY DEF EnterWindow, Probing, Emit, Adding, Goto
<1>2. added' = added
  BY DEF EnterWindow, Probing, Emit, Adding, BeginProbe, ProbeIterate, Search,
         ProbeReturn, EndCall, FindIterate, FindReturn, PruneOrPlace
<1>3. visited' = visited /\ matched' = matched /\ emitted' = emitted
  BY <1>1 DEF history
<1>4. TypeOK'
  BY <1>1 DEF NgramInv, TypeOK, SpansInv, input, place, history
<1>5. CallInv'
  <2>1. CASE EnterWindow
    BY <2>1, <1>1, <1>2, <1>3, PlaceKept
       DEF EnterWindow, Goto, BeginProbe, Begin, NgramInv, CallInv
  <2>2. CASE Probing
    BY <2>2, <1>1, <1>2, <1>3, PlaceKept
       DEF Probing, Goto, ProbeIterate, Search, NgramInv, CallInv
  <2>3. CASE Emit
    BY <2>3, <1>1, <1>2, <1>3
       DEF Emit, Goto, ProbeReturn, EndCall, NgramInv, CallInv
  <2>4. CASE Adding /\ op' # "idle"
    <3>1. op' \in {"find", "prune"} /\ span' = span /\ pc = "add" /\ pc' = "add"
      BY <2>4 DEF Adding, Goto, FindIterate, Search, FindReturn, PruneOrPlace,
                  EndCall
    <3> QED
      BY <3>1, <1>1, <1>2, <1>3, PlaceKept DEF NgramInv, CallInv
  <2> QED
    BY <2>1, <2>2, <2>3, <2>4
<1>6. LoopInv'
  <2>1. OptionsValid /\ count > 0 /\ window <= LoopMax
    BY <1>1 DEF NgramInv, LoopInv, InLoops
  <2>2. window >= minTokens /\ start <= count - window
    BY DEF EnterWindow, Probing, Emit, Adding, NgramInv, LoopInv
  <2> QED
    BY <2>1, <2>2, <1>1, InputKept, PlaceKept DEF LoopInv
<1>7. Swept'
  BY <1>1, <1>3, InputKept, PlaceKept DEF NgramInv, Swept, InLoops
<1>8. pc' = "visit" => \A i \in matched : ~Within(current, i)
  <2> SUFFICES ASSUME pc' = "visit" PROVE \A i \in matched : ~Within(current, i)
    OBVIOUS
  <2>1. /\ op = "probe" /\ left >= right /\ ~Answer
        /\ span = current /\ added = matched
    BY DEF EnterWindow, Probing, Emit, Adding, Goto, ProbeReturn, NgramInv, CallInv
  <2> QED
    BY <2>1, ProbeAnswers DEF NgramInv, ProbeExact
<1>9. HandedOver'
  BY <1>1, <1>3, <1>8, InputKept, PlaceKept DEF NgramInv, HandedOver
<1>10. Counted' /\ Apart'
  BY <1>1, <1>3 DEF NgramInv, Counted, Apart
<1> QED
  BY <1>4, <1>5, <1>6, <1>7, <1>9, <1>10 DEF NgramInv

(* The inner loop goes on once the current window is dealt with. *)
LEMMA AdvanceKeeps ==
  ASSUME NgramInv, SpansInv', pc \in {"probe", "visit", "add"}, Advance,
         op' = "idle", added' = matched', matched' = matched,
         visited' = visited \/ visited' = visited \cup {current},
         Counted', emitted' \in Nat,
         current \in visited' \/ \E i \in matched : Within(current, i)
  PROVE  NgramInv'
<1>1. /\ start' = start + 1 /\ pc' = "scan" /\ window' = window /\ rc' = rc
      /\ UNCHANGED input
  BY DEF Advance, input
<1>2. /\ OptionsValid /\ count > 0 /\ window <= LoopMax /\ TypeOK
      /\ window >= minTokens /\ start <= count - window
  BY DEF NgramInv, LoopInv, InLoops
<1>3. /\ current \in Spans /\ current \in admitted /\ Size(current) = window
      /\ current.start = start /\ window \in Nat /\ start \in Nat
  BY <1>2, CurrentBounds
<1>4. TypeOK'
  BY <1>1, <1>3 DEF NgramInv, TypeOK, SpansInv, input
<1>5. CallInv'
  BY <1>1 DEF CallInv
<1>6. LoopInv'
  BY <1>1, <1>2, InputKept DEF LoopInv
<1>7. \A w \in admitted : Earlier(w)' <=> Earlier(w) \/ w = current
  <2> TAKE w \in admitted
  <2>1. w.start \in Nat /\ Size(w) \in Nat
    BY <1>2, AdmittedBounds
  <2>2. Size(w) = window /\ w.start = start <=> w = current
    BY <1>2, <1>3, OnlyCurrent
  <2>3. Earlier(w)' <=> Size(w) > window \/ (Size(w) = window /\ w.start < start + 1)
    BY <1>1 DEF Earlier, Size
  <2>4. Size(w) > window \/ (Size(w) = window /\ w.start < start + 1)
          <=> Earlier(w) \/ w = current
    BY <1>3, <2>1, <2>2 DEF Earlier
  <2> QED
    BY <2>3, <2>4, Zenon
<1>8. Swept'
  <2> SUFFICES ASSUME NEW w \in admitted, Earlier(w)'
               PROVE  w \in visited' \/ \E i \in matched' : Within(w, i)
    BY <1>1, InputKept DEF Swept
  <2>1. CASE w = current
    BY <2>1
  <2>2. CASE Earlier(w)
    BY <2>2 DEF NgramInv, Swept, InLoops
  <2> QED
    BY <2>1, <2>2, <1>7
<1>9. HandedOver'
  <2>1. \A v \in visited' : v \in admitted /\ (Earlier(v) \/ v = current)
    BY <1>3 DEF NgramInv, HandedOver
  <2> QED
    BY <2>1, <1>1, <1>7, InputKept DEF HandedOver
<1>10. Apart'
  BY <1>1 DEF NgramInv, Apart
<1> QED
  BY <1>4, <1>5, <1>6, <1>8, <1>9, <1>10 DEF NgramInv


(* A window is handed over once. *)
LEMMA AcceptCounts ==
  ASSUME NgramInv, pc = "visit", Accept
  PROVE  current \notin visited /\ emitted' \in Nat /\ Counted'
<1>1. /\ window \in Nat /\ start \in Nat
      /\ Size(current) = window /\ current.start = start
  BY CurrentBounds DEF NgramInv, LoopInv, InLoops
<1>2. ~Earlier(current)
  BY <1>1 DEF Earlier
<1>3. current \notin visited
  BY <1>2 DEF NgramInv, HandedOver
<1>4. /\ IsFiniteSet(visited) /\ emitted = Cardinality(visited) /\ emitted \in Nat
      /\ emitted' = emitted + 1 /\ visited' = visited \cup {current}
  BY DEF NgramInv, Counted, TypeOK, Accept
<1>5. IsFiniteSet(visited') /\ Cardinality(visited') = Cardinality(visited) + 1
  BY <1>3, <1>4, FS_AddElement
<1> QED
  BY <1>3, <1>4, <1>5 DEF Counted

LEMMA AdvancePreserves ==
  ASSUME NgramInv, SpansInv',
         Skip \/ VisitKeepOpen \/ (Adding /\ op' = "idle")
  PROVE  NgramInv'
<1>1. CASE Skip
  <2>1. /\ pc = "probe" /\ Advance /\ UNCHANGED history /\ op' = "idle"
        /\ added' = added /\ op = "probe" /\ left >= right /\ Answer
    BY <1>1 DEF Skip, ProbeReturn, EndCall
  <2>2. visited' = visited /\ matched' = matched /\ emitted' = emitted /\ pc' = "scan"
    BY <2>1 DEF history, Advance
  <2>3. added = matched /\ span = current
    BY <2>1 DEF NgramInv, CallInv
  <2>4. \E i \in matched : Within(current, i)
    BY <2>1, <2>3, ProbeAnswers DEF NgramInv, ProbeExact
  <2>5. Counted' /\ emitted' \in Nat
    BY <2>1, <2>2 DEF NgramInv, Counted, TypeOK
  <2> QED
    BY <2>1, <2>2, <2>3, <2>4, <2>5, AdvanceKeeps
<1>2. CASE VisitKeepOpen
  <2>1. pc = "visit" /\ Accept /\ Advance /\ UNCHANGED <<spansVars, matched>>
    BY <1>2 DEF VisitKeepOpen
  <2>2. /\ matched' = matched /\ op' = op /\ added' = added
        /\ op = "idle" /\ added = matched
    BY <2>1 DEF spansVars, NgramInv, CallInv
  <2>3. Counted' /\ emitted' \in Nat /\ visited' = visited \cup {current}
    BY <2>1, AcceptCounts DEF Accept
  <2> QED
    BY <2>1, <2>2, <2>3, AdvanceKeeps
<1>3. CASE Adding /\ op' = "idle"
  <2>1. pc = "add" /\ Advance /\ UNCHANGED history /\ op' = "idle" /\ added' = added
    BY <1>3 DEF Adding, FindIterate, Search, FindReturn, PruneOrPlace, EndCall
  <2>2. visited' = visited /\ matched' = matched /\ emitted' = emitted /\ pc' = "scan"
    BY <2>1 DEF history, Advance
  <2>3. added = matched /\ current \in visited
    BY <2>1 DEF NgramInv, CallInv, HandedOver
  <2>4. Counted' /\ emitted' \in Nat
    BY <2>1, <2>2 DEF NgramInv, Counted, TypeOK
  <2> QED
    BY <2>1, <2>2, <2>3, <2>4, AdvanceKeeps
<1> QED
  BY <1>1, <1>2, <1>3

(* The visitor closes the current window.  The islands before it are at    *)
(* least as long and, at the same length, start further left: none of them *)
(* lies inside it, and it lies inside none of them.                        *)
LEMMA ClosePreserves ==
  ASSUME NgramInv, SpansInv', VisitClose
  PROVE  NgramInv'
<1>1. /\ pc = "visit" /\ pc' = "add" /\ Accept /\ matched' = matched \cup {current}
      /\ visited' = visited \cup {current}
      /\ BeginAdd(current) /\ UNCHANGED input /\ UNCHANGED place /\ rc' = rc
  BY DEF VisitClose, Goto, Accept
<1>2. /\ OptionsValid /\ count > 0 /\ window <= LoopMax /\ TypeOK
      /\ window >= minTokens /\ start <= count - window
  BY <1>1 DEF NgramInv, LoopInv, InLoops
<1>3. /\ current \in Spans /\ current \in admitted /\ Size(current) = window
      /\ current.start = start /\ current.end = start + window - 1
      /\ window \in Nat /\ start \in Nat
  BY <1>2, CurrentBounds
<1>4. Counted' /\ emitted' \in Nat
  BY <1>1, AcceptCounts
<1>5. TypeOK'
  BY <1>1, <1>3, <1>4 DEF NgramInv, TypeOK, SpansInv, input, place
<1>6. CallInv'
  BY <1>1, PlaceKept DEF NgramInv, CallInv, BeginAdd, Begin
<1>7. LoopInv'
  BY <1>1, <1>2, InputKept, PlaceKept DEF LoopInv
<1>8. Swept'
  BY <1>1, InputKept, PlaceKept DEF NgramInv, Swept, InLoops
<1>9. HandedOver'
  BY <1>1, <1>3, InputKept, PlaceKept DEF NgramInv, HandedOver
<1>10. Apart'
  <2>1. \A b \in matched : ~Within(current, b)
    BY <1>1 DEF NgramInv, HandedOver
  <2>2. ASSUME NEW a \in matched PROVE ~Within(a, current)
    <3>1. a \in admitted /\ Earlier(a)
      BY <1>1, <1>2 DEF NgramInv, HandedOver, TypeOK
    <3>2. a.start \in Nat /\ a.end \in Nat /\ a.end = a.start + Size(a) - 1
          /\ Size(a) \in Nat
      BY <1>2, <3>1, AdmittedBounds
    <3> QED
      BY <1>3, <3>1, <3>2 DEF Within, Earlier
  <2>3. \A a, b \in matched : Within(a, b) => a = b
    BY <1>1 DEF NgramInv, Apart
  <2> QED
    BY <1>1, <2>1, <2>2, <2>3 DEF Apart
<1> QED
  BY <1>4, <1>5, <1>6, <1>7, <1>8, <1>9, <1>10 DEF NgramInv

LEMMA NgramNextInv == NgramInv /\ [Next]_vars => NgramInv'
<1> SUFFICES ASSUME NgramInv, [Next]_vars PROVE NgramInv'
  OBVIOUS
<1>1. SpansInv'
  BY SpansStep, SpansNextInv DEF NgramInv
<1>2. CASE UNCHANGED vars
  <2>1. /\ UNCHANGED input /\ UNCHANGED place /\ UNCHANGED spansVars
        /\ pc' = pc /\ rc' = rc
        /\ visited' = visited /\ matched' = matched /\ emitted' = emitted
    BY <1>2 DEF vars, history
  <2>2. TypeOK'
    BY <2>1, <1>1 DEF NgramInv, TypeOK, SpansInv, input, place
  <2>3. CallInv' /\ LoopInv'
    BY <2>1, InputKept, PlaceKept DEF NgramInv, CallInv, LoopInv, InLoops, spansVars
  <2>4. Swept' /\ HandedOver'
    BY <2>1, InputKept, PlaceKept DEF NgramInv, Swept, HandedOver, InLoops
  <2>5. Counted' /\ Apart'
    BY <2>1 DEF NgramInv, Counted, Apart
  <2> QED
    BY <2>2, <2>3, <2>4, <2>5, <1>1 DEF NgramInv
<1>3. CASE \/ RejectOptions \/ SplitFails \/ NoTokens \/ Finish
           \/ VisitAbort \/ AddingFails
  BY <1>1, <1>3, ReturnsPreserve
<1>4. CASE StartScan
  BY <1>1, <1>4, StartPreserves
<1>5. CASE Narrow
  BY <1>1, <1>5, NarrowPreserves
<1>6. CASE EnterWindow \/ Probing \/ Emit \/ (Adding /\ op' # "idle")
  BY <1>1, <1>6, StayPreserves
<1>7. CASE Skip \/ VisitKeepOpen \/ (Adding /\ op' = "idle")
  BY <1>1, <1>7, AdvancePreserves
<1>8. CASE VisitClose
  BY <1>1, <1>8, ClosePreserves
<1> QED
  BY <1>2, <1>3, <1>4, <1>5, <1>6, <1>7, <1>8 DEF Next

LEMMA NgramSpecInv == Spec => []NgramInv
BY NgramInitInv, NgramNextInv, PTL DEF Spec

(* Every state of the loops and of the calls they make is well formed; a   *)
(* window handed to the visitor is a span of the input.                    *)
THEOREM TypeCorrect == Spec => []TypeOK
<1>1. NgramInv => TypeOK
  BY DEF NgramInv
<1> QED
  BY <1>1, NgramSpecInv, PTL

(* kc_ngram_add_closed_span never drops a span of kc_ngram_execute: the    *)
(* order of the windows keeps every island out of every other one, and of  *)
(* spans apart all are maximal.                                            *)
THEOREM IslandsAreKept == Spec => []IslandsKept
<1>1. NgramInv => IslandsKept
  <2> SUFFICES ASSUME NgramInv, pc \in {"scan", "probe", "visit"}
               PROVE  {closed[i] : i \in 1..Len(closed)} = matched
    BY DEF IslandsKept
  <2>1. op \in {"idle", "probe"} /\ added = matched
    BY DEF NgramInv, CallInv
  <2>2. {closed[i] : i \in 1..Len(closed)} =
          {m \in added : \A n \in added : Within(m, n) => n = m}
    BY <2>1, ArrayHolds DEF NgramInv, KeepsMaximal
  <2>3. \A m, n \in added : Within(m, n) => n = m
    BY <2>1 DEF NgramInv, Apart
  <2> QED
    BY <2>1, <2>2, <2>3
<1> QED
  BY <1>1, NgramSpecInv, PTL


(***************************************************************************)
(* The traversal implements module Traversal.                              *)
(***************************************************************************)
pendingNow == Pending(count, minTokens, maxTokens, visited, matched)

LEMMA PromisePending ==
  /\ Promise!pending = pendingNow
  /\ Promise!First(pendingNow) = First(pendingNow)
BY DEF Promise!pending, Promise!Pending, Promise!WindowsOf, Promise!Size,
       Promise!Within, Promise!First, Promise!Before, pendingNow, Pending,
       WindowsOf, Size, Within, First, Before

(* The loops offer the first of the windows still to be visited. *)
LEMMA CurrentIsFirst ==
  ASSUME NgramInv, pc = "visit"
  PROVE  pendingNow # {} /\ First(pendingNow) = current
<1>1. /\ current \in admitted /\ Size(current) = window /\ current.start = start
      /\ window \in Nat /\ start \in Nat /\ TypeOK
  BY CurrentBounds DEF NgramInv, LoopInv, InLoops
<1>2. ~Earlier(current)
  BY <1>1 DEF Earlier
<1>3. current \in pendingNow
  BY <1>1, <1>2 DEF pendingNow, Pending, admitted, NgramInv, HandedOver
<1>4. ASSUME NEW v \in pendingNow, v # current
      PROVE  Before(current, v) /\ ~Before(v, current)
  <2>1. v \in admitted /\ ~Earlier(v)
    BY <1>4 DEF pendingNow, Pending, admitted, NgramInv, Swept, InLoops
  <2>2. v.start \in Nat /\ Size(v) \in Nat
    BY <2>1, <1>1, AdmittedBounds
  <2>3. Size(v) # window \/ v.start # start
    BY <2>1, <1>1, <1>4, OnlyCurrent
  <2>4. Size(v) < window \/ (Size(v) = window /\ start < v.start)
    BY <1>1, <2>1, <2>2, <2>3 DEF Earlier
  <2> QED
    BY <1>1, <2>2, <2>4 DEF Before
<1>5. \A w \in pendingNow :
        (\A v \in pendingNow : v = w \/ Before(w, v)) <=> w = current
  BY <1>3, <1>4
<1> QED
  BY <1>3, <1>5 DEF First

(* The loops end when nothing is left. *)
LEMMA NothingLeft ==
  ASSUME NgramInv, NoTokens \/ Finish
  PROVE  pendingNow = {}
<1> SUFFICES ASSUME NEW w \in pendingNow PROVE FALSE
  OBVIOUS
<1>1. /\ w \in admitted /\ w \notin visited /\ \A i \in matched : ~Within(w, i)
      /\ TypeOK
  BY DEF pendingNow, Pending, admitted, NgramInv
<1>2. /\ w.start \in Nat /\ Size(w) \in Nat /\ minTokens <= Size(w)
      /\ w.start + Size(w) <= count /\ count \in Nat
  BY <1>1, AdmittedBounds, CountsAssumption DEF TypeOK
<1>3. Size(w) >= 1
  BY <1>1, <1>2 DEF admitted, WindowsOf, TypeOK
<1>4. CASE NoTokens
  BY <1>2, <1>3, <1>4 DEF NoTokens
<1>5. CASE Finish
  <2>1. pc = "scan" /\ window < minTokens /\ window \in Int /\ minTokens \in Int
    BY <1>1, <1>5 DEF Finish, TypeOK
  <2>2. Earlier(w)
    BY <1>2, <2>1 DEF Earlier
  <2> QED
    BY <1>1, <2>1, <2>2 DEF NgramInv, Swept, InLoops
<1> QED
  BY <1>4, <1>5

LEMMA TraversalStarts == Init => Promise!Init
BY CountsAssumption, OptionsAssumption DEF Init, Promise!Init

LEMMA TraversalSteps == NgramInv /\ [Next]_vars => [Promise!Next]_(Promise!vars)
<1> SUFFICES ASSUME NgramInv, [Next]_vars PROVE [Promise!Next]_(Promise!vars)
  OBVIOUS
<1>1. ASSUME UNCHANGED input, visited' = visited, matched' = matched, rc' = rc,
             pc # "done", pc' # "done"
      PROVE  UNCHANGED Promise!vars
  BY <1>1 DEF Promise!vars, input
<1>2. CASE UNCHANGED vars
  BY <1>2 DEF vars, history, input, Promise!vars
<1>3. CASE RejectOptions \/ SplitFails \/ AddingFails
  <2>1. /\ UNCHANGED input /\ visited' = visited /\ matched' = matched
        /\ pc # "done" /\ pc' = "done" /\ rc' = -1
    BY <1>3 DEF RejectOptions, SplitFails, AddingFails, Return, history
  <2>2. Promise!Fail
    BY <2>1 DEF Promise!Fail, input
  <2> QED
    BY <2>2 DEF Promise!Next
<1>4. CASE NoTokens \/ Finish
  <2>1. /\ UNCHANGED input /\ visited' = visited /\ matched' = matched
        /\ pc # "done" /\ pc' = "done"
    BY <1>4 DEF NoTokens, Finish, Return, history
  <2>2. rc' = Cardinality(visited)
    <3>1. CASE NoTokens
      BY <3>1, FS_EmptySet DEF NoTokens, Return, NgramInv, HandedOver
    <3>2. CASE Finish
      BY <3>2 DEF Finish, Return, NgramInv, Counted
    <3> QED
      BY <1>4, <3>1, <3>2
  <2>3. Promise!Cardinality(visited) = Cardinality(visited)
    BY DEF Promise!Cardinality, Cardinality
  <2>4. Promise!pending = {}
    BY <1>4, NothingLeft, PromisePending
  <2>5. Promise!Finish
    BY <2>1, <2>2, <2>3, <2>4 DEF Promise!Finish, input
  <2> QED
    BY <2>5 DEF Promise!Next
<1>5. CASE VisitAbort
  <2>1. /\ UNCHANGED input /\ visited' = visited \cup {current} /\ matched' = matched
        /\ pc = "visit" /\ pc' = "done" /\ rc' = -1
    BY <1>5 DEF VisitAbort, Return
  <2>2. Promise!Fail
    BY <2>1, CurrentIsFirst, PromisePending DEF Promise!Fail, input
  <2> QED
    BY <2>2 DEF Promise!Next
<1>6. CASE VisitKeepOpen \/ VisitClose
  <2>1. /\ UNCHANGED input /\ visited' = visited \cup {current} /\ rc' = rc
        /\ matched' \in {matched, matched \cup {current}}
        /\ pc = "visit" /\ pc' \in {"scan", "add"}
    BY <1>6 DEF VisitKeepOpen, VisitClose, Accept, Advance, Goto, input
  <2>2. Promise!Visit
    BY <2>1, CurrentIsFirst, PromisePending DEF Promise!Visit, input
  <2> QED
    BY <2>2 DEF Promise!Next
<1>7. CASE StartScan \/ Narrow \/ EnterWindow \/ Probing \/ Skip \/ Emit \/ Adding
  <2>1. /\ UNCHANGED input /\ visited' = visited /\ matched' = matched /\ rc' = rc
        /\ pc # "done" /\ pc' # "done"
    BY <1>7 DEF StartScan, Narrow, EnterWindow, Probing, Skip, Emit, Adding,
                Advance, Goto, input, history
  <2> QED
    BY <1>1, <2>1
<1> QED
  BY <1>2, <1>3, <1>4, <1>5, <1>6, <1>7 DEF Next

(* The loops and the binary searches over the closed-span array hand the   *)
(* visitor exactly the windows that module Traversal promises, longest     *)
(* first and from left to right, none inside an island, and the call       *)
(* returns their number: for every input length and all options.           *)
THEOREM TraversalKept == Spec => ImplementsTraversal
<1>1. Spec => Promise!Spec
  BY TraversalStarts, TraversalSteps, NgramSpecInv, PTL DEF Spec, Promise!Spec
<1> QED
  BY <1>1 DEF ImplementsTraversal

=============================================================================
