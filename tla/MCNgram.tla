------------------------------ MODULE MCNgram ------------------------------
(* Ngram over every input of up to MaxCount tokens. *)
EXTENDS Ngram

CONSTANT MaxCount

MCCounts  == 0..MaxCount
MCOptions == -1..(MaxCount + 1)
MCSpans   ==
  {s \in [start : 0..(MaxCount - 1), end : 0..(MaxCount - 1)] :
     s.start <= s.end}

=============================================================================
