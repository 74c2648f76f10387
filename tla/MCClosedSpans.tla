--------------------------- MODULE MCClosedSpans ---------------------------
(* ClosedSpans over every span of MaxTokens tokens. *)
EXTENDS ClosedSpans

CONSTANT MaxTokens

MCSpans ==
  {s \in [start : 0..(MaxTokens - 1), end : 0..(MaxTokens - 1)] :
     s.start <= s.end}

=============================================================================
