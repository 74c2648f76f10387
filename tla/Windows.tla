------------------------------ MODULE Windows ------------------------------
(***************************************************************************)
(* The windows of a token sequence and the order in which                  *)
(* kc_ngram_execute (lib/libngram.c) visits them.                          *)
(***************************************************************************)
EXTENDS SpanArray, FiniteSets

(* The number of tokens of window w. *)
Size(w) == w.end - w.start + 1

(* The windows of n tokens whose size the options admit; a maximum of 0   *)
(* sets no limit, and a minimum below 1 admits nothing.                    *)
WindowsOf(n, min, max) ==
  {w \in [start : 0..(n - 1), end : 0..(n - 1)] :
     /\ w.start <= w.end
     /\ min >= 1 /\ min <= Size(w)
     /\ max = 0 \/ Size(w) <= max}

(* Window a is visited before window b: longer windows first. *)
Before(a, b) ==
  \/ Size(a) > Size(b)
  \/ Size(a) = Size(b) /\ a.start < b.start

MutFirst(ws) == CHOOSE w \in ws : \A v \in ws : v = w \/ Before(v, w)

First(ws) == CHOOSE w \in ws : \A v \in ws : v = w \/ Before(w, v)

(* The windows still to be visited. *)
Pending(n, min, max, visited, islands) ==
  {w \in WindowsOf(n, min, max) :
     w \notin visited /\ \A i \in islands : ~Within(w, i)}

=============================================================================
