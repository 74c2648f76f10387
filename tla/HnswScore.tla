----------------------------- MODULE HnswScore -----------------------------
(***************************************************************************)
(* The scores of lib/libhnsw.c: kc_hnsw_dist for vectors of one dimension, *)
(* score_better and score_worse.                                           *)
(***************************************************************************)
EXTENDS Integers

Metrics == {"l2", "inner", "cosine"}

Sign(x) == IF x > 0 THEN 1 ELSE IF x < 0 THEN -1 ELSE 0

(* The norm of a vector of one component is its absolute value, so that    *)
(* the cosine of two of them is the sign of their product.                 *)
Dist(metric, a, b) ==
  CASE metric = "inner"  -> a * b
    [] metric = "cosine" -> Sign(a * b)
    [] metric = "l2"     -> a * a + b * b - 2 * (a * b)

Better(metric, s, t) == IF metric = "l2" THEN s < t ELSE s > t
Worse(metric, s, t)  == IF metric = "l2" THEN s > t ELSE s < t

=============================================================================
