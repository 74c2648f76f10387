---------------------------- MODULE MCHnswGraph ----------------------------
(* Up to four items on a line, on two layers.  For these vectors the inner *)
(* product is the cosine.                                                  *)
EXTENDS HnswGraph

MCValues == -1..1

=============================================================================
