---------------------------- MODULE MCHnswIndex ----------------------------
(* Two threads; three items, of which the third needs a larger array. *)
EXTENDS HnswIndex

=============================================================================
