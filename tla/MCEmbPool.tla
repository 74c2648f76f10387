----------------------------- MODULE MCEmbPool -----------------------------
(* EmbPool with model values for the threads, which the configurations     *)
(* name.                                                                   *)
EXTENDS EmbPool

=============================================================================
