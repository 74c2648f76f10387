---------------------------- MODULE MCIpaSignals ----------------------------
(* Three signals, so that a removal moves two entries one after the other  *)
(* and the array grows from one entry to two and to four.                  *)
EXTENDS IpaSignals, TLC

Symmetry == Permutations(Signals) \cup Permutations(Callbacks)

=============================================================================
