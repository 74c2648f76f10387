----------------------------- MODULE MCIpaParse -----------------------------
(* IpaParse with model values for the threads. *)
EXTENDS IpaParse

=============================================================================
