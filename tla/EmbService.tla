----------------------------- MODULE EmbService -----------------------------
(***************************************************************************)
(* What emb.h promises of kc_emb_exec to the parser: one call at a time is *)
(* served; its buffer is filled, then it is told the status of its own     *)
(* request, then it returns.                                               *)
(***************************************************************************)
CONSTANTS Callers, NoThread

VARIABLES
  active,   \* the caller being served
  phase,    \* how far its call is
  status    \* the request each caller was last told the status of

serviceVars == <<active, phase, status>>

Init ==
  /\ active = NoThread /\ phase = "free"
  /\ status = [p \in Callers |-> NoThread]

Ask(p) ==
  /\ active = NoThread
  /\ active' = p /\ phase' = "asked" /\ UNCHANGED status

Fill == phase = "asked" /\ phase' = "filled" /\ UNCHANGED <<active, status>>

Tell ==
  /\ phase = "filled" /\ phase' = "told"
  /\ status' = [status EXCEPT ![active] = active] /\ UNCHANGED active

Return ==
  /\ phase = "told"
  /\ active' = NoThread /\ phase' = "free" /\ UNCHANGED status

Serve == Fill \/ Tell \/ Return

Next == (\E p \in Callers : Ask(p)) \/ Serve

Spec == Init /\ [][Next]_serviceVars

(* A call that has been made is served to its end. *)
FairSpec == Spec /\ WF_serviceVars(Serve)

=============================================================================
