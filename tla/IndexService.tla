---------------------------- MODULE IndexService ----------------------------
(***************************************************************************)
(* What the vector index of lib/libhnsw.c promises to concurrent callers:  *)
(* a set of items that grows one at a time, and searches that see all of   *)
(* them at one moment between the call and the return, or are refused      *)
(* because items were added since the last build.                          *)
(***************************************************************************)
CONSTANTS Threads, Items, Refused, NoMemory

VARIABLES
  stored,      \* the items
  ready,       \* whether they have been built into a graph
  searching,   \* the threads whose search has no answer yet
  answer       \* the last answer of each thread

vars == <<stored, ready, searching, answer>>

Init ==
  /\ stored = {} /\ ready = FALSE
  /\ searching = {} /\ answer = [t \in Threads |-> {}]

Add(i) ==
  /\ i \notin stored /\ stored' = stored \cup {i} /\ ready' = FALSE
  /\ UNCHANGED <<searching, answer>>

Build ==
  /\ stored # {} /\ ready' = TRUE
  /\ UNCHANGED <<stored, searching, answer>>

Ask(t) ==
  /\ t \notin searching /\ searching' = searching \cup {t}
  /\ UNCHANGED <<stored, ready, answer>>

Answer(t) ==
  /\ t \in searching /\ searching' = searching \ {t}
  /\ \/ answer' = [answer EXCEPT ![t] = IF stored = {} \/ ready THEN stored
                                        ELSE Refused]
     \/ stored # {} /\ ready /\ answer' = [answer EXCEPT ![t] = NoMemory]
  /\ UNCHANGED <<stored, ready>>

(* Nobody holds the index any more, so nobody can tell it is gone. *)
Close ==
  /\ searching = {} /\ stored' = {} /\ ready' = FALSE
  /\ UNCHANGED <<searching, answer>>

Next ==
  \/ Build \/ Close
  \/ \E i \in Items : Add(i)
  \/ \E t \in Threads : Ask(t) \/ Answer(t)

Spec == Init /\ [][Next]_vars

=============================================================================
