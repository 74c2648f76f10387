----------------------------- MODULE Traversal -----------------------------
(***************************************************************************)
(* What kc_ngram_execute (lib/libngram.c) promises its visitor, without    *)
(* the loops, the closed-span array and the binary searches: the windows   *)
(* of the admitted sizes are handed over longest first, and from left to   *)
(* right within a size; a window inside a window the visitor has closed    *)
(* (an island) is never handed over.                                       *)
(*                                                                         *)
(* Module Ngram implements this specification, and the scans of module     *)
(* IpaScan take their windows from it.                                     *)
(***************************************************************************)
EXTENDS Windows

VARIABLES
  count, minTokens, maxTokens,   \* the input's length and the options
  visited,                       \* the windows handed to the visitor
  islands,                       \* those the visitor closed
  running,                       \* the call has not returned yet
  rc                             \* its return value

vars == <<count, minTokens, maxTokens, visited, islands, running, rc>>

pending == Pending(count, minTokens, maxTokens, visited, islands)

Init ==
  /\ count \in Nat /\ minTokens \in Int /\ maxTokens \in Int
  /\ visited = {} /\ islands = {} /\ running = TRUE /\ rc = 0

(* The visitor leaves the next window open or closes it. *)
Visit ==
  /\ running /\ pending # {}
  /\ visited' = visited \cup {First(pending)}
  /\ islands' \in {islands, islands \cup {First(pending)}}
  /\ UNCHANGED <<count, minTokens, maxTokens, running, rc>>

(* Nothing is left: the number of windows handed over is returned. *)
Finish ==
  /\ running /\ pending = {}
  /\ running' = FALSE /\ rc' = Cardinality(visited)
  /\ UNCHANGED <<count, minTokens, maxTokens, visited, islands>>

(* Bad options, no memory, or a visitor that gives up on a window. *)
Fail ==
  /\ running /\ running' = FALSE /\ rc' = -1
  /\ \/ UNCHANGED visited
     \/ pending # {} /\ visited' = visited \cup {First(pending)}
  /\ UNCHANGED <<count, minTokens, maxTokens, islands>>

Next == Visit \/ Finish \/ Fail

Spec == Init /\ [][Next]_vars

=============================================================================
