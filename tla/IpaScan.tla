------------------------------ MODULE IpaScan ------------------------------
(***************************************************************************)
(* What one kc_ipa_parse does between taking and releasing schema->lock    *)
(* (src/libipa.c): the scan of the input for islands, the visitor          *)
(* kc_ipa_ngram_visit, the nested scan of a matched span for the children  *)
(* of its node, the match arrays and the memory they own, and              *)
(* kc_ipa_result_free.                                                     *)
(*                                                                         *)
(* That the windows come in the order of module Traversal is taken for     *)
(* granted here: module Ngram shows that kc_ngram_execute keeps to it.     *)
(* What the embedding and the nearest-neighbour search answer for a window *)
(* is any node with any score; every allocation may fail.  A match is      *)
(* known by the windows of its span: <<w>>, or <<w, v>> for a child found  *)
(* in v inside w.                                                          *)
(***************************************************************************)
EXTENDS Windows

CONSTANTS
  Counts,                 \* the token counts the input may have
  MinNgram, MaxNgram,     \* schema->min_ngram and max_ngram
  Nodes, Children,        \* node ids, child ids
  ChildOf,                \* child_meta: pairs of a child and its parent
  Scores, Threshold       \* similarity scores, schema->node_threshold

ASSUME CountsAssumption == Counts \subseteq Nat
(* kc_ipa_validate_manifest lets no other bounds into a file. *)
ASSUME NgramAssumption  ==
  MinNgram \in Nat \ {0} /\ MaxNgram \in Nat /\ MinNgram <= MaxNgram
ASSUME SchemaAssumption == ChildOf \subseteq Children \X Nodes
ASSUME ScoresAssumption == Scores \subseteq Int /\ Threshold \in Int

VARIABLES
  count,       \* tokens of the input
  pc,          \* where the call is
  visited,     \* windows the visitor has answered for
  islands,     \* those it answered 1 for
  matches,     \* ctx.matches of the input's scan, then out->matches
  m,           \* the match being built by the visitor
  cvisited,    \* as visited, for the scan of m's span
  cislands,    \* as islands, for the scan of m's span
  children,    \* ctx.matches of the scan of m's span
  rc,          \* what kc_ipa_parse returns
  failed,      \* kc_ngram_execute on the input has answered -1
  alloc,       \* the matches whose id and span are allocated
  strings,     \* the matches whose emit strings are allocated
  \* history
  hits,        \* the children accepted in m's span
  lost         \* the windows dropped with some of their emits copied

child == <<cvisited, cislands, children, hits>>
vars  == <<count, pc, visited, islands, matches, m, child, rc, failed, alloc,
           strings, lost>>

Match(w, id, score) == [span |-> w, id |-> id, score |-> score]

(* The visitor is not building a match. *)
NoMatch == Match(Span(0, 0), "none", 0)

(* A finished match, with its children. *)
Finished(top, sub) ==
  [span |-> top.span, id |-> top.id, score |-> top.score, children |-> sub]

pending  == Pending(count, MinNgram, MaxNgram, visited, islands)
(* kc_ipa_scan_children scans the span for windows of 1 to chunk->size. *)
cpending == Pending(Size(m.span), 1, Size(m.span), cvisited, cislands)

window  == First(pending)
cwindow == First(cpending)

Key(top)         == <<top.span>>
ChildKey(top, c) == <<top.span, c.span>>
ChildKeys(top, sub) == {ChildKey(top, sub[k]) : k \in 1..Len(sub)}
MatchKeys(f)     == {Key(f)} \cup ChildKeys(f, f.children)
Building         == pc \in {"child", "push"}

TypeOK ==
  /\ count \in Counts
  /\ pc \in {"scan", "child", "push", "returned", "freed"}
  /\ islands \subseteq visited /\ cislands \subseteq cvisited
  /\ visited \subseteq WindowsOf(count, MinNgram, MaxNgram)
  /\ \A i \in 1..Len(matches) : matches[i].id \in Nodes
  /\ Building => m.id \in Nodes /\ m.span \in pending
  /\ \A k \in 1..Len(children) : children[k].id \in Children
  /\ rc \in {"ok", "error"} /\ failed \in BOOLEAN

Init ==
  /\ count \in Counts /\ pc = "scan"
  /\ visited = {} /\ islands = {} /\ matches = <<>> /\ m = NoMatch
  /\ cvisited = {} /\ cislands = {} /\ children = <<>> /\ hits = {}
  /\ rc = "error" /\ failed = FALSE /\ alloc = {} /\ strings = {} /\ lost = {}

(* The visitor is done with m. *)
Forget ==
  /\ m' = NoMatch
  /\ cvisited' = {} /\ cislands' = {} /\ children' = <<>> /\ hits' = {}

(***************************************************************************)
(* kc_ipa_ngram_visit on a window of the input.                            *)
(***************************************************************************)
(* No embedding, no neighbour, a score below the threshold, or no memory   *)
(* for the span or the id.                                                 *)
Miss ==
  /\ pc = "scan" /\ pending # {}
  /\ visited' = visited \cup {window}
  /\ UNCHANGED <<count, pc, islands, matches, m, child, rc, failed, alloc,
                 strings, lost>>

(* kc_ipa_build_match_emits fails part of the way: the match is freed, but *)
(* with an emit_count of 0, so strings already copied stay allocated.      *)
EmitsFail ==
  /\ pc = "scan" /\ pending # {}
  /\ visited' = visited \cup {window}
  /\ \/ strings' = strings \cup {<<window>>} /\ lost' = lost \cup {window}
     \/ UNCHANGED <<strings, lost>>
  /\ UNCHANGED <<count, pc, islands, matches, m, child, rc, failed, alloc>>

(* has_children of the node.  When no child of the schema has a            *)
(* description there is no child_hnsw and line 1818 skips the scan; its    *)
(* outcome is that of a scan all of whose windows are missed.              *)
HasChildren(id) == \E c \in Children : <<c, id>> \in ChildOf

(* The match is built; the window is settled when the visitor returns. *)
Hit(id, score) ==
  /\ pc = "scan" /\ pending # {} /\ score >= Threshold
  /\ m' = Match(window, id, score)
  /\ alloc' = alloc \cup {<<window>>} /\ strings' = strings \cup {<<window>>}
  /\ pc' = IF HasChildren(id) THEN "child" ELSE "push"
  /\ UNCHANGED <<count, visited, islands, matches, child, rc, failed, lost>>

(***************************************************************************)
(* kc_ipa_ngram_visit on a window of the span of m.                        *)
(***************************************************************************)
(* As Miss; also when the nearest child belongs to other nodes only. *)
ChildMiss ==
  /\ pc = "child" /\ cpending # {}
  /\ cvisited' = cvisited \cup {cwindow}
  /\ UNCHANGED <<count, pc, visited, islands, matches, m, cislands,
                 children, rc, failed, alloc, strings, hits, lost>>

MutKeepChild(c) ==
  LET twin == {k \in 1..Len(children) : children[k].id = c.id} IN
  IF twin = {}
    THEN /\ children' = Append(children, c)
         /\ alloc' = alloc \cup {ChildKey(m, c)}
    ELSE \E k \in twin :
           /\ children' = [children EXCEPT ![k] = c]
           /\ alloc' = (alloc \ {ChildKey(m, children[k])})
                         \cup {ChildKey(m, c)}

MutKeepChildLeak(c) ==
  LET twin == {k \in 1..Len(children) : children[k].id = c.id} IN
  IF twin = {}
    THEN /\ children' = Append(children, c)
         /\ alloc' = alloc \cup {ChildKey(m, c)}
    ELSE \E k \in twin :
           IF c.score > children[k].score
             THEN /\ children' = [children EXCEPT ![k] = c]
                  /\ alloc' = alloc \cup {ChildKey(m, c)}
             ELSE UNCHANGED <<children, alloc>>

(* Of two windows for the same child the better one is kept, the first one *)
(* if they are equal; the other one is freed.                              *)
KeepChild(c) ==
  LET twin == {k \in 1..Len(children) : children[k].id = c.id} IN
  IF twin = {}
    THEN /\ children' = Append(children, c)
         /\ alloc' = alloc \cup {ChildKey(m, c)}
    ELSE \E k \in twin :
           IF c.score > children[k].score
             THEN /\ children' = [children EXCEPT ![k] = c]
                  /\ alloc' = (alloc \ {ChildKey(m, children[k])})
                                \cup {ChildKey(m, c)}
             ELSE UNCHANGED <<children, alloc>>

ChildHit(id, score) ==
  /\ pc = "child" /\ cpending # {}
  /\ score >= Threshold /\ <<id, m.id>> \in ChildOf
  /\ KeepChild(Match(cwindow, id, score))
  /\ hits' = hits \cup {Match(cwindow, id, score)}
  /\ cvisited' = cvisited \cup {cwindow} /\ cislands' = cislands \cup {cwindow}
  /\ UNCHANGED <<count, pc, visited, islands, matches, m, rc, failed,
                 strings, lost>>

(* kc_ipa_scan_children ends by copying the emits of the children it has;  *)
(* it ignores what kc_ngram_execute answered.                              *)
ChildReturn ==
  /\ pc = "child" /\ pc' = "push"
  /\ \E some \in SUBSET ChildKeys(m, children) : strings' = strings \cup some
  /\ UNCHANGED <<count, visited, islands, matches, m, cvisited, cislands,
                 children, rc, failed, alloc, hits, lost>>

ChildDone == cpending = {} /\ ChildReturn

(* No memory: for a match, which is freed, or in kc_ngram_execute. *)
ChildFails == cpending # {} /\ ChildReturn

(***************************************************************************)
(* The end of kc_ipa_ngram_visit on a window of the input, and the end of  *)
(* kc_ipa_parse.                                                           *)
(***************************************************************************)
(* The matches found so far are the result; what kc_ngram_execute answered *)
(* is not looked at.                                                       *)
Returns == pc' = "returned" /\ rc' = "ok"

Push ==
  /\ pc = "push" /\ pc' = "scan"
  /\ matches' = Append(matches, Finished(m, children))
  /\ visited' = visited \cup {m.span} /\ islands' = islands \cup {m.span}
  /\ Forget
  /\ UNCHANGED <<count, rc, failed, alloc, strings, lost>>

MutPushFails ==
  /\ pc = "push" /\ failed' = TRUE /\ Returns
  /\ visited' = visited \cup {m.span}
  /\ alloc' = alloc \ MatchKeys(Finished(m, children))
  /\ strings' = strings \ {Key(m)}
  /\ Forget
  /\ UNCHANGED <<count, islands, matches, lost>>

(* The array cannot grow: m and its children are freed, the scan gives up. *)
PushFails ==
  /\ pc = "push" /\ failed' = TRUE /\ Returns
  /\ visited' = visited \cup {m.span}
  /\ alloc' = alloc \ MatchKeys(Finished(m, children))
  /\ strings' = strings \ MatchKeys(Finished(m, children))
  /\ Forget
  /\ UNCHANGED <<count, islands, matches, lost>>

ScanDone ==
  /\ pc = "scan" /\ pending = {} /\ Returns
  /\ UNCHANGED <<count, visited, islands, matches, m, child, failed, alloc,
                 strings, lost>>

(* kc_ngram_execute has no memory for its tokens, before the first visit,  *)
(* or none to close the span of the window it has just visited.            *)
ScanFails ==
  /\ pc = "scan" /\ failed' = TRUE /\ Returns
  /\ \/ visited = {} /\ count > 0
     \/ \E w \in islands : \A v \in visited \ {w} : Before(v, w)
  /\ UNCHANGED <<count, visited, islands, matches, m, child, alloc, strings,
                 lost>>

(* kc_ipa_result_free. *)
Reachable == UNION {MatchKeys(matches[i]) : i \in 1..Len(matches)}

ResultFree ==
  /\ pc = "returned" /\ pc' = "freed"
  /\ matches' = <<>>
  /\ alloc' = alloc \ Reachable /\ strings' = strings \ Reachable
  /\ UNCHANGED <<count, visited, islands, m, child, rc, failed, lost>>

Next ==
  \/ Miss \/ EmitsFail \/ \E id \in Nodes, s \in Scores : Hit(id, s)
  \/ ChildMiss \/ \E id \in Children, s \in Scores : ChildHit(id, s)
  \/ ChildDone \/ ChildFails
  \/ Push \/ PushFails \/ ScanDone \/ ScanFails \/ ResultFree

Spec == Init /\ [][Next]_vars

(***************************************************************************)
(* Properties.                                                             *)
(***************************************************************************)

(* The matches that a match array, or the visitor building one, owns. *)
Owners ==
  Reachable \cup (IF Building THEN MatchKeys(Finished(m, children)) ELSE {})

(* Memory: the matches that are allocated are exactly the ones that have   *)
(* an owner; nothing is leaked, and nothing owned was freed, when children *)
(* replace each other.                                                     *)
Owned == alloc = Owners

(* The children kept are, for each child accepted in the span, its best    *)
(* window, and each child is kept once.                                    *)
BestChild ==
  /\ \A i, k \in 1..Len(children) :
       children[i].id = children[k].id => i = k
  /\ \A h \in hits :
       \E k \in 1..Len(children) :
         /\ children[k].id = h.id /\ children[k].score >= h.score
         /\ children[k] \in hits

(* The result lists the islands longest first and from left to right, and  *)
(* no island of it lies in another one.                                    *)
ResultOrdered ==
  \A i, k \in 1..Len(matches) : i < k =>
    /\ Before(matches[i].span, matches[k].span)
    /\ ~Within(matches[k].span, matches[i].span)

(* Emit strings: each belongs to a match that has an owner, whose          *)
(* kc_ipa_free_match will free it, or to a window of the input that was    *)
(* dropped because copying its emits failed.  That failure is the only     *)
(* leak: the traversal giving up, an array that cannot grow and a child    *)
(* scan cut short lose nothing, and no string of a child is ever lost.     *)
LeaksOnlyFailedEmits ==
  strings \subseteq Owners \cup {<<w>> : w \in lost}

(* What ipa.h says kc_ipa_parse returns: KC_IPA_ERROR when the scan of the *)
(* input was given up.  The code violates it: a result that lacks matches  *)
(* is returned with KC_IPA_OK.                                             *)
FailureReported == pc = "returned" /\ failed => rc = "error"

=============================================================================
