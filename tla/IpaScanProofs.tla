--------------------------- MODULE IpaScanProofs ---------------------------
(***************************************************************************)
(* Proofs about the island scan, for inputs of any length, any schema and  *)
(* any scores.                                                             *)
(***************************************************************************)
EXTENDS IpaScan, SequenceTheorems, WellFoundedInduction, TLAPS

(***************************************************************************)
(* The inductive invariant.                                                *)
(***************************************************************************)
Win  == {w \in [start : Nat, end : Nat] : w.start <= w.end}
Top  == [span : Win, id : Nodes, score : Scores]
Kid  == [span : Win, id : Children, score : Scores]
Done == [span : Win, id : Nodes, score : Scores, children : Seq(Kid)]

Shape ==
  /\ count \in Counts
  /\ pc \in {"scan", "child", "push", "returned", "freed"}
  /\ visited \subseteq WindowsOf(count, MinNgram, MaxNgram)
  /\ islands \subseteq visited /\ cislands \subseteq cvisited
  /\ matches \in Seq(Done) /\ children \in Seq(Kid) /\ hits \subseteq Kid
  /\ Building => m \in Top
  /\ rc \in {"ok", "error"} /\ failed \in BOOLEAN

(* The window being built is the next one, and only then there are         *)
(* children.                                                               *)
Visitor ==
  /\ Building => pending # {} /\ m.span = window
  /\ ~Building => children = <<>> /\ hits = {} /\ cvisited = {} /\ cislands = {}

(* The windows left come after the ones visited. *)
Swept == \A v \in visited, w \in pending : Before(v, w)

Spans == \A i \in 1..Len(matches) : matches[i].span \in islands

(* The children kept were accepted, each in a window of its own. *)
Kids ==
  /\ \A k \in 1..Len(children) :
       children[k].span \in cislands /\ children[k] \in hits
  /\ \A j, k \in 1..Len(children) :
       children[j].span = children[k].span => j = k

(* While children are looked for, none of them has emits. *)
Strings ==
  pc = "child" =>
    strings \subseteq Reachable \cup {Key(m)} \cup {<<w>> : w \in lost}

ScanInv ==
  /\ Shape /\ Visitor /\ Swept /\ Spans /\ Kids /\ Strings
  /\ Owned /\ BestChild /\ ResultOrdered /\ LeaksOnlyFailedEmits

(***************************************************************************)
(* The order of the windows.                                               *)
(***************************************************************************)
LEMMA LeastNatural ==
  ASSUME NEW T, T \subseteq Nat, T # {}
  PROVE  \E x \in T : \A y \in T : x <= y
<1> DEFINE R == {ss \in Nat \X Nat : ss[1] < ss[2]}
<1>0. IsWellFoundedOn(R, Nat)
  BY NatLessThanWellFounded, Zenon DEF OpToRel
<1> HIDE DEF R
<1>1. PICK x \in T : \A y \in T : ~(<<y, x>> \in R)
  BY <1>0, WFMin
<1>2. \A y \in T : ~(y < x)
  BY <1>1 DEF R
<1> QED
  BY <1>1, <1>2

LEMMA WindowBounds ==
  ASSUME NEW n \in Nat, NEW min \in Int, NEW max \in Int,
         NEW w \in WindowsOf(n, min, max)
  PROVE  /\ w \in Win /\ w.start \in 0..(n - 1) /\ w.end \in 0..(n - 1)
         /\ Size(w) \in 1..n
         /\ w = [start |-> w.start, end |-> w.end]
BY DEF WindowsOf, Win, Size

(* There is a first window of any set of windows. *)
LEMMA FirstWindow ==
  ASSUME NEW n \in Nat, NEW min \in Int, NEW max \in Int,
         NEW ws, ws \subseteq WindowsOf(n, min, max), ws # {}
  PROVE  First(ws) \in ws /\ \A v \in ws : v = First(ws) \/ Before(First(ws), v)
<1> DEFINE short == {n - Size(w) : w \in ws}
<1>1. \A w \in ws : /\ Size(w) \in 1..n /\ w.start \in Nat /\ w.end \in Nat
                    /\ Size(w) = w.end - w.start + 1
                    /\ w = [start |-> w.start, end |-> w.end]
  BY WindowBounds DEF Size
<1>2. short \subseteq Nat /\ short # {}
  BY <1>1
<1>3. PICK s \in short : \A y \in short : s <= y
  BY <1>2, LeastNatural
<1>4. PICK u \in ws : s = n - Size(u)
  BY <1>3
<1>5. ASSUME NEW w \in ws PROVE Size(w) <= Size(u)
  <2>1. s <= n - Size(w)
    BY <1>3
  <2>2. Size(w) \in Nat /\ Size(u) \in Nat
    BY <1>1
  <2> QED
    BY <1>4, <2>1, <2>2
<1> DEFINE longest == {w \in ws : Size(w) = Size(u)}
           starts  == {w.start : w \in longest}
<1>6. starts \subseteq Nat /\ starts # {}
  BY <1>1, <1>4
<1>7. PICK t \in starts : \A y \in starts : t <= y
  BY <1>6, LeastNatural
<1>8. PICK f \in ws : Size(f) = Size(u) /\ f.start = t
  BY <1>7
<1>9. ASSUME NEW v \in ws PROVE v = f \/ Before(f, v)
  <2>1. CASE Size(v) # Size(u)
    BY <1>1, <1>5, <1>8, <2>1 DEF Before
  <2>2. CASE Size(v) = Size(u)
    <3>1. t <= v.start
      BY <1>7, <2>2
    <3>2. CASE v.start = f.start
      BY <1>1, <1>8, <2>2, <3>2
    <3>3. CASE v.start # f.start
      BY <1>1, <1>8, <2>2, <3>1, <3>3 DEF Before
    <3> QED
      BY <3>2, <3>3
  <2> QED
    BY <2>1, <2>2
<1> HIDE DEF short, longest, starts
<1> QED
  BY <1>8, <1>9 DEF First

(***************************************************************************)
(* The keys of the matches in an array.                                    *)
(***************************************************************************)
KeysOf(ms) == UNION {MatchKeys(ms[i]) : i \in 1..Len(ms)}

LEMMA KeyHeads ==
  ASSUME NEW f
  PROVE  \A q \in MatchKeys(f) : q[1] = f.span
BY DEF MatchKeys, Key, ChildKeys, ChildKey

LEMMA KeysOfAppend ==
  ASSUME NEW ms \in Seq(Done), NEW f \in Done
  PROVE  KeysOf(Append(ms, f)) = KeysOf(ms) \cup MatchKeys(f)
<1>1. /\ Len(ms) \in Nat /\ Len(Append(ms, f)) = Len(ms) + 1
      /\ Append(ms, f)[Len(ms) + 1] = f
      /\ \A i \in 1..Len(ms) : Append(ms, f)[i] = ms[i]
  BY AppendProperties
<1>2. 1..(Len(ms) + 1) = 1..Len(ms) \cup {Len(ms) + 1}
  BY <1>1
<1> QED
  BY <1>1, <1>2 DEF KeysOf

LEMMA ChildKeysAppend ==
  ASSUME NEW top, NEW sub \in Seq(Kid), NEW c \in Kid
  PROVE  ChildKeys(top, Append(sub, c))
           = ChildKeys(top, sub) \cup {ChildKey(top, c)}
<1>1. /\ Len(sub) \in Nat /\ Len(Append(sub, c)) = Len(sub) + 1
      /\ Append(sub, c)[Len(sub) + 1] = c
      /\ \A i \in 1..Len(sub) : Append(sub, c)[i] = sub[i]
  BY AppendProperties
<1>2. 1..(Len(sub) + 1) = 1..Len(sub) \cup {Len(sub) + 1}
  BY <1>1
<1> QED
  BY <1>1, <1>2 DEF ChildKeys

(* What the visitor builds is owned by nobody else. *)
LEMMA ReachableHeads ==
  ASSUME ScanInv
  PROVE  \A q \in Reachable : q[1] \in islands
<1>1. Spans
  BY DEF ScanInv
<1> QED
  BY <1>1, KeyHeads DEF Reachable, Spans

LEMMA CountIsNat == ASSUME ScanInv PROVE count \in Nat
BY CountsAssumption DEF ScanInv, Shape

LEMMA NextWindow ==
  ASSUME ScanInv, pending # {}
  PROVE  /\ window \in pending
         /\ \A v \in pending : v = window \/ Before(window, v)
         /\ window \in WindowsOf(count, MinNgram, MaxNgram) /\ window \in Win
         /\ window \notin visited /\ window \notin islands
         /\ \A i \in islands : ~Within(window, i)
<1>1. count \in Nat /\ MinNgram \in Int /\ MaxNgram \in Int
  BY CountIsNat, NgramAssumption
<1>2. pending \subseteq WindowsOf(count, MinNgram, MaxNgram)
  BY DEF pending, Pending
<1>3. /\ window \in pending
      /\ \A v \in pending : v = window \/ Before(window, v)
  BY <1>1, <1>2, FirstWindow DEF window
<1>4. window \in Win
  BY <1>1, <1>2, <1>3, WindowBounds
<1> QED
  BY <1>2, <1>3, <1>4 DEF pending, Pending, ScanInv, Shape

LEMMA BuildsNew ==
  ASSUME ScanInv, Building
  PROVE  /\ m.span = window /\ pending # {} /\ m \in Top
         /\ MatchKeys(Finished(m, children)) = {Key(m)} \cup ChildKeys(m, children)
         /\ \A q \in Reachable : q[1] # m.span
         /\ \A q \in {Key(m)} \cup ChildKeys(m, children) :
              q[1] = m.span /\ q \notin Reachable
<1>1. m.span = window /\ pending # {} /\ m \in Top
  BY DEF ScanInv, Visitor, Shape
<1>2. MatchKeys(Finished(m, children)) = {Key(m)} \cup ChildKeys(m, children)
  BY DEF MatchKeys, Finished, Key, ChildKeys, ChildKey
<1>3. \A q \in {Key(m)} \cup ChildKeys(m, children) : q[1] = m.span
  BY DEF Key, ChildKeys, ChildKey
<1>4. \A q \in Reachable : q[1] # m.span
  BY <1>1, ReachableHeads, NextWindow
<1> QED
  BY <1>1, <1>2, <1>3, <1>4

-----------------------------------------------------------------------------
(* The next window is settled, as an island or not. *)
LEMMA SweptKept ==
  ASSUME ScanInv, pending # {}, count' = count,
         visited' = visited \cup {window}, islands \subseteq islands'
  PROVE  Swept' /\ visited' \subseteq WindowsOf(count', MinNgram, MaxNgram)
<1>1. pending' \subseteq pending /\ window \notin pending'
  BY DEF pending, Pending
<1>2. \A v \in pending' : Before(window, v)
  BY <1>1, NextWindow
<1>3. \A v \in visited, w \in pending' : Before(v, w)
  BY <1>1 DEF ScanInv, Swept
<1>4. Swept'
  BY <1>2, <1>3 DEF Swept
<1> QED
  BY <1>4, NextWindow DEF ScanInv, Shape

LEMMA MissInv ==
  ASSUME ScanInv, Miss \/ EmitsFail
  PROVE  ScanInv'
<1>1. /\ pc = "scan" /\ pending # {} /\ visited' = visited \cup {window}
      /\ UNCHANGED <<count, pc, islands, matches, m, child, rc, failed, alloc>>
  BY DEF Miss, EmitsFail
<1>2. Swept' /\ visited' \subseteq WindowsOf(count', MinNgram, MaxNgram)
  BY <1>1, SweptKept
<1>3. UNCHANGED <<cvisited, cislands, children, hits>> /\ ~Building /\ ~Building'
  BY <1>1 DEF child, Building
<1>4. failed' \in BOOLEAN
  BY <1>1 DEF ScanInv, Shape
<1>5. Shape' /\ Visitor'
  BY <1>1, <1>2, <1>3, <1>4 DEF ScanInv, Shape, Visitor
<1>6. Spans' /\ Kids' /\ BestChild' /\ ResultOrdered'
  BY <1>1, <1>3 DEF ScanInv, Spans, Kids, BestChild, ResultOrdered
<1>7. Owners' = Owners /\ Owners = Reachable
  BY <1>1, <1>3 DEF Owners, Reachable
<1>8. Owned' /\ Strings'
  BY <1>1, <1>7 DEF ScanInv, Owned, Strings
<1>9. LeaksOnlyFailedEmits'
  <2>1. strings \subseteq Owners \cup {<<w>> : w \in lost}
    BY DEF ScanInv, LeaksOnlyFailedEmits
  <2>2. CASE UNCHANGED <<strings, lost>>
    BY <1>7, <2>1, <2>2 DEF LeaksOnlyFailedEmits
  <2>3. CASE strings' = strings \cup {<<window>>} /\ lost' = lost \cup {window}
    BY <1>7, <2>1, <2>3 DEF LeaksOnlyFailedEmits
  <2> QED
    BY <2>2, <2>3 DEF Miss, EmitsFail
<1> QED
  BY <1>2, <1>5, <1>6, <1>8, <1>9 DEF ScanInv

(* A match is allocated for the next window. *)
LEMMA HitInv ==
  ASSUME ScanInv, NEW id \in Nodes, NEW s \in Scores, Hit(id, s)
  PROVE  ScanInv'
<1>1. /\ pc = "scan" /\ pending # {} /\ m' = Match(window, id, s)
      /\ alloc' = alloc \cup {<<window>>}
      /\ strings' = strings \cup {<<window>>}
      /\ pc' \in {"child", "push"}
      /\ UNCHANGED <<count, visited, islands, matches, rc, failed, lost>>
      /\ UNCHANGED <<cvisited, cislands, children, hits>>
  BY DEF Hit, child
<1>2. /\ Building' /\ ~Building
      /\ children = <<>> /\ hits = {} /\ cvisited = {} /\ cislands = {}
  BY <1>1 DEF Building, ScanInv, Visitor
<1>3. m' \in Top /\ m'.span = window
  BY <1>1, NextWindow DEF Match, Top
<1>4. pending' = pending /\ window' = window
  BY <1>1 DEF pending, window
<1>5. failed' \in BOOLEAN
  BY <1>1 DEF ScanInv, Shape
<1>6. Shape' /\ Visitor'
  BY <1>1, <1>2, <1>3, <1>4, <1>5 DEF ScanInv, Shape, Visitor
<1>7. Swept' /\ Spans' /\ Kids' /\ BestChild' /\ ResultOrdered'
  BY <1>1, <1>4 DEF ScanInv, Swept, Spans, Kids, BestChild, ResultOrdered
<1>8. Owners = Reachable /\ Reachable' = Reachable
  BY <1>1, <1>2 DEF Owners, Reachable
<1>9. Owners' = Reachable \cup {<<window>>}
  <2>1. ChildKeys(Finished(m', children'), children') = {}
    BY <1>1, <1>2, EmptySeq DEF ChildKeys
  <2>2. MatchKeys(Finished(m, children))' = {<<window>>}
    BY <1>3, <2>1 DEF MatchKeys, Finished, Key
  <2> QED
    BY <1>2, <1>8, <2>2 DEF Owners
<1>10. Owned'
  BY <1>1, <1>8, <1>9 DEF ScanInv, Owned
<1>11. strings \subseteq Reachable \cup {<<w>> : w \in lost}
  BY <1>8 DEF ScanInv, LeaksOnlyFailedEmits
<1>12. LeaksOnlyFailedEmits' /\ Strings'
  BY <1>1, <1>3, <1>8, <1>9, <1>11 DEF LeaksOnlyFailedEmits, Strings, Key
<1> QED
  BY <1>6, <1>7, <1>10, <1>12 DEF ScanInv

LEMMA ChildMissInv ==
  ASSUME ScanInv, ChildMiss
  PROVE  ScanInv'
<1>1. /\ pc = "child" /\ cvisited \subseteq cvisited'
      /\ UNCHANGED <<count, pc, visited, islands, matches, m, cislands,
                     children, rc, failed, alloc, strings, hits, lost>>
  BY DEF ChildMiss
<1>2. Building /\ Building'
  BY <1>1 DEF Building
<1>3. pending' = pending /\ window' = window
  BY <1>1 DEF pending, window
<1>4. failed' \in BOOLEAN
  BY <1>1 DEF ScanInv, Shape
<1>5. Shape' /\ Visitor'
  BY <1>1, <1>2, <1>3, <1>4 DEF ScanInv, Shape, Visitor
<1>6. Swept' /\ Spans' /\ Kids' /\ BestChild' /\ ResultOrdered'
  BY <1>1, <1>3 DEF ScanInv, Swept, Spans, Kids, BestChild, ResultOrdered
<1>7. Owners' = Owners /\ Reachable' = Reachable
  BY <1>1, <1>2 DEF Owners, Reachable
<1>8. Owned' /\ Strings' /\ LeaksOnlyFailedEmits'
  BY <1>1, <1>7 DEF ScanInv, Owned, Strings, LeaksOnlyFailedEmits
<1> QED
  BY <1>5, <1>6, <1>8 DEF ScanInv

(* What an accepted child leaves to be shown, whichever window is kept. *)
LEMMA ChildKept ==
  ASSUME ScanInv, pc = "child", NEW c \in Kid, c.span \notin cvisited,
         UNCHANGED <<count, pc, visited, islands, matches, m, rc, failed, strings,
                     lost>>,
         hits' = hits \cup {c}, cvisited' = cvisited \cup {c.span},
         cislands' = cislands \cup {c.span},
         children' \in Seq(Kid), Kids', BestChild',
         alloc' = Reachable \cup {Key(m)} \cup ChildKeys(m, children')
  PROVE  ScanInv'
<1>1. Building /\ Building'
  BY DEF Building
<1>2. pending' = pending /\ window' = window
  BY DEF pending, window
<1>3. failed' \in BOOLEAN
  BY DEF ScanInv, Shape
<1>4. Shape'
  BY <1>1, <1>3 DEF ScanInv, Shape
<1>5. Visitor' /\ Swept' /\ Spans' /\ ResultOrdered'
  BY <1>1, <1>2 DEF ScanInv, Visitor, Swept, Spans, ResultOrdered
<1>6. Reachable' = Reachable
  BY DEF Reachable
<1>7. MatchKeys(Finished(m, children))' = {Key(m)} \cup ChildKeys(m, children')
  BY DEF MatchKeys, Finished, Key, ChildKeys, ChildKey
<1>8. Owners' = Reachable \cup {Key(m)} \cup ChildKeys(m, children')
  BY <1>1, <1>6, <1>7 DEF Owners
<1>9. Owned'
  BY <1>8 DEF Owned
<1>10. Strings' /\ LeaksOnlyFailedEmits'
  BY <1>6, <1>8 DEF ScanInv, Strings, LeaksOnlyFailedEmits, Key
<1> QED
  BY <1>4, <1>5, <1>9, <1>10 DEF ScanInv

LEMMA ChildHitInv ==
  ASSUME ScanInv, NEW id \in Children, NEW s \in Scores, ChildHit(id, s)
  PROVE  ScanInv'
<1>1. /\ pc = "child" /\ cpending # {}
      /\ UNCHANGED <<count, pc, visited, islands, matches, m, rc, failed, strings,
                     lost>>
  BY DEF ChildHit
<1>2. Building /\ m \in Top /\ m.span \in Win
  BY <1>1 DEF ScanInv, Shape, Building, Top
<1>3. Size(m.span) \in Nat
  BY <1>2 DEF Win, Size
<1>4. cwindow \in cpending
  <2>1. cpending \subseteq WindowsOf(Size(m.span), 1, Size(m.span))
    BY DEF cpending, Pending
  <2> QED
    BY <1>1, <1>3, <2>1, FirstWindow DEF cwindow
<1>5. cwindow \in Win /\ cwindow \notin cvisited
  BY <1>3, <1>4, WindowBounds DEF cpending, Pending
<1>6. PICK c \in Kid : c = Match(cwindow, id, s)
  BY <1>5 DEF Match, Kid
<1>7. c.span = cwindow /\ c.id = id /\ c.score \in Int
  BY <1>6, ScoresAssumption DEF Match, Kid
<1>8. /\ KeepChild(c) /\ hits' = hits \cup {c}
      /\ cvisited' = cvisited \cup {c.span} /\ cislands' = cislands \cup {c.span}
      /\ c.span \notin cvisited /\ c.span \notin cislands
  BY <1>5, <1>6, <1>7 DEF ChildHit, ScanInv, Shape
<1>9. /\ children \in Seq(Kid) /\ Len(children) \in Nat
      /\ \A k \in 1..Len(children) :
           /\ children[k] \in Kid /\ children[k].score \in Int
           /\ children[k].span \in cislands /\ children[k] \in hits
           /\ children[k].span # c.span
      /\ \A j, k \in 1..Len(children) :
           /\ children[j].span = children[k].span => j = k
           /\ children[j].id = children[k].id => j = k
      /\ \A h \in hits : /\ h.score \in Int
                         /\ \E k \in 1..Len(children) :
                              children[k].id = h.id /\ children[k].score >= h.score
  <2>1. children \in Seq(Kid) /\ hits \subseteq Kid
    BY DEF ScanInv, Shape
  <2>2. \A k \in 1..Len(children) : children[k] \in Kid
    BY <2>1, ElementOfSeq
  <2>3. \A k \in Kid : k.score \in Int
    BY ScoresAssumption DEF Kid
  <2> QED
    BY <1>8, <2>1, <2>2, <2>3 DEF ScanInv, Kids, BestChild
<1>10. /\ alloc = Reachable \cup {Key(m)} \cup ChildKeys(m, children)
       /\ \A q \in {Key(m)} \cup ChildKeys(m, children) : q \notin Reachable
  BY <1>2, BuildsNew DEF ScanInv, Owned, Owners
<1>11. CASE \A k \in 1..Len(children) : children[k].id # c.id
  <2>1. /\ children' = Append(children, c)
        /\ alloc' = alloc \cup {ChildKey(m, c)}
    BY <1>8, <1>11 DEF KeepChild
  <2>2. /\ Len(children') = Len(children) + 1 /\ children'[Len(children) + 1] = c
        /\ \A i \in 1..Len(children) : children'[i] = children[i]
        /\ children' \in Seq(Kid)
    BY <1>9, <2>1, AppendProperties
  <2>3. 1..Len(children') = 1..Len(children) \cup {Len(children) + 1}
    BY <1>9, <2>2
  <2>4. Kids'
    <3>1. \A k \in 1..Len(children') :
            children'[k].span \in cislands' /\ children'[k] \in hits'
      BY <1>8, <1>9, <2>2, <2>3
    <3>2. \A j, k \in 1..Len(children') :
            children'[j].span = children'[k].span => j = k
      BY <1>9, <2>2, <2>3
    <3> QED
      BY <3>1, <3>2 DEF Kids
  <2>5. BestChild'
    <3>1. \A i, k \in 1..Len(children') : children'[i].id = children'[k].id => i = k
      BY <1>9, <1>11, <2>2, <2>3
    <3>2. \A i \in 1..Len(children') : children'[i] \in hits'
      BY <1>8, <1>9, <2>2, <2>3
    <3>3. ASSUME NEW h \in hits'
          PROVE  \E k \in 1..Len(children') :
                   children'[k].id = h.id /\ children'[k].score >= h.score
      <4>1. CASE h = c
        BY <1>7, <2>2, <2>3, <4>1
      <4>2. CASE h \in hits
        BY <1>9, <2>2, <2>3, <4>2
      <4> QED
        BY <1>8, <4>1, <4>2
    <3> QED
      BY <3>1, <3>2, <3>3 DEF BestChild
  <2>6. alloc' = Reachable \cup {Key(m)} \cup ChildKeys(m, children')
    BY <1>9, <1>10, <2>1, ChildKeysAppend
  <2> QED
    BY <1>1, <1>8, <2>2, <2>4, <2>5, <2>6, ChildKept
<1>12. CASE \E k \in 1..Len(children) : children[k].id = c.id
  <2>1. PICK k \in 1..Len(children) :
          /\ children[k].id = c.id
          /\ IF c.score > children[k].score
               THEN /\ children' = [children EXCEPT ![k] = c]
                    /\ alloc' = (alloc \ {ChildKey(m, children[k])})
                                  \cup {ChildKey(m, c)}
               ELSE UNCHANGED <<children, alloc>>
    BY <1>8, <1>12 DEF KeepChild
  <2>2. CASE c.score > children[k].score
    <3>1. /\ children' = [children EXCEPT ![k] = c]
          /\ alloc' = (alloc \ {ChildKey(m, children[k])}) \cup {ChildKey(m, c)}
      BY <2>1, <2>2
    <3>2. /\ Len(children') = Len(children) /\ children' \in Seq(Kid)
          /\ \A i \in 1..Len(children) :
               children'[i] = IF i = k THEN c ELSE children[i]
      BY <1>9, <3>1, ExceptSeq
    <3>3. Kids'
      BY <1>8, <1>9, <3>2 DEF Kids
    <3>4. BestChild'
      <4>1. \A i, j \in 1..Len(children') :
              children'[i].id = children'[j].id => i = j
        BY <1>9, <2>1, <3>2
      <4>2. \A i \in 1..Len(children') : children'[i] \in hits'
        BY <1>8, <1>9, <3>2
      <4>3. ASSUME NEW h \in hits'
            PROVE  \E j \in 1..Len(children') :
                     children'[j].id = h.id /\ children'[j].score >= h.score
        <5>1. CASE h = c
          BY <1>7, <3>2, <5>1
        <5>2. CASE h \in hits
          <6>1. PICK j \in 1..Len(children) :
                  children[j].id = h.id /\ children[j].score >= h.score
            BY <1>9, <5>2
          <6>2. CASE j = k
            BY <1>7, <1>9, <2>1, <2>2, <3>2, <5>2, <6>1, <6>2
          <6>3. CASE j # k
            BY <3>2, <6>1, <6>3
          <6> QED
            BY <6>2, <6>3
        <5> QED
          BY <1>8, <5>1, <5>2
      <4> QED
        BY <4>1, <4>2, <4>3 DEF BestChild
    <3>5. ChildKeys(m, children') = (ChildKeys(m, children)
            \ {ChildKey(m, children[k])}) \cup {ChildKey(m, c)}
      <4>1. \A i \in 1..Len(children) : i # k =>
              ChildKey(m, children[i]) # ChildKey(m, children[k])
        BY <1>9 DEF ChildKey
      <4>2. ChildKeys(m, children') \subseteq (ChildKeys(m, children)
              \ {ChildKey(m, children[k])}) \cup {ChildKey(m, c)}
        BY <3>2, <4>1 DEF ChildKeys
      <4>3. (ChildKeys(m, children) \ {ChildKey(m, children[k])})
              \cup {ChildKey(m, c)} \subseteq ChildKeys(m, children')
        BY <3>2 DEF ChildKeys
      <4> QED
        BY <4>2, <4>3
    <3>6. /\ ChildKey(m, children[k]) \notin Reachable
          /\ ChildKey(m, children[k]) # Key(m)
      <4>1. ChildKey(m, children[k]) \in ChildKeys(m, children)
        BY DEF ChildKeys
      <4> QED
        BY <1>10, <4>1 DEF ChildKey, Key
    <3>7. alloc' = Reachable \cup {Key(m)} \cup ChildKeys(m, children')
      BY <1>10, <3>1, <3>5, <3>6
    <3> QED
      BY <1>1, <1>8, <3>2, <3>3, <3>4, <3>7, ChildKept
  <2>3. CASE ~(c.score > children[k].score)
    <3>1. UNCHANGED <<children, alloc>>
      BY <2>1, <2>3
    <3>2. Kids'
      BY <1>8, <1>9, <3>1 DEF Kids
    <3>3. children[k].score >= c.score
      BY <1>7, <1>9, <2>3
    <3>4. BestChild'
      <4>1. \A h \in hits' : \E j \in 1..Len(children') :
              children'[j].id = h.id /\ children'[j].score >= h.score
        BY <1>8, <1>9, <2>1, <3>1, <3>3
      <4> QED
        BY <1>8, <1>9, <3>1, <4>1 DEF BestChild
    <3> QED
      BY <1>1, <1>8, <1>9, <1>10, <3>1, <3>2, <3>4, ChildKept
  <2> QED
    BY <2>2, <2>3
<1> QED
  BY <1>11, <1>12

(* Emits are copied for children that have an owner. *)
LEMMA ChildReturnInv ==
  ASSUME ScanInv, ChildReturn
  PROVE  ScanInv'
<1>1. /\ pc = "child" /\ pc' = "push"
      /\ strings' \subseteq strings \cup ChildKeys(m, children)
      /\ UNCHANGED <<count, visited, islands, matches, m, cvisited, cislands,
                     children, rc, failed, alloc, hits, lost>>
  BY DEF ChildReturn
<1>2. Building /\ Building'
  BY <1>1 DEF Building
<1>3. pending' = pending /\ window' = window
  BY <1>1 DEF pending, window
<1>4. failed' \in BOOLEAN
  BY <1>1 DEF ScanInv, Shape
<1>5. Shape' /\ Visitor'
  BY <1>1, <1>2, <1>3, <1>4 DEF ScanInv, Shape, Visitor
<1>6. Swept' /\ Spans' /\ Kids' /\ BestChild' /\ ResultOrdered'
  BY <1>1, <1>3 DEF ScanInv, Swept, Spans, Kids, BestChild, ResultOrdered
<1>7. Owners' = Owners /\ ChildKeys(m, children) \subseteq Owners
  BY <1>1, <1>2, BuildsNew DEF Owners, Reachable
<1>8. Owned' /\ Strings' /\ LeaksOnlyFailedEmits'
  BY <1>1, <1>7 DEF ScanInv, Owned, Strings, LeaksOnlyFailedEmits
<1> QED
  BY <1>5, <1>6, <1>8 DEF ScanInv

(* The match goes to the end of the array, with its children. *)
LEMMA PushInv ==
  ASSUME ScanInv, Push
  PROVE  ScanInv'
<1>1. /\ pc = "push" /\ pc' = "scan"
      /\ matches' = Append(matches, Finished(m, children))
      /\ visited' = visited \cup {m.span} /\ islands' = islands \cup {m.span}
      /\ cvisited' = {} /\ cislands' = {} /\ children' = <<>> /\ hits' = {}
      /\ UNCHANGED <<count, rc, failed, alloc, strings, lost>>
  BY DEF Push, Forget
<1>2. Building /\ ~Building'
  BY <1>1 DEF Building
<1>3. /\ m.span = window /\ pending # {} /\ m \in Top
      /\ MatchKeys(Finished(m, children)) = {Key(m)} \cup ChildKeys(m, children)
  BY <1>2, BuildsNew
<1>4. matches \in Seq(Done) /\ children \in Seq(Kid)
  BY DEF ScanInv, Shape
<1>5. PICK f \in Done : f = Finished(m, children)
  BY <1>3, <1>4 DEF Finished, Done, Top
<1>6. /\ f.span = window /\ matches' \in Seq(Done) /\ Len(matches) \in Nat
      /\ Len(matches') = Len(matches) + 1 /\ matches'[Len(matches) + 1] = f
      /\ \A i \in 1..Len(matches) : matches'[i] = matches[i]
  BY <1>1, <1>3, <1>4, <1>5, AppendProperties DEF Finished
<1>7. 1..Len(matches') = 1..Len(matches) \cup {Len(matches) + 1}
  BY <1>6
<1>8. Swept' /\ visited' \subseteq WindowsOf(count', MinNgram, MaxNgram)
  BY <1>1, <1>3, SweptKept
<1>9. Shape' /\ Visitor'
  <2>1. failed' \in BOOLEAN
    BY <1>1 DEF ScanInv, Shape
  <2>2. children' \in Seq(Kid)
    BY <1>1, EmptySeq
  <2> QED
    BY <1>1, <1>2, <1>6, <1>8, <2>1, <2>2 DEF ScanInv, Shape, Visitor
<1>10. Spans'
  BY <1>1, <1>3, <1>6, <1>7 DEF ScanInv, Spans
<1>11. Kids' /\ BestChild'
  BY <1>1, EmptySeq DEF Kids, BestChild
<1>12. ResultOrdered'
  <2>1. \A i \in 1..Len(matches) : matches[i].span \in islands
                                   /\ matches[i].span \in visited
    BY DEF ScanInv, Spans, Shape
  <2>2. \A v \in visited : Before(v, window)
    BY <1>3, NextWindow DEF ScanInv, Swept
  <2>3. \A i \in 1..Len(matches) : /\ Before(matches[i].span, window)
                                   /\ ~Within(window, matches[i].span)
    BY <1>3, <2>1, <2>2, NextWindow
  <2>4. ASSUME NEW i \in 1..Len(matches'), NEW k \in 1..Len(matches'), i < k
        PROVE  /\ Before(matches'[i].span, matches'[k].span)
               /\ ~Within(matches'[k].span, matches'[i].span)
    <3>1. i \in 1..Len(matches) /\ i \in Nat
      BY <1>6, <2>4
    <3>2. CASE k = Len(matches) + 1
      BY <1>6, <2>3, <3>1, <3>2
    <3>3. CASE k \in 1..Len(matches)
      BY <1>6, <2>4, <3>1, <3>3 DEF ScanInv, ResultOrdered
    <3> QED
      BY <1>7, <3>2, <3>3
  <2> QED
    BY <2>4 DEF ResultOrdered
<1>13. Owners' = Owners
  <2>1. Reachable' = KeysOf(Append(matches, f)) /\ Reachable = KeysOf(matches)
    BY <1>1, <1>5 DEF Reachable, KeysOf
  <2>2. Reachable' = Reachable \cup MatchKeys(f)
    BY <1>4, <2>1, KeysOfAppend
  <2> QED
    BY <1>2, <1>5, <2>2 DEF Owners
<1>14. Owned' /\ Strings' /\ LeaksOnlyFailedEmits'
  BY <1>1, <1>13 DEF ScanInv, Owned, Strings, LeaksOnlyFailedEmits
<1> QED
  BY <1>8, <1>9, <1>10, <1>11, <1>12, <1>14 DEF ScanInv

(* The match and its children are freed, and nothing else. *)
LEMMA PushFailsInv ==
  ASSUME ScanInv, PushFails
  PROVE  ScanInv'
<1>1. /\ pc = "push" /\ pc' = "returned" /\ rc' = "ok" /\ failed' = TRUE
      /\ visited' = visited \cup {m.span}
      /\ alloc' = alloc \ MatchKeys(Finished(m, children))
      /\ strings' = strings \ MatchKeys(Finished(m, children))
      /\ cvisited' = {} /\ cislands' = {} /\ children' = <<>> /\ hits' = {}
      /\ UNCHANGED <<count, islands, matches, lost>>
  BY DEF PushFails, Forget, Returns
<1>2. Building /\ ~Building'
  BY <1>1 DEF Building
<1>3. /\ m.span = window /\ pending # {}
      /\ \A q \in MatchKeys(Finished(m, children)) : q \notin Reachable
  BY <1>2, BuildsNew
<1>4. Swept' /\ visited' \subseteq WindowsOf(count', MinNgram, MaxNgram)
  BY <1>1, <1>3, SweptKept
<1>5. Shape' /\ Visitor'
  <2>1. children' \in Seq(Kid)
    BY <1>1, EmptySeq
  <2>2. failed' \in BOOLEAN
    BY <1>1
  <2> QED
    BY <1>1, <1>2, <1>4, <2>1, <2>2 DEF ScanInv, Shape, Visitor
<1>6. Spans' /\ ResultOrdered'
  BY <1>1 DEF ScanInv, Spans, ResultOrdered
<1>7. Kids' /\ BestChild'
  BY <1>1, EmptySeq DEF Kids, BestChild
<1>8. /\ Owners = Reachable \cup MatchKeys(Finished(m, children))
      /\ Owners' = Reachable
  BY <1>1, <1>2 DEF Owners, Reachable
<1>9. Owned' /\ Strings' /\ LeaksOnlyFailedEmits'
  BY <1>1, <1>3, <1>8 DEF ScanInv, Owned, Strings, LeaksOnlyFailedEmits
<1> QED
  BY <1>4, <1>5, <1>6, <1>7, <1>9 DEF ScanInv

LEMMA ScanReturnsInv ==
  ASSUME ScanInv, ScanDone \/ ScanFails
  PROVE  ScanInv'
<1>1. /\ pc = "scan" /\ pc' = "returned" /\ rc' = "ok"
      /\ UNCHANGED <<count, visited, islands, matches, m, alloc, strings, lost>>
      /\ UNCHANGED <<cvisited, cislands, children, hits>>
  BY DEF ScanDone, ScanFails, Returns, child
<1>2. ~Building /\ ~Building'
  BY <1>1 DEF Building
<1>3. failed' \in BOOLEAN
  BY DEF ScanDone, ScanFails, ScanInv, Shape
<1>4. pending' = pending
  BY <1>1 DEF pending
<1>5. Shape' /\ Visitor' /\ Swept'
  BY <1>1, <1>2, <1>3, <1>4 DEF ScanInv, Shape, Visitor, Swept
<1>6. Spans' /\ ResultOrdered' /\ Kids' /\ BestChild'
  BY <1>1 DEF ScanInv, Spans, ResultOrdered, Kids, BestChild
<1>7. Owners' = Owners
  BY <1>1, <1>2 DEF Owners, Reachable
<1>8. Owned' /\ Strings' /\ LeaksOnlyFailedEmits'
  BY <1>1, <1>7 DEF ScanInv, Owned, Strings, LeaksOnlyFailedEmits
<1> QED
  BY <1>5, <1>6, <1>8 DEF ScanInv

(* kc_ipa_result_free leaves nothing allocated but lost emits. *)
LEMMA ResultFreeInv ==
  ASSUME ScanInv, ResultFree
  PROVE  ScanInv'
<1>1. /\ pc = "returned" /\ pc' = "freed" /\ matches' = <<>>
      /\ alloc' = alloc \ Reachable /\ strings' = strings \ Reachable
      /\ UNCHANGED <<count, visited, islands, m, rc, failed, lost>>
      /\ UNCHANGED <<cvisited, cislands, children, hits>>
  BY DEF ResultFree, child
<1>2. ~Building /\ ~Building'
  BY <1>1 DEF Building
<1>3. pending' = pending
  BY <1>1 DEF pending
<1>4. matches' \in Seq(Done) /\ Len(matches') = 0
  BY <1>1, EmptySeq
<1>5. failed' \in BOOLEAN
  BY <1>1 DEF ScanInv, Shape
<1>6. Shape' /\ Visitor' /\ Swept'
  BY <1>1, <1>2, <1>3, <1>4, <1>5 DEF ScanInv, Shape, Visitor, Swept
<1>7. Spans' /\ ResultOrdered'
  BY <1>4 DEF Spans, ResultOrdered
<1>8. Kids' /\ BestChild'
  BY <1>1 DEF ScanInv, Kids, BestChild
<1>9. Owners = Reachable /\ Owners' = {}
  BY <1>2, <1>4 DEF Owners, Reachable
<1>10. Owned' /\ Strings' /\ LeaksOnlyFailedEmits'
  BY <1>1, <1>9 DEF ScanInv, Owned, Strings, LeaksOnlyFailedEmits
<1> QED
  BY <1>6, <1>7, <1>8, <1>10 DEF ScanInv

-----------------------------------------------------------------------------
LEMMA InitInv == Init => ScanInv
<1> SUFFICES ASSUME Init PROVE ScanInv
  OBVIOUS
<1>1. ~Building
  BY DEF Init, Building
<1>2. matches \in Seq(Done) /\ children \in Seq(Kid)
      /\ Len(matches) = 0 /\ Len(children) = 0
  BY EmptySeq DEF Init
<1>3. failed \in BOOLEAN
  BY DEF Init
<1>4. Shape /\ Visitor /\ Swept
  BY <1>1, <1>2, <1>3 DEF Init, Shape, Visitor, Swept
<1>5. Spans /\ Kids /\ BestChild /\ ResultOrdered
  BY <1>2 DEF Init, Spans, Kids, BestChild, ResultOrdered
<1>6. Owned /\ Strings /\ LeaksOnlyFailedEmits
  BY <1>1, <1>2 DEF Init, Owned, Owners, Reachable, Strings,
                    LeaksOnlyFailedEmits
<1> QED
  BY <1>4, <1>5, <1>6 DEF ScanInv

LEMMA NextInv == ScanInv /\ [Next]_vars => ScanInv'
<1> SUFFICES ASSUME ScanInv, [Next]_vars PROVE ScanInv'
  OBVIOUS
<1>1. CASE UNCHANGED vars
  <2>1. UNCHANGED <<count, pc, visited, islands, matches, m, cvisited, cislands,
                    children, hits, rc, failed, alloc, strings, lost>>
    BY <1>1 DEF vars, child
  <2>2. Building' = Building /\ pending' = pending /\ window' = window
        /\ Reachable' = Reachable
    BY <2>1 DEF Building, pending, window, Reachable
  <2>3. Owners' = Owners
    BY <2>1, <2>2 DEF Owners
  <2>4. failed' \in BOOLEAN
    BY <2>1 DEF ScanInv, Shape
  <2>5. Shape' /\ Visitor' /\ Swept'
    BY <2>1, <2>2, <2>4 DEF ScanInv, Shape, Visitor, Swept
  <2> QED
    BY <2>1, <2>2, <2>3, <2>5 DEF ScanInv, Spans, Kids, BestChild,
       ResultOrdered, Owned, Strings, LeaksOnlyFailedEmits
<1>2. CASE Next
  BY <1>2, MissInv, HitInv, ChildMissInv, ChildHitInv, ChildReturnInv, PushInv,
     PushFailsInv, ScanReturnsInv, ResultFreeInv
     DEF Next, ChildDone, ChildFails
<1> QED
  BY <1>1, <1>2

LEMMA SpecInv == Spec => []ScanInv
BY InitInv, NextInv, PTL DEF Spec

(***************************************************************************)
(* The results.                                                            *)
(***************************************************************************)

(* Types; among them that the span being built is still to be visited and  *)
(* that every child belongs to the schema.                                 *)
THEOREM TypeCorrect == Spec => []TypeOK
<1>1. ScanInv => TypeOK
  <2> SUFFICES ASSUME ScanInv PROVE TypeOK
    OBVIOUS
  <2>1. \A i \in 1..Len(matches) : matches[i].id \in Nodes
    <3>1. \A i \in 1..Len(matches) : matches[i] \in Done
      BY ElementOfSeq DEF ScanInv, Shape
    <3> QED
      BY <3>1 DEF Done
  <2>2. \A k \in 1..Len(children) : children[k].id \in Children
    <3>1. \A k \in 1..Len(children) : children[k] \in Kid
      BY ElementOfSeq DEF ScanInv, Shape
    <3> QED
      BY <3>1 DEF Kid
  <2>3. Building => m.id \in Nodes /\ m.span \in pending
    BY BuildsNew, NextWindow DEF Top
  <2> QED
    BY <2>1, <2>2, <2>3 DEF ScanInv, Shape, TypeOK
<1> QED
  BY <1>1, SpecInv, PTL

(* A match has memory exactly as long as a match array or the visitor owns *)
(* it, through kc_ipa_push_match, the replacement of a child by a better   *)
(* window, every failed allocation and kc_ipa_result_free.                 *)
THEOREM MatchesAreOwned == Spec => []Owned
<1>1. ScanInv => Owned
  BY DEF ScanInv
<1> QED
  BY <1>1, SpecInv, PTL

(* The children that kc_ipa_scan_children keeps are the best windows of    *)
(* the children it accepted, each once.                                    *)
THEOREM ChildrenAreBest == Spec => []BestChild
<1>1. ScanInv => BestChild
  BY DEF ScanInv
<1> QED
  BY <1>1, SpecInv, PTL

(* The matches of a result are in the order of the traversal, and none     *)
(* lies in an earlier one, also when the scan was cut short.               *)
THEOREM ResultIsOrdered == Spec => []ResultOrdered
<1>1. ScanInv => ResultOrdered
  BY DEF ScanInv
<1> QED
  BY <1>1, SpecInv, PTL

(* Emit strings are lost only where kc_ipa_build_match_emits fails for a   *)
(* window of the input.                                                    *)
THEOREM OnlyFailedEmitsLeak == Spec => []LeaksOnlyFailedEmits
<1>1. ScanInv => LeaksOnlyFailedEmits
  BY DEF ScanInv
<1> QED
  BY <1>1, SpecInv, PTL

=============================================================================
