--------------------------- MODULE IpaFileProofs ---------------------------
(***************************************************************************)
(* The .ipa file, for every set of manifests: what kc_ipa_build lays out   *)
(* is what the manifest says, and what kc_ipa_open makes of any file that  *)
(* builds have left.                                                       *)
(*                                                                         *)
(* The compiler's loops over nodes and children are flattened sequences,   *)
(* so the first part proves, by induction on the number of sequences, what *)
(* a flattened sequence holds and that two of them stay in step.           *)
(***************************************************************************)
EXTENDS IpaFile, SequenceTheorems, FiniteSetTheorems, WellFoundedInduction,
        TLAPS

-----------------------------------------------------------------------------
(* Sequences.                                                              *)

LEMMA SequenceFacts ==
  ASSUME NEW s, IsSequence(s)
  PROVE  /\ Len(s) \in Nat /\ DOMAIN s = 1..Len(s)
         /\ s = [i \in 1..Len(s) |-> s[i]]
         /\ ToSet(s) = {s[i] : i \in 1..Len(s)}
<1>1. Len(s) \in Nat /\ DOMAIN s = 1..Len(s) /\ s \in [1..Len(s) -> ToSet(s)]
  BY LenProperties DEF IsSequence
<1> QED
  BY <1>1 DEF ToSet

LEMMA SequenceOf ==
  ASSUME NEW S, NEW s \in Seq(S)
  PROVE  IsSequence(s)
<1>1. Len(s) \in Nat /\ s \in [1..Len(s) -> S]
  BY LenProperties
<1>2. s \in [1..Len(s) -> ToSet(s)]
  BY <1>1 DEF ToSet
<1> QED
  BY <1>1, <1>2, SeqDef DEF IsSequence

(* A function on 1 .. n is a sequence of length n. *)
LEMMA FunctionIsSequence ==
  ASSUME NEW n \in Nat, NEW s, DOMAIN s = 1..n, s = [i \in 1..n |-> s[i]]
  PROVE  IsSequence(s) /\ Len(s) = n
<1>1. s \in [1..n -> ToSet(s)]
  BY DEF ToSet
<1>2. IsSequence(s)
  BY <1>1, SeqDef DEF IsSequence
<1>3. Len(s) \in Nat /\ DOMAIN s = 1..Len(s)
  BY <1>2, SequenceFacts
<1>4. 1..n = 1..Len(s)
  BY <1>3
<1> QED
  BY <1>2, <1>3, <1>4

LEMMA Joined ==
  ASSUME NEW s, NEW t, IsSequence(s), IsSequence(t)
  PROVE  /\ IsSequence(s \o t) /\ Len(s \o t) = Len(s) + Len(t)
         /\ \A i \in 1..(Len(s) + Len(t)) :
              (s \o t)[i] = IF i <= Len(s) THEN s[i] ELSE t[i - Len(s)]
<1> DEFINE S == ToSet(s) \cup ToSet(t)
<1>1. s \in Seq(S) /\ t \in Seq(S)
  BY SeqMonotonic DEF IsSequence
<1> HIDE DEF S
<1>2. s \o t \in Seq(S)
  BY <1>1, ConcatProperties
<1>3. IsSequence(s \o t)
  BY <1>2, SequenceOf
<1> QED
  BY <1>1, <1>3, ConcatProperties

LEMMA JoinedParts ==
  ASSUME NEW s, NEW t, IsSequence(s), IsSequence(t)
  PROVE  /\ IsSequence(s \o t) /\ Len(s \o t) = Len(s) + Len(t)
         /\ \A i \in 1..Len(s) : (s \o t)[i] = s[i]
         /\ \A i \in 1..Len(t) : (s \o t)[Len(s) + i] = t[i]
<1>1. Len(s) \in Nat /\ Len(t) \in Nat
  BY SequenceFacts
<1>2. /\ IsSequence(s \o t) /\ Len(s \o t) = Len(s) + Len(t)
      /\ \A i \in 1..(Len(s) + Len(t)) :
           (s \o t)[i] = IF i <= Len(s) THEN s[i] ELSE t[i - Len(s)]
  BY Joined
<1>3. \A i \in 1..Len(s) : (s \o t)[i] = s[i]
  BY <1>1, <1>2
<1>4. ASSUME NEW i \in 1..Len(t) PROVE (s \o t)[Len(s) + i] = t[i]
  <2>1. /\ Len(s) + i \in 1..(Len(s) + Len(t)) /\ ~(Len(s) + i <= Len(s))
        /\ (Len(s) + i) - Len(s) = i
    BY <1>1
  <2> QED
    BY <1>2, <2>1
<1> QED
  BY <1>2, <1>3, <1>4

LEMMA Appended ==
  ASSUME NEW s, IsSequence(s), NEW e
  PROVE  /\ IsSequence(Append(s, e)) /\ Len(Append(s, e)) = Len(s) + 1
         /\ \A i \in 1..Len(s) : Append(s, e)[i] = s[i]
         /\ Append(s, e)[Len(s) + 1] = e
<1> DEFINE S == ToSet(s) \cup {e}
<1>1. s \in Seq(S) /\ e \in S
  BY SeqMonotonic DEF IsSequence
<1> HIDE DEF S
<1>2. Append(s, e) \in Seq(S)
  BY <1>1
<1>3. IsSequence(Append(s, e))
  BY <1>2, SequenceOf
<1> QED
  BY <1>1, <1>3

LEMMA Replaced ==
  ASSUME NEW s, IsSequence(s), s # <<>>, NEW e
  PROVE  LET t == [s EXCEPT ![1] = e]
         IN  /\ IsSequence(t) /\ Len(t) = Len(s) /\ t[1] = e
             /\ \A i \in 2..Len(s) : t[i] = s[i]
<1> DEFINE S == ToSet(s) \cup {e}
           t == [s EXCEPT ![1] = e]
<1>1. s \in Seq(S) /\ e \in S
  BY SeqMonotonic DEF IsSequence
<1> HIDE DEF S
<1>2. Len(s) \in Nat \ {0}
  BY <1>1, EmptySeq
<1>3. /\ t \in Seq(S) /\ Len(t) = Len(s)
      /\ \A j \in 1..Len(s) : t[j] = IF j = 1 THEN e ELSE s[j]
  BY <1>1, <1>2, ExceptSeq
<1>4. IsSequence(t)
  BY <1>3, SequenceOf
<1> QED
  BY <1>2, <1>3, <1>4

LEMMA EmptyIsSequence == IsSequence(<<>>) /\ Len(<<>>) = 0
BY EmptySeq DEF IsSequence

(* The part of a file at an offset. *)
Slice(s, off, n) == {s[off + i] : i \in 1..n}

LEMMA PartFacts ==
  ASSUME NEW s, IsSequence(s), NEW off \in Nat, NEW n \in Nat,
         off + n <= Len(s)
  PROVE  Part(s, off, n) = Slice(s, off, n)
<1>1. /\ Len(s) \in Nat /\ s \in Seq(ToSet(s))
      /\ \A i \in (off + 1)..(off + n) : s[i] \in ToSet(s)
  BY SequenceFacts DEF IsSequence
<1> DEFINE p == SubSeq(s, off + 1, off + n)
<1>2. /\ p \in Seq(ToSet(s)) /\ Len(p) = n
      /\ \A i \in 1..n : p[i] = s[off + i]
  <2>1. off + 1 \in Int /\ off + n \in Int /\ (off + n) - (off + 1) + 1 = n
    OBVIOUS
  <2>2. /\ p \in Seq(ToSet(s))
        /\ Len(p) = IF off + 1 <= off + n THEN (off + n) - (off + 1) + 1 ELSE 0
        /\ \A i \in 1..((off + n) - (off + 1) + 1) : p[i] = s[(off + 1) + i - 1]
    BY <1>1, <2>1, SubSeqProperties
  <2> HIDE DEF p
  <2> QED
    BY <2>1, <2>2
<1> HIDE DEF p
<1>3. IsSequence(p)
  BY <1>2, SequenceOf
<1>4. ToSet(p) = {p[i] : i \in 1..n}
  BY <1>2, <1>3, SequenceFacts
<1> QED
  BY <1>2, <1>4 DEF p, Part, Slice

(* Induction, by the least number that is not in T. *)
LEMMA Induct ==
  ASSUME NEW n \in Nat, NEW T, 1 \in T,
         \A i \in 1..(n - 1) : i \in T => i + 1 \in T
  PROVE  \A i \in 1..n : i \in T
<1> DEFINE B == {i \in 1..n : i \notin T}
           R == {ss \in Nat \X Nat : ss[1] < ss[2]}
<1>1. ASSUME B # {} PROVE FALSE
  <2>1. IsWellFoundedOn(R, Nat)
    BY NatLessThanWellFounded, Zenon DEF OpToRel
  <2>2. B \subseteq Nat
    OBVIOUS
  <2>3. PICK x \in B : \A y \in B : ~(<<y, x>> \in R)
    <3> HIDE DEF B, R
    <3> QED
      BY <1>1, <2>1, <2>2, WFMin
  <2>4. \A y \in B : ~(y < x)
    BY <2>2, <2>3
  <2>5. x \in 1..n /\ x \notin T /\ x # 1
    BY <2>3
  <2>6. x - 1 \in 1..(n - 1) /\ x - 1 < x /\ (x - 1) + 1 = x
    BY <2>5
  <2>7. x - 1 \in B
    BY <2>5, <2>6
  <2> QED
    BY <2>4, <2>6, <2>7
<1> QED
  BY <1>1

-----------------------------------------------------------------------------
(* Flattened sequences.                                                    *)

(* The partial results of FlattenSeq. *)
IsFlat(q, f) ==
  f = [i \in 1..Len(q) |-> IF i = 1 THEN q[i] ELSE f[i-1] \o q[i]]

(* They exist, whatever q is: those of one more sequence are the old ones  *)
(* and one that follows from the last of them.                             *)
LEMMA FlatExists ==
  ASSUME NEW q, Len(q) \in Nat
  PROVE  \E f : IsFlat(q, f)
<1> DEFINE Flat(n, f) ==
             f = [i \in 1..n |-> IF i = 1 THEN q[i] ELSE f[i-1] \o q[i]]
           T == {n \in Nat : \E f : Flat(n, f)}
<1>0. CASE Len(q) = 0
  <2>1. \E f : Flat(0, f)
    <3> DEFINE f == [i \in 1..0 |-> q[i]]
    <3>1. Flat(0, f)
      OBVIOUS
    <3> QED
      BY <3>1
  <2> QED
    BY <1>0, <2>1 DEF IsFlat
<1>1. 1 \in T
  <2> DEFINE f == [i \in 1..1 |-> q[1]]
  <2>1. Flat(1, f)
    OBVIOUS
  <2> QED
    BY <2>1
<1>2. ASSUME NEW n \in 1..(Len(q) - 1), n \in T
      PROVE  n + 1 \in T
  <2>1. PICK f : Flat(n, f)
    BY <1>2
  <2> DEFINE g == [i \in 1..(n + 1) |->
                     IF i = n + 1 THEN f[n] \o q[n + 1] ELSE f[i]]
             h == [i \in 1..(n + 1) |->
                     IF i = 1 THEN q[i] ELSE g[i - 1] \o q[i]]
  <2>2. ASSUME NEW i \in 1..(n + 1) PROVE g[i] = h[i]
    <3>1. CASE i = n + 1
      <4>1. i # 1 /\ i - 1 = n /\ n \in 1..(n + 1) /\ n # n + 1
        BY <3>1
      <4>2. g[i - 1] = f[n] /\ g[i] = f[n] \o q[n + 1]
        BY <3>1, <4>1
      <4>3. h[i] = g[i - 1] \o q[i]
        BY <4>1
      <4> QED
        BY <3>1, <4>2, <4>3
    <3>2. CASE i # n + 1
      <4>1. i \in 1..n /\ g[i] = f[i]
        BY <3>2
      <4>2. f[i] = IF i = 1 THEN q[i] ELSE f[i-1] \o q[i]
        BY <2>1, <4>1
      <4>3. i # 1 => i - 1 \in 1..(n + 1) /\ i - 1 # n + 1
        BY <4>1
      <4>4. i # 1 => g[i - 1] = f[i - 1]
        BY <4>3
      <4> QED
        BY <4>1, <4>2, <4>4
    <3> QED
      BY <3>1, <3>2
  <2>3. g = h
    <3>1. DOMAIN g = DOMAIN h
      OBVIOUS
    <3> QED
      BY <2>2
  <2>4. Flat(n + 1, g)
    BY <2>3
  <2>5. n + 1 \in Nat
    OBVIOUS
  <2> HIDE DEF Flat, g, h
  <2> QED
    BY <2>4, <2>5
<1>3. \A n \in 1..Len(q) : n \in T
  <2> HIDE DEF T
  <2> QED
    BY <1>1, <1>2, Induct
<1>4. CASE Len(q) # 0
  <2>1. Len(q) \in T
    <3> HIDE DEF T
    <3> QED
      BY <1>3, <1>4
  <2>2. \E f : Flat(Len(q), f)
    <3> HIDE DEF Flat
    <3> QED
      BY <2>1
  <2> QED
    BY <2>2, Zenon DEF IsFlat
<1> QED
  BY <1>0, <1>4

LEMMA FlattenIsLast ==
  ASSUME NEW q, Len(q) \in Nat, Len(q) # 0
  PROVE  \E f : IsFlat(q, f) /\ FlattenSeq(q) = f[Len(q)]
BY FlatExists DEF IsFlat, FlattenSeq

(* a and b hold, place by place, what the first n sequences of q and r     *)
(* hold: each place of a and b comes from one place of q and r, and the    *)
(* other way round.                                                        *)
Aligned(q, r, n, a, b) ==
  /\ IsSequence(a) /\ IsSequence(b) /\ Len(a) = Len(b)
  /\ \A i \in 1..Len(a) :
       \E k \in 1..n : \E j \in 1..Len(q[k]) :
         a[i] = q[k][j] /\ b[i] = r[k][j]
  /\ \A k \in 1..n : \A j \in 1..Len(q[k]) :
       \E i \in 1..Len(a) : a[i] = q[k][j] /\ b[i] = r[k][j]

(* One more pair of sequences. *)
LEMMA AlignedStep ==
  ASSUME NEW q, NEW r, NEW n \in Nat, NEW a, NEW b, Aligned(q, r, n, a, b),
         IsSequence(q[n + 1]), IsSequence(r[n + 1]),
         Len(q[n + 1]) = Len(r[n + 1])
  PROVE  Aligned(q, r, n + 1, a \o q[n + 1], b \o r[n + 1])
<1> DEFINE c == a \o q[n + 1]
           d == b \o r[n + 1]
           m == Len(a)
           w == Len(q[n + 1])
<1>1. /\ IsSequence(a) /\ IsSequence(b) /\ Len(b) = m
      /\ m \in Nat /\ w \in Nat
  BY SequenceFacts DEF Aligned
<1>2. /\ IsSequence(c) /\ Len(c) = m + w
      /\ \A i \in 1..(m + w) : c[i] = IF i <= m THEN a[i] ELSE q[n + 1][i - m]
  BY <1>1, Joined
<1>3. /\ IsSequence(d) /\ Len(d) = m + w
      /\ \A i \in 1..(m + w) : d[i] = IF i <= m THEN b[i] ELSE r[n + 1][i - m]
  BY <1>1, Joined
<1> HIDE DEF c, d
<1>4. ASSUME NEW i \in 1..(m + w)
      PROVE  \E k \in 1..(n + 1) : \E j \in 1..Len(q[k]) :
               c[i] = q[k][j] /\ d[i] = r[k][j]
  <2>1. CASE i <= m
    <3>1. i \in 1..m /\ c[i] = a[i] /\ d[i] = b[i]
      BY <1>1, <1>2, <1>3, <2>1
    <3>2. PICK k \in 1..n : \E j \in 1..Len(q[k]) :
                              a[i] = q[k][j] /\ b[i] = r[k][j]
      BY <3>1 DEF Aligned
    <3>3. k \in 1..(n + 1)
      OBVIOUS
    <3> QED
      BY <3>1, <3>2, <3>3
  <2>2. CASE ~(i <= m)
    <3>1. /\ i - m \in 1..w
          /\ c[i] = q[n + 1][i - m] /\ d[i] = r[n + 1][i - m]
      BY <1>1, <1>2, <1>3, <2>2
    <3>2. n + 1 \in 1..(n + 1)
      OBVIOUS
    <3> QED
      BY <3>1, <3>2
  <2> QED
    BY <2>1, <2>2
<1>5. ASSUME NEW k \in 1..(n + 1), NEW j \in 1..Len(q[k])
      PROVE  \E i \in 1..(m + w) : c[i] = q[k][j] /\ d[i] = r[k][j]
  <2>1. CASE k = n + 1
    <3>1. /\ m + j \in 1..(m + w) /\ ~(m + j <= m) /\ (m + j) - m = j
      BY <1>1, <2>1
    <3>2. c[m + j] = q[n + 1][j] /\ d[m + j] = r[n + 1][j]
      BY <1>2, <1>3, <3>1
    <3> QED
      BY <2>1, <3>1, <3>2
  <2>2. CASE k # n + 1
    <3>1. k \in 1..n
      BY <2>2
    <3>2. PICK i \in 1..m : a[i] = q[k][j] /\ b[i] = r[k][j]
      BY <3>1 DEF Aligned
    <3>3. i \in 1..(m + w) /\ c[i] = a[i] /\ d[i] = b[i]
      BY <1>1, <1>2, <1>3, <3>2
    <3> QED
      BY <3>2, <3>3
  <2> QED
    BY <2>1, <2>2
<1>6. Aligned(q, r, n + 1, c, d)
  BY <1>2, <1>3, <1>4, <1>5 DEF Aligned
<1> QED
  BY <1>6 DEF c, d

(* Two sequences of sequences that agree in all lengths are flattened in   *)
(* step.                                                                   *)
LEMMA FlattenAligned ==
  ASSUME NEW q, NEW r, IsSequence(q), IsSequence(r), Len(q) = Len(r),
         \A k \in 1..Len(q) :
           IsSequence(q[k]) /\ IsSequence(r[k]) /\ Len(q[k]) = Len(r[k])
  PROVE  Aligned(q, r, Len(q), FlattenSeq(q), FlattenSeq(r))
<1> DEFINE n == Len(q)
<1>1. n \in Nat
  BY SequenceFacts
<1>2. CASE n = 0
  <2>1. FlattenSeq(q) = q /\ FlattenSeq(r) = r
    BY <1>2 DEF FlattenSeq
  <2>2. 1..n = {}
    BY <1>2
  <2> QED
    BY <1>2, <2>1, <2>2 DEF Aligned
<1>3. CASE n # 0
  <2>1. PICK f : IsFlat(q, f) /\ FlattenSeq(q) = f[n]
    BY <1>1, <1>3, FlattenIsLast
  <2>2. PICK g : IsFlat(r, g) /\ FlattenSeq(r) = g[n]
    <3>1. \E g : IsFlat(r, g) /\ FlattenSeq(r) = g[Len(r)]
      BY <1>1, <1>3, FlattenIsLast
    <3> QED
      BY <3>1
  <2>3. /\ \A i \in 1..n : f[i] = IF i = 1 THEN q[i] ELSE f[i-1] \o q[i]
        /\ \A i \in 1..n : g[i] = IF i = 1 THEN r[i] ELSE g[i-1] \o r[i]
    BY <2>1, <2>2 DEF IsFlat
  <2> DEFINE T == {i \in 1..n : Aligned(q, r, i, f[i], g[i])}
  <2>4. 1 \in T
    <3>1. 1 \in 1..n /\ f[1] = q[1] /\ g[1] = r[1]
      BY <1>1, <1>3, <2>3
    <3>2. Len(q[1]) \in Nat
      BY <3>1, SequenceFacts
    <3>3. \A k \in 1..1 : k = 1
      OBVIOUS
    <3>4. Aligned(q, r, 1, q[1], r[1])
      BY <3>1, <3>3 DEF Aligned
    <3> QED
      BY <3>1, <3>4
  <2>5. ASSUME NEW i \in 1..(n - 1), i \in T PROVE i + 1 \in T
    <3>1. i + 1 \in 1..n /\ i + 1 # 1 /\ (i + 1) - 1 = i /\ i \in Nat
      BY <1>1
    <3>2. f[i + 1] = f[i] \o q[i + 1] /\ g[i + 1] = g[i] \o r[i + 1]
      BY <2>3, <3>1
    <3>3. Aligned(q, r, i, f[i], g[i])
      BY <2>5
    <3>4. Aligned(q, r, i + 1, f[i] \o q[i + 1], g[i] \o r[i + 1])
      BY <3>1, <3>3, AlignedStep
    <3> QED
      BY <3>1, <3>2, <3>4
  <2>6. \A i \in 1..n : i \in T
    <3> HIDE DEF T
    <3> QED
      BY <1>1, <2>4, <2>5, Induct
  <2>7. n \in 1..n
    BY <1>1, <1>3
  <2> QED
    BY <2>1, <2>2, <2>6, <2>7
<1> QED
  BY <1>2, <1>3

(* The elements of two sequences of the same length, in pairs. *)
Pairs(a, b) == {<<a[i], b[i]>> : i \in 1..Len(a)}

LEMMA FlattenPairs ==
  ASSUME NEW q, NEW r, IsSequence(q), IsSequence(r), Len(q) = Len(r),
         \A k \in 1..Len(q) :
           IsSequence(q[k]) /\ IsSequence(r[k]) /\ Len(q[k]) = Len(r[k])
  PROVE  /\ IsSequence(FlattenSeq(q)) /\ IsSequence(FlattenSeq(r))
         /\ Len(FlattenSeq(q)) = Len(FlattenSeq(r))
         /\ Pairs(FlattenSeq(q), FlattenSeq(r))
              = UNION {Pairs(q[k], r[k]) : k \in 1..Len(q)}
<1> DEFINE a == FlattenSeq(q)
           b == FlattenSeq(r)
<1>1. Aligned(q, r, Len(q), a, b)
  BY FlattenAligned
<1> HIDE DEF a, b
<1>2. ASSUME NEW p \in Pairs(a, b)
      PROVE  p \in UNION {Pairs(q[k], r[k]) : k \in 1..Len(q)}
  <2>1. PICK i \in 1..Len(a) : p = <<a[i], b[i]>>
    BY DEF Pairs
  <2>2. PICK k \in 1..Len(q) : \E j \in 1..Len(q[k]) :
          a[i] = q[k][j] /\ b[i] = r[k][j]
    BY <1>1 DEF Aligned
  <2>3. p \in Pairs(q[k], r[k])
    BY <2>1, <2>2 DEF Pairs
  <2> QED
    BY <2>3
<1>3. ASSUME NEW k \in 1..Len(q), NEW p \in Pairs(q[k], r[k])
      PROVE  p \in Pairs(a, b)
  <2>1. PICK j \in 1..Len(q[k]) : p = <<q[k][j], r[k][j]>>
    BY DEF Pairs
  <2>2. PICK i \in 1..Len(a) : a[i] = q[k][j] /\ b[i] = r[k][j]
    BY <1>1 DEF Aligned
  <2> QED
    BY <2>1, <2>2 DEF Pairs
<1>4. Pairs(a, b) = UNION {Pairs(q[k], r[k]) : k \in 1..Len(q)}
  BY <1>2, <1>3
<1> QED
  BY <1>1, <1>4 DEF Aligned, a, b

LEMMA FlattenElements ==
  ASSUME NEW q, IsSequence(q), \A k \in 1..Len(q) : IsSequence(q[k])
  PROVE  /\ IsSequence(FlattenSeq(q))
         /\ ToSet(FlattenSeq(q)) = UNION {ToSet(q[k]) : k \in 1..Len(q)}
<1> DEFINE a == FlattenSeq(q)
<1>1. Aligned(q, q, Len(q), a, a)
  BY FlattenAligned
<1> HIDE DEF a
<1>2. IsSequence(a)
  BY <1>1 DEF Aligned
<1>3. ASSUME NEW x \in ToSet(a)
      PROVE  x \in UNION {ToSet(q[k]) : k \in 1..Len(q)}
  <2>1. PICK i \in 1..Len(a) : x = a[i]
    BY <1>2, SequenceFacts
  <2>2. PICK k \in 1..Len(q) : \E j \in 1..Len(q[k]) : a[i] = q[k][j]
    BY <1>1 DEF Aligned
  <2>3. x \in ToSet(q[k])
    BY <2>1, <2>2, SequenceFacts
  <2> QED
    BY <2>3
<1>4. ASSUME NEW k \in 1..Len(q), NEW x \in ToSet(q[k])
      PROVE  x \in ToSet(a)
  <2>1. PICK j \in 1..Len(q[k]) : x = q[k][j]
    BY SequenceFacts
  <2>2. PICK i \in 1..Len(a) : a[i] = q[k][j]
    BY <1>1 DEF Aligned
  <2> QED
    BY <1>2, <2>1, <2>2, SequenceFacts
<1>5. ToSet(a) = UNION {ToSet(q[k]) : k \in 1..Len(q)}
  BY <1>3, <1>4
<1> QED
  BY <1>2, <1>5 DEF a

-----------------------------------------------------------------------------
(* What the compiler collects of a manifest.                               *)

LEMMA ManifestFacts ==
  ASSUME NEW m \in Manifests
  PROVE  /\ IsSequence(m.nodes)
         /\ \A k \in 1..Len(m.nodes) :
              LET nd == m.nodes[k]
              IN  /\ nd \in NodesOf(m)
                  /\ IsSequence(nd.descriptions) /\ IsSequence(nd.emits)
                  /\ IsSequence(nd.children)
                  /\ \A c \in 1..Len(nd.children) :
                       /\ nd.children[c] \in ToSet(nd.children)
                       /\ IsSequence(nd.children[c].descriptions)
                       /\ IsSequence(nd.children[c].emits)
         /\ NodesOf(m) = {m.nodes[k] : k \in 1..Len(m.nodes)}
<1>1. IsSequence(m.nodes)
  BY ManifestsAssumption
<1>2. NodesOf(m) = {m.nodes[k] : k \in 1..Len(m.nodes)}
  BY <1>1, SequenceFacts DEF NodesOf
<1>3. ASSUME NEW nd \in NodesOf(m)
      PROVE  /\ IsSequence(nd.descriptions) /\ IsSequence(nd.emits)
             /\ IsSequence(nd.children)
             /\ \A ch \in ToSet(nd.children) :
                  IsSequence(ch.descriptions) /\ IsSequence(ch.emits)
             /\ ToSet(nd.children)
                  = {nd.children[c] : c \in 1..Len(nd.children)}
  <2>1. /\ IsSequence(nd.descriptions) /\ IsSequence(nd.emits)
        /\ IsSequence(nd.children)
        /\ \A ch \in ToSet(nd.children) :
             IsSequence(ch.descriptions) /\ IsSequence(ch.emits)
    BY ManifestsAssumption DEF NodesOf
  <2> QED
    BY <2>1, SequenceFacts
<1> QED
  BY <1>1, <1>2, <1>3

LabelsOf(id, ds) == {<<id, d>> : d \in ToSet(ds)}

(* The label of a node or child, once for each of its descriptions. *)
LEMMA LabelRow ==
  ASSUME NEW ds, IsSequence(ds), NEW id, NEW l, l = [d \in DOMAIN ds |-> id]
  PROVE  /\ IsSequence(l) /\ Len(l) = Len(ds)
         /\ Pairs(l, ds) = LabelsOf(id, ds)
<1>1. /\ Len(ds) \in Nat /\ DOMAIN ds = 1..Len(ds)
      /\ ToSet(ds) = {ds[i] : i \in 1..Len(ds)}
  BY SequenceFacts
<1>2. DOMAIN l = 1..Len(ds) /\ l = [i \in 1..Len(ds) |-> l[i]]
  BY <1>1
<1>3. IsSequence(l) /\ Len(l) = Len(ds)
  BY <1>1, <1>2, FunctionIsSequence
<1>4. \A i \in 1..Len(ds) : l[i] = id
  BY <1>1
<1>5. Pairs(l, ds) = LabelsOf(id, ds)
  BY <1>1, <1>3, <1>4 DEF Pairs, LabelsOf
<1> QED
  BY <1>3, <1>5

(* A sequence made of one value per place. *)
LEMMA MappedSequence ==
  ASSUME NEW s, IsSequence(s), NEW t, DOMAIN t = DOMAIN s,
         t = [i \in DOMAIN s |-> t[i]]
  PROVE  IsSequence(t) /\ Len(t) = Len(s)
<1>1. Len(s) \in Nat /\ DOMAIN s = 1..Len(s)
  BY SequenceFacts
<1> QED
  BY <1>1, FunctionIsSequence

(* The labels and descriptions of a sequence of nodes or children. *)
LabelSeqs(s) ==
  [k \in DOMAIN s |-> [d \in DOMAIN s[k].descriptions |-> s[k].id]]
DescriptionSeqs(s) == [k \in DOMAIN s |-> s[k].descriptions]

(* They are collected in step. *)
LEMMA LabelPairs ==
  ASSUME NEW s, IsSequence(s),
         \A k \in 1..Len(s) : IsSequence(s[k].descriptions)
  PROVE  LET a == FlattenSeq(LabelSeqs(s))
             b == FlattenSeq(DescriptionSeqs(s))
         IN  /\ IsSequence(a) /\ IsSequence(b) /\ Len(a) = Len(b)
             /\ Pairs(a, b) = Described(ToSet(s))
<1> DEFINE n == Len(s)
           q == LabelSeqs(s)
           r == DescriptionSeqs(s)
<1>1. n \in Nat /\ DOMAIN s = 1..n /\ ToSet(s) = {s[k] : k \in 1..n}
  BY SequenceFacts
<1>2. DOMAIN q = DOMAIN s /\ q = [k \in DOMAIN s |-> q[k]]
  BY DEF LabelSeqs
<1>3. DOMAIN r = DOMAIN s /\ r = [k \in DOMAIN s |-> r[k]]
  BY DEF DescriptionSeqs
<1>4. IsSequence(q) /\ Len(q) = n /\ IsSequence(r) /\ Len(r) = n
  <2> HIDE DEF q, r
  <2> QED
    BY <1>2, <1>3, MappedSequence
<1>5. ASSUME NEW k \in 1..n
      PROVE  /\ IsSequence(q[k]) /\ IsSequence(r[k]) /\ Len(q[k]) = Len(r[k])
             /\ Pairs(q[k], r[k]) = LabelsOf(s[k].id, s[k].descriptions)
  <2>1. IsSequence(s[k].descriptions)
    OBVIOUS
  <2>2. /\ q[k] = [d \in DOMAIN s[k].descriptions |-> s[k].id]
        /\ r[k] = s[k].descriptions
    BY <1>1 DEF LabelSeqs, DescriptionSeqs
  <2> HIDE DEF q, r
  <2> QED
    BY <2>1, <2>2, LabelRow
<1> HIDE DEF q, r
<1>6. /\ IsSequence(FlattenSeq(q)) /\ IsSequence(FlattenSeq(r))
      /\ Len(FlattenSeq(q)) = Len(FlattenSeq(r))
      /\ Pairs(FlattenSeq(q), FlattenSeq(r))
           = UNION {Pairs(q[k], r[k]) : k \in 1..n}
  BY <1>4, <1>5, FlattenPairs
<1>7. UNION {Pairs(q[k], r[k]) : k \in 1..n} = Described(ToSet(s))
  BY <1>1, <1>5 DEF Described, LabelsOf
<1> QED
  BY <1>6, <1>7 DEF q, r

(* Every description of a node is collected with the id of that node. *)
LEMMA NodeLabelPairs ==
  ASSUME NEW m \in Manifests
  PROVE  /\ IsSequence(NodeLabels(m)) /\ IsSequence(NodeDescriptions(m))
         /\ Len(NodeLabels(m)) = Len(NodeDescriptions(m))
         /\ Pairs(NodeLabels(m), NodeDescriptions(m)) = Described(NodesOf(m))
<1>1. /\ NodeLabels(m) = FlattenSeq(LabelSeqs(m.nodes))
      /\ NodeDescriptions(m) = FlattenSeq(DescriptionSeqs(m.nodes))
  BY DEF NodeLabels, NodeDescriptions, PerNode, LabelSeqs, DescriptionSeqs
<1>2. /\ IsSequence(m.nodes)
      /\ \A k \in 1..Len(m.nodes) : IsSequence(m.nodes[k].descriptions)
  BY ManifestFacts
<1> QED
  BY <1>1, <1>2, LabelPairs DEF NodesOf

(* Every description of a child is collected with the id of that child. *)
LEMMA ChildLabelPairs ==
  ASSUME NEW m \in Manifests
  PROVE  /\ IsSequence(ChildLabels(m)) /\ IsSequence(ChildDescriptions(m))
         /\ Len(ChildLabels(m)) = Len(ChildDescriptions(m))
         /\ Pairs(ChildLabels(m), ChildDescriptions(m))
              = Described(ChildrenOf(m))
<1> DEFINE a(k) == FlattenSeq(LabelSeqs(m.nodes[k].children))
           b(k) == FlattenSeq(DescriptionSeqs(m.nodes[k].children))
           q == [k \in DOMAIN m.nodes |-> a(k)]
           r == [k \in DOMAIN m.nodes |-> b(k)]
           n == Len(m.nodes)
<1>1. ChildLabels(m) = FlattenSeq(q) /\ ChildDescriptions(m) = FlattenSeq(r)
  BY DEF ChildLabels, ChildDescriptions, PerChild, PerNode, LabelSeqs,
         DescriptionSeqs
<1>2. n \in Nat /\ DOMAIN m.nodes = 1..n /\ IsSequence(m.nodes)
  BY ManifestFacts, SequenceFacts
<1>3. ASSUME NEW k \in 1..n
      PROVE  /\ IsSequence(a(k)) /\ IsSequence(b(k)) /\ Len(a(k)) = Len(b(k))
             /\ Pairs(a(k), b(k)) = Described(ToSet(m.nodes[k].children))
  <2>1. /\ IsSequence(m.nodes[k].children)
        /\ \A c \in 1..Len(m.nodes[k].children) :
             IsSequence(m.nodes[k].children[c].descriptions)
    BY ManifestFacts
  <2> QED
    BY <2>1, LabelPairs
<1> HIDE DEF a, b
<1>4. /\ DOMAIN q = DOMAIN m.nodes /\ q = [k \in DOMAIN m.nodes |-> q[k]]
      /\ DOMAIN r = DOMAIN m.nodes /\ r = [k \in DOMAIN m.nodes |-> r[k]]
  OBVIOUS
<1>5. \A k \in 1..n : q[k] = a(k) /\ r[k] = b(k)
  BY <1>2
<1> HIDE DEF q, r
<1>6. IsSequence(q) /\ Len(q) = n /\ IsSequence(r) /\ Len(r) = n
  BY <1>2, <1>4, MappedSequence
<1>6a. \A k \in 1..n :
         /\ IsSequence(q[k]) /\ IsSequence(r[k]) /\ Len(q[k]) = Len(r[k])
         /\ Pairs(q[k], r[k]) = Described(ToSet(m.nodes[k].children))
  BY <1>3, <1>5
<1>6b. /\ IsSequence(FlattenSeq(q)) /\ IsSequence(FlattenSeq(r))
       /\ Len(FlattenSeq(q)) = Len(FlattenSeq(r))
       /\ Pairs(FlattenSeq(q), FlattenSeq(r))
            = UNION {Pairs(q[k], r[k]) : k \in 1..n}
  BY <1>6, <1>6a, FlattenPairs
<1>7. UNION {Pairs(q[k], r[k]) : k \in 1..n} = Described(ChildrenOf(m))
  <2>1. UNION {Pairs(q[k], r[k]) : k \in 1..n}
          = UNION {Described(ToSet(m.nodes[k].children)) : k \in 1..n}
    BY <1>6a
  <2>2. NodesOf(m) = {m.nodes[k] : k \in 1..n}
    BY ManifestFacts
  <2>3. UNION {Described(ToSet(m.nodes[k].children)) : k \in 1..n}
          = UNION {Described(ToSet(nd.children)) : nd \in NodesOf(m)}
    BY <2>2
  <2>4. UNION {Described(ToSet(nd.children)) : nd \in NodesOf(m)}
          = Described(ChildrenOf(m))
    BY DEF Described, ChildrenOf
  <2> QED
    BY <2>1, <2>3, <2>4
<1> QED
  BY <1>1, <1>6b, <1>7

-----------------------------------------------------------------------------
(* The meta rows.                                                          *)

LEMMA EmitsOfFacts ==
  ASSUME NEW nd, IsSequence(nd.emits)
  PROVE  /\ IsSequence(EmitsOf(nd))
         /\ ToSet(EmitsOf(nd)) # {}
         /\ ToSet(EmitsOf(nd)) \ {Unkeyed} = ToSet(nd.emits) \ {Unkeyed}
<1>1. CASE nd.emits = <<>>
  <2>1. EmitsOf(nd) = <<Unkeyed>>
    BY <1>1 DEF EmitsOf
  <2>2. <<Unkeyed>> \in Seq({Unkeyed})
    OBVIOUS
  <2>3. IsSequence(<<Unkeyed>>)
    BY <2>2, SequenceOf
  <2>4. ToSet(<<Unkeyed>>) = {Unkeyed}
    BY DEF ToSet
  <2>5. ToSet(<<>>) = {}
    BY DEF ToSet
  <2> QED
    BY <1>1, <2>1, <2>3, <2>4, <2>5
<1>2. CASE nd.emits # <<>>
  <2>1. EmitsOf(nd) = nd.emits
    BY <1>2 DEF EmitsOf
  <2>2. Len(nd.emits) \in Nat \ {0}
    BY <1>2, EmptySeq DEF IsSequence
  <2>3. 1 \in 1..Len(nd.emits)
    BY <2>2
  <2>4. nd.emits[1] \in ToSet(nd.emits)
    BY <2>3, SequenceFacts
  <2> QED
    BY <2>1, <2>4
<1> QED
  BY <1>1, <1>2

(* The rows of one node and of one child. *)
NodeRowsOf(nd) ==
  {NodeRow(nd.children # <<>>, nd.id, e) : e \in ToSet(EmitsOf(nd))}
ChildRowsOf(nd, ch) == {ChildRow(nd.id, ch.id, e) : e \in ToSet(EmitsOf(ch))}

LEMMA NodeMetaRows ==
  ASSUME NEW m \in Manifests
  PROVE  /\ IsSequence(NodeMetas(m))
         /\ ToSet(NodeMetas(m)) = UNION {NodeRowsOf(nd) : nd \in NodesOf(m)}
<1> DEFINE row(k) == [e \in DOMAIN EmitsOf(m.nodes[k]) |->
                        NodeRow(m.nodes[k].children # <<>>, m.nodes[k].id,
                                EmitsOf(m.nodes[k])[e])]
           q == [k \in DOMAIN m.nodes |-> row(k)]
           n == Len(m.nodes)
<1>1. NodeMetas(m) = FlattenSeq(q)
  BY DEF NodeMetas, PerNode
<1>2. n \in Nat /\ DOMAIN m.nodes = 1..n /\ IsSequence(m.nodes)
  BY ManifestFacts, SequenceFacts
<1>3. ASSUME NEW k \in 1..n
      PROVE  IsSequence(row(k)) /\ ToSet(row(k)) = NodeRowsOf(m.nodes[k])
  <2>1. IsSequence(EmitsOf(m.nodes[k]))
    BY ManifestFacts, EmitsOfFacts
  <2>2. DOMAIN row(k) = DOMAIN EmitsOf(m.nodes[k])
        /\ row(k) = [e \in DOMAIN EmitsOf(m.nodes[k]) |-> row(k)[e]]
    OBVIOUS
  <2>3. IsSequence(row(k))
    <3> HIDE DEF row
    <3> QED
      BY <2>1, <2>2, MappedSequence
  <2>4. ToSet(row(k)) = NodeRowsOf(m.nodes[k])
    BY DEF ToSet, NodeRowsOf
  <2> QED
    BY <2>3, <2>4
<1> HIDE DEF row
<1>4. DOMAIN q = DOMAIN m.nodes /\ q = [k \in DOMAIN m.nodes |-> q[k]]
  OBVIOUS
<1>5. \A k \in 1..n : q[k] = row(k)
  BY <1>2
<1> HIDE DEF q
<1>6. IsSequence(q) /\ Len(q) = n
  BY <1>2, <1>4, MappedSequence
<1>7. \A k \in 1..n :
        IsSequence(q[k]) /\ ToSet(q[k]) = NodeRowsOf(m.nodes[k])
  BY <1>3, <1>5
<1>8. /\ IsSequence(FlattenSeq(q))
      /\ ToSet(FlattenSeq(q)) = UNION {ToSet(q[k]) : k \in 1..n}
  BY <1>6, <1>7, FlattenElements
<1>9. UNION {ToSet(q[k]) : k \in 1..n}
        = UNION {NodeRowsOf(nd) : nd \in NodesOf(m)}
  <2>1. NodesOf(m) = {m.nodes[k] : k \in 1..n}
    BY ManifestFacts
  <2> QED
    BY <1>7, <2>1
<1> QED
  BY <1>1, <1>8, <1>9

LEMMA ChildMetaRows ==
  ASSUME NEW m \in Manifests
  PROVE  /\ IsSequence(ChildMetas(m))
         /\ ToSet(ChildMetas(m))
              = UNION {UNION {ChildRowsOf(nd, ch) : ch \in ToSet(nd.children)} :
                         nd \in NodesOf(m)}
<1> DEFINE row(k, c) ==
             [e \in DOMAIN EmitsOf(m.nodes[k].children[c]) |->
                ChildRow(m.nodes[k].id, m.nodes[k].children[c].id,
                         EmitsOf(m.nodes[k].children[c])[e])]
           qk(k) == [c \in DOMAIN m.nodes[k].children |-> row(k, c)]
           q == [k \in DOMAIN m.nodes |-> FlattenSeq(qk(k))]
           n == Len(m.nodes)
           Rows(nd) == UNION {ChildRowsOf(nd, ch) : ch \in ToSet(nd.children)}
<1>1. ChildMetas(m) = FlattenSeq(q)
  BY DEF ChildMetas, PerChild, PerNode
<1>2. n \in Nat /\ DOMAIN m.nodes = 1..n /\ IsSequence(m.nodes)
  BY ManifestFacts, SequenceFacts
<1>3. ASSUME NEW k \in 1..n, NEW c \in 1..Len(m.nodes[k].children)
      PROVE  /\ IsSequence(row(k, c))
             /\ ToSet(row(k, c))
                  = ChildRowsOf(m.nodes[k], m.nodes[k].children[c])
  <2> DEFINE ch == m.nodes[k].children[c]
  <2>1. IsSequence(EmitsOf(ch))
    BY ManifestFacts, EmitsOfFacts
  <2>2. DOMAIN row(k, c) = DOMAIN EmitsOf(ch)
        /\ row(k, c) = [e \in DOMAIN EmitsOf(ch) |-> row(k, c)[e]]
    OBVIOUS
  <2>3. IsSequence(row(k, c))
    <3> HIDE DEF row
    <3> QED
      BY <2>1, <2>2, MappedSequence
  <2>4. ToSet(row(k, c)) = ChildRowsOf(m.nodes[k], ch)
    BY DEF ToSet, ChildRowsOf
  <2> QED
    BY <2>3, <2>4
<1> HIDE DEF row
<1>4. ASSUME NEW k \in 1..n
      PROVE  /\ IsSequence(FlattenSeq(qk(k)))
             /\ ToSet(FlattenSeq(qk(k))) = Rows(m.nodes[k])
  <2> DEFINE s == m.nodes[k].children
             w == Len(s)
             p == qk(k)
  <2>1. /\ IsSequence(s) /\ DOMAIN s = 1..w /\ w \in Nat
        /\ ToSet(s) = {s[c] : c \in 1..w}
    BY ManifestFacts, SequenceFacts
  <2>2. DOMAIN p = DOMAIN s /\ p = [c \in DOMAIN s |-> p[c]]
    OBVIOUS
  <2>3. \A c \in 1..w : p[c] = row(k, c)
    BY <2>1
  <2> HIDE DEF p, qk
  <2>4. IsSequence(p) /\ Len(p) = w
    BY <2>1, <2>2, MappedSequence
  <2>5. \A c \in 1..w :
          IsSequence(p[c]) /\ ToSet(p[c]) = ChildRowsOf(m.nodes[k], s[c])
    BY <1>3, <2>3
  <2>6. /\ IsSequence(FlattenSeq(p))
        /\ ToSet(FlattenSeq(p)) = UNION {ToSet(p[c]) : c \in 1..w}
    BY <2>4, <2>5, FlattenElements
  <2>7. UNION {ToSet(p[c]) : c \in 1..w} = Rows(m.nodes[k])
    BY <2>1, <2>5
  <2> QED
    BY <2>6, <2>7 DEF p
<1> HIDE DEF qk, Rows
<1>5. DOMAIN q = DOMAIN m.nodes /\ q = [k \in DOMAIN m.nodes |-> q[k]]
  OBVIOUS
<1>6. \A k \in 1..n : q[k] = FlattenSeq(qk(k))
  BY <1>2
<1> HIDE DEF q
<1>7. IsSequence(q) /\ Len(q) = n
  BY <1>2, <1>5, MappedSequence
<1>8. \A k \in 1..n : IsSequence(q[k]) /\ ToSet(q[k]) = Rows(m.nodes[k])
  BY <1>4, <1>6
<1>9. /\ IsSequence(FlattenSeq(q))
      /\ ToSet(FlattenSeq(q)) = UNION {ToSet(q[k]) : k \in 1..n}
  BY <1>7, <1>8, FlattenElements
<1>10. UNION {ToSet(q[k]) : k \in 1..n} = UNION {Rows(nd) : nd \in NodesOf(m)}
  <2>1. NodesOf(m) = {m.nodes[k] : k \in 1..n}
    BY ManifestFacts
  <2> QED
    BY <1>8, <2>1
<1> QED
  BY <1>1, <1>9, <1>10 DEF Rows

-----------------------------------------------------------------------------
(* The meta rows say what the manifest says.                               *)

HasKids(nd) == nd.children # <<>>

LEMMA NodeRowFields ==
  ASSUME NEW kids, NEW id, NEW e, NEW r, r = NodeRow(kids, id, e)
  PROVE  r.id = id /\ r.data[1] = kids /\ r.data[2] = e
BY DEF NodeRow

LEMMA NodeRowsSay ==
  ASSUME NEW m \in Manifests, NEW nd \in NodesOf(m)
  PROVE  LET nmetas == ToSet(NodeMetas(m))
         IN  /\ {r.data[2] : r \in {q \in nmetas : q.id = nd.id}} \ {Unkeyed}
                  = Emitted(m, nd.id)
             /\ (\E r \in nmetas : r.id = nd.id /\ r.data[1])
                  <=> \E o \in NodesOf(m) : o.id = nd.id /\ o.children # <<>>
<1> DEFINE nmetas == ToSet(NodeMetas(m))
<1>1. nmetas = UNION {NodeRowsOf(o) : o \in NodesOf(m)}
  BY NodeMetaRows
<1>2. \A o \in NodesOf(m) :
        /\ ToSet(EmitsOf(o)) # {}
        /\ ToSet(EmitsOf(o)) \ {Unkeyed} = ToSet(o.emits) \ {Unkeyed}
  <2>1. \A o \in NodesOf(m) : IsSequence(o.emits)
    BY ManifestsAssumption DEF NodesOf
  <2> QED
    BY <2>1, EmitsOfFacts
<1> HIDE DEF nmetas
<1>3. ASSUME NEW r \in nmetas
      PROVE  \E o \in NodesOf(m) : \E e \in ToSet(EmitsOf(o)) :
               /\ r.id = o.id /\ r.data[2] = e
               /\ r.data[1] = HasKids(o)
  <2>1. PICK o \in NodesOf(m) : r \in NodeRowsOf(o)
    BY <1>1
  <2>2. PICK e \in ToSet(EmitsOf(o)) : r = NodeRow(HasKids(o), o.id, e)
    BY <2>1, Zenon DEF NodeRowsOf, HasKids
  <2>3. /\ r.id = o.id /\ r.data[2] = e
        /\ r.data[1] = HasKids(o)
    BY <2>2, NodeRowFields
  <2> QED
    BY <2>3, Zenon
<1>4. ASSUME NEW o \in NodesOf(m), NEW e \in ToSet(EmitsOf(o))
      PROVE  \E r \in nmetas :
               /\ r.id = o.id /\ r.data[2] = e
               /\ r.data[1] = HasKids(o)
  <2> DEFINE r == NodeRow(HasKids(o), o.id, e)
  <2>1. r \in NodeRowsOf(o)
    BY Zenon DEF NodeRowsOf, HasKids
  <2>2. r \in nmetas
    <3> HIDE DEF r
    <3> QED
      BY <1>1, <2>1
  <2>3. /\ r.id = o.id /\ r.data[2] = e
        /\ r.data[1] = HasKids(o)
    BY NodeRowFields
  <2> QED
    BY <2>2, <2>3, Zenon
<1>5. {r.data[2] : r \in {q \in nmetas : q.id = nd.id}} \ {Unkeyed}
        = Emitted(m, nd.id)
  <2> DEFINE E == {r.data[2] : r \in {q \in nmetas : q.id = nd.id}}
  <2>1. ASSUME NEW e \in E, e # Unkeyed PROVE e \in Emitted(m, nd.id)
    <3>1. PICK r \in nmetas : r.id = nd.id /\ e = r.data[2]
      OBVIOUS
    <3>2. PICK o \in NodesOf(m) : r.id = o.id /\ r.data[2] \in ToSet(EmitsOf(o))
      BY <1>3, Zenon
    <3>3. o.id = nd.id /\ e \in ToSet(o.emits)
      BY <1>2, <2>1, <3>1, <3>2
    <3> QED
      BY <2>1, <3>3 DEF Emitted
  <2>2. ASSUME NEW e \in Emitted(m, nd.id) PROVE e \in E /\ e # Unkeyed
    <3>1. PICK o \in NodesOf(m) :
            o.id = nd.id /\ e \in ToSet(o.emits) /\ e # Unkeyed
      BY DEF Emitted
    <3>2. e \in ToSet(EmitsOf(o))
      BY <1>2, <3>1
    <3>3. PICK r \in nmetas : r.id = o.id /\ r.data[2] = e
      BY <1>4, <3>2, Zenon
    <3> QED
      BY <3>1, <3>3
  <2>3. Unkeyed \notin Emitted(m, nd.id)
    BY DEF Emitted
  <2> QED
    BY <2>1, <2>2, <2>3
<1>6. (\E r \in nmetas : r.id = nd.id /\ r.data[1])
        <=> \E o \in NodesOf(m) : o.id = nd.id /\ o.children # <<>>
  <2>1. \A o \in NodesOf(m) : \E e : e \in ToSet(EmitsOf(o))
    BY <1>2
  <2>2. ASSUME NEW r \in nmetas, r.id = nd.id, r.data[1]
        PROVE  \E o \in NodesOf(m) : o.id = nd.id /\ HasKids(o)
    <3>1. PICK o \in NodesOf(m) : r.id = o.id /\ r.data[1] = HasKids(o)
      BY <1>3, Zenon
    <3>2. HasKids(o)
      BY <2>2, <3>1, Zenon
    <3> QED
      BY <2>2, <3>1, <3>2
  <2>3. ASSUME NEW o \in NodesOf(m), o.id = nd.id, HasKids(o)
        PROVE  \E r \in nmetas : r.id = nd.id /\ r.data[1]
    <3>1. PICK e \in ToSet(EmitsOf(o)) : TRUE
      BY <2>1
    <3>2. PICK r \in nmetas : r.id = o.id /\ r.data[1] = HasKids(o)
      BY <1>4, Zenon
    <3>3. r.data[1]
      BY <2>3, <3>2, Zenon
    <3> QED
      BY <2>3, <3>2, <3>3, Zenon
  <2> QED
    BY <2>2, <2>3, Zenon DEF HasKids
<1> QED
  BY <1>5, <1>6 DEF nmetas

LEMMA ChildRowsSay ==
  ASSUME NEW m \in Manifests
  PROVE  LET cmetas == ToSet(ChildMetas(m))
         IN  /\ {<<r.data[1], r.id>> : r \in cmetas}
                  = {<<p[1], p[2].id>> : p \in ParentOf(m)}
             /\ ChildEmits(m) = {<<r.data[1], r.id, r.data[2]>> :
                                   r \in {q \in cmetas : q.data[2] # Unkeyed}}
<1> DEFINE cmetas == ToSet(ChildMetas(m))
<1>1. cmetas = UNION {UNION {ChildRowsOf(nd, ch) : ch \in ToSet(nd.children)} :
                        nd \in NodesOf(m)}
  BY ChildMetaRows
<1>2. \A nd \in NodesOf(m) : \A ch \in ToSet(nd.children) :
        /\ ToSet(EmitsOf(ch)) # {}
        /\ ToSet(EmitsOf(ch)) \ {Unkeyed} = ToSet(ch.emits) \ {Unkeyed}
  <2>1. \A nd \in NodesOf(m) : \A ch \in ToSet(nd.children) :
          IsSequence(ch.emits)
    BY ManifestsAssumption DEF NodesOf
  <2> QED
    BY <2>1, EmitsOfFacts
<1> HIDE DEF cmetas
<1>3. \A r \in cmetas :
        \E nd \in NodesOf(m) : \E ch \in ToSet(nd.children) :
        \E e \in ToSet(EmitsOf(ch)) :
          r.id = ch.id /\ r.data[2] = e /\ r.data[1] = nd.id
  BY <1>1 DEF ChildRowsOf, ChildRow
<1>4. ASSUME NEW nd \in NodesOf(m), NEW ch \in ToSet(nd.children),
             NEW e \in ToSet(EmitsOf(ch))
      PROVE  \E r \in cmetas :
               r.id = ch.id /\ r.data[2] = e /\ r.data[1] = nd.id
  <2> DEFINE r == ChildRow(nd.id, ch.id, e)
  <2>1. r \in ChildRowsOf(nd, ch)
    BY DEF ChildRowsOf
  <2>2. r \in cmetas
    <3> HIDE DEF r
    <3> QED
      BY <1>1, <2>1
  <2>3. r.id = ch.id /\ r.data[2] = e /\ r.data[1] = nd.id
    BY DEF ChildRow
  <2> QED
    BY <2>2, <2>3, Zenon
<1>5. /\ \A p \in ParentOf(m) : \E nd \in NodesOf(m) :
           \E ch \in ToSet(nd.children) :
             p = <<nd.id, ch>> /\ p[1] = nd.id /\ p[2] = ch
      /\ \A nd \in NodesOf(m) : \A ch \in ToSet(nd.children) :
           <<nd.id, ch>> \in ParentOf(m)
  BY DEF ParentOf
<1>6. {<<r.data[1], r.id>> : r \in cmetas}
        = {<<p[1], p[2].id>> : p \in ParentOf(m)}
  <2>1. ASSUME NEW r \in cmetas
        PROVE  \E p \in ParentOf(m) : <<r.data[1], r.id>> = <<p[1], p[2].id>>
    <3>0. PICK nd \in NodesOf(m) : \E ch \in ToSet(nd.children) :
            r.id = ch.id /\ r.data[1] = nd.id
      BY <1>3
    <3>1. PICK ch \in ToSet(nd.children) : r.id = ch.id /\ r.data[1] = nd.id
      BY <3>0
    <3>2. <<nd.id, ch>> \in ParentOf(m)
      BY <1>5
    <3> QED
      BY <3>1, <3>2
  <2>2. ASSUME NEW p \in ParentOf(m)
        PROVE  \E r \in cmetas : <<r.data[1], r.id>> = <<p[1], p[2].id>>
    <3>0. PICK nd \in NodesOf(m) : \E ch \in ToSet(nd.children) :
            p[1] = nd.id /\ p[2] = ch
      BY <1>5
    <3>1. PICK ch \in ToSet(nd.children) : p[1] = nd.id /\ p[2] = ch
      BY <3>0
    <3>2. PICK e : e \in ToSet(EmitsOf(ch))
      BY <1>2
    <3>3. PICK r \in cmetas : r.id = ch.id /\ r.data[1] = nd.id
      BY <1>4, <3>2
    <3> QED
      BY <3>1, <3>3
  <2> QED
    BY <2>1, <2>2
<1>7. ChildEmits(m) = {<<r.data[1], r.id, r.data[2]>> :
                         r \in {q \in cmetas : q.data[2] # Unkeyed}}
  <2> DEFINE E == {<<r.data[1], r.id, r.data[2]>> :
                     r \in {q \in cmetas : q.data[2] # Unkeyed}}
  <2>1. ASSUME NEW x \in ChildEmits(m) PROVE x \in E
    <3>1. PICK p \in ParentOf(m) :
            \E e \in ToSet(p[2].emits) \ {Unkeyed} : x = <<p[1], p[2].id, e>>
      BY DEF ChildEmits
    <3>2. PICK e \in ToSet(p[2].emits) \ {Unkeyed} : x = <<p[1], p[2].id, e>>
      BY <3>1
    <3>2a. PICK nd \in NodesOf(m) : \E ch \in ToSet(nd.children) :
             p[1] = nd.id /\ p[2] = ch
      BY <1>5
    <3>3. PICK ch \in ToSet(nd.children) : p[1] = nd.id /\ p[2] = ch
      BY <3>2a
    <3>4. e \in ToSet(EmitsOf(ch)) /\ e # Unkeyed
      BY <1>2, <3>2, <3>3
    <3>5. PICK r \in cmetas :
            r.id = ch.id /\ r.data[2] = e /\ r.data[1] = nd.id
      BY <1>4, <3>4
    <3> QED
      BY <3>2, <3>3, <3>4, <3>5
  <2>2. ASSUME NEW x \in E PROVE x \in ChildEmits(m)
    <3>1. PICK r \in cmetas :
            r.data[2] # Unkeyed /\ x = <<r.data[1], r.id, r.data[2]>>
      OBVIOUS
    <3>1a. PICK nd \in NodesOf(m) : \E ch \in ToSet(nd.children) :
             \E e \in ToSet(EmitsOf(ch)) :
               r.id = ch.id /\ r.data[2] = e /\ r.data[1] = nd.id
      BY <1>3
    <3>1b. PICK ch \in ToSet(nd.children) : \E e \in ToSet(EmitsOf(ch)) :
             r.id = ch.id /\ r.data[2] = e /\ r.data[1] = nd.id
      BY <3>1a
    <3>2. PICK e \in ToSet(EmitsOf(ch)) :
            r.id = ch.id /\ r.data[2] = e /\ r.data[1] = nd.id
      BY <3>1b
    <3>3. e \in ToSet(ch.emits) \ {Unkeyed} /\ x = <<nd.id, ch.id, e>>
      BY <1>2, <3>1, <3>2
    <3>4. <<nd.id, ch>> \in ParentOf(m)
      BY <1>5
    <3>5. PICK p \in ParentOf(m) : p = <<nd.id, ch>> /\ p[1] = nd.id /\ p[2] = ch
      BY <3>4
    <3>6. x = <<p[1], p[2].id, e>> /\ e \in ToSet(p[2].emits) \ {Unkeyed}
      BY <3>3, <3>5
    <3> QED
      BY <3>6 DEF ChildEmits
  <2> QED
    BY <2>1, <2>2
<1> QED
  BY <1>6, <1>7 DEF cmetas

LEMMA RowsSay ==
  ASSUME NEW m \in Manifests, NEW nr, Labels(nr) = Described(NodesOf(m)),
         NEW cr, Labels(cr) = Described(ChildrenOf(m))
  PROVE  Says(m, nr, cr, ToSet(NodeMetas(m)), ToSet(ChildMetas(m)))
BY NodeRowsSay, ChildRowsSay, Zenon DEF Says

-----------------------------------------------------------------------------
(* The layout of the file of a manifest.                                   *)

NodesLen(m)    == Len(NodeDescriptions(m))
ChildrenLen(m) == Len(ChildDescriptions(m))
NmetasLen(m)   == Len(NodeMetas(m))
CmetasLen(m)   == Len(ChildMetas(m))
NmetaOff(m)    == 2 + NodesLen(m) + ChildrenLen(m)
CmetaOff(m)    == NmetaOff(m) + NmetasLen(m)
Total(m)       == CmetaOff(m) + CmetasLen(m)

Header(m) ==
  [kind |-> "header", size |-> Total(m),
   nodeOff |-> 2, nodes |-> NodesLen(m),
   childOff |-> 2 + NodesLen(m), children |-> ChildrenLen(m),
   nmetaOff |-> NmetaOff(m), nmetas |-> NmetasLen(m),
   cmetaOff |-> CmetaOff(m), cmetas |-> CmetasLen(m)]

(* The block at position i, behind the header. *)
NodeBlock(m, i)  == Embedded(NodeLabels(m)[i], NodeDescriptions(m)[i])
ChildBlock(m, i) == Embedded(ChildLabels(m)[i], ChildDescriptions(m)[i])

Block(m, i) ==
  IF i <= 2 THEN StrTab
  ELSE IF i <= 2 + NodesLen(m) THEN NodeBlock(m, i - 2)
  ELSE IF i <= NmetaOff(m) THEN ChildBlock(m, i - (2 + NodesLen(m)))
  ELSE IF i <= CmetaOff(m) THEN NodeMetas(m)[i - NmetaOff(m)]
  ELSE ChildMetas(m)[i - CmetaOff(m)]

(* A prefix of the file of m, of which the header may not be filled in,    *)
(* and one of which it is.                                                 *)
Laid(m, b) ==
  /\ IsSequence(b) /\ Len(b) <= Total(m)
  /\ \A i \in 2..Len(b) : b[i] = Block(m, i)

FileOf(m, b) == Laid(m, b) /\ (b # <<>> => b[1] = Header(m))

(* The sizes and offsets are natural numbers, in order. *)
LayoutOK(m) ==
  /\ NodesLen(m) \in Nat /\ ChildrenLen(m) \in Nat
  /\ NmetasLen(m) \in Nat /\ CmetasLen(m) \in Nat
  /\ Len(NodeLabels(m)) = NodesLen(m)
  /\ Len(ChildLabels(m)) = ChildrenLen(m)
  /\ NmetaOff(m) = 2 + NodesLen(m) + ChildrenLen(m)
  /\ CmetaOff(m) = NmetaOff(m) + NmetasLen(m)
  /\ Total(m) = CmetaOff(m) + CmetasLen(m)
  /\ NmetaOff(m) \in Nat /\ CmetaOff(m) \in Nat /\ Total(m) \in Nat
  /\ 2 + NodesLen(m) <= NmetaOff(m) /\ NmetaOff(m) <= CmetaOff(m)
  /\ CmetaOff(m) <= Total(m)

LEMMA LayoutFacts ==
  ASSUME NEW m \in Manifests
  PROVE  LayoutOK(m)
<1>1. /\ NodesLen(m) \in Nat /\ ChildrenLen(m) \in Nat
      /\ NmetasLen(m) \in Nat /\ CmetasLen(m) \in Nat
  BY NodeLabelPairs, ChildLabelPairs, NodeMetaRows, ChildMetaRows,
     SequenceFacts DEF NodesLen, ChildrenLen, NmetasLen, CmetasLen
<1>2. Len(NodeLabels(m)) = NodesLen(m) /\ Len(ChildLabels(m)) = ChildrenLen(m)
  BY NodeLabelPairs, ChildLabelPairs DEF NodesLen, ChildrenLen
<1> QED
  BY <1>1, <1>2 DEF LayoutOK, NmetaOff, CmetaOff, Total

LEMMA Behind ==
  ASSUME NEW lo \in Nat, NEW off \in Nat, NEW n \in Nat, NEW i \in 1..n,
         lo <= off
  PROVE  /\ off + i \in Nat /\ i \in Nat
         /\ ~(off + i <= lo) /\ off + i <= off + n /\ (off + i) - off = i
OBVIOUS

(* Which part a block of the file belongs to. *)
LEMMA BlockIs ==
  ASSUME NEW m \in Manifests
  PROVE  /\ Block(m, 2) = StrTab
         /\ \A i \in 1..NodesLen(m) : Block(m, 2 + i) = NodeBlock(m, i)
         /\ \A i \in 1..ChildrenLen(m) :
              Block(m, (2 + NodesLen(m)) + i) = ChildBlock(m, i)
         /\ \A i \in 1..NmetasLen(m) :
              Block(m, NmetaOff(m) + i) = NodeMetas(m)[i]
         /\ \A i \in 1..CmetasLen(m) :
              Block(m, CmetaOff(m) + i) = ChildMetas(m)[i]
<1>0. LayoutOK(m)
  BY LayoutFacts
<1> USE <1>0 DEF LayoutOK
<1>1. Block(m, 2) = StrTab
  BY DEF Block
<1>2. ASSUME NEW i \in 1..NodesLen(m) PROVE Block(m, 2 + i) = NodeBlock(m, i)
  <2>1. ~(2 + i <= 2) /\ 2 + i <= 2 + NodesLen(m) /\ (2 + i) - 2 = i
    OBVIOUS
  <2> QED
    BY <2>1 DEF Block
<1>3. ASSUME NEW i \in 1..ChildrenLen(m)
      PROVE  Block(m, (2 + NodesLen(m)) + i) = ChildBlock(m, i)
  <2> DEFINE j == (2 + NodesLen(m)) + i
  <2>1. /\ ~(j <= 2) /\ ~(j <= 2 + NodesLen(m)) /\ j <= NmetaOff(m)
        /\ j - (2 + NodesLen(m)) = i
    OBVIOUS
  <2> HIDE DEF j
  <2>2. Block(m, j) = ChildBlock(m, i)
    BY <2>1 DEF Block
  <2> QED
    BY <2>2 DEF j
<1>4. ASSUME NEW i \in 1..NmetasLen(m)
      PROVE  Block(m, NmetaOff(m) + i) = NodeMetas(m)[i]
  <2> DEFINE j == NmetaOff(m) + i
  <2>0. 2 \in Nat /\ 2 + NodesLen(m) \in Nat /\ 2 <= NmetaOff(m)
    OBVIOUS
  <2>1. /\ ~(j <= 2) /\ ~(j <= 2 + NodesLen(m)) /\ ~(j <= NmetaOff(m))
        /\ j <= CmetaOff(m) /\ j - NmetaOff(m) = i
    <3> HIDE DEF LayoutOK
    <3>1. /\ NmetaOff(m) \in Nat /\ NmetasLen(m) \in Nat
          /\ 2 + NodesLen(m) <= NmetaOff(m) /\ NmetaOff(m) <= NmetaOff(m)
          /\ CmetaOff(m) = NmetaOff(m) + NmetasLen(m)
      BY DEF LayoutOK
    <3> HIDE <1>0
    <3> QED
      BY <2>0, <3>1, Behind
  <2> HIDE DEF j
  <2>2. Block(m, j) = NodeMetas(m)[i]
    BY <2>1 DEF Block
  <2> QED
    BY <2>2 DEF j
<1>5. ASSUME NEW i \in 1..CmetasLen(m)
      PROVE  Block(m, CmetaOff(m) + i) = ChildMetas(m)[i]
  <2> DEFINE j == CmetaOff(m) + i
  <2>0. 2 \in Nat /\ 2 + NodesLen(m) \in Nat
    OBVIOUS
  <2>1. /\ ~(j <= 2) /\ ~(j <= 2 + NodesLen(m)) /\ ~(j <= NmetaOff(m))
        /\ ~(j <= CmetaOff(m)) /\ j - CmetaOff(m) = i
    <3> HIDE DEF LayoutOK
    <3>1. /\ CmetaOff(m) \in Nat /\ CmetasLen(m) \in Nat
          /\ NmetaOff(m) \in Nat
          /\ 2 + NodesLen(m) <= NmetaOff(m) /\ NmetaOff(m) <= CmetaOff(m)
      BY DEF LayoutOK
    <3>2. 2 <= CmetaOff(m) /\ 2 + NodesLen(m) <= CmetaOff(m)
      BY <3>1 DEF LayoutOK
    <3> HIDE <1>0
    <3> QED
      BY <2>0, <3>1, <3>2, Behind
  <2> HIDE DEF j
  <2>2. Block(m, j) = ChildMetas(m)[i]
    BY <2>1 DEF Block
  <2> QED
    BY <2>2 DEF j
<1> QED
  BY <1>1, <1>2, <1>3, <1>4, <1>5

(* The rows of the embeddings, as the file and as the indexes hold them. *)
NodeBlocks(m)  == {NodeBlock(m, i) : i \in 1..NodesLen(m)}
ChildBlocks(m) == {ChildBlock(m, i) : i \in 1..ChildrenLen(m)}

LEMMA EmbeddedFields ==
  ASSUME NEW id, NEW d
  PROVE  Embedded(id, d).id = id /\ Embedded(id, d).data = d
BY DEF Embedded

LEMMA BlocksSay ==
  ASSUME NEW m \in Manifests
  PROVE  Says(m, NodeBlocks(m), ChildBlocks(m), ToSet(NodeMetas(m)),
              ToSet(ChildMetas(m)))
<1>1. Labels(NodeBlocks(m)) = Pairs(NodeLabels(m), NodeDescriptions(m))
  <2>1. \A i \in 1..NodesLen(m) :
          /\ NodeBlock(m, i).id = NodeLabels(m)[i]
          /\ NodeBlock(m, i).data = NodeDescriptions(m)[i]
    BY EmbeddedFields DEF NodeBlock
  <2> QED
    BY <2>1, LayoutFacts DEF LayoutOK, Labels, NodeBlocks, Pairs
<1>2. Labels(ChildBlocks(m)) = Pairs(ChildLabels(m), ChildDescriptions(m))
  <2>1. \A i \in 1..ChildrenLen(m) :
          /\ ChildBlock(m, i).id = ChildLabels(m)[i]
          /\ ChildBlock(m, i).data = ChildDescriptions(m)[i]
    BY EmbeddedFields DEF ChildBlock
  <2> QED
    BY <2>1, LayoutFacts DEF LayoutOK, Labels, ChildBlocks, Pairs
<1>3. /\ Labels(NodeBlocks(m)) = Described(NodesOf(m))
      /\ Labels(ChildBlocks(m)) = Described(ChildrenOf(m))
  BY <1>1, <1>2, NodeLabelPairs, ChildLabelPairs
<1> QED
  BY <1>3, RowsSay

(* The parts of a complete file. *)
LEMMA PartsOfFile ==
  ASSUME NEW m \in Manifests, NEW b, Laid(m, b), Len(b) = Total(m)
  PROVE  /\ Part(b, 2, NodesLen(m)) = NodeBlocks(m)
         /\ Part(b, 2 + NodesLen(m), ChildrenLen(m)) = ChildBlocks(m)
         /\ Part(b, NmetaOff(m), NmetasLen(m)) = ToSet(NodeMetas(m))
         /\ Part(b, CmetaOff(m), CmetasLen(m)) = ToSet(ChildMetas(m))
<1>0. LayoutOK(m)
  BY LayoutFacts
<1>1. IsSequence(b) /\ \A i \in 2..Total(m) : b[i] = Block(m, i)
  BY DEF Laid
<1>2. Part(b, 2, NodesLen(m)) = NodeBlocks(m)
  <2>1. 2 \in Nat /\ NodesLen(m) \in Nat /\ 2 + NodesLen(m) <= Len(b)
    BY <1>0 DEF LayoutOK
  <2>2. Part(b, 2, NodesLen(m)) = Slice(b, 2, NodesLen(m))
    BY <1>1, <2>1, PartFacts
  <2>3. \A i \in 1..NodesLen(m) :
          2 + i \in 2..Total(m)
    BY <1>0 DEF LayoutOK
  <2>4. \A i \in 1..NodesLen(m) :
          b[2 + i] = NodeBlock(m, i)
    BY <1>1, <2>3, BlockIs
  <2> QED
    BY <2>2, <2>4 DEF Slice, NodeBlocks
<1>3. Part(b, 2 + NodesLen(m), ChildrenLen(m)) = ChildBlocks(m)
  <2>1. /\ 2 + NodesLen(m) \in Nat /\ ChildrenLen(m) \in Nat
        /\ 2 + NodesLen(m) + ChildrenLen(m) <= Len(b)
    BY <1>0 DEF LayoutOK
  <2>2. Part(b, 2 + NodesLen(m), ChildrenLen(m))
          = Slice(b, 2 + NodesLen(m), ChildrenLen(m))
    BY <1>1, <2>1, PartFacts
  <2>3. \A i \in 1..ChildrenLen(m) :
          (2 + NodesLen(m)) + i \in 2..Total(m)
    BY <1>0 DEF LayoutOK
  <2>4. \A i \in 1..ChildrenLen(m) :
          b[(2 + NodesLen(m)) + i] = ChildBlock(m, i)
    BY <1>1, <2>3, BlockIs
  <2> QED
    BY <2>2, <2>4 DEF Slice, ChildBlocks
<1>4. Part(b, NmetaOff(m), NmetasLen(m)) = ToSet(NodeMetas(m))
  <2>1. /\ NmetaOff(m) \in Nat /\ NmetasLen(m) \in Nat
        /\ NmetaOff(m) + NmetasLen(m) <= Len(b)
    BY <1>0 DEF LayoutOK
  <2>2. Part(b, NmetaOff(m), NmetasLen(m))
          = Slice(b, NmetaOff(m), NmetasLen(m))
    BY <1>1, <2>1, PartFacts
  <2>3. ASSUME NEW i \in 1..NmetasLen(m)
        PROVE  NmetaOff(m) + i \in 2..Total(m)
    <3>1. 2 <= NmetaOff(m) /\ NmetaOff(m) + NmetasLen(m) <= Total(m)
      BY <1>0 DEF LayoutOK
    <3>2. Total(m) \in Nat
      BY <1>0 DEF LayoutOK
    <3> QED
      BY <2>1, <3>1, <3>2
  <2>4. \A i \in 1..NmetasLen(m) :
          b[NmetaOff(m) + i] = NodeMetas(m)[i]
    BY <1>1, <2>3, BlockIs
  <2>5. ToSet(NodeMetas(m)) = {NodeMetas(m)[i] : i \in 1..NmetasLen(m)}
    BY NodeMetaRows, SequenceFacts DEF NmetasLen
  <2> QED
    BY <2>2, <2>4, <2>5 DEF Slice
<1>5. Part(b, CmetaOff(m), CmetasLen(m)) = ToSet(ChildMetas(m))
  <2>1. /\ CmetaOff(m) \in Nat /\ CmetasLen(m) \in Nat
        /\ CmetaOff(m) + CmetasLen(m) <= Len(b)
    BY <1>0 DEF LayoutOK
  <2>2. Part(b, CmetaOff(m), CmetasLen(m))
          = Slice(b, CmetaOff(m), CmetasLen(m))
    BY <1>1, <2>1, PartFacts
  <2>3. \A i \in 1..CmetasLen(m) :
          CmetaOff(m) + i \in 2..Total(m)
    BY <1>0 DEF LayoutOK
  <2>4. \A i \in 1..CmetasLen(m) :
          b[CmetaOff(m) + i] = ChildMetas(m)[i]
    BY <1>1, <2>3, BlockIs
  <2>5. ToSet(ChildMetas(m)) = {ChildMetas(m)[i] : i \in 1..CmetasLen(m)}
    BY ChildMetaRows, SequenceFacts DEF CmetasLen
  <2> QED
    BY <2>2, <2>4, <2>5 DEF Slice
<1> QED
  BY <1>2, <1>3, <1>4, <1>5

-----------------------------------------------------------------------------
(* The inductive invariant.  The build lays the blocks of its manifest one *)
(* behind the other, from the string table on, and fills in the header at  *)
(* the end.                                                                *)
BuildPcs ==
  {"idle", "validate", "labels", "metas", "embed", "embedChild", "rows",
   "header", "create", "write", "flush"}

Embedding == {"embed", "embedChild", "rows", "header"}
Done      == {"create", "write", "flush"}

LabelsBuilt ==
  nodeLabel = NodeLabels(manifest) /\ childLabel = ChildLabels(manifest)

MetasBuilt ==
  /\ nmeta = NodeMetas(manifest) /\ cmeta = ChildMetas(manifest)
  /\ nodeOff = 2

BuildInv ==
  /\ bpc \in BuildPcs
  /\ manifest \in Manifests \cup {None}
  /\ bpc # "idle" => manifest \in Manifests
  /\ bpc \notin {"idle", "validate"} => Valid(manifest)
  /\ bpc \in {"labels", "metas"} => buf = <<NoHeader>>
  /\ bpc \in Embedding \cup {"metas"} => LabelsBuilt
  /\ bpc \in Embedding => MetasBuilt /\ Laid(manifest, buf)
  /\ bpc = "embed" => Len(buf) \in 2..(2 + NodesLen(manifest))
  /\ bpc \in {"embedChild", "rows", "header"} =>
       childOff = 2 + NodesLen(manifest)
  /\ bpc = "embedChild" =>
       Len(buf) \in (2 + NodesLen(manifest))..NmetaOff(manifest)
  /\ bpc = "rows" => Len(buf) = NmetaOff(manifest)
  /\ bpc = "header" => /\ Len(buf) = Total(manifest)
                       /\ nmetaOff = NmetaOff(manifest)
                       /\ cmetaOff = CmetaOff(manifest)
  /\ bpc \in Done => FileOf(manifest, buf) /\ Len(buf) = Total(manifest)

(* What is in the file is a prefix of the file of one valid manifest. *)
DiskInv ==
  /\ written \in Manifests \cup {None}
  /\ written = None => disk = <<>>
  /\ written # None => Valid(written) /\ FileOf(written, disk)
  /\ bpc \in {"write", "flush"} => written = manifest

ReaderTypes ==
  /\ rpc \in Reading \cup {"closed", "refused", "failed", "dead"}
  /\ source \in Manifests \cup {None}
  /\ fsz \in Nat /\ looked.count \in Nat
  /\ bound.nmetaOff \in Nat /\ bound.nmetas \in Nat
  /\ bound.cmetaOff \in Nat /\ bound.cmetas \in Nat
  /\ IsSequence(nodeIndex) /\ IsSequence(childIndex)
  /\ Len(nodeIndex) <= fsz /\ Len(childIndex) <= fsz
  /\ disturbed \in BOOLEAN /\ harm \in {"none", "fault", "overflow"}
  /\ rpc \in {"closed", "header"} => nodeIndex = <<>>
  /\ rpc \in {"closed", "header", "nodes"} => childIndex = <<>>

(* A reader whose file was not truncated still has the blocks it mapped    *)
(* in front of it, and has loaded them in order.                           *)
Quiet == rpc \in Reading /\ ~disturbed

NodesLoaded ==
  /\ Len(nodeIndex) <= NodesLen(source)
  /\ \A i \in 1..Len(nodeIndex) : nodeIndex[i] = NodeBlock(source, i)

ChildrenLoaded ==
  /\ Len(childIndex) <= ChildrenLen(source)
  /\ \A i \in 1..Len(childIndex) : childIndex[i] = ChildBlock(source, i)

BoundTo(m) ==
  /\ bound.nmetaOff = NmetaOff(m) /\ bound.nmetas = NmetasLen(m)
  /\ bound.cmetaOff = CmetaOff(m) /\ bound.cmetas = CmetasLen(m)

QuietInv ==
  /\ source = written /\ written \in Manifests
  /\ 1 <= fsz /\ fsz <= Len(disk)
  /\ rpc # "header" => fsz = Total(source)
  /\ NodesLoaded /\ ChildrenLoaded
  /\ rpc \in {"children", "bind", "open", "fill"} =>
       Len(nodeIndex) = NodesLen(source)
  /\ rpc \in {"bind", "open", "fill"} => Len(childIndex) = ChildrenLen(source)
  /\ rpc \in {"open", "fill"} => BoundTo(source)
  /\ rpc = "fill" => Cardinality(EmitsFound(looked)) = looked.count

ReaderInv ==
  /\ ReaderTypes
  /\ Quiet => QuietInv
  /\ RefusedOnlyFor /\ HarmOnlyDisturbed

RcOK == rc \in {"none", "ok", "error", "eformat", "fault", "killed"}

IInv == BuildInv /\ DiskInv /\ ReaderInv /\ RcOK

-----------------------------------------------------------------------------
(* The steps of the build keep the layout. *)
LEMMA NoHeaderLaid ==
  ASSUME NEW m \in Manifests
  PROVE  Laid(m, <<NoHeader>>) /\ Len(<<NoHeader>>) = 1
<1>1. <<NoHeader>> \in Seq({NoHeader}) /\ Len(<<NoHeader>>) = 1
  OBVIOUS
<1>2. IsSequence(<<NoHeader>>)
  BY <1>1, SequenceOf
<1>3. 1 <= Total(m)
  BY LayoutFacts DEF LayoutOK
<1> QED
  BY <1>1, <1>2, <1>3 DEF Laid

LEMMA LaidFacts ==
  ASSUME NEW m \in Manifests, NEW b, Laid(m, b)
  PROVE  IsSequence(b) /\ Len(b) \in Nat /\ Len(b) <= Total(m)
BY SequenceFacts DEF Laid

LEMMA LaidAppend ==
  ASSUME NEW m \in Manifests, NEW b, Laid(m, b), Len(b) >= 1,
         Len(b) < Total(m), NEW x, x = Block(m, Len(b) + 1)
  PROVE  Laid(m, Append(b, x)) /\ Len(Append(b, x)) = Len(b) + 1
<1>1. Len(b) \in Nat /\ Total(m) \in Nat /\ IsSequence(b)
  BY LaidFacts, LayoutFacts DEF LayoutOK
<1> DEFINE c == Append(b, x)
<1>2. /\ IsSequence(c) /\ Len(c) = Len(b) + 1
      /\ \A i \in 1..Len(b) : c[i] = b[i]
      /\ c[Len(b) + 1] = x
  BY <1>1, Appended
<1>3. \A i \in 2..Len(b) : b[i] = Block(m, i)
  BY DEF Laid
<1> HIDE DEF c
<1>4. ASSUME NEW i \in 2..(Len(b) + 1) PROVE c[i] = Block(m, i)
  <2>1. CASE i = Len(b) + 1
    BY <1>2, <2>1
  <2>2. CASE i \in 2..Len(b)
    BY <1>1, <1>2, <1>3, <2>2
  <2> QED
    BY <1>1, <2>1, <2>2
<1>5. Laid(m, c)
  BY <1>1, <1>2, <1>4 DEF Laid
<1> QED
  BY <1>2, <1>5 DEF c

LEMMA LaidJoin ==
  ASSUME NEW m \in Manifests, NEW b, Laid(m, b), Len(b) = NmetaOff(m)
  PROVE  /\ Laid(m, b \o NodeMetas(m) \o ChildMetas(m))
         /\ Len(b \o NodeMetas(m) \o ChildMetas(m)) = Total(m)
<1>0. LayoutOK(m)
  BY LayoutFacts
<1>1. /\ IsSequence(b) /\ IsSequence(NodeMetas(m)) /\ IsSequence(ChildMetas(m))
      /\ \A i \in 2..NmetaOff(m) : b[i] = Block(m, i)
  BY NodeMetaRows, ChildMetaRows DEF Laid
<1> DEFINE c == b \o NodeMetas(m)
           d == c \o ChildMetas(m)
<1>2. /\ IsSequence(c) /\ Len(c) = CmetaOff(m)
      /\ \A i \in 1..NmetaOff(m) : c[i] = b[i]
      /\ \A i \in 1..NmetasLen(m) : c[NmetaOff(m) + i] = NodeMetas(m)[i]
  <2>1. Len(b) = NmetaOff(m) /\ Len(NodeMetas(m)) = NmetasLen(m)
        /\ NmetaOff(m) + NmetasLen(m) = CmetaOff(m)
    BY <1>0 DEF LayoutOK, NmetasLen
  <2> QED
    BY <1>1, <2>1, JoinedParts
<1> HIDE DEF c
<1>3. /\ IsSequence(d) /\ Len(d) = Total(m)
      /\ \A i \in 1..CmetaOff(m) : d[i] = c[i]
      /\ \A i \in 1..CmetasLen(m) : d[CmetaOff(m) + i] = ChildMetas(m)[i]
  <2>1. Len(c) = CmetaOff(m) /\ Len(ChildMetas(m)) = CmetasLen(m)
        /\ CmetaOff(m) + CmetasLen(m) = Total(m)
    BY <1>0, <1>2 DEF LayoutOK, CmetasLen
  <2> QED
    BY <1>1, <1>2, <2>1, JoinedParts
<1> HIDE DEF d
<1>4. ASSUME NEW i \in 2..Total(m) PROVE d[i] = Block(m, i)
  <2>1. CASE i <= NmetaOff(m)
    <3>1. i \in 1..CmetaOff(m) /\ i \in 1..NmetaOff(m) /\ i \in 2..NmetaOff(m)
      BY <1>0, <2>1 DEF LayoutOK
    <3> QED
      BY <1>1, <1>2, <1>3, <3>1
  <2>2. CASE ~(i <= NmetaOff(m)) /\ i <= CmetaOff(m)
    <3>1. PICK k \in 1..NmetasLen(m) : i = NmetaOff(m) + k
      <4>1. /\ NmetaOff(m) \in Nat /\ NmetasLen(m) \in Nat
            /\ i <= NmetaOff(m) + NmetasLen(m)
        BY <1>0, <2>2 DEF LayoutOK
      <4>2. i - NmetaOff(m) \in 1..NmetasLen(m)
        BY <2>2, <4>1
      <4>3. i = NmetaOff(m) + (i - NmetaOff(m))
        BY <2>2, <4>1
      <4> QED
        BY <4>2, <4>3
    <3>2. i \in 1..CmetaOff(m)
      BY <1>0, <2>2 DEF LayoutOK
    <3> QED
      BY <1>2, <1>3, <3>1, <3>2, BlockIs
  <2>3. CASE ~(i <= CmetaOff(m))
    <3>1. PICK k \in 1..CmetasLen(m) : i = CmetaOff(m) + k
      <4>1. /\ CmetaOff(m) \in Nat /\ CmetasLen(m) \in Nat
            /\ i <= CmetaOff(m) + CmetasLen(m)
        BY <1>0, <2>3 DEF LayoutOK
      <4>2. i - CmetaOff(m) \in 1..CmetasLen(m)
        BY <2>3, <4>1
      <4>3. i = CmetaOff(m) + (i - CmetaOff(m))
        BY <2>3, <4>1
      <4> QED
        BY <4>2, <4>3
    <3> QED
      BY <1>3, <3>1, BlockIs
  <2> QED
    BY <2>1, <2>2, <2>3
<1>5. Total(m) \in Nat
  BY <1>0 DEF LayoutOK
<1>6. Laid(m, d)
  BY <1>3, <1>4, <1>5 DEF Laid
<1> QED
  BY <1>3, <1>6 DEF c, d

LEMMA HeaderFilled ==
  ASSUME NEW m \in Manifests, NEW b, Laid(m, b), Len(b) = Total(m)
  PROVE  /\ FileOf(m, [b EXCEPT ![1] = Header(m)])
         /\ Len([b EXCEPT ![1] = Header(m)]) = Total(m)
<1>1. Len(b) \in Nat /\ 1 <= Len(b) /\ IsSequence(b)
  BY LaidFacts, LayoutFacts DEF LayoutOK
<1>2. \A i \in 2..Len(b) : b[i] = Block(m, i)
  BY DEF Laid
<1> DEFINE c == [b EXCEPT ![1] = Header(m)]
<1>3. /\ IsSequence(c) /\ Len(c) = Len(b) /\ c[1] = Header(m)
      /\ \A i \in 2..Len(b) : c[i] = b[i]
  <2>1. b # <<>>
    BY <1>1, EmptyIsSequence
  <2> QED
    BY <1>1, <2>1, Replaced
<1> HIDE DEF c
<1>4. Laid(m, c)
  BY <1>1, <1>2, <1>3 DEF Laid
<1> QED
  BY <1>3, <1>4 DEF c, FileOf

(* What is written next keeps the file a prefix of that of the manifest. *)
LEMMA NothingWritten ==
  ASSUME NEW m \in Manifests
  PROVE  FileOf(m, <<>>)
<1>1. IsSequence(<<>>) /\ Len(<<>>) = 0
  BY EmptyIsSequence
<1>2. 0 <= Total(m)
  BY LayoutFacts DEF LayoutOK
<1> QED
  BY <1>1, <1>2 DEF FileOf, Laid

LEMMA BlockWritten ==
  ASSUME NEW m \in Manifests, NEW b, FileOf(m, b), Len(b) = Total(m),
         NEW d, FileOf(m, d), Len(d) < Len(b)
  PROVE  /\ FileOf(m, Append(d, b[Len(d) + 1]))
         /\ Len(Append(d, b[Len(d) + 1])) = Len(d) + 1
         /\ \A i \in 1..Len(d) : Append(d, b[Len(d) + 1])[i] = d[i]
<1>1. /\ Len(d) \in Nat /\ Len(b) \in Nat /\ Total(m) \in Nat
      /\ IsSequence(d) /\ IsSequence(b) /\ Laid(m, d) /\ Laid(m, b)
  BY LaidFacts, LayoutFacts DEF LayoutOK, FileOf
<1> DEFINE x == b[Len(d) + 1]
           c == Append(d, x)
<1> HIDE DEF x
<1>2. /\ IsSequence(c) /\ Len(c) = Len(d) + 1
      /\ \A i \in 1..Len(d) : c[i] = d[i]
      /\ c[Len(d) + 1] = x
  BY <1>1, Appended
<1>3. /\ b # <<>>
      /\ b[1] = Header(m)
      /\ \A i \in 2..Len(b) : b[i] = Block(m, i)
  BY <1>1, EmptyIsSequence DEF FileOf, Laid
<1>4. CASE Len(d) = 0
  <2>1. x = Header(m)
    BY <1>3, <1>4 DEF x
  <2> HIDE DEF c
  <2> QED
    BY <1>1, <1>2, <1>4, <2>1 DEF FileOf, Laid, c, x
<1>5. CASE Len(d) >= 1
  <2>1. x = Block(m, Len(d) + 1)
    BY <1>1, <1>3, <1>5 DEF x
  <2>2. Laid(m, c)
    BY <1>1, <1>5, <2>1, LaidAppend
  <2>3. d # <<>> /\ d[1] = Header(m)
    BY <1>1, <1>5, EmptyIsSequence DEF FileOf
  <2> HIDE DEF c
  <2>4. c[1] = Header(m)
    BY <1>1, <1>2, <1>5, <2>3
  <2> QED
    BY <1>2, <2>2, <2>4 DEF FileOf, c, x
<1> QED
  BY <1>1, <1>4, <1>5

-----------------------------------------------------------------------------
(* The build. *)
LEMMA CleanupBuild ==
  ASSUME NEW result, Cleanup(result)
  PROVE  BuildInv'
BY DEF Cleanup, BuildInv, BuildPcs, Embedding, Done

LEMMA EmbedNodeBuild ==
  ASSUME BuildInv, EmbedNode
  PROVE  BuildInv'
<1> DEFINE m == manifest
           n == Len(buf)
<1>1. /\ bpc = "embed" /\ m \in Manifests /\ Valid(m) /\ LabelsBuilt
      /\ MetasBuilt /\ Laid(m, buf) /\ n \in 2..(2 + NodesLen(m))
  BY DEF EmbedNode, BuildInv, BuildPcs, Embedding
<1>2. /\ manifest' = m /\ UNCHANGED <<tables, nodeOff, nmetaOff, cmetaOff, rc>>
  BY DEF EmbedNode
<1>3. LayoutOK(m)
  BY <1>1, LayoutFacts
<1>4. n - nodeOff + 1 = n - 1 /\ NodesLen(m) \in Nat /\ n \in Nat
  BY <1>1, <1>3 DEF MetasBuilt, LayoutOK
<1>5. LabelsBuilt' /\ MetasBuilt'
  BY <1>1, <1>2 DEF LabelsBuilt, MetasBuilt, tables
<1>6. CASE n - 1 <= NodesLen(m)
  <2> DEFINE x == Embedded(nodeLabel[n - 1], NodeDescriptions(m)[n - 1])
  <2>1. buf' = Append(buf, x) /\ UNCHANGED <<bpc, childOff>>
    BY <1>4, <1>6 DEF EmbedNode, NodesLen
  <2>2. n - 1 \in 1..NodesLen(m) /\ 2 + (n - 1) = n + 1
    BY <1>1, <1>4, <1>6
  <2>3. x = NodeBlock(m, n - 1)
    BY <1>1 DEF NodeBlock, LabelsBuilt
  <2>4. x = Block(m, n + 1)
    BY <1>1, <2>2, <2>3, BlockIs
  <2>5. n >= 1 /\ n < Total(m)
    <3>1. /\ 2 + NodesLen(m) <= NmetaOff(m) /\ NmetaOff(m) <= CmetaOff(m)
          /\ CmetaOff(m) <= Total(m) /\ NmetaOff(m) \in Nat
          /\ CmetaOff(m) \in Nat /\ Total(m) \in Nat
      BY <1>3 DEF LayoutOK
    <3>2. n >= 1 /\ n < 2 + NodesLen(m)
      BY <1>1, <1>4, <1>6
    <3> QED
      BY <1>4, <3>1, <3>2
  <2> HIDE DEF x
  <2>6. Laid(m, buf') /\ Len(buf') = n + 1
    BY <1>1, <2>1, <2>4, <2>5, LaidAppend
  <2>7. Len(buf') \in 2..(2 + NodesLen(m))
    BY <1>1, <1>4, <1>6, <2>6
  <2> QED
    BY <1>1, <1>2, <1>5, <2>1, <2>6, <2>7
    DEF BuildInv, BuildPcs, Embedding, Done
<1>7. CASE ~(n - 1 <= NodesLen(m))
  <2>1. bpc' = "embedChild" /\ childOff' = n /\ UNCHANGED buf
    BY <1>4, <1>7 DEF EmbedNode, NodesLen
  <2>2. n = 2 + NodesLen(m)
    BY <1>1, <1>4, <1>7
  <2>3. n \in (2 + NodesLen(m))..NmetaOff(m)
    BY <1>3, <1>4, <2>2 DEF LayoutOK
  <2> QED
    BY <1>1, <1>2, <1>5, <2>1, <2>2, <2>3
    DEF BuildInv, BuildPcs, Embedding, Done
<1> QED
  BY <1>6, <1>7

LEMMA EmbedChildBuild ==
  ASSUME BuildInv, EmbedChild
  PROVE  BuildInv'
<1> DEFINE m   == manifest
           n   == Len(buf)
           off == 2 + NodesLen(m)
<1>1. /\ bpc = "embedChild" /\ m \in Manifests /\ Valid(m) /\ LabelsBuilt
      /\ MetasBuilt /\ Laid(m, buf) /\ n \in off..NmetaOff(m)
      /\ childOff = off
  BY DEF EmbedChild, BuildInv, BuildPcs, Embedding
<1>2. /\ manifest' = m /\ UNCHANGED <<tables, offsets, rc>>
  BY DEF EmbedChild
<1>3. LayoutOK(m)
  BY <1>1, LayoutFacts
<1>4. /\ off \in Nat /\ off >= 2 /\ n \in Nat /\ ChildrenLen(m) \in Nat
      /\ NmetaOff(m) = off + ChildrenLen(m) /\ off <= NmetaOff(m)
      /\ NmetaOff(m) \in Nat
  <2>1. n \in Nat
    BY <1>1, LaidFacts
  <2>2. /\ NodesLen(m) \in Nat /\ ChildrenLen(m) \in Nat
        /\ NmetaOff(m) = 2 + NodesLen(m) + ChildrenLen(m)
    BY <1>3 DEF LayoutOK
  <2> QED
    BY <2>1, <2>2
<1>5. LabelsBuilt' /\ MetasBuilt' /\ childOff' = off
  BY <1>1, <1>2 DEF LabelsBuilt, MetasBuilt, tables, offsets
<1> DEFINE k == n - childOff + 1
<1>5a. k = n - off + 1
  BY <1>1
<1>6. CASE k <= ChildrenLen(m)
  <2> DEFINE x == Embedded(childLabel[k], ChildDescriptions(m)[k])
  <2>1. buf' = Append(buf, x) /\ UNCHANGED bpc
    BY <1>6 DEF EmbedChild, ChildrenLen
  <2> HIDE DEF off
  <2>2. k \in 1..ChildrenLen(m) /\ off + k = n + 1
    BY <1>1, <1>4, <1>5a, <1>6
  <2>3. x = ChildBlock(m, k)
    BY <1>1 DEF ChildBlock, LabelsBuilt
  <2>4. x = Block(m, n + 1)
    <3>1. Block(m, off + k) = ChildBlock(m, k)
      BY <1>1, <2>2, BlockIs DEF off
    <3> QED
      BY <2>2, <2>3, <3>1
  <2>5. n >= 1 /\ n < Total(m) /\ n + 1 <= NmetaOff(m)
    <3>1. /\ NmetaOff(m) <= CmetaOff(m) /\ CmetaOff(m) <= Total(m)
          /\ CmetaOff(m) \in Nat /\ Total(m) \in Nat
      BY <1>3 DEF LayoutOK
    <3>2. n >= 1 /\ n + 1 <= NmetaOff(m)
      BY <1>1, <1>4, <1>5a, <1>6
    <3> QED
      BY <1>4, <3>1, <3>2
  <2> HIDE DEF x
  <2>6. Laid(m, buf') /\ Len(buf') = n + 1
    BY <1>1, <2>1, <2>4, <2>5, LaidAppend
  <2>7. Len(buf') \in off..NmetaOff(m)
    BY <1>1, <1>4, <2>5, <2>6
  <2> QED
    BY <1>1, <1>2, <1>5, <2>1, <2>6, <2>7
    DEF BuildInv, BuildPcs, Embedding, Done, off
<1>7. CASE ~(k <= ChildrenLen(m))
  <2>1. bpc' = "rows" /\ UNCHANGED buf
    BY <1>7 DEF EmbedChild, ChildrenLen
  <2>2. n = NmetaOff(m)
    <3> HIDE DEF off
    <3> QED
      BY <1>1, <1>4, <1>5a, <1>7
  <2> QED
    BY <1>1, <1>2, <1>5, <2>1, <2>2
    DEF BuildInv, BuildPcs, Embedding, Done
<1> QED
  BY <1>6, <1>7

LEMMA AppendMetasBuild ==
  ASSUME BuildInv, AppendMetas
  PROVE  BuildInv'
<1> DEFINE m == manifest
<1>1. /\ bpc = "rows" /\ m \in Manifests /\ Valid(m) /\ LabelsBuilt
      /\ MetasBuilt /\ Laid(m, buf) /\ Len(buf) = NmetaOff(m)
      /\ childOff = 2 + NodesLen(m)
  BY DEF AppendMetas, BuildInv, BuildPcs, Embedding
<1>2. /\ bpc' = "header" /\ manifest' = m
      /\ UNCHANGED <<tables, nodeOff, childOff, rc>>
  BY DEF AppendMetas
<1>3. LabelsBuilt' /\ MetasBuilt' /\ childOff' = 2 + NodesLen(m)
  BY <1>1, <1>2 DEF LabelsBuilt, MetasBuilt, tables
<1>4. /\ buf' = buf \o NodeMetas(m) \o ChildMetas(m)
      /\ nmetaOff' = NmetaOff(m) /\ cmetaOff' = CmetaOff(m)
  BY <1>1 DEF AppendMetas, MetasBuilt, CmetaOff, NmetasLen
<1>5. Laid(m, buf') /\ Len(buf') = Total(m)
  BY <1>1, <1>4, LaidJoin
<1> QED
  BY <1>1, <1>2, <1>3, <1>4, <1>5 DEF BuildInv, BuildPcs, Embedding, Done

LEMMA FillHeaderBuild ==
  ASSUME BuildInv, FillHeader
  PROVE  BuildInv'
<1> DEFINE m == manifest
<1>1. /\ bpc = "header" /\ m \in Manifests /\ Valid(m) /\ LabelsBuilt
      /\ MetasBuilt /\ Laid(m, buf) /\ Len(buf) = Total(m)
      /\ childOff = 2 + NodesLen(m)
      /\ nmetaOff = NmetaOff(m) /\ cmetaOff = CmetaOff(m)
  BY DEF FillHeader, BuildInv, BuildPcs, Embedding
<1>2. bpc' = "create" /\ manifest' = m
  BY DEF FillHeader
<1>3. /\ Len(nodeLabel) = NodesLen(m) /\ Len(childLabel) = ChildrenLen(m)
      /\ Len(nmeta) = NmetasLen(m) /\ Len(cmeta) = CmetasLen(m)
      /\ nodeOff = 2
  BY <1>1, LayoutFacts DEF LayoutOK, LabelsBuilt, MetasBuilt, NmetasLen,
     CmetasLen
<1>4. buf' = [buf EXCEPT ![1] = Header(m)]
  BY <1>1, <1>3 DEF FillHeader, Header
<1>5. FileOf(m, buf') /\ Len(buf') = Total(m)
  BY <1>1, <1>4, HeaderFilled
<1> QED
  BY <1>1, <1>2, <1>5 DEF BuildInv, BuildPcs, Embedding, Done

LEMMA BuildStepBuild ==
  ASSUME BuildInv, BuildStep
  PROVE  BuildInv'
<1>1. CASE BuildBegin
  BY <1>1 DEF BuildBegin, BuildInv, BuildPcs, Embedding, Done
<1>2. CASE Rejected
  BY <1>2, CleanupBuild DEF Rejected
<1>3. CASE Accepted
  BY <1>3 DEF Accepted, BuildInv, BuildPcs, Embedding, Done
<1>4. CASE CollectLabels
  <2>1. LabelsBuilt'
    BY <1>4 DEF CollectLabels, LabelsBuilt
  <2> QED
    BY <1>4, <2>1 DEF CollectLabels, BuildInv, BuildPcs, Embedding, Done
<1>5. CASE CollectMetas
  <2>1. /\ bpc = "metas" /\ bpc' = "embed" /\ manifest' = manifest
        /\ manifest \in Manifests /\ Valid(manifest)
        /\ buf = <<NoHeader>> /\ LabelsBuilt
        /\ UNCHANGED <<nodeLabel, childLabel>>
    BY <1>5 DEF CollectMetas, BuildInv, Embedding
  <2>2. Laid(manifest, buf) /\ Len(buf) = 1
    BY <2>1, NoHeaderLaid
  <2>3. nodeOff' = 2 /\ buf' = Append(buf, StrTab)
    BY <1>5, <2>2 DEF CollectMetas
  <2>4. LabelsBuilt' /\ MetasBuilt'
    BY <1>5, <2>1, <2>3 DEF CollectMetas, LabelsBuilt, MetasBuilt
  <2>5. StrTab = Block(manifest, Len(buf) + 1)
    BY <2>1, <2>2, BlockIs
  <2>6. 1 < Total(manifest) /\ NodesLen(manifest) \in Nat
    <3>1. LayoutOK(manifest)
      BY <2>1, LayoutFacts
    <3>2. /\ NodesLen(manifest) \in Nat /\ NmetaOff(manifest) \in Nat
          /\ CmetaOff(manifest) \in Nat /\ Total(manifest) \in Nat
          /\ 2 + NodesLen(manifest) <= NmetaOff(manifest)
          /\ NmetaOff(manifest) <= CmetaOff(manifest)
          /\ CmetaOff(manifest) <= Total(manifest)
      BY <3>1 DEF LayoutOK
    <3> QED
      BY <3>2
  <2>7. Laid(manifest, buf') /\ Len(buf') = 2
    <3>1. Len(buf) >= 1 /\ Len(buf) < Total(manifest)
      BY <2>2, <2>6
    <3>2. Laid(manifest, buf') /\ Len(buf') = Len(buf) + 1
      BY <2>1, <2>2, <2>3, <2>5, <3>1, LaidAppend
    <3> QED
      BY <2>2, <3>2
  <2>8. Len(buf') \in 2..(2 + NodesLen(manifest))
    BY <2>6, <2>7
  <2> QED
    BY <2>1, <2>4, <2>7, <2>8 DEF BuildInv, BuildPcs, Embedding, Done
<1>6. CASE BuildDereferences
  BY <1>6, CleanupBuild DEF BuildDereferences
<1>7. CASE EmbedNode
  BY <1>7, EmbedNodeBuild
<1>8. CASE EmbedChild
  BY <1>8, EmbedChildBuild
<1>9. CASE AppendMetas
  BY <1>9, AppendMetasBuild
<1>10. CASE FillHeader
  BY <1>10, FillHeaderBuild
<1>11. CASE BuildFails
  BY <1>11, CleanupBuild DEF BuildFails
<1> QED
  BY <1>1, <1>2, <1>3, <1>4, <1>5, <1>6, <1>7, <1>8, <1>9, <1>10, <1>11
  DEF BuildStep

(* The writer's steps leave the buffer, or end the build. *)
LEMMA WriterBuild ==
  ASSUME BuildInv, Writer
  PROVE  BuildInv'
<1>1. CASE Create
  BY <1>1 DEF Create, BuildInv, BuildPcs, Embedding, Done
<1>2. CASE CreateFails
  BY <1>2, CleanupBuild DEF CreateFails
<1>3. CASE WriteBlock
  BY <1>3 DEF WriteBlock, buildVars, tables, offsets, BuildInv, LabelsBuilt,
     MetasBuilt
<1>4. CASE WriteReturns
  BY <1>4 DEF WriteReturns, BuildInv, BuildPcs, Embedding, Done
<1>5. CASE WriteFails
  BY <1>5, CleanupBuild DEF WriteFails
<1>6. CASE Flushed
  BY <1>6, CleanupBuild DEF Flushed
<1>7. CASE BuilderDies
  BY <1>7, CleanupBuild DEF BuilderDies
<1> QED
  BY <1>1, <1>2, <1>3, <1>4, <1>5, <1>6, <1>7 DEF Writer

LEMMA HeaderFields ==
  ASSUME NEW m
  PROVE  /\ Header(m).size = Total(m) /\ Header(m).nodeOff = 2
         /\ Header(m).nodes = NodesLen(m)
         /\ Header(m).childOff = 2 + NodesLen(m)
         /\ Header(m).children = ChildrenLen(m)
         /\ Header(m).nmetaOff = NmetaOff(m) /\ Header(m).nmetas = NmetasLen(m)
         /\ Header(m).cmetaOff = CmetaOff(m) /\ Header(m).cmetas = CmetasLen(m)
BY DEF Header

(* A file that is laid out to the end says what its manifest says. *)
LEMMA FileSays ==
  ASSUME NEW m \in Manifests, NEW b, Laid(m, b), Len(b) = Total(m)
  PROVE  Says(m, Part(b, 2, NodesLen(m)),
              Part(b, 2 + NodesLen(m), ChildrenLen(m)),
              Part(b, NmetaOff(m), NmetasLen(m)),
              Part(b, CmetaOff(m), CmetasLen(m)))
BY PartsOfFile, BlocksSay

LEMMA BuildRoundTrip ==
  ASSUME BuildInv
  PROVE  RoundTrip
<1> SUFFICES ASSUME bpc = "create" PROVE RoundTrip
  BY DEF RoundTrip
<1> DEFINE m == manifest
<1>1. m \in Manifests /\ FileOf(m, buf) /\ Len(buf) = Total(m)
  BY DEF BuildInv, Done
<1>2. LayoutOK(m)
  BY <1>1, LayoutFacts
<1>3. 1 <= Total(m) /\ Total(m) \in Nat
  BY <1>2 DEF LayoutOK
<1>4. Laid(m, buf) /\ buf[1] = Header(m)
  BY <1>1, <1>3, EmptyIsSequence DEF FileOf
<1>5. Total(m) = 2 + NodesLen(m) + ChildrenLen(m) + NmetasLen(m) + CmetasLen(m)
  BY <1>2 DEF LayoutOK
<1>6. Says(m, Part(buf, 2, NodesLen(m)),
           Part(buf, 2 + NodesLen(m), ChildrenLen(m)),
           Part(buf, NmetaOff(m), NmetasLen(m)),
           Part(buf, CmetaOff(m), CmetasLen(m)))
  BY <1>1, <1>4, FileSays
<1> QED
  BY <1>4, <1>5, <1>6, HeaderFields DEF RoundTrip

-----------------------------------------------------------------------------
(* The file. *)
LEMMA DiskFacts ==
  ASSUME DiskInv, disk # <<>>
  PROVE  /\ written \in Manifests /\ Valid(written) /\ FileOf(written, disk)
         /\ disk[1] = Header(written)
         /\ IsSequence(disk) /\ Len(disk) \in Nat /\ Len(disk) <= Total(written)
<1>1. written \in Manifests /\ Valid(written) /\ FileOf(written, disk)
  BY DEF DiskInv
<1>2. Laid(written, disk) /\ disk[1] = Header(written)
  BY <1>1 DEF FileOf
<1> QED
  BY <1>1, <1>2, LaidFacts

LEMMA DiskIsSequence ==
  ASSUME DiskInv
  PROVE  IsSequence(disk) /\ Len(disk) \in Nat
BY DiskFacts, EmptyIsSequence

LEMMA WriteBlockDisk ==
  ASSUME BuildInv, DiskInv, WriteBlock
  PROVE  /\ DiskInv' /\ Len(disk') = Len(disk) + 1
         /\ \A i \in 1..Len(disk) : disk'[i] = disk[i]
<1>1. /\ bpc \in {"write", "flush"} /\ Len(disk) < Len(buf)
      /\ disk' = Append(disk, buf[Len(disk) + 1])
      /\ bpc' = bpc /\ manifest' = manifest /\ written' = written
  BY DEF WriteBlock, buildVars
<1>2. /\ written = manifest /\ manifest \in Manifests /\ Valid(manifest)
      /\ FileOf(manifest, buf) /\ Len(buf) = Total(manifest)
  BY <1>1 DEF BuildInv, DiskInv, Done
<1>3. manifest # None
  BY <1>2, ManifestsAssumption
<1>4. FileOf(manifest, disk)
  BY <1>2, <1>3 DEF DiskInv
<1>5. /\ FileOf(manifest, disk') /\ Len(disk') = Len(disk) + 1
      /\ \A i \in 1..Len(disk) : disk'[i] = disk[i]
  BY <1>1, <1>2, <1>4, BlockWritten
<1> QED
  BY <1>1, <1>2, <1>3, <1>5 DEF DiskInv

LEMMA BuilderDisk ==
  ASSUME BuildInv, DiskInv,
         \/ BuildStep /\ UNCHANGED fileVars
         \/ Writer
  PROVE  DiskInv'
<1>1. CASE BuildStep /\ UNCHANGED fileVars
  <2>1. bpc' \in {"write", "flush"} => FALSE
    <3>1. ASSUME NEW result, Cleanup(result) PROVE bpc' = "idle"
      BY <3>1 DEF Cleanup
    <3> QED
      BY <1>1, <3>1 DEF BuildStep, BuildBegin, Rejected, Accepted,
         CollectLabels, CollectMetas, BuildDereferences, EmbedNode, EmbedChild,
         AppendMetas, FillHeader, BuildFails
  <2> QED
    BY <1>1, <2>1 DEF DiskInv, fileVars
<1>2. CASE Create
  <2>1. /\ bpc = "create" /\ disk' = <<>> /\ written' = manifest
        /\ manifest' = manifest
    BY <1>2 DEF Create
  <2>2. manifest \in Manifests /\ Valid(manifest)
    BY <2>1 DEF BuildInv
  <2>3. FileOf(manifest, <<>>) /\ manifest # None
    BY <2>2, NothingWritten, ManifestsAssumption
  <2> QED
    BY <2>1, <2>2, <2>3 DEF DiskInv
<1>3. CASE WriteBlock
  BY <1>3, WriteBlockDisk
<1>4. CASE WriteReturns
  BY <1>4 DEF WriteReturns, DiskInv, fileVars
<1>5. CASE CreateFails \/ WriteFails \/ Flushed \/ BuilderDies
  BY <1>5 DEF CreateFails, WriteFails, Flushed, BuilderDies, Cleanup, DiskInv,
     fileVars
<1> QED
  BY <1>1, <1>2, <1>3, <1>4, <1>5 DEF Writer

-----------------------------------------------------------------------------
(* The reader, while it is the builder that moves. *)
LEMMA RowsPresent ==
  ASSUME NEW m \in Manifests, BoundTo(m), NEW kind
  PROVE  RowsOf(kind) \subseteq 1..Total(m)
<1>1. /\ NmetaOff(m) \in Nat /\ NmetasLen(m) \in Nat /\ CmetaOff(m) \in Nat
      /\ CmetasLen(m) \in Nat /\ CmetaOff(m) = NmetaOff(m) + NmetasLen(m)
      /\ Total(m) = CmetaOff(m) + CmetasLen(m)
  BY LayoutFacts DEF LayoutOK
<1>2. {NmetaOff(m) + i : i \in 1..NmetasLen(m)} \subseteq 1..Total(m)
  BY <1>1
<1>3. {CmetaOff(m) + i : i \in 1..CmetasLen(m)} \subseteq 1..Total(m)
  BY <1>1
<1> QED
  BY <1>2, <1>3 DEF BoundTo, RowsOf

LEMMA QuietReader ==
  ASSUME DiskInv, ReaderInv, Quiet
  PROVE  /\ source = written /\ source \in Manifests /\ Valid(source)
         /\ LayoutOK(source) /\ disk # <<>> /\ disk[1] = Header(source)
         /\ fsz \in Nat /\ 1 <= fsz /\ fsz <= Len(disk) /\ Len(disk) \in Nat
         /\ Len(disk) <= Total(source) /\ Laid(source, disk)
         /\ Total(source) \in Nat
<1>1. QuietInv /\ fsz \in Nat
  BY DEF ReaderInv, ReaderTypes
<1>2. /\ source = written /\ source \in Manifests /\ 1 <= fsz
      /\ fsz <= Len(disk)
  BY <1>1 DEF QuietInv
<1>3. Len(disk) \in Nat
  BY DiskIsSequence
<1>4. disk # <<>>
  BY <1>1, <1>2, <1>3, EmptyIsSequence
<1>5. LayoutOK(source) /\ Total(source) \in Nat
  BY <1>2, LayoutFacts DEF LayoutOK
<1> QED
  BY <1>1, <1>2, <1>4, <1>5, DiskFacts DEF FileOf

LEMMA ReaderStays ==
  ASSUME ReaderInv, UNCHANGED <<fileVars, readerVars, ghosts>>
  PROVE  ReaderInv'
<1>1. /\ UNCHANGED <<disk, written, rpc, fsz, nodeIndex, childIndex, bound>>
      /\ UNCHANGED <<looked, source, disturbed, harm>>
  BY DEF fileVars, readerVars, ghosts
<1>2. ReaderTypes' /\ RefusedOnlyFor' /\ HarmOnlyDisturbed'
  BY <1>1 DEF ReaderInv, ReaderTypes, RefusedOnlyFor, HarmOnlyDisturbed
<1>3. EmitsFound(looked)' = EmitsFound(looked)
  BY <1>1 DEF EmitsFound, RowsOf
<1>4. NodesLoaded' = NodesLoaded /\ ChildrenLoaded' = ChildrenLoaded
  BY <1>1 DEF NodesLoaded, ChildrenLoaded
<1>5. Quiet' => QuietInv'
  BY <1>1, <1>3, <1>4 DEF ReaderInv, Quiet, QuietInv, BoundTo
<1> QED
  BY <1>2, <1>5 DEF ReaderInv

LEMMA WriteBlockReader ==
  ASSUME BuildInv, DiskInv, ReaderInv, WriteBlock
  PROVE  ReaderInv'
<1>1. /\ UNCHANGED <<written, rpc, fsz, nodeIndex, childIndex, bound>>
      /\ UNCHANGED <<looked, source, disturbed, harm>>
  BY DEF WriteBlock, readerVars, ghosts
<1>2. ReaderTypes' /\ RefusedOnlyFor' /\ HarmOnlyDisturbed'
  BY <1>1 DEF ReaderInv, ReaderTypes, RefusedOnlyFor, HarmOnlyDisturbed
<1>3. /\ Len(disk') = Len(disk) + 1
      /\ \A i \in 1..Len(disk) : disk'[i] = disk[i]
  BY WriteBlockDisk
<1>4. ASSUME Quiet' PROVE QuietInv'
  <2>1. Quiet /\ QuietInv
    BY <1>1, <1>4 DEF Quiet, ReaderInv
  <2>2. /\ source \in Manifests /\ fsz \in Nat /\ Len(disk) \in Nat
        /\ fsz <= Len(disk)
    BY <2>1, QuietReader
  <2>3. fsz <= Len(disk')
    BY <1>3, <2>2
  <2>4. ASSUME rpc = "fill" PROVE EmitsFound(looked)' = EmitsFound(looked)
    <3>1. BoundTo(source) /\ fsz = Total(source)
      BY <2>1, <2>4 DEF QuietInv
    <3>2. RowsOf(looked.kind) \subseteq 1..fsz
      BY <2>2, <3>1, RowsPresent
    <3>3. \A i \in RowsOf(looked.kind) : disk'[i] = disk[i]
      BY <1>3, <2>2, <3>2
    <3>4. RowsOf(looked.kind)' = RowsOf(looked.kind)
      BY <1>1 DEF RowsOf
    <3> QED
      BY <1>1, <3>3, <3>4 DEF EmitsFound
  <2>5. NodesLoaded' = NodesLoaded /\ ChildrenLoaded' = ChildrenLoaded
    BY <1>1 DEF NodesLoaded, ChildrenLoaded
  <2> QED
    BY <1>1, <2>1, <2>3, <2>4, <2>5 DEF QuietInv, BoundTo
<1> QED
  BY <1>2, <1>4 DEF ReaderInv

LEMMA CreateReader ==
  ASSUME ReaderInv, Create
  PROVE  ReaderInv'
<1>1. /\ UNCHANGED <<rpc, fsz, nodeIndex, childIndex, bound>>
      /\ UNCHANGED <<looked, source, harm>>
      /\ disturbed' = (disturbed \/ rpc \in Reading)
  BY DEF Create, readerVars
<1>2. disturbed' \in BOOLEAN /\ (disturbed => disturbed')
      /\ (rpc \in Reading => disturbed')
  BY <1>1 DEF ReaderInv, ReaderTypes
<1>3. ReaderTypes'
  BY <1>1, <1>2 DEF ReaderInv, ReaderTypes
<1>4. RefusedOnlyFor' /\ HarmOnlyDisturbed'
  BY <1>1, <1>2 DEF ReaderInv, RefusedOnlyFor, HarmOnlyDisturbed
<1>5. ~Quiet'
  BY <1>1, <1>2 DEF Quiet
<1> QED
  BY <1>3, <1>4, <1>5 DEF ReaderInv

LEMMA WriterReader ==
  ASSUME BuildInv, DiskInv, ReaderInv, Writer
  PROVE  ReaderInv'
<1>1. CASE UNCHANGED <<fileVars, readerVars, ghosts>>
  BY <1>1, ReaderStays
<1>2. CASE Create
  BY <1>2, CreateReader
<1>3. CASE WriteBlock
  BY <1>3, WriteBlockReader
<1> QED
  BY <1>1, <1>2, <1>3 DEF Writer, CreateFails, WriteReturns, WriteFails,
     Flushed, BuilderDies

-----------------------------------------------------------------------------
(* The steps of the reader. *)

(* The labels that kc_hnsw_add is given: that of a node is never empty,    *)
(* that of a child is the id of a child with a description.                *)
LEMMA NodeBlockId ==
  ASSUME NEW m \in Manifests, Valid(m), NEW i \in 1..NodesLen(m)
  PROVE  NodeBlock(m, i).id # EmptyId
<1> DEFINE a == NodeLabels(m)
           b == NodeDescriptions(m)
<1>1. Len(a) = NodesLen(m) /\ Pairs(a, b) = Described(NodesOf(m))
  BY NodeLabelPairs DEF NodesLen
<1>2. <<a[i], b[i]>> \in Described(NodesOf(m))
  BY <1>1 DEF Pairs
<1>3. PICK nd \in NodesOf(m) :
        <<a[i], b[i]>> \in LabelsOf(nd.id, nd.descriptions)
  BY <1>2 DEF Described, LabelsOf
<1>4. a[i] = nd.id
  BY <1>3 DEF LabelsOf
<1>5. nd.id # EmptyId
  BY DEF Valid, NodesOf
<1> QED
  BY <1>4, <1>5, EmbeddedFields DEF NodeBlock

LEMMA ChildBlockId ==
  ASSUME NEW m \in Manifests, NEW i \in 1..ChildrenLen(m),
         ChildBlock(m, i).id = EmptyId
  PROVE  \E ch \in ChildrenOf(m) : ch.id = EmptyId /\ ch.descriptions # <<>>
<1> DEFINE a == ChildLabels(m)
           b == ChildDescriptions(m)
<1>1. Len(a) = ChildrenLen(m) /\ Pairs(a, b) = Described(ChildrenOf(m))
  BY ChildLabelPairs DEF ChildrenLen
<1>2. <<a[i], b[i]>> \in Described(ChildrenOf(m))
  BY <1>1 DEF Pairs
<1>3. PICK ch \in ChildrenOf(m) :
        <<a[i], b[i]>> \in LabelsOf(ch.id, ch.descriptions)
  BY <1>2 DEF Described, LabelsOf
<1>4. a[i] = ch.id /\ b[i] \in ToSet(ch.descriptions)
  BY <1>3 DEF LabelsOf
<1>5. ch.descriptions # <<>>
  BY <1>4 DEF ToSet
<1>6. a[i] = EmptyId
  BY EmbeddedFields DEF ChildBlock
<1> QED
  BY <1>4, <1>5, <1>6

(* A reader that stops reading keeps its types and has only to say why. *)
LEMMA ReaderLeaves ==
  ASSUME ReaderInv, rpc' \in {"refused", "failed", "dead"},
         UNCHANGED <<fsz, nodeIndex, childIndex, bound, source, disturbed>>,
         looked'.count \in Nat, harm' \in {"none", "fault", "overflow"},
         RefusedOnlyFor', HarmOnlyDisturbed'
  PROVE  ReaderInv'
<1>1. ReaderTypes'
  BY DEF ReaderInv, ReaderTypes, Reading
<1>2. ~Quiet'
  BY DEF Quiet, Reading
<1> QED
  BY <1>1, <1>2 DEF ReaderInv

(* A read of a block faults only when the file was truncated. *)
LEMMA FaultsReader ==
  ASSUME ReaderInv, NEW needs, Faults(needs),
         ~disturbed => \A i \in needs : Present(i)
  PROVE  ReaderInv'
<1>1. /\ rpc' = "dead" /\ harm' = "fault"
      /\ UNCHANGED <<fsz, nodeIndex, childIndex, bound, looked, source>>
      /\ disturbed' = disturbed
  BY DEF Faults
<1>2. disturbed
  BY DEF Faults
<1>3. looked'.count \in Nat
  BY <1>1 DEF ReaderInv, ReaderTypes
<1>4. RefusedOnlyFor' /\ HarmOnlyDisturbed'
  BY <1>1, <1>2 DEF RefusedOnlyFor, HarmOnlyDisturbed
<1> QED
  BY <1>1, <1>3, <1>4, ReaderLeaves

LEMMA OpenMapReader ==
  ASSUME DiskInv, ReaderInv, OpenMap
  PROVE  ReaderInv'
<1>1. /\ rpc = "closed" /\ disk # <<>> /\ rpc' = "header" /\ fsz' = Len(disk)
      /\ source' = written /\ disk' = disk /\ written' = written
      /\ UNCHANGED <<nodeIndex, childIndex, bound, looked, disturbed, harm>>
  BY DEF OpenMap, fileVars
<1>2. /\ nodeIndex = <<>> /\ childIndex = <<>>
      /\ Len(nodeIndex) = 0 /\ Len(childIndex) = 0
  BY <1>1, EmptyIsSequence DEF ReaderInv, ReaderTypes
<1>3. written \in Manifests /\ Len(disk) \in Nat /\ IsSequence(disk)
  BY <1>1, DiskFacts
<1>4. 1 <= Len(disk)
  <2>1. disk \in Seq(ToSet(disk))
    BY <1>3 DEF IsSequence
  <2>2. Len(disk) # 0
    BY <1>1, <2>1, EmptySeq
  <2> QED
    BY <1>3, <2>2
<1>5. ReaderTypes'
  BY <1>1, <1>2, <1>3 DEF ReaderInv, ReaderTypes, Reading
<1>6. NodesLen(written) \in Nat /\ ChildrenLen(written) \in Nat
  BY <1>3, LayoutFacts DEF LayoutOK
<1>7. NodesLoaded' /\ ChildrenLoaded'
  BY <1>1, <1>2, <1>6 DEF NodesLoaded, ChildrenLoaded
<1>8. QuietInv'
  BY <1>1, <1>3, <1>4, <1>7 DEF QuietInv
<1>9. RefusedOnlyFor' /\ HarmOnlyDisturbed'
  BY <1>1 DEF ReaderInv, RefusedOnlyFor, HarmOnlyDisturbed
<1> QED
  BY <1>5, <1>8, <1>9 DEF ReaderInv

LEMMA OpenEmptyReader ==
  ASSUME DiskInv, ReaderInv, OpenEmpty
  PROVE  ReaderInv'
<1>1. /\ rpc' = "refused" /\ source' = None
      /\ UNCHANGED <<fsz, nodeIndex, childIndex, bound, looked, disturbed>>
      /\ harm' = harm
  BY DEF OpenEmpty
<1>2. ReaderTypes'
  BY <1>1 DEF ReaderInv, ReaderTypes, Reading
<1>3. ~Quiet'
  BY <1>1 DEF Quiet, Reading
<1>4. RefusedOnlyFor' /\ HarmOnlyDisturbed'
  BY <1>1 DEF ReaderInv, RefusedOnlyFor, HarmOnlyDisturbed
<1> QED
  BY <1>2, <1>3, <1>4 DEF ReaderInv

(* What Continue and the frame of an open leave alone. *)
LEMMA ContinueFrame ==
  ASSUME NEW to, Continue(to)
  PROVE  /\ rpc' = to /\ fsz' = fsz /\ disk' = disk /\ written' = written
         /\ source' = source /\ disturbed' = disturbed /\ harm' = harm
BY DEF Continue, fileVars, ghosts

LEMMA CheckHeaderReader ==
  ASSUME DiskInv, ReaderInv, CheckHeader
  PROVE  ReaderInv'
<1>1. /\ rpc = "header" /\ Continue(IF HeaderOk THEN "nodes" ELSE "refused")
      /\ UNCHANGED <<nodeIndex, childIndex, bound, looked>>
  BY DEF CheckHeader
<1>2. /\ fsz' = fsz /\ disk' = disk /\ written' = written
      /\ source' = source /\ disturbed' = disturbed /\ harm' = harm
      /\ rpc' = IF HeaderOk THEN "nodes" ELSE "refused"
  BY <1>1, ContinueFrame
<1>3. ReaderTypes'
  BY <1>1, <1>2 DEF ReaderInv, ReaderTypes, Reading
<1>4. HarmOnlyDisturbed'
  BY <1>2 DEF ReaderInv, HarmOnlyDisturbed
<1>5. ASSUME ~disturbed
      PROVE  /\ Quiet /\ QuietInv
             /\ HeaderOk <=> Total(source) = fsz
             /\ ~HeaderOk => fsz < Total(source)
  <2>1. Quiet
    BY <1>1, <1>5 DEF Quiet, Reading
  <2>2. QuietInv
    BY <2>1 DEF ReaderInv
  <2>3. /\ disk[1] = Header(source) /\ fsz \in Nat /\ Len(disk) \in Nat
        /\ fsz <= Len(disk) /\ Len(disk) <= Total(source)
        /\ Total(source) \in Nat
    BY <2>1, QuietReader
  <2>4. hdr.size = Total(source)
    BY <2>3, HeaderFields DEF hdr
  <2> QED
    BY <2>1, <2>2, <2>3, <2>4 DEF HeaderOk
<1>6. Quiet' => QuietInv'
  <2> SUFFICES ASSUME Quiet' PROVE QuietInv'
    OBVIOUS
  <2>1. ~disturbed /\ HeaderOk /\ rpc' = "nodes"
    BY <1>2 DEF Quiet, Reading
  <2>2. QuietInv /\ Total(source) = fsz
    BY <1>5, <2>1
  <2>3. NodesLoaded' /\ ChildrenLoaded'
    BY <1>1, <1>2, <2>2 DEF QuietInv, NodesLoaded, ChildrenLoaded
  <2> QED
    BY <1>2, <2>1, <2>2, <2>3 DEF QuietInv
<1>7. RefusedOnlyFor'
  <2> SUFFICES ASSUME rpc' = "refused", ~disturbed' PROVE RefusedOnlyFor'
    BY DEF RefusedOnlyFor
  <2>1. ~disturbed /\ ~HeaderOk
    BY <1>2
  <2>2. fsz' < Total(source')
    BY <1>2, <1>5, <2>1
  <2>3. fsz' < 2 + Len(NodeDescriptions(source'))
                 + Len(ChildDescriptions(source'))
                 + Len(NodeMetas(source')) + Len(ChildMetas(source'))
    BY <2>2 DEF Total, CmetaOff, NmetaOff, NodesLen, ChildrenLen, NmetasLen,
       CmetasLen
  <2> QED
    BY <2>3 DEF RefusedOnlyFor
<1> QED
  BY <1>3, <1>4, <1>6, <1>7 DEF ReaderInv

LEMMA HeaderPresent ==
  ASSUME DiskInv, Present(1)
  PROVE  /\ disk # <<>> /\ written \in Manifests /\ LayoutOK(written)
         /\ hdr = Header(written) /\ hdr.nodeOff = 2
         /\ hdr.nodes = NodesLen(written)
         /\ hdr.childOff = 2 + NodesLen(written)
         /\ hdr.children = ChildrenLen(written)
<1>1. disk # <<>>
  BY EmptyIsSequence DEF Present
<1>2. written \in Manifests /\ hdr = Header(written)
  BY <1>1, DiskFacts DEF hdr
<1> QED
  BY <1>1, <1>2, HeaderFields, LayoutFacts

(* The blocks that are there to be loaded, behind an offset. *)
LEMMA QuietBlocks ==
  ASSUME DiskInv, ReaderInv, Quiet, rpc # "header"
  PROVE  /\ QuietInv /\ fsz = Total(source)
         /\ \A i \in 1..NodesLen(source) :
              2 + i <= fsz /\ disk[2 + i] = NodeBlock(source, i)
         /\ \A i \in 1..ChildrenLen(source) :
              /\ (2 + NodesLen(source)) + i <= fsz
              /\ disk[(2 + NodesLen(source)) + i] = ChildBlock(source, i)
<1> DEFINE m == source
<1>1. QuietInv /\ fsz = Total(m)
  BY DEF ReaderInv, QuietInv
<1>2. /\ m \in Manifests /\ LayoutOK(m) /\ Laid(m, disk)
      /\ Len(disk) = Total(m) /\ Total(m) \in Nat
  BY <1>1, QuietReader
<1>3. \A i \in 2..Total(m) : disk[i] = Block(m, i)
  BY <1>2 DEF Laid
<1>4. /\ NodesLen(m) \in Nat /\ ChildrenLen(m) \in Nat
      /\ (2 + NodesLen(m)) + ChildrenLen(m) <= Total(m)
  <2>1. /\ NodesLen(m) \in Nat /\ ChildrenLen(m) \in Nat /\ NmetaOff(m) \in Nat
        /\ NmetaOff(m) = 2 + NodesLen(m) + ChildrenLen(m)
        /\ NmetaOff(m) <= CmetaOff(m) /\ CmetaOff(m) <= Total(m)
        /\ CmetaOff(m) \in Nat
    BY <1>2 DEF LayoutOK
  <2> QED
    BY <1>2, <2>1
<1>5. ASSUME NEW i \in 1..NodesLen(m)
      PROVE  2 + i <= fsz /\ disk[2 + i] = NodeBlock(m, i)
  <2>1. 2 + i \in 2..Total(m)
    BY <1>2, <1>4
  <2> QED
    BY <1>1, <1>2, <1>3, <2>1, BlockIs
<1>6. ASSUME NEW i \in 1..ChildrenLen(m)
      PROVE  /\ (2 + NodesLen(m)) + i <= fsz
             /\ disk[(2 + NodesLen(m)) + i] = ChildBlock(m, i)
  <2>1. (2 + NodesLen(m)) + i \in 2..Total(m)
    BY <1>2, <1>4
  <2> QED
    BY <1>1, <1>2, <1>3, <2>1, BlockIs
<1> QED
  BY <1>1, <1>5, <1>6

LEMMA LoadNodeReader ==
  ASSUME DiskInv, ReaderInv, LoadNode
  PROVE  ReaderInv'
<1> DEFINE m  == source
           n  == Len(nodeIndex)
           at == hdr.nodeOff + n + 1
<1>1. rpc = "nodes" /\ Present(1) /\ UNCHANGED <<childIndex, bound, looked>>
  BY DEF LoadNode
<1>2. /\ written \in Manifests /\ LayoutOK(written)
      /\ hdr.nodes = NodesLen(written) /\ hdr.children = ChildrenLen(written)
      /\ hdr.nodeOff = 2
  BY <1>1, HeaderPresent
<1>3. /\ ReaderTypes /\ n \in Nat /\ IsSequence(nodeIndex) /\ fsz \in Nat
      /\ childIndex = <<>> /\ Len(childIndex) = 0 /\ at = 2 + (n + 1)
  <2>1. ReaderTypes /\ IsSequence(nodeIndex) /\ childIndex = <<>> /\ fsz \in Nat
    BY <1>1 DEF ReaderInv, ReaderTypes
  <2>2. n \in Nat /\ Len(childIndex) = 0
    BY <2>1, SequenceFacts, EmptyIsSequence
  <2> QED
    BY <1>2, <2>1, <2>2
<1>4. ASSUME ~disturbed
      PROVE  /\ Quiet /\ QuietInv /\ fsz = Total(m) /\ m = written
             /\ m \in Manifests /\ Valid(m) /\ n <= NodesLen(m)
             /\ NodesLen(m) \in Nat /\ ChildrenLen(m) \in Nat
             /\ n # hdr.nodes => /\ n + 1 \in 1..NodesLen(m)
                                 /\ at <= fsz
                                 /\ disk[at] = NodeBlock(m, n + 1)
  <2>1. Quiet
    BY <1>1, <1>4 DEF Quiet, Reading
  <2>2. QuietInv /\ fsz = Total(m) /\ n <= NodesLen(m)
    BY <1>1, <2>1, QuietBlocks DEF QuietInv, NodesLoaded
  <2>3. m = written /\ m \in Manifests /\ Valid(m)
    BY <2>1, QuietReader
  <2>4. NodesLen(m) \in Nat /\ ChildrenLen(m) \in Nat
    BY <1>2, <2>3 DEF LayoutOK
  <2>5. ASSUME n # hdr.nodes
        PROVE  n + 1 \in 1..NodesLen(m)
    BY <1>2, <1>3, <2>2, <2>3, <2>4, <2>5
  <2>6. ASSUME n # hdr.nodes
        PROVE  at <= fsz /\ disk[at] = NodeBlock(m, n + 1)
    BY <1>1, <1>3, <2>1, <2>5, <2>6, QuietBlocks
  <2> QED
    BY <2>1, <2>2, <2>3, <2>4, <2>5, <2>6
<1> HIDE DEF at
<1>5. CASE n = hdr.nodes
  <2>1. /\ Continue(IF hdr.children > 0 THEN "children" ELSE "bind")
        /\ nodeIndex' = nodeIndex
    BY <1>5 DEF LoadNode
  <2>2. /\ fsz' = fsz /\ disk' = disk /\ written' = written
        /\ source' = source /\ disturbed' = disturbed /\ harm' = harm
        /\ rpc' = IF hdr.children > 0 THEN "children" ELSE "bind"
    BY <2>1, ContinueFrame
  <2>3. ReaderTypes'
    BY <1>1, <1>3, <2>1, <2>2 DEF ReaderTypes, Reading
  <2>4. RefusedOnlyFor' /\ HarmOnlyDisturbed'
    BY <2>2 DEF ReaderInv, RefusedOnlyFor, HarmOnlyDisturbed
  <2>5. ASSUME Quiet' PROVE QuietInv'
    <3>1. ~disturbed
      BY <2>2, <2>5 DEF Quiet
    <3>2. /\ QuietInv /\ fsz = Total(m) /\ m = written /\ n = NodesLen(m)
          /\ ChildrenLen(m) \in Nat
      BY <1>2, <1>4, <1>5, <3>1
    <3>3. rpc' = "bind" => Len(childIndex) = ChildrenLen(m)
      BY <1>2, <1>3, <2>2, <3>2
    <3>4. NodesLoaded' /\ ChildrenLoaded'
      BY <1>1, <2>1, <2>2, <3>2 DEF QuietInv, NodesLoaded, ChildrenLoaded
    <3>5. rpc' \in {"children", "bind"}
      BY <2>2
    <3> QED
      BY <1>1, <2>1, <2>2, <3>2, <3>3, <3>4, <3>5 DEF QuietInv
  <2> QED
    BY <2>3, <2>4, <2>5 DEF ReaderInv
<1>6. CASE n # hdr.nodes /\ at > fsz
  <2>1. Continue("refused") /\ nodeIndex' = nodeIndex
    BY <1>6 DEF LoadNode, at
  <2>2. /\ fsz' = fsz /\ source' = source /\ disturbed' = disturbed
        /\ harm' = harm /\ rpc' = "refused"
    BY <2>1, ContinueFrame
  <2>3. disturbed
    <3> SUFFICES ASSUME ~disturbed PROVE FALSE
      OBVIOUS
    <3>1. at <= fsz
      BY <1>4, <1>6
    <3> QED
      BY <1>3, <1>6, <3>1
  <2>4. RefusedOnlyFor' /\ HarmOnlyDisturbed'
    BY <2>2, <2>3 DEF RefusedOnlyFor, HarmOnlyDisturbed
  <2>5. looked'.count \in Nat /\ harm' \in {"none", "fault", "overflow"}
    BY <1>1, <1>3, <2>2 DEF ReaderTypes
  <2> QED
    BY <1>1, <2>1, <2>2, <2>4, <2>5, ReaderLeaves
<1>7. CASE n # hdr.nodes /\ ~(at > fsz)
  <2> DEFINE x == disk[at]
  <2>1. /\ Continue(IF x.id = EmptyId THEN "refused" ELSE "nodes")
        /\ nodeIndex' = Append(nodeIndex, x)
    BY <1>7 DEF LoadNode, at
  <2> HIDE DEF x
  <2>2. /\ fsz' = fsz /\ disk' = disk /\ written' = written
        /\ source' = source /\ disturbed' = disturbed /\ harm' = harm
        /\ rpc' = IF x.id = EmptyId THEN "refused" ELSE "nodes"
    BY <2>1, ContinueFrame
  <2>3. /\ IsSequence(nodeIndex') /\ Len(nodeIndex') = n + 1
        /\ \A i \in 1..n : nodeIndex'[i] = nodeIndex[i]
        /\ nodeIndex'[n + 1] = x
    BY <1>3, <2>1, Appended
  <2>4. Len(nodeIndex') <= fsz
    BY <1>3, <1>7, <2>3
  <2>5. ReaderTypes'
    BY <1>1, <1>3, <2>2, <2>3, <2>4 DEF ReaderTypes, Reading
  <2>6. HarmOnlyDisturbed'
    BY <2>2 DEF ReaderInv, HarmOnlyDisturbed
  <2>7. ASSUME ~disturbed
        PROVE  x = NodeBlock(m, n + 1) /\ x.id # EmptyId
    <3>1. /\ n + 1 \in 1..NodesLen(m) /\ x = NodeBlock(m, n + 1)
          /\ m \in Manifests /\ Valid(m)
      BY <1>4, <1>7, <2>7 DEF x
    <3> QED
      BY <3>1, NodeBlockId
  <2>8. RefusedOnlyFor'
    BY <2>2, <2>7 DEF RefusedOnlyFor
  <2>9. ASSUME Quiet' PROVE QuietInv'
    <3>1. ~disturbed
      BY <2>2, <2>9 DEF Quiet
    <3>2. /\ QuietInv /\ m = written /\ n + 1 \in 1..NodesLen(m)
          /\ x = NodeBlock(m, n + 1) /\ rpc' = "nodes"
          /\ NodesLen(m) \in Nat
      BY <1>4, <1>7, <2>2, <2>7, <3>1
    <3>3. \A i \in 1..(n + 1) : nodeIndex'[i] = NodeBlock(m, i)
      <4>1. \A i \in 1..n : nodeIndex[i] = NodeBlock(m, i)
        BY <3>2 DEF QuietInv, NodesLoaded
      <4>2. \A i \in 1..(n + 1) : i \in 1..n \/ i = n + 1
        BY <1>3
      <4> QED
        BY <2>3, <3>2, <4>1, <4>2
    <3>4. NodesLoaded'
      BY <2>2, <2>3, <3>2, <3>3 DEF NodesLoaded
    <3>5. ChildrenLoaded'
      BY <1>1, <2>2, <3>2 DEF QuietInv, ChildrenLoaded
    <3> QED
      BY <1>1, <2>2, <3>2, <3>4, <3>5 DEF QuietInv
  <2> QED
    BY <2>5, <2>6, <2>8, <2>9 DEF ReaderInv
<1> QED
  BY <1>5, <1>6, <1>7

LEMMA LoadChildReader ==
  ASSUME DiskInv, ReaderInv, LoadChild
  PROVE  ReaderInv'
<1> DEFINE m  == source
           n  == Len(childIndex)
           at == hdr.childOff + n + 1
<1>1. rpc = "children" /\ Present(1) /\ UNCHANGED <<nodeIndex, bound, looked>>
  BY DEF LoadChild
<1>2. /\ written \in Manifests /\ LayoutOK(written)
      /\ hdr.children = ChildrenLen(written)
      /\ hdr.childOff = 2 + NodesLen(written) /\ NodesLen(written) \in Nat
  BY <1>1, HeaderPresent DEF LayoutOK
<1>3. /\ ReaderTypes /\ n \in Nat /\ IsSequence(childIndex) /\ fsz \in Nat
      /\ at = (2 + NodesLen(written)) + (n + 1)
  <2>1. ReaderTypes /\ IsSequence(childIndex) /\ fsz \in Nat
    BY <1>1 DEF ReaderInv, ReaderTypes
  <2>2. n \in Nat
    BY <2>1, SequenceFacts
  <2> QED
    BY <1>2, <2>1, <2>2
<1>4. ASSUME ~disturbed
      PROVE  /\ Quiet /\ QuietInv /\ fsz = Total(m) /\ m = written
             /\ m \in Manifests /\ n <= ChildrenLen(m)
             /\ ChildrenLen(m) \in Nat
             /\ n # hdr.children => /\ n + 1 \in 1..ChildrenLen(m)
                                    /\ at <= fsz
                                    /\ disk[at] = ChildBlock(m, n + 1)
  <2>1. Quiet
    BY <1>1, <1>4 DEF Quiet, Reading
  <2>2. QuietInv /\ fsz = Total(m) /\ n <= ChildrenLen(m)
    BY <1>1, <2>1, QuietBlocks DEF QuietInv, ChildrenLoaded
  <2>3. m = written /\ m \in Manifests
    BY <2>1, QuietReader
  <2>4. ChildrenLen(m) \in Nat
    BY <1>2, <2>3 DEF LayoutOK
  <2>5. ASSUME n # hdr.children
        PROVE  n + 1 \in 1..ChildrenLen(m)
    BY <1>2, <1>3, <2>2, <2>3, <2>4, <2>5
  <2>6. ASSUME n # hdr.children
        PROVE  at <= fsz /\ disk[at] = ChildBlock(m, n + 1)
    BY <1>1, <1>3, <2>1, <2>3, <2>5, <2>6, QuietBlocks
  <2> QED
    BY <2>1, <2>2, <2>3, <2>4, <2>5, <2>6
<1> HIDE DEF at
<1>5. CASE n = hdr.children
  <2>1. Continue("bind") /\ childIndex' = childIndex
    BY <1>5 DEF LoadChild
  <2>2. /\ fsz' = fsz /\ disk' = disk /\ written' = written
        /\ source' = source /\ disturbed' = disturbed /\ harm' = harm
        /\ rpc' = "bind"
    BY <2>1, ContinueFrame
  <2>3. ReaderTypes'
    BY <1>1, <1>3, <2>1, <2>2 DEF ReaderTypes, Reading
  <2>4. RefusedOnlyFor' /\ HarmOnlyDisturbed'
    BY <2>2 DEF ReaderInv, RefusedOnlyFor, HarmOnlyDisturbed
  <2>5. ASSUME Quiet' PROVE QuietInv'
    <3>1. ~disturbed
      BY <2>2, <2>5 DEF Quiet
    <3>2. QuietInv /\ fsz = Total(m) /\ m = written /\ n = ChildrenLen(m)
      BY <1>2, <1>4, <1>5, <3>1
    <3>3. NodesLoaded' /\ ChildrenLoaded'
      BY <1>1, <2>1, <2>2, <3>2 DEF QuietInv, NodesLoaded, ChildrenLoaded
    <3> QED
      BY <1>1, <2>1, <2>2, <3>2, <3>3 DEF QuietInv
  <2> QED
    BY <2>3, <2>4, <2>5 DEF ReaderInv
<1>6. CASE n # hdr.children /\ at > fsz
  <2>1. Continue("refused") /\ childIndex' = childIndex
    BY <1>6 DEF LoadChild, at
  <2>2. /\ fsz' = fsz /\ source' = source /\ disturbed' = disturbed
        /\ harm' = harm /\ rpc' = "refused"
    BY <2>1, ContinueFrame
  <2>3. disturbed
    <3> SUFFICES ASSUME ~disturbed PROVE FALSE
      OBVIOUS
    <3>1. at <= fsz
      BY <1>4, <1>6
    <3>2. at \in Nat
      BY <1>2, <1>3
    <3> QED
      BY <1>3, <1>6, <3>1, <3>2
  <2>4. RefusedOnlyFor' /\ HarmOnlyDisturbed'
    BY <2>2, <2>3 DEF RefusedOnlyFor, HarmOnlyDisturbed
  <2>5. looked'.count \in Nat /\ harm' \in {"none", "fault", "overflow"}
    BY <1>1, <1>3, <2>2 DEF ReaderTypes
  <2> QED
    BY <1>1, <2>1, <2>2, <2>4, <2>5, ReaderLeaves
<1>7. CASE n # hdr.children /\ ~(at > fsz)
  <2> DEFINE x == disk[at]
  <2>1. /\ Continue(IF x.id = EmptyId THEN "refused" ELSE "children")
        /\ childIndex' = Append(childIndex, x)
    BY <1>7 DEF LoadChild, at
  <2> HIDE DEF x
  <2>2. /\ fsz' = fsz /\ disk' = disk /\ written' = written
        /\ source' = source /\ disturbed' = disturbed /\ harm' = harm
        /\ rpc' = IF x.id = EmptyId THEN "refused" ELSE "children"
    BY <2>1, ContinueFrame
  <2>3. /\ IsSequence(childIndex') /\ Len(childIndex') = n + 1
        /\ \A i \in 1..n : childIndex'[i] = childIndex[i]
        /\ childIndex'[n + 1] = x
    BY <1>3, <2>1, Appended
  <2>4. Len(childIndex') <= fsz
    <3>1. at \in Nat /\ n + 1 <= at
      BY <1>2, <1>3
    <3> QED
      BY <1>3, <1>7, <2>3, <3>1
  <2>5. ReaderTypes'
    BY <1>1, <1>3, <2>2, <2>3, <2>4 DEF ReaderTypes, Reading
  <2>6. HarmOnlyDisturbed'
    BY <2>2 DEF ReaderInv, HarmOnlyDisturbed
  <2>7. ASSUME ~disturbed
        PROVE  /\ m \in Manifests /\ n + 1 \in 1..ChildrenLen(m)
               /\ x = ChildBlock(m, n + 1)
    BY <1>4, <1>7, <2>7 DEF x
  <2>8. RefusedOnlyFor'
    <3> SUFFICES ASSUME rpc' = "refused", ~disturbed' PROVE RefusedOnlyFor'
      BY DEF RefusedOnlyFor
    <3>1. x.id = EmptyId /\ ~disturbed
      BY <2>2
    <3>2. \E ch \in ChildrenOf(m) : ch.id = EmptyId /\ ch.descriptions # <<>>
      BY <2>7, <3>1, ChildBlockId
    <3> QED
      BY <2>2, <3>2 DEF RefusedOnlyFor
  <2>9. ASSUME Quiet' PROVE QuietInv'
    <3>1. ~disturbed /\ rpc' = "children"
      BY <2>2, <2>9 DEF Quiet, Reading
    <3>2. /\ QuietInv /\ m = written /\ n + 1 \in 1..ChildrenLen(m)
          /\ x = ChildBlock(m, n + 1) /\ ChildrenLen(m) \in Nat
      BY <1>4, <1>7, <2>7, <3>1
    <3>3. \A i \in 1..(n + 1) : childIndex'[i] = ChildBlock(m, i)
      <4>1. \A i \in 1..n : childIndex[i] = ChildBlock(m, i)
        BY <3>2 DEF QuietInv, ChildrenLoaded
      <4>2. \A i \in 1..(n + 1) : i \in 1..n \/ i = n + 1
        BY <1>3
      <4> QED
        BY <2>3, <3>2, <4>1, <4>2
    <3>4. ChildrenLoaded'
      BY <2>2, <2>3, <3>2, <3>3 DEF ChildrenLoaded
    <3>5. NodesLoaded'
      BY <1>1, <2>2, <3>2 DEF QuietInv, NodesLoaded
    <3> QED
      BY <1>1, <2>2, <3>1, <3>2, <3>4, <3>5 DEF QuietInv
  <2> QED
    BY <2>5, <2>6, <2>8, <2>9 DEF ReaderInv
<1> QED
  BY <1>5, <1>6, <1>7

LEMMA BindMetasReader ==
  ASSUME DiskInv, ReaderInv, BindMetas
  PROVE  ReaderInv'
<1> DEFINE m    == source
           over == \/ hdr.nmetaOff + hdr.nmetas > fsz
                   \/ hdr.cmetaOff + hdr.cmetas > fsz
<1>1. /\ rpc = "bind" /\ Present(1)
      /\ UNCHANGED <<nodeIndex, childIndex, looked>>
  BY DEF BindMetas
<1>2. /\ written \in Manifests /\ LayoutOK(written) /\ hdr = Header(written)
      /\ hdr.nmetaOff = NmetaOff(written) /\ hdr.nmetas = NmetasLen(written)
      /\ hdr.cmetaOff = CmetaOff(written) /\ hdr.cmetas = CmetasLen(written)
  BY <1>1, HeaderPresent, HeaderFields
<1>3. ReaderTypes /\ fsz \in Nat
  BY DEF ReaderInv, ReaderTypes
<1>4. ASSUME ~disturbed
      PROVE  QuietInv /\ fsz = Total(m) /\ m = written /\ ~over
  <2>1. Quiet
    BY <1>1, <1>4 DEF Quiet, Reading
  <2>2. QuietInv /\ fsz = Total(m) /\ m = written
    BY <1>1, <2>1, QuietBlocks, QuietReader
  <2>3. /\ NmetaOff(m) + NmetasLen(m) = CmetaOff(m) /\ CmetaOff(m) \in Nat
        /\ CmetaOff(m) + CmetasLen(m) = Total(m) /\ Total(m) \in Nat
        /\ CmetaOff(m) <= Total(m)
    BY <1>2, <2>2 DEF LayoutOK
  <2> QED
    BY <1>2, <2>2, <2>3
<1>5. CASE over
  <2>1. Continue("refused") /\ bound' = bound
    BY <1>5 DEF BindMetas
  <2>2. /\ fsz' = fsz /\ source' = source /\ disturbed' = disturbed
        /\ harm' = harm /\ rpc' = "refused"
    BY <2>1, ContinueFrame
  <2>3. disturbed
    BY <1>4, <1>5
  <2>4. RefusedOnlyFor' /\ HarmOnlyDisturbed'
    BY <2>2, <2>3 DEF RefusedOnlyFor, HarmOnlyDisturbed
  <2>5. looked'.count \in Nat /\ harm' \in {"none", "fault", "overflow"}
    BY <1>1, <1>3, <2>2 DEF ReaderTypes
  <2> QED
    BY <1>1, <2>1, <2>2, <2>4, <2>5, ReaderLeaves
<1>6. CASE ~over
  <2>1. /\ Continue("open")
        /\ bound' = [nmetaOff |-> hdr.nmetaOff, nmetas |-> hdr.nmetas,
                     cmetaOff |-> hdr.cmetaOff, cmetas |-> hdr.cmetas]
    BY <1>6 DEF BindMetas
  <2>2. /\ fsz' = fsz /\ disk' = disk /\ written' = written
        /\ source' = source /\ disturbed' = disturbed /\ harm' = harm
        /\ rpc' = "open"
    BY <2>1, ContinueFrame
  <2>3. /\ bound'.nmetaOff = NmetaOff(written)
        /\ bound'.nmetas = NmetasLen(written)
        /\ bound'.cmetaOff = CmetaOff(written)
        /\ bound'.cmetas = CmetasLen(written)
    BY <1>2, <2>1
  <2>4. /\ NmetaOff(written) \in Nat /\ NmetasLen(written) \in Nat
        /\ CmetaOff(written) \in Nat /\ CmetasLen(written) \in Nat
    BY <1>2 DEF LayoutOK
  <2>5. ReaderTypes'
    BY <1>1, <1>3, <2>2, <2>3, <2>4 DEF ReaderTypes, Reading
  <2>6. RefusedOnlyFor' /\ HarmOnlyDisturbed'
    BY <2>2 DEF ReaderInv, RefusedOnlyFor, HarmOnlyDisturbed
  <2>7. ASSUME Quiet' PROVE QuietInv'
    <3>1. ~disturbed
      BY <2>2, <2>7 DEF Quiet
    <3>2. QuietInv /\ fsz = Total(m) /\ m = written
      BY <1>4, <3>1
    <3>3. NodesLoaded' /\ ChildrenLoaded' /\ BoundTo(source)'
      BY <1>1, <2>2, <2>3, <3>2
      DEF QuietInv, NodesLoaded, ChildrenLoaded, BoundTo
    <3> QED
      BY <1>1, <2>2, <3>2, <3>3 DEF QuietInv
  <2> QED
    BY <2>5, <2>6, <2>7 DEF ReaderInv
<1> QED
  BY <1>5, <1>6

LEMMA OpenFaultsReader ==
  ASSUME DiskInv, ReaderInv, OpenFaults
  PROVE  ReaderInv'
<1> DEFINE needs ==
      {1} \cup
       (IF ~Present(1) THEN {}
        ELSE IF rpc = "nodes" /\ Len(nodeIndex) < hdr.nodes
        THEN {hdr.nodeOff + Len(nodeIndex) + 1} \cap 1..fsz
        ELSE IF rpc = "children" /\ Len(childIndex) < hdr.children
        THEN {hdr.childOff + Len(childIndex) + 1} \cap 1..fsz ELSE {})
<1>1. rpc \in {"header", "nodes", "children", "bind"} /\ Faults(needs)
  BY DEF OpenFaults
<1>2. ASSUME ~disturbed PROVE \A i \in needs : Present(i)
  <2>1. Quiet
    BY <1>1, <1>2 DEF Quiet, Reading
  <2>2. /\ fsz \in Nat /\ 1 <= fsz /\ fsz <= Len(disk) /\ Len(disk) \in Nat
    BY <2>1, QuietReader
  <2>3. needs \subseteq 1..fsz
    BY <2>2
  <2> QED
    BY <2>2, <2>3 DEF Present
<1> HIDE DEF needs
<1> QED
  BY <1>1, <1>2, FaultsReader

LEMMA OpenFailsReader ==
  ASSUME ReaderInv, OpenFails
  PROVE  ReaderInv'
<1>1. Continue("failed") /\ UNCHANGED <<nodeIndex, childIndex, bound, looked>>
  BY DEF OpenFails
<1>2. /\ fsz' = fsz /\ source' = source /\ disturbed' = disturbed
      /\ harm' = harm /\ rpc' = "failed"
  BY <1>1, ContinueFrame
<1>3. RefusedOnlyFor' /\ HarmOnlyDisturbed'
  BY <1>2 DEF ReaderInv, RefusedOnlyFor, HarmOnlyDisturbed
<1>4. looked'.count \in Nat /\ harm' \in {"none", "fault", "overflow"}
  BY <1>1, <1>2 DEF ReaderInv, ReaderTypes
<1> QED
  BY <1>1, <1>2, <1>3, <1>4, ReaderLeaves

LEMMA EmitsCounted ==
  ASSUME ReaderTypes, NEW q
  PROVE  Cardinality(EmitsFound(q)) \in Nat
<1>1. \E n \in Nat : RowsOf(q.kind) \subseteq 0..n
  <2>1. ASSUME NEW off \in Nat, NEW k \in Nat
        PROVE  {off + i : i \in 1..k} \subseteq 0..(off + k)
    OBVIOUS
  <2>2. /\ bound.nmetaOff \in Nat /\ bound.nmetas \in Nat
        /\ bound.cmetaOff \in Nat /\ bound.cmetas \in Nat
    BY DEF ReaderTypes
  <2>3. /\ bound.nmetaOff + bound.nmetas \in Nat
        /\ bound.cmetaOff + bound.cmetas \in Nat
    BY <2>2
  <2>4. CASE q.kind = "node"
    BY <2>1, <2>2, <2>3, <2>4 DEF RowsOf
  <2>5. CASE q.kind # "node"
    BY <2>1, <2>2, <2>3, <2>5 DEF RowsOf
  <2> QED
    BY <2>4, <2>5
<1>2. PICK n \in Nat : RowsOf(q.kind) \subseteq 0..n
  BY <1>1
<1>3. EmitsFound(q) \subseteq 0..n
  BY <1>2 DEF EmitsFound
<1>4. IsFiniteSet(0..n)
  BY FS_Interval
<1>5. IsFiniteSet(EmitsFound(q))
  BY <1>3, <1>4, FS_Subset
<1> QED
  BY <1>5, FS_CardinalityType

(* The second pass is for the node or child of the first. *)
LEMMA LookUpReader ==
  ASSUME DiskInv, ReaderInv, NEW kind, NEW id, NEW parent,
         LookUp([kind |-> kind, id |-> id, parent |-> parent, count |-> 0])
  PROVE  ReaderInv'
<1> DEFINE q     == [kind |-> kind, id |-> id, parent |-> parent, count |-> 0]
           count == Cardinality(EmitsFound(q))
<1>1. rpc = "open" /\ UNCHANGED <<nodeIndex, childIndex, bound>>
  BY DEF LookUp
<1>2. ReaderTypes /\ count \in Nat
  BY EmitsCounted DEF ReaderInv
<1>3. PICK to \in {"open", "fill"} : Continue(to)
  BY DEF LookUp
<1>4. /\ fsz' = fsz /\ disk' = disk /\ written' = written
      /\ source' = source /\ disturbed' = disturbed /\ harm' = harm
      /\ rpc' = to
  BY <1>3, ContinueFrame
<1>5. \/ rpc' = "open" /\ looked' = looked
      \/ rpc' = "fill" /\ looked' = [q EXCEPT !.count = count]
  BY DEF LookUp, Continue
<1>6. ASSUME looked' = [q EXCEPT !.count = count]
      PROVE  /\ looked'.count = count
             /\ EmitsFound(looked)' = EmitsFound(q)
  <2>1. /\ looked'.kind = q.kind /\ looked'.id = q.id
        /\ looked'.parent = q.parent /\ looked'.count = count
    BY <1>6
  <2> HIDE DEF q
  <2>2. RowsOf(looked.kind)' = RowsOf(q.kind)
    BY <1>1, <2>1 DEF RowsOf
  <2> QED
    BY <1>4, <2>1, <2>2 DEF EmitsFound
<1> HIDE DEF q, count
<1>7. looked'.count \in Nat
  BY <1>2, <1>5, <1>6 DEF ReaderTypes
<1>8. ReaderTypes'
  BY <1>1, <1>2, <1>4, <1>7 DEF ReaderTypes, Reading
<1>9. RefusedOnlyFor' /\ HarmOnlyDisturbed'
  BY <1>4 DEF ReaderInv, RefusedOnlyFor, HarmOnlyDisturbed
<1>10. ASSUME Quiet' PROVE QuietInv'
  <2>1. QuietInv
    BY <1>1, <1>4, <1>10 DEF Quiet, Reading, ReaderInv
  <2>2. NodesLoaded' /\ ChildrenLoaded' /\ BoundTo(source)'
    BY <1>1, <1>4, <2>1
    DEF QuietInv, NodesLoaded, ChildrenLoaded, BoundTo
  <2>3. rpc' = "fill" => Cardinality(EmitsFound(looked)') = looked'.count
    BY <1>5, <1>6 DEF count
  <2> QED
    BY <1>1, <1>4, <2>1, <2>2, <2>3 DEF QuietInv
<1> QED
  BY <1>8, <1>9, <1>10 DEF ReaderInv

LEMMA LookUpFillsReader ==
  ASSUME DiskInv, ReaderInv, LookUpFills
  PROVE  ReaderInv'
<1> DEFINE found == Cardinality(EmitsFound(looked))
<1>1. /\ rpc = "fill" /\ looked' = NoLookUp
      /\ UNCHANGED <<disk, written, fsz, nodeIndex, childIndex, bound, source>>
      /\ disturbed' = disturbed
  BY DEF LookUpFills, fileVars
<1>2. ReaderTypes /\ found \in Nat /\ looked.count \in Nat
  BY EmitsCounted DEF ReaderInv, ReaderTypes
<1>3. looked'.count \in Nat
  BY <1>1 DEF NoLookUp
<1>4. ~disturbed => found = looked.count
  BY <1>1 DEF ReaderInv, Quiet, QuietInv, Reading
<1>5. CASE found > looked.count
  <2>1. harm' = "overflow" /\ rpc' = "dead"
    BY <1>5 DEF LookUpFills
  <2>2. disturbed
    <3> HIDE DEF found
    <3> QED
      BY <1>2, <1>4, <1>5
  <2>3. RefusedOnlyFor' /\ HarmOnlyDisturbed'
    BY <1>1, <2>1, <2>2 DEF RefusedOnlyFor, HarmOnlyDisturbed
  <2> QED
    BY <1>1, <1>3, <2>1, <2>3, ReaderLeaves
<1>6. CASE ~(found > looked.count)
  <2>1. harm' = harm /\ rpc' = "open"
    BY <1>6 DEF LookUpFills
  <2>2. ReaderTypes'
    BY <1>1, <1>2, <1>3, <2>1 DEF ReaderTypes, Reading
  <2>3. RefusedOnlyFor' /\ HarmOnlyDisturbed'
    BY <1>1, <2>1 DEF ReaderInv, RefusedOnlyFor, HarmOnlyDisturbed
  <2>4. ASSUME Quiet' PROVE QuietInv'
    <3>1. QuietInv
      BY <1>1, <2>4 DEF Quiet, Reading, ReaderInv
    <3>2. NodesLoaded' /\ ChildrenLoaded' /\ BoundTo(source)'
      BY <1>1, <3>1 DEF QuietInv, NodesLoaded, ChildrenLoaded, BoundTo
    <3> QED
      BY <1>1, <2>1, <3>1, <3>2 DEF QuietInv
  <2> QED
    BY <2>2, <2>3, <2>4 DEF ReaderInv
<1> QED
  BY <1>5, <1>6

LEMMA LookUpFaultsReader ==
  ASSUME DiskInv, ReaderInv, LookUpFaults
  PROVE  ReaderInv'
<1>1. ASSUME ~disturbed, rpc \in {"open", "fill"}, NEW kind
      PROVE  \A i \in RowsOf(kind) : Present(i)
  <2>1. Quiet
    BY <1>1 DEF Quiet, Reading
  <2>2. /\ source \in Manifests /\ fsz \in Nat /\ fsz <= Len(disk)
        /\ Len(disk) \in Nat /\ BoundTo(source) /\ fsz = Total(source)
    BY <1>1, <2>1, QuietReader DEF ReaderInv, QuietInv
  <2>3. RowsOf(kind) \subseteq 1..fsz
    BY <2>2, RowsPresent
  <2> QED
    BY <2>2, <2>3 DEF Present
<1>2. CASE rpc = "open" /\ Faults(RowsOf("node") \cup RowsOf("child"))
  <2>1. ~disturbed => \A i \in RowsOf("node") \cup RowsOf("child") : Present(i)
    BY <1>1, <1>2
  <2> QED
    BY <1>2, <2>1, FaultsReader
<1>3. CASE rpc = "fill" /\ Faults(RowsOf(looked.kind))
  <2>1. ~disturbed => \A i \in RowsOf(looked.kind) : Present(i)
    BY <1>1, <1>3
  <2> QED
    BY <1>3, <2>1, FaultsReader
<1> QED
  BY <1>2, <1>3 DEF LookUpFaults

LEMMA CloseReader ==
  ASSUME Close
  PROVE  ReaderInv'
<1>1. /\ rpc' = "closed" /\ fsz' = 0 /\ nodeIndex' = <<>> /\ childIndex' = <<>>
      /\ bound' = Unbound /\ looked' = NoLookUp /\ source' = None
      /\ disturbed' = FALSE /\ harm' = "none"
  BY DEF Close
<1>2. /\ IsSequence(nodeIndex') /\ IsSequence(childIndex')
      /\ Len(nodeIndex') = 0 /\ Len(childIndex') = 0
  BY <1>1, EmptyIsSequence
<1>3. ReaderTypes'
  <2>1. /\ bound'.nmetaOff = 0 /\ bound'.nmetas = 0
        /\ bound'.cmetaOff = 0 /\ bound'.cmetas = 0 /\ looked'.count = 0
    BY <1>1 DEF Unbound, NoLookUp
  <2>2. /\ rpc' \in Reading \cup {"closed", "refused", "failed", "dead"}
        /\ source' \in Manifests \cup {None} /\ disturbed' \in BOOLEAN
        /\ harm' \in {"none", "fault", "overflow"}
    BY <1>1
  <2> QED
    BY <1>1, <1>2, <2>1, <2>2 DEF ReaderTypes
<1> QED
  BY <1>1, <1>3 DEF ReaderInv, Quiet, Reading, RefusedOnlyFor, HarmOnlyDisturbed

LEMMA ReaderReader ==
  ASSUME DiskInv, ReaderInv, Reader
  PROVE  ReaderInv'
<1>1. CASE OpenMap
  BY <1>1, OpenMapReader
<1>2. CASE OpenEmpty
  BY <1>2, OpenEmptyReader
<1>3. CASE CheckHeader
  BY <1>3, CheckHeaderReader
<1>4. CASE LoadNode
  BY <1>4, LoadNodeReader
<1>5. CASE LoadChild
  BY <1>5, LoadChildReader
<1>6. CASE BindMetas
  BY <1>6, BindMetasReader
<1>7. CASE OpenFaults
  BY <1>7, OpenFaultsReader
<1>8. CASE OpenFails
  BY <1>8, OpenFailsReader
<1>9. CASE LookUpNode
  BY <1>9, LookUpReader DEF LookUpNode
<1>10. CASE LookUpChild
  BY <1>10, LookUpReader DEF LookUpChild
<1>11. CASE LookUpFills
  BY <1>11, LookUpFillsReader
<1>12. CASE LookUpFaults
  BY <1>12, LookUpFaultsReader
<1>13. CASE Close
  BY <1>13, CloseReader
<1> QED
  BY <1>1, <1>2, <1>3, <1>4, <1>5, <1>6, <1>7, <1>8, <1>9, <1>10, <1>11,
     <1>12, <1>13 DEF Reader

-----------------------------------------------------------------------------
(* What the invariant says of an opened schema. *)
LEMMA ReaderSees ==
  ASSUME DiskInv, ReaderInv
  PROVE  OpenSeesBuilt
<1> SUFFICES ASSUME rpc \in {"open", "fill"}, ~disturbed PROVE OpenSeesBuilt
  BY DEF OpenSeesBuilt
<1> DEFINE m == source
<1>1. Quiet
  BY DEF Quiet, Reading
<1>2. /\ QuietInv /\ fsz = Total(m) /\ m \in Manifests /\ Laid(m, disk)
      /\ Len(disk) = Total(m) /\ BoundTo(m)
  <2>1. QuietInv /\ fsz = Total(m) /\ BoundTo(m)
    BY <1>1 DEF ReaderInv, QuietInv
  <2> QED
    BY <1>1, <2>1, QuietReader
<1>3. ToSet(nodeIndex) = NodeBlocks(m)
  <2>1. /\ Len(nodeIndex) = NodesLen(m)
        /\ \A i \in 1..NodesLen(m) : nodeIndex[i] = NodeBlock(m, i)
    BY <1>2 DEF QuietInv, NodesLoaded
  <2>2. ToSet(nodeIndex) = {nodeIndex[i] : i \in 1..Len(nodeIndex)}
    BY SequenceFacts DEF ReaderInv, ReaderTypes
  <2> QED
    BY <2>1, <2>2 DEF NodeBlocks
<1>4. ToSet(childIndex) = ChildBlocks(m)
  <2>1. /\ Len(childIndex) = ChildrenLen(m)
        /\ \A i \in 1..ChildrenLen(m) : childIndex[i] = ChildBlock(m, i)
    BY <1>2 DEF QuietInv, ChildrenLoaded
  <2>2. ToSet(childIndex) = {childIndex[i] : i \in 1..Len(childIndex)}
    BY SequenceFacts DEF ReaderInv, ReaderTypes
  <2> QED
    BY <2>1, <2>2 DEF ChildBlocks
<1>5. /\ Part(disk, bound.nmetaOff, bound.nmetas) = ToSet(NodeMetas(m))
      /\ Part(disk, bound.cmetaOff, bound.cmetas) = ToSet(ChildMetas(m))
  BY <1>2, PartsOfFile DEF BoundTo
<1>6. m # None
  BY <1>2, ManifestsAssumption
<1> QED
  BY <1>2, <1>3, <1>4, <1>5, <1>6, BlocksSay DEF OpenSeesBuilt

LEMMA InvTypes ==
  ASSUME IInv
  PROVE  TypeOK
<1>1. ASSUME bpc \in {"write", "flush"}
      PROVE  written = manifest /\ Len(disk) <= Len(buf)
  <2>1. /\ written = manifest /\ manifest \in Manifests
        /\ Len(buf) = Total(manifest)
    BY <1>1 DEF IInv, BuildInv, DiskInv, Done
  <2>2. written # None
    BY <2>1, ManifestsAssumption
  <2>3. Laid(manifest, disk)
    BY <2>1, <2>2 DEF IInv, DiskInv, FileOf
  <2> QED
    BY <2>1, <2>3, LaidFacts
<1> QED
  BY <1>1 DEF IInv, BuildInv, BuildPcs, DiskInv, ReaderInv, ReaderTypes, RcOK,
     TypeOK

-----------------------------------------------------------------------------
(* The invariant is inductive. *)
LEMMA InvInit ==
  ASSUME Init
  PROVE  IInv
<1>1. BuildInv
  BY DEF Init, BuildInit, BuildInv, BuildPcs, Embedding, Done
<1>2. DiskInv
  BY DEF Init, BuildInit, DiskInv
<1>3. ReaderTypes
  <2>1. /\ bound.nmetaOff = 0 /\ bound.nmetas = 0
        /\ bound.cmetaOff = 0 /\ bound.cmetas = 0 /\ looked.count = 0
    BY DEF Init, Unbound, NoLookUp
  <2>2. /\ IsSequence(nodeIndex) /\ IsSequence(childIndex)
        /\ Len(nodeIndex) = 0 /\ Len(childIndex) = 0
    BY EmptyIsSequence DEF Init
  <2>3. /\ rpc \in Reading \cup {"closed", "refused", "failed", "dead"}
        /\ source \in Manifests \cup {None} /\ disturbed \in BOOLEAN
        /\ harm \in {"none", "fault", "overflow"}
        /\ fsz = 0 /\ nodeIndex = <<>> /\ childIndex = <<>>
    BY DEF Init
  <2> QED
    BY <2>1, <2>2, <2>3 DEF ReaderTypes
<1>4. ReaderInv
  BY <1>3 DEF Init, ReaderInv, Quiet, Reading, RefusedOnlyFor,
     HarmOnlyDisturbed
<1>5. RcOK
  BY DEF Init, BuildInit, RcOK
<1> QED
  BY <1>1, <1>2, <1>4, <1>5 DEF IInv

LEMMA ReaderFrame ==
  ASSUME Reader
  PROVE  UNCHANGED <<buildVars, fileVars>>
<1>1. ASSUME NEW to, Continue(to) PROVE UNCHANGED <<buildVars, fileVars>>
  BY <1>1 DEF Continue
<1>2. ASSUME NEW needs, Faults(needs) PROVE UNCHANGED <<buildVars, fileVars>>
  BY <1>2 DEF Faults
<1>3. ASSUME NEW q, LookUp(q) PROVE UNCHANGED <<buildVars, fileVars>>
  BY <1>1, <1>3 DEF LookUp
<1>4. CASE OpenMap \/ OpenEmpty \/ LookUpFills \/ Close
  BY <1>4 DEF OpenMap, OpenEmpty, LookUpFills, Close
<1>5. CASE CheckHeader \/ LoadNode \/ LoadChild \/ BindMetas \/ OpenFails
  BY <1>1, <1>5 DEF CheckHeader, LoadNode, LoadChild, BindMetas, OpenFails
<1>6. CASE OpenFaults \/ LookUpFaults
  BY <1>2, <1>6 DEF OpenFaults, LookUpFaults
<1>7. CASE LookUpNode \/ LookUpChild
  BY <1>3, <1>7 DEF LookUpNode, LookUpChild
<1> QED
  BY <1>4, <1>5, <1>6, <1>7 DEF Reader

LEMMA BuildStays ==
  ASSUME BuildInv, DiskInv, RcOK, UNCHANGED <<buildVars, fileVars>>
  PROVE  BuildInv' /\ DiskInv' /\ RcOK'
<1>1. /\ UNCHANGED <<bpc, manifest, nodeLabel, childLabel, nmeta, cmeta>>
      /\ UNCHANGED <<nodeOff, childOff, nmetaOff, cmetaOff, buf, rc>>
      /\ UNCHANGED <<disk, written>>
  BY DEF buildVars, tables, offsets, fileVars
<1>2. BuildInv'
  BY <1>1 DEF BuildInv, LabelsBuilt, MetasBuilt
<1> QED
  BY <1>1, <1>2 DEF DiskInv, RcOK

LEMMA BuilderRc ==
  ASSUME RcOK, BuildStep \/ Writer
  PROVE  RcOK'
<1>1. ASSUME NEW r \in {"ok", "error", "eformat", "fault", "killed"}, Cleanup(r)
      PROVE  RcOK'
  BY <1>1 DEF Cleanup, RcOK
<1>2. CASE BuildStep
  BY <1>1, <1>2 DEF BuildStep, BuildBegin, Rejected, Accepted, CollectLabels,
     CollectMetas, BuildDereferences, EmbedNode, EmbedChild, AppendMetas,
     FillHeader, BuildFails, RcOK
<1>3. CASE Writer
  BY <1>1, <1>3 DEF Writer, Create, CreateFails, WriteBlock, WriteReturns,
     WriteFails, Flushed, BuilderDies, buildVars, RcOK
<1> QED
  BY <1>2, <1>3

LEMMA InvNext ==
  ASSUME IInv, [Next]_vars
  PROVE  IInv'
<1> USE DEF IInv
<1>1. CASE BuildStep /\ UNCHANGED <<fileVars, readerVars, ghosts>>
  <2>1. BuildInv' /\ RcOK'
    BY <1>1, BuildStepBuild, BuilderRc
  <2>2. DiskInv'
    BY <1>1, BuilderDisk
  <2>3. ReaderInv'
    BY <1>1, ReaderStays
  <2> QED
    BY <2>1, <2>2, <2>3
<1>2. CASE Writer
  BY <1>2, WriterBuild, BuilderDisk, WriterReader, BuilderRc
<1>3. CASE Reader
  BY <1>3, ReaderFrame, BuildStays, ReaderReader
<1>4. CASE UNCHANGED vars
  BY <1>4, BuildStays, ReaderStays DEF vars
<1> QED
  BY <1>1, <1>2, <1>3, <1>4 DEF Next

LEMMA Inductive == Spec => []IInv
BY InvInit, InvNext, PTL DEF Spec

-----------------------------------------------------------------------------
(* The variables of a build, of the file and of a reader of it keep their  *)
(* types, and a build never has more in the file than in its buffer.       *)
THEOREM TypeCorrect == Spec => []TypeOK
BY Inductive, InvTypes, PTL

(* What kc_ipa_build has put together when it opens the output says what   *)
(* the manifest says, whatever nodes, children, descriptions and emits the *)
(* manifest has: every description has the label of its own node or child, *)
(* every emit is in a row of its owner, and the offsets, the counts and    *)
(* the size in the header are those of the parts.                          *)
THEOREM FileRoundTrip == Spec => []RoundTrip
<1>1. IInv => RoundTrip
  BY BuildRoundTrip DEF IInv
<1> QED
  BY <1>1, Inductive, PTL

(* However many builds died, failed or are writing, a schema kc_ipa_open   *)
(* accepts is the whole of one manifest, unless a build truncated the file *)
(* under its mapping.                                                      *)
THEOREM OpenedIsWhole == Spec => []OpenSeesBuilt
<1>1. IInv => OpenSeesBuilt
  BY ReaderSees DEF IInv
<1> QED
  BY <1>1, Inductive, PTL

(* kc_ipa_open refuses only a file that ends early, or one with a child    *)
(* that has descriptions and an empty id.                                  *)
THEOREM RefusalsJustified == Spec => []RefusedOnlyFor
<1>1. IInv => RefusedOnlyFor
  BY DEF IInv, ReaderInv
<1> QED
  BY <1>1, Inductive, PTL

(* A reader is killed by a block that is gone, or fills more emits than it *)
(* has counted, only when a build truncated the file under its mapping.    *)
THEOREM UndisturbedUnharmed == Spec => []HarmOnlyDisturbed
<1>1. IInv => HarmOnlyDisturbed
  BY DEF IInv, ReaderInv
<1> QED
  BY <1>1, Inductive, PTL

=============================================================================
