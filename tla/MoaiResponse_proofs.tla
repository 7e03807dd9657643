-------------------------- MODULE MoaiResponse_proofs --------------------------
(***************************************************************************)
(* Proofs about the framing of responses in MoaiResponse, for any          *)
(* conversations, chunk sizes, check_size, buffer and faults.              *)
(***************************************************************************)
EXTENDS MoaiResponse, SequenceTheorems, WellFoundedInduction, TLAPS

-----------------------------------------------------------------------------
(***************************************************************************)
(* Sequences.  A stream is mostly known as one of two pieces that together *)
(* are something: these lemmas move the cut.                               *)
(***************************************************************************)

LEMMA CancelLeft ==
  ASSUME NEW S, NEW a \in Seq(S), NEW b \in Seq(S), NEW c \in Seq(S), a \o b = a \o c
  PROVE  b = c
BY ConcatSimplifications

LEMMA Cut ==
  ASSUME NEW S, NEW s \in Seq(S), NEW n \in 0 .. Len(s)
  PROVE  /\ SubSeq(s, 1, n) \in Seq(S) /\ Len(SubSeq(s, 1, n)) = n
         /\ SubSeq(s, n + 1, Len(s)) \in Seq(S)
         /\ Len(SubSeq(s, n + 1, Len(s))) = Len(s) - n
         /\ SubSeq(s, 1, n) \o SubSeq(s, n + 1, Len(s)) = s
<1>1. /\ Len(s) \in Nat
      /\ \A i \in 1 .. Len(s) : s[i] \in S
  BY ElementOfSeq, LenProperties
<1>2. /\ SubSeq(s, 1, n) \in Seq(S) /\ Len(SubSeq(s, 1, n)) = n
      /\ SubSeq(s, n + 1, Len(s)) \in Seq(S)
      /\ Len(SubSeq(s, n + 1, Len(s))) = Len(s) - n
  <2>1. \A i \in 1 .. n : s[i] \in S
    BY <1>1
  <2>2. SubSeq(s, 1, n) \in Seq(S) /\ Len(SubSeq(s, 1, n)) = IF 1 <= n THEN n - 1 + 1 ELSE 0
    BY <2>1, SubSeqProperties
  <2>3. \A i \in n + 1 .. Len(s) : s[i] \in S
    BY <1>1
  <2>4. /\ SubSeq(s, n + 1, Len(s)) \in Seq(S)
        /\ Len(SubSeq(s, n + 1, Len(s))) = IF n + 1 <= Len(s) THEN Len(s) - (n + 1) + 1 ELSE 0
    BY <1>1, <2>3, SubSeqProperties
  <2> QED BY <1>1, <2>2, <2>4
<1>3. SubSeq(s, 1, n) \o SubSeq(s, n + 1, Len(s)) = SubSeq(s, 1, Len(s))
  <2>1. 1 \in 1 .. Len(s) + 1 /\ n \in 1 - 1 .. Len(s) /\ Len(s) \in n .. Len(s)
    BY <1>1
  <2> QED BY <2>1, ConcatAdjacentSubSeq
<1> QED BY <1>2, <1>3, SubSeqFull

LEMMA Halves ==
  ASSUME NEW S, NEW a \in Seq(S), NEW b \in Seq(S)
  PROVE  /\ SubSeq(a \o b, 1, Len(a)) = a
         /\ SubSeq(a \o b, Len(a) + 1, Len(a \o b)) = b
<1> DEFINE s == a \o b
<1>1. s \in Seq(S) /\ Len(s) = Len(a) + Len(b) /\ Len(a) \in Nat /\ Len(b) \in Nat
  BY ConcatProperties, LenProperties
<1>2. \A i \in 1 .. Len(s) : s[i] \in S
  BY <1>1, ElementOfSeq
<1>3. SubSeq(s, 1, Len(a)) \in Seq(S) /\ Len(SubSeq(s, 1, Len(a))) = Len(a)
  BY <1>1, Cut
<1>4. \A i \in 1 .. Len(a) : SubSeq(s, 1, Len(a))[i] = a[i]
  <2> TAKE i \in 1 .. Len(a)
  <2>1. SubSeq(s, 1, Len(a))[i] = s[i]
    BY <1>1, <1>2, SubSeqProperties
  <2>2. s[i] = a[i]
    BY <1>1, ConcatProperties
  <2> QED BY <2>1, <2>2
<1>5. SubSeq(s, 1, Len(a)) = a
  BY <1>3, <1>4, SeqEqual
<1>6. a \o SubSeq(s, Len(a) + 1, Len(s)) = a \o b /\ SubSeq(s, Len(a) + 1, Len(s)) \in Seq(S)
  BY <1>1, <1>5, Cut
<1>7. SubSeq(s, Len(a) + 1, Len(s)) = b
  BY <1>6, CancelLeft
<1> QED BY <1>5, <1>7

\* Concatenation may be regrouped.
Assoc(S) == \A a, b, c \in Seq(S) : (a \o b) \o c = a \o (b \o c)

LEMMA ConcatAssoc ==
  ASSUME NEW S
  PROVE  Assoc(S)
BY ConcatAssociative DEF Assoc

\* a \o b and c \o d are one sequence, of which a reaches beyond c.
Overlap(S, a, b, c, d) == \E x \in Seq(S) : a = c \o x /\ d = x \o b

\* Of two ways to cut the same stream, the longer beginning has the other one
\* as its own.
LEMMA Split ==
  ASSUME NEW S, NEW a \in Seq(S), NEW b \in Seq(S), NEW c \in Seq(S), NEW d \in Seq(S),
         a \o b = c \o d, Len(c) <= Len(a)
  PROVE  Overlap(S, a, b, c, d)
<1> DEFINE s == a \o b
           x == SubSeq(a, Len(c) + 1, Len(a))
<1>1. Len(a) \in Nat /\ Len(c) \in Nat /\ Len(c) \in 0 .. Len(a)
  BY LenProperties
<1>2. x \in Seq(S) /\ SubSeq(a, 1, Len(c)) \in Seq(S)
      /\ Len(SubSeq(a, 1, Len(c))) = Len(c) /\ SubSeq(a, 1, Len(c)) \o x = a
  BY <1>1, Cut, ZenonT(40)
<1>3. SubSeq(a, 1, Len(c)) = c
  <2>1. \A i \in 1 .. Len(c) : SubSeq(a, 1, Len(c))[i] = c[i]
    <3> TAKE i \in 1 .. Len(c)
    <3>1. (a \o b)[i] = a[i]
      BY <1>1, ConcatProperties, LenProperties
    <3>2. (c \o d)[i] = c[i]
      BY <1>1, ConcatProperties, LenProperties
    <3>3. SubSeq(a, 1, Len(c))[i] = a[i]
      <4>1. \A j \in 1 .. Len(c) : a[j] \in S
        BY <1>1, ElementOfSeq
      <4>2. i \in 1 .. Len(c) - 1 + 1
        BY <1>1
      <4>3. SubSeq(a, 1, Len(c))[i] = a[1 + i - 1]
        BY <1>1, <4>1, <4>2, SubSeqProperties
      <4> QED BY <4>2, <4>3
    <3> QED BY <3>1, <3>2, <3>3
  <2> QED BY <1>2, <2>1, SeqEqual
<1>4. PICK y \in Seq(S) : a = c \o y
  BY <1>2, <1>3
<1>5. c \o (y \o b) = c \o d
  <2>1. (c \o y) \o b = c \o (y \o b)
    BY ConcatAssociative, SMTT(30)
  <2> QED BY <1>4, <2>1
<1>6. y \o b \in Seq(S)
  BY ConcatProperties
<1>7. y \o b = d
  BY <1>5, <1>6, CancelLeft
<1> QED BY <1>4, <1>7 DEF Overlap

LEMMA PrefixOfConcat ==
  ASSUME NEW S, NEW a \in Seq(S), NEW b \in Seq(S)
  PROVE  IsPrefix(a, a \o b)
<1>1. Len(a) <= Len(a \o b)
  BY ConcatProperties, LenProperties
<1>2. SubSeq(a, 1, Len(a)) = a
  BY SubSeqFull
<1>3. SubSeq(a \o b, 1, Len(a)) = a
  BY Halves
<1> QED BY <1>1, <1>2, <1>3 DEF IsPrefix

LEMMA PrefixThenConcat ==
  ASSUME NEW S, NEW a \in Seq(S), NEW b \in Seq(S), NEW c \in Seq(S), IsPrefix(a, b)
  PROVE  IsPrefix(a, b \o c)
<1>1. Len(a) \in 0 .. Len(b)
  BY LenProperties DEF IsPrefix
<1>2. PICK x \in Seq(S) : SubSeq(b, 1, Len(a)) \o x = b
  BY <1>1, Cut
<1>3. a \o x = b
  BY <1>2, SubSeqFull DEF IsPrefix
<1>4. a \o (x \o c) = b \o c
  <2>1. (a \o x) \o c = a \o (x \o c)
    BY ConcatAssociative
  <2> QED BY <1>3, <2>1
<1>5. x \o c \in Seq(S)
  BY ConcatProperties
<1> QED BY <1>4, <1>5, PrefixOfConcat

-----------------------------------------------------------------------------
(***************************************************************************)
(* Induction over the natural numbers, with a set for the property: the    *)
(* least number outside of it is neither 0 nor a successor.                *)
(***************************************************************************)

Below == {p \in Nat \X Nat : p[1] < p[2]}

LEMMA LeastNumber ==
  ASSUME NEW D \in SUBSET Nat, D # {}
  PROVE  \E m \in D : \A k \in D : m <= k
<1>1. IsWellFoundedOn(Below, Nat)
  BY NatLessThanWellFounded DEF OpToRel, Below
<1>2. PICK m \in D : \A k \in D : <<k, m>> \notin Below
  BY <1>1, WFMin
<1>3. \A k \in D : m <= k
  <2> TAKE k \in D
  <2>1. k \in Nat /\ m \in Nat /\ <<k, m>> \in Nat \X Nat
    OBVIOUS
  <2>2. ~(<<k, m>>[1] < <<k, m>>[2])
    BY <1>2, <2>1 DEF Below
  <2> QED BY <2>1, <2>2
<1> QED BY <1>3

LEMMA InductionSet ==
  ASSUME NEW D, 0 \in D, \A n \in Nat : n \in D => n + 1 \in D
  PROVE  Nat \subseteq D
<1>1. SUFFICES ASSUME Nat \ D # {} PROVE FALSE
  OBVIOUS
<1>2. PICK m \in Nat \ D : \A k \in Nat \ D : m <= k
  BY <1>1, LeastNumber
<1>3. m - 1 \in Nat /\ m - 1 \in D
  BY <1>2
<1> QED BY <1>2, <1>3

-----------------------------------------------------------------------------
(***************************************************************************)
(* FlattenSeq.  Running(s, n, f): f[i] is what the first i of s make.      *)
(***************************************************************************)

Running(s, n, f) == f = [i \in 1 .. n |-> IF i = 1 THEN s[i] ELSE f[i - 1] \o s[i]]

LEMMA RunningExists ==
  ASSUME NEW S, NEW s \in Seq(Seq(S)), NEW n \in 0 .. Len(s)
  PROVE  \E f \in [1 .. n -> Seq(S)] : Running(s, n, f)
<1> DEFINE D == {k \in Nat : k <= Len(s) => \E f \in [1 .. k -> Seq(S)] : Running(s, k, f)}
<1>1. Len(s) \in Nat /\ \A i \in 1 .. Len(s) : s[i] \in Seq(S)
  BY LenProperties, ElementOfSeq
<1>2. 0 \in D
  <2> DEFINE e == [i \in 1 .. 0 |-> <<>>]
  <2>1. e \in [1 .. 0 -> Seq(S)]
    OBVIOUS
  <2>2. e = [i \in 1 .. 0 |-> IF i = 1 THEN s[i] ELSE e[i - 1] \o s[i]]
    OBVIOUS
  <2> QED BY <2>1, <2>2 DEF Running
<1>3. ASSUME NEW k \in Nat, k \in D PROVE k + 1 \in D
  <2>1. SUFFICES ASSUME k + 1 <= Len(s)
                 PROVE  \E f \in [1 .. k + 1 -> Seq(S)] : Running(s, k + 1, f)
    OBVIOUS
  <2>2. PICK f \in [1 .. k -> Seq(S)] : Running(s, k, f)
    BY <1>1, <1>3, <2>1
  <2>3. \A i \in 1 .. k : f[i] = IF i = 1 THEN s[i] ELSE f[i - 1] \o s[i]
    BY <2>2 DEF Running
  <2> DEFINE last == IF k = 0 THEN s[1] ELSE f[k] \o s[k + 1]
             g == [i \in 1 .. k + 1 |-> IF i <= k THEN f[i] ELSE last]
  <2>4. last \in Seq(S)
    <3>1. CASE k = 0
      BY <1>1, <2>1, <3>1
    <3>2. CASE k # 0
      <4>1. f[k] \in Seq(S) /\ s[k + 1] \in Seq(S)
        BY <1>1, <2>1, <3>2
      <4> QED BY <3>2, <4>1, ConcatProperties
    <3> QED BY <3>1, <3>2
  <2>5. g \in [1 .. k + 1 -> Seq(S)]
    <3> HIDE DEF last
    <3>1. \A i \in 1 .. k + 1 : (IF i <= k THEN f[i] ELSE last) \in Seq(S)
      BY <2>4
    <3> QED BY <3>1
  <2>6. \A i \in 1 .. k + 1 : g[i] = IF i = 1 THEN s[i] ELSE g[i - 1] \o s[i]
    <3> TAKE i \in 1 .. k + 1
    <3>1. CASE i <= k
      <4>1. g[i] = f[i] /\ (i # 1 => g[i - 1] = f[i - 1])
        BY <3>1
      <4>2. f[i] = IF i = 1 THEN s[i] ELSE f[i - 1] \o s[i]
        <5>1. i \in 1 .. k
          BY <3>1
        <5> QED BY <2>3, <5>1
      <4> HIDE DEF g
      <4> QED BY <4>1, <4>2
    <3>2. CASE i = k + 1
      <4>1. g[i] = last /\ (i # 1 => g[i - 1] = f[k])
        BY <3>2
      <4>2. last = IF i = 1 THEN s[i] ELSE f[k] \o s[i]
        BY <3>2
      <4> HIDE DEF g, last
      <4> QED BY <4>1, <4>2
    <3> QED BY <3>1, <3>2
  <2>7. Running(s, k + 1, g)
    <3> HIDE DEF last
    <3>1. g = [i \in 1 .. k + 1 |-> g[i]]
      OBVIOUS
    <3> HIDE DEF g
    <3> QED BY <2>6, <3>1 DEF Running
  <2> HIDE DEF g
  <2> QED BY <2>5, <2>7
<1> HIDE DEF D
<1>4. Nat \subseteq D
  BY <1>2, <1>3, InductionSet
<1> QED BY <1>1, <1>4 DEF D

LEMMA RunningUnique ==
  ASSUME NEW s, NEW n \in Nat, NEW f, NEW g, Running(s, n, f), Running(s, n, g)
  PROVE  f = g
<1> DEFINE D == {k \in Nat : k \in 1 .. n => f[k] = g[k]}
<1>1. /\ \A i \in 1 .. n : f[i] = IF i = 1 THEN s[i] ELSE f[i - 1] \o s[i]
      /\ \A i \in 1 .. n : g[i] = IF i = 1 THEN s[i] ELSE g[i - 1] \o s[i]
  BY DEF Running
<1>2. f = [i \in 1 .. n |-> f[i]] /\ g = [i \in 1 .. n |-> g[i]]
  BY DEF Running
<1>3. 0 \in D
  OBVIOUS
<1>4. ASSUME NEW k \in Nat, k \in D PROVE k + 1 \in D
  BY <1>1, <1>4
<1> HIDE DEF D
<1>5. Nat \subseteq D
  BY <1>3, <1>4, InductionSet
<1>6. \A i \in 1 .. n : f[i] = g[i]
  BY <1>5 DEF D
<1> QED BY <1>2, <1>6

LEMMA FlattenEmpty == FlattenSeq(<<>>) = <<>>
BY DEF FlattenSeq

\* What FlattenSeq makes is the last of any running function.
LEMMA FlattenIsRunning ==
  ASSUME NEW S, NEW s \in Seq(Seq(S)), s # <<>>, NEW f, Running(s, Len(s), f)
  PROVE  FlattenSeq(s) = f[Len(s)]
<1>1. Len(s) \in Nat /\ Len(s) # 0
  BY LenProperties, EmptySeq
<1> DEFINE c == CHOOSE h : h = [i \in 1 .. Len(s) |-> IF i = 1 THEN s[i] ELSE h[i - 1] \o s[i]]
<1>2. FlattenSeq(s) = c[Len(s)]
  BY <1>1 DEF FlattenSeq
<1>3. \E h : h = [i \in 1 .. Len(s) |-> IF i = 1 THEN s[i] ELSE h[i - 1] \o s[i]]
  BY DEF Running
<1>4. Running(s, Len(s), c)
  BY <1>3 DEF Running
<1> HIDE DEF c
<1>5. c = f
  BY <1>1, <1>4, RunningUnique
<1> QED BY <1>2, <1>5

LEMMA FlattenType ==
  ASSUME NEW S, NEW s \in Seq(Seq(S))
  PROVE  FlattenSeq(s) \in Seq(S)
<1>1. CASE s = <<>>
  BY <1>1, FlattenEmpty, EmptySeq
<1>2. CASE s # <<>>
  <2>1. Len(s) \in Nat \ {0}
    BY <1>2, LenProperties, EmptySeq
  <2>2. PICK f \in [1 .. Len(s) -> Seq(S)] : Running(s, Len(s), f)
    BY <2>1, RunningExists, SMTT(30)
  <2>3. FlattenSeq(s) = f[Len(s)]
    BY <1>2, <2>2, FlattenIsRunning
  <2>4. Len(s) \in 1 .. Len(s)
    BY <2>1
  <2>5. f[Len(s)] \in Seq(S)
    BY <2>4
  <2> QED BY <2>3, <2>5
<1> QED BY <1>1, <1>2

LEMMA FlattenAppend ==
  ASSUME NEW S, NEW s \in Seq(Seq(S)), NEW e \in Seq(S)
  PROVE  FlattenSeq(Append(s, e)) = FlattenSeq(s) \o e
<1>1. PICK n \in Nat : n = Len(s)
  BY LenProperties
<1>2. PICK t \in Seq(Seq(S)) :
        /\ t = Append(s, e) /\ t # <<>> /\ Len(t) = n + 1
        /\ \A i \in 1 .. n : t[i] = s[i]
        /\ t[n + 1] = e
  BY <1>1, AppendProperties
<1>3. PICK f \in [1 .. n + 1 -> Seq(S)] : Running(t, n + 1, f)
  <2>1. n + 1 \in 0 .. Len(t)
    BY <1>2
  <2> QED BY <2>1, RunningExists
<1>4. FlattenSeq(t) = f[n + 1]
  BY <1>2, <1>3, FlattenIsRunning
<1>5. \A i \in 1 .. n + 1 : f[i] = IF i = 1 THEN t[i] ELSE f[i - 1] \o t[i]
  BY <1>3 DEF Running
<1>6. CASE s = <<>>
  <2>1. n = 0
    BY <1>1, <1>6, EmptySeq
  <2>2. f[1] = e
    BY <1>2, <1>5, <2>1
  <2>3. <<>> \o e = e
    BY ConcatEmptySeq
  <2> QED BY <1>2, <1>4, <1>6, <2>1, <2>2, <2>3, FlattenEmpty
<1>7. CASE s # <<>>
  <2>1. n \in Nat \ {0}
    BY <1>1, <1>7, EmptySeq
  <2>2. PICK g : g = [i \in 1 .. n |-> f[i]]
    OBVIOUS
  <2>3. \A i \in 1 .. n : g[i] = IF i = 1 THEN s[i] ELSE g[i - 1] \o s[i]
    <3> TAKE i \in 1 .. n
    <3>1. g[i] = f[i] /\ (i # 1 => g[i - 1] = f[i - 1])
      BY <2>2
    <3>2. i \in 1 .. n + 1 /\ t[i] = s[i]
      BY <1>2
    <3>3. f[i] = IF i = 1 THEN t[i] ELSE f[i - 1] \o t[i]
      BY <1>5, <3>2
    <3>4. f[i] = IF i = 1 THEN s[i] ELSE f[i - 1] \o s[i]
      BY <3>2, <3>3
    <3> QED BY <3>1, <3>4
  <2>4. Running(s, n, g)
    <3>1. g = [i \in 1 .. n |-> g[i]]
      BY <2>2
    <3> QED BY <2>3, <3>1 DEF Running
  <2>5. FlattenSeq(s) = g[n]
    BY <1>1, <1>7, <2>4, FlattenIsRunning
  <2>6. g[n] = f[n]
    BY <2>1, <2>2
  <2>7. f[n + 1] = f[n] \o e
    <3>1. PICK m \in 1 .. n + 1 : m = n + 1 /\ m # 1 /\ m - 1 = n
      BY <2>1
    <3>2. f[m] = IF m = 1 THEN t[m] ELSE f[m - 1] \o t[m]
      BY <1>5
    <3>3. f[m] = f[n] \o t[m] /\ t[m] = e
      BY <1>2, <3>1, <3>2
    <3> QED BY <3>1, <3>3
  <2> QED BY <1>2, <1>4, <2>5, <2>6, <2>7
<1> QED BY <1>6, <1>7

\* What the first i of s make.
Flat(s, i) == FlattenSeq(SubSeq(s, 1, i))

LEMMA FlatProperties ==
  ASSUME NEW S, NEW s \in Seq(Seq(S))
  PROVE  /\ Flat(s, 0) = <<>>
         /\ Flat(s, Len(s)) = FlattenSeq(s)
         /\ \A i \in 0 .. Len(s) : Flat(s, i) \in Seq(S)
         /\ \A i \in 0 .. Len(s) - 1 : Flat(s, i + 1) = Flat(s, i) \o s[i + 1]
<1>1. Len(s) \in Nat /\ \A i \in 1 .. Len(s) : s[i] \in Seq(S)
  BY LenProperties, ElementOfSeq
<1>2. Flat(s, 0) = <<>>
  <2>1. SubSeq(s, 1, 0) = <<>>
    BY SubSeqEmpty
  <2> QED BY <2>1, FlattenEmpty DEF Flat
<1>3. Flat(s, Len(s)) = FlattenSeq(s)
  BY SubSeqFull DEF Flat
<1>4. \A i \in 0 .. Len(s) : SubSeq(s, 1, i) \in Seq(Seq(S))
  BY Cut
<1>5. \A i \in 0 .. Len(s) : Flat(s, i) \in Seq(S)
  BY <1>4, FlattenType DEF Flat
<1>6. ASSUME NEW i \in 0 .. Len(s) - 1 PROVE Flat(s, i + 1) = Flat(s, i) \o s[i + 1]
  <2>1. PICK j \in 1 .. Len(s) : j = i + 1 /\ j - 1 = i /\ i \in 0 .. Len(s) /\ 1 \in 1 .. Len(s)
    BY <1>1
  <2>2. s[j] \in Seq(S)
    BY <1>1
  <2>3. SubSeq(s, 1, j) = SubSeq(s, 1, j - 1) \o <<s[j]>>
    <3>1. j \in 1 .. Len(s)
      OBVIOUS
    <3> QED BY <2>1, <3>1, SubSeqRecursiveSecond
  <2>4. SubSeq(s, 1, i) \in Seq(Seq(S))
    BY <1>4, <2>1
  <2>5. SubSeq(s, 1, j) = Append(SubSeq(s, 1, i), s[j])
    BY <2>1, <2>2, <2>3, <2>4, AppendIsConcat
  <2>6. FlattenSeq(Append(SubSeq(s, 1, i), s[j])) = FlattenSeq(SubSeq(s, 1, i)) \o s[j]
    BY <2>2, <2>4, FlattenAppend
  <2> QED BY <2>1, <2>5, <2>6 DEF Flat
<1> QED BY <1>2, <1>3, <1>5, <1>6

\* a is a beginning of b.
Begins(S, a, b) == \E x \in Seq(S) : b = a \o x

\* What fewer pieces make is a beginning of what more of them make.
LEMMA FlatGrows ==
  ASSUME NEW S, NEW s \in Seq(Seq(S)), NEW i \in 0 .. Len(s), NEW j \in i .. Len(s)
  PROVE  Begins(S, Flat(s, i), Flat(s, j))
<1> DEFINE D == {k \in Nat : i + k <= Len(s) => Begins(S, Flat(s, i), Flat(s, i + k))}
<1>1. Len(s) \in Nat /\ \A k \in 1 .. Len(s) : s[k] \in Seq(S)
  BY LenProperties, ElementOfSeq
<1>2. /\ \A k \in 0 .. Len(s) : Flat(s, k) \in Seq(S)
      /\ \A k \in 0 .. Len(s) - 1 : Flat(s, k + 1) = Flat(s, k) \o s[k + 1]
  BY FlatProperties
<1>3. 0 \in D
  <2>1. <<>> \in Seq(S) /\ Flat(s, i) \o <<>> = Flat(s, i)
    BY <1>2, EmptySeq, ConcatEmptySeq
  <2>2. Begins(S, Flat(s, i), Flat(s, i))
    BY <2>1 DEF Begins
  <2>3. i + 0 = i
    BY <1>1
  <2> QED BY <2>2, <2>3
<1>4. ASSUME NEW k \in Nat, k \in D PROVE k + 1 \in D
  <2>1. SUFFICES ASSUME i + (k + 1) <= Len(s)
                 PROVE  Begins(S, Flat(s, i), Flat(s, i + (k + 1)))
    OBVIOUS
  <2>2. Begins(S, Flat(s, i), Flat(s, i + k))
    BY <1>1, <1>4, <2>1
  <2>3. PICK x \in Seq(S) : Flat(s, i + k) = Flat(s, i) \o x
    BY <2>2 DEF Begins
  <2>4. PICK h \in 0 .. Len(s) - 1 : h = i + k /\ h + 1 = i + (k + 1) /\ h + 1 \in 1 .. Len(s)
    BY <1>1, <2>1
  <2>5. Flat(s, h + 1) = Flat(s, h) \o s[h + 1] /\ s[h + 1] \in Seq(S)
    BY <1>1, <1>2, <2>4
  <2>6. (Flat(s, i) \o x) \o s[h + 1] = Flat(s, i) \o (x \o s[h + 1])
    <3>1. Flat(s, i) \in Seq(S) /\ s[h + 1] \in Seq(S)
      BY <1>2, <2>5
    <3>2. Assoc(S)
      BY ConcatAssoc
    <3> QED BY <3>1, <3>2 DEF Assoc
  <2>7. x \o s[h + 1] \in Seq(S)
    BY <2>5, ConcatProperties
  <2>8. Flat(s, i + (k + 1)) = Flat(s, i) \o (x \o s[h + 1])
    BY <2>3, <2>4, <2>5, <2>6
  <2> QED BY <2>7, <2>8 DEF Begins
<1> HIDE DEF D
<1>5. Nat \subseteq D
  BY <1>3, <1>4, InductionSet
<1>6. PICK k \in Nat : j = i + k /\ i + k <= Len(s)
  <2>1. j - i \in Nat /\ j = i + (j - i) /\ j <= Len(s)
    BY <1>1
  <2> QED BY <2>1
<1>7. k \in D
  BY <1>5
<1> QED BY <1>6, <1>7 DEF D

-----------------------------------------------------------------------------
(***************************************************************************)
(* Messages and what the server makes of them.                             *)
(***************************************************************************)

Strings == Seq(Cells)

CRLF == <<"r", "n">>

\* The size line of a chunk.
SizeFront(c) == <<Digits[Len(c) + 1], "r", "n">>

Sizable(c) == c \in Strings /\ Len(c) \in 0 .. Len(Digits) - 1

LEMMA DigitFacts ==
  /\ Len(Digits) \in Nat \ {0} /\ DOMAIN Digits = 1 .. Len(Digits)
  /\ \A d \in 1 .. Len(Digits) :
       Digits[d] \in Range(Digits) /\ Digits[d] \in Cells /\ Digits[d] \notin {"H", "r", "n"}
<1>1. Digits \in Seq(STRING \ {"H", "r", "n"}) /\ Digits # <<>>
  BY ResponseAssumption
<1>2. Len(Digits) \in Nat \ {0} /\ DOMAIN Digits = 1 .. Len(Digits)
  BY <1>1, LenProperties, EmptySeq
<1>3. \A d \in 1 .. Len(Digits) : Digits[d] \in STRING \ {"H", "r", "n"}
  BY <1>1, ElementOfSeq
<1>4. \A d \in 1 .. Len(Digits) : Digits[d] \in Range(Digits)
  BY <1>2 DEF Range
<1> QED BY <1>2, <1>3, <1>4 DEF Cells

LEMMA CellFacts == {"H", "r", "n", "x", "y"} \subseteq Cells
BY DEF Cells

\* The header, as a string.
Header == <<"H">>

LEMMA HeaderFacts == Header \in Strings /\ Len(Header) = 1 /\ Header[1] = "H"
<1>1. "H" \in Cells
  BY CellFacts
<1> QED BY <1>1 DEF Strings, Header

LEMMA CRLFFacts == CRLF \in Strings /\ Len(CRLF) = 2 /\ CRLF[1] = "r" /\ CRLF[2] = "n"
<1>1. "r" \in Cells /\ "n" \in Cells
  BY CellFacts
<1> QED BY <1>1 DEF Strings, CRLF

LEMMA EmptyFacts ==
  /\ <<>> \in Strings /\ Len(<<>>) = 0
  /\ \A x \in Strings : Len(x) = 0 => x = <<>>
  /\ \A x \in Strings : x \o <<>> = x /\ <<>> \o x = x
BY EmptySeq, LenProperties, ConcatEmptySeq DEF Strings

LEMMA StringLen == \A x \in Strings : Len(x) \in Nat
BY LenProperties DEF Strings

LEMMA StringConcat == \A x, y \in Strings : x \o y \in Strings /\ Len(x \o y) = Len(x) + Len(y)
BY ConcatProperties DEF Strings

LEMMA StringAssoc == \A a, b, c \in Strings : (a \o b) \o c = a \o (b \o c)
<1>1. Assoc(Cells)
  BY ConcatAssoc
<1> QED BY <1>1 DEF Assoc, Strings

\* The same for terms in a proof that knows many strings.
Regroups(a, b, c) == (a \o b) \o c = a \o (b \o c)

LEMMA StringRegroups == \A a, b, c \in Strings : Regroups(a, b, c)
BY StringAssoc DEF Regroups

LEMMA StringCancel ==
  ASSUME NEW a \in Strings, NEW b \in Strings, NEW c \in Strings, a \o b = a \o c
  PROVE  b = c
BY CancelLeft DEF Strings

LEMMA StringSplit ==
  ASSUME NEW a \in Strings, NEW b \in Strings, NEW c \in Strings, NEW d \in Strings,
         a \o b = c \o d, Len(c) <= Len(a)
  PROVE  Overlap(Cells, a, b, c, d)
BY Split DEF Strings

\* What recv takes from the net, and what it leaves there.
LEMMA StringCut ==
  ASSUME NEW s \in Strings, NEW n \in Nat, n <= Len(s)
  PROVE  /\ SubSeq(s, 1, n) \in Strings /\ Len(SubSeq(s, 1, n)) = n
         /\ SubSeq(s, n + 1, Len(s)) \in Strings
         /\ Len(SubSeq(s, n + 1, Len(s))) = Len(s) - n
         /\ SubSeq(s, 1, n) \o SubSeq(s, n + 1, Len(s)) = s
<1>1. n \in 0 .. Len(s)
  BY StringLen
<1> QED BY <1>1, Cut DEF Strings

LEMMA ChunkFacts ==
  ASSUME NEW c, Sizable(c)
  PROVE  /\ SizeFront(c) \in Strings /\ Len(SizeFront(c)) = 3
         /\ Chunk(c) = (SizeFront(c) \o c) \o CRLF
         /\ Chunk(c) = SizeFront(c) \o (c \o CRLF)
         /\ Chunk(c) \in Strings /\ Len(Chunk(c)) = Len(c) + 5
<1>1. Len(c) \in Nat /\ Digits[Len(c) + 1] \in Cells
  <2>1. Len(c) \in Nat /\ Len(c) + 1 \in 1 .. Len(Digits)
    BY DigitFacts DEF Sizable
  <2> QED BY <2>1, DigitFacts
<1>2. SizeFront(c) \in Strings /\ Len(SizeFront(c)) = 3
  BY <1>1, CellFacts DEF SizeFront, Strings
<1>3. c \in Strings /\ CRLF \in Strings
  BY CRLFFacts DEF Sizable
<1>4. (SizeFront(c) \o c) \o CRLF = SizeFront(c) \o (c \o CRLF)
  BY <1>2, <1>3, StringAssoc
<1>5. Chunk(c) = (SizeFront(c) \o c) \o CRLF
  BY DEF Chunk, SizeFront, CRLF
<1>6. SizeFront(c) \o c \in Strings /\ Len(SizeFront(c) \o c) = Len(SizeFront(c)) + Len(c)
  BY <1>2, <1>3, StringConcat
<1>7. /\ (SizeFront(c) \o c) \o CRLF \in Strings
      /\ Len((SizeFront(c) \o c) \o CRLF) = Len(SizeFront(c) \o c) + Len(CRLF)
  BY <1>3, <1>6, StringConcat
<1>8. Len(Chunk(c)) = Len(c) + 5
  BY <1>1, <1>2, <1>5, <1>6, <1>7, CRLFFacts
<1> QED BY <1>2, <1>4, <1>5, <1>7, <1>8

Pieces(m) == [i \in DOMAIN m.chunks |-> Chunk(m.chunks[i])]

LEMMA MessageFacts ==
  ASSUME NEW m \in Messages
  PROVE  /\ m.method \in {"GET", "HEAD"} /\ m.ok \in BOOLEAN /\ m.text \in BOOLEAN
         /\ m.framing \in {"length", "chunked", "implicit", "none"}
         /\ m.chunks \in Seq(Strings)
         /\ Len(m.chunks) \in Nat /\ DOMAIN m.chunks = 1 .. Len(m.chunks)
         /\ Body(m) \in Strings
         /\ Coded(m) => \A i \in 1 .. Len(m.chunks) : Sizable(m.chunks[i]) /\ m.chunks[i] # <<>>
<1>1. /\ m.method \in {"GET", "HEAD"} /\ m.ok \in BOOLEAN /\ m.text \in BOOLEAN
      /\ m.framing \in {"length", "chunked", "implicit", "none"}
      /\ m.chunks \in Seq(Strings)
      /\ Coded(m) => \A i \in DOMAIN m.chunks : Len(m.chunks[i]) \in 1 .. Len(Digits) - 1
  BY DEF Messages, Anything, Strings
<1>2. /\ Len(m.chunks) \in Nat /\ DOMAIN m.chunks = 1 .. Len(m.chunks)
      /\ \A i \in 1 .. Len(m.chunks) : m.chunks[i] \in Strings
  BY <1>1, LenProperties, ElementOfSeq
<1>3. Body(m) \in Strings
  BY <1>1, FlattenType DEF Body, Strings
<1>4. ASSUME Coded(m), NEW i \in 1 .. Len(m.chunks)
      PROVE  Sizable(m.chunks[i]) /\ m.chunks[i] # <<>>
  <2>1. Len(m.chunks[i]) \in 1 .. Len(Digits) - 1
    BY <1>1, <1>2, <1>4
  <2>2. Len(m.chunks[i]) \in 0 .. Len(Digits) - 1 /\ Len(m.chunks[i]) # 0
    BY <2>1, DigitFacts
  <2> QED BY <1>2, <2>2, EmptyFacts DEF Sizable
<1> QED BY <1>1, <1>2, <1>3, <1>4

LEMMA PiecesFacts ==
  ASSUME NEW m \in Messages, Coded(m)
  PROVE  /\ Pieces(m) \in Seq(Strings) /\ Len(Pieces(m)) = Len(m.chunks)
         /\ \A i \in 1 .. Len(m.chunks) : Pieces(m)[i] = Chunk(m.chunks[i])
<1>1. /\ Len(m.chunks) \in Nat /\ DOMAIN m.chunks = 1 .. Len(m.chunks)
      /\ \A i \in 1 .. Len(m.chunks) : Chunk(m.chunks[i]) \in Strings
  BY MessageFacts, ChunkFacts
<1>2. Pieces(m) = [i \in 1 .. Len(m.chunks) |-> Chunk(m.chunks[i])]
  BY <1>1 DEF Pieces
<1>3. Pieces(m) \in [1 .. Len(m.chunks) -> Strings]
  BY <1>1, <1>2
<1>4. Pieces(m) \in Seq(Strings)
  BY <1>1, <1>3
<1> QED BY <1>1, <1>2, <1>3, <1>4

\* Behind the header of a coded message: its chunks and the last one.
LEMMA WireFacts ==
  ASSUME NEW m \in Messages
  PROVE  /\ Wire(m) \in Strings
         /\ m.method = "HEAD" => Wire(m) = Header
         /\ m.method = "GET" /\ ~Coded(m) => Wire(m) = Header \o Body(m)
         /\ Coded(m) =>
              /\ Wire(m) = (Header \o FlattenSeq(Pieces(m))) \o Chunk(<<>>)
              /\ WithoutLast(m) = Header \o FlattenSeq(Pieces(m))
              /\ FlattenSeq(Pieces(m)) \in Strings
<1>1. ASSUME m.method = "HEAD" PROVE Wire(m) = Header
  <2>1. m.method # "GET" /\ ~Coded(m)
    BY <1>1 DEF Coded
  <2>2. Wire(m) = Header \o <<>>
    BY <1>1, <2>1 DEF Wire, Header
  <2> QED BY <2>2, HeaderFacts, EmptyFacts
<1>2. m.method = "GET" /\ ~Coded(m) => Wire(m) = Header \o Body(m)
  BY DEF Wire, Header
<1>3. ASSUME Coded(m)
      PROVE  /\ Wire(m) = (Header \o FlattenSeq(Pieces(m))) \o Chunk(<<>>)
             /\ WithoutLast(m) = Header \o FlattenSeq(Pieces(m))
             /\ FlattenSeq(Pieces(m)) \in Strings
             /\ Wire(m) \in Strings
  <2>1. PICK f \in Strings : f = FlattenSeq(Pieces(m))
    BY <1>3, PiecesFacts, FlattenType DEF Strings
  <2>2. Sizable(<<>>)
    BY DigitFacts, EmptyFacts DEF Sizable
  <2>3. PICK c \in Strings : c = Chunk(<<>>) /\ Len(c) = 5
    <3>1. Chunk(<<>>) \in Strings /\ Len(Chunk(<<>>)) = Len(<<>>) + 5
      BY <2>2, ChunkFacts
    <3> QED BY <3>1, EmptyFacts
  <2>4. m.method # "HEAD"
    BY <1>3 DEF Coded
  <2>5. Wire(m) = Header \o (f \o c)
    BY <1>3, <2>1, <2>3, <2>4 DEF Wire, Pieces, Header
  <2>6. Wire(m) = (Header \o f) \o c
    BY <2>5, HeaderFacts, StringAssoc
  <2>7. PICK h \in Strings : h = Header \o f
    BY HeaderFacts, StringConcat
  <2>8. Wire(m) = h \o c /\ h \o c \in Strings /\ Len(h \o c) = Len(h) + Len(c)
    BY <2>6, <2>7, StringConcat
  <2>9. WithoutLast(m) = h
    <3>1. SubSeq(h \o c, 1, Len(h)) = h
      BY Halves DEF Strings
    <3>2. Len(h \o c) - Len(c) = Len(h)
      BY <2>8, StringLen
    <3> QED BY <2>3, <2>8, <3>1, <3>2 DEF WithoutLast
  <2> QED BY <2>1, <2>3, <2>6, <2>7, <2>8, <2>9
<1>4. Wire(m) \in Strings
  <2>1. CASE m.method = "HEAD"
    BY <1>1, <2>1, HeaderFacts
  <2>2. CASE m.method = "GET" /\ ~Coded(m)
    BY <1>2, <2>2, MessageFacts, HeaderFacts, StringConcat
  <2>3. CASE Coded(m)
    BY <1>3, <2>3
  <2> QED BY <2>1, <2>2, <2>3, MessageFacts
<1> QED BY <1>1, <1>2, <1>3, <1>4

\* What the server may send for m.
Form(m, w) == w = Wire(m) \/ (Coded(m) /\ w = WithoutLast(m))

LEMMA FormFacts ==
  ASSUME NEW m \in Messages, NEW w, Form(m, w)
  PROVE  /\ w \in Strings
         /\ \E t \in Strings : w = Header \o t
         /\ \E t \in Strings : Wire(m) = w \o t
         /\ m.method = "HEAD" => w = Header
         /\ m.method = "GET" /\ ~Coded(m) => w = Header \o Body(m)
<1>1. Wire(m) \in Strings /\ Wire(m) = Wire(m) \o <<>> /\ <<>> \in Strings
  BY WireFacts, EmptyFacts
<1>2. CASE Coded(m)
  <2>1. PICK f \in Strings : f = FlattenSeq(Pieces(m))
    BY <1>2, WireFacts
  <2>2. PICK c \in Strings : c = Chunk(<<>>)
    <3>1. Sizable(<<>>)
      BY DigitFacts, EmptyFacts DEF Sizable
    <3> QED BY <3>1, ChunkFacts
  <2>3. Wire(m) = (Header \o f) \o c /\ WithoutLast(m) = Header \o f
    BY <1>2, <2>1, <2>2, WireFacts
  <2>4. Header \o f \in Strings /\ Wire(m) = Header \o (f \o c) /\ f \o c \in Strings
    BY <2>3, HeaderFacts, StringConcat, StringAssoc
  <2>5. m.method = "GET"
    BY <1>2 DEF Coded
  <2>6. CASE w = Wire(m)
    BY <1>1, <1>2, <2>4, <2>5, <2>6
  <2>7. CASE w = WithoutLast(m)
    BY <1>2, <2>3, <2>4, <2>5, <2>7
  <2> QED BY <1>2, <2>6, <2>7 DEF Form
<1>3. CASE ~Coded(m)
  <2>1. w = Wire(m)
    BY <1>3 DEF Form
  <2>2. CASE m.method = "HEAD"
    <3>1. w = Header
      BY <2>1, <2>2, WireFacts
    <3> QED BY <1>1, <2>1, <2>2, <3>1, HeaderFacts, EmptyFacts
  <2>3. CASE m.method = "GET"
    <3>1. w = Header \o Body(m) /\ Body(m) \in Strings
      BY <1>3, <2>1, <2>3, WireFacts, MessageFacts
    <3> QED BY <1>1, <2>1, <2>3, <3>1
  <2> QED BY <2>2, <2>3, MessageFacts
<1> QED BY <1>2, <1>3

\* A received piece of it begins with the header.
LEMMA HeaderFirst ==
  ASSUME NEW a \in Strings, NEW b \in Strings, NEW t \in Strings, a # <<>>, a \o b = Header \o t
  PROVE  a[1] = "H" /\ Len(a) >= 1 /\ Overlap(Cells, a, b, Header, t)
<1>1. Len(Header) <= Len(a)
  BY HeaderFacts, StringLen, EmptyFacts
<1>2. Overlap(Cells, a, b, Header, t)
  BY <1>1, HeaderFacts, StringSplit
<1>3. PICK x \in Strings : a = Header \o x /\ t = x \o b
  BY <1>2 DEF Overlap, Strings
<1>4. (Header \o x)[1] = "H"
  <2>1. 1 \in 1 .. Len(Header) + Len(x) /\ 1 <= Len(Header)
    BY HeaderFacts, StringLen
  <2>2. (Header \o x)[1] = Header[1]
    BY <2>1, HeaderFacts, ConcatProperties DEF Strings
  <2> QED BY <2>2, HeaderFacts
<1> QED BY <1>1, <1>2, <1>3, <1>4, HeaderFacts

-----------------------------------------------------------------------------
(***************************************************************************)
(* What the browser receives.                                              *)
(***************************************************************************)

Replies == Seq(Items)

LEMMA ReplyConcat ==
  /\ <<>> \in Replies /\ Len(<<>>) = 0
  /\ \A x \in Replies : Len(x) \in Nat /\ x \o <<>> = x /\ <<>> \o x = x
  /\ \A x, y \in Replies : x \o y \in Replies /\ Len(x \o y) = Len(x) + Len(y)
BY EmptySeq, LenProperties, ConcatEmptySeq, ConcatProperties DEF Replies

LEMMA ReplyAssoc == \A a, b, c \in Replies : (a \o b) \o c = a \o (b \o c)
<1>1. Assoc(Items)
  BY ConcatAssoc
<1> QED BY <1>1 DEF Assoc, Replies

LEMMA RawFacts ==
  /\ Raw(<<>>) = <<>>
  /\ \A a \in Strings : Raw(a) \in Replies /\ Len(Raw(a)) = Len(a)
  /\ \A a, b \in Strings : Raw(a \o b) = Raw(a) \o Raw(b)
<1>1. ASSUME NEW a \in Strings
      PROVE  /\ Raw(a) \in Replies /\ Len(Raw(a)) = Len(a)
             /\ \A i \in 1 .. Len(a) : Raw(a)[i] = <<a[i], -1>>
  <2>1. Len(a) \in Nat /\ DOMAIN a = 1 .. Len(a) /\ \A i \in 1 .. Len(a) : a[i] \in Cells
    BY LenProperties, ElementOfSeq DEF Strings
  <2>2. Raw(a) = [i \in 1 .. Len(a) |-> <<a[i], -1>>]
    BY <2>1 DEF Raw
  <2>3. \A i \in 1 .. Len(a) : <<a[i], -1>> \in Items
    BY <2>1 DEF Items
  <2>4. Raw(a) \in [1 .. Len(a) -> Items]
    BY <2>2, <2>3
  <2> QED BY <2>1, <2>2, <2>4 DEF Replies
<1>2. Raw(<<>>) = <<>>
  <2>1. DOMAIN <<>> = {}
    OBVIOUS
  <2> QED BY <2>1 DEF Raw
<1>3. ASSUME NEW a \in Strings, NEW b \in Strings PROVE Raw(a \o b) = Raw(a) \o Raw(b)
  <2>1. a \o b \in Strings /\ Len(a \o b) = Len(a) + Len(b) /\ Len(a) \in Nat /\ Len(b) \in Nat
    BY StringConcat, StringLen
  <2>2. PICK u \in Replies : u = Raw(a) /\ Len(u) = Len(a) /\ \A i \in 1 .. Len(a) : u[i] = <<a[i], -1>>
    BY <1>1
  <2>3. PICK v \in Replies : v = Raw(b) /\ Len(v) = Len(b) /\ \A i \in 1 .. Len(b) : v[i] = <<b[i], -1>>
    BY <1>1
  <2>4. PICK x \in Replies : /\ x = Raw(a \o b) /\ Len(x) = Len(a) + Len(b)
                             /\ \A i \in 1 .. Len(a) + Len(b) : x[i] = <<(a \o b)[i], -1>>
    BY <1>1, <2>1
  <2>5. \A i \in 1 .. Len(a) + Len(b) : (a \o b)[i] = IF i <= Len(a) THEN a[i] ELSE b[i - Len(a)]
    BY ConcatProperties DEF Strings
  <2>6. u \o v \in Replies /\ Len(u \o v) = Len(u) + Len(v)
    BY ReplyConcat
  <2>7. \A i \in 1 .. Len(u) + Len(v) : (u \o v)[i] = IF i <= Len(u) THEN u[i] ELSE v[i - Len(u)]
    BY ConcatProperties DEF Replies
  <2>8. \A i \in 1 .. Len(x) : x[i] = (u \o v)[i]
    <3> TAKE i \in 1 .. Len(x)
    <3>1. i \in 1 .. Len(a) + Len(b) /\ i \in 1 .. Len(u) + Len(v)
      BY <2>2, <2>3, <2>4
    <3>2. CASE i <= Len(a)
      <4>1. i \in 1 .. Len(a) /\ i <= Len(u)
        BY <2>1, <2>2, <3>1, <3>2
      <4>2. (u \o v)[i] = u[i]
        BY <2>7, <3>1, <4>1
      <4>3. (a \o b)[i] = a[i]
        BY <2>5, <3>1, <3>2
      <4> QED BY <2>2, <2>4, <3>1, <4>1, <4>2, <4>3
    <3>3. CASE ~(i <= Len(a))
      <4>1. i - Len(a) \in 1 .. Len(b) /\ ~(i <= Len(u)) /\ i - Len(u) = i - Len(a)
        BY <2>1, <2>2, <3>1, <3>3
      <4>2. (u \o v)[i] = v[i - Len(a)]
        BY <2>7, <3>1, <4>1
      <4>3. (a \o b)[i] = b[i - Len(a)]
        BY <2>5, <3>1, <3>3
      <4> QED BY <2>3, <2>4, <3>1, <4>1, <4>2, <4>3
    <3> QED BY <3>2, <3>3
  <2>9. Len(x) = Len(u \o v)
    BY <2>2, <2>3, <2>4, <2>6
  <2>10. x = u \o v
    BY <2>6, <2>8, <2>9, SeqEqual DEF Replies
  <2> QED BY <2>2, <2>3, <2>4, <2>10
<1> QED BY <1>1, <1>2, <1>3

\* A header with its body, as the browser receives it.
LEMMA HeadedFacts ==
  ASSUME NEW n \in Nat \cup {-1}, NEW b \in Strings
  PROVE  /\ Headed(n, b) \in Replies /\ Len(Headed(n, b)) = 1 + Len(b)
         /\ Headed(-1, b) = Raw(Header \o b)
<1>1. PICK u \in Replies : u = <<<<"H", n>>>> /\ Len(u) = 1
  <2>1. PICK e \in Items : e = <<"H", n>>
    BY CellFacts DEF Items
  <2>2. <<e>> \in Seq(Items) /\ Len(<<e>>) = 1
    OBVIOUS
  <2>3. <<<<"H", n>>>> \in Replies /\ Len(<<<<"H", n>>>>) = 1
    BY <2>1, <2>2, Zenon DEF Replies
  <2> QED BY <2>3, Zenon
<1>2. PICK v \in Replies : v = Raw(b) /\ Len(v) = Len(b)
  BY RawFacts
<1>3. Headed(n, b) = u \o v
  BY <1>1, <1>2 DEF Headed
<1>4. Headed(n, b) \in Replies /\ Len(Headed(n, b)) = 1 + Len(b)
  BY <1>1, <1>2, <1>3, ReplyConcat
<1>5. Headed(-1, b) = Raw(Header \o b)
  <2>1. Raw(Header) = <<<<"H", -1>>>>
    <3>1. DOMAIN <<"H">> = {1} /\ <<"H">>[1] = "H"
      OBVIOUS
    <3>2. Raw(<<"H">>) = [i \in {1} |-> <<<<"H">>[i], -1>>]
      BY <3>1 DEF Raw
    <3>3. [i \in {1} |-> <<<<"H">>[i], -1>>] = [i \in {1} |-> <<"H", -1>>]
      BY <3>1
    <3>4. <<<<"H", -1>>>> = [i \in {1} |-> <<"H", -1>>]
      OBVIOUS
    <3> QED BY <3>2, <3>3, <3>4 DEF Header
  <2>2. Raw(Header \o b) = Raw(Header) \o Raw(b)
    BY RawFacts, HeaderFacts
  <2> QED BY <2>1, <2>2 DEF Headed
<1> QED BY <1>4, <1>5

LEMMA ExpectedFacts ==
  ASSUME NEW m \in Messages
  PROVE  Expected(m) \in Replies /\ Len(Expected(m)) >= 1
<1>1. CASE Translated(m)
  <2>1. Body(m) \in Strings /\ Len(Body(m)) \in Nat
    BY MessageFacts, StringLen
  <2>2. Headed(Len(Body(m)), Body(m)) \in Replies /\ Len(Headed(Len(Body(m)), Body(m))) = 1 + Len(Body(m))
    BY <2>1, HeadedFacts
  <2> QED BY <1>1, <2>1, <2>2 DEF Expected
<1>2. CASE ~Translated(m)
  <2>1. Form(m, Wire(m))
    BY DEF Form
  <2>2. PICK t \in Strings : Wire(m) = Header \o t
    BY <2>1, FormFacts
  <2>3. Wire(m) \in Strings /\ Len(Wire(m)) = 1 + Len(t)
    BY <2>2, HeaderFacts, StringConcat
  <2>4. Raw(Wire(m)) \in Replies /\ Len(Raw(Wire(m))) = Len(Wire(m))
    BY <2>3, RawFacts
  <2> QED BY <1>2, <2>3, <2>4, StringLen DEF Expected
<1> QED BY <1>1, <1>2

\* Answers, with the conversation as an argument.
AnswersTo(s, n) == FlattenSeq([i \in 1 .. n |-> Expected(s[i])])

LEMMA AnswersAre == \A n : Answers(n) = AnswersTo(script, n)
BY DEF Answers, AnswersTo

LEMMA AnswersFacts ==
  ASSUME NEW s \in Seq(Messages)
  PROVE  /\ Len(s) \in Nat
         /\ AnswersTo(s, 0) = <<>>
         /\ \A n \in 0 .. Len(s) : AnswersTo(s, n) \in Replies
         /\ \A n \in 1 .. Len(s) : /\ s[n] \in Messages /\ AnswersTo(s, n - 1) \in Replies
                                   /\ AnswersTo(s, n) = AnswersTo(s, n - 1) \o Expected(s[n])
         /\ \A n \in 0 .. Len(s) : Begins(Items, AnswersTo(s, n), AnswersTo(s, Len(s)))
<1>1. Len(s) \in Nat /\ \A i \in 1 .. Len(s) : s[i] \in Messages
  BY LenProperties, ElementOfSeq
<1>2. \A i \in 1 .. Len(s) : Expected(s[i]) \in Seq(Items)
  BY <1>1, ExpectedFacts DEF Replies
<1>3. PICK e \in Seq(Seq(Items)) : Len(e) = Len(s) /\ \A i \in 1 .. Len(s) : e[i] = Expected(s[i])
  <2> DEFINE f == [i \in 1 .. Len(s) |-> Expected(s[i])]
  <2>1. f \in [1 .. Len(s) -> Seq(Items)]
    BY <1>2
  <2>2. f \in Seq(Seq(Items)) /\ Len(f) = Len(s)
    BY <1>1, <2>1
  <2>3. \A i \in 1 .. Len(s) : f[i] = Expected(s[i])
    OBVIOUS
  <2> HIDE DEF f
  <2> QED BY <2>2, <2>3
<1>4. ASSUME NEW n \in 0 .. Len(s) PROVE AnswersTo(s, n) = Flat(e, n)
  <2>1. SubSeq(e, 1, n) = [i \in 1 .. n |-> Expected(s[i])]
    <3>1. \A i \in 1 .. n : e[i] = Expected(s[i])
      BY <1>1, <1>3
    <3>2. SubSeq(e, 1, n) = [i \in 1 .. n |-> e[i]]
      <4>1. SubSeq(e, 1, n) = Restrict(e, 1 .. n)
        BY <1>3, SubSeqRestrict
      <4> QED BY <4>1 DEF Restrict
    <3>3. [i \in 1 .. n |-> e[i]] = [i \in 1 .. n |-> Expected(s[i])]
      BY <3>1
    <3> QED BY <3>2, <3>3
  <2> QED BY <2>1 DEF AnswersTo, Flat
<1>5. AnswersTo(s, 0) = <<>>
  BY <1>1, <1>4, FlatProperties
<1>6. \A n \in 0 .. Len(s) : AnswersTo(s, n) \in Replies
  BY <1>3, <1>4, FlatProperties DEF Replies
<1>7. ASSUME NEW n \in 1 .. Len(s)
      PROVE  /\ s[n] \in Messages /\ AnswersTo(s, n - 1) \in Replies
             /\ AnswersTo(s, n) = AnswersTo(s, n - 1) \o Expected(s[n])
  <2>1. PICK k \in 0 .. Len(e) - 1 : k = n - 1 /\ k + 1 = n /\ k \in 0 .. Len(s) /\ n \in 0 .. Len(s)
    BY <1>1, <1>3
  <2>2. Flat(e, k + 1) = Flat(e, k) \o e[k + 1]
    BY FlatProperties
  <2>3. e[n] = Expected(s[n])
    BY <1>3
  <2>4. AnswersTo(s, n) = Flat(e, n) /\ AnswersTo(s, k) = Flat(e, k) /\ AnswersTo(s, k) \in Replies
    BY <1>4, <1>6, <2>1
  <2> QED BY <1>1, <2>1, <2>2, <2>3, <2>4
<1>8. ASSUME NEW n \in 0 .. Len(s) PROVE Begins(Items, AnswersTo(s, n), AnswersTo(s, Len(s)))
  <2>1. n \in 0 .. Len(e) /\ Len(e) \in n .. Len(e) /\ Len(s) \in 0 .. Len(s)
    BY <1>1, <1>3
  <2>2. Begins(Items, Flat(e, n), Flat(e, Len(e)))
    BY <2>1, FlatGrows
  <2> QED BY <1>3, <1>4, <2>1, <2>2
<1> QED BY <1>1, <1>5, <1>6, <1>7, <1>8

-----------------------------------------------------------------------------
(***************************************************************************)
(* Looking into a stream.                                                  *)
(***************************************************************************)

\* The first end of a line is one, and no other comes before it.
LEMMA FirstEndFacts ==
  ASSUME NEW s \in Strings, NEW from \in Nat, HasLine(s, from)
  PROVE  /\ FirstEnd(s, from) \in from + 1 .. Len(s)
         /\ FirstEnd(s, from) \in LineEnds(s, from)
         /\ \A j \in LineEnds(s, from) : FirstEnd(s, from) <= j
<1>1. Len(s) \in Nat
  BY StringLen
<1>2. LineEnds(s, from) \subseteq from + 1 .. Len(s)
  BY DEF LineEnds
<1>3. LineEnds(s, from) \in SUBSET Nat /\ LineEnds(s, from) # {}
  BY <1>1, <1>2 DEF HasLine
<1>4. \E i \in LineEnds(s, from) : \A j \in LineEnds(s, from) : i <= j
  BY <1>3, LeastNumber
<1>5. /\ FirstEnd(s, from) \in LineEnds(s, from)
      /\ \A j \in LineEnds(s, from) : FirstEnd(s, from) <= j
  BY <1>4 DEF FirstEnd
<1> QED BY <1>2, <1>5

LEMMA SizeLineFacts ==
  ASSUME NEW s \in Strings, NEW from \in Nat, HasLine(s, from)
  PROVE  /\ SizeLine(s, from) \in Strings
         /\ Len(SizeLine(s, from)) = FirstEnd(s, from) - 1 - from
         /\ \A i \in 1 .. Len(SizeLine(s, from)) : SizeLine(s, from)[i] = s[from + i]
<1>1. PICK e \in from + 1 .. Len(s) : e = FirstEnd(s, from)
  BY FirstEndFacts
<1>2. Len(s) \in Nat /\ \A i \in 1 .. Len(s) : s[i] \in Cells
  BY StringLen, ElementOfSeq DEF Strings
<1>3. from + 1 \in Int /\ e - 1 \in Int /\ \A i \in from + 1 .. e - 1 : s[i] \in Cells
  BY <1>2
<1>4. /\ SubSeq(s, from + 1, e - 1) \in Seq(Cells)
      /\ Len(SubSeq(s, from + 1, e - 1)) = IF from + 1 <= e - 1 THEN e - 1 - (from + 1) + 1 ELSE 0
      /\ \A i \in 1 .. e - 1 - (from + 1) + 1 : SubSeq(s, from + 1, e - 1)[i] = s[from + 1 + i - 1]
  BY <1>3, SubSeqProperties
<1>5. PICK t \in Strings : t = SizeLine(s, from)
  BY <1>1, <1>4 DEF SizeLine, Strings
<1>6. Len(t) = e - 1 - from
  BY <1>1, <1>2, <1>4, <1>5 DEF SizeLine
<1>7. \A i \in 1 .. Len(t) : t[i] = s[from + i]
  <2> TAKE i \in 1 .. Len(t)
  <2>1. i \in 1 .. e - 1 - (from + 1) + 1 /\ from + 1 + i - 1 = from + i
    BY <1>2, <1>6
  <2>2. t[i] = s[from + 1 + i - 1]
    BY <1>1, <1>4, <1>5, <2>1 DEF SizeLine
  <2> QED BY <2>1, <2>2
<1> QED BY <1>1, <1>5, <1>6, <1>7

LEMMA SizeOfType ==
  ASSUME NEW line \in Strings, ~BrokenSize(line)
  PROVE  SizeOf(line) \in 0 .. Len(Digits) - 1 /\ Digits[SizeOf(line) + 1] = line[Len(line)]
<1>1. Len(line) \in Nat /\ Len(line) # 0 /\ DOMAIN line = 1 .. Len(line)
  BY LenProperties DEF BrokenSize, Strings
<1>2. line[Len(line)] \in Range(Digits)
  <2>1. Len(line) \in DOMAIN line
    BY <1>1
  <2> QED BY <2>1 DEF BrokenSize
<1>3. \E d \in DOMAIN Digits : Digits[d] = line[Len(line)]
  BY <1>2 DEF Range
<1>4. PICK d \in DOMAIN Digits : d = (CHOOSE e \in DOMAIN Digits : Digits[e] = line[Len(line)])
                                  /\ Digits[d] = line[Len(line)]
  BY <1>3
<1>5. SizeOf(line) = d - 1 /\ d \in 1 .. Len(Digits)
  BY <1>4, DigitFacts DEF SizeOf
<1> QED BY <1>4, <1>5, DigitFacts

LEMMA ErasedType ==
  ASSUME NEW s \in Strings, NEW pos \in Nat, NEW len \in Nat
  PROVE  Erased(s, pos, len) \in Strings
<1>1. Len(s) \in Nat /\ \A i \in 1 .. Len(s) : s[i] \in Cells
  BY StringLen, ElementOfSeq DEF Strings
<1>2. CASE pos <= Len(s)
  <2>1. SubSeq(s, 1, pos) \in Strings
    BY <1>2, StringCut
  <2>2. pos + len + 1 \in Int /\ \A i \in pos + len + 1 .. Len(s) : s[i] \in Cells
    BY <1>1
  <2>3. SubSeq(s, pos + len + 1, Len(s)) \in Strings
    BY <1>1, <2>2, SubSeqProperties DEF Strings
  <2> QED BY <1>2, <2>1, <2>3, StringConcat DEF Erased
<1>3. CASE ~(pos <= Len(s))
  <2>1. PICK k \in Nat : k = pos - Len(s)
    BY <1>1, <1>3
  <2>2. PICK f \in [1 .. k -> Cells] : f = [i \in 1 .. k |-> "y"]
    BY CellFacts
  <2>3. f \in Strings
    BY DEF Strings
  <2>4. Erased(s, pos, len) = s \o f
    BY <1>3, <2>1, <2>2 DEF Erased
  <2> QED BY <2>3, <2>4, StringConcat
<1> QED BY <1>2, <1>3

LEMMA LessType ==
  ASSUME NEW n \in Nat, NEW size \in Nat
  PROVE  Less(n, size) \in Nat /\ Less(0, size) = 0 /\ (n >= size => Less(n, size) = n - size)
         /\ (n <= size => Less(n, size) = 0)
BY DEF Less

\* What is received moves from the net to the thread.
LEMMA RecvFacts ==
  ASSUME net \in Strings, NEW n, Recv(n)
  PROVE  /\ n \in Nat \ {0} /\ n <= Len(net) /\ open
         /\ SubSeq(net, 1, n) \in Strings /\ Len(SubSeq(net, 1, n)) = n
         /\ net' \in Strings /\ Len(net') = Len(net) - n
         /\ SubSeq(net, 1, n) \o net' = net
         /\ errno' \in LeftErrno
<1>1. n \in Nat \ {0} /\ n <= Len(net) /\ open /\ errno' \in LeftErrno
      /\ net' = SubSeq(net, n + 1, Len(net))
  BY ResponseAssumption DEF Recv
<1> QED BY <1>1, StringCut

-----------------------------------------------------------------------------
(***************************************************************************)
(* Types.  The header that is being answered is known (ridx # 0) wherever  *)
(* the thread is beyond it, and what recv added is no less than nothing.   *)
(***************************************************************************)

TypeConversation == script \in Scripts /\ faults \in FaultSets
TypeCounts == asked \in 0 .. Len(script) /\ sent \in 0 .. asked /\ ridx \in 0 .. asked
TypeStreams == net \in Strings /\ stream \in Strings /\ out \in Replies
TypeFlags == eof \in BOOLEAN /\ errno \in BOOLEAN /\ open \in BOOLEAN /\ text \in BOOLEAN
TypeNumbers ==
  /\ remain \in Nat /\ total \in Nat /\ cbegin \in Nat
  /\ csize \in Nat /\ goal \in Nat /\ mark \in Nat

Places == {"Select", "Line", "Detect", "Chunk", "ChunkWait", "ChunkData", "Size", "Zero", "Reply"}
TypePlace == pc \in Places /\ mode \in {"unlimited", "chunked", "length"}

TypeBeyond ==
  /\ pc \notin {"Select", "Line"} => ridx >= 1
  /\ pc \in {"Detect", "ChunkWait", "ChunkData"} => mark <= Len(stream)

TypeInv ==
  /\ TypeConversation /\ TypeCounts /\ TypeStreams /\ TypeFlags /\ TypeNumbers
  /\ TypePlace /\ TypeBeyond

LEMMA TypeParts == TypeInv => TypeOK
BY DEF TypeInv, TypeOK, TypeConversation, TypeCounts, TypeStreams, TypeFlags, TypeNumbers,
       TypePlace, Places, Strings, Replies

LEMMA ScriptFacts ==
  ASSUME TypeConversation
  PROVE  /\ script \in Seq(Messages) /\ Len(script) \in Nat
         /\ \A i \in 1 .. Len(script) : script[i] \in Messages
<1>1. script \in Seq(Messages)
  BY ResponseAssumption DEF TypeConversation
<1> QED BY <1>1, LenProperties, ElementOfSeq

LEMMA TypeInit == Init => TypeInv
<1> SUFFICES ASSUME Init PROVE TypeInv
  OBVIOUS
<1>1. TypeConversation
  BY DEF Init, TypeConversation
<1>2. TypeCounts
  <2>1. Len(script) \in Nat
    BY <1>1, ScriptFacts
  <2> QED BY <2>1 DEF Init, TypeCounts
<1>3. TypeStreams
  BY EmptyFacts, ReplyConcat DEF Init, TypeStreams
<1>4. TypeFlags /\ TypeNumbers /\ TypePlace /\ TypeBeyond
  BY DEF Init, TypeFlags, TypeNumbers, TypePlace, Places, TypeBeyond
<1> QED BY <1>1, <1>2, <1>3, <1>4 DEF TypeInv

LEMMA LeftType ==
  ASSUME TypeFlags, errno' \in LeftErrno
  PROVE  errno' \in BOOLEAN
BY DEF TypeFlags, LeftErrno

LEMMA TypeAsk ==
  ASSUME TypeInv, Ask
  PROVE  TypeInv'
<1>1. TypeConversation'
  BY DEF TypeInv, TypeConversation, Ask
<1>2. TypeCounts'
  <2>1. Len(script) \in Nat
    BY ScriptFacts DEF TypeInv
  <2> QED BY <2>1 DEF TypeInv, TypeCounts, Ask
<1>3. TypeStreams'
  BY DEF TypeInv, TypeStreams, Ask
<1>4. TypeFlags'
  <2>1. errno' \in BOOLEAN
    BY LeftType DEF TypeInv, Ask
  <2> QED BY <2>1 DEF TypeInv, TypeFlags, Ask
<1>5. TypeNumbers'
  BY DEF TypeInv, TypeNumbers, Ask, chunk, loop
<1>6. TypePlace' /\ TypeBeyond'
  BY DEF TypeInv, TypePlace, TypeBeyond, Ask
<1> QED BY <1>1, <1>2, <1>3, <1>4, <1>5, <1>6 DEF TypeInv

LEMMA TypeServerSend ==
  ASSUME TypeInv, ServerSend
  PROVE  TypeInv'
<1>1. TypeConversation'
  BY DEF TypeInv, TypeConversation, ServerSend
<1>2. Len(script) \in Nat /\ sent + 1 \in 1 .. Len(script) /\ script[sent + 1] \in Messages
  <2>1. Len(script) \in Nat
    BY ScriptFacts DEF TypeInv
  <2>2. sent + 1 \in 1 .. Len(script)
    BY <2>1 DEF TypeInv, TypeCounts, ServerSend
  <2> QED BY <2>1, <2>2, ScriptFacts DEF TypeInv
<1>3. TypeCounts'
  BY <1>2 DEF TypeInv, TypeCounts, ServerSend
<1>4. PICK m \in Messages : m = script[sent + 1]
  BY <1>2
<1>5. /\ \/ net' = net \o Wire(m) /\ eof' = Closing(m)
         \/ Coded(m) /\ net' = net \o WithoutLast(m) /\ eof' = TRUE
  BY <1>4 DEF ServerSend
<1>6. eof' \in BOOLEAN
  BY <1>5 DEF Closing
<1>7. net' \in Strings
  <2>1. Wire(m) \in Strings
    BY FormFacts DEF Form
  <2>2. Coded(m) => WithoutLast(m) \in Strings
    BY FormFacts DEF Form
  <2>3. net \in Strings
    BY DEF TypeInv, TypeStreams
  <2> QED BY <1>5, <2>1, <2>2, <2>3, StringConcat
<1>8. TypeStreams' /\ TypeFlags'
  BY <1>6, <1>7 DEF TypeInv, TypeStreams, TypeFlags, ServerSend
<1>9. TypeNumbers'
  BY DEF TypeInv, TypeNumbers, ServerSend, chunk, loop
<1>10. TypePlace' /\ TypeBeyond'
  BY DEF TypeInv, TypePlace, TypeBeyond, ServerSend, loop
<1> QED BY <1>1, <1>3, <1>8, <1>9, <1>10 DEF TypeInv

LEMMA TypeFirst ==
  ASSUME TypeInv, FirstBody \/ FirstRecv \/ FirstEof
  PROVE  TypeInv'
<1> USE DEF TypeInv
<1>1. TypeConversation'
  BY DEF TypeConversation, FirstBody, FirstRecv, FirstEof, server, query
<1>2. TypeCounts'
  <2>1. asked \in Nat
    BY ScriptFacts DEF TypeCounts
  <2> QED BY <2>1 DEF TypeCounts, FirstBody, FirstRecv, FirstEof, server, query
<1>3. net \in Strings /\ stream \in Strings /\ out \in Replies /\ remain \in Nat
  BY DEF TypeStreams, TypeNumbers
<1>4. CASE FirstBody
  <2>1. PICK n \in 1 .. remain : /\ Recv(n) /\ remain' = remain - n
                                 /\ out' = out \o Raw(SubSeq(net, 1, n))
    BY <1>4 DEF FirstBody
  <2>2. SubSeq(net, 1, n) \in Strings /\ net' \in Strings /\ errno' \in LeftErrno
    BY <1>3, <2>1, RecvFacts
  <2>3. out' \in Replies
    BY <1>3, <2>1, <2>2, RawFacts, ReplyConcat
  <2>4. TypeStreams'
    BY <1>3, <1>4, <2>2, <2>3 DEF TypeStreams, FirstBody
  <2>5. TypeFlags'
    <3>1. errno' \in BOOLEAN
      BY <2>2, LeftType
    <3> QED BY <1>4, <3>1 DEF TypeFlags, FirstBody, server
  <2>6. TypeNumbers'
    <3>1. remain' \in Nat
      BY <1>3, <2>1
    <3> QED BY <1>4, <3>1 DEF TypeNumbers, FirstBody, chunk, loop
  <2>7. TypePlace' /\ TypeBeyond'
    BY <1>4 DEF TypePlace, TypeBeyond, FirstBody
  <2> QED BY <1>1, <1>2, <2>4, <2>5, <2>6, <2>7
<1>5. CASE FirstRecv
  <2>1. PICK n \in remain + 1 .. BufSize : Recv(n) /\ stream' = SubSeq(net, 1, n)
    BY <1>5 DEF FirstRecv
  <2>2. stream' \in Strings /\ net' \in Strings /\ errno' \in LeftErrno
    BY <1>3, <2>1, RecvFacts
  <2>3. TypeStreams'
    BY <1>3, <1>5, <2>2 DEF TypeStreams, FirstRecv
  <2>4. TypeFlags'
    <3>1. errno' \in BOOLEAN
      BY <2>2, LeftType
    <3> QED BY <1>5, <3>1 DEF TypeFlags, FirstRecv, server
  <2>5. TypeNumbers' /\ TypePlace' /\ TypeBeyond'
    BY <1>5 DEF TypeNumbers, TypePlace, Places, TypeBeyond, FirstRecv, chunk, loop
  <2> QED BY <1>1, <1>2, <2>3, <2>4, <2>5
<1>6. CASE FirstEof
  <2>1. TypeStreams'
    BY <1>3, <1>6, EmptyFacts DEF TypeStreams, FirstEof, CloseO
  <2>2. TypeFlags' /\ TypeNumbers' /\ TypePlace' /\ TypeBeyond'
    BY <1>6 DEF TypeFlags, TypeNumbers, TypePlace, TypeBeyond, FirstEof, CloseO, chunk, loop
  <2> QED BY <1>1, <1>2, <2>1, <2>2
<1> QED BY <1>4, <1>5, <1>6

LEMMA TypeRecvMore ==
  ASSUME TypeInv, RecvMore
  PROVE  TypeInv'
<1> USE DEF TypeInv
<1>1. TypeConversation' /\ TypeCounts'
  BY DEF TypeConversation, TypeCounts, RecvMore, server, query
<1>2. PICK n \in 1 .. BufSize : Recv(n) /\ stream' = stream \o SubSeq(net, 1, n)
  BY DEF RecvMore
<1>3. net \in Strings /\ stream \in Strings /\ mark \in Nat
  BY DEF TypeStreams, TypeNumbers
<1>4. SubSeq(net, 1, n) \in Strings /\ net' \in Strings /\ errno' \in LeftErrno
  BY <1>2, <1>3, RecvFacts
<1>5. stream' \in Strings /\ Len(stream') = Len(stream) + Len(SubSeq(net, 1, n))
  BY <1>2, <1>3, <1>4, StringConcat
<1>6. Len(stream') >= Len(stream)
  BY <1>3, <1>4, <1>5, StringLen
<1>7. TypeStreams'
  BY <1>4, <1>5 DEF TypeStreams, RecvMore
<1>8. TypeFlags'
  <2>1. errno' \in BOOLEAN
    BY <1>4, LeftType
  <2> QED BY <2>1 DEF TypeFlags, RecvMore, server
<1>9. TypeNumbers' /\ TypePlace'
  BY DEF TypeNumbers, TypePlace, RecvMore, chunk, loop
<1>10. TypeBeyond'
  BY <1>3, <1>5, <1>6, StringLen DEF TypeBeyond, RecvMore, loop
<1> QED BY <1>1, <1>7, <1>8, <1>9, <1>10

LEMMA TypeLine ==
  ASSUME TypeInv, LineCut \/ LineBody \/ LineHead
  PROVE  TypeInv'
<1> USE DEF TypeInv
<1>1. TypeConversation'
  BY DEF TypeConversation, LineCut, LineBody, LineHead, server, query
<1>2. net \in Strings /\ stream \in Strings /\ out \in Replies /\ Len(stream) \in Nat
  BY StringLen DEF TypeStreams
<1>3. CASE LineCut
  <2>1. TypeCounts' /\ TypeNumbers' /\ TypePlace' /\ TypeBeyond'
    BY <1>3 DEF TypeCounts, TypeNumbers, TypePlace, Places, TypeBeyond, LineCut, query, chunk, loop
  <2>2. TypeStreams' /\ TypeFlags'
    BY <1>3, EmptyFacts DEF TypeStreams, TypeFlags, LineCut, CloseO
  <2> QED BY <1>1, <2>1, <2>2
<1>4. CASE LineBody
  <2>1. TypeCounts' /\ TypeNumbers' /\ TypePlace' /\ TypeBeyond' /\ TypeFlags'
    BY <1>4 DEF TypeCounts, TypeNumbers, TypePlace, Places, TypeBeyond, TypeFlags, LineBody, server, query, chunk, loop
  <2>2. out \o Raw(stream) \in Replies
    BY <1>2, RawFacts, ReplyConcat
  <2>3. TypeStreams'
    BY <1>2, <1>4, <2>2 DEF TypeStreams, LineBody
  <2> QED BY <1>1, <2>1, <2>3
<1>5. CASE LineHead
  <2>1. asked \in Nat /\ ridx + 1 \in 1 .. Len(script)
    BY <1>5, ScriptFacts DEF TypeCounts, LineHead
  <2>2. PICK m \in Messages : m = Coming
    BY <2>1, ScriptFacts DEF Coming
  <2>3. TypeCounts'
    BY <1>5, <2>1 DEF TypeCounts, LineHead, server, query
  <2>4. TypeStreams'
    BY <1>2, <1>5 DEF TypeStreams, LineHead
  <2>5. TypeFlags'
    <3>1. text' \in BOOLEAN
      BY <1>5, <2>2 DEF LineHead, Processed
    <3> QED BY <1>5, <3>1 DEF TypeFlags, LineHead, server
  <2>6. TypeNumbers'
    <3>1. Len(stream) - 1 \in Nat
      BY <1>2, <1>5, EmptyFacts DEF LineHead
    <3>2. ContentLength(m) \in Nat
      BY <2>2, MessageFacts, StringLen DEF ContentLength
    <3>3. remain' \in Nat
      BY <1>5, <2>2, <3>1, <3>2, LessType DEF LineHead, Remaining
    <3>4. goal' \in Nat
      BY <1>5, ResponseAssumption DEF LineHead
    <3>5. csize' = csize /\ total' = 0 /\ cbegin' = 1 /\ mark' = Len(stream)
      BY <1>5 DEF LineHead
    <3> QED BY <1>2, <3>3, <3>4, <3>5 DEF TypeNumbers
  <2>7. TypePlace'
    BY <1>5, <2>2 DEF TypePlace, Places, LineHead, ModeOf
  <2>8. TypeBeyond'
    BY <1>2, <1>5, <2>1 DEF TypeBeyond, TypeCounts, LineHead
  <2> QED BY <1>1, <2>3, <2>4, <2>5, <2>6, <2>7, <2>8
<1> QED BY <1>3, <1>4, <1>5

LEMMA TypeDetect ==
  ASSUME TypeInv, DetectDone \/ DetectCut
  PROVE  TypeInv'
<1> USE DEF TypeInv
<1>1. TypeConversation' /\ TypeCounts'
  BY DEF TypeConversation, TypeCounts, DetectDone, DetectCut, server, query
<1>2. stream \in Strings /\ Len(stream) \in Nat /\ remain \in Nat /\ mark \in Nat /\ goal \in Nat
  BY StringLen DEF TypeStreams, TypeNumbers
<1>3. CASE DetectDone
  <2>1. Len(stream) - mark \in Nat
    BY <1>2, <1>3 DEF TypeBeyond, DetectDone
  <2>2. remain' \in Nat
    BY <1>2, <1>3, <2>1, LessType DEF DetectDone
  <2>3. TypeNumbers'
    BY <1>2, <1>3, <2>1, <2>2 DEF TypeNumbers, DetectDone
  <2>4. TypeStreams' /\ TypeFlags' /\ TypePlace' /\ TypeBeyond'
    BY <1>3 DEF TypeStreams, TypeFlags, TypePlace, Places, TypeBeyond, DetectDone, server
  <2> QED BY <1>1, <2>3, <2>4
<1>4. CASE DetectCut
  <2>1. TypeNumbers'
    BY <1>2, <1>4 DEF TypeNumbers, DetectCut, chunk
  <2>2. TypeStreams' /\ TypeFlags'
    BY <1>4, EmptyFacts DEF TypeStreams, TypeFlags, DetectCut, CloseO
  <2>3. TypePlace' /\ TypeBeyond'
    BY <1>4 DEF TypePlace, Places, TypeBeyond, DetectCut
  <2> QED BY <1>1, <2>1, <2>2, <2>3
<1> QED BY <1>3, <1>4

LEMMA TypeWhole ==
  ASSUME TypeInv, SizeDone \/ SizeCut \/ ZeroDone \/ ZeroCut
  PROVE  TypeInv'
<1> USE DEF TypeInv
<1>1. TypeConversation' /\ TypeCounts'
  BY DEF TypeConversation, TypeCounts, SizeDone, SizeCut, ZeroDone, ZeroCut, server, query
<1>2. TypeStreams' /\ TypeFlags'
  BY EmptyFacts DEF TypeStreams, TypeFlags, SizeDone, SizeCut, ZeroDone, ZeroCut, CloseO, server
<1>3. TypeNumbers'
  <2>1. remain \in Nat /\ 0 \in Nat
    BY DEF TypeNumbers
  <2>2. remain' \in Nat
    BY <2>1 DEF SizeDone, SizeCut, ZeroDone, ZeroCut
  <2>3. UNCHANGED <<chunk, loop>>
    BY DEF SizeDone, SizeCut, ZeroDone, ZeroCut
  <2> QED BY <2>2, <2>3 DEF TypeNumbers, chunk, loop
<1>4. TypePlace' /\ TypeBeyond'
  BY DEF TypePlace, Places, TypeBeyond, SizeDone, SizeCut, ZeroDone, ZeroCut, loop
<1> QED BY <1>1, <1>2, <1>3, <1>4

LEMMA TypeReply ==
  ASSUME TypeInv, Reply
  PROVE  TypeInv'
<1> USE DEF TypeInv
<1>1. TypeConversation' /\ TypeCounts' /\ TypeFlags' /\ TypeNumbers' /\ TypePlace' /\ TypeBeyond'
  BY DEF TypeConversation, TypeCounts, TypeFlags, TypeNumbers, TypePlace, Places, TypeBeyond, Reply,
         server, query, chunk, loop
<1>2. stream \in Strings /\ out \in Replies /\ net \in Strings /\ Len(stream) \in Nat
  BY StringLen DEF TypeStreams
<1>3. PICK body \in Strings : body = SubSeq(stream, 2, Len(stream))
  <2>1. \A i \in 2 .. Len(stream) : stream[i] \in Cells
    BY <1>2, ElementOfSeq DEF Strings
  <2>2. 2 \in Int /\ Len(stream) \in Int
    BY <1>2
  <2>3. SubSeq(stream, 2, Len(stream)) \in Seq(Cells)
    BY <2>1, <2>2, SubSeqProperties
  <2> QED BY <2>3 DEF Strings
<1>4. out' = CASE ~open -> out
               [] open /\ text -> out \o Headed(Len(body), body)
               [] open /\ ~text /\ Current.text -> out \o Headed(-1, <<>>)
               [] OTHER -> out \o Headed(-1, body)
  BY <1>3 DEF Reply
<1>5. /\ out \o Headed(Len(body), body) \in Replies
      /\ out \o Headed(-1, <<>>) \in Replies
      /\ out \o Headed(-1, body) \in Replies
  BY <1>2, HeadedFacts, ReplyConcat, EmptyFacts, StringLen
<1>6. out' \in Replies
  <2>1. \/ out' = out
        \/ out' = out \o Headed(Len(body), body)
        \/ out' = out \o Headed(-1, <<>>)
        \/ out' = out \o Headed(-1, body)
    BY <1>4
  <2> QED BY <1>2, <1>5, <2>1
<1>7. TypeStreams'
  BY <1>2, <1>6 DEF TypeStreams, Reply
<1> QED BY <1>1, <1>7

LEMMA TypeSize ==
  ASSUME TypeInv, ChunkSize
  PROVE  TypeInv'
<1> USE DEF TypeInv
<1>1. TypeConversation' /\ TypeCounts' /\ TypeFlags'
  BY DEF TypeConversation, TypeCounts, TypeFlags, ChunkSize, server, query
<1>2. net \in Strings /\ stream \in Strings /\ out \in Replies /\ cbegin \in Nat
  BY DEF TypeStreams, TypeNumbers
<1>3. PICK line \in Strings : line = SizeLine(stream, cbegin) /\ ~BrokenSize(line) /\ Len(line) \in Nat
  BY <1>2, SizeLineFacts, StringLen DEF ChunkSize
<1>4. SizeOf(line) \in Nat
  BY <1>3, SizeOfType, DigitFacts
<1>5. stream' \in Strings
  <2>1. Len(line) + 2 \in Nat
    BY <1>3
  <2>2. stream' = Erased(stream, cbegin, Len(line) + 2)
    BY <1>3 DEF ChunkSize
  <2> QED BY <1>2, <2>1, <2>2, ErasedType
<1>6. TypeStreams'
  BY <1>2, <1>5 DEF TypeStreams, ChunkSize
<1>7. csize' = SizeOf(line) /\ goal' = cbegin + SizeOf(line) + 2 /\ mark' = Len(stream')
  BY <1>3 DEF ChunkSize
<1>8. TypeNumbers'
  <2>1. Len(stream') \in Nat
    BY <1>5, StringLen
  <2>2. goal' \in Nat
    BY <1>2, <1>4, <1>7
  <2>3. remain' = remain /\ total' = total /\ cbegin' = cbegin
    BY DEF ChunkSize
  <2> QED BY <1>4, <1>7, <2>1, <2>2, <2>3 DEF TypeNumbers
<1>9. TypePlace' /\ TypeBeyond'
  <2>1. Len(stream') \in Nat
    BY <1>5, StringLen
  <2> QED BY <1>7, <2>1 DEF TypePlace, Places, TypeBeyond, ChunkSize
<1> QED BY <1>1, <1>6, <1>8, <1>9

\* The end of the chunk reader.
LEMMA TypeChunkEnd ==
  ASSUME remain \in Nat, mode \in {"unlimited", "chunked", "length"}, stream' \in Strings,
         NEW broken, NEW received \in Nat, ChunkEnd(broken, received)
  PROVE  remain' \in Nat /\ goal' \in Nat /\ pc' \in {"Reply", "Zero", "Size"}
<1>1. remain' \in Nat
  BY LessType DEF ChunkEnd
<1>2. goal' \in Nat
  BY <1>1, StringLen DEF ChunkEnd
<1> QED BY <1>1, <1>2 DEF ChunkEnd

LEMMA TypeChunkLine ==
  ASSUME TypeInv, ChunkBroken \/ ChunkLineAbsent \/ ChunkLineCame \/ ChunkLineEof \/ ChunkLineCut
  PROVE  TypeInv'
<1> USE DEF TypeInv
<1>1. TypeConversation' /\ TypeCounts'
  BY DEF TypeConversation, TypeCounts, ChunkBroken, ChunkLineAbsent, ChunkLineCame, ChunkLineEof,
         ChunkLineCut, server, query
<1>2. stream' = stream /\ out' = out /\ mode' = mode /\ csize' = csize /\ ridx' = ridx
  BY DEF ChunkBroken, ChunkLineAbsent, ChunkLineCame, ChunkLineEof, ChunkLineCut, chunk
<1>3. /\ stream \in Strings /\ Len(stream) \in Nat /\ remain \in Nat /\ total \in Nat /\ mark \in Nat
      /\ mode \in {"unlimited", "chunked", "length"} /\ ridx >= 1
  BY StringLen DEF TypeStreams, TypeNumbers, TypePlace, TypeBeyond, ChunkBroken, ChunkLineAbsent, ChunkLineCame,
         ChunkLineEof, ChunkLineCut
<1>4. TypeStreams' /\ TypeFlags'
  BY <1>2, EmptyFacts DEF TypeStreams, TypeFlags, ChunkBroken, ChunkLineAbsent, ChunkLineCame, ChunkLineEof,
         ChunkLineCut, CloseO, server
<1>5. CASE ChunkBroken
  <2>1. remain' \in Nat /\ goal' \in Nat /\ pc' \in {"Reply", "Zero", "Size"}
    BY <1>2, <1>3, <1>5, TypeChunkEnd DEF ChunkBroken
  <2>2. UNCHANGED <<chunk, mark>>
    BY <1>5 DEF ChunkBroken
  <2> QED BY <1>1, <1>2, <1>3, <1>4, <2>1, <2>2 DEF TypeNumbers, TypePlace, Places, TypeBeyond, chunk
<1>6. CASE ChunkLineAbsent
  <2>1. TypeNumbers' /\ TypePlace' /\ TypeBeyond'
    BY <1>3, <1>6 DEF TypeNumbers, TypePlace, Places, TypeBeyond, ChunkLineAbsent, chunk
  <2> QED BY <1>1, <1>4, <2>1
<1>7. CASE ChunkLineCame
  <2>1. FirstEnd(stream, mark) \in mark + 1 .. Len(stream)
    BY <1>3, <1>7, FirstEndFacts DEF ChunkLineCame
  <2>2. total' \in Nat
    BY <1>3, <1>7, <2>1 DEF ChunkLineCame
  <2>3. TypeNumbers' /\ TypePlace' /\ TypeBeyond'
    BY <1>3, <1>7, <2>2 DEF TypeNumbers, TypePlace, Places, TypeBeyond, ChunkLineCame, loop
  <2> QED BY <1>1, <1>4, <2>3
<1>8. CASE ChunkLineEof
  <2>1. total' = total + Len(stream) - mark /\ mark <= Len(stream)
    BY <1>8 DEF ChunkLineEof, TypeBeyond
  <2>2. total' \in Nat
    BY <1>3, <2>1
  <2>3. UNCHANGED <<cbegin, mark>>
    BY <1>8 DEF ChunkLineEof
  <2>4. \/ pc' = "Chunk" /\ UNCHANGED <<remain, goal>>
        \/ ChunkEnd(FALSE, total')
    BY <1>8 DEF ChunkLineEof
  <2>5. CASE pc' = "Chunk" /\ UNCHANGED <<remain, goal>>
    BY <1>1, <1>2, <1>3, <1>4, <2>2, <2>3, <2>5 DEF TypeNumbers, TypePlace, Places, TypeBeyond
  <2>6. CASE ChunkEnd(FALSE, total')
    <3>1. PICK n \in Nat : n = total'
      BY <2>2
    <3>2. remain' \in Nat /\ goal' \in Nat /\ pc' \in {"Reply", "Zero", "Size"}
      BY <1>2, <1>3, <2>6, <3>1, TypeChunkEnd
    <3> QED BY <1>1, <1>2, <1>3, <1>4, <2>2, <2>3, <3>2 DEF TypeNumbers, TypePlace, Places, TypeBeyond
  <2> QED BY <2>4, <2>5, <2>6
<1>9. CASE ChunkLineCut
  <2>1. remain' \in Nat /\ goal' \in Nat /\ pc' \in {"Reply", "Zero", "Size"}
    BY <1>2, <1>3, <1>9, TypeChunkEnd DEF ChunkLineCut
  <2>2. UNCHANGED <<chunk, mark>>
    BY <1>9 DEF ChunkLineCut
  <2> QED BY <1>1, <1>2, <1>3, <1>4, <2>1, <2>2 DEF TypeNumbers, TypePlace, Places, TypeBeyond, chunk
<1> QED BY <1>5, <1>6, <1>7, <1>8, <1>9

LEMMA TypeChunkData ==
  ASSUME TypeInv, ChunkData \/ ChunkDataCut
  PROVE  TypeInv'
<1> USE DEF TypeInv
<1>1. TypeConversation' /\ TypeCounts'
  BY DEF TypeConversation, TypeCounts, ChunkData, ChunkDataCut, server, query
<1>2. /\ stream \in Strings /\ Len(stream) \in Nat /\ remain \in Nat /\ total \in Nat /\ mark \in Nat
      /\ cbegin \in Nat /\ csize \in Nat
      /\ mode \in {"unlimited", "chunked", "length"} /\ ridx >= 1 /\ mark <= Len(stream)
  BY StringLen DEF TypeStreams, TypeNumbers, TypePlace, TypeBeyond, ChunkData, ChunkDataCut
<1>3. ChunkNext /\ out' = out /\ mode' = mode /\ csize' = csize /\ ridx' = ridx /\ mark' = mark
  BY DEF ChunkData, ChunkDataCut
<1>4. stream' \in Strings
  <2>1. cbegin + csize \in Nat /\ 2 \in Nat /\ stream' = Erased(stream, cbegin + csize, 2)
    BY <1>2, <1>3 DEF ChunkNext, ChunkTail
  <2> QED BY <1>2, <2>1, ErasedType
<1>5. TypeStreams' /\ TypeFlags'
  BY <1>3, <1>4, EmptyFacts DEF TypeStreams, TypeFlags, ChunkData, ChunkDataCut, CloseO, server
<1>6. total' \in Nat
  BY <1>2, <1>3 DEF ChunkNext
<1>7. \/ ChunkEnd(FALSE, total') /\ cbegin' = cbegin
      \/ cbegin' = cbegin + csize /\ pc' = "Chunk" /\ UNCHANGED <<remain, goal>>
  BY <1>3 DEF ChunkNext
<1>8. CASE ChunkEnd(FALSE, total') /\ cbegin' = cbegin
  <2>1. PICK n \in Nat : n = total'
    BY <1>6
  <2>2. remain' \in Nat /\ goal' \in Nat /\ pc' \in {"Reply", "Zero", "Size"}
    BY <1>2, <1>3, <1>4, <1>8, <2>1, TypeChunkEnd
  <2> QED BY <1>1, <1>2, <1>3, <1>5, <1>6, <1>8, <2>2 DEF TypeNumbers, TypePlace, Places, TypeBeyond
<1>9. CASE cbegin' = cbegin + csize /\ pc' = "Chunk" /\ UNCHANGED <<remain, goal>>
  <2>1. cbegin' \in Nat
    BY <1>2, <1>9
  <2> QED BY <1>1, <1>2, <1>3, <1>5, <1>6, <1>9, <2>1 DEF TypeNumbers, TypePlace, Places, TypeBeyond
<1> QED BY <1>7, <1>8, <1>9

LEMMA TypeStutter ==
  ASSUME TypeInv, UNCHANGED vars
  PROVE  TypeInv'
BY DEF TypeInv, TypeConversation, TypeCounts, TypeStreams, TypeFlags, TypeNumbers, TypePlace, TypeBeyond, vars

LEMMA TypeStep == TypeInv /\ [Next]_vars => TypeInv'
<1> SUFFICES ASSUME TypeInv, [Next]_vars PROVE TypeInv'
  OBVIOUS
<1>1. CASE Ask
  BY <1>1, TypeAsk
<1>2. CASE ServerSend
  BY <1>2, TypeServerSend
<1>3. CASE Receive
  BY <1>3, TypeFirst, TypeRecvMore DEF Receive
<1>4. CASE Scan
  BY <1>4, TypeLine DEF Scan
<1>5. CASE Chunks
  BY <1>5, TypeSize, TypeChunkLine, TypeChunkData DEF Chunks
<1>6. CASE Whole
  BY <1>6, TypeDetect, TypeWhole, TypeReply DEF Whole
<1>7. CASE UNCHANGED vars
  BY <1>7, TypeStutter
<1> QED BY <1>1, <1>2, <1>3, <1>4, <1>5, <1>6, <1>7 DEF Next

LEMMA TypeAlways == Spec => []TypeInv
BY TypeInit, TypeStep, PTL DEF Spec

(***************************************************************************)
(* Whatever the server sends, in whatever pieces, and whatever fails: the  *)
(* reader of responses keeps its lengths and offsets in range - none is    *)
(* a smaller number less a larger one -, and what erasing leaves is a      *)
(* stream.  This holds for browsers that pipeline, too.                    *)
(***************************************************************************)
THEOREM TypeCorrect == Spec => []TypeOK
BY TypeAlways, TypeParts, PTL

-----------------------------------------------------------------------------
(***************************************************************************)
(* The invariant of a conversation in which the browser waits for its      *)
(* answers.  m answers the last request and w is what the server sends for *)
(* it; everything before has been passed on.                               *)
(***************************************************************************)

Before == AnswersTo(script, asked - 1)
After == AnswersTo(script, asked)

\* Does the server close behind w?
Ended(m, w) == Closing(m) \/ w # Wire(m)

Exchange(m, w) ==
  /\ asked \in 1 .. Len(script) /\ sent = asked /\ m = script[asked]
  /\ Form(m, w) /\ (w # Wire(m) => "fin" \in faults) /\ eof = Ended(m, w)

\* Nothing is asked.
Waiting ==
  /\ pc = "Select" /\ out = After /\ net = <<>> /\ remain = 0
  /\ ridx = asked /\ sent = asked

\* A request is under way.
Requested ==
  /\ asked > 0 /\ open /\ remain = 0 /\ ridx = asked - 1 /\ out = Before
  /\ pc = "Select" /\ net = <<>> /\ sent = asked - 1 /\ ~eof

\* No header was read of the answer.
Arriving(m, w) ==
  /\ open /\ remain = 0 /\ ridx = asked - 1 /\ out = Before
  /\ \/ pc = "Select" /\ net = w
     \/ pc = "Line" /\ stream # <<>> /\ stream \o net = w

\* The answer is passed on as it is: p is, or is about to be.
Passed(m, w, p) ==
  /\ p # <<>>
  /\ \/ pc = "Reply" /\ ~text /\ out = Before /\ stream = p /\ p \o net = w
     \/ pc = "Select" /\ out = Before \o Raw(p) /\ p \o net = w
     \/ /\ pc = "Line" /\ Linewise(m) /\ stream # <<>>
        /\ out = Before \o Raw(p) /\ p \o (stream \o net) = w

Passing(m, w) ==
  /\ open /\ ridx = asked /\ ~Translated(m)
  /\ remain = IF m.method = "GET" /\ m.framing = "length" THEN Len(net) ELSE 0
  /\ \E p \in Strings : Passed(m, w, p)

\* The answer is collected, since its text goes through Moai.
Collecting(m) == open /\ ridx = asked /\ Translated(m) /\ text /\ out = Before

\* detectChunkedBodyBegin looks at how it begins.
Looking(m, w) ==
  /\ pc = "Detect" /\ stream \o net = w
  /\ mark \in 1 .. Len(stream) /\ goal = 1 + CheckSize /\ cbegin = 1
  /\ \/ mode = "unlimited" /\ Unlimited(m) /\ remain = 0
     \/ mode = "length" /\ ContentLength(m) > 0 /\ remain = 1 + ContentLength(m) - mark

\* The declared length is awaited, or the end of the connection.
Measured(m, w) == pc = "Size" /\ ContentLength(m) > 0 /\ stream \o net = w /\ goal = Len(w)
Unbounded(m, w) == pc = "Zero" /\ Closing(m) /\ ~Coded(m) /\ stream \o net = w /\ remain = 0

\* The header and i chunks, as they are sent and as they are put together.
SentFront(m, i) == Header \o Flat(Pieces(m), i)
Assembled(m, i) == Header \o Flat(m.chunks, i)

\* R comes behind i chunks of what is sent.
Behind(m, w, i, R) == w = SentFront(m, i) \o R

\* R is the chunk of d with r behind it.
ChunkThen(R, d, r) == R = Chunk(d) \o r

\* Behind i chunks comes the next one, d, or the last; or nothing, if the
\* server has closed without it.
NextIs(m, w, i, R, d, r) ==
  /\ ChunkThen(R, d, r) /\ Sizable(d)
  /\ IF i = Len(m.chunks) THEN d = <<>> /\ r = <<>> /\ w = Wire(m)
     ELSE d = m.chunks[i + 1] /\ d # <<>>

\* i chunks were put together, and q came behind them; R is what was or will
\* be sent there.
Joined(m, w, i, q, R) ==
  /\ Behind(m, w, i, R)
  /\ stream = Assembled(m, i) \o q
  /\ cbegin = Len(Assembled(m, i))

\* A size line is awaited, or what there is of it is looked at.
Lined(m, w, i, q) ==
  /\ Joined(m, w, i, q, q \o net)
  /\ pc = "ChunkWait" =>
       mark \in cbegin .. Len(stream) /\ ~HasLine(SubSeq(stream, 1, mark), cbegin)

Lining(m, w) ==
  pc \in {"Chunk", "ChunkWait"} /\ \E i \in 0 .. Len(m.chunks), q \in Strings : Lined(m, w, i, q)

\* The data d of a chunk is awaited, and the line end behind it.
Filled(m, w, i, q, d, r) ==
  /\ Joined(m, w, i, q, Chunk(d) \o r) /\ NextIs(m, w, i, Chunk(d) \o r, d, r)
  /\ q \o net = (d \o CRLF) \o r
  /\ csize = Len(d) /\ goal = cbegin + csize + 2

Filling(m, w) ==
  /\ pc = "ChunkData"
  /\ \E i \in 0 .. Len(m.chunks), q, d, r \in Strings : Filled(m, w, i, q, d, r)

Chunking(m, w) ==
  /\ Coded(m) /\ remain = 0 /\ mode \in {"chunked", "unlimited"}
  /\ Lining(m, w) \/ Filling(m, w)

\* The answer is whole.
Ready(m) == pc = "Reply" /\ stream = Header \o Body(m) /\ net = <<>> /\ remain = 0

Shape(m, w) ==
  \/ Arriving(m, w)
  \/ Passing(m, w)
  \/ /\ Collecting(m)
     /\ Looking(m, w) \/ Measured(m, w) \/ Unbounded(m, w) \/ Chunking(m, w) \/ Ready(m)

Answering == \E m \in Messages, w \in Strings : Exchange(m, w) /\ Shape(m, w)

\* The connection was given up with an answer that is not whole.
Lost == ~open /\ net = <<>> /\ pc # "Line" /\ IsPrefix(out, After) /\ Len(out) < Len(After)

Sync == Waiting \/ Requested \/ Answering \/ Lost

\* Where nothing fails, nothing is given up before it is whole.
Calm == ~errno /\ (open \/ (pc = "Select" /\ out = After))

FrameInv == TypeInv /\ (Plain => Sync) /\ (Served => Calm)

-----------------------------------------------------------------------------

LEMMA SameConversation ==
  ASSUME script' = script
  PROVE  (Plain' <=> Plain) /\ (faults' = faults => (Served' <=> Served))
BY DEF Plain, Served

\* What a step that leaves the server and the browser alone does not disturb.
LEMMA SameExchange ==
  ASSUME NEW m, NEW w, Exchange(m, w), UNCHANGED server
  PROVE  Exchange(m, w)' /\ Before' = Before /\ After' = After /\ asked' = asked
BY DEF Exchange, Before, After, server, query

LEMMA ToAnswering ==
  ASSUME NEW m \in Messages, NEW w \in Strings, Exchange(m, w)', Shape(m, w)'
  PROVE  Sync'
<1>1. Answering'
  BY DEF Answering
<1> QED BY <1>1 DEF Sync

\* What the browser has before an answer, and with it.
LEMMA BeforeAfter ==
  ASSUME TypeInv, asked \in 1 .. Len(script)
  PROVE  /\ script[asked] \in Messages
         /\ Before \in Replies /\ After \in Replies /\ Expected(script[asked]) \in Replies
         /\ After = Before \o Expected(script[asked])
         /\ Len(After) = Len(Before) + Len(Expected(script[asked]))
         /\ IsPrefix(Before, After) /\ Len(Before) < Len(After) /\ Before # After
<1>1. script \in Seq(Messages) /\ Len(script) \in Nat
  BY ScriptFacts DEF TypeInv
<1>2. /\ script[asked] \in Messages /\ Before \in Replies
      /\ After = Before \o Expected(script[asked])
  BY <1>1, AnswersFacts DEF Before, After
<1>3. Expected(script[asked]) \in Replies /\ Len(Expected(script[asked])) >= 1
  BY <1>2, ExpectedFacts
<1>4. After \in Replies /\ Len(After) = Len(Before) + Len(Expected(script[asked]))
  BY <1>2, <1>3, ReplyConcat
<1>5. Len(Before) < Len(After)
  BY <1>2, <1>3, <1>4, ReplyConcat
<1>6. IsPrefix(Before, After)
  BY <1>2, <1>3, PrefixOfConcat DEF Replies
<1> QED BY <1>2, <1>3, <1>4, <1>5, <1>6, ReplyConcat

\* An answer that is passed on as it is: with a beginning p of it, the browser
\* has a beginning of what it should have, and all of it only with the whole.
LEMMA PassedOn ==
  ASSUME TypeInv, NEW m \in Messages, NEW w \in Strings, Exchange(m, w), ~Translated(m),
         NEW p \in Strings, NEW r \in Strings, p \o r = w
  PROVE  /\ Before \o Raw(p) \in Replies /\ IsPrefix(Before \o Raw(p), After)
         /\ r = <<>> /\ w = Wire(m) => Before \o Raw(p) = After
         /\ r # <<>> \/ w # Wire(m) => Len(Before \o Raw(p)) < Len(After)
         /\ Before \o Raw(p) = After => r = <<>> /\ w = Wire(m)
<1>1. /\ script[asked] = m /\ Before \in Replies
      /\ After = Before \o Raw(Wire(m))
  BY BeforeAfter DEF Exchange, Expected
<1>2. PICK t \in Strings : Wire(m) = w \o t
  BY FormFacts DEF Exchange
<1>3. r \o t \in Strings /\ Wire(m) = p \o (r \o t) /\ Len(r \o t) = Len(r) + Len(t)
  <2>1. (p \o r) \o t = p \o (r \o t)
    BY StringAssoc, ZenonT(40)
  <2>2. Wire(m) = (p \o r) \o t
    BY <1>2
  <2> QED BY <2>1, <2>2, StringConcat
<1>4. /\ Raw(p) \in Replies /\ Raw(r \o t) \in Replies /\ Raw(Wire(m)) = Raw(p) \o Raw(r \o t)
      /\ Len(Raw(r \o t)) = Len(r) + Len(t)
  BY <1>3, RawFacts
<1>5. PICK u \in Replies : u = Before \o Raw(p)
  BY <1>1, <1>4, ReplyConcat
<1>6. After = u \o Raw(r \o t)
  <2>1. (Before \o Raw(p)) \o Raw(r \o t) = Before \o (Raw(p) \o Raw(r \o t))
    BY <1>1, <1>4, ReplyAssoc
  <2> QED BY <1>1, <1>4, <1>5, <2>1
<1>7. IsPrefix(u, After)
  BY <1>4, <1>6, PrefixOfConcat DEF Replies
<1>8. Len(After) = Len(u) + (Len(r) + Len(t)) /\ Len(u) \in Nat /\ Len(r) \in Nat /\ Len(t) \in Nat
  <2>1. Len(u \o Raw(r \o t)) = Len(u) + Len(Raw(r \o t)) /\ Len(u) \in Nat
    BY <1>4, ReplyConcat
  <2>2. Len(r) \in Nat /\ Len(t) \in Nat
    BY StringLen
  <2> QED BY <1>4, <1>6, <2>1, <2>2
<1>9. (Len(t) = 0 <=> w = Wire(m)) /\ (Len(r) = 0 <=> r = <<>>)
  <2>1. Len(t) = 0 => w = Wire(m)
    BY <1>2, EmptyFacts
  <2>2. w = Wire(m) => Len(t) = 0
    BY <1>2, <1>8, StringConcat
  <2> QED BY <2>1, <2>2, EmptyFacts
<1>10. r = <<>> /\ w = Wire(m) => u = After
  <2>1. SUFFICES ASSUME r = <<>>, w = Wire(m) PROVE u = After
    OBVIOUS
  <2>2. r \o t = <<>>
    BY <1>3, <1>8, <1>9, <2>1, EmptyFacts
  <2> QED BY <1>6, <2>2, RawFacts, ReplyConcat
<1>11. r # <<>> \/ w # Wire(m) => Len(u) < Len(After)
  BY <1>8, <1>9
<1> QED BY <1>5, <1>7, <1>8, <1>10, <1>11

-----------------------------------------------------------------------------
(***************************************************************************)
(* The steps, by the place of the thread.                                  *)
(***************************************************************************)

StepSelect == Ask \/ ServerSend \/ FirstBody \/ FirstRecv \/ FirstEof
StepLine == ServerSend \/ RecvMore \/ LineCut \/ LineBody \/ LineHead
StepDetect == ServerSend \/ RecvMore \/ DetectDone \/ DetectCut
StepChunk == ServerSend \/ ChunkSize \/ ChunkBroken \/ ChunkLineAbsent
StepChunkWait == ServerSend \/ RecvMore \/ ChunkLineCame \/ ChunkLineEof \/ ChunkLineCut
StepChunkData == ServerSend \/ RecvMore \/ ChunkData \/ ChunkDataCut
StepSize == ServerSend \/ RecvMore \/ SizeDone \/ SizeCut
StepZero == ServerSend \/ RecvMore \/ ZeroDone \/ ZeroCut
StepReply == ServerSend \/ Reply

LEMMA StepsAt ==
  ASSUME Next
  PROVE  /\ pc = "Select" => StepSelect
         /\ pc = "Line" => StepLine
         /\ pc = "Detect" => StepDetect
         /\ pc = "Chunk" => StepChunk
         /\ pc = "ChunkWait" => StepChunkWait
         /\ pc = "ChunkData" => StepChunkData
         /\ pc = "Size" => StepSize
         /\ pc = "Zero" => StepZero
         /\ pc = "Reply" => StepReply
<1>1. CASE Ask
  BY <1>1 DEF Ask, StepSelect
<1>2. CASE ServerSend
  BY <1>2 DEF StepSelect, StepLine, StepDetect, StepChunk, StepChunkWait, StepChunkData, StepSize,
              StepZero, StepReply
<1>3. CASE FirstBody \/ FirstRecv \/ FirstEof
  BY <1>3 DEF FirstBody, FirstRecv, FirstEof, StepSelect
<1>4. CASE RecvMore
  BY <1>4 DEF RecvMore, NeedsMore, Sized, StepLine, StepDetect, StepChunkWait, StepChunkData, StepSize, StepZero
<1>5. CASE Scan
  BY <1>5 DEF Scan, LineCut, LineBody, LineHead, StepLine
<1>6. CASE Chunks
  BY <1>6 DEF Chunks, ChunkSize, ChunkBroken, ChunkLineAbsent, ChunkLineCame, ChunkLineEof, ChunkLineCut,
              ChunkData, ChunkDataCut, StepChunk, StepChunkWait, StepChunkData
<1>7. CASE Whole
  BY <1>7 DEF Whole, DetectDone, DetectCut, SizeDone, SizeCut, ZeroDone, ZeroCut, Reply,
              StepDetect, StepSize, StepZero, StepReply
<1> QED BY <1>1, <1>2, <1>3, <1>4, <1>5, <1>6, <1>7 DEF Next, Receive

\* What is given up stays so: without a connection nothing is received, and
\* the browser does not ask before it has its answer.
LEMMA LostStep ==
  ASSUME ~Pipelined, TypeInv, Lost, Next
  PROVE  Lost'
<1>1. out # After
  BY DEF Lost
<1>2. ~Ask
  BY <1>1, AnswersAre DEF Ask, After
<1>3. ~ServerSend /\ ~RecvMore /\ ~FirstBody /\ ~FirstRecv /\ ~FirstEof
  BY DEF Lost, ServerSend, RecvMore, Recv, FirstBody, FirstRecv, FirstEof
<1>4. pc # "Line"
  BY DEF Lost
<1>5. UNCHANGED query /\ open' = FALSE /\ net' = <<>> /\ out' = out /\ pc' # "Line"
  <2>1. open = FALSE /\ net = <<>>
    BY DEF Lost, TypeInv, TypeFlags
  <2>2. CASE Scan
    BY <1>4, <2>2 DEF Scan, LineCut, LineBody, LineHead
  <2>3. CASE Chunks
    <3>1. CASE ChunkSize \/ ChunkLineAbsent \/ ChunkLineCame
      BY <2>1, <3>1 DEF ChunkSize, ChunkLineAbsent, ChunkLineCame, server
    <3>2. CASE ChunkBroken \/ ChunkLineEof \/ ChunkLineCut
      BY <2>1, <3>2 DEF ChunkBroken, ChunkLineEof, ChunkLineCut, ChunkEnd, CloseO, server
    <3>3. CASE ChunkData \/ ChunkDataCut
      BY <2>1, <3>3 DEF ChunkData, ChunkDataCut, ChunkNext, ChunkEnd, CloseO, server
    <3> QED BY <2>3, <3>1, <3>2, <3>3 DEF Chunks
  <2>4. CASE Whole
    <3>1. CASE Reply
      BY <2>1, <3>1 DEF Reply, server
    <3>2. CASE DetectDone \/ DetectCut
      BY <2>1, <3>2 DEF DetectDone, DetectCut, CloseO, server
    <3>3. CASE SizeDone \/ SizeCut \/ ZeroDone \/ ZeroCut
      BY <2>1, <3>3 DEF SizeDone, SizeCut, ZeroDone, ZeroCut, CloseO, server
    <3> QED BY <2>4, <3>1, <3>2, <3>3 DEF Whole
  <2> QED BY <1>2, <1>3, <2>2, <2>3, <2>4 DEF Next, Receive
<1> QED BY <1>5 DEF Lost, After, query

LEMMA WaitingStep ==
  ASSUME ~Pipelined, TypeInv, Waiting, Next
  PROVE  Sync'
<1>1. CASE Ask
  <2>1. Requested'
    <3>1. asked \in Nat /\ asked' = asked + 1 /\ asked' - 1 = asked
      BY <1>1, ScriptFacts DEF TypeInv, TypeCounts, Ask
    <3>2. Before' = After
      BY <1>1, <3>1 DEF Before, After, Ask
    <3> QED BY <1>1, <3>1, <3>2 DEF Requested, Waiting, Ask
  <2> QED BY <2>1 DEF Sync
<1>2. CASE ServerSend
  BY <1>2, ScriptFacts DEF TypeInv, TypeCounts, Waiting, ServerSend
<1>3. CASE FirstBody \/ FirstRecv
  <2>1. PICK n : Recv(n)
    BY <1>3 DEF FirstBody, FirstRecv
  <2>2. n \in Nat \ {0} /\ n <= Len(net)
    BY <2>1, RecvFacts DEF TypeInv, TypeStreams
  <2> QED BY <2>2, EmptyFacts DEF Waiting
<1>4. CASE FirstEof
  <2>1. Waiting'
    BY <1>4 DEF Waiting, FirstEof, CloseO, query, After
  <2> QED BY <2>1 DEF Sync
<1> QED BY <1>1, <1>2, <1>3, <1>4, StepsAt DEF StepSelect, Waiting

LEMMA RequestedStep ==
  ASSUME ~Pipelined, TypeInv, Requested, Next
  PROVE  Sync'
<1>1. asked \in 1 .. Len(script) /\ asked \in Nat
  BY ScriptFacts DEF TypeInv, TypeCounts, Requested
<1>2. script[asked] \in Messages /\ Before # After /\ IsPrefix(Before, After) /\ Len(Before) < Len(After)
  BY <1>1, BeforeAfter
<1>3. CASE Ask
  <2>1. out = After
    BY <1>3, AnswersAre DEF Ask, After
  <2> QED BY <1>2, <2>1 DEF Requested
<1>4. CASE ServerSend
  <2>1. PICK m \in Messages : m = script[asked]
    BY <1>2
  <2>2. sent + 1 = asked
    BY <1>1 DEF Requested
  <2>3. PICK w : /\ net' = net \o w /\ eof' = Ended(m, w) /\ Form(m, w)
                 /\ (w # Wire(m) => "fin" \in faults)
    <3>1. CASE net' = net \o Wire(m) /\ eof' = Closing(m)
      <4>1. Ended(m, Wire(m)) = Closing(m)
        BY DEF Ended, Closing
      <4> QED BY <3>1, <4>1 DEF Form
    <3>2. CASE "fin" \in faults /\ Coded(m) /\ net' = net \o WithoutLast(m) /\ eof' = TRUE
      <4>1. CASE WithoutLast(m) # Wire(m)
        BY <3>2, <4>1 DEF Ended, Form
      <4>2. WithoutLast(m) # Wire(m)
        <5>1. PICK h \in Strings : h = WithoutLast(m)
          BY <3>2, FormFacts DEF Form
        <5>2. Sizable(<<>>)
          BY DigitFacts, EmptyFacts DEF Sizable
        <5>3. PICK c \in Strings : c = Chunk(<<>>) /\ Len(c) = Len(<<>>) + 5
          BY <5>2, ChunkFacts
        <5>4. Wire(m) = h \o c
          BY <3>2, <5>1, <5>3, WireFacts
        <5>5. Len(h \o c) = Len(h) + Len(c) /\ Len(h) \in Nat
          BY StringConcat, StringLen
        <5>6. Len(c) = 5
          BY <5>3, EmptyFacts
        <5>7. Len(h \o c) # Len(h)
          BY <5>5, <5>6
        <5> QED BY <5>1, <5>4, <5>7
      <4> QED BY <4>1, <4>2
    <3> QED BY <1>4, <2>1, <2>2, <3>1, <3>2 DEF ServerSend
  <2>4. w \in Strings /\ net' = w
    <3>1. w \in Strings
      BY <2>3, FormFacts
    <3> QED BY <2>3, <3>1, EmptyFacts DEF Requested
  <2>5. Exchange(m, w)'
    BY <1>1, <1>4, <2>1, <2>2, <2>3 DEF Exchange, ServerSend
  <2>6. Arriving(m, w)'
    <3>1. Before' = Before
      BY <1>4 DEF Before, ServerSend
    <3> QED BY <1>4, <2>4, <3>1 DEF Arriving, Requested, ServerSend
  <2>7. Shape(m, w)'
    BY <2>6 DEF Shape
  <2> QED BY <2>4, <2>5, <2>7, ToAnswering
<1>5. CASE FirstBody \/ FirstRecv
  <2>1. PICK n : Recv(n)
    BY <1>5 DEF FirstBody, FirstRecv
  <2>2. n \in Nat \ {0} /\ n <= Len(net)
    BY <2>1, RecvFacts DEF TypeInv, TypeStreams
  <2> QED BY <2>2, EmptyFacts DEF Requested
<1>6. CASE FirstEof
  <2>1. Lost'
    BY <1>2, <1>6 DEF Lost, Requested, FirstEof, CloseO, query, After
  <2> QED BY <2>1 DEF Sync
<1> QED BY <1>3, <1>4, <1>5, <1>6, StepsAt DEF StepSelect, Requested

-----------------------------------------------------------------------------
(***************************************************************************)
(* An answer on its way: from the server to the header.                    *)
(***************************************************************************)

\* While an answer is due, the server has nothing else to send, and the browser
\* that has only what came before does not ask.
LEMMA NothingElse ==
  ASSUME ~Pipelined, TypeInv, NEW m, NEW w, Exchange(m, w)
  PROVE  /\ ~ServerSend
         /\ out = Before => ~Ask
         /\ Ask => out = After
<1>1. asked \in Nat /\ asked \in 1 .. Len(script)
  BY ScriptFacts DEF TypeInv, TypeCounts, Exchange
<1>2. ~ServerSend
  BY <1>1 DEF Exchange, ServerSend
<1>3. Ask => out = After
  BY AnswersAre DEF Ask, After
<1>4. Before # After
  BY <1>1, BeforeAfter
<1> QED BY <1>2, <1>3, <1>4

\* The connection is closed before the browser has any of the answer.
LEMMA GiveUp ==
  ASSUME TypeInv, NEW m, NEW w, Exchange(m, w), out = Before,
         CloseO, out' = out, UNCHANGED query, pc' # "Line"
  PROVE  Sync'
<1>1. IsPrefix(Before, After) /\ Len(Before) < Len(After)
  BY BeforeAfter DEF Exchange
<1>2. Lost'
  BY <1>1 DEF Lost, CloseO, After, query
<1> QED BY <1>2 DEF Sync

LEMMA HeadLine ==
  ASSUME NEW s \in Strings, s # <<>>, s[1] = "H"
  PROVE  HasLine(s, 0)
<1>1. Len(s) \in Nat /\ Len(s) # 0
  BY StringLen, EmptyFacts
<1>2. 1 \in LineEnds(s, 0)
  BY <1>1 DEF LineEnds
<1> QED BY <1>2 DEF HasLine

\* What the header tells of the rest.
LEMMA HeadStep ==
  ASSUME TypeInv, Plain, NEW m \in Messages, NEW w \in Strings, Exchange(m, w),
         open, ridx = asked - 1, out = Before, stream # <<>>, stream \o net = w, LineHead
  PROVE  Shape(m, w)'
<1>1. /\ stream \in Strings /\ net \in Strings /\ asked \in 1 .. Len(script) /\ asked \in Nat
      /\ script[asked] = m
  BY ScriptFacts DEF TypeInv, TypeStreams, TypeCounts, Exchange
<1>2. Coming = m /\ LastMethod = m.method
  <2>1. ridx + 1 = asked
    BY <1>1
  <2> QED BY <1>1, <2>1 DEF Coming, LastMethod
<1>3. PICK t \in Strings : w = Header \o t
  BY FormFacts DEF Exchange
<1>4. PICK x \in Strings : stream = Header \o x /\ t = x \o net
  <2>1. stream \o net = Header \o t
    BY <1>3
  <2>2. Overlap(Cells, stream, net, Header, t)
    BY <1>1, <2>1, HeaderFirst
  <2> QED BY <2>2 DEF Overlap, Strings
<1>5. Len(stream) - 1 = Len(x) /\ Len(x) \in Nat /\ Len(stream) = 1 + Len(x) /\ Len(net) \in Nat
  <2>1. Len(stream) = Len(Header) + Len(x)
    BY <1>4, HeaderFacts, StringConcat
  <2> QED BY <1>1, <2>1, HeaderFacts, StringLen
<1>6. /\ m.method \in {"GET", "HEAD"} /\ m.text \in BOOLEAN /\ m.ok \in BOOLEAN
      /\ m.framing \in {"length", "chunked", "implicit", "none"} /\ Body(m) \in Strings
  BY MessageFacts
<1>7. /\ ridx' = asked /\ remain' = Remaining(m) /\ mode' = ModeOf(m) /\ text' = Processed(m)
      /\ cbegin' = 1 /\ mark' = Len(stream) /\ goal' = 1 + CheckSize
      /\ pc' = IF ~Processed(m) THEN "Reply"
               ELSE IF ModeOf(m) = "chunked" THEN "Chunk"
               ELSE IF ModeOf(m) = "unlimited" \/ Remaining(m) > 0 THEN "Detect"
               ELSE "Reply"
      /\ UNCHANGED <<net, stream, open, out>>
  BY <1>1, <1>2 DEF LineHead
<1>8. asked' = asked /\ Before' = Before
  BY DEF LineHead, server, query, Before
<1>9. Processed(m) <=> Translated(m)
  BY <1>2, <1>6 DEF Processed, Translated
<1>10. m.method = "GET" /\ ~Coded(m) => Body(m) = t
  <2>1. m.method = "GET" /\ ~Coded(m) => w = Header \o Body(m)
    BY FormFacts DEF Exchange
  <2>2. Header \o Body(m) = Header \o t => Body(m) = t
    BY <1>6, HeaderFacts, StringCancel
  <2> QED BY <1>3, <2>1, <2>2
<1>11. Len(t) = Len(x) + Len(net)
  BY <1>1, <1>4, StringConcat
<1>12. m.framing # "length" => ContentLength(m) = 0 /\ Remaining(m) = 0
  BY <1>5, LessType DEF ContentLength, Remaining
<1>13. m.framing = "length" /\ m.method = "GET" =>
         ContentLength(m) = Len(x) + Len(net) /\ Remaining(m) = Len(net)
  <2>1. SUFFICES ASSUME m.framing = "length", m.method = "GET"
                 PROVE  ContentLength(m) = Len(x) + Len(net) /\ Remaining(m) = Len(net)
    OBVIOUS
  <2>2. ~Coded(m)
    BY <2>1 DEF Coded
  <2>3. ContentLength(m) = Len(x) + Len(net)
    BY <1>10, <1>11, <2>1, <2>2 DEF ContentLength
  <2>4. Less(Len(x) + Len(net), Len(x)) = Len(net)
    BY <1>5 DEF Less
  <2> QED BY <1>5, <2>1, <2>3, <2>4 DEF Remaining
<1>14. CASE ~Processed(m)
  <2>1. remain' = IF m.method = "GET" /\ m.framing = "length" THEN Len(net) ELSE 0
    <3>1. m.method # "GET" => Remaining(m) = 0
      BY <1>6 DEF Remaining
    <3> QED BY <1>7, <1>12, <1>13, <3>1
  <2>2. Passed(m, w, stream)'
    BY <1>7, <1>8, <1>14 DEF Passed
  <2>3. Passing(m, w)'
    BY <1>1, <1>7, <1>8, <1>9, <1>14, <2>1, <2>2 DEF Passing
  <2> QED BY <2>3 DEF Shape
<1>15. CASE Processed(m)
  <2>1. Collecting(m)'
    BY <1>7, <1>8, <1>9, <1>15 DEF Collecting
  <2>2. m.method = "GET" /\ (m.text \/ Unlimited(m))
    BY <1>9, <1>15 DEF Translated
  <2>3. CASE ModeOf(m) = "chunked"
    <3>1. m.framing = "chunked" /\ Coded(m) /\ remain' = 0 /\ mode' = "chunked" /\ pc' = "Chunk"
      BY <1>7, <1>12, <1>15, <2>2, <2>3 DEF ModeOf, Coded
    <3>2. Flat(Pieces(m), 0) = <<>> /\ Flat(m.chunks, 0) = <<>>
      BY <3>1, PiecesFacts, MessageFacts, FlatProperties DEF Strings
    <3>3. Header \o <<>> = Header /\ Len(<<>>) = 0
      BY HeaderFacts, EmptyFacts
    <3>4. Joined(m, w, 0, x, x \o net)'
      <4>1. SentFront(m, 0) = Header /\ Assembled(m, 0) = Header
        BY <3>2, <3>3 DEF SentFront, Assembled
      <4>2. w = SentFront(m, 0) \o (x \o net)
        BY <1>3, <1>4, <4>1
      <4>3. stream = Assembled(m, 0) \o x
        BY <1>4, <4>1
      <4>4. cbegin' = Len(Assembled(m, 0))
        BY <1>7, <4>1, HeaderFacts
      <4> QED BY <1>7, <4>2, <4>3, <4>4 DEF Joined, Behind
    <3>5. Lined(m, w, 0, x)'
      BY <1>7, <3>1, <3>4 DEF Lined
    <3>6. Lining(m, w)'
      <4>1. 0 \in 0 .. Len(m.chunks)
        BY MessageFacts
      <4> QED BY <3>1, <3>5, <4>1 DEF Lining
    <3>7. Chunking(m, w)'
      BY <3>1, <3>6 DEF Chunking
    <3> QED BY <2>1, <3>7 DEF Shape
  <2>4. CASE ModeOf(m) = "unlimited"
    <3>1. Unlimited(m) /\ ContentLength(m) = 0
      BY <2>4 DEF ModeOf, Unlimited
    <3>2. remain' = 0
      BY <1>5, <1>7, <3>1, LessType DEF Remaining
    <3>3. Looking(m, w)'
      BY <1>5, <1>7, <1>15, <2>4, <3>1, <3>2 DEF Looking
    <3> QED BY <2>1, <3>3 DEF Shape
  <2>5. CASE ModeOf(m) = "length" /\ Remaining(m) > 0
    <3>1. m.framing = "length"
      BY <1>12, <2>5
    <3>2. ContentLength(m) = Len(x) + Len(net) /\ Remaining(m) = Len(net)
      BY <1>13, <2>2, <3>1
    <3>3. ContentLength(m) > 0 /\ remain' = 1 + ContentLength(m) - mark' /\ mark' \in 1 .. Len(stream)
      BY <1>5, <1>7, <2>5, <3>2
    <3>4. Looking(m, w)'
      BY <1>7, <1>15, <2>5, <3>3 DEF Looking
    <3> QED BY <2>1, <3>4 DEF Shape
  <2>6. CASE ModeOf(m) = "length" /\ ~(Remaining(m) > 0)
    <3>1. pc' = "Reply" /\ ~Unlimited(m) /\ m.framing # "chunked"
      BY <1>7, <1>15, <2>6 DEF ModeOf
    <3>2. net = <<>> /\ x = Body(m) /\ Remaining(m) = 0
      <4>1. CASE m.framing = "length"
        <5>1. ~Coded(m)
          BY <4>1 DEF Coded
        <5>2. Len(net) = 0 /\ Remaining(m) = 0
          BY <1>5, <1>13, <2>2, <2>6, <4>1
        <5>3. net = <<>>
          BY <1>1, <5>2, EmptyFacts
        <5> QED BY <1>4, <1>10, <2>2, <5>1, <5>2, <5>3, EmptyFacts
      <4>2. CASE m.framing # "length"
        <5>1. ~m.ok /\ m.text /\ m.framing \in {"implicit", "none"}
          BY <1>6, <1>12, <2>2, <3>1, <4>2 DEF Unlimited
        <5>2. ~(Len(Wire(m)) > 1)
          <6>1. asked \in DOMAIN script
            BY <1>1, ScriptFacts, LenProperties DEF TypeInv
          <6>2. ~Untold(m)
            BY <1>1, <6>1 DEF Plain
          <6> QED BY <2>2, <5>1, <6>2 DEF Untold
        <5>3. PICK y \in Strings : Wire(m) = w \o y
          BY FormFacts DEF Exchange
        <5>4. Len(Wire(m)) = Len(w) + Len(y) /\ Len(w) = Len(Header) + Len(t) /\ Len(y) \in Nat /\ Len(t) \in Nat
          BY <1>3, <5>3, HeaderFacts, StringConcat, StringLen
        <5>5. Len(t) = 0 /\ Len(x) = 0 /\ Len(net) = 0 /\ Len(Wire(m)) = 1
          BY <1>5, <1>11, <5>2, <5>4, HeaderFacts
        <5>6. t = <<>> /\ x = <<>> /\ net = <<>>
          BY <1>1, <5>5, EmptyFacts
        <5>7. ~Coded(m)
          <6>1. SUFFICES ASSUME Coded(m) PROVE FALSE
            OBVIOUS
          <6>2. PICK f \in Strings : f = Header \o FlattenSeq(Pieces(m))
            BY <6>1, WireFacts, HeaderFacts, StringConcat
          <6>3. Sizable(<<>>)
            BY DigitFacts, EmptyFacts DEF Sizable
          <6>4. PICK c \in Strings : c = Chunk(<<>>) /\ Len(c) = Len(<<>>) + 5
            BY <6>3, ChunkFacts
          <6>5. Wire(m) = f \o c
            BY <6>1, <6>2, <6>4, WireFacts
          <6>6. Len(f \o c) = Len(f) + Len(c) /\ Len(f) \in Nat
            BY StringConcat, StringLen
          <6>7. Len(c) = 5
            BY <6>4, EmptyFacts
          <6> QED BY <5>5, <6>5, <6>6, <6>7
        <5> QED BY <1>10, <1>12, <2>2, <4>2, <5>6, <5>7
      <4> QED BY <4>1, <4>2
    <3>3. Ready(m)'
      BY <1>4, <1>7, <3>1, <3>2 DEF Ready
    <3> QED BY <2>1, <3>3 DEF Shape
  <2> QED BY <2>3, <2>4, <2>5, <2>6 DEF ModeOf
<1> QED BY <1>14, <1>15

LEMMA ArrivingStep ==
  ASSUME ~Pipelined, TypeInv, Plain, NEW m \in Messages, NEW w \in Strings, Exchange(m, w),
         Arriving(m, w), Next
  PROVE  Sync'
<1>1. ~ServerSend /\ ~Ask /\ out = Before /\ open /\ ridx = asked - 1 /\ remain = 0
  BY NothingElse DEF Arriving
<1>2. net \in Strings /\ stream \in Strings
  BY DEF TypeInv, TypeStreams
<1>3. CASE pc = "Select" /\ net = w
  <2>1. FirstBody \/ FirstRecv \/ FirstEof
    BY <1>1, <1>3, StepsAt DEF StepSelect
  <2>2. CASE FirstBody
    BY <1>1, <2>2 DEF FirstBody
  <2>3. CASE FirstRecv
    <3>1. PICK n : Recv(n) /\ stream' = SubSeq(net, 1, n)
      BY <2>3 DEF FirstRecv
    <3>2. /\ n \in Nat \ {0} /\ SubSeq(net, 1, n) \in Strings /\ Len(SubSeq(net, 1, n)) = n
          /\ SubSeq(net, 1, n) \o net' = net
      BY <1>2, <3>1, RecvFacts
    <3>3. stream' # <<>> /\ stream' \o net' = w
      BY <1>3, <3>1, <3>2, EmptyFacts
    <3>4. Exchange(m, w)' /\ Before' = Before /\ asked' = asked
      BY <2>3, SameExchange DEF FirstRecv
    <3>5. Arriving(m, w)'
      BY <1>1, <2>3, <3>3, <3>4 DEF Arriving, FirstRecv
    <3>6. Shape(m, w)'
      BY <3>5 DEF Shape
    <3> QED BY <3>4, <3>6, ToAnswering
  <2>4. CASE FirstEof
    BY <1>1, <1>3, <2>4, GiveUp DEF FirstEof
  <2> QED BY <2>1, <2>2, <2>3, <2>4
<1>4. CASE pc = "Line" /\ stream # <<>> /\ stream \o net = w
  <2>1. PICK t \in Strings : w = Header \o t
    BY FormFacts DEF Exchange
  <2>2. stream[1] = "H"
    <3>1. stream \o net = Header \o t
      BY <1>4, <2>1
    <3> QED BY <1>2, <1>4, <3>1, HeaderFirst
  <2>3. ~NeedsMore
    BY <1>2, <1>4, <2>2, HeadLine DEF NeedsMore, Sized
  <2>4. LineHead
    BY <1>1, <1>4, <2>2, <2>3, StepsAt DEF StepLine, RecvMore, LineCut, LineBody
  <2>5. Shape(m, w)'
    BY <1>1, <1>4, <2>4, HeadStep
  <2>6. Exchange(m, w)'
    BY <2>4, SameExchange DEF LineHead
  <2> QED BY <2>5, <2>6, ToAnswering
<1> QED BY <1>3, <1>4 DEF Arriving

-----------------------------------------------------------------------------
(***************************************************************************)
(* An answer that is passed on as it is.                                   *)
(***************************************************************************)

LEMMA ConcatIndex ==
  ASSUME NEW a \in Strings, NEW b \in Strings, b # <<>>
  PROVE  /\ Len(a) + 1 \in 1 .. Len(a \o b) /\ (a \o b)[Len(a) + 1] = b[1]
         /\ a # <<>> => (a \o b)[1] = a[1]
<1>1. Len(a) \in Nat /\ Len(b) \in Nat /\ Len(b) # 0 /\ Len(a \o b) = Len(a) + Len(b)
      /\ (a # <<>> => Len(a) # 0)
  BY StringLen, EmptyFacts, StringConcat
<1>2. \A i \in 1 .. Len(a) + Len(b) : (a \o b)[i] = IF i <= Len(a) THEN a[i] ELSE b[i - Len(a)]
  BY ConcatProperties DEF Strings
<1>3. /\ Len(a) + 1 \in 1 .. Len(a) + Len(b) /\ ~(Len(a) + 1 <= Len(a)) /\ Len(a) + 1 - Len(a) = 1
      /\ 1 \in 1 .. Len(a) + Len(b) /\ (a # <<>> => 1 <= Len(a))
  BY <1>1
<1> QED BY <1>1, <1>2, <1>3

LEMMA PassOn ==
  ASSUME NEW m \in Messages, NEW w \in Strings, Exchange(m, w), UNCHANGED server,
         open', ridx' = asked, ~Translated(m),
         remain' = IF m.method = "GET" /\ m.framing = "length" THEN Len(net') ELSE 0,
         NEW p \in Strings, Passed(m, w, p)'
  PROVE  Sync'
<1>1. Exchange(m, w)' /\ asked' = asked
  BY SameExchange
<1>2. Passing(m, w)'
  BY <1>1 DEF Passing
<1>3. Shape(m, w)'
  BY <1>2 DEF Shape
<1> QED BY <1>1, <1>3, ToAnswering

\* Reply of what came with the header.
LEMMA PassReply ==
  ASSUME ~Pipelined, TypeInv, NEW m \in Messages, NEW w \in Strings, Exchange(m, w), Passing(m, w),
         pc = "Reply", ~text, out = Before, stream # <<>>, stream \o net = w, Reply
  PROVE  Sync'
<1>1. /\ stream \in Strings /\ net \in Strings /\ open /\ ridx = asked /\ ~Translated(m)
      /\ asked \in 1 .. Len(script) /\ Current = m
  BY DEF Passing, TypeInv, TypeStreams, Exchange, Current
<1>2. PICK t \in Strings : w = Header \o t
  BY FormFacts DEF Exchange
<1>3. PICK x \in Strings : stream = Header \o x /\ t = x \o net
  <2>1. stream \o net = Header \o t
    BY <1>2
  <2>2. Overlap(Cells, stream, net, Header, t)
    BY <1>1, <2>1, HeaderFirst
  <2> QED BY <2>2 DEF Overlap, Strings
<1>4. SubSeq(stream, 2, Len(stream)) = x
  <2>1. SubSeq(Header \o x, Len(Header) + 1, Len(Header \o x)) = x
    BY HeaderFacts, Halves DEF Strings
  <2>2. Len(Header) + 1 = 2
    BY HeaderFacts
  <2> QED BY <1>3, <2>1, <2>2
<1>5. out' = out \o Raw(stream)
  <2>1. Headed(-1, x) = Raw(stream)
    BY <1>3, HeadedFacts
  <2>2. CASE m.text
    <3>1. m.method = "HEAD"
      BY <1>1, <2>2, MessageFacts DEF Translated
    <3>2. w = Header
      BY <3>1, FormFacts DEF Exchange
    <3>3. Len(Header \o t) = Len(Header) + Len(t) /\ Len(t) = Len(x) + Len(net)
          /\ Len(t) \in Nat /\ Len(x) \in Nat /\ Len(net) \in Nat
      BY <1>1, <1>3, HeaderFacts, StringConcat, StringLen
    <3>4. Len(x) = 0
      BY <1>2, <3>2, <3>3, HeaderFacts
    <3>5. x = <<>>
      BY <3>4, EmptyFacts
    <3>6. out' = out \o Headed(-1, <<>>)
      BY <1>1, <2>2 DEF Reply
    <3> QED BY <2>1, <3>5, <3>6
  <2>3. CASE ~m.text
    <3>1. out' = out \o Headed(-1, x)
      BY <1>1, <1>4, <2>3 DEF Reply
    <3> QED BY <2>1, <3>1
  <2> QED BY <2>2, <2>3
<1>6. UNCHANGED server /\ UNCHANGED <<net, open, remain, ridx, stream>> /\ pc' = "Select" /\ Before' = Before
  BY DEF Reply, server, query, Before
<1>7. Passed(m, w, stream)'
  BY <1>5, <1>6 DEF Passed
<1>8. open' /\ ridx' = asked /\ remain' = IF m.method = "GET" /\ m.framing = "length" THEN Len(net') ELSE 0
  BY <1>6 DEF Passing
<1>9. PICK q \in Strings : q = stream
  BY <1>1
<1>10. Passed(m, w, q)'
  BY <1>6, <1>7, <1>9 DEF Passed
<1> QED BY <1>1, <1>6, <1>8, <1>10, PassOn

\* Select: more of a body whose length is known, or of one whose length is not.
LEMMA PassSelect ==
  ASSUME ~Pipelined, TypeInv, NEW m \in Messages, NEW w \in Strings, Exchange(m, w), Passing(m, w),
         NEW p \in Strings, p # <<>>, pc = "Select", out = Before \o Raw(p), p \o net = w, Next
  PROVE  Sync'
<1>1. /\ net \in Strings /\ open /\ ridx = asked /\ ~Translated(m) /\ sent = asked /\ asked \in Nat
      /\ Before \in Replies /\ asked \in 1 .. Len(script) /\ eof \in BOOLEAN /\ open \in BOOLEAN
      /\ remain = IF m.method = "GET" /\ m.framing = "length" THEN Len(net) ELSE 0
  BY BeforeAfter, ScriptFacts DEF Passing, TypeInv, TypeStreams, TypeCounts, TypeFlags, Exchange
<1>2. /\ IsPrefix(out, After)
      /\ net = <<>> /\ w = Wire(m) => out = After
      /\ net # <<>> \/ w # Wire(m) => Len(out) < Len(After)
      /\ out = After => net = <<>> /\ w = Wire(m)
  BY <1>1, PassedOn
<1>3. Raw(p) \in Replies /\ Len(p) \in Nat /\ Len(p) # 0 /\ Len(net) \in Nat
  BY <1>1, RawFacts, StringLen, EmptyFacts
<1>4. CASE Ask
  <2>1. out = After /\ net = <<>> /\ ~eof /\ asked' = asked + 1
    BY <1>2, <1>4, NothingElse DEF Ask
  <2>2. remain = 0
    BY <1>1, <2>1, EmptyFacts
  <2>3. Before' = After
    <3>1. asked' - 1 = asked /\ script' = script
      BY <1>1, <1>4, <2>1 DEF Ask
    <3> QED BY <3>1 DEF Before, After
  <2>4. Requested'
    BY <1>1, <1>4, <2>1, <2>2, <2>3 DEF Requested, Ask
  <2> QED BY <2>4 DEF Sync
<1>5. CASE FirstBody
  <2>1. PICK n \in 1 .. remain : /\ Recv(n) /\ remain' = remain - n
                                 /\ out' = out \o Raw(SubSeq(net, 1, n))
    BY <1>5 DEF FirstBody
  <2>2. PICK s \in Strings : s = SubSeq(net, 1, n) /\ s \o net' = net /\ Len(net') = Len(net) - n /\ net' \in Strings
    BY <1>1, <2>1, RecvFacts
  <2>3. remain = Len(net) /\ m.method = "GET" /\ m.framing = "length" /\ remain' = Len(net')
    <3>1. remain > 0
      BY <1>5 DEF FirstBody
    <3>2. m.method = "GET" /\ m.framing = "length"
      BY <1>1, <3>1
    <3>3. remain = Len(net)
      BY <1>1, <3>2
    <3> QED BY <2>1, <2>2, <3>2, <3>3
  <2>4. PICK q \in Strings : q = p \o s /\ Len(q) = Len(p) + Len(s)
    BY StringConcat
  <2>5. q # <<>>
    BY <1>3, <2>4, StringLen, EmptyFacts
  <2>6. out' = Before \o Raw(q)
    <3>1. Raw(q) = Raw(p) \o Raw(s) /\ Raw(s) \in Replies
      BY <2>4, RawFacts
    <3>2. (Before \o Raw(p)) \o Raw(s) = Before \o (Raw(p) \o Raw(s))
      BY <1>1, <1>3, <3>1, ReplyAssoc
    <3> QED BY <2>1, <2>2, <3>1, <3>2
  <2>7. q \o net' = w
    <3>1. (p \o s) \o net' = p \o (s \o net')
      BY <2>2, StringAssoc
    <3> QED BY <2>2, <2>4, <3>1
  <2>8. UNCHANGED <<open, ridx, pc>> /\ UNCHANGED server /\ Before' = Before
    BY <1>5 DEF FirstBody, server, query, Before
  <2>9. Passed(m, w, q)'
    BY <2>5, <2>6, <2>7, <2>8 DEF Passed
  <2> QED BY <1>1, <2>3, <2>8, <2>9, PassOn
<1>6. CASE FirstRecv
  <2>1. PICK n \in remain + 1 .. BufSize : Recv(n) /\ stream' = SubSeq(net, 1, n)
    BY <1>6 DEF FirstRecv
  <2>2. PICK s \in Strings : /\ s = SubSeq(net, 1, n) /\ s \o net' = net /\ Len(net') = Len(net) - n
                             /\ net' \in Strings /\ n \in Nat \ {0} /\ n <= Len(net) /\ Len(s) = n
    BY <1>1, <2>1, RecvFacts
  <2>3. ~(m.method = "GET" /\ m.framing = "length") /\ Len(net) >= 1
    BY <1>1, <1>3, <2>1, <2>2
  <2>4. Len(w) = Len(p) + Len(net) /\ Len(w) >= 2
    BY <1>1, <1>3, <2>3, StringConcat
  <2>5. m.method = "GET"
    <3>1. m.method = "HEAD" => w = Header
      BY FormFacts DEF Exchange
    <3>2. m.method \in {"GET", "HEAD"}
      BY MessageFacts
    <3>3. Len(w) # Len(Header)
      <4>1. Len(Header) = 1
        BY HeaderFacts
      <4> QED BY <1>3, <2>4, <4>1
    <3> QED BY <3>1, <3>2, <3>3
  <2>6. Len(Wire(m)) > 1
    <3>1. PICK t \in Strings : Wire(m) = w \o t
      BY FormFacts DEF Exchange
    <3>2. Len(w \o t) = Len(w) + Len(t) /\ Len(t) \in Nat /\ Len(w) \in Nat
      BY StringConcat, StringLen
    <3> QED BY <2>4, <3>1, <3>2
  <2>7. Linewise(m)
    BY <1>1, <2>3, <2>5, <2>6 DEF Linewise, Translated
  <2>8. stream' = s /\ s # <<>>
    BY <2>1, <2>2, EmptyFacts
  <2>9. UNCHANGED <<open, ridx, out>> /\ UNCHANGED server /\ Before' = Before /\ pc' = "Line" /\ remain' = 0
    BY <1>6 DEF FirstRecv, server, query, Before
  <2>10. Passed(m, w, p)'
    BY <2>2, <2>7, <2>8, <2>9 DEF Passed
  <2>11. remain' = IF m.method = "GET" /\ m.framing = "length" THEN Len(net') ELSE 0
    BY <2>3, <2>9
  <2> QED BY <1>1, <2>9, <2>10, <2>11, PassOn
<1>7. CASE FirstEof
  <2>1. UNCHANGED query /\ open' = FALSE /\ net' = <<>> /\ remain' = 0 /\ ridx' = asked /\ pc' = "Select"
        /\ out' = out
    BY <1>7 DEF FirstEof, CloseO
  <2>2. CASE out = After
    <3>1. Waiting'
      BY <1>1, <2>1, <2>2 DEF Waiting, After, query
    <3> QED BY <3>1 DEF Sync
  <2>3. CASE out # After
    <3>1. Lost'
      BY <1>2, <2>1, <2>3 DEF Lost, After, query
    <3> QED BY <3>1 DEF Sync
  <2> QED BY <2>2, <2>3
<1>8. ~ServerSend
  BY NothingElse
<1> QED BY <1>4, <1>5, <1>6, <1>7, <1>8, StepsAt DEF StepSelect

\* More of the stream.
LEMMA Received ==
  ASSUME TypeInv, RecvMore
  PROVE  /\ stream \in Strings /\ stream' \in Strings /\ net \in Strings /\ net' \in Strings
         /\ stream' \o net' = stream \o net
         /\ Len(stream') > Len(stream) /\ open
         /\ \E s \in Strings : stream' = stream \o s /\ net = s \o net'
<1>1. stream \in Strings /\ net \in Strings
  BY DEF TypeInv, TypeStreams
<1>2. PICK n : Recv(n) /\ stream' = stream \o SubSeq(net, 1, n)
  BY DEF RecvMore
<1>3. PICK s \in Strings : s = SubSeq(net, 1, n) /\ s \o net' = net /\ net' \in Strings
                           /\ Len(s) = n /\ n \in Nat \ {0} /\ open
  BY <1>1, <1>2, RecvFacts
<1>4. stream' = stream \o s
  BY <1>2, <1>3
<1>5. stream' \in Strings /\ Len(stream') > Len(stream)
  <2>1. stream \o s \in Strings /\ Len(stream \o s) = Len(stream) + Len(s) /\ Len(stream) \in Nat
    BY <1>1, StringConcat, StringLen
  <2> QED BY <1>3, <1>4, <2>1
<1>6. stream' \o net' = stream \o net
  <2>1. PICK y \in Strings : y = net'
    BY <1>3
  <2>2. PICK z \in Strings : z = stream
    BY <1>1
  <2>3. (z \o s) \o y = z \o (s \o y)
    BY StringAssoc
  <2> QED BY <1>3, <1>4, <2>1, <2>2, <2>3
<1> QED BY <1>1, <1>3, <1>4, <1>5, <1>6

\* Line: binary data whose length is not known, as it comes.
LEMMA PassLine ==
  ASSUME ~Pipelined, TypeInv, Plain, NEW m \in Messages, NEW w \in Strings, Exchange(m, w),
         Passing(m, w), NEW p \in Strings, p # <<>>, pc = "Line", Linewise(m), stream # <<>>,
         out = Before \o Raw(p), p \o (stream \o net) = w, Next
  PROVE  Sync'
<1>1. /\ net \in Strings /\ stream \in Strings /\ open /\ ridx = asked /\ ~Translated(m)
      /\ Before \in Replies /\ asked \in 1 .. Len(script) /\ script[asked] = m
      /\ asked \in DOMAIN script
      /\ remain = IF m.method = "GET" /\ m.framing = "length" THEN Len(net) ELSE 0
  BY BeforeAfter, ScriptFacts, LenProperties DEF Passing, TypeInv, TypeStreams, TypeCounts, Exchange
<1>2. remain = 0 /\ ~(m.method = "GET" /\ m.framing = "length")
  BY <1>1 DEF Linewise
<1>3. PICK r \in Strings : r = stream \o net /\ r # <<>> /\ r[1] = stream[1]
  <2>1. Len(stream \o net) = Len(stream) + Len(net) /\ stream \o net \in Strings
    BY <1>1, StringConcat
  <2>2. Len(stream) \in Nat /\ Len(stream) # 0 /\ Len(net) \in Nat
    BY <1>1, StringLen, EmptyFacts
  <2>3. stream \o net # <<>>
    BY <2>1, <2>2, EmptyFacts
  <2>4. (stream \o net)[1] = stream[1]
    BY <1>1, <2>2, ConcatProperties DEF Strings
  <2> QED BY <2>1, <2>3, <2>4
<1>4. p \o r = w
  BY <1>3
<1>5. IsPrefix(out, After) /\ Len(out) < Len(After)
  BY <1>1, <1>3, <1>4, PassedOn
<1>6. stream[1] # "H"
  <2>1. PICK t \in Strings : Wire(m) = w \o t
    BY FormFacts DEF Exchange
  <2>2. PICK j : j \in 2 .. Len(w) /\ w[j] = stream[1]
    <3>1. Len(p) + 1 \in 1 .. Len(p \o r) /\ (p \o r)[Len(p) + 1] = r[1]
      BY <1>3, ConcatIndex
    <3>2. Len(p) \in Nat /\ Len(p) # 0
      BY StringLen, EmptyFacts
    <3>3. Len(p) + 1 \in 2 .. Len(w) /\ w[Len(p) + 1] = stream[1]
      BY <1>3, <1>4, <3>1, <3>2
    <3> QED BY <3>3
  <2>3. Len(w) \in Nat /\ Len(t) \in Nat /\ Len(w \o t) = Len(w) + Len(t)
    BY StringLen, StringConcat
  <2>4. (w \o t)[j] = w[j]
    <3>1. \A i \in 1 .. Len(w) + Len(t) : (w \o t)[i] = IF i <= Len(w) THEN w[i] ELSE t[i - Len(w)]
      BY ConcatProperties DEF Strings
    <3> QED BY <2>2, <2>3, <3>1
  <2>5. j \in 2 .. Len(Wire(m))
    BY <2>1, <2>2, <2>3
  <2>6. ~Headlike(m)
    BY <1>1 DEF Plain
  <2>7. Wire(m)[j] # "H"
    BY <2>5, <2>6 DEF Headlike
  <2> QED BY <2>1, <2>2, <2>4, <2>7
<1>7. ~ServerSend /\ ~LineHead
  BY <1>6, NothingElse DEF LineHead
<1>8. CASE RecvMore
  <2>1. stream' \o net' = stream \o net /\ Len(stream') >= Len(stream) /\ stream' \in Strings
    BY <1>8, Received
  <2>3. stream' \o net' = r
    BY <1>3, <2>1
  <2>4. stream' # <<>>
    <3>1. Len(stream) \in Nat /\ Len(stream) # 0
      BY <1>1, StringLen, EmptyFacts
    <3> QED BY <2>1, <3>1, EmptyFacts
  <2>5. UNCHANGED <<open, ridx, out, pc, remain>> /\ UNCHANGED server /\ Before' = Before
    BY <1>8 DEF RecvMore, server, query, Before
  <2>6. Passed(m, w, p)'
    BY <1>4, <2>3, <2>4, <2>5 DEF Passed
  <2>7. remain' = IF m.method = "GET" /\ m.framing = "length" THEN Len(net') ELSE 0
    BY <1>2, <2>5
  <2> QED BY <1>1, <2>5, <2>6, <2>7, PassOn
<1>9. CASE LineCut
  <2>1. Lost'
    BY <1>5, <1>9 DEF LineCut, CloseO, Lost, After, query
  <2> QED BY <2>1 DEF Sync
<1>10. CASE LineBody
  <2>1. PICK q \in Strings : q = p \o stream /\ Len(q) = Len(p) + Len(stream)
    BY <1>1, StringConcat
  <2>2. q # <<>>
    BY <1>1, <2>1, StringLen, EmptyFacts
  <2>3. out' = Before \o Raw(q)
    <3>1. Raw(q) = Raw(p) \o Raw(stream) /\ Raw(p) \in Replies /\ Raw(stream) \in Replies
      BY <1>1, <2>1, RawFacts
    <3>2. (Before \o Raw(p)) \o Raw(stream) = Before \o (Raw(p) \o Raw(stream))
      BY <1>1, <3>1, ReplyAssoc
    <3>3. out' = out \o Raw(stream)
      BY <1>10 DEF LineBody
    <3> QED BY <3>1, <3>2, <3>3
  <2>4. q \o net = w
    <3>1. (p \o stream) \o net = p \o (stream \o net)
      BY <1>1, StringAssoc, ZenonT(40)
    <3> QED BY <2>1, <3>1
  <2>5. UNCHANGED <<open, ridx, net, remain>> /\ UNCHANGED server /\ Before' = Before /\ pc' = "Select"
    BY <1>10 DEF LineBody, server, query, Before
  <2>6. Passed(m, w, q)'
    BY <2>2, <2>3, <2>4, <2>5 DEF Passed
  <2> QED BY <1>1, <2>5, <2>6, PassOn
<1> QED BY <1>7, <1>8, <1>9, <1>10, StepsAt DEF StepLine

LEMMA PassingStep ==
  ASSUME ~Pipelined, TypeInv, Plain, NEW m \in Messages, NEW w \in Strings, Exchange(m, w),
         Passing(m, w), Next
  PROVE  Sync'
<1>1. PICK p \in Strings : Passed(m, w, p)
  BY DEF Passing
<1>2. CASE pc = "Reply"
  <2>1. ~text /\ out = Before /\ stream # <<>> /\ stream \o net = w
    BY <1>1, <1>2 DEF Passed
  <2>2. Reply
    BY <1>2, NothingElse, StepsAt DEF StepReply
  <2> QED BY <1>2, <2>1, <2>2, PassReply
<1>3. CASE pc = "Select"
  BY <1>1, <1>3, PassSelect DEF Passed
<1>4. CASE pc = "Line"
  BY <1>1, <1>4, PassLine DEF Passed
<1> QED BY <1>1, <1>2, <1>3, <1>4 DEF Passed

-----------------------------------------------------------------------------
(***************************************************************************)
(* Size lines and chunks in what was received of an answer.                *)
(***************************************************************************)

\* The line behind a is seen as soon as it is there, and it is the line that
\* will be there when the rest, u, has come.
LEMMA SameLine ==
  ASSUME NEW a \in Strings, NEW q \in Strings, NEW u \in Strings, HasLine(a \o q, Len(a))
  PROVE  /\ HasLine(q \o u, 0)
         /\ FirstEnd(a \o q, Len(a)) = Len(a) + FirstEnd(q \o u, 0)
         /\ SizeLine(a \o q, Len(a)) = SizeLine(q \o u, 0)
<1>1. PICK n \in Nat : n = Len(a)
  BY StringLen
<1>2. PICK s \in Strings : s = a \o q /\ Len(s) = n + Len(q)
  BY <1>1, StringConcat
<1>3. PICK b \in Strings : b = q \o u /\ Len(b) = Len(q) + Len(u)
  BY StringConcat
<1>4. Len(q) \in Nat /\ Len(u) \in Nat
  BY StringLen
<1>5. \A i \in 1 .. Len(q) : s[n + i] = b[i]
  <2> TAKE i \in 1 .. Len(q)
  <2>1. n + i \in 1 .. Len(a) + Len(q) /\ ~(n + i <= Len(a)) /\ n + i - Len(a) = i
    BY <1>1, <1>4
  <2>2. \A j \in 1 .. Len(a) + Len(q) : (a \o q)[j] = IF j <= Len(a) THEN a[j] ELSE q[j - Len(a)]
    BY ConcatProperties DEF Strings
  <2>3. s[n + i] = q[i]
    BY <1>2, <2>1, <2>2
  <2>4. \A j \in 1 .. Len(q) + Len(u) : (q \o u)[j] = IF j <= Len(q) THEN q[j] ELSE u[j - Len(q)]
    BY ConcatProperties DEF Strings
  <2>5. i \in 1 .. Len(q) + Len(u) /\ i <= Len(q)
    BY <1>4
  <2>6. b[i] = q[i]
    BY <1>3, <2>4, <2>5
  <2> QED BY <2>3, <2>6
<1>6. HasLine(s, n)
  BY <1>1, <1>2
<1>7. PICK e : /\ e = FirstEnd(s, n) /\ e \in n + 1 .. Len(s) /\ e \in LineEnds(s, n)
               /\ \A j \in LineEnds(s, n) : e <= j
  BY <1>6, FirstEndFacts
<1>8. PICK k \in 1 .. Len(q) : e = n + k
  <2>1. e - n \in 1 .. Len(q) /\ e = n + (e - n)
    BY <1>2, <1>4, <1>7
  <2> QED BY <2>1
<1>9. k \in LineEnds(b, 0)
  <2>1. k \in 0 + 1 .. Len(b)
    BY <1>3, <1>4
  <2>2. s[n + k] = "H" \/ (s[n + k] = "r" /\ n + k < Len(s) /\ s[n + k + 1] = "n")
    BY <1>7, <1>8 DEF LineEnds
  <2>3. s[n + k] = b[k]
    BY <1>5
  <2>4. ASSUME n + k < Len(s) PROVE k < Len(b) /\ s[n + k + 1] = b[k + 1]
    <3>1. k + 1 \in 1 .. Len(q)
      BY <1>2, <1>4, <2>4
    <3>2. s[n + (k + 1)] = b[k + 1]
      BY <1>5, <3>1
    <3>3. n + (k + 1) = n + k + 1
      OBVIOUS
    <3> QED BY <1>3, <1>4, <3>1, <3>2, <3>3
  <2> QED BY <2>1, <2>2, <2>3, <2>4 DEF LineEnds
<1>10. HasLine(b, 0)
  BY <1>9 DEF HasLine
<1>11. PICK f : /\ f = FirstEnd(b, 0) /\ f \in 1 .. Len(b) /\ f \in LineEnds(b, 0)
                /\ \A j \in LineEnds(b, 0) : f <= j
  BY <1>10, FirstEndFacts
<1>12. f = k
  <2>1. f <= k
    BY <1>9, <1>11
  <2>2. SUFFICES ASSUME f < k PROVE FALSE
    BY <1>11, <2>1
  <2>3. f \in 1 .. Len(q) /\ f + 1 \in 1 .. Len(q) /\ n + f \in n + 1 .. Len(s) /\ n + f < Len(s)
    BY <1>2, <1>4, <1>11, <2>2
  <2>4. s[n + f] = b[f] /\ s[n + (f + 1)] = b[f + 1] /\ n + (f + 1) = n + f + 1
    BY <1>5, <2>3
  <2>5. b[f] = "H" \/ (b[f] = "r" /\ b[f + 1] = "n")
    BY <1>11 DEF LineEnds
  <2>6. n + f \in LineEnds(s, n)
    BY <2>3, <2>4, <2>5 DEF LineEnds
  <2>7. e <= n + f
    BY <1>7, <2>6
  <2> QED BY <1>8, <1>11, <2>2, <2>7
<1>13. SizeLine(s, n) = SizeLine(b, 0)
  <2>1. PICK x \in Strings : /\ x = SizeLine(s, n) /\ Len(x) = e - 1 - n
                             /\ \A i \in 1 .. Len(x) : x[i] = s[n + i]
    BY <1>6, <1>7, SizeLineFacts
  <2>2. PICK y \in Strings : /\ y = SizeLine(b, 0) /\ Len(y) = f - 1 - 0
                             /\ \A i \in 1 .. Len(y) : y[i] = b[0 + i]
    BY <1>10, <1>11, SizeLineFacts
  <2>3. Len(x) = k - 1 /\ Len(y) = k - 1
    BY <1>8, <1>11, <1>12, <2>1, <2>2
  <2>4. \A i \in 1 .. Len(x) : x[i] = y[i]
    <3> TAKE i \in 1 .. Len(x)
    <3>1. i \in 1 .. Len(q) /\ i \in 1 .. Len(y) /\ 0 + i = i
      BY <1>4, <2>3
    <3>2. x[i] = s[n + i] /\ y[i] = b[i]
      BY <2>1, <2>2, <3>1
    <3> QED BY <1>5, <3>1, <3>2
  <2>5. x = y
    BY <2>3, <2>4, SeqEqual DEF Strings
  <2> QED BY <2>1, <2>2, <2>5
<1> QED BY <1>1, <1>2, <1>3, <1>7, <1>8, <1>10, <1>11, <1>12, <1>13

\* A chunk begins with its size.
LEMMA ChunkLine ==
  ASSUME NEW d, Sizable(d), NEW r \in Strings, NEW b \in Strings, ChunkThen(b, d, r)
  PROVE  /\ HasLine(b, 0) /\ FirstEnd(b, 0) = 2 /\ Len(b) >= 5 /\ b[2] = "r" /\ b[3] = "n"
         /\ Len(SizeLine(b, 0)) = 1 /\ ~BrokenSize(SizeLine(b, 0)) /\ SizeOf(SizeLine(b, 0)) = Len(d)
<1>1. PICK g \in Nat : /\ g = Len(d) + 1 /\ g \in 1 .. Len(Digits) /\ Len(d) \in Nat
                       /\ Digits[g] \in Range(Digits) /\ Digits[g] \notin {"H", "r", "n"}
  <2>1. Len(d) \in Nat /\ Len(d) + 1 \in 1 .. Len(Digits)
    BY DigitFacts DEF Sizable
  <2> QED BY <2>1, DigitFacts
<1>2. PICK f \in Strings : f = SizeFront(d) /\ Len(f) = 3
  BY ChunkFacts
<1>3. f[1] = Digits[g] /\ f[2] = "r" /\ f[3] = "n"
  BY <1>1, <1>2 DEF SizeFront
<1>4. PICK z \in Strings : b = f \o z /\ Len(z) >= 2
  <2>1. PICK y \in Strings : y = d \o CRLF /\ Len(y) = Len(d) + 2
    <3>1. d \in Strings
      BY DEF Sizable
    <3>2. d \o CRLF \in Strings /\ Len(d \o CRLF) = Len(d) + Len(CRLF)
      BY <3>1, CRLFFacts, StringConcat
    <3>3. Len(d \o CRLF) = Len(d) + 2
      BY <3>2, CRLFFacts
    <3> QED BY <3>2, <3>3
  <2>2. Chunk(d) = f \o y
    BY <1>2, <2>1, ChunkFacts
  <2>3. (f \o y) \o r = f \o (y \o r)
    BY StringAssoc
  <2>4. y \o r \in Strings /\ Len(y \o r) = Len(y) + Len(r) /\ Len(r) \in Nat
    BY StringConcat, StringLen
  <2>5. Len(y \o r) >= 2
    BY <1>1, <2>1, <2>4
  <2>6. b = f \o (y \o r)
    BY <2>2, <2>3 DEF ChunkThen
  <2> QED BY <2>4, <2>5, <2>6
<1>5. Len(b) >= 5 /\ Len(b) \in Nat /\ b[1] = Digits[g] /\ b[2] = "r" /\ b[3] = "n"
  <2>1. Len(b) = 3 + Len(z) /\ Len(z) \in Nat
    BY <1>2, <1>4, StringConcat, StringLen
  <2>2. \A j \in 1 .. Len(f) + Len(z) : (f \o z)[j] = IF j <= Len(f) THEN f[j] ELSE z[j - Len(f)]
    BY ConcatProperties DEF Strings
  <2>3. \A j \in 1 .. 3 : j \in 1 .. Len(f) + Len(z) /\ j <= Len(f)
    BY <1>2, <2>1
  <2>4. b[1] = f[1] /\ b[2] = f[2] /\ b[3] = f[3]
    BY <1>4, <2>2, <2>3
  <2> QED BY <1>3, <1>4, <2>1, <2>4
<1>6. 2 \in LineEnds(b, 0) /\ 1 \notin LineEnds(b, 0)
  BY <1>1, <1>5 DEF LineEnds
<1>7. HasLine(b, 0)
  BY <1>6 DEF HasLine
<1>8. FirstEnd(b, 0) = 2
  <2>1. /\ FirstEnd(b, 0) \in 1 .. Len(b) /\ FirstEnd(b, 0) \in LineEnds(b, 0)
        /\ FirstEnd(b, 0) <= 2
    <3>1. 0 \in Nat
      OBVIOUS
    <3>2. /\ FirstEnd(b, 0) \in 0 + 1 .. Len(b) /\ FirstEnd(b, 0) \in LineEnds(b, 0)
          /\ \A j \in LineEnds(b, 0) : FirstEnd(b, 0) <= j
      BY <1>7, <3>1, FirstEndFacts
    <3> QED BY <1>6, <3>2
  <2>2. FirstEnd(b, 0) # 1
    BY <1>6, <2>1
  <2> QED BY <1>5, <2>1, <2>2
<1>9. PICK x \in Strings : x = SizeLine(b, 0) /\ Len(x) = 1 /\ x[1] = Digits[g]
  <2>1. 0 \in Nat
    OBVIOUS
  <2>0. PICK e : e = FirstEnd(b, 0) /\ e = 2
    BY <1>8
  <2>2. PICK y \in Strings : /\ y = SizeLine(b, 0) /\ Len(y) = e - 1 - 0
                             /\ \A i \in 1 .. Len(y) : y[i] = b[0 + i]
    BY <1>7, <2>0, <2>1, SizeLineFacts
  <2>3. Len(y) = 1
    <3>1. Len(y) = e - 1 - 0
      BY <2>2
    <3>2. e = 2
      BY <2>0
    <3> QED BY <3>1, <3>2
  <2>4. y[1] = b[1]
    <3>1. 1 \in 1 .. Len(y) /\ 0 + 1 = 1
      BY <2>3
    <3> QED BY <2>2, <3>1
  <2> QED BY <1>5, <2>2, <2>3, <2>4
<1>10. DOMAIN x = 1 .. 1
  BY <1>9, LenProperties DEF Strings
<1>11. ~BrokenSize(x)
  <2>1. \A i \in DOMAIN x : x[i] \in Range(Digits)
    BY <1>1, <1>9, <1>10
  <2>2. ~(Len(x) > CheckSize - 2)
    <3>1. CheckSize \in Nat /\ 1 <= CheckSize - 2
      BY ResponseAssumption
    <3>2. Len(x) = 1
      BY <1>9
    <3> QED BY <3>1, <3>2
  <2>3. Len(x) # 0
    BY <1>9
  <2> QED BY <2>1, <2>2, <2>3, Zenon DEF BrokenSize
<1>12. SizeOf(x) = Len(d)
  <2>1. SizeOf(x) \in 0 .. Len(Digits) - 1 /\ Digits[SizeOf(x) + 1] = x[Len(x)]
    BY <1>11, SizeOfType
  <2>2. SizeOf(x) + 1 \in DOMAIN Digits /\ g \in DOMAIN Digits
    BY <1>1, <2>1, DigitFacts
  <2>3. Digits[SizeOf(x) + 1] = Digits[g]
    BY <1>9, <2>1
  <2>4. SizeOf(x) + 1 = g
    BY <2>2, <2>3, ResponseAssumption
  <2> QED BY <1>1, <2>1, <2>4
<1> QED BY <1>5, <1>7, <1>8, <1>9, <1>11, <1>12

\* So much of a chunk shows its size.
LEMMA SizeSeen ==
  ASSUME NEW a \in Strings, NEW q \in Strings, NEW u \in Strings,
         NEW d, Sizable(d), NEW r \in Strings, ChunkThen(q \o u, d, r)
  PROVE  /\ Len(q) >= 3 => HasLine(a \o q, Len(a))
         /\ HasLine(a \o q, Len(a)) =>
              /\ Len(q) >= 3 /\ FirstEnd(a \o q, Len(a)) = Len(a) + 2
              /\ Len(SizeLine(a \o q, Len(a))) = 1
              /\ ~BrokenSize(SizeLine(a \o q, Len(a)))
              /\ SizeOf(SizeLine(a \o q, Len(a))) = Len(d)
<1>1. PICK b \in Strings : b = q \o u /\ Len(b) = Len(q) + Len(u)
  BY StringConcat
<1>2. /\ HasLine(b, 0) /\ FirstEnd(b, 0) = 2 /\ b[2] = "r" /\ b[3] = "n"
      /\ Len(SizeLine(b, 0)) = 1 /\ ~BrokenSize(SizeLine(b, 0)) /\ SizeOf(SizeLine(b, 0)) = Len(d)
  <2>1. ChunkThen(b, d, r)
    BY <1>1
  <2> QED BY <2>1, ChunkLine
<1>3. PICK n \in Nat : n = Len(a)
  BY StringLen
<1>4. PICK s \in Strings : s = a \o q /\ Len(s) = n + Len(q)
  BY <1>3, StringConcat
<1>5. Len(q) \in Nat /\ Len(u) \in Nat
  BY StringLen
<1>6. \A j \in 1 .. Len(a) + Len(q) : (a \o q)[j] = IF j <= Len(a) THEN a[j] ELSE q[j - Len(a)]
  BY ConcatProperties DEF Strings
<1>7. \A j \in 1 .. Len(q) + Len(u) : (q \o u)[j] = IF j <= Len(q) THEN q[j] ELSE u[j - Len(q)]
  BY ConcatProperties DEF Strings
<1>8. ASSUME Len(q) >= 3 PROVE HasLine(s, n)
  <2>1. /\ n + 2 \in 1 .. Len(a) + Len(q) /\ ~(n + 2 <= Len(a)) /\ n + 2 - Len(a) = 2
        /\ n + 3 \in 1 .. Len(a) + Len(q) /\ ~(n + 3 <= Len(a)) /\ n + 3 - Len(a) = 3
        /\ 2 \in 1 .. Len(q) + Len(u) /\ 2 <= Len(q) /\ 3 \in 1 .. Len(q) + Len(u) /\ 3 <= Len(q)
    BY <1>3, <1>5, <1>8
  <2>2. s[n + 2] = q[2] /\ s[n + 3] = q[3]
    BY <1>4, <1>6, <2>1
  <2>3. q[2] = "r" /\ q[3] = "n"
    BY <1>1, <1>2, <1>7, <2>1
  <2>4. n + 2 \in n + 1 .. Len(s) /\ n + 2 < Len(s) /\ n + 2 + 1 = n + 3
    BY <1>4, <1>5, <1>8
  <2>5. n + 2 \in LineEnds(s, n)
    BY <2>2, <2>3, <2>4 DEF LineEnds
  <2> QED BY <2>5 DEF HasLine
<1>9. ASSUME HasLine(s, n)
      PROVE  /\ FirstEnd(s, n) = n + 2 /\ SizeLine(s, n) = SizeLine(b, 0) /\ Len(q) >= 3
  <2>1. FirstEnd(s, n) = n + 2 /\ SizeLine(s, n) = SizeLine(b, 0)
    <3>1. HasLine(a \o q, Len(a))
      BY <1>3, <1>4, <1>9
    <3>2. /\ FirstEnd(a \o q, Len(a)) = Len(a) + FirstEnd(q \o u, 0)
          /\ SizeLine(a \o q, Len(a)) = SizeLine(q \o u, 0)
      BY <3>1, SameLine, Zenon
    <3> QED BY <1>1, <1>2, <1>3, <1>4, <3>2
  <2>2. n + 2 \in LineEnds(s, n) /\ n + 2 \in n + 1 .. Len(s)
    BY <1>9, <2>1, FirstEndFacts
  <2>3. s[n + 2] = "r"
    <3>1. /\ n + 2 \in 1 .. Len(a) + Len(q) /\ ~(n + 2 <= Len(a)) /\ n + 2 - Len(a) = 2
          /\ 2 \in 1 .. Len(q) + Len(u) /\ 2 <= Len(q)
      BY <1>3, <1>4, <1>5, <2>2
    <3>2. s[n + 2] = q[2] /\ b[2] = q[2]
      BY <1>1, <1>4, <1>6, <1>7, <3>1
    <3> QED BY <1>2, <3>2
  <2>4. n + 2 < Len(s)
    BY <2>2, <2>3 DEF LineEnds
  <2> QED BY <1>4, <1>5, <2>1, <2>4
<1> QED BY <1>2, <1>3, <1>4, <1>8, <1>9

\* What is cut out of the stream behind a.
LEMMA EraseBehind ==
  ASSUME NEW a \in Strings, NEW c \in Strings, NEW q \in Strings
  PROVE  Erased(a \o (c \o q), Len(a), Len(c)) = a \o q
<1>1. PICK s \in Strings : s = a \o (c \o q) /\ Len(s) = Len(a) + Len(c \o q)
  BY StringConcat
<1>2. PICK x \in Strings : x = a \o c /\ Len(x) = Len(a) + Len(c)
  BY StringConcat
<1>3. Len(a) \in Nat /\ Len(c \o q) \in Nat
  BY StringConcat, StringLen
<1>4. s = x \o q
  <2>1. (a \o c) \o q = a \o (c \o q)
    BY StringAssoc
  <2> QED BY <1>1, <1>2, <2>1
<1>5. SubSeq(s, 1, Len(a)) = a
  <2>1. c \o q \in Strings
    BY StringConcat
  <2> QED BY <1>1, <2>1, Halves DEF Strings
<1>6. SubSeq(s, Len(x) + 1, Len(s)) = q
  BY <1>4, Halves DEF Strings
<1>7. Len(a) <= Len(s)
  BY <1>1, <1>3
<1>8. Erased(s, Len(a), Len(c)) = a \o q
  BY <1>2, <1>5, <1>6, <1>7 DEF Erased
<1> QED BY <1>1, <1>8

LEMMA FrontFacts ==
  ASSUME NEW m \in Messages, Coded(m)
  PROVE  /\ SentFront(m, 0) = Header /\ Assembled(m, 0) = Header
         /\ Assembled(m, Len(m.chunks)) = Header \o Body(m)
         /\ SentFront(m, Len(m.chunks)) = WithoutLast(m)
         /\ \A i \in 0 .. Len(m.chunks) :
              /\ SentFront(m, i) \in Strings /\ Assembled(m, i) \in Strings
              /\ Flat(m.chunks, i) \in Strings /\ Len(Assembled(m, i)) = 1 + Len(Flat(m.chunks, i))
         /\ \A i \in 0 .. Len(m.chunks) - 1 :
              /\ Sizable(m.chunks[i + 1]) /\ m.chunks[i + 1] # <<>>
              /\ Chunk(m.chunks[i + 1]) \in Strings
              /\ SentFront(m, i + 1) = SentFront(m, i) \o Chunk(m.chunks[i + 1])
              /\ Assembled(m, i + 1) = Assembled(m, i) \o m.chunks[i + 1]
              /\ Flat(m.chunks, i + 1) = Flat(m.chunks, i) \o m.chunks[i + 1]
<1>1. /\ m.chunks \in Seq(Seq(Cells)) /\ Len(m.chunks) \in Nat
      /\ \A i \in 1 .. Len(m.chunks) : Sizable(m.chunks[i]) /\ m.chunks[i] # <<>>
  BY MessageFacts DEF Strings
<1>2. /\ Pieces(m) \in Seq(Seq(Cells)) /\ Len(Pieces(m)) = Len(m.chunks)
      /\ \A i \in 1 .. Len(m.chunks) : Pieces(m)[i] = Chunk(m.chunks[i])
  BY PiecesFacts DEF Strings
<1>3. /\ Flat(m.chunks, 0) = <<>> /\ Flat(m.chunks, Len(m.chunks)) = Body(m)
      /\ \A i \in 0 .. Len(m.chunks) : Flat(m.chunks, i) \in Strings
      /\ \A i \in 0 .. Len(m.chunks) - 1 : Flat(m.chunks, i + 1) = Flat(m.chunks, i) \o m.chunks[i + 1]
  BY <1>1, FlatProperties DEF Strings, Body
<1>4. /\ Flat(Pieces(m), 0) = <<>> /\ Flat(Pieces(m), Len(m.chunks)) = FlattenSeq(Pieces(m))
      /\ \A i \in 0 .. Len(m.chunks) : Flat(Pieces(m), i) \in Strings
      /\ \A i \in 0 .. Len(m.chunks) - 1 : Flat(Pieces(m), i + 1) = Flat(Pieces(m), i) \o Pieces(m)[i + 1]
  BY <1>2, FlatProperties DEF Strings
<1>5. SentFront(m, 0) = Header /\ Assembled(m, 0) = Header
  BY <1>3, <1>4, HeaderFacts, EmptyFacts DEF SentFront, Assembled
<1>6. /\ Assembled(m, Len(m.chunks)) = Header \o Body(m)
      /\ SentFront(m, Len(m.chunks)) = WithoutLast(m)
  BY <1>3, <1>4, WireFacts DEF SentFront, Assembled
<1>7. ASSUME NEW i \in 0 .. Len(m.chunks)
      PROVE  /\ SentFront(m, i) \in Strings /\ Assembled(m, i) \in Strings
             /\ Flat(m.chunks, i) \in Strings /\ Len(Assembled(m, i)) = 1 + Len(Flat(m.chunks, i))
  <2>1. PICK a \in Strings : a = Flat(m.chunks, i)
    BY <1>3
  <2>2. PICK b \in Strings : b = Flat(Pieces(m), i)
    BY <1>4
  <2>3. Header \o a \in Strings /\ Len(Header \o a) = Len(Header) + Len(a) /\ Header \o b \in Strings
    BY HeaderFacts, StringConcat
  <2>4. Len(Header \o a) = 1 + Len(a)
    BY <2>3, HeaderFacts
  <2> QED BY <2>1, <2>2, <2>3, <2>4 DEF SentFront, Assembled
<1>8. ASSUME NEW i \in 0 .. Len(m.chunks) - 1
      PROVE  /\ Sizable(m.chunks[i + 1]) /\ m.chunks[i + 1] # <<>>
             /\ Chunk(m.chunks[i + 1]) \in Strings
             /\ SentFront(m, i + 1) = SentFront(m, i) \o Chunk(m.chunks[i + 1])
             /\ Assembled(m, i + 1) = Assembled(m, i) \o m.chunks[i + 1]
             /\ Flat(m.chunks, i + 1) = Flat(m.chunks, i) \o m.chunks[i + 1]
  <2>1. i \in 0 .. Len(m.chunks) /\ i + 1 \in 1 .. Len(m.chunks)
    BY <1>1
  <2>2. PICK d \in Strings : d = m.chunks[i + 1] /\ Sizable(d) /\ d # <<>>
    BY <1>1, <2>1 DEF Sizable
  <2>3. PICK c \in Strings : c = Chunk(d) /\ c = Pieces(m)[i + 1]
    BY <1>2, <2>1, <2>2, ChunkFacts
  <2>4. PICK a \in Strings : a = Flat(m.chunks, i) /\ Flat(m.chunks, i + 1) = a \o d
    BY <1>3, <2>1, <2>2
  <2>5. PICK b \in Strings : b = Flat(Pieces(m), i) /\ Flat(Pieces(m), i + 1) = b \o c
    BY <1>4, <2>1, <2>3
  <2>6. (Header \o a) \o d = Header \o (a \o d) /\ (Header \o b) \o c = Header \o (b \o c)
    BY HeaderFacts, StringAssoc
  <2>7. SentFront(m, i + 1) = SentFront(m, i) \o c
    BY <2>5, <2>6 DEF SentFront
  <2>8. Assembled(m, i + 1) = Assembled(m, i) \o d
    BY <2>4, <2>6 DEF Assembled
  <2> QED BY <2>2, <2>3, <2>4, <2>7, <2>8
<1> QED BY <1>5, <1>6, <1>7, <1>8

LEMMA NextPiece ==
  ASSUME NEW m \in Messages, Coded(m), NEW w \in Strings, Form(m, w),
         NEW i \in 0 .. Len(m.chunks), NEW R \in Strings, Behind(m, w, i, R)
  PROVE  \/ i = Len(m.chunks) /\ R = <<>> /\ w # Wire(m)
         \/ \E d, r \in Strings : NextIs(m, w, i, R, d, r)
<1>1. PICK n \in Nat : n = Len(m.chunks)
  BY MessageFacts
<1>2. PICK e \in Strings : /\ w = SentFront(m, n) \o e
                           /\ (e = <<>> /\ w # Wire(m)) \/ (e = Chunk(<<>>) /\ w = Wire(m))
  <2>1. Sizable(<<>>)
    BY DigitFacts, EmptyFacts DEF Sizable
  <2>2. PICK c \in Strings : c = Chunk(<<>>)
    BY <2>1, ChunkFacts
  <2>3. CASE w = Wire(m)
    <3>1. w = SentFront(m, n) \o c
      BY <1>1, <2>2, <2>3, FrontFacts, WireFacts
    <3> QED BY <2>2, <2>3, <3>1
  <2>4. CASE w # Wire(m)
    <3>1. w = SentFront(m, n)
      BY <1>1, <2>4, FrontFacts DEF Form
    <3>2. w = SentFront(m, n) \o <<>>
      BY <3>1, EmptyFacts
    <3> QED BY <2>4, <3>2, EmptyFacts
  <2> QED BY <2>3, <2>4
<1>3. PICK f \in Strings : f = SentFront(m, i)
  BY FrontFacts
<1>4. CASE i = n
  <2>1. R = e
    BY <1>2, <1>3, <1>4, StringCancel DEF Behind
  <2>2. CASE e = <<>> /\ w # Wire(m)
    BY <1>1, <1>4, <2>1, <2>2
  <2>3. CASE e = Chunk(<<>>) /\ w = Wire(m)
    <3>1. Sizable(<<>>)
      BY DigitFacts, EmptyFacts DEF Sizable
    <3>2. ChunkThen(R, <<>>, <<>>)
      BY <2>1, <2>3, EmptyFacts DEF ChunkThen
    <3>3. NextIs(m, w, i, R, <<>>, <<>>)
      BY <1>1, <1>4, <2>3, <3>1, <3>2 DEF NextIs
    <3> QED BY <3>3, EmptyFacts
  <2> QED BY <1>2, <2>2, <2>3
<1>5. CASE i # n
  <2>1. i \in 0 .. Len(m.chunks) - 1 /\ i + 1 \in 0 .. Len(m.chunks) /\ n \in i + 1 .. Len(m.chunks)
    BY <1>1, <1>5
  <2>2. PICK d \in Strings : d = m.chunks[i + 1] /\ Sizable(d) /\ d # <<>>
    BY <2>1, FrontFacts DEF Sizable
  <2>3. PICK c \in Strings : c = Chunk(d) /\ SentFront(m, i + 1) = f \o c
    BY <1>3, <2>1, <2>2, FrontFacts
  <2>4. PICK y \in Strings : SentFront(m, n) = SentFront(m, i + 1) \o y
    <3>1. Pieces(m) \in Seq(Seq(Cells)) /\ Len(Pieces(m)) = n
      BY <1>1, PiecesFacts DEF Strings
    <3>2. PICK p \in Strings : p = Flat(Pieces(m), i + 1)
      BY <2>1, <1>1, <3>1, FlatProperties DEF Strings
    <3>3. Begins(Cells, Flat(Pieces(m), i + 1), Flat(Pieces(m), n))
      BY <1>1, <2>1, <3>1, FlatGrows
    <3>4. PICK y \in Strings : Flat(Pieces(m), n) = p \o y
      BY <3>2, <3>3 DEF Begins, Strings
    <3>5. (Header \o p) \o y = Header \o (p \o y)
      <4>1. PICK h \in Strings : h = Header
        BY HeaderFacts
      <4>2. Regroups(h, p, y)
        BY StringRegroups
      <4> QED BY <4>1, <4>2 DEF Regroups
    <3>6. SentFront(m, n) = SentFront(m, i + 1) \o y
      BY <3>2, <3>4, <3>5 DEF SentFront
    <3> QED BY <3>6
  <2>5. PICK r \in Strings : r = y \o e
    BY StringConcat
  <2>6. w = f \o (c \o r)
    <3>1. PICK g \in Strings : g = f \o c
      BY StringConcat
    <3>2. Regroups(g, y, e) /\ Regroups(f, c, r)
      BY StringRegroups
    <3> QED BY <1>2, <2>3, <2>4, <2>5, <3>1, <3>2 DEF Regroups
  <2>7. R = c \o r
    <3>1. c \o r \in Strings
      BY StringConcat
    <3> QED BY <1>3, <2>6, <3>1, StringCancel DEF Behind
  <2>8. ChunkThen(R, d, r)
    BY <2>3, <2>7 DEF ChunkThen
  <2>9. NextIs(m, w, i, R, d, r)
    BY <1>1, <1>5, <2>2, <2>8 DEF NextIs
  <2> QED BY <2>9
<1> QED BY <1>4, <1>5

-----------------------------------------------------------------------------
(***************************************************************************)
(* An answer whose text goes through Moai: how it is looked at.            *)
(***************************************************************************)

\* What came behind the header, and what there is of it.
HeaderSplit(w, x, t) ==
  /\ w = Header \o t /\ stream = Header \o x /\ t = x \o net
  /\ Len(stream) = 1 + Len(x) /\ Len(t) = Len(x) + Len(net) /\ Len(w) = 1 + Len(t)

LEMMA AfterHeader ==
  ASSUME TypeInv, NEW m \in Messages, NEW w \in Strings, Form(m, w), stream # <<>>, stream \o net = w
  PROVE  \E x, t \in Strings : HeaderSplit(w, x, t)
<1>1. stream \in Strings /\ net \in Strings
  BY DEF TypeInv, TypeStreams
<1>2. PICK t \in Strings : w = Header \o t
  BY FormFacts
<1>3. PICK x \in Strings : stream = Header \o x /\ t = x \o net
  <2>1. stream \o net = Header \o t
    BY <1>2
  <2>2. Overlap(Cells, stream, net, Header, t)
    BY <1>1, <2>1, HeaderFirst
  <2> QED BY <2>2 DEF Overlap, Strings
<1>4. Len(stream) = 1 + Len(x)
  BY <1>3, HeaderFacts, StringConcat
<1>5. Len(t) = Len(x) + Len(net)
  BY <1>1, <1>3, StringConcat
<1>6. Len(w) = 1 + Len(t)
  BY <1>2, HeaderFacts, StringConcat
<1> QED BY <1>2, <1>3, <1>4, <1>5, <1>6 DEF HeaderSplit

\* Chunks are recognised, and nothing else is.
LEMMA DetectedCoded ==
  ASSUME TypeInv, NEW m \in Messages, NEW w \in Strings, Form(m, w), m.method = "GET", ~Chunklike(m),
         stream \o net = w, Len(stream) >= 1 + CheckSize
  PROVE  Detected <=> Coded(m)
<1>1. stream \in Strings /\ net \in Strings /\ stream # <<>> /\ CheckSize \in Nat /\ CheckSize >= 3
  BY ResponseAssumption, EmptyFacts DEF TypeInv, TypeStreams
<1>2. PICK x \in Strings, t \in Strings : HeaderSplit(w, x, t)
  BY <1>1, AfterHeader
<1>3. Header \in Strings /\ Len(Header) = 1
  BY HeaderFacts
<1>4. ASSUME Detected, ~Coded(m) PROVE FALSE
  <2>1. t = Body(m)
    <3>1. Header \o t = Header \o Body(m)
      BY <1>2, <1>4, FormFacts DEF HeaderSplit
    <3> QED BY <1>3, <3>1, MessageFacts, StringCancel
  <2>2. HasLine(Header \o x, Len(Header)) /\ ~BrokenSize(SizeLine(Header \o x, Len(Header)))
    BY <1>2, <1>3, <1>4 DEF Detected, HeaderSplit
  <2>3. HasLine(x \o net, 0) /\ SizeLine(Header \o x, Len(Header)) = SizeLine(x \o net, 0)
    BY <1>1, <1>3, <2>2, SameLine
  <2>4. HasLine(Body(m), 0) /\ ~BrokenSize(SizeLine(Body(m), 0))
    BY <1>2, <2>1, <2>2, <2>3 DEF HeaderSplit
  <2> QED BY <1>4, <2>4 DEF Chunklike
<1>5. ASSUME Coded(m) PROVE Detected
  <2>1. Len(x) >= 3 /\ Len(x) \in Nat /\ Len(net) \in Nat /\ Len(t) >= 3
    <3>1. Len(x) \in Nat /\ Len(net) \in Nat
      BY <1>1, StringLen
    <3> QED BY <1>1, <1>2, <3>1 DEF HeaderSplit
  <2>2. Behind(m, w, 0, t)
    BY <1>2, <1>5, FrontFacts DEF Behind, HeaderSplit
  <2>3. 0 \in 0 .. Len(m.chunks)
    BY MessageFacts
  <2>4. t # <<>>
    BY <2>1, EmptyFacts
  <2>5. PICK d \in Strings, r \in Strings : NextIs(m, w, 0, t, d, r)
    BY <1>5, <2>2, <2>3, <2>4, NextPiece
  <2>6. ChunkThen(x \o net, d, r) /\ Sizable(d)
    BY <1>2, <2>5 DEF NextIs, HeaderSplit
  <2>7. HasLine(Header \o x, Len(Header)) /\ ~BrokenSize(SizeLine(Header \o x, Len(Header)))
    BY <1>1, <1>3, <2>1, <2>6, SizeSeen
  <2> QED BY <1>2, <1>3, <2>7 DEF Detected, HeaderSplit
<1> QED BY <1>4, <1>5

\* A step of the thread that goes on collecting.
LEMMA CollectOn ==
  ASSUME NEW m \in Messages, NEW w \in Strings, Exchange(m, w), Collecting(m), UNCHANGED server,
         UNCHANGED <<open, ridx, text, out>>,
         (Looking(m, w) \/ Measured(m, w) \/ Unbounded(m, w) \/ Chunking(m, w) \/ Ready(m))'
  PROVE  Sync'
<1>1. Exchange(m, w)' /\ asked' = asked /\ Before' = Before
  BY SameExchange
<1>2. Collecting(m)'
  BY <1>1 DEF Collecting
<1>3. Shape(m, w)'
  BY <1>2 DEF Shape
<1> QED BY <1>1, <1>3, ToAnswering

LEMMA LookingStep ==
  ASSUME ~Pipelined, TypeInv, Plain, NEW m \in Messages, NEW w \in Strings, Exchange(m, w),
         Collecting(m), Looking(m, w), Next
  PROVE  Sync'
<1>1. /\ pc = "Detect" /\ stream \o net = w /\ mark \in 1 .. Len(stream) /\ goal = 1 + CheckSize
      /\ cbegin = 1 /\ stream \in Strings /\ net \in Strings /\ Len(stream) \in Nat /\ Len(net) \in Nat
      /\ out = Before /\ m.method = "GET" /\ Form(m, w) /\ CheckSize \in Nat /\ CheckSize >= 3
  BY StringLen, ResponseAssumption DEF Looking, Collecting, Translated, TypeInv, TypeStreams, Exchange
<1>2. ~Chunklike(m)
  <2>1. asked \in DOMAIN script /\ script[asked] = m
    BY ScriptFacts, LenProperties DEF Exchange, TypeInv
  <2> QED BY <2>1 DEF Plain
<1>3. CASE RecvMore
  <2>1. stream' \o net' = w /\ Len(stream') > Len(stream) /\ stream' \in Strings /\ Len(stream') \in Nat
    BY <1>1, <1>3, Received, StringLen
  <2>2. mark \in 1 .. Len(stream')
    BY <1>1, <2>1
  <2>3. UNCHANGED server /\ UNCHANGED <<open, remain, ridx, pc, mode, cbegin, goal, mark, text, out>>
    BY <1>3 DEF RecvMore, chunk, loop
  <2>4. Looking(m, w)'
    BY <2>1, <2>2, <2>3 DEF Looking
  <2> QED BY <2>3, <2>4, CollectOn
<1>4. CASE DetectCut
  <2>1. CloseO /\ out' = out /\ UNCHANGED query /\ pc' # "Line"
    BY <1>4 DEF DetectCut
  <2> QED BY <1>1, <2>1, GiveUp
<1>5. CASE DetectDone
  <2>1. Len(stream) >= 1 + CheckSize
    BY <1>1, <1>5 DEF DetectDone
  <2>2. Detected <=> Coded(m)
    BY <1>1, <1>2, <2>1, DetectedCoded
  <2>3. stream # <<>>
    BY <1>1, <2>1, EmptyFacts
  <2>4. PICK x \in Strings, t \in Strings : HeaderSplit(w, x, t)
    BY <1>1, <2>3, AfterHeader
  <2>5. UNCHANGED server /\ UNCHANGED <<net, open, ridx, stream, mode, cbegin, text, out>>
    BY <1>5 DEF DetectDone
  <2>6. ASSUME Coded(m) PROVE Sync'
    <3>1. ContentLength(m) = 0 /\ mode = "unlimited" /\ remain = 0
      BY <1>1, <2>6 DEF ContentLength, Coded, Looking
    <3>2. remain' = 0 /\ pc' = "Chunk"
      BY <1>5, <2>2, <2>6, <3>1 DEF DetectDone
    <3>3. SentFront(m, 0) = Header /\ Assembled(m, 0) = Header
      BY <2>6, FrontFacts
    <3>4. Joined(m, w, 0, x, x \o net)'
      BY <1>1, <2>4, <2>5, <3>3, HeaderFacts DEF Joined, Behind, HeaderSplit
    <3>5. Lined(m, w, 0, x)'
      BY <2>5, <3>2, <3>4 DEF Lined
    <3>6. Chunking(m, w)'
      <4>1. 0 \in 0 .. Len(m.chunks)
        BY MessageFacts
      <4>2. Lining(m, w)'
        BY <3>2, <3>5, <4>1 DEF Lining
      <4> QED BY <2>5, <2>6, <3>1, <3>2, <4>2 DEF Chunking
    <3> QED BY <2>5, <3>6, CollectOn
  <2>7. ASSUME ~Coded(m) PROVE Sync'
    <3>1. t = Body(m)
      <4>1. Header \o t = Header \o Body(m)
        BY <1>1, <2>4, <2>7, FormFacts DEF HeaderSplit
      <4> QED BY <4>1, HeaderFacts, MessageFacts, StringCancel
    <3>2. Len(Body(m)) = Len(x) + Len(net) /\ Len(stream) = 1 + Len(x) /\ Len(x) \in Nat
          /\ Len(w) = 1 + Len(Body(m))
      BY <2>4, <3>1, StringLen DEF HeaderSplit
    <3>3. CASE mode = "unlimited"
      <4>1. Unlimited(m) /\ remain = 0
        BY <1>1, <3>3 DEF Looking
      <4>2. remain' = 0 /\ pc' = "Zero"
        BY <1>5, <2>2, <2>7, <3>3, <4>1 DEF DetectDone
      <4>3. Len(Body(m)) > 0
        BY <1>1, <2>1, <3>2
      <4>4. m.framing = "none" /\ m.ok
        BY <1>1, <2>7, <4>1, <4>3, MessageFacts DEF Unlimited, ContentLength, Coded
      <4>5. Closing(m)
        BY <1>1, <4>4 DEF Closing
      <4>6. Unbounded(m, w)'
        BY <1>1, <2>5, <2>7, <4>2, <4>5 DEF Unbounded
      <4> QED BY <2>5, <4>6, CollectOn
    <3>4. CASE mode # "unlimited"
      <4>1. ContentLength(m) > 0 /\ remain = 1 + ContentLength(m) - mark
        BY <3>4 DEF Looking
      <4>2. ContentLength(m) = Len(Body(m))
        BY <4>1 DEF ContentLength
      <4>3. pc' = "Size" /\ remain' = Less(remain, Len(stream) - mark) /\ goal' = Len(stream) + remain'
        BY <1>5, <2>2, <2>7, <3>4 DEF DetectDone
      <4>4. remain \in Nat /\ mark \in Nat /\ Len(stream) - mark \in Nat
            /\ remain - (Len(stream) - mark) = Len(net) /\ remain >= Len(stream) - mark
        BY <1>1, <3>2, <4>1, <4>2
      <4>5. remain' = Len(net)
        BY <4>3, <4>4, LessType
      <4>6. goal' = Len(w)
        BY <1>1, <3>2, <4>3, <4>5
      <4>7. Measured(m, w)'
        BY <1>1, <2>5, <4>1, <4>3, <4>6 DEF Measured
      <4> QED BY <2>5, <4>7, CollectOn
    <3> QED BY <3>3, <3>4
  <2> QED BY <2>6, <2>7
<1>6. ~ServerSend
  BY NothingElse
<1> QED BY <1>1, <1>3, <1>4, <1>5, <1>6, StepsAt DEF StepDetect

LEMMA MeasuredStep ==
  ASSUME ~Pipelined, TypeInv, NEW m \in Messages, NEW w \in Strings, Exchange(m, w),
         Collecting(m), Measured(m, w), Next
  PROVE  Sync'
<1>1. /\ pc = "Size" /\ stream \o net = w /\ goal = Len(w) /\ ContentLength(m) > 0
      /\ stream \in Strings /\ net \in Strings /\ Len(stream) \in Nat /\ Len(net) \in Nat
      /\ out = Before /\ m.method = "GET" /\ Form(m, w)
  BY StringLen DEF Measured, Collecting, Translated, TypeInv, TypeStreams, Exchange
<1>2. ~ServerSend
  BY NothingElse
<1>3. CASE RecvMore
  <2>1. stream' \o net' = w
    BY <1>1, <1>3, Received
  <2>2. UNCHANGED server /\ UNCHANGED <<open, remain, ridx, pc, goal, text, out>>
    BY <1>3 DEF RecvMore, loop
  <2>3. Measured(m, w)'
    BY <1>1, <2>1, <2>2 DEF Measured
  <2> QED BY <2>2, <2>3, CollectOn
<1>4. CASE SizeCut
  <2>1. CloseO /\ out' = out /\ UNCHANGED query /\ pc' # "Line"
    BY <1>4 DEF SizeCut
  <2> QED BY <1>1, <2>1, GiveUp
<1>5. CASE SizeDone
  <2>1. UNCHANGED server /\ UNCHANGED <<net, open, ridx, stream, text, out>> /\ remain' = 0 /\ pc' = "Reply"
        /\ Len(stream) >= Len(w)
    BY <1>1, <1>5 DEF SizeDone
  <2>2. net = <<>> /\ stream = w
    <3>1. Len(w) = Len(stream) + Len(net)
      BY <1>1, StringConcat
    <3>2. Len(net) = 0
      BY <1>1, <2>1, <3>1
    <3>3. net = <<>>
      BY <1>1, <3>2, EmptyFacts
    <3> QED BY <1>1, <3>3, EmptyFacts
  <2>3. ~Coded(m)
    BY <1>1 DEF ContentLength, Coded
  <2>4. w = Header \o Body(m)
    BY <1>1, <2>3, FormFacts
  <2>5. Ready(m)'
    BY <2>1, <2>2, <2>4 DEF Ready
  <2> QED BY <2>1, <2>5, CollectOn
<1> QED BY <1>1, <1>2, <1>3, <1>4, <1>5, StepsAt DEF StepSize

LEMMA UnboundedStep ==
  ASSUME ~Pipelined, TypeInv, NEW m \in Messages, NEW w \in Strings, Exchange(m, w),
         Collecting(m), Unbounded(m, w), Next
  PROVE  Sync'
<1>1. /\ pc = "Zero" /\ stream \o net = w /\ remain = 0 /\ ~Coded(m) /\ Closing(m)
      /\ stream \in Strings /\ net \in Strings
      /\ out = Before /\ m.method = "GET" /\ Form(m, w)
  BY DEF Unbounded, Collecting, Translated, TypeInv, TypeStreams, Exchange
<1>2. ~ServerSend
  BY NothingElse
<1>3. CASE RecvMore
  <2>1. stream' \o net' = w
    BY <1>1, <1>3, Received
  <2>2. UNCHANGED server /\ UNCHANGED <<open, remain, ridx, pc, text, out>>
    BY <1>3 DEF RecvMore
  <2>3. Unbounded(m, w)'
    BY <1>1, <2>1, <2>2 DEF Unbounded
  <2> QED BY <2>2, <2>3, CollectOn
<1>4. CASE ZeroCut
  <2>1. CloseO /\ out' = out /\ UNCHANGED query /\ pc' # "Line"
    BY <1>4 DEF ZeroCut
  <2> QED BY <1>1, <2>1, GiveUp
<1>5. CASE ZeroDone
  <2>1. UNCHANGED server /\ UNCHANGED <<net, open, remain, ridx, stream, text, out>> /\ pc' = "Reply"
        /\ net = <<>>
    BY <1>5 DEF ZeroDone, RecvZero
  <2>2. stream = w
    BY <1>1, <2>1, EmptyFacts
  <2>3. w = Header \o Body(m)
    BY <1>1, FormFacts
  <2>4. Ready(m)'
    BY <1>1, <2>1, <2>2, <2>3 DEF Ready
  <2> QED BY <2>1, <2>4, CollectOn
<1> QED BY <1>1, <1>2, <1>3, <1>4, <1>5, StepsAt DEF StepZero

\* The whole body is sent under its length.
LEMMA ReadyStep ==
  ASSUME ~Pipelined, TypeInv, NEW m \in Messages, NEW w \in Strings, Exchange(m, w),
         Collecting(m), Ready(m), Next
  PROVE  Sync'
<1>1. Reply
  BY NothingElse, StepsAt DEF Ready, StepReply
<1>2. SubSeq(stream, 2, Len(stream)) = Body(m)
  <2>1. SubSeq(Header \o Body(m), Len(Header) + 1, Len(Header \o Body(m))) = Body(m)
    BY HeaderFacts, MessageFacts, Halves DEF Strings
  <2>2. Len(Header) + 1 = 2
    BY HeaderFacts
  <2> QED BY <2>1, <2>2 DEF Ready
<1>3. out' = Before \o Expected(m)
  <2>1. open /\ text /\ out = Before /\ Translated(m)
    BY DEF Collecting
  <2>2. out' = out \o Headed(Len(Body(m)), Body(m))
    BY <1>1, <1>2, <2>1 DEF Reply
  <2> QED BY <2>1, <2>2 DEF Expected
<1>4. out' = After /\ sent = asked
  BY <1>3, BeforeAfter DEF Exchange
<1>5. UNCHANGED server /\ UNCHANGED <<net, remain, ridx>> /\ pc' = "Select"
  BY <1>1 DEF Reply
<1>6. Waiting'
  BY <1>4, <1>5 DEF Waiting, Ready, Collecting, After, server, query
<1> QED BY <1>6 DEF Sync

-----------------------------------------------------------------------------
(***************************************************************************)
(* How chunks are put together.                                            *)
(***************************************************************************)

\* Of a stream that has grown, the beginning is as it was.
LEMMA SameBeginning ==
  ASSUME NEW a \in Strings, NEW b \in Strings, NEW n \in Nat, n <= Len(a)
  PROVE  SubSeq(a \o b, 1, n) = SubSeq(a, 1, n)
<1>1. PICK x \in Strings : x = SubSeq(a, 1, n) /\ Len(x) = n
  BY StringCut
<1>2. PICK y \in Strings : x \o y = a
  BY <1>1, StringCut
<1>3. PICK z \in Strings : z = y \o b
  BY StringConcat
<1>4. SubSeq(x \o z, 1, Len(x)) = x
  BY Halves DEF Strings
<1>5. a \o b = x \o z
  <2>1. Regroups(x, y, b)
    BY StringRegroups
  <2> QED BY <1>2, <1>3, <2>1 DEF Regroups
<1> QED BY <1>1, <1>4, <1>5

\* Where no line is seen behind the chunks, nothing or not enough has come.
LEMMA NothingBehind ==
  ASSUME NEW f \in Strings, NEW q \in Strings, NEW u \in Strings, q \o u = <<>>
  PROVE  q = <<>> /\ u = <<>> /\ ~HasLine(f \o q, Len(f))
<1>1. q = <<>> /\ u = <<>>
  <2>1. Len(q \o u) = Len(q) + Len(u) /\ Len(q) \in Nat /\ Len(u) \in Nat
    BY StringConcat, StringLen
  <2>2. Len(q) = 0 /\ Len(u) = 0
    BY <2>1, EmptyFacts
  <2> QED BY <2>2, EmptyFacts
<1>2. f \o q = f
  BY <1>1, EmptyFacts
<1>3. LineEnds(f, Len(f)) = {}
  <2>1. Len(f) + 1 .. Len(f) = {}
    BY StringLen
  <2> QED BY <2>1 DEF LineEnds
<1> QED BY <1>1, <1>2, <1>3 DEF HasLine

\* What a size line tells, when it is there.
LineSays(q, d) ==
  /\ Len(q) >= 3 /\ Len(SizeLine(stream, cbegin)) = 1
  /\ ~BrokenSize(SizeLine(stream, cbegin)) /\ SizeOf(SizeLine(stream, cbegin)) = Len(d)

LEMMA LinedFacts ==
  ASSUME TypeInv, NEW m \in Messages, Coded(m), NEW w \in Strings, Form(m, w),
         NEW i \in 0 .. Len(m.chunks), NEW q \in Strings, Joined(m, w, i, q, q \o net)
  PROVE  /\ Assembled(m, i) \in Strings /\ stream = Assembled(m, i) \o q /\ cbegin = Len(Assembled(m, i))
         /\ \/ /\ i = Len(m.chunks) /\ q = <<>> /\ net = <<>> /\ w # Wire(m)
               /\ ~HasLine(stream, cbegin)
            \/ \E d, r \in Strings :
                 /\ NextIs(m, w, i, q \o net, d, r)
                 /\ Len(q) >= 3 => HasLine(stream, cbegin)
                 /\ HasLine(stream, cbegin) => LineSays(q, d)
<1>1. net \in Strings
  BY DEF TypeInv, TypeStreams
<1>2. PICK f \in Strings : f = Assembled(m, i)
  BY FrontFacts
<1>3. stream = f \o q /\ cbegin = Len(f) /\ Behind(m, w, i, q \o net)
  BY <1>2 DEF Joined
<1>4. PICK R \in Strings : R = q \o net
  BY <1>1, StringConcat
<1>5. \/ i = Len(m.chunks) /\ R = <<>> /\ w # Wire(m)
      \/ \E d, r \in Strings : NextIs(m, w, i, R, d, r)
  BY <1>3, <1>4, NextPiece
<1>6. CASE i = Len(m.chunks) /\ R = <<>> /\ w # Wire(m)
  BY <1>1, <1>2, <1>3, <1>4, <1>6, NothingBehind
<1>7. CASE \E d, r \in Strings : NextIs(m, w, i, R, d, r)
  <2>1. PICK d \in Strings, r \in Strings : NextIs(m, w, i, R, d, r)
    BY <1>7
  <2>2. ChunkThen(q \o net, d, r) /\ Sizable(d)
    BY <1>4, <2>1 DEF NextIs
  <2>3. /\ Len(q) >= 3 => HasLine(f \o q, Len(f))
        /\ HasLine(f \o q, Len(f)) =>
             /\ Len(q) >= 3 /\ Len(SizeLine(f \o q, Len(f))) = 1
             /\ ~BrokenSize(SizeLine(f \o q, Len(f)))
             /\ SizeOf(SizeLine(f \o q, Len(f))) = Len(d)
    BY <1>1, <2>2, SizeSeen
  <2>4. Len(q) >= 3 => HasLine(stream, cbegin)
    BY <1>3, <2>3
  <2>5. HasLine(stream, cbegin) => LineSays(q, d)
    BY <1>3, <2>3 DEF LineSays
  <2> QED BY <1>2, <1>3, <1>4, <2>1, <2>4, <2>5
<1> QED BY <1>5, <1>6, <1>7

\* The size line is cut out.
LEMMA CutLine ==
  ASSUME TypeInv, NEW m \in Messages, Coded(m), NEW w \in Strings, Form(m, w),
         NEW i \in 0 .. Len(m.chunks), NEW q \in Strings, Joined(m, w, i, q, q \o net),
         ChunkSize
  PROVE  \E p, d, r \in Strings : Filled(m, w, i, p, d, r)'
<1>1. PICK f \in Strings : f = Assembled(m, i) /\ stream = f \o q /\ cbegin = Len(f)
  BY LinedFacts
<1>2. HasLine(stream, cbegin)
  BY DEF ChunkSize
<1>3. PICK d \in Strings, r \in Strings : NextIs(m, w, i, q \o net, d, r) /\ LineSays(q, d)
  BY <1>2, LinedFacts
<1>4. /\ stream' = Erased(stream, cbegin, Len(SizeLine(stream, cbegin)) + 2)
      /\ csize' = SizeOf(SizeLine(stream, cbegin)) /\ goal' = cbegin + SizeOf(SizeLine(stream, cbegin)) + 2
      /\ UNCHANGED <<net, cbegin>>
  BY DEF ChunkSize
<1>5. net \in Strings /\ Sizable(d) /\ q \o net = Chunk(d) \o r
  BY <1>3 DEF NextIs, ChunkThen, TypeInv, TypeStreams
<1>6. PICK c \in Strings : c = SizeFront(d) /\ Len(c) = 3
  BY <1>5, ChunkFacts
<1>7. PICK x \in Strings : x = d \o CRLF
  BY CRLFFacts, StringConcat
<1>8. PICK y \in Strings : y = x \o r
  BY StringConcat
<1>9. q \o net = c \o y
  <2>1. Chunk(d) = c \o x
    BY <1>5, <1>6, <1>7, ChunkFacts
  <2>2. Regroups(c, x, r)
    BY StringRegroups
  <2> QED BY <1>5, <1>8, <2>1, <2>2 DEF Regroups
<1>10. PICK p \in Strings : q = c \o p /\ y = p \o net
  <2>1. Len(c) <= Len(q)
    BY <1>3, <1>6 DEF LineSays
  <2>2. Overlap(Cells, q, net, c, y)
    BY <1>5, <1>9, <2>1, StringSplit
  <2> QED BY <2>2 DEF Overlap, Strings
<1>11. stream' = f \o p
  <2>1. stream' = Erased(f \o (c \o p), Len(f), Len(c))
    <3>1. Len(SizeLine(stream, cbegin)) + 2 = 3
      BY <1>3 DEF LineSays
    <3> QED BY <1>1, <1>4, <1>6, <1>10, <3>1
  <2> QED BY <2>1, EraseBehind
<1>12. csize' = Len(d) /\ goal' = cbegin' + csize' + 2
  BY <1>3, <1>4 DEF LineSays
<1>13. Joined(m, w, i, p, Chunk(d) \o r)'
  <2>1. Behind(m, w, i, Chunk(d) \o r)
    BY <1>5 DEF Joined
  <2> QED BY <1>1, <1>4, <1>11, <2>1 DEF Joined
<1>14. NextIs(m, w, i, Chunk(d) \o r, d, r)
  BY <1>3, <1>5
<1>15. p \o net' = (d \o CRLF) \o r
  BY <1>4, <1>7, <1>8, <1>10
<1> QED BY <1>12, <1>13, <1>14, <1>15 DEF Filled

\* The reader ends with nothing left of the declared length, of which there is none.
LEMMA NothingRemains ==
  ASSUME TypeInv', remain = 0, ChunkEnd(FALSE, total')
  PROVE  remain' = 0 /\ pc' = "Reply"
<1>1. PICK n \in Nat : n = total'
  BY DEF TypeInv, TypeNumbers
<1>2. Less(0, n) = 0
  BY LessType
<1> QED BY <1>1, <1>2 DEF ChunkEnd

LEMMA LiningStep ==
  ASSUME ~Pipelined, TypeInv, NEW m \in Messages, NEW w \in Strings, Exchange(m, w),
         Collecting(m), Coded(m), remain = 0, mode \in {"chunked", "unlimited"}, Lining(m, w), Next
  PROVE  Sync'
<1>1. PICK i \in 0 .. Len(m.chunks), q \in Strings : Lined(m, w, i, q)
  BY DEF Lining
<1>2. /\ Joined(m, w, i, q, q \o net) /\ Form(m, w) /\ out = Before /\ ~ServerSend
      /\ stream \in Strings /\ net \in Strings /\ pc \in {"Chunk", "ChunkWait"}
  BY <1>1, NothingElse DEF Lined, Lining, Collecting, Exchange, TypeInv, TypeStreams
<1>3. PICK f \in Strings : f = Assembled(m, i) /\ stream = f \o q /\ cbegin = Len(f)
  BY <1>2, LinedFacts
<1>4. Len(stream) = cbegin + Len(q) /\ Len(q) \in Nat /\ cbegin \in Nat /\ Len(stream) \in Nat
  BY <1>3, StringConcat, StringLen
<1>5. ASSUME UNCHANGED <<net, stream, cbegin, remain, mode>>, pc' = "Chunk"
      PROVE  Chunking(m, w)'
  <2>1. Lined(m, w, i, q)'
    BY <1>1, <1>5 DEF Lined, Joined
  <2>2. Lining(m, w)'
    BY <1>5, <2>1 DEF Lining
  <2> QED BY <1>5, <2>2 DEF Chunking
<1>6. CASE ChunkSize
  <2>1. \E p, d, r \in Strings : Filled(m, w, i, p, d, r)'
    BY <1>2, <1>6, CutLine
  <2>2. UNCHANGED server /\ UNCHANGED <<open, remain, ridx, mode, text, out>> /\ pc' = "ChunkData"
    BY <1>6 DEF ChunkSize
  <2>3. Filling(m, w)'
    BY <2>1, <2>2 DEF Filling
  <2>4. Chunking(m, w)'
    BY <2>2, <2>3 DEF Chunking
  <2> QED BY <2>2, <2>4, CollectOn
<1>7. CASE ChunkBroken
  BY <1>2, <1>7, LinedFacts DEF ChunkBroken, LineSays
<1>8. CASE ChunkLineAbsent
  <2>1. /\ UNCHANGED server /\ UNCHANGED <<net, open, remain, ridx, stream, mode, cbegin, text, out>>
        /\ pc' = "ChunkWait" /\ mark' = Len(stream) /\ ~HasLine(stream, cbegin)
    BY <1>8 DEF ChunkLineAbsent, chunk
  <2>2. SubSeq(stream, 1, Len(stream)) = stream
    BY <1>2, SubSeqFull DEF Strings
  <2>3. mark' \in cbegin .. Len(stream)
    BY <1>4, <2>1
  <2>4. Lined(m, w, i, q)'
    BY <1>2, <2>1, <2>2, <2>3 DEF Lined, Joined
  <2>5. Lining(m, w)'
    BY <2>1, <2>4 DEF Lining
  <2>6. Chunking(m, w)'
    BY <2>1, <2>5 DEF Chunking
  <2> QED BY <2>1, <2>6, CollectOn
<1>9. CASE RecvMore
  <2>1. /\ UNCHANGED server /\ UNCHANGED <<open, remain, ridx, pc, mode, cbegin, mark, text, out>>
        /\ pc = "ChunkWait"
    BY <1>2, <1>9 DEF RecvMore, chunk, loop, NeedsMore, Sized
  <2>2. PICK s \in Strings : stream' = stream \o s /\ net = s \o net' /\ net' \in Strings
    BY <1>9, Received
  <2>3. PICK p \in Strings : p = q \o s
    BY StringConcat
  <2>4. stream' = f \o p
    <3>1. Regroups(f, q, s)
      BY StringRegroups
    <3> QED BY <1>3, <2>2, <2>3, <3>1 DEF Regroups
  <2>5. p \o net' = q \o net
    <3>1. PICK y \in Strings : y = net'
      BY <2>2
    <3>2. Regroups(q, s, y)
      BY StringRegroups
    <3> QED BY <2>2, <2>3, <3>1, <3>2 DEF Regroups
  <2>6. Joined(m, w, i, p, p \o net)'
    BY <1>2, <1>3, <2>1, <2>4, <2>5 DEF Joined
  <2>7. mark \in cbegin .. Len(stream) /\ mark \in Nat /\ ~HasLine(SubSeq(stream, 1, mark), cbegin)
    BY <1>1, <1>4, <2>1 DEF Lined
  <2>8. SubSeq(stream', 1, mark) = SubSeq(stream, 1, mark)
    BY <1>2, <2>2, <2>7, SameBeginning
  <2>9. mark \in cbegin .. Len(stream')
    <3>1. Len(stream') = Len(stream) + Len(s) /\ Len(s) \in Nat
      BY <1>2, <2>2, StringConcat, StringLen
    <3> QED BY <1>4, <2>7, <3>1
  <2>10. Lined(m, w, i, p)'
    BY <2>1, <2>6, <2>7, <2>8, <2>9 DEF Lined
  <2>11. Lining(m, w)'
    BY <2>1, <2>10 DEF Lining
  <2>12. Chunking(m, w)'
    BY <2>1, <2>11 DEF Chunking
  <2> QED BY <2>1, <2>12, CollectOn
<1>10. CASE ChunkLineCame
  <2>1. UNCHANGED server /\ UNCHANGED <<net, open, remain, ridx, stream, mode, cbegin, text, out>> /\ pc' = "Chunk"
    BY <1>10 DEF ChunkLineCame
  <2> QED BY <1>5, <2>1, CollectOn
<1>11. CASE ChunkLineEof
  <2>1. UNCHANGED server /\ UNCHANGED <<net, open, ridx, stream, mode, cbegin, text, out>> /\ net = <<>>
    BY <1>11 DEF ChunkLineEof, RecvZero
  <2>2. CASE HasLine(stream, cbegin)
    <3>1. pc' = "Chunk" /\ remain' = remain
      BY <1>11, <2>2 DEF ChunkLineEof
    <3> QED BY <1>5, <2>1, <3>1, CollectOn
  <2>3. CASE ~HasLine(stream, cbegin)
    <3>1. ChunkEnd(FALSE, total') /\ TypeInv'
      BY <1>11, <2>3, TypeStep DEF ChunkLineEof
    <3>2. remain' = 0 /\ pc' = "Reply"
      BY <3>1, NothingRemains
    <3>3. i = Len(m.chunks) /\ q = <<>>
      <4>1. SUFFICES ASSUME NEW d \in Strings, NEW r \in Strings, NextIs(m, w, i, q \o net, d, r)
                     PROVE  Len(q) >= 3
        BY <1>2, <2>3, LinedFacts
      <4>2. q \o net = q
        BY <2>1, EmptyFacts
      <4>3. ChunkThen(q, d, r) /\ Sizable(d)
        BY <4>1, <4>2 DEF NextIs
      <4>4. Len(q) >= 5
        BY <4>3, ChunkLine
      <4> QED BY <1>4, <4>4
    <3>4. stream = Header \o Body(m)
      BY <1>3, <3>3, FrontFacts, EmptyFacts
    <3>5. Ready(m)'
      BY <2>1, <3>2, <3>4 DEF Ready
    <3> QED BY <2>1, <3>5, CollectOn
  <2> QED BY <2>2, <2>3
<1>12. CASE ChunkLineCut
  <2>1. CloseO /\ out' = out /\ UNCHANGED query /\ pc' # "Line"
    BY <1>12 DEF ChunkLineCut, ChunkEnd
  <2> QED BY <1>2, <2>1, GiveUp
<1>13. CASE pc = "Chunk"
  BY <1>2, <1>6, <1>7, <1>8, <1>13, StepsAt DEF StepChunk
<1>14. CASE pc = "ChunkWait"
  BY <1>2, <1>9, <1>10, <1>11, <1>12, <1>14, StepsAt DEF StepChunkWait
<1> QED BY <1>2, <1>13, <1>14

\* The line end behind a chunk that has come is cut out.
TailCut(f, d, r, p) == r = p \o net /\ ChunkTail = (f \o d) \o p

LEMMA CutTail ==
  ASSUME TypeInv, NEW f \in Strings, NEW q \in Strings, NEW d \in Strings, NEW r \in Strings,
         stream = f \o q, cbegin = Len(f), csize = Len(d), q \o net = (d \o CRLF) \o r,
         Len(stream) >= cbegin + csize + 2
  PROVE  \E p \in Strings : TailCut(f, d, r, p)
<1>1. net \in Strings /\ CRLF \in Strings /\ Len(CRLF) = 2
  BY CRLFFacts DEF TypeInv, TypeStreams
<1>2. PICK x \in Strings : x = d \o CRLF /\ Len(x) = Len(d) + 2
  <2>1. d \o CRLF \in Strings /\ Len(d \o CRLF) = Len(d) + Len(CRLF)
    BY <1>1, StringConcat
  <2>2. Len(d \o CRLF) = Len(d) + 2
    BY <1>1, <2>1
  <2> QED BY <2>1, <2>2
<1>3. Len(f) \in Nat /\ Len(q) \in Nat /\ Len(d) \in Nat /\ Len(stream) = Len(f) + Len(q)
  BY StringConcat, StringLen
<1>4. Len(x) <= Len(q)
  BY <1>2, <1>3
<1>5. Overlap(Cells, q, net, x, r)
  <2>1. q \o net = x \o r
    BY <1>2
  <2> QED BY <1>1, <1>4, <2>1, StringSplit
<1>6. PICK p \in Strings : q = x \o p /\ r = p \o net
  BY <1>5 DEF Overlap, Strings
<1>7. PICK y \in Strings : y = CRLF \o p
  BY <1>1, StringConcat
<1>8. PICK g \in Strings : g = f \o d /\ Len(g) = Len(f) + Len(d)
  BY StringConcat
<1>9. stream = g \o (CRLF \o p)
  <2>1. x \o p = d \o y
    <3>1. Regroups(d, CRLF, p)
      BY <1>1, StringRegroups
    <3> QED BY <1>2, <1>7, <3>1 DEF Regroups
  <2>2. Regroups(f, d, y)
    BY StringRegroups
  <2> QED BY <1>6, <1>7, <1>8, <2>1, <2>2 DEF Regroups
<1>10. Erased(g \o (CRLF \o p), Len(g), Len(CRLF)) = g \o p
  BY <1>1, EraseBehind, ZenonT(40)
<1>11. ChunkTail = g \o p
  BY <1>1, <1>8, <1>9, <1>10 DEF ChunkTail
<1> QED BY <1>6, <1>8, <1>11 DEF TailCut

LEMMA FillingStep ==
  ASSUME ~Pipelined, TypeInv, NEW m \in Messages, NEW w \in Strings, Exchange(m, w),
         Collecting(m), Coded(m), remain = 0, mode \in {"chunked", "unlimited"}, Filling(m, w), Next
  PROVE  Sync'
<1>1. PICK i \in 0 .. Len(m.chunks), q \in Strings, d \in Strings, r \in Strings : Filled(m, w, i, q, d, r)
  BY DEF Filling
<1>2. /\ Joined(m, w, i, q, Chunk(d) \o r) /\ NextIs(m, w, i, Chunk(d) \o r, d, r)
      /\ q \o net = (d \o CRLF) \o r /\ csize = Len(d) /\ goal = cbegin + csize + 2
      /\ Form(m, w) /\ out = Before /\ ~ServerSend
      /\ stream \in Strings /\ net \in Strings /\ pc = "ChunkData"
  BY <1>1, NothingElse DEF Filled, Filling, Collecting, Exchange, TypeInv, TypeStreams
<1>3. PICK f \in Strings : f = Assembled(m, i) /\ stream = f \o q /\ cbegin = Len(f)
  BY <1>2, FrontFacts DEF Joined
<1>4. CASE RecvMore
  <2>1. UNCHANGED server /\ UNCHANGED <<open, remain, ridx, pc, mode, cbegin, csize, goal, mark, text, out>>
    BY <1>4 DEF RecvMore, chunk, loop
  <2>2. PICK s \in Strings : stream' = stream \o s /\ net = s \o net' /\ net' \in Strings
    BY <1>4, Received
  <2>3. PICK p \in Strings : p = q \o s
    BY StringConcat
  <2>4. stream' = f \o p
    <3>1. Regroups(f, q, s)
      BY StringRegroups
    <3> QED BY <1>3, <2>2, <2>3, <3>1 DEF Regroups
  <2>5. p \o net' = q \o net
    <3>1. PICK y \in Strings : y = net'
      BY <2>2
    <3>2. Regroups(q, s, y)
      BY StringRegroups
    <3> QED BY <2>2, <2>3, <3>1, <3>2 DEF Regroups
  <2>6. Joined(m, w, i, p, Chunk(d) \o r)'
    BY <1>2, <1>3, <2>1, <2>4 DEF Joined
  <2>7. p \o net' = (d \o CRLF) \o r
    BY <1>2, <2>5
  <2>8. Filled(m, w, i, p, d, r)'
    BY <1>2, <2>1, <2>6, <2>7 DEF Filled
  <2>9. Filling(m, w)'
    BY <1>2, <2>1, <2>8 DEF Filling
  <2>10. Chunking(m, w)'
    BY <2>1, <2>9 DEF Chunking
  <2> QED BY <2>1, <2>10, CollectOn
<1>5. CASE ChunkDataCut
  <2>1. CloseO /\ out' = out /\ UNCHANGED query /\ pc' # "Line"
    BY <1>5 DEF ChunkDataCut, ChunkNext, ChunkEnd
  <2> QED BY <1>2, <2>1, GiveUp
<1>6. CASE ChunkData
  <2>1. /\ UNCHANGED server /\ UNCHANGED <<net, open, ridx, mode, text, out>>
        /\ Len(stream) >= cbegin + csize + 2 /\ stream' = ChunkTail
    BY <1>2, <1>6 DEF ChunkData, ChunkNext
  <2>2. PICK p \in Strings : r = p \o net /\ stream' = (f \o d) \o p
    <3>1. PICK p \in Strings : TailCut(f, d, r, p)
      BY <1>2, <1>3, <2>1, CutTail
    <3> QED BY <2>1, <3>1 DEF TailCut
  <2>3. CASE csize = 0
    <3>1. d = <<>>
      BY <1>2, <2>3, EmptyFacts
    <3>2. i = Len(m.chunks) /\ r = <<>>
      BY <1>2, <3>1 DEF NextIs
    <3>3. p = <<>> /\ net = <<>>
      <4>1. p \o net = <<>>
        BY <2>2, <3>2
      <4> QED BY <1>2, <4>1, NothingBehind
    <3>4. stream' = Header \o Body(m)
      <4>1. f \o d = f
        BY <3>1, EmptyFacts
      <4>2. stream' = f
        BY <2>2, <3>3, <4>1, EmptyFacts
      <4> QED BY <1>3, <3>2, <4>2, FrontFacts
    <3>5. ChunkEnd(FALSE, total') /\ TypeInv'
      <4>1. ~(csize > 0)
        BY <2>3
      <4> QED BY <1>6, <4>1, TypeStep DEF ChunkData, ChunkNext
    <3>6. remain' = 0 /\ pc' = "Reply"
      BY <3>5, NothingRemains
    <3>7. Ready(m)'
      BY <2>1, <3>3, <3>4, <3>6 DEF Ready
    <3> QED BY <2>1, <3>7, CollectOn
  <2>4. CASE csize # 0
    <3>1. i # Len(m.chunks) /\ d = m.chunks[i + 1]
      BY <1>2, <2>4, EmptyFacts DEF NextIs
    <3>2. i \in 0 .. Len(m.chunks) - 1 /\ i + 1 \in 0 .. Len(m.chunks)
      BY <3>1, MessageFacts
    <3>3. cbegin' = cbegin + csize /\ pc' = "Chunk" /\ remain' = remain
      BY <1>6, <2>4 DEF ChunkData, ChunkNext
    <3>4. PICK c \in Strings : c = Chunk(d)
      BY <3>1, <3>2, FrontFacts
    <3>5. PICK g \in Strings : g = SentFront(m, i)
      BY FrontFacts
    <3>6. Assembled(m, i + 1) = f \o d /\ SentFront(m, i + 1) = g \o c
      BY <1>3, <3>1, <3>2, <3>4, <3>5, FrontFacts
    <3>7. Behind(m, w, i + 1, p \o net)
      <4>1. w = g \o (c \o r)
        BY <1>2, <3>4, <3>5 DEF Joined, Behind
      <4>2. Regroups(g, c, r)
        BY StringRegroups
      <4> QED BY <2>2, <3>6, <4>1, <4>2 DEF Behind, Regroups
    <3>8. cbegin' = Len(Assembled(m, i + 1))
      <4>1. Len(f \o d) = Len(f) + Len(d)
        BY StringConcat
      <4> QED BY <1>2, <1>3, <3>3, <3>6, <4>1
    <3>9. Joined(m, w, i + 1, p, p \o net)'
      BY <2>1, <2>2, <3>6, <3>7, <3>8 DEF Joined
    <3>10. Lined(m, w, i + 1, p)'
      BY <2>1, <3>3, <3>9 DEF Lined
    <3>11. Lining(m, w)'
      BY <3>2, <3>3, <3>10 DEF Lining
    <3>12. Chunking(m, w)'
      BY <2>1, <3>3, <3>11 DEF Chunking
    <3> QED BY <2>1, <3>12, CollectOn
  <2> QED BY <2>3, <2>4
<1> QED BY <1>2, <1>4, <1>5, <1>6, StepsAt DEF StepChunkData

\* Plain conversations stay in step.
LEMMA SyncStep ==
  ASSUME ~Pipelined, TypeInv, Plain, Sync, Next
  PROVE  Sync'
<1>1. CASE Answering
  <2>1. PICK m \in Messages, w \in Strings : Exchange(m, w) /\ Shape(m, w)
    BY <1>1 DEF Answering
  <2>2. CASE Arriving(m, w)
    BY <2>1, <2>2, ArrivingStep
  <2>3. CASE Passing(m, w)
    BY <2>1, <2>3, PassingStep
  <2>4. CASE Collecting(m) /\ Looking(m, w)
    BY <2>1, <2>4, LookingStep
  <2>5. CASE Collecting(m) /\ Measured(m, w)
    BY <2>1, <2>5, MeasuredStep
  <2>6. CASE Collecting(m) /\ Unbounded(m, w)
    BY <2>1, <2>6, UnboundedStep
  <2>7. CASE Collecting(m) /\ Chunking(m, w)
    BY <2>1, <2>7, LiningStep, FillingStep DEF Chunking
  <2>8. CASE Collecting(m) /\ Ready(m)
    BY <2>1, <2>8, ReadyStep
  <2> QED BY <2>1, <2>2, <2>3, <2>4, <2>5, <2>6, <2>7, <2>8 DEF Shape
<1>2. CASE Lost
  <2>1. Lost'
    BY <1>2, LostStep
  <2> QED BY <2>1 DEF Sync
<1> QED BY <1>1, <1>2, WaitingStep, RequestedStep DEF Sync

-----------------------------------------------------------------------------
(***************************************************************************)
(* What the browser has, and what is still to come.                        *)
(***************************************************************************)

SyncInv == TypeInv /\ (Plain => Sync)

LEMMA SyncInit ==
  ASSUME Init
  PROVE  SyncInv /\ Waiting
<1>1. TypeInv
  BY TypeInit
<1>2. After = <<>>
  <2>1. script \in Seq(Messages) /\ asked = 0
    BY <1>1, ScriptFacts DEF TypeInv, Init
  <2> QED BY <2>1, AnswersFacts DEF After
<1>3. Waiting
  BY <1>2 DEF Init, Waiting
<1> QED BY <1>1, <1>3 DEF SyncInv, Sync

LEMMA ScriptStays ==
  ASSUME Next
  PROVE  UNCHANGED <<script, faults>>
BY DEF Next, Ask, ServerSend, Receive, FirstBody, FirstRecv, FirstEof, RecvMore, Scan, LineCut, LineBody,
       LineHead, Chunks, ChunkSize, ChunkBroken, ChunkLineAbsent, ChunkLineCame, ChunkLineEof,
       ChunkLineCut, ChunkData, ChunkDataCut, Whole, DetectDone, DetectCut, SizeDone, SizeCut,
       ZeroDone, ZeroCut, Reply, query, server

LEMMA ShapeStutter ==
  ASSUME NEW m, NEW w, Shape(m, w), UNCHANGED vars
  PROVE  Shape(m, w)'
<1>1. /\ UNCHANGED <<script, faults, asked, sent, net, eof, errno, open, remain, ridx, pc, stream>>
      /\ UNCHANGED <<mode, total, cbegin, csize, goal, mark, text, out>>
  BY DEF vars
<1>2. Before' = Before
  BY <1>1 DEF Before
<1>3. Arriving(m, w) => Arriving(m, w)'
  BY <1>1, <1>2 DEF Arriving
<1>4. Passing(m, w) => Passing(m, w)'
  <2>1. \A p : Passed(m, w, p)' <=> Passed(m, w, p)
    BY <1>1, <1>2 DEF Passed
  <2> QED BY <1>1, <2>1 DEF Passing
<1>5. Collecting(m) => Collecting(m)'
  BY <1>1, <1>2 DEF Collecting
<1>6. /\ Looking(m, w) => Looking(m, w)'
      /\ Measured(m, w) => Measured(m, w)'
      /\ Unbounded(m, w) => Unbounded(m, w)'
      /\ Ready(m) => Ready(m)'
  BY <1>1 DEF Looking, Measured, Unbounded, Ready
<1>7. Chunking(m, w) => Chunking(m, w)'
  <2>1. \A i, q : Lined(m, w, i, q)' <=> Lined(m, w, i, q)
    BY <1>1 DEF Lined, Joined
  <2>2. \A i, q, d, r : Filled(m, w, i, q, d, r)' <=> Filled(m, w, i, q, d, r)
    BY <1>1 DEF Filled, Joined
  <2>3. Lining(m, w) => Lining(m, w)'
    BY <1>1, <2>1 DEF Lining
  <2>4. Filling(m, w) => Filling(m, w)'
    BY <1>1, <2>2 DEF Filling
  <2> QED BY <1>1, <2>3, <2>4 DEF Chunking
<1> QED BY <1>3, <1>4, <1>5, <1>6, <1>7 DEF Shape

LEMMA SyncStutter ==
  ASSUME Sync, UNCHANGED vars
  PROVE  Sync'
<1>1. /\ UNCHANGED <<script, faults, asked, sent, net, eof, errno, open, remain, ridx, pc, stream>>
      /\ UNCHANGED <<mode, total, cbegin, csize, goal, mark, text, out>>
  BY DEF vars
<1>2. Before' = Before /\ After' = After
  BY <1>1 DEF Before, After
<1>3. CASE Waiting
  <2>1. Waiting'
    BY <1>1, <1>2, <1>3 DEF Waiting
  <2> QED BY <2>1 DEF Sync
<1>4. CASE Requested
  <2>1. Requested'
    BY <1>1, <1>2, <1>4 DEF Requested
  <2> QED BY <2>1 DEF Sync
<1>5. CASE Answering
  <2>1. PICK m \in Messages, w \in Strings : Exchange(m, w) /\ Shape(m, w)
    BY <1>5 DEF Answering
  <2>2. Exchange(m, w)'
    BY <1>1, <2>1, SameExchange DEF server, query
  <2> QED BY <2>1, <2>2, ShapeStutter, ToAnswering
<1>6. CASE Lost
  <2>1. Lost'
    BY <1>1, <1>2, <1>6 DEF Lost
  <2> QED BY <2>1 DEF Sync
<1> QED BY <1>3, <1>4, <1>5, <1>6 DEF Sync

LEMMA SyncNext ==
  ASSUME ~Pipelined
  PROVE  SyncInv /\ [Next]_vars => SyncInv'
<1> SUFFICES ASSUME SyncInv, [Next]_vars PROVE SyncInv'
  OBVIOUS
<1>1. TypeInv' /\ TypeInv
  BY TypeStep DEF SyncInv
<1>2. script' = script
  <2>1. CASE Next
    BY <2>1, ScriptStays
  <2>2. CASE UNCHANGED vars
    BY <2>2 DEF vars
  <2> QED BY <2>1, <2>2
<1>3. ASSUME Plain' PROVE Sync'
  <2>1. Plain
    BY <1>2, <1>3, SameConversation
  <2>2. Sync
    BY <2>1 DEF SyncInv
  <2> QED BY <1>1, <2>1, <2>2, SyncStep, SyncStutter
<1> QED BY <1>1, <1>3 DEF SyncInv

LEMMA SyncAlways ==
  ASSUME ~Pipelined
  PROVE  Spec => []SyncInv
<1>1. Init => SyncInv
  BY SyncInit
<1>2. SyncInv /\ [Next]_vars => SyncInv'
  BY SyncNext
<1> QED BY <1>1, <1>2, PTL DEF Spec

LEMMA OnlyTheBeginning ==
  ASSUME TypeInv, Sync
  PROVE  IsPrefix(out, After) /\ After \in Replies
<1>1. script \in Seq(Messages) /\ out \in Replies /\ asked \in 0 .. Len(script)
  BY ScriptFacts DEF TypeInv, TypeStreams, TypeCounts, Replies
<1>2. After \in Replies
  BY <1>1, AnswersFacts DEF After
<1>3. CASE Waiting
  <2>1. After \o <<>> = After /\ <<>> \in Replies
    BY <1>2, ReplyConcat
  <2>2. IsPrefix(After, After \o <<>>)
    BY <1>2, <2>1, PrefixOfConcat DEF Replies
  <2> QED BY <1>2, <1>3, <2>1, <2>2 DEF Waiting
<1>4. ASSUME asked \in 1 .. Len(script), out = Before
      PROVE  IsPrefix(out, After)
  BY <1>4, BeforeAfter
<1>5. CASE Requested
  <2>1. asked \in 1 .. Len(script)
    BY <1>1, <1>5, ScriptFacts DEF TypeInv, Requested
  <2> QED BY <1>2, <1>4, <1>5, <2>1 DEF Requested
<1>6. CASE Answering
  <2>1. PICK m \in Messages, w \in Strings : Exchange(m, w) /\ Shape(m, w)
    BY <1>6 DEF Answering
  <2>2. asked \in 1 .. Len(script)
    BY <2>1 DEF Exchange
  <2>3. CASE out = Before
    BY <1>2, <1>4, <2>2, <2>3
  <2>4. CASE out # Before
    <3>1. Passing(m, w)
      BY <2>1, <2>4 DEF Shape, Arriving, Collecting
    <3>2. PICK p \in Strings : Passed(m, w, p)
      BY <3>1 DEF Passing
    <3>3. stream \in Strings /\ net \in Strings /\ stream \o net \in Strings
      BY StringConcat DEF TypeInv, TypeStreams
    <3>4. PICK r \in Strings : out = Before \o Raw(p) /\ p \o r = w
      BY <2>4, <3>2, <3>3 DEF Passed
    <3>5. IsPrefix(Before \o Raw(p), After)
      BY <2>1, <3>1, <3>4, PassedOn DEF Passing
    <3> QED BY <1>2, <3>4, <3>5
  <2> QED BY <2>3, <2>4
<1>7. CASE Lost
  BY <1>2, <1>7 DEF Lost
<1> QED BY <1>3, <1>5, <1>6, <1>7 DEF Sync

LEMMA SyncIntact == SyncInv => Intact
<1> SUFFICES ASSUME TypeInv, Plain, Sync PROVE IsPrefix(out, Answers(Len(script)))
  BY DEF SyncInv, Intact
<1>1. script \in Seq(Messages) /\ out \in Replies /\ asked \in 0 .. Len(script)
  BY ScriptFacts DEF TypeInv, TypeStreams, TypeCounts, Replies
<1>2. IsPrefix(out, After) /\ After \in Replies
  BY OnlyTheBeginning
<1>3. Begins(Items, After, AnswersTo(script, Len(script)))
  BY <1>1, AnswersFacts DEF After
<1>4. PICK x \in Replies : AnswersTo(script, Len(script)) = After \o x
  BY <1>3 DEF Begins, Replies
<1>5. IsPrefix(out, After \o x)
  BY <1>1, <1>2, PrefixThenConcat DEF Replies
<1> QED BY <1>4, <1>5, AnswersAre

LEMMA SyncFraming == SyncInv => FramingSync
<1> SUFFICES ASSUME TypeInv, Plain, Sync, pc = "Select", open
             PROVE  remain = IF ridx > 0 /\ ridx = sent /\ Current.framing = "length" THEN Len(net) ELSE 0
  BY DEF SyncInv, FramingSync
<1>1. net \in Strings /\ asked \in Nat /\ (net = <<>> => Len(net) = 0)
  BY ScriptFacts, EmptyFacts DEF TypeInv, TypeStreams, TypeCounts
<1>2. CASE Waiting
  BY <1>1, <1>2 DEF Waiting
<1>3. CASE Requested
  BY <1>1, <1>3 DEF Requested
<1>4. CASE Answering
  <2>1. PICK m \in Messages, w \in Strings : Exchange(m, w) /\ Shape(m, w)
    BY <1>4 DEF Answering
  <2>2. CASE Arriving(m, w)
    <3>1. remain = 0 /\ ridx = asked - 1 /\ sent = asked
      BY <2>1, <2>2 DEF Arriving, Exchange
    <3>2. ridx # sent
      BY <1>1, <3>1
    <3> QED BY <3>1, <3>2
  <2>3. CASE Passing(m, w)
    <3>1. ridx = asked /\ sent = asked /\ asked > 0 /\ Current = m
      BY <1>1, <2>1, <2>3 DEF Passing, Exchange, Current
    <3>2. remain = IF m.method = "GET" /\ m.framing = "length" THEN Len(net) ELSE 0
      BY <2>3 DEF Passing
    <3>3. m.method # "GET" => Len(net) = 0
      <4>1. SUFFICES ASSUME m.method # "GET" PROVE Len(net) = 0
        OBVIOUS
      <4>2. m.method = "HEAD"
        BY <4>1, MessageFacts
      <4>3. w = Header
        BY <2>1, <4>2, FormFacts DEF Exchange
      <4>4. PICK p \in Strings : p # <<>> /\ p \o net = w
        BY <2>3 DEF Passing, Passed
      <4>5. Len(p \o net) = Len(p) + Len(net) /\ Len(p) \in Nat /\ Len(net) \in Nat /\ Len(p) # 0
        BY <1>1, <4>4, StringConcat, StringLen, EmptyFacts
      <4> QED BY <4>3, <4>4, <4>5, HeaderFacts
    <3> QED BY <3>1, <3>2, <3>3
  <2>4. ~Looking(m, w) /\ ~Measured(m, w) /\ ~Unbounded(m, w) /\ ~Chunking(m, w) /\ ~Ready(m)
    BY DEF Looking, Measured, Unbounded, Chunking, Lining, Filling, Ready
  <2> QED BY <2>1, <2>2, <2>3, <2>4 DEF Shape
<1>5. ~Lost
  BY DEF Lost
<1> QED BY <1>2, <1>3, <1>4, <1>5 DEF Sync

\* Of every plain conversation the browser has, at every moment, the beginning
\* of what it should have: whatever doLocalProxy, scanHttpFirst and
\* MoaiHttp_processResponse_forText do with the pieces that recv returns, and
\* whatever fails, no byte is lost in the middle, doubled, cut or moved into
\* another response, and every Content-Length that Moai puts is right.
THEOREM IntactHolds ==
  ASSUME ~Pipelined
  PROVE  Spec => []Intact
<1>1. SyncInv => Intact
  BY SyncIntact
<1> QED BY <1>1, SyncAlways, PTL

\* res_content_length_remain_ is exactly what is still to come of a body that
\* is relayed piece by piece, whenever the thread waits: so the next recv is
\* taken for body when it is one, and for a header when one is due.
THEOREM FramingSyncHolds ==
  ASSUME ~Pipelined
  PROVE  Spec => []FramingSync
<1>1. SyncInv => FramingSync
  BY SyncFraming
<1> QED BY <1>1, SyncAlways, PTL

-----------------------------------------------------------------------------
(***************************************************************************)
(* Where nothing fails: no answer is given up before it is whole.          *)
(***************************************************************************)

LEMMA NothingFails ==
  ASSUME TypeInv, Served, NEW m, NEW w, Exchange(m, w)
  PROVE  w = Wire(m) /\ ~Refused(m)
<1>1. faults = {} /\ \A i \in DOMAIN script : ~Refused(script[i])
  BY DEF Served
<1>2. asked \in DOMAIN script /\ script[asked] = m
  BY ScriptFacts, LenProperties DEF Exchange, TypeInv
<1> QED BY <1>1, <1>2 DEF Exchange

\* recv ends for want of cells only, and fails only while the server is open.
LEMMA Dry ==
  ASSUME Served, open, RecvZero \/ RecvError
  PROVE  net = <<>> /\ (RecvError => ~eof)
<1>1. faults = {}
  BY DEF Served
<1>2. faults \cap {"timeout", "reset"} = {}
  BY <1>1
<1> QED BY <1>2 DEF RecvZero, RecvError

\* The thread is not in the middle of an answer unless there is one.
LEMMA InTheMiddle ==
  ASSUME Sync, Calm, pc # "Select"
  PROVE  open /\ Answering
<1>1. open
  BY DEF Calm
<1>2. ~Waiting /\ ~Requested /\ ~Lost
  BY <1>1 DEF Waiting, Requested, Lost
<1> QED BY <1>1, <1>2 DEF Sync

LEMMA NoLineCut ==
  ASSUME TypeInv, Served, Sync, Calm
  PROVE  ~LineCut
<1> SUFFICES ASSUME LineCut PROVE FALSE
  OBVIOUS
<1>1. pc = "Line" /\ NeedsMore
  BY DEF LineCut
<1>2. PICK m \in Messages, w \in Strings : Exchange(m, w) /\ Shape(m, w)
  BY <1>1, InTheMiddle DEF Answering
<1>3. ~HasLine(stream, 0)
  BY <1>1 DEF NeedsMore, Sized
<1>4. CASE Arriving(m, w)
  <2>1. stream \in Strings /\ net \in Strings /\ stream # <<>> /\ stream \o net = w
    BY <1>1, <1>4 DEF Arriving, TypeInv, TypeStreams
  <2>2. PICK t \in Strings : w = Header \o t
    BY <1>2, FormFacts DEF Exchange
  <2>3. stream[1] = "H"
    <3>1. stream \o net = Header \o t
      BY <2>1, <2>2
    <3> QED BY <2>1, <3>1, HeaderFirst
  <2> QED BY <1>3, <2>1, <2>3, HeadLine
<1>5. CASE Passing(m, w)
  <2>1. Linewise(m)
    BY <1>1, <1>5 DEF Passing, Passed
  <2>2. Refused(m)
    BY <2>1 DEF Refused
  <2> QED BY <1>2, <2>2, NothingFails
<1>6. ~Looking(m, w) /\ ~Measured(m, w) /\ ~Unbounded(m, w) /\ ~Chunking(m, w) /\ ~Ready(m)
  BY <1>1 DEF Looking, Measured, Unbounded, Chunking, Lining, Filling, Ready
<1> QED BY <1>2, <1>4, <1>5, <1>6 DEF Shape

\* What is collected, by the place of the thread.
LEMMA CollectedAt ==
  ASSUME Sync, Calm, pc \in {"Detect", "Size", "Zero", "ChunkWait", "ChunkData"}
  PROVE  \E m \in Messages, w \in Strings :
           /\ Exchange(m, w) /\ Collecting(m)
           /\ pc = "Detect" => Looking(m, w)
           /\ pc = "Size" => Measured(m, w)
           /\ pc = "Zero" => Unbounded(m, w)
           /\ pc = "ChunkWait" => Coded(m) /\ Lining(m, w)
           /\ pc = "ChunkData" => Coded(m) /\ Filling(m, w)
<1>1. PICK m \in Messages, w \in Strings : Exchange(m, w) /\ Shape(m, w)
  BY InTheMiddle DEF Answering
<1>2. ~Arriving(m, w) /\ ~Passing(m, w)
  BY DEF Arriving, Passing, Passed
<1>3. /\ Looking(m, w) => pc = "Detect"
      /\ Measured(m, w) => pc = "Size"
      /\ Unbounded(m, w) => pc = "Zero"
      /\ Chunking(m, w) => Coded(m) /\ (Lining(m, w) \/ Filling(m, w))
      /\ Lining(m, w) => pc \in {"Chunk", "ChunkWait"}
      /\ Filling(m, w) => pc = "ChunkData"
      /\ Ready(m) => pc = "Reply"
  BY DEF Looking, Measured, Unbounded, Chunking, Lining, Filling, Ready
<1>4. /\ Collecting(m)
      /\ pc = "Detect" => Looking(m, w)
      /\ pc = "Size" => Measured(m, w)
      /\ pc = "Zero" => Unbounded(m, w)
      /\ pc = "ChunkWait" => Coded(m) /\ Lining(m, w)
      /\ pc = "ChunkData" => Coded(m) /\ Filling(m, w)
  BY <1>1, <1>2, <1>3 DEF Shape
<1> QED BY <1>1, <1>4

\* Chunks are not shorter than what they carry.
LEMMA SentIsLonger ==
  ASSUME NEW m \in Messages, Coded(m)
  PROVE  Len(Wire(m)) >= Len(Header \o Body(m)) + 5
<1> DEFINE D == {i \in Nat : i <= Len(m.chunks) => Len(SentFront(m, i)) >= Len(Assembled(m, i))}
<1>1. Len(m.chunks) \in Nat
  BY MessageFacts
<1>2. 0 \in D
  <2>1. SentFront(m, 0) = Assembled(m, 0) /\ SentFront(m, 0) \in Strings
    BY FrontFacts, HeaderFacts
  <2> QED BY <2>1, StringLen
<1>3. ASSUME NEW i \in Nat, i \in D PROVE i + 1 \in D
  <2>1. SUFFICES ASSUME i + 1 <= Len(m.chunks)
                 PROVE  Len(SentFront(m, i + 1)) >= Len(Assembled(m, i + 1))
    OBVIOUS
  <2>2. i \in 0 .. Len(m.chunks) /\ i \in 0 .. Len(m.chunks) - 1 /\ i <= Len(m.chunks)
    BY <1>1, <2>1
  <2>3. PICK f \in Strings, g \in Strings : f = Assembled(m, i) /\ g = SentFront(m, i)
    BY <2>2, FrontFacts
  <2>4. PICK d \in Strings : d = m.chunks[i + 1] /\ Sizable(d)
    BY <2>2, FrontFacts DEF Sizable
  <2>5. PICK c \in Strings : c = Chunk(d) /\ Len(c) = Len(d) + 5
    BY <2>4, ChunkFacts
  <2>6. Assembled(m, i + 1) = f \o d /\ SentFront(m, i + 1) = g \o c
    BY <2>2, <2>3, <2>4, <2>5, FrontFacts
  <2>7. Len(f \o d) = Len(f) + Len(d) /\ Len(g \o c) = Len(g) + Len(c)
    BY StringConcat
  <2>8. Len(f) \in Nat /\ Len(g) \in Nat /\ Len(d) \in Nat /\ Len(g) >= Len(f)
    BY <1>3, <2>2, <2>3, StringLen
  <2> QED BY <2>5, <2>6, <2>7, <2>8
<1> HIDE DEF D
<1>4. Nat \subseteq D
  BY <1>2, <1>3, InductionSet
<1>5. Len(SentFront(m, Len(m.chunks))) >= Len(Assembled(m, Len(m.chunks)))
  <2>1. Len(m.chunks) \in D
    BY <1>1, <1>4
  <2> QED BY <1>1, <2>1 DEF D
<1>6. PICK g \in Strings : g = SentFront(m, Len(m.chunks)) /\ g = WithoutLast(m) /\ Len(g) >= Len(Header \o Body(m))
  <2>1. Len(m.chunks) \in 0 .. Len(m.chunks)
    BY <1>1
  <2> QED BY <1>5, <2>1, FrontFacts
<1>7. Sizable(<<>>)
  BY DigitFacts, EmptyFacts DEF Sizable
<1>8. PICK c \in Strings : c = Chunk(<<>>) /\ Len(c) = Len(<<>>) + 5
  BY <1>7, ChunkFacts
<1>9. Wire(m) = g \o c
  BY <1>6, <1>8, WireFacts
<1>10. Len(g \o c) = Len(g) + Len(c) /\ Len(g) \in Nat /\ Len(Header \o Body(m)) \in Nat
  BY HeaderFacts, MessageFacts, StringConcat, StringLen
<1>11. Len(c) = 5
  BY <1>8, EmptyFacts
<1> QED BY <1>6, <1>9, <1>10, <1>11

\* A body that is not refused is long enough to be looked at.
LEMMA NoDetectCut ==
  ASSUME TypeInv, Served, Sync, Calm
  PROVE  ~DetectCut
<1> SUFFICES ASSUME DetectCut PROVE FALSE
  OBVIOUS
<1>1. pc = "Detect" /\ NeedsMore /\ (RecvZero \/ RecvError)
  BY DEF DetectCut
<1>2. PICK m \in Messages, w \in Strings : Exchange(m, w) /\ Collecting(m) /\ Looking(m, w)
  BY <1>1, CollectedAt
<1>3. net = <<>> /\ w = Wire(m) /\ ~Refused(m)
  BY <1>1, <1>2, Dry, NothingFails DEF Collecting
<1>4. stream = w /\ Len(w) < 1 + CheckSize /\ Len(w) \in Nat /\ CheckSize \in Nat
  <2>1. stream \o <<>> = stream
    BY EmptyFacts DEF TypeInv, TypeStreams
  <2> QED BY <1>1, <1>2, <1>3, <2>1, StringLen, ResponseAssumption DEF Looking, NeedsMore, Sized
<1>5. m.method = "GET"
  BY <1>2 DEF Collecting, Translated
<1>6. Body(m) \in Strings /\ Len(Body(m)) \in Nat /\ Len(Header \o Body(m)) = 1 + Len(Body(m))
  BY HeaderFacts, MessageFacts, StringConcat, StringLen
<1>7. Len(w) >= 1 + Len(Body(m))
  <2>1. CASE Coded(m)
    BY <1>3, <1>4, <1>6, <2>1, SentIsLonger
  <2>2. CASE ~Coded(m)
    <3>1. w = Header \o Body(m)
      BY <1>3, <1>5, <2>2, WireFacts
    <3> QED BY <1>6, <3>1
  <2> QED BY <2>1, <2>2
<1>8. Len(Body(m)) # 0
  <2>1. CASE Unlimited(m)
    <3>1. m.ok
      BY <2>1 DEF Unlimited
    <3>2. Body(m) # <<>>
      BY <1>3, <1>5, <3>1 DEF Refused
    <3> QED BY <1>6, <3>2, EmptyFacts
  <2>2. CASE ~Unlimited(m)
    <3>1. ContentLength(m) > 0
      BY <1>2, <2>2 DEF Looking
    <3> QED BY <3>1 DEF ContentLength
  <2> QED BY <2>1, <2>2
<1>9. Len(Body(m)) \in 1 .. CheckSize - 1
  BY <1>4, <1>6, <1>7, <1>8
<1> QED BY <1>3, <1>5, <1>9 DEF Refused

LEMMA NoSizeCut ==
  ASSUME TypeInv, Served, Sync, Calm
  PROVE  ~SizeCut
<1> SUFFICES ASSUME SizeCut PROVE FALSE
  OBVIOUS
<1>1. pc = "Size" /\ NeedsMore /\ (RecvZero \/ RecvError)
  BY DEF SizeCut
<1>2. PICK m \in Messages, w \in Strings : Exchange(m, w) /\ Collecting(m) /\ Measured(m, w)
  BY <1>1, CollectedAt
<1>3. net = <<>>
  BY <1>1, <1>2, Dry DEF Collecting
<1>4. stream = w
  <2>1. stream \o <<>> = stream
    BY EmptyFacts DEF TypeInv, TypeStreams
  <2> QED BY <1>2, <1>3, <2>1 DEF Measured
<1>5. Len(stream) < Len(w) /\ Len(w) \in Nat
  BY <1>1, <1>2, StringLen DEF Measured, NeedsMore, Sized
<1> QED BY <1>4, <1>5

LEMMA NoZeroCut ==
  ASSUME TypeInv, Served, Sync, Calm
  PROVE  ~ZeroCut
<1> SUFFICES ASSUME ZeroCut PROVE FALSE
  OBVIOUS
<1>1. pc = "Zero" /\ RecvError
  BY DEF ZeroCut, Calm
<1>2. PICK m \in Messages, w \in Strings : Exchange(m, w) /\ Collecting(m) /\ Unbounded(m, w)
  BY <1>1, CollectedAt
<1>3. ~eof
  BY <1>1, <1>2, Dry DEF Collecting
<1> QED BY <1>2, <1>3 DEF Exchange, Ended, Unbounded

\* A size line is not awaited in vain: where one was looked for too late, the
\* end of its chunk is found.
LEMMA NoChunkLineCut ==
  ASSUME TypeInv, Served, Sync, Calm
  PROVE  ~ChunkLineCut
<1> SUFFICES ASSUME ChunkLineCut PROVE FALSE
  OBVIOUS
<1>1. pc = "ChunkWait" /\ ~HasLine(stream, mark) /\ RecvError
  BY DEF ChunkLineCut, NeedsMore, Sized
<1>2. PICK m \in Messages, w \in Strings :
        Exchange(m, w) /\ Collecting(m) /\ Coded(m) /\ Lining(m, w)
  BY <1>1, CollectedAt
<1>3. net = <<>> /\ w = Wire(m)
  BY <1>1, <1>2, Dry, NothingFails DEF Collecting
<1>4. PICK i \in 0 .. Len(m.chunks), q \in Strings : Lined(m, w, i, q)
  BY <1>2 DEF Lining
<1>5. /\ Joined(m, w, i, q, q \o net) /\ Form(m, w)
      /\ mark \in cbegin .. Len(stream) /\ ~HasLine(SubSeq(stream, 1, mark), cbegin)
  BY <1>1, <1>2, <1>4 DEF Lined, Exchange
<1>6. PICK f \in Strings : f = Assembled(m, i) /\ stream = f \o q /\ cbegin = Len(f)
  BY <1>2, <1>5, LinedFacts
<1>7. PICK d \in Strings, r \in Strings : NextIs(m, w, i, q \o net, d, r)
  BY <1>2, <1>3, <1>5, LinedFacts
<1>8. Sizable(d) /\ q = Chunk(d) \o r /\ ChunkThen(q, d, r)
  <2>1. q \o net = q
    BY <1>3, EmptyFacts
  <2> QED BY <1>7, <2>1 DEF NextIs, ChunkThen
<1>9. Len(q) >= 5 /\ q[2] = "r" /\ q[3] = "n"
  BY <1>8, ChunkLine
<1>10. /\ stream \in Strings /\ Len(stream) = cbegin + Len(q) /\ Len(q) \in Nat /\ cbegin \in Nat
       /\ mark \in Nat /\ mark <= Len(stream)
       /\ \A j \in 1 .. Len(q) : stream[cbegin + j] = q[j]
  <2>1. stream \in Strings /\ Len(f) \in Nat /\ Len(q) \in Nat /\ Len(f \o q) = Len(f) + Len(q)
    BY StringConcat, StringLen DEF TypeInv, TypeStreams
  <2>2. \A k \in 1 .. Len(f) + Len(q) : (f \o q)[k] = IF k <= Len(f) THEN f[k] ELSE q[k - Len(f)]
    BY ConcatProperties DEF Strings
  <2>3. ASSUME NEW j \in 1 .. Len(q) PROVE (f \o q)[Len(f) + j] = q[j]
    <3>1. Len(f) + j \in 1 .. Len(f) + Len(q) /\ ~(Len(f) + j <= Len(f)) /\ Len(f) + j - Len(f) = j
      BY <2>1
    <3> QED BY <2>2, <3>1
  <2>4. mark \in Nat /\ mark <= Len(stream)
    BY <1>5, <1>6, <2>1
  <2> QED BY <1>6, <2>1, <2>3, <2>4
<1>11. CASE mark >= cbegin + 3
  <2>1. PICK s \in Strings : s = SubSeq(stream, 1, mark) /\ Len(s) = mark
    BY <1>10, StringCut
  <2>2. \A k \in 1 .. mark : s[k] = stream[k]
    <3>1. PICK z \in Strings : stream = s \o z
      BY <1>10, <2>1, StringCut
    <3>2. \A k \in 1 .. Len(s) + Len(z) : (s \o z)[k] = IF k <= Len(s) THEN s[k] ELSE z[k - Len(s)]
      BY ConcatProperties DEF Strings
    <3>3. \A k \in 1 .. mark : k \in 1 .. Len(s) + Len(z) /\ k <= Len(s)
      BY <1>10, <2>1, StringLen
    <3> QED BY <3>1, <3>2, <3>3
  <2>3. s[cbegin + 2] = "r" /\ s[cbegin + 3] = "n"
    <3>1. cbegin + 2 \in 1 .. mark /\ cbegin + 3 \in 1 .. mark /\ 2 \in 1 .. Len(q) /\ 3 \in 1 .. Len(q)
      BY <1>9, <1>10, <1>11
    <3> QED BY <1>9, <1>10, <2>2, <3>1
  <2>4. cbegin + 2 \in cbegin + 1 .. Len(s) /\ cbegin + 2 < Len(s) /\ cbegin + 2 + 1 = cbegin + 3
    BY <1>10, <1>11, <2>1
  <2>5. cbegin + 2 \in LineEnds(s, cbegin)
    BY <2>3, <2>4 DEF LineEnds
  <2> QED BY <1>5, <2>1, <2>5 DEF HasLine
<1>12. CASE ~(mark >= cbegin + 3)
  <2>1. PICK c \in Strings : c = SizeFront(d) /\ Len(c) = 3
    BY <1>8, ChunkFacts
  <2>2. PICK y \in Strings : y = c \o d /\ Len(y) = 3 + Len(d)
    <3>1. c \o d \in Strings /\ Len(c \o d) = Len(c) + Len(d)
      BY StringConcat
    <3> QED BY <2>1, <3>1
  <2>3. PICK l \in Strings : l = CRLF /\ Len(l) = 2 /\ l[1] = "r" /\ l[2] = "n"
    BY CRLFFacts
  <2>4. PICK z \in Strings : z = l \o r /\ Len(z) = 2 + Len(r)
    <3>1. l \o r \in Strings /\ Len(l \o r) = Len(l) + Len(r)
      BY StringConcat
    <3> QED BY <2>3, <3>1
  <2>5. q = y \o z
    <3>1. Chunk(d) = y \o l
      BY <1>8, <2>1, <2>2, <2>3, ChunkFacts
    <3>2. Regroups(y, l, r)
      BY StringRegroups
    <3> QED BY <1>8, <2>4, <3>1, <3>2 DEF Regroups
  <2>6. Len(y) \in Nat /\ Len(z) \in Nat /\ Len(r) \in Nat /\ Len(d) \in Nat /\ Len(q) = Len(y) + Len(z)
    BY <2>5, StringConcat, StringLen
  <2>7. z[1] = "r" /\ z[2] = "n"
    <3>1. \A k \in 1 .. Len(l) + Len(r) : (l \o r)[k] = IF k <= Len(l) THEN l[k] ELSE r[k - Len(l)]
      BY ConcatProperties DEF Strings
    <3>2. 1 \in 1 .. Len(l) + Len(r) /\ 2 \in 1 .. Len(l) + Len(r) /\ 1 <= Len(l) /\ 2 <= Len(l)
      BY <2>3, <2>6
    <3> QED BY <2>3, <2>4, <3>1, <3>2
  <2>8. q[Len(y) + 1] = "r" /\ q[Len(y) + 2] = "n"
    <3>1. \A k \in 1 .. Len(y) + Len(z) : (y \o z)[k] = IF k <= Len(y) THEN y[k] ELSE z[k - Len(y)]
      BY ConcatProperties DEF Strings
    <3>2. /\ Len(y) + 1 \in 1 .. Len(y) + Len(z) /\ Len(y) + 2 \in 1 .. Len(y) + Len(z)
          /\ ~(Len(y) + 1 <= Len(y)) /\ ~(Len(y) + 2 <= Len(y))
          /\ Len(y) + 1 - Len(y) = 1 /\ Len(y) + 2 - Len(y) = 2
      BY <2>4, <2>6
    <3> QED BY <2>5, <2>7, <3>1, <3>2
  <2>9. PICK k \in Nat : k = cbegin + (Len(y) + 1) /\ stream[k] = "r" /\ stream[k + 1] = "n"
    <3>1. Len(y) + 1 \in 1 .. Len(q) /\ Len(y) + 2 \in 1 .. Len(q)
      BY <2>4, <2>6
    <3>2. stream[cbegin + (Len(y) + 1)] = "r" /\ stream[cbegin + (Len(y) + 2)] = "n"
      BY <1>10, <2>8, <3>1
    <3>3. cbegin + (Len(y) + 1) + 1 = cbegin + (Len(y) + 2) /\ cbegin + (Len(y) + 1) \in Nat
      BY <1>10, <2>6
    <3> QED BY <3>2, <3>3
  <2>10. k \in mark + 1 .. Len(stream) /\ k < Len(stream)
    BY <1>10, <1>12, <2>2, <2>4, <2>6, <2>9
  <2>11. k \in LineEnds(stream, mark)
    BY <2>9, <2>10 DEF LineEnds
  <2> QED BY <1>1, <2>11 DEF HasLine
<1> QED BY <1>11, <1>12

LEMMA NoChunkDataCut ==
  ASSUME TypeInv, Served, Sync, Calm
  PROVE  ~ChunkDataCut
<1> SUFFICES ASSUME ChunkDataCut PROVE FALSE
  OBVIOUS
<1>1. pc = "ChunkData" /\ Len(stream) < goal /\ (RecvZero \/ RecvError)
  BY DEF ChunkDataCut, NeedsMore, Sized
<1>2. PICK m \in Messages, w \in Strings :
        Exchange(m, w) /\ Collecting(m) /\ Coded(m) /\ Filling(m, w)
  BY <1>1, CollectedAt
<1>3. net = <<>>
  BY <1>1, <1>2, Dry DEF Collecting
<1>4. PICK i \in 0 .. Len(m.chunks), q \in Strings, d \in Strings, r \in Strings : Filled(m, w, i, q, d, r)
  BY <1>2 DEF Filling
<1>5. PICK f \in Strings : f = Assembled(m, i) /\ stream = f \o q /\ cbegin = Len(f)
  BY <1>2, <1>4, FrontFacts DEF Filled, Joined
<1>6. PICK x \in Strings : x = d \o CRLF /\ Len(x) = Len(d) + 2
  <2>1. d \o CRLF \in Strings /\ Len(d \o CRLF) = Len(d) + Len(CRLF)
    BY CRLFFacts, StringConcat
  <2>2. Len(d \o CRLF) = Len(d) + 2
    BY <2>1, CRLFFacts
  <2> QED BY <2>1, <2>2
<1>7. q = x \o r
  <2>1. q \o net = q
    BY <1>3, EmptyFacts
  <2> QED BY <1>4, <1>6, <2>1 DEF Filled
<1>8. /\ Len(q) = Len(x) + Len(r) /\ Len(stream) = Len(f) + Len(q)
      /\ Len(r) \in Nat /\ Len(f) \in Nat /\ Len(d) \in Nat
  BY <1>5, <1>7, StringConcat, StringLen
<1>9. goal = cbegin + Len(d) + 2
  BY <1>4 DEF Filled
<1> QED BY <1>1, <1>5, <1>6, <1>8, <1>9

\* The end of the connection is met by a thread that has passed everything on.
LEMMA LateEof ==
  ASSUME TypeInv, Served, Sync, Calm, FirstEof
  PROVE  out = After
<1>1. pc = "Select" /\ open /\ eof /\ net = <<>>
  BY DEF FirstEof, RecvZero, Served
<1>2. ~Requested /\ ~Lost
  BY <1>1 DEF Requested, Lost
<1>3. CASE Waiting
  BY <1>3 DEF Waiting
<1>4. CASE Answering
  <2>1. PICK m \in Messages, w \in Strings : Exchange(m, w) /\ Shape(m, w)
    BY <1>4 DEF Answering
  <2>2. w = Wire(m)
    BY <2>1, NothingFails
  <2>3. ~Arriving(m, w)
    <3>1. SUFFICES ASSUME Arriving(m, w) PROVE FALSE
      OBVIOUS
    <3>2. w = <<>>
      BY <1>1, <3>1 DEF Arriving
    <3>3. PICK t \in Strings : w = Header \o t
      BY <2>1, FormFacts DEF Exchange
    <3>4. Len(Header \o t) = Len(Header) + Len(t) /\ Len(t) \in Nat /\ Len(Header) = 1
      BY HeaderFacts, StringConcat, StringLen
    <3> QED BY <3>2, <3>3, <3>4, EmptyFacts
  <2>4. Passing(m, w)
    BY <1>1, <2>1, <2>3 DEF Shape, Looking, Measured, Unbounded, Chunking, Lining, Filling, Ready
  <2>5. PICK p \in Strings : Passed(m, w, p)
    BY <2>4 DEF Passing
  <2>6. out = Before \o Raw(p) /\ p \o net = w /\ net \in Strings
    BY <1>1, <2>5 DEF Passed, TypeInv, TypeStreams
  <2> QED BY <1>1, <2>1, <2>2, <2>4, <2>6, PassedOn DEF Passing
<1> QED BY <1>2, <1>3, <1>4 DEF Sync

LEMMA NothingLeft ==
  ASSUME TypeInv, Served, Calm
  PROVE  LeftErrno = {FALSE}
<1>1. faults = {} /\ errno = FALSE
  BY DEF Served, Calm, TypeInv, TypeFlags
<1>2. "errno" \notin faults
  BY <1>1
<1> QED BY <1>1, <1>2 DEF LeftErrno

LEMMA CalmStep ==
  ASSUME TypeInv, Served, Sync, Calm, Next
  PROVE  Calm'
<1>1. ~LineCut /\ ~DetectCut /\ ~SizeCut /\ ~ZeroCut /\ ~ChunkLineCut /\ ~ChunkDataCut
  BY NoLineCut, NoDetectCut, NoSizeCut, NoZeroCut, NoChunkLineCut, NoChunkDataCut
<1>2. LeftErrno = {FALSE}
  BY NothingLeft
<1>3. ~errno /\ open \in BOOLEAN /\ (pc # "Select" => open)
  BY DEF Calm, TypeInv, TypeFlags
<1>4. \A n : Recv(n) => ~errno' /\ open
  BY <1>2 DEF Recv
<1>5. CASE Ask
  BY <1>2, <1>5 DEF Ask, Calm
<1>6. CASE ServerSend
  BY <1>3, <1>6 DEF ServerSend, Calm
<1>7. CASE FirstBody \/ FirstRecv \/ RecvMore
  <2>1. ~errno' /\ open /\ open' = open
    BY <1>4, <1>7 DEF FirstBody, FirstRecv, RecvMore
  <2> QED BY <2>1 DEF Calm
<1>8. CASE FirstEof
  <2>1. out = After
    BY <1>8, LateEof
  <2>2. pc' = "Select" /\ out' = out /\ After' = After /\ errno' = errno
    BY <1>8 DEF FirstEof, After, query
  <2> QED BY <1>3, <2>1, <2>2 DEF Calm
<1>9. CASE Scan
  <2>1. errno' = errno /\ open' = open /\ open
    BY <1>1, <1>3, <1>9 DEF Scan, LineBody, LineHead
  <2> QED BY <1>3, <2>1 DEF Calm
<1>10. CASE Chunks
  <2>1. pc # "Select" /\ errno' = errno /\ open' = open
    BY <1>1, <1>10 DEF Chunks, ChunkSize, ChunkBroken, ChunkLineAbsent, ChunkLineCame, ChunkLineEof, ChunkData
  <2> QED BY <1>3, <2>1 DEF Calm
<1>11. CASE Whole
  <2>1. pc # "Select" /\ errno' = errno /\ open' = open
    BY <1>1, <1>11 DEF Whole, DetectDone, SizeDone, ZeroDone, Reply
  <2> QED BY <1>3, <2>1 DEF Calm
<1> QED BY <1>5, <1>6, <1>7, <1>8, <1>9, <1>10, <1>11 DEF Next, Receive

LEMMA FrameAlways ==
  ASSUME ~Pipelined
  PROVE  Spec => []FrameInv
<1>1. Init => FrameInv
  <2>1. SUFFICES ASSUME Init PROVE FrameInv
    OBVIOUS
  <2>2. SyncInv /\ Waiting
    BY <2>1, SyncInit
  <2>3. Calm
    BY <2>1, <2>2 DEF Calm, Waiting, Init
  <2> QED BY <2>2, <2>3 DEF FrameInv, SyncInv
<1>2. FrameInv /\ [Next]_vars => FrameInv'
  <2> SUFFICES ASSUME FrameInv, [Next]_vars PROVE FrameInv'
    OBVIOUS
  <2>1. SyncInv /\ SyncInv'
    BY SyncNext DEF FrameInv, SyncInv
  <2>2. ASSUME Served' PROVE Calm'
    <3>1. CASE Next
      <4>1. Served /\ Plain
        BY <2>2, <3>1, ScriptStays, SameConversation DEF Served
      <4> QED BY <2>1, <3>1, <4>1, CalmStep DEF FrameInv, SyncInv
    <3>2. CASE UNCHANGED vars
      <4>1. UNCHANGED <<script, faults, errno, open, pc, out, asked>>
        BY <3>2 DEF vars
      <4>2. Served
        BY <2>2, <4>1, SameConversation
      <4>3. After' = After
        BY <4>1 DEF After
      <4> QED BY <4>1, <4>2, <4>3 DEF FrameInv, Calm
    <3> QED BY <3>1, <3>2
  <2> QED BY <2>1, <2>2 DEF FrameInv, SyncInv
<1> QED BY <1>1, <1>2, PTL DEF Spec

LEMMA FrameDelivered == FrameInv => AllDelivered
<1> SUFFICES ASSUME TypeInv, Sync, Calm, Served, pc = "Select", net = <<>>
             PROVE  out = Answers(sent)
  BY DEF FrameInv, AllDelivered, Served
<1>1. asked \in Nat
  BY ScriptFacts DEF TypeInv, TypeCounts
<1>2. CASE Waiting
  BY <1>2, AnswersAre DEF Waiting, After
<1>3. CASE Requested
  BY <1>3, AnswersAre DEF Requested, Before
<1>4. CASE Answering
  <2>1. PICK m \in Messages, w \in Strings : Exchange(m, w) /\ Shape(m, w)
    BY <1>4 DEF Answering
  <2>2. w = Wire(m) /\ sent = asked
    BY <2>1, NothingFails DEF Exchange
  <2>3. ~Arriving(m, w)
    <3>1. SUFFICES ASSUME Arriving(m, w) PROVE FALSE
      OBVIOUS
    <3>2. w = <<>>
      BY <3>1 DEF Arriving
    <3>3. PICK t \in Strings : w = Header \o t
      BY <2>1, FormFacts DEF Exchange
    <3>4. Len(Header \o t) = Len(Header) + Len(t) /\ Len(t) \in Nat /\ Len(Header) = 1
      BY HeaderFacts, StringConcat, StringLen
    <3> QED BY <3>2, <3>3, <3>4, EmptyFacts
  <2>4. Passing(m, w)
    BY <2>1, <2>3 DEF Shape, Looking, Measured, Unbounded, Chunking, Lining, Filling, Ready
  <2>5. PICK p \in Strings : Passed(m, w, p)
    BY <2>4 DEF Passing
  <2>6. out = Before \o Raw(p) /\ p \o net = w /\ net \in Strings
    BY <2>5 DEF Passed, TypeInv, TypeStreams
  <2>7. out = After
    BY <2>1, <2>2, <2>4, <2>6, PassedOn DEF Passing
  <2> QED BY <2>2, <2>7, AnswersAre DEF After
<1>5. ~Lost
  <2>1. SUFFICES ASSUME Lost PROVE FALSE
    OBVIOUS
  <2>2. out = After /\ Len(out) < Len(After)
    BY <2>1 DEF Lost, Calm
  <2>3. Len(out) \in Nat
    BY ReplyConcat DEF TypeInv, TypeStreams, Replies
  <2> QED BY <2>2, <2>3
<1> QED BY <1>2, <1>3, <1>4, <1>5 DEF Sync

\* Where nothing fails and nothing is sent that Moai drops, nothing is held
\* back: when the thread is back at select and has received all that came, the
\* browser has every answer that was sent.  So no reader of the program waits
\* for more than the server sends, and none gives up too early.
THEOREM AllDeliveredHolds ==
  ASSUME ~Pipelined
  PROVE  Spec => []AllDelivered
<1>1. FrameInv => AllDelivered
  BY FrameDelivered
<1> QED BY <1>1, FrameAlways, PTL
=============================================================================
