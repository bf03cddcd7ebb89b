----------------------------- MODULE LogLemmas -----------------------------
(***************************************************************************)
(* Facts about logs that several proofs share: the least element of a set  *)
(* of numbers, the longest of finitely many logs, and what one replica's   *)
(* progress does to it.  All are about constants only.                     *)
(***************************************************************************)
EXTENDS Integers, Sequences, FiniteSets, SequencesExt, FiniteSetTheorems, SequenceTheorems,
        WellFoundedInduction, TLAPS

\* A nonempty set of numbers has a least element.
LEMMA LeastNumber ==
  ASSUME NEW T \in SUBSET Nat, T # {}
  PROVE  \E n \in T : \A m \in T : n <= m
  <1> DEFINE Less == OpToRel(<, Nat)
  <1>1. IsWellFoundedOn(Less, Nat)
    BY NatLessThanWellFounded
  <1>2. \A x, y \in Nat : <<y, x>> \in Less <=> y < x
    BY DEF OpToRel
  <1> HIDE DEF Less
  <1>3. PICK n \in T : \A m \in T : ~(<<m, n>> \in Less)
    BY <1>1, WFMin
  <1>4. ASSUME NEW m \in T PROVE n <= m
    <2>1. n \in Nat /\ m \in Nat /\ ~(m < n)
      BY <1>2, <1>3
    <2> QED BY <2>1
  <1> QED BY <1>4

\* A function on 1 .. n is a sequence of length n.
LEMMA FunctionIsSequence ==
  ASSUME NEW S, NEW n \in Nat, NEW f \in [1 .. n -> S]
  PROVE  f \in Seq(S) /\ Len(f) = n
  OBVIOUS

\* Two logs agree where both have an entry.
Compatible(s, t) == \A i \in 1 .. Len(s) : i <= Len(t) => s[i] = t[i]

\* The log at q is at least as long as the others in R.
Longest(d, R, q) == q \in R /\ \A s \in R : Len(d[s]) <= Len(d[q])

\* Of finitely many logs one is the longest.
LEMMA LongestExists ==
  ASSUME NEW R, IsFiniteSet(R), R # {}, NEW C, NEW d \in [R -> Seq(C)]
  PROVE  \E q \in R : Longest(d, R, q)
  <1> DEFINE Bad == {A \in SUBSET R : A # {} /\ ~\E q \in A : Longest(d, A, q)}
  <1>1. SUFFICES Bad = {}
    OBVIOUS
  <1>2. SUFFICES ASSUME Bad # {} PROVE FALSE
    OBVIOUS
  <1>3. IsWellFoundedOn(StrictSubsetOrdering(R), SUBSET R)
    BY FS_StrictSubsetOrderingWellFounded, FS_FiniteSubsetsOfFinite
  <1>4. PICK A \in Bad : \A B \in Bad : ~(<<B, A>> \in StrictSubsetOrdering(R))
    <2>1. Bad \subseteq SUBSET R
      OBVIOUS
    <2> HIDE DEF Bad
    <2> QED BY <1>2, <1>3, <2>1, WFMin
  <1>5. PICK x \in A : TRUE
    OBVIOUS
  <1>6. \A s \in R : Len(d[s]) \in Nat
    BY LenProperties
  <1>7. CASE A = {x}
    <2>1. Longest(d, A, x)
      BY <1>6, <1>7 DEF Longest
    <2> QED BY <1>5, <2>1
  <1>8. CASE A # {x}
    <2> DEFINE B == A \ {x}
    <2>1. B \in SUBSET R /\ B # {} /\ B # A /\ B \subseteq A
      BY <1>5, <1>8
    <2>2. B \notin Bad
      BY <1>4, <2>1 DEF StrictSubsetOrdering
    <2>3. PICK q \in B : Longest(d, B, q)
      BY <2>1, <2>2
    <2>4. CASE Len(d[x]) <= Len(d[q])
      <3>1. Longest(d, A, q)
        BY <2>3, <2>4 DEF Longest
      <3> QED BY <2>3, <3>1
    <2>5. CASE ~(Len(d[x]) <= Len(d[q]))
      <3>1. Longest(d, A, x)
        <4>1. \A s \in A : s \in R /\ (s = x \/ s \in B)
          OBVIOUS
        <4>2. x \in R /\ q \in R
          OBVIOUS
        <4>3. ASSUME NEW s \in A PROVE Len(d[s]) <= Len(d[x])
          <5>1. s = x \/ Len(d[s]) <= Len(d[q])
            BY <2>3, <4>1 DEF Longest
          <5>2. Len(d[s]) \in Nat /\ Len(d[x]) \in Nat /\ Len(d[q]) \in Nat
            BY <1>6, <4>1, <4>2
          <5> QED BY <2>5, <5>1, <5>2
        <4> QED BY <1>5, <4>3 DEF Longest
      <3> QED BY <1>5, <3>1
    <2> QED BY <2>4, <2>5
  <1> QED BY <1>7, <1>8

\* When the log at r grows and all logs stay compatible, the longest log stays
\* what it was or becomes that of r.
LEMMA LongestGrows ==
  ASSUME NEW R, NEW C, NEW d \in [R -> Seq(C)], NEW e \in [R -> Seq(C)], NEW r \in R,
         \A s, t \in R : Compatible(d[s], d[t]), \A s, t \in R : Compatible(e[s], e[t]),
         \A s \in R \ {r} : e[s] = d[s],
         Len(d[r]) <= Len(e[r]), Compatible(d[r], e[r]),
         NEW p \in R, NEW q \in R, Longest(d, R, p), Longest(e, R, q)
  PROVE  /\ Len(e[r]) <= Len(e[q]) /\ \A i \in 1 .. Len(e[r]) : e[r][i] = e[q][i]
         /\ Len(d[p]) <= Len(e[q]) /\ \A i \in 1 .. Len(d[p]) : d[p][i] = e[q][i]
         /\ e[q] \in {d[p], e[r]}
  <1>1. \A s \in R : /\ Len(d[s]) \in Nat /\ Len(e[s]) \in Nat
                     /\ d[s] \in Seq(C) /\ e[s] \in Seq(C)
    BY LenProperties
  <1>2. Len(d[p]) <= Len(e[p]) /\ Len(e[p]) <= Len(e[q]) /\ Len(e[r]) <= Len(e[q])
    BY <1>1 DEF Longest
  <1>3. Compatible(e[r], e[q]) /\ Compatible(e[p], e[q]) /\ Compatible(d[p], e[p])
    BY <1>1 DEF Compatible
  <1>4. \A i \in 1 .. Len(e[r]) : e[r][i] = e[q][i]
    BY <1>1, <1>2, <1>3 DEF Compatible
  <1>5. \A i \in 1 .. Len(d[p]) : d[p][i] = e[q][i]
    BY <1>1, <1>2, <1>3 DEF Compatible
  <1>6. CASE q = r
    BY <1>1, <1>2, <1>4, <1>5, <1>6
  <1>7. CASE q # r
    <2>1. e[q] = d[q] /\ Len(d[q]) <= Len(d[p])
      BY <1>7 DEF Longest
    <2>2. Len(e[q]) = Len(d[p])
      BY <1>1, <1>2, <2>1
    <2>3. e[q] = d[p]
      BY <1>1, <1>5, <2>2, SeqEqual
    <2> QED BY <1>1, <1>2, <1>4, <1>5, <2>3
  <1> QED BY <1>6, <1>7

-----------------------------------------------------------------------------
(* Concatenation: what FlattenSeq computes, by least counterexample *)

\* f holds the concatenations of the first sequences of s.
Flattens(f, s, n) ==
    f = [i \in 1 .. n |-> IF i = 1 THEN s[i] ELSE f[i - 1] \o s[i]]

LEMMA FlattensExists ==
  ASSUME NEW s, NEW n \in Nat
  PROVE  \E f : Flattens(f, s, n)
  <1> DEFINE Bad == {k \in Nat : ~\E f : Flattens(f, s, k)}
  <1>1. SUFFICES ASSUME Bad # {} PROVE FALSE
    OBVIOUS
  <1>2. PICK k \in Bad : \A m \in Bad : k <= m
    <2>1. Bad \in SUBSET Nat
      OBVIOUS
    <2> HIDE DEF Bad
    <2> QED BY <1>1, <2>1, LeastNumber
  <1>3. CASE k = 0
    <2>1. Flattens([i \in 1 .. 0 |-> 0], s, 0)
      BY DEF Flattens
    <2> QED BY <1>3, <2>1
  <1>4. CASE k # 0
    <2>1. k - 1 \in Nat /\ k - 1 \notin Bad
      BY <1>2, <1>4
    <2>2. PICK f : Flattens(f, s, k - 1)
      BY <2>1
    <2> DEFINE last == IF k = 1 THEN s[k] ELSE f[k - 1] \o s[k]
               g == [i \in 1 .. k |-> IF i = k THEN last ELSE f[i]]
    <2>3. ASSUME NEW i \in 1 .. k
          PROVE  g[i] = IF i = 1 THEN s[i] ELSE g[i - 1] \o s[i]
      <3>1. CASE i = k
        <4>1. i # 1 => i - 1 \in 1 .. k /\ i - 1 # k
          BY <3>1
        <4> QED BY <3>1, <4>1
      <3>2. CASE i # k
        <4>1. i \in 1 .. (k - 1) /\ (i # 1 => i - 1 \in 1 .. k /\ i - 1 # k)
          BY <3>2
        <4>2. f[i] = IF i = 1 THEN s[i] ELSE f[i - 1] \o s[i]
          BY <2>2, <4>1 DEF Flattens
        <4> QED BY <3>2, <4>1, <4>2
      <3> QED BY <3>1, <3>2
    <2>4. Flattens(g, s, k)
      <3> HIDE DEF last
      <3> QED BY <2>3 DEF Flattens
    <2> QED BY <2>4
  <1> QED BY <1>3, <1>4

\* FlattenSeq is the last of these concatenations.
LEMMA FlattenIsLast ==
  ASSUME NEW C, NEW s \in Seq(Seq(C)), s # << >>
  PROVE  \E f : Flattens(f, s, Len(s)) /\ FlattenSeq(s) = f[Len(s)]
  <1> DEFINE flatten == CHOOSE f : f = [i \in 1 .. Len(s) |->
                                           IF i = 1 THEN s[i] ELSE f[i - 1] \o s[i]]
  <1>1. Len(s) \in Nat /\ Len(s) # 0
    BY EmptySeq
  <1>2. \E f : f = [i \in 1 .. Len(s) |-> IF i = 1 THEN s[i] ELSE f[i - 1] \o s[i]]
    BY <1>1, FlattensExists DEF Flattens
  <1>3. flatten = [i \in 1 .. Len(s) |-> IF i = 1 THEN s[i] ELSE flatten[i - 1] \o s[i]]
    BY <1>2
  <1>4. FlattenSeq(s) = flatten[Len(s)]
    BY <1>1, Zenon DEF FlattenSeq
  <1> HIDE DEF flatten
  <1> QED BY <1>3, <1>4 DEF Flattens

\* The concatenations are sequences of the same elements.
LEMMA FlattensType ==
  ASSUME NEW C, NEW s \in Seq(Seq(C)), NEW f, Flattens(f, s, Len(s)), NEW n \in 1 .. Len(s)
  PROVE  f[n] \in Seq(C)
  <1> DEFINE Bad == {k \in 1 .. Len(s) : f[k] \notin Seq(C)}
  <1>1. SUFFICES ASSUME Bad # {} PROVE FALSE
    OBVIOUS
  <1>2. Len(s) \in Nat /\ \A i \in 1 .. Len(s) : s[i] \in Seq(C)
    BY LenProperties, ElementOfSeq
  <1>3. PICK k \in Bad : \A m \in Bad : k <= m
    <2>1. Bad \in SUBSET Nat
      BY <1>2
    <2> HIDE DEF Bad
    <2> QED BY <1>1, <2>1, LeastNumber
  <1>4. f[k] = IF k = 1 THEN s[k] ELSE f[k - 1] \o s[k]
    BY DEF Flattens
  <1>5. CASE k = 1
    BY <1>2, <1>4, <1>5
  <1>6. CASE k # 1
    <2>1. k - 1 \in 1 .. Len(s) /\ k - 1 \notin Bad
      BY <1>2, <1>3, <1>6
    <2>2. f[k - 1] \in Seq(C) /\ s[k] \in Seq(C)
      BY <1>2, <2>1
    <2> QED BY <1>4, <1>6, <2>2, ConcatProperties
  <1> QED BY <1>5, <1>6

\* So is what FlattenSeq returns.
LEMMA FlattenType ==
  ASSUME NEW C, NEW s \in Seq(Seq(C))
  PROVE  FlattenSeq(s) \in Seq(C)
  <1>1. CASE s = << >>
    <2>1. FlattenSeq(s) = << >>
      BY <1>1, EmptySeq DEF FlattenSeq
    <2> QED BY <2>1, EmptySeq
  <1>2. CASE s # << >>
    <2>1. PICK f : Flattens(f, s, Len(s)) /\ FlattenSeq(s) = f[Len(s)]
      BY <1>2, FlattenIsLast
    <2>2. Len(s) \in 1 .. Len(s)
      BY <1>2, EmptySeq
    <2> QED BY <2>1, <2>2, FlattensType
  <1> QED BY <1>1, <1>2

\* A common prefix has the same concatenations.
LEMMA FlattensPrefix ==
  ASSUME NEW s, NEW t, NEW f, NEW g, NEW m \in Nat, NEW n \in Nat, m <= n,
         Flattens(f, s, m), Flattens(g, t, n), \A i \in 1 .. m : s[i] = t[i],
         NEW j \in 1 .. m
  PROVE  f[j] = g[j]
  <1> DEFINE Bad == {k \in 1 .. m : f[k] # g[k]}
  <1>1. SUFFICES ASSUME Bad # {} PROVE FALSE
    OBVIOUS
  <1>2. PICK k \in Bad : \A h \in Bad : k <= h
    <2>1. Bad \in SUBSET Nat
      OBVIOUS
    <2> HIDE DEF Bad
    <2> QED BY <1>1, <2>1, LeastNumber
  <1>3. /\ f[k] = IF k = 1 THEN s[k] ELSE f[k - 1] \o s[k]
        /\ g[k] = IF k = 1 THEN t[k] ELSE g[k - 1] \o t[k]
        /\ s[k] = t[k]
    <2>1. k \in 1 .. m /\ k \in 1 .. n
      OBVIOUS
    <2> HIDE DEF Bad
    <2> QED BY <2>1 DEF Flattens
  <1>4. k # 1 => k - 1 \in 1 .. m /\ k - 1 \notin Bad
    BY <1>2
  <1>5. k # 1 => f[k - 1] = g[k - 1]
    BY <1>4
  <1> QED BY <1>3, <1>5

\* A sequence put at the end is put at the end of the concatenation.
LEMMA FlattenAppend ==
  ASSUME NEW C, NEW s \in Seq(Seq(C)), NEW x \in Seq(C)
  PROVE  FlattenSeq(Append(s, x)) = FlattenSeq(s) \o x
  <1> DEFINE t == Append(s, x)
             n == Len(s)
  <1>1. /\ t \in Seq(Seq(C)) /\ t # << >> /\ n \in Nat /\ Len(t) = n + 1
        /\ t[n + 1] = x /\ \A i \in 1 .. n : s[i] = t[i]
    BY AppendProperties, LenProperties, EmptySeq
  <1> HIDE DEF t
  <1>2. PICK g : Flattens(g, t, n + 1) /\ FlattenSeq(t) = g[n + 1]
    BY <1>1, FlattenIsLast
  <1>3. g[n + 1] = IF n + 1 = 1 THEN x ELSE g[n] \o x
    <2>1. n + 1 \in 1 .. n + 1 /\ (n + 1) - 1 = n
      BY <1>1
    <2> QED BY <1>1, <1>2, <2>1 DEF Flattens
  <1>4. CASE s = << >>
    <2>1. n = 0 /\ FlattenSeq(s) = << >>
      BY <1>4, EmptySeq DEF FlattenSeq
    <2> QED BY <1>2, <1>3, <2>1, ConcatEmptySeq DEF t
  <1>5. CASE s # << >>
    <2>1. PICK f : Flattens(f, s, n) /\ FlattenSeq(s) = f[n]
      BY <1>5, FlattenIsLast
    <2>2. n # 0 /\ n \in 1 .. n /\ n <= n + 1 /\ n + 1 \in Nat
      BY <1>5, <1>1, EmptySeq
    <2> HIDE DEF n
    <2>3. f[n] = g[n]
      BY <1>1, <1>2, <2>1, <2>2, FlattensPrefix
    <2> QED BY <1>1, <1>2, <1>3, <2>1, <2>2, <2>3 DEF t
  <1> QED BY <1>4, <1>5

LEMMA ConcatAssoc ==
  \A C : \A a, h, d \in Seq(C) : (a \o h) \o d = a \o (h \o d)
  BY ConcatAssociative, SMT

\* The first sequence is the beginning of the concatenation.
LEMMA FlattenHead ==
  ASSUME NEW C, NEW s \in Seq(Seq(C)), s # << >>
  PROVE  FlattenSeq(s) = Head(s) \o FlattenSeq(Tail(s))
  <1> DEFINE t == Tail(s)
             n == Len(t)
  <1>1. /\ t \in Seq(Seq(C)) /\ Head(s) \in Seq(C) /\ n \in Nat /\ Len(s) = n + 1
        /\ s[1] = Head(s) /\ \A i \in 1 .. n : t[i] = s[i + 1] /\ t[i] \in Seq(C)
    BY HeadTailProperties, LenProperties, ElementOfSeq, EmptySeq
  <1>2. PICK f : Flattens(f, s, n + 1) /\ FlattenSeq(s) = f[n + 1]
    BY <1>1, FlattenIsLast
  <1>3. CASE t = << >>
    <2>1. n = 0 /\ FlattenSeq(t) = << >>
      BY <1>3, EmptySeq DEF FlattenSeq
    <2>2. f[1] = Head(s)
      BY <1>1, <1>2, <2>1 DEF Flattens
    <2>3. Head(s) \o << >> = Head(s)
      <3>1. Head(s) \in Seq(C)
        BY <1>1
      <3> QED BY <3>1, ConcatEmptySeq
    <2>4. n + 1 = 1
      BY <2>1
    <2> QED BY <1>2, <2>1, <2>2, <2>3, <2>4
  <1>4. CASE t # << >>
    <2>1. PICK g : Flattens(g, t, n) /\ FlattenSeq(t) = g[n]
      BY <1>1, <1>4, FlattenIsLast
    <2>2. n \in 1 .. n /\ n \in Nat
      BY <1>1, <1>4, EmptySeq
    <2> HIDE DEF t, n
    <2>3. \A i \in 1 .. n : g[i] \in Seq(C)
      BY <1>1, <2>1, FlattensType DEF n
    <2> DEFINE Bad == {k \in 1 .. n : f[k + 1] # Head(s) \o g[k]}
    <2>4. ASSUME Bad # {} PROVE FALSE
      <3>1. PICK k \in Bad : \A h \in Bad : k <= h
        <4>1. Bad \in SUBSET Nat
          <5>1. Bad \subseteq 1 .. n
            BY Zenon
          <5> HIDE DEF Bad
          <5> QED BY <2>2, <5>1
        <4> HIDE DEF Bad
        <4> QED BY <2>4, <4>1, LeastNumber
      <3>2. k \in 1 .. n /\ k + 1 \in 1 .. n + 1 /\ k + 1 # 1 /\ (k + 1) - 1 = k
        BY <1>1
      <3>3. f[k + 1] = f[k] \o s[k + 1] /\ s[k + 1] = t[k]
        BY <1>1, <1>2, <3>2 DEF Flattens
      <3>4. g[k] = IF k = 1 THEN t[k] ELSE g[k - 1] \o t[k]
        BY <2>1, <3>2 DEF Flattens
      <3>5. CASE k = 1
        <4>1. f[1] = Head(s)
          BY <1>1, <1>2 DEF Flattens
        <4> QED BY <3>3, <3>4, <3>5, <4>1
      <3>6. CASE k # 1
        <4>1. k - 1 \in 1 .. n /\ k - 1 \notin Bad /\ (k - 1) + 1 = k
          <5>1. k \in Nat /\ k - 1 \in Nat /\ ~(k <= k - 1) /\ k - 1 \in 1 .. n
            BY <2>2, <3>2, <3>6
          <5> HIDE DEF Bad
          <5> QED BY <3>1, <5>1
        <4>2. f[k] = Head(s) \o g[k - 1]
          BY <4>1
        <4>3. g[k - 1] \in Seq(C) /\ t[k] \in Seq(C)
          BY <1>1, <2>3, <3>2, <4>1
        <4>4. (Head(s) \o g[k - 1]) \o t[k] = Head(s) \o (g[k - 1] \o t[k])
          <5> HIDE DEF Bad
          <5>1. \A u, v, w \in Seq(C) : (u \o v) \o w = u \o (v \o w)
            BY ConcatAssoc, SMTT(30)
          <5>2. Head(s) \in Seq(C)
            BY <1>1
          <5> QED BY <4>3, <5>1, <5>2
        <4> QED BY <3>3, <3>4, <3>6, <4>2, <4>4
      <3> QED BY <3>5, <3>6
    <2>5. f[n + 1] = Head(s) \o g[n]
      BY <2>2, <2>4
    <2> QED BY <1>2, <2>1, <2>5 DEF t
  <1> QED BY <1>3, <1>4

-----------------------------------------------------------------------------
(* Queues in a row: what is taken from one is put in the next *)

LEMMA ConcatSame ==
  ASSUME NEW C, NEW a \in Seq(C), NEW h \in Seq(C), NEW d \in Seq(C)
  PROVE  /\ a \o h \in Seq(C) /\ (a \o h) \o d = a \o (h \o d)
         /\ a \o << >> = a /\ << >> \o a = a
  BY ConcatProperties, ConcatAssociative, ConcatEmptySeq

\* The first element of a queue goes to the end of the one before it.
LEMMA MoveFirst ==
  ASSUME NEW C, NEW a \in Seq(C), NEW e \in Seq(C), e # << >>
  PROVE  /\ Append(a, Head(e)) \o Tail(e) = a \o e
         /\ Append(a, Head(e)) \in Seq(C) /\ Tail(e) \in Seq(C) /\ Head(e) \in C
  <1>1. /\ Head(e) \in C /\ Tail(e) \in Seq(C) /\ Len(e) \in Nat \ {0} /\ Head(e) = e[1]
    BY HeadTailProperties, LenProperties, EmptySeq
  <1>2. e = << Head(e) >> \o Tail(e)
    <2>1. SubSeq(e, 1, Len(e)) = << e[1] >> \o SubSeq(e, 1 + 1, Len(e))
      <3>1. 1 \in 1 .. Len(e) /\ Len(e) \in 1 .. Len(e)
        BY <1>1
      <3> QED BY <3>1, SubSeqRecursiveFirst
    <2>2. SubSeq(e, 1, Len(e)) = e /\ Tail(e) = SubSeq(e, 2, Len(e)) /\ 1 + 1 = 2
      BY SubSeqFull, TailIsSubSeq
    <2> QED BY <1>1, <2>1, <2>2
  <1>3. << Head(e) >> \in Seq(C)
    BY <1>1
  <1>4. Append(a, Head(e)) = a \o << Head(e) >>
    BY <1>1, AppendIsConcat
  <1>5. (a \o << Head(e) >>) \o Tail(e) = a \o (<< Head(e) >> \o Tail(e))
    BY <1>1, <1>3, ConcatAssociative
  <1>6. Append(a, Head(e)) \in Seq(C)
    BY <1>1, AppendProperties
  <1> QED BY <1>1, <1>2, <1>4, <1>5, <1>6

\* The row of queues from the last to the first.
Held(a, e, F, r) == a \o e \o F \o r

Row(a, e, F, r, o) == Held(a, e, F, r) \o o

LEMMA RowType ==
  ASSUME NEW C, NEW a \in Seq(C), NEW e \in Seq(C), NEW F \in Seq(C), NEW r \in Seq(C)
  PROVE  /\ a \o e \in Seq(C) /\ a \o e \o F \in Seq(C) /\ a \o e \o F \o r \in Seq(C)
         /\ << >> \in Seq(C)
  BY ConcatProperties, EmptySeq

\* Something is put in the first queue.
LEMMA RowIn ==
  ASSUME NEW C, NEW a, NEW e, NEW F, NEW r, Held(a, e, F, r) \in Seq(C),
         NEW k \in Seq(C), NEW x \in Seq(C)
  PROVE  Row(a, e, F, r, k \o x) = Row(a, e, F, r, k) \o x
  <1> DEFINE h == Held(a, e, F, r)
  <1> HIDE DEF h
  <1>1. (h \o k) \o x = h \o (k \o x)
    BY ConcatSame DEF h
  <1> QED BY <1>1 DEF Row, h

\* The next one takes over the first queue.
LEMMA RowTaken ==
  ASSUME NEW C, NEW a \in Seq(C), NEW e \in Seq(C), NEW F \in Seq(C), NEW o \in Seq(C)
  PROVE  Row(a, e, F, << >>, o) = Row(a, e, F, o, << >>)
  <1>1. a \o e \o F \in Seq(C) /\ a \o e \o F \o o \in Seq(C)
    BY RowType
  <1>2. a \o e \o F \o << >> = a \o e \o F /\ a \o e \o F \o o \o << >> = a \o e \o F \o o
    BY <1>1, ConcatEmptySeq
  <1> QED BY <1>2 DEF Row, Held

\* What the next one has is put in the queue of batches.
LEMMA RowQueued ==
  ASSUME NEW C, NEW a \in Seq(C), NEW e \in Seq(C), NEW F \in Seq(C), NEW r \in Seq(C), NEW o
  PROVE  Row(a, e, F \o r, << >>, o) = Row(a, e, F, r, o)
  <1>1. a \o e \in Seq(C) /\ a \o e \o F \o r \in Seq(C)
    BY RowType
  <1>2. (a \o e \o F) \o r = (a \o e) \o (F \o r)
    <2> DEFINE x == a \o e
    <2>1. x \in Seq(C)
      BY <1>1
    <2> HIDE DEF x
    <2>2. (x \o F) \o r = x \o (F \o r)
      BY <2>1, ConcatAssoc, SMTT(30)
    <2> QED BY <2>2 DEF x
  <1>3. (a \o e \o F \o r) \o << >> = a \o e \o F \o r
    BY <1>1, ConcatEmptySeq
  <1> QED BY <1>2, <1>3 DEF Row, Held

\* A batch is taken from the queue.
LEMMA RowBatch ==
  ASSUME NEW C, NEW a \in Seq(C), NEW x \in Seq(C), NEW F \in Seq(C), NEW r, NEW o
  PROVE  Row(a, x, F, r, o) = Row(a, << >>, x \o F, r, o)
  <1>1. (a \o x) \o F = a \o (x \o F) /\ a \o << >> = a
    BY ConcatSame
  <1> QED BY <1>1 DEF Row, Held

\* An element of the batch is done with.
LEMMA RowDone ==
  ASSUME NEW C, NEW a \in Seq(C), NEW e \in Seq(C), e # << >>, NEW F, NEW r, NEW o
  PROVE  Row(Append(a, Head(e)), Tail(e), F, r, o) = Row(a, e, F, r, o)
  BY MoveFirst DEF Row, Held

\* A row with nobody between the first queue and the queue of batches.
Short(a, e, F, o) == a \o e \o F \o o

LEMMA RowShort ==
  ASSUME NEW C, NEW a \in Seq(C), NEW e \in Seq(C), NEW F \in Seq(C), NEW o
  PROVE  Row(a, e, F, << >>, o) = Short(a, e, F, o)
  <1>1. a \o e \o F \in Seq(C)
    BY RowType
  <1>2. (a \o e \o F) \o << >> = a \o e \o F
    BY <1>1, ConcatEmptySeq
  <1> QED BY <1>2 DEF Row, Held, Short

-----------------------------------------------------------------------------
(* Queues by their indices *)

\* Putting an element at the end.
LEMMA AppendIdx ==
  ASSUME NEW C, NEW s \in Seq(C), NEW x \in C
  PROVE  /\ Append(s, x) \in Seq(C) /\ Len(s) \in Nat /\ Len(Append(s, x)) = Len(s) + 1
         /\ DOMAIN s = 1 .. Len(s) /\ DOMAIN Append(s, x) = 1 .. Len(s) + 1
         /\ \A k \in 1 .. Len(s) : Append(s, x)[k] = s[k]
         /\ Append(s, x)[Len(s) + 1] = x
         /\ Range(Append(s, x)) = Range(s) \cup {x}
  <1>1. /\ Append(s, x) \in Seq(C) /\ Len(s) \in Nat /\ Len(Append(s, x)) = Len(s) + 1
        /\ DOMAIN s = 1 .. Len(s) /\ DOMAIN Append(s, x) = 1 .. Len(s) + 1
        /\ \A k \in 1 .. Len(s) : Append(s, x)[k] = s[k]
        /\ Append(s, x)[Len(s) + 1] = x
    BY AppendProperties, LenProperties
  <1>2. Range(Append(s, x)) \subseteq Range(s) \cup {x}
    <2>1. \A k \in 1 .. Len(s) + 1 : k \in 1 .. Len(s) \/ k = Len(s) + 1
      BY <1>1
    <2> QED BY <1>1, <2>1 DEF Range
  <1>3. Range(s) \cup {x} \subseteq Range(Append(s, x))
    <2>1. Len(s) + 1 \in 1 .. Len(s) + 1 /\ \A k \in 1 .. Len(s) : k \in 1 .. Len(s) + 1
      BY <1>1
    <2> QED BY <1>1, <2>1 DEF Range
  <1> QED BY <1>1, <1>2, <1>3

\* Taking the first element.
LEMMA TailIdx ==
  ASSUME NEW C, NEW s \in Seq(C), s # << >>
  PROVE  /\ Head(s) \in C /\ Tail(s) \in Seq(C) /\ Len(s) \in Nat \ {0}
         /\ DOMAIN s = 1 .. Len(s) /\ DOMAIN Tail(s) = 1 .. Len(s) - 1
         /\ Len(Tail(s)) = Len(s) - 1
         /\ Head(s) = s[1] /\ \A k \in 1 .. Len(s) - 1 : Tail(s)[k] = s[k + 1]
         /\ Range(s) = Range(Tail(s)) \cup {Head(s)}
  <1>1. /\ Head(s) \in C /\ Tail(s) \in Seq(C) /\ Len(s) \in Nat \ {0}
        /\ DOMAIN s = 1 .. Len(s) /\ DOMAIN Tail(s) = 1 .. Len(s) - 1
        /\ Len(Tail(s)) = Len(s) - 1
        /\ Head(s) = s[1] /\ \A k \in 1 .. Len(s) - 1 : Tail(s)[k] = s[k + 1]
    BY HeadTailProperties, LenProperties, EmptySeq
  <1>2. Range(s) \subseteq Range(Tail(s)) \cup {Head(s)}
    <2>1. \A k \in 1 .. Len(s) : k = 1 \/ (k - 1 \in 1 .. Len(s) - 1 /\ (k - 1) + 1 = k)
      BY <1>1
    <2>2. ASSUME NEW k \in 1 .. Len(s) PROVE s[k] \in Range(Tail(s)) \cup {Head(s)}
      <3>1. CASE k = 1
        BY <1>1, <3>1
      <3>2. CASE k - 1 \in 1 .. Len(s) - 1 /\ (k - 1) + 1 = k
        <4>1. Tail(s)[k - 1] = s[k]
          BY <1>1, <3>2
        <4> QED BY <1>1, <3>2, <4>1 DEF Range
      <3> QED BY <2>1, <3>1, <3>2
    <2> QED BY <1>1, <2>2 DEF Range
  <1>3. Range(Tail(s)) \cup {Head(s)} \subseteq Range(s)
    <2>1. 1 \in 1 .. Len(s) /\ \A k \in 1 .. Len(s) - 1 : k + 1 \in 1 .. Len(s)
      BY <1>1
    <2> QED BY <1>1, <2>1 DEF Range
  <1> QED BY <1>1, <1>2, <1>3

\* The greatest element of a set is the one that is greatest.
LEMMA MaxIs ==
  ASSUME NEW k \in Nat, NEW S \in SUBSET (1 .. k), k \in S
  PROVE  Max(S) = k
  <1>1. \A x \in S : (\A y \in S : x >= y) => x = k
    <2>1. \A x \in S : x \in 1 .. k
      OBVIOUS
    <2> QED BY <2>1
  <1>2. \A y \in S : k >= y
    OBVIOUS
  <1> QED BY <1>1, <1>2 DEF Max

\* Removing an element from a sequence.
LEMMA RemoveIdx ==
  ASSUME NEW C, NEW s \in Seq(C), NEW n \in 1 .. Len(s)
  PROVE  /\ RemoveAt(s, n) \in Seq(C) /\ Len(s) \in Nat /\ Len(RemoveAt(s, n)) = Len(s) - 1
         /\ DOMAIN s = 1 .. Len(s) /\ DOMAIN RemoveAt(s, n) = 1 .. Len(s) - 1
         /\ \A k \in 1 .. Len(s) - 1 : RemoveAt(s, n)[k] = IF k < n THEN s[k] ELSE s[k + 1]
  <1> DEFINE p == SubSeq(s, 1, n - 1)
             q == SubSeq(s, n + 1, Len(s))
  <1>1. Len(s) \in Nat /\ DOMAIN s = 1 .. Len(s) /\ n \in Nat \ {0} /\ n <= Len(s)
    BY LenProperties
  <1>2. \A k \in 1 .. Len(s) : s[k] \in C
    BY ElementOfSeq
  <1>3. p \in Seq(C) /\ Len(p) = n - 1 /\ \A k \in 1 .. n - 1 : p[k] = s[k]
    <2>1. 1 \in Int /\ n - 1 \in Int /\ \A k \in 1 .. n - 1 : s[k] \in C
      BY <1>1, <1>2
    <2>2. /\ p \in Seq(C) /\ Len(p) = IF 1 <= n - 1 THEN (n - 1) - 1 + 1 ELSE 0
          /\ \A k \in 1 .. (n - 1) - 1 + 1 : p[k] = s[1 + k - 1]
      BY <2>1, SubSeqProperties
    <2>3. (n - 1) - 1 + 1 = n - 1 /\ (~(1 <= n - 1) => n - 1 = 0) /\ \A k \in 1 .. n - 1 : 1 + k - 1 = k
      BY <1>1
    <2> QED BY <2>2, <2>3
  <1>4. q \in Seq(C) /\ Len(q) = Len(s) - n /\ \A k \in 1 .. Len(s) - n : q[k] = s[n + k]
    <2>1. n + 1 \in Int /\ Len(s) \in Int /\ \A k \in n + 1 .. Len(s) : s[k] \in C
      BY <1>1, <1>2
    <2>2. /\ q \in Seq(C) /\ Len(q) = IF n + 1 <= Len(s) THEN Len(s) - (n + 1) + 1 ELSE 0
          /\ \A k \in 1 .. Len(s) - (n + 1) + 1 : q[k] = s[(n + 1) + k - 1]
      BY <2>1, SubSeqProperties
    <2>3. Len(s) - (n + 1) + 1 = Len(s) - n
      BY <1>1
    <2>4. n + 1 <= Len(s) \/ Len(s) - n = 0
      <3>1. \A x, y \in Nat : x <= y => x + 1 <= y \/ y - x = 0
        OBVIOUS
      <3> QED BY <1>1, <3>1
    <2>5. \A k \in 1 .. Len(s) - n : (n + 1) + k - 1 = n + k
      BY <1>1
    <2> QED BY <2>2, <2>3, <2>4, <2>5
  <1>5. RemoveAt(s, n) = p \o q
    BY DEF RemoveAt
  <1> HIDE DEF p, q
  <1>6. /\ p \o q \in Seq(C) /\ Len(p \o q) = Len(p) + Len(q)
        /\ \A k \in 1 .. Len(p) + Len(q) : (p \o q)[k] = IF k <= Len(p) THEN p[k] ELSE q[k - Len(p)]
    BY <1>3, <1>4, ConcatProperties
  <1>7. Len(p) + Len(q) = Len(s) - 1
    BY <1>1, <1>3, <1>4
  <1>8. ASSUME NEW k \in 1 .. Len(s) - 1
        PROVE  (p \o q)[k] = IF k < n THEN s[k] ELSE s[k + 1]
    <2>1. CASE k < n
      BY <1>1, <1>3, <1>6, <1>7, <2>1
    <2>2. CASE ~(k < n)
      <3>1. ~(k <= n - 1) /\ k - (n - 1) \in 1 .. Len(s) - n /\ n + (k - (n - 1)) = k + 1
        BY <1>1, <2>2
      <3>2. k \in 1 .. Len(p) + Len(q) /\ Len(p) = n - 1
        BY <1>3, <1>7
      <3>3. (p \o q)[k] = q[k - (n - 1)]
        BY <1>6, <3>1, <3>2
      <3>4. q[k - (n - 1)] = s[n + (k - (n - 1))]
        BY <1>4, <3>1
      <3> QED BY <2>2, <3>1, <3>3, <3>4
    <2> QED BY <2>1, <2>2
  <1>9. DOMAIN (p \o q) = 1 .. Len(s) - 1
    BY <1>6, <1>7, LenProperties
  <1> QED BY <1>1, <1>5, <1>6, <1>7, <1>8, <1>9

\* A finite set in some order.
LEMMA SetToSeqIn ==
  ASSUME NEW S, IsFiniteSet(S)
  PROVE  SetToSeq(S) \in Seq(S)
  <1>1. Cardinality(S) \in Nat /\ ExistsBijection(1 .. Cardinality(S), S)
    BY FS_CardinalityType, FS_NatBijection
  <1>2. \E f \in [1 .. Cardinality(S) -> S] : \A x, y \in DOMAIN f : f[x] = f[y] => x = y
    BY <1>1 DEF ExistsBijection, Bijection, Injection, IsInjective
  <1>3. SetToSeq(S) \in [1 .. Cardinality(S) -> S]
    BY <1>2 DEF SetToSeq, IsInjective
  <1> QED BY <1>1, <1>3, SeqDef

\* A nonempty sequence has a last element.
LEMMA LastOf ==
  ASSUME NEW C, NEW s \in Seq(C), s # << >>
  PROVE  \E t \in Seq(C), c \in C : s = Append(t, c) /\ Len(s) = Len(t) + 1
  <1> DEFINE n == Len(s) - 1
             t == [k \in 1 .. n |-> s[k]]
  <1>1. Len(s) \in Nat /\ Len(s) # 0 /\ \A k \in 1 .. Len(s) : s[k] \in C
    BY LenProperties, ElementOfSeq, EmptySeq
  <1>2. n \in Nat /\ Len(s) = n + 1 /\ \A k \in 1 .. n : k \in 1 .. Len(s)
    BY <1>1
  <1>3. t \in [1 .. n -> C] /\ \A k \in 1 .. n : t[k] = s[k]
    BY <1>1, <1>2
  <1> HIDE DEF n, t
  <1>4. t \in Seq(C) /\ Len(t) = n
    BY <1>2, <1>3, FunctionIsSequence
  <1> DEFINE u == Append(t, s[n + 1])
  <1>5. s[n + 1] \in C
    BY <1>1, <1>2
  <1>6. u \in Seq(C) /\ Len(u) = n + 1 /\ u[n + 1] = s[n + 1] /\ \A k \in 1 .. n : u[k] = t[k]
    BY <1>4, <1>5, AppendIdx
  <1> HIDE DEF u
  <1>7. \A k \in 1 .. n + 1 : k \in 1 .. n \/ k = n + 1
    BY <1>2
  <1>8. \A k \in 1 .. n + 1 : u[k] = s[k]
    BY <1>3, <1>6, <1>7
  <1>9. s = u
    BY <1>2, <1>6, <1>8, SeqEqual
  <1> QED BY <1>2, <1>4, <1>5, <1>9 DEF u

\* What holds of the empty sequence and is kept by Append holds of every sequence.
LEMMA SeqInduct ==
  ASSUME NEW C, NEW G \in SUBSET Seq(C), << >> \in G, \A s \in G, c \in C : Append(s, c) \in G
  PROVE  Seq(C) = G
  <1> DEFINE Bad == {n \in Nat : \E s \in Seq(C) \ G : Len(s) = n}
  <1>1. SUFFICES ASSUME Bad # {} PROVE FALSE
    BY LenProperties
  <1>2. PICK n \in Bad : \A m \in Bad : n <= m
    <2>1. Bad \in SUBSET Nat
      OBVIOUS
    <2> HIDE DEF Bad
    <2> QED BY <1>1, <2>1, LeastNumber
  <1>3. PICK s \in Seq(C) \ G : Len(s) = n
    OBVIOUS
  <1>4. s # << >>
    BY <1>3
  <1>5. PICK t \in Seq(C), c \in C : s = Append(t, c) /\ Len(s) = Len(t) + 1
    BY <1>4, LastOf
  <1>6. t \notin G
    BY <1>3, <1>5
  <1>7. Len(t) \in Nat /\ Len(t) < n /\ n \in Nat
    BY <1>3, <1>5, LenProperties
  <1>8. Len(t) \in Bad
    BY <1>6, <1>7
  <1> HIDE DEF Bad
  <1> QED BY <1>2, <1>7, <1>8
=============================================================================
