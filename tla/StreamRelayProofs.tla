--------------------------- MODULE StreamRelayProofs ---------------------------
(***************************************************************************)
(* The relay keeps the safety part of its promise for any number of lines,  *)
(* however both streams are cut.                                           *)
(*                                                                         *)
(* Lines are numbers and kinds, and a stream is pieces of them; the lemmas  *)
(* say how selecting from a sequence, cutting into pieces and parsing go     *)
(* with appending.  Induction is stated over sets of numbers and of          *)
(* sequences, so that no lemma takes an operator.                          *)
(***************************************************************************)
EXTENDS StreamRelayProps, SequenceTheorems, WellFoundedInduction, TLAPS

-----------------------------------------------------------------------------
(* Induction *)

\* A set of numbers with 0 and with every successor has all numbers.
LEMMA NumbersInduction ==
    ASSUME NEW A \in SUBSET Nat, 0 \in A, \A n \in A : n + 1 \in A
    PROVE  A = Nat
<1> DEFINE Rest1 == Nat \ A
<1>1. SUFFICES ASSUME Rest1 # {} PROVE FALSE
  OBVIOUS
<1>2. PICK m \in Rest1 : \A k \in Rest1 : ~(<<k, m>> \in OpToRel(<, Nat))
  <2>1. Rest1 \subseteq Nat
    OBVIOUS
  <2> HIDE DEF Rest1
  <2>2. QED
    BY <1>1, <2>1, NatLessThanWellFounded, WFMin, Zenon
<1>3. \A k \in Rest1 : ~(k < m)
  BY <1>2, Zenon DEF OpToRel
<1>4. m \in Nat /\ m # 0 /\ m - 1 \in Nat /\ m - 1 < m
  OBVIOUS
<1>5. m - 1 \notin Rest1
  BY <1>3, <1>4
<1>6. QED
  BY <1>4, <1>5

\* A set of sequences with the empty one and with every extension has all sequences.
LEMMA SequencesInduction ==
    ASSUME NEW T, NEW A \in SUBSET Seq(T), <<>> \in A, \A s \in A, x \in T : Append(s, x) \in A
    PROVE  A = Seq(T)
<1> DEFINE B == {n \in Nat : \A s \in Seq(T) : Len(s) = n => s \in A}
<1>1. 0 \in B
  BY EmptySeq
<1>2. ASSUME NEW n \in B
      PROVE  n + 1 \in B
  <2>1. ASSUME NEW s \in Seq(T), Len(s) = n + 1
        PROVE  s \in A
    <3>1. s # <<>>
      BY <2>1, EmptySeq
    <3>2. PICK t \in Seq(T), x \in T : s = Append(t, x)
      BY <3>1, SequenceEmptyOrAppend
    <3>3. Len(t) = n
      BY <2>1, <3>2, AppendProperties, LenProperties
    <3>4. QED
      BY <3>2, <3>3
  <2>2. QED
    BY <2>1
<1>3. B = Nat
  <2> HIDE DEF B
  <2>1. B \in SUBSET Nat
    BY DEF B
  <2>2. QED
    BY <1>1, <1>2, <2>1, NumbersInduction
<1>4. QED
  BY <1>3, LenProperties
-----------------------------------------------------------------------------
(* Selecting from a sequence *)

\* g[i] is what the first i members of s have in Q.
Selects(s, Q, n, g) ==
    g = [i \in 0..n |-> IF i = 0 THEN <<>>
                        ELSE IF i \in Q THEN Append(g[i - 1], s[i]) ELSE g[i - 1]]

LEMMA SelectsUnfolds ==
    ASSUME NEW s, NEW Q, NEW n \in Nat, NEW g, Selects(s, Q, n, g)
    PROVE  /\ g[0] = <<>>
           /\ \A i \in 1..n : g[i] = IF i \in Q THEN Append(g[i - 1], s[i]) ELSE g[i - 1]
<1> DEFINE val(i) == IF i = 0 THEN <<>>
                     ELSE IF i \in Q THEN Append(g[i - 1], s[i]) ELSE g[i - 1]
<1>1. g = [i \in 0..n |-> val(i)]
  BY DEF Selects
<1>2. \A i \in 0..n : g[i] = val(i)
  <2> HIDE DEF val
  <2>1. QED
    BY <1>1
<1>3. QED
  BY <1>2

LEMMA SelectsStart ==
    ASSUME NEW s, NEW Q, NEW n \in Nat, NEW g, Selects(s, Q, n, g)
    PROVE  g[0] = <<>>
BY SelectsUnfolds

\* The recursion has a solution for every length.
LEMMA SelectsExists ==
    ASSUME NEW s, NEW Q, NEW n \in Nat
    PROVE  \E g : Selects(s, Q, n, g)
<1> DEFINE A == {m \in Nat : \E g : Selects(s, Q, m, g)}
<1>1. 0 \in A
  <2> DEFINE g == [i \in 0..0 |-> <<>>]
  <2>1. g = [i \in 0..0 |-> IF i = 0 THEN <<>>
                            ELSE IF i \in Q THEN Append(g[i - 1], s[i]) ELSE g[i - 1]]
    OBVIOUS
  <2>2. QED
    BY <2>1 DEF Selects
<1>2. ASSUME NEW m \in A
      PROVE  m + 1 \in A
  <2>1. PICK g : Selects(s, Q, m, g)
    BY <1>2
  <2> DEFINE last == IF m + 1 \in Q THEN Append(g[m], s[m + 1]) ELSE g[m]
             h == [i \in 0..(m + 1) |-> IF i = m + 1 THEN last ELSE g[i]]
             val(i) == IF i = 0 THEN <<>>
                       ELSE IF i \in Q THEN Append(h[i - 1], s[i]) ELSE h[i - 1]
  <2>2. \A i \in 0..m : h[i] = g[i]
    OBVIOUS
  <2>3. h[m + 1] = val(m + 1)
    OBVIOUS
  <2>4. ASSUME NEW i \in 0..m
        PROVE  h[i] = val(i)
    <3>1. CASE i = 0
      BY <2>1, <2>2, <3>1, SelectsUnfolds
    <3>2. CASE i # 0
      <4>1. i - 1 \in 0..m /\ i \in 1..m
        BY <3>2
      <4>2. g[i] = IF i \in Q THEN Append(g[i - 1], s[i]) ELSE g[i - 1]
        BY <2>1, <4>1, SelectsUnfolds
      <4>3. h[i] = g[i] /\ h[i - 1] = g[i - 1]
        BY <2>2, <4>1
      <4> HIDE DEF h
      <4>4. QED
        BY <3>2, <4>2, <4>3
    <3>3. QED
      BY <3>1, <3>2
  <2>5. h = [i \in 0..(m + 1) |-> val(i)]
    <3>1. \A i \in 0..(m + 1) : h[i] = val(i)
      <4>1. \A i \in 0..(m + 1) : i \in 0..m \/ i = m + 1
        OBVIOUS
      <4> HIDE DEF h, val
      <4>2. QED
        BY <2>3, <2>4, <4>1
    <3>2. h = [i \in 0..(m + 1) |-> h[i]]
      OBVIOUS
    <3> HIDE DEF h, val
    <3>3. QED
      BY <3>1, <3>2
  <2>6. Selects(s, Q, m + 1, h)
    <3> HIDE DEF h
    <3>1. QED
      BY <2>5 DEF Selects
  <2>7. QED
    BY <2>6
<1>3. A = Nat
  <2>1. A \in SUBSET Nat
    OBVIOUS
  <2> HIDE DEF A
  <2>2. QED
    BY <1>1, <1>2, <2>1, NumbersInduction
<1>4. QED
  BY <1>3

LEMMA SelectIsSelects ==
    ASSUME NEW s, NEW Q, Len(s) \in Nat
    PROVE  \E g : Selects(s, Q, Len(s), g) /\ Select(s, Q) = g[Len(s)]
<1> DEFINE g == CHOOSE h : Selects(s, Q, Len(s), h)
<1>1. Selects(s, Q, Len(s), g)
  BY SelectsExists
<1>2. Select(s, Q) = g[Len(s)]
  BY DEF Select, Selects
<1>3. QED
  BY <1>1, <1>2

\* What is selected depends on no more than the beginning it is selected from.
Same(s, t, Q, R, k) == \A i \in 1..k : s[i] = t[i] /\ (i \in Q <=> i \in R)

LEMMA SelectsAgree ==
    ASSUME NEW s, NEW t, NEW Q, NEW R, NEW m \in Nat, NEW n \in Nat, NEW k \in Nat,
           k <= m, k <= n,
           NEW g, Selects(s, Q, m, g), NEW h, Selects(t, R, n, h),
           Same(s, t, Q, R, k)
    PROVE  g[k] = h[k]
<1> DEFINE A == {i \in Nat : i <= k => g[i] = h[i]}
<1>1. 0 \in A
  <2>1. g[0] = <<>>
    BY SelectsStart
  <2>3. h[0] = <<>>
    BY SelectsStart
  <2>2. QED
    BY <2>1, <2>3
<1>2. ASSUME NEW i \in A
      PROVE  i + 1 \in A
  <2>1. SUFFICES ASSUME i + 1 <= k PROVE g[i + 1] = h[i + 1]
    OBVIOUS
  <2>2. i + 1 \in 1..m /\ i + 1 \in 1..n /\ i + 1 \in 1..k /\ (i + 1) - 1 = i
    BY <2>1
  <2>3. g[i + 1] = IF i + 1 \in Q THEN Append(g[i], s[i + 1]) ELSE g[i]
    BY <2>2, SelectsUnfolds
  <2>4. h[i + 1] = IF i + 1 \in R THEN Append(h[i], t[i + 1]) ELSE h[i]
    BY <2>2, SelectsUnfolds
  <2>5. g[i] = h[i] /\ s[i + 1] = t[i + 1] /\ (i + 1 \in Q <=> i + 1 \in R)
    BY <1>2, <2>1, <2>2 DEF Same
  <2>6. QED
    BY <2>3, <2>4, <2>5
<1>3. A = Nat
  <2>1. A \in SUBSET Nat
    OBVIOUS
  <2> HIDE DEF A
  <2>2. QED
    BY <1>1, <1>2, <2>1, NumbersInduction
<1>4. QED
  BY <1>3

\* How selecting goes with appending.
LEMMA SelectNone ==
    ASSUME NEW Q
    PROVE  Select(<<>>, Q) = <<>>
<1>1. Len(<<>>) = 0
  BY EmptySeq
<1>2. PICK g : Selects(<<>>, Q, Len(<<>>), g) /\ Select(<<>>, Q) = g[Len(<<>>)]
  BY <1>1, SelectIsSelects
<1>3. QED
  BY <1>1, <1>2, SelectsUnfolds

LEMMA SelectOneMore ==
    ASSUME NEW T, NEW s \in Seq(T), NEW x \in T, NEW Q, NEW R,
           \A i \in 1..Len(s) : i \in Q <=> i \in R
    PROVE  Select(Append(s, x), R) =
              IF Len(s) + 1 \in R THEN Append(Select(s, Q), x) ELSE Select(s, Q)
<1> DEFINE t == Append(s, x)
<1>1. /\ Len(s) \in Nat /\ Len(t) = Len(s) + 1 /\ t[Len(s) + 1] = x
      /\ \A i \in 1..Len(s) : s[i] = t[i]
  BY LenProperties, AppendProperties
<1> HIDE DEF t
<1>2. PICK g : Selects(s, Q, Len(s), g) /\ Select(s, Q) = g[Len(s)]
  BY <1>1, SelectIsSelects
<1>3. PICK h : Selects(t, R, Len(t), h) /\ Select(t, R) = h[Len(t)]
  BY <1>1, SelectIsSelects
<1>4. g[Len(s)] = h[Len(s)]
  <2>1. Len(s) \in Nat /\ Len(t) \in Nat /\ Len(s) <= Len(s) /\ Len(s) <= Len(t)
    BY <1>1
  <2>2. Same(s, t, Q, R, Len(s))
    BY <1>1 DEF Same
  <2>3. QED
    BY <1>2, <1>3, <2>1, <2>2, SelectsAgree
<1>5. h[Len(s) + 1] = IF Len(s) + 1 \in R THEN Append(h[Len(s)], t[Len(s) + 1]) ELSE h[Len(s)]
  <2>1. Len(s) + 1 \in 1..Len(t) /\ (Len(s) + 1) - 1 = Len(s) /\ Len(t) \in Nat
    BY <1>1
  <2>2. QED
    BY <1>3, <2>1, SelectsUnfolds
<1>6. QED
  BY <1>1, <1>2, <1>3, <1>4, <1>5 DEF t

LEMMA SelectTyped ==
    ASSUME NEW T, NEW s \in Seq(T), NEW Q
    PROVE  Select(s, Q) \in Seq(T)
<1> DEFINE A == {t \in Seq(T) : Select(t, Q) \in Seq(T)}
<1>1. <<>> \in A
  BY SelectNone, EmptySeq
<1>2. ASSUME NEW t \in A, NEW x \in T
      PROVE  Append(t, x) \in A
  <2>1. Select(Append(t, x), Q) =
           IF Len(t) + 1 \in Q THEN Append(Select(t, Q), x) ELSE Select(t, Q)
    BY SelectOneMore
  <2>2. Append(t, x) \in Seq(T) /\ Append(Select(t, Q), x) \in Seq(T)
    BY AppendProperties
  <2>3. QED
    BY <2>1, <2>2
<1>3. A = Seq(T)
  <2>1. A \in SUBSET Seq(T)
    OBVIOUS
  <2> HIDE DEF A
  <2>2. QED
    BY <1>1, <1>2, <2>1, SequencesInduction
<1>4. QED
  BY <1>3
-----------------------------------------------------------------------------
(* The lines of some kinds, and their text *)

LEMMA ConcatOneMore ==
    ASSUME NEW T, NEW s \in Seq(T), NEW t \in Seq(T), NEW x \in T
    PROVE  s \o Append(t, x) = Append(s \o t, x)
<1>1. s \o t \in Seq(T) /\ <<x>> \in Seq(T)
  BY ConcatProperties
<1>2. Append(t, x) = t \o <<x>> /\ Append(s \o t, x) = (s \o t) \o <<x>>
  BY <1>1, AppendIsConcat
<1>3. (s \o t) \o <<x>> = s \o (t \o <<x>>)
  BY <1>1, ConcatAssociative
<1>4. QED
  BY <1>2, <1>3

LEMMA OfKindNone == \A kinds : OfKind(<<>>, kinds) = <<>>
BY SelectNone DEF OfKind

LEMMA OfKindTyped ==
    ASSUME NEW s \in Seq(Lines), NEW kinds
    PROVE  OfKind(s, kinds) \in Seq(Lines)
BY SelectTyped DEF OfKind

LEMMA OfKindOneMore ==
    ASSUME NEW s \in Seq(Lines), NEW x \in Lines, NEW kinds
    PROVE  OfKind(Append(s, x), kinds) =
              IF x.is \in kinds THEN Append(OfKind(s, kinds), x) ELSE OfKind(s, kinds)
<1> DEFINE t == Append(s, x)
           Q == {k \in DOMAIN s : s[k].is \in kinds}
           R == {k \in DOMAIN t : t[k].is \in kinds}
<1>1. /\ Len(s) \in Nat /\ t \in Seq(Lines) /\ Len(t) = Len(s) + 1 /\ t[Len(s) + 1] = x
      /\ \A i \in 1..Len(s) : t[i] = s[i]
      /\ DOMAIN s = 1..Len(s) /\ DOMAIN t = 1..Len(t)
  BY LenProperties, AppendProperties
<1>2. \A i \in 1..Len(s) : i \in Q <=> i \in R
  BY <1>1
<1>3. Len(s) + 1 \in R <=> x.is \in kinds
  BY <1>1
<1> HIDE DEF Q, R
<1>4. Select(t, R) = IF Len(s) + 1 \in R THEN Append(Select(s, Q), x) ELSE Select(s, Q)
  BY <1>2, SelectOneMore
<1>5. QED
  BY <1>3, <1>4 DEF OfKind, Q, R

LEMMA TextNone == Text(<<>>) = <<>>
BY OfKindNone DEF Text

LEMMA TextTyped ==
    ASSUME NEW s \in Seq(Lines)
    PROVE  Text(s) \in Seq(Nat) /\ Len(Text(s)) = Len(OfKind(s, {"text"}))
<1> DEFINE t == OfKind(s, {"text"})
<1>1. t \in Seq(Lines) /\ Len(t) \in Nat /\ DOMAIN t = 1..Len(t)
  BY OfKindTyped, LenProperties
<1> HIDE DEF t
<1>2. \A k \in 1..Len(t) : t[k] \in Lines
  BY <1>1, ElementOfSeq
<1>3. \A k \in 1..Len(t) : t[k].of \in Nat
  BY <1>2 DEF Lines
<1>4. Text(s) = [k \in 1..Len(t) |-> t[k].of]
  BY <1>1 DEF Text, t
<1>5. Text(s) \in Seq(Nat) /\ Len(Text(s)) = Len(t)
  BY <1>1, <1>3, <1>4
<1>6. QED
  BY <1>5 DEF t

LEMMA TextOneMore ==
    ASSUME NEW s \in Seq(Lines), NEW x \in Lines
    PROVE  Text(Append(s, x)) = IF x.is = "text" THEN Append(Text(s), x.of) ELSE Text(s)
<1> DEFINE t == OfKind(s, {"text"})
           u == OfKind(Append(s, x), {"text"})
<1>1. u = IF x.is = "text" THEN Append(t, x) ELSE t
  BY OfKindOneMore
<1>2. t \in Seq(Lines) /\ Len(t) \in Nat /\ DOMAIN t = 1..Len(t)
  BY OfKindTyped, LenProperties
<1>3. Text(s) = [k \in DOMAIN t |-> t[k].of] /\ Text(Append(s, x)) = [k \in DOMAIN u |-> u[k].of]
  BY DEF Text
<1>4. Text(s) \in Seq(Nat) /\ Len(Text(s)) = Len(t)
  BY TextTyped
<1> HIDE DEF t, u
<1>5. CASE x.is # "text"
  BY <1>1, <1>3, <1>5
<1>6. CASE x.is = "text"
  <2>1. /\ u \in Seq(Lines) /\ Len(u) = Len(t) + 1 /\ u[Len(t) + 1] = x
        /\ \A k \in 1..Len(t) : u[k] = t[k]
        /\ DOMAIN u = 1..Len(u)
    BY <1>1, <1>2, <1>6, AppendProperties, LenProperties
  <2> DEFINE v == Append(Text(s), x.of)
  <2>2. x.of \in Nat
    BY DEF Lines
  <2>3. /\ v \in Seq(Nat) /\ Len(v) = Len(t) + 1 /\ v[Len(t) + 1] = x.of
        /\ \A k \in 1..Len(t) : v[k] = Text(s)[k]
    BY <1>4, <2>2, AppendProperties
  <2>4. \A k \in 1..Len(t) : Text(s)[k] = t[k].of
    BY <1>2, <1>3
  <2> HIDE DEF v
  <2>5. DOMAIN v = 1..(Len(t) + 1) /\ v = [k \in 1..(Len(t) + 1) |-> v[k]]
    BY <1>2, <2>3, LenProperties
  <2>6. \A k \in 1..(Len(t) + 1) : v[k] = u[k].of
    <3>1. \A k \in 1..(Len(t) + 1) : k \in 1..Len(t) \/ k = Len(t) + 1
      BY <1>2
    <3>2. QED
      BY <2>1, <2>3, <2>4, <3>1
  <2>7. v = [k \in 1..(Len(t) + 1) |-> u[k].of]
    BY <2>5, <2>6
  <2>8. QED
    BY <1>3, <1>6, <2>1, <2>7 DEF v
<1>7. QED
  BY <1>5, <1>6

\* Text goes with concatenation.
LEMMA TextOfConcat ==
    ASSUME NEW s \in Seq(Lines), NEW t \in Seq(Lines)
    PROVE  Text(s \o t) = Text(s) \o Text(t)
<1> DEFINE A == {u \in Seq(Lines) : Text(s \o u) = Text(s) \o Text(u)}
<1>1. <<>> \in A
  BY TextNone, TextTyped, ConcatEmptySeq, EmptySeq
<1>2. ASSUME NEW u \in A, NEW x \in Lines
      PROVE  Append(u, x) \in A
  <2>1. s \o u \in Seq(Lines) /\ s \o Append(u, x) = Append(s \o u, x)
    BY ConcatOneMore, ConcatProperties
  <2>2. Text(s \o Append(u, x)) = IF x.is = "text" THEN Append(Text(s \o u), x.of) ELSE Text(s \o u)
    BY <2>1, TextOneMore
  <2>3. Text(Append(u, x)) = IF x.is = "text" THEN Append(Text(u), x.of) ELSE Text(u)
    BY TextOneMore
  <2>4. Text(s) \in Seq(Nat) /\ Text(u) \in Seq(Nat) /\ x.of \in Nat
    BY TextTyped DEF Lines
  <2>5. Append(Text(s) \o Text(u), x.of) = Text(s) \o Append(Text(u), x.of)
    <3> DEFINE N == Nat
               a == Text(s)
               b == Text(u)
               c == x.of
    <3>1. a \in Seq(N) /\ b \in Seq(N) /\ c \in N
      BY <2>4
    <3> HIDE DEF N, a, b, c
    <3>2. a \o Append(b, c) = Append(a \o b, c)
      BY <3>1, ConcatOneMore
    <3>3. QED
      BY <3>2 DEF a, b, c
  <2>6. Append(u, x) \in Seq(Lines)
    BY AppendProperties
  <2>7. QED
    BY <2>2, <2>3, <2>5, <2>6
<1>3. A = Seq(Lines)
  <2>1. A \in SUBSET Seq(Lines)
    OBVIOUS
  <2> HIDE DEF A
  <2>2. QED
    BY <1>1, <1>2, <2>1, SequencesInduction
<1>4. QED
  BY <1>3

\* What the adapter passes on keeps the text and nothing hidden.
LEMMA TextOfDeltas ==
    ASSUME NEW s \in Seq(Lines)
    PROVE  LET deltas == OfKind(s, {"text", "tool"})
           IN  Text(deltas) = Text(s) /\ OnlyKinds(deltas, {"text", "tool"})
<1> DEFINE D(u) == OfKind(u, {"text", "tool"})
           A == {u \in Seq(Lines) : Text(D(u)) = Text(u) /\ OnlyKinds(D(u), {"text", "tool"})}
<1>1. <<>> \in A
  BY TextNone, OfKindNone, EmptySeq DEF OnlyKinds
<1>2. ASSUME NEW u \in A, NEW x \in Lines
      PROVE  Append(u, x) \in A
  <2> DEFINE d == D(u)
             e == D(Append(u, x))
  <2>1. e = IF x.is \in {"text", "tool"} THEN Append(d, x) ELSE d
    BY OfKindOneMore
  <2>2. d \in Seq(Lines) /\ Append(u, x) \in Seq(Lines)
    BY OfKindTyped, AppendProperties
  <2>3. Text(Append(u, x)) = IF x.is = "text" THEN Append(Text(u), x.of) ELSE Text(u)
    BY TextOneMore
  <2>4. Text(d) = Text(u) /\ OnlyKinds(d, {"text", "tool"})
    BY <1>2
  <2> HIDE DEF d, e
  <2>5. Text(Append(d, x)) = IF x.is = "text" THEN Append(Text(d), x.of) ELSE Text(d)
    BY <2>2, TextOneMore
  <2>6. Text(e) = Text(Append(u, x))
    BY <2>1, <2>3, <2>4, <2>5
  <2>7. OnlyKinds(e, {"text", "tool"})
    <3>1. /\ Len(d) \in Nat /\ DOMAIN d = 1..Len(d)
          /\ DOMAIN Append(d, x) = 1..(Len(d) + 1)
          /\ Append(d, x)[Len(d) + 1] = x
          /\ \A i \in 1..Len(d) : Append(d, x)[i] = d[i]
      BY <2>2, LenProperties, AppendProperties
    <3>2. QED
      BY <2>1, <2>4, <3>1 DEF OnlyKinds
  <2>8. QED
    BY <2>2, <2>6, <2>7 DEF d, e
<1>3. A = Seq(Lines)
  <2>1. A \in SUBSET Seq(Lines)
    OBVIOUS
  <2> HIDE DEF A
  <2>2. QED
    BY <1>1, <1>2, <2>1, SequencesInduction
<1>4. QED
  BY <1>3
-----------------------------------------------------------------------------
(* Lines and their pieces *)

PieceAt(L, i) ==
    [is |-> L[(i + 1) \div 2].is, of |-> L[(i + 1) \div 2].of, ends |-> i % 2 = 0]

LEMMA PiecesTyped ==
    ASSUME NEW L \in Seq(Lines)
    PROVE  /\ Pieces(L) \in Chunk /\ Len(Pieces(L)) = 2 * Len(L)
           /\ \A i \in 1..(2 * Len(L)) : Pieces(L)[i] = PieceAt(L, i)
<1> DEFINE n == Len(L)
<1>1. n \in Nat /\ L \in [1..n -> Lines]
  BY LenProperties
<1> HIDE DEF n
<1>2. \A i \in 1..(2 * n) : PieceAt(L, i) \in Piece
  <2>1. ASSUME NEW i \in 1..(2 * n)
        PROVE  PieceAt(L, i) \in Piece
    <3>1. (i + 1) \div 2 \in 1..n
      BY <1>1
    <3>2. L[(i + 1) \div 2] \in Lines
      BY <1>1, <3>1
    <3>3. QED
      BY <3>2 DEF PieceAt, Piece, Lines
  <2>2. QED
    BY <2>1
<1>3. Pieces(L) = [i \in 1..(2 * n) |-> PieceAt(L, i)]
  BY DEF Pieces, PieceAt, n
<1>4. 2 * n \in Nat
  BY <1>1
<1>5. /\ Pieces(L) \in Seq(Piece) /\ Len(Pieces(L)) = 2 * n
      /\ \A i \in 1..(2 * n) : Pieces(L)[i] = PieceAt(L, i)
  BY <1>2, <1>3, <1>4
<1>6. QED
  BY <1>5 DEF n, Chunk

\* Cutting into pieces goes with concatenation.
LEMMA PiecesOfConcat ==
    ASSUME NEW K \in Seq(Lines), NEW L \in Seq(Lines)
    PROVE  Pieces(K \o L) = Pieces(K) \o Pieces(L)
<1> DEFINE M == K \o L
           m == Len(K)
           n == Len(L)
           p == Pieces(M)
           q == Pieces(K) \o Pieces(L)
<1>1. /\ m \in Nat /\ n \in Nat /\ M \in Seq(Lines) /\ Len(M) = m + n
      /\ \A i \in 1..(m + n) : M[i] = IF i <= m THEN K[i] ELSE L[i - m]
  BY LenProperties, ConcatProperties
<1>2. /\ p \in Chunk /\ Len(p) = 2 * (m + n)
      /\ \A i \in 1..(2 * (m + n)) : p[i] = PieceAt(M, i)
  BY <1>1, PiecesTyped
<1>3. /\ Pieces(K) \in Chunk /\ Len(Pieces(K)) = 2 * m
      /\ \A i \in 1..(2 * m) : Pieces(K)[i] = PieceAt(K, i)
      /\ Pieces(L) \in Chunk /\ Len(Pieces(L)) = 2 * n
      /\ \A i \in 1..(2 * n) : Pieces(L)[i] = PieceAt(L, i)
  BY PiecesTyped
<1>4. /\ q \in Chunk /\ Len(q) = 2 * m + 2 * n
      /\ \A i \in 1..(2 * m + 2 * n) :
            q[i] = IF i <= 2 * m THEN Pieces(K)[i] ELSE Pieces(L)[i - 2 * m]
  <2> DEFINE a == Pieces(K)
             b == Pieces(L)
  <2>1. a \in Seq(Piece) /\ Len(a) = 2 * m /\ b \in Seq(Piece) /\ Len(b) = 2 * n
    BY <1>3 DEF Chunk
  <2> HIDE DEF a, b
  <2>2. /\ a \o b \in Seq(Piece) /\ Len(a \o b) = Len(a) + Len(b)
        /\ \A i \in 1..(Len(a) + Len(b)) : (a \o b)[i] = IF i <= Len(a) THEN a[i] ELSE b[i - Len(a)]
    BY <2>1, ConcatProperties
  <2>3. QED
    BY <2>1, <2>2 DEF Chunk, a, b
<1> HIDE DEF M, m, n, p, q
<1>5. ASSUME NEW i \in 1..(2 * (m + n))
      PROVE  p[i] = q[i]
  <2>1. p[i] = PieceAt(M, i)
    BY <1>2
  <2>2. CASE i <= 2 * m
    <3>1. i \in 1..(2 * m) /\ (i + 1) \div 2 \in 1..(m + n) /\ (i + 1) \div 2 <= m
      BY <1>1, <2>2
    <3>2. q[i] = PieceAt(K, i) /\ M[(i + 1) \div 2] = K[(i + 1) \div 2]
      BY <1>1, <1>3, <1>4, <2>2, <3>1
    <3>3. QED
      BY <2>1, <3>2 DEF PieceAt
  <2>3. CASE ~(i <= 2 * m)
    <3> DEFINE j == i - 2 * m
    <3>1. /\ j \in 1..(2 * n) /\ i \in 1..(2 * m + 2 * n)
          /\ (i + 1) \div 2 \in 1..(m + n) /\ ~((i + 1) \div 2 <= m)
          /\ (j + 1) \div 2 = (i + 1) \div 2 - m /\ (i % 2 = 0 <=> j % 2 = 0)
      BY <1>1, <2>3
    <3>2. q[i] = PieceAt(L, j) /\ M[(i + 1) \div 2] = L[(j + 1) \div 2]
      BY <1>1, <1>3, <1>4, <2>3, <3>1
    <3> HIDE DEF j
    <3>3. QED
      BY <2>1, <3>1, <3>2 DEF PieceAt
  <2>4. QED
    BY <2>2, <2>3
<1>6. p = q
  <2>1. Len(p) = Len(q) /\ \A i \in 1..Len(p) : p[i] = q[i]
    BY <1>1, <1>2, <1>4, <1>5
  <2>2. QED
    BY <1>2, <1>4, <2>1, SeqEqual DEF Chunk
<1>7. QED
  BY <1>6 DEF p, q, M

LEMMA PiecesOfNone == Pieces(<<>>) = <<>>
<1> DEFINE L == <<>>
           p == Pieces(L)
<1>1. L \in Seq(Lines) /\ Len(L) = 0
  BY EmptySeq
<1> HIDE DEF L
<1>2. p \in Seq(Piece) /\ Len(p) = 2 * Len(L)
  BY <1>1, PiecesTyped DEF Chunk
<1> HIDE DEF p
<1>3. Len(p) = 0
  BY <1>1, <1>2
<1>4. p = <<>>
  BY <1>2, <1>3, EmptySeq
<1>5. QED
  BY <1>4 DEF p, L

Begin(x) == [is |-> x.is, of |-> x.of, ends |-> FALSE]
End(x) == [is |-> x.is, of |-> x.of, ends |-> TRUE]

LEMMA PiecesOfOne ==
    ASSUME NEW x \in Lines
    PROVE  /\ Pieces(<<x>>) = Append(<<Begin(x)>>, End(x))
           /\ Begin(x) \in Piece /\ End(x) \in Piece
<1>1. Begin(x) \in Piece /\ End(x) \in Piece
  BY DEF Begin, End, Piece, Lines
<1>2. <<x>> \in Seq(Lines) /\ Len(<<x>>) = 1 /\ <<x>>[1] = x
  OBVIOUS
<1>3. /\ Pieces(<<x>>) \in Chunk /\ Len(Pieces(<<x>>)) = 2
      /\ Pieces(<<x>>)[1] = PieceAt(<<x>>, 1) /\ Pieces(<<x>>)[2] = PieceAt(<<x>>, 2)
  <2> DEFINE L == <<x>>
  <2>1. L \in Seq(Lines) /\ Len(L) = 1
    BY <1>2
  <2> HIDE DEF L
  <2>2. /\ Pieces(L) \in Chunk /\ Len(Pieces(L)) = 2 * Len(L)
        /\ \A i \in 1..(2 * Len(L)) : Pieces(L)[i] = PieceAt(L, i)
    BY <2>1, PiecesTyped
  <2>3. 2 * Len(L) = 2
    BY <2>1
  <2>4. QED
    BY <2>2, <2>3 DEF L
<1>4. (1 + 1) \div 2 = 1 /\ (2 + 1) \div 2 = 1 /\ 1 % 2 # 0 /\ 2 % 2 = 0
  OBVIOUS
<1>5. PieceAt(<<x>>, 1) = Begin(x) /\ PieceAt(<<x>>, 2) = End(x)
  BY <1>2, <1>4 DEF PieceAt, Begin, End
<1> DEFINE p == Pieces(<<x>>)
           q == Append(<<Begin(x)>>, End(x))
<1>6. q \in Chunk /\ Len(q) = 2 /\ q[1] = Begin(x) /\ q[2] = End(x)
  <2> DEFINE b == <<Begin(x)>>
             e == End(x)
  <2>0. b \in Seq(Piece) /\ e \in Piece
    BY <1>1
  <2>1. Len(b) = 1 /\ b[1] = Begin(x)
    OBVIOUS
  <2> HIDE DEF b, e
  <2>2. /\ Append(b, e) \in Seq(Piece) /\ Len(Append(b, e)) = Len(b) + 1
        /\ \A i \in 1..Len(b) : Append(b, e)[i] = b[i]
        /\ Append(b, e)[Len(b) + 1] = e
    BY <2>0, AppendProperties
  <2>3. QED
    BY <2>1, <2>2 DEF b, e, Chunk
<1> HIDE DEF p, q
<1>7. p = q
  <2>1. p \in Chunk /\ Len(p) = 2 /\ p[1] = q[1] /\ p[2] = q[2]
    BY <1>3, <1>5, <1>6 DEF p
  <2>2. \A i \in 1..Len(p) : p[i] = q[i]
    BY <2>1
  <2>3. QED
    BY <1>6, <2>1, <2>2, SeqEqual DEF Chunk
<1>8. QED
  BY <1>1, <1>7 DEF p, q

LEMMA PiecesOneMore ==
    ASSUME NEW L \in Seq(Lines), NEW x \in Lines
    PROVE  Pieces(Append(L, x)) = Append(Append(Pieces(L), Begin(x)), End(x))
<1>1. Append(L, x) = L \o <<x>> /\ <<x>> \in Seq(Lines)
  BY AppendIsConcat
<1>2. Pieces(Append(L, x)) = Pieces(L) \o Pieces(<<x>>)
  BY <1>1, PiecesOfConcat
<1>3. Pieces(<<x>>) = Append(<<Begin(x)>>, End(x)) /\ Begin(x) \in Piece /\ End(x) \in Piece
  BY PiecesOfOne
<1>4. Pieces(L) \in Seq(Piece)
  BY PiecesTyped DEF Chunk
<1> DEFINE p == Pieces(L)
           b == Begin(x)
           e == End(x)
<1> HIDE DEF p, b, e
<1>5. p \o Append(<<b>>, e) = Append(p \o <<b>>, e)
  <2>1. p \in Seq(Piece) /\ <<b>> \in Seq(Piece) /\ e \in Piece
    BY <1>3, <1>4 DEF p, b, e
  <2>2. QED
    BY <2>1, ConcatOneMore
<1>6. p \o <<b>> = Append(p, b)
  BY <1>3, <1>4, AppendIsConcat DEF p, b
<1>7. QED
  BY <1>2, <1>3, <1>5, <1>6 DEF p, b, e
-----------------------------------------------------------------------------
(* Parsing *)

LineAt(p, i) == [is |-> IF i > 1 /\ ~p[i - 1].ends THEN p[i].is ELSE "garbled", of |-> p[i].of]
Marked(p) == [i \in DOMAIN p |-> LineAt(p, i)]
Ends(p) == {i \in DOMAIN p : p[i].ends}

LEMMA ParsedSelects == \A p : Parsed(p) = Select(Marked(p), Ends(p))
BY DEF Parsed, Marked, Ends, LineAt

LEMMA MarkedTyped ==
    ASSUME NEW p \in Chunk
    PROVE  /\ Marked(p) \in Seq(Lines) /\ Len(Marked(p)) = Len(p)
           /\ \A i \in 1..Len(p) : Marked(p)[i] = LineAt(p, i)
<1>1. Len(p) \in Nat /\ p \in [1..Len(p) -> Piece] /\ DOMAIN p = 1..Len(p)
  BY LenProperties DEF Chunk
<1>2. \A i \in 1..Len(p) : LineAt(p, i) \in Lines
  <2>1. ASSUME NEW i \in 1..Len(p)
        PROVE  LineAt(p, i) \in Lines
    <3>1. p[i] \in Piece
      BY <1>1
    <3>2. p[i].is \in Kinds /\ p[i].of \in Nat /\ "garbled" \in Kinds
      BY <3>1 DEF Piece, Kinds
    <3>3. QED
      BY <3>2 DEF LineAt, Lines
  <2>2. QED
    BY <2>1
<1>3. Marked(p) = [i \in 1..Len(p) |-> LineAt(p, i)]
  BY <1>1 DEF Marked
<1>4. QED
  BY <1>1, <1>2, <1>3

LEMMA ParsedTyped == ASSUME NEW p \in Chunk PROVE Parsed(p) \in Seq(Lines)
BY ParsedSelects, MarkedTyped, SelectTyped

LEMMA ParsedNone == Parsed(<<>>) = <<>>
<1>1. <<>> \in Chunk /\ Len(<<>>) = 0
  BY EmptySeq DEF Chunk
<1>2. Marked(<<>>) = <<>>
  BY <1>1, MarkedTyped, EmptySeq
<1>3. QED
  BY <1>2, ParsedSelects, SelectNone

LEMMA ParsedOneMore ==
    ASSUME NEW p \in Chunk, NEW x \in Piece
    PROVE  Parsed(Append(p, x)) =
              IF x.ends THEN Append(Parsed(p), LineAt(Append(p, x), Len(p) + 1)) ELSE Parsed(p)
<1> DEFINE q == Append(p, x)
           n == Len(p)
           line == LineAt(q, n + 1)
<1>1. /\ n \in Nat /\ q \in Chunk /\ Len(q) = n + 1 /\ q[n + 1] = x
      /\ \A i \in 1..n : q[i] = p[i]
      /\ DOMAIN p = 1..n /\ DOMAIN q = 1..(n + 1)
  BY AppendProperties, LenProperties DEF Chunk
<1>2. /\ Marked(p) \in Seq(Lines) /\ Len(Marked(p)) = n
      /\ \A i \in 1..n : Marked(p)[i] = LineAt(p, i)
  BY MarkedTyped
<1>3. /\ Marked(q) \in Seq(Lines) /\ Len(Marked(q)) = n + 1
      /\ \A i \in 1..(n + 1) : Marked(q)[i] = LineAt(q, i)
  BY <1>1, MarkedTyped
<1> HIDE DEF q, n
<1>4. line \in Lines
  <2>1. n + 1 \in 1..Len(Marked(q))
    BY <1>1, <1>3
  <2>2. Marked(q)[n + 1] \in Lines
    BY <1>3, <2>1, ElementOfSeq
  <2>3. QED
    BY <1>1, <1>3, <2>2
<1> HIDE DEF line
<1>5. Marked(q) = Append(Marked(p), line)
  <2> DEFINE s == Append(Marked(p), line)
  <2>1. /\ s \in Seq(Lines) /\ Len(s) = n + 1 /\ s[n + 1] = line
        /\ \A i \in 1..n : s[i] = Marked(p)[i]
    BY <1>2, <1>4, AppendProperties
  <2> HIDE DEF s
  <2>2. \A i \in 1..n : LineAt(q, i) = LineAt(p, i)
    <3>1. \A i \in 1..n : q[i] = p[i] /\ (i > 1 => i - 1 \in 1..n /\ q[i - 1] = p[i - 1])
      BY <1>1
    <3>2. QED
      BY <3>1 DEF LineAt
  <2>3. \A i \in 1..(n + 1) : s[i] = Marked(q)[i]
    <3>1. \A i \in 1..(n + 1) : i \in 1..n \/ i = n + 1
      BY <1>1
    <3>2. QED
      BY <1>1, <1>2, <1>3, <2>1, <2>2, <3>1 DEF line
  <2>4. s = Marked(q)
    BY <1>3, <2>1, <2>3, SeqEqual
  <2>5. QED
    BY <2>4 DEF s
<1>6. /\ \A i \in 1..Len(Marked(p)) : i \in Ends(p) <=> i \in Ends(q)
      /\ Len(Marked(p)) + 1 \in Ends(q) <=> x.ends
  BY <1>1, <1>2 DEF Ends
<1>7. Select(Append(Marked(p), line), Ends(q)) =
         IF Len(Marked(p)) + 1 \in Ends(q) THEN Append(Select(Marked(p), Ends(p)), line)
         ELSE Select(Marked(p), Ends(p))
  <2> DEFINE s == Marked(p)
             Q == Ends(p)
             R == Ends(q)
  <2>1. s \in Seq(Lines) /\ \A i \in 1..Len(s) : i \in Q <=> i \in R
    BY <1>2, <1>6
  <2> HIDE DEF s, Q, R
  <2>2. Select(Append(s, line), R) =
           IF Len(s) + 1 \in R THEN Append(Select(s, Q), line) ELSE Select(s, Q)
    BY <1>4, <2>1, SelectOneMore
  <2>3. QED
    BY <2>2 DEF s, Q, R
<1>8. QED
  BY <1>5, <1>6, <1>7, ParsedSelects DEF q, line, n

\* The two pieces of a line are parsed into the line.
LEMMA ParsedPieces ==
    ASSUME NEW L \in Seq(Lines)
    PROVE  Parsed(Pieces(L)) = L
<1> DEFINE A == {K \in Seq(Lines) : Parsed(Pieces(K)) = K}
<1>1. <<>> \in A
  <2>1. <<>> \in Seq(Lines) /\ Len(<<>>) = 0
    BY EmptySeq
  <2>2. Pieces(<<>>) = <<>>
    BY PiecesOfNone
  <2>3. QED
    BY <2>1, <2>2, ParsedNone
<1>2. ASSUME NEW K \in A, NEW x \in Lines
      PROVE  Append(K, x) \in A
  <2> DEFINE p == Pieces(K)
             q == Append(p, Begin(x))
             n == Len(p)
  <2>1. Parsed(p) = K /\ K \in Seq(Lines)
    OBVIOUS
  <2>2. p \in Chunk /\ Begin(x) \in Piece /\ End(x) \in Piece
    BY PiecesTyped, PiecesOfOne
  <2>3. Pieces(Append(K, x)) = Append(q, End(x))
    BY PiecesOneMore
  <2> HIDE DEF p
  <2>4. /\ q \in Chunk /\ Len(q) = n + 1 /\ q[n + 1] = Begin(x) /\ n \in Nat
        /\ Append(q, End(x))[n + 2] = End(x) /\ Append(q, End(x))[n + 1] = Begin(x)
    <3>1. q \in Chunk /\ Len(q) = n + 1 /\ q[n + 1] = Begin(x) /\ n \in Nat
      BY <2>2, AppendProperties, LenProperties DEF Chunk
    <3> HIDE DEF q, n
    <3>2. Append(q, End(x))[Len(q) + 1] = End(x)
          /\ \A i \in 1..Len(q) : Append(q, End(x))[i] = q[i]
      BY <2>2, <3>1, AppendProperties DEF Chunk
    <3>3. (n + 1) + 1 = n + 2 /\ n + 1 \in 1..Len(q)
      BY <3>1
    <3>4. QED
      BY <3>1, <3>2, <3>3
  <2>5. Parsed(q) = K
    <3>1. ~Begin(x).ends
      BY DEF Begin
    <3>2. QED
      BY <2>1, <2>2, <3>1, ParsedOneMore
  <2> HIDE DEF q, n
  <2>6. Parsed(Append(q, End(x))) = Append(K, LineAt(Append(q, End(x)), Len(q) + 1))
    <3>1. End(x).ends
      BY DEF End
    <3>2. QED
      BY <2>2, <2>4, <2>5, <3>1, ParsedOneMore
  <2>7. LineAt(Append(q, End(x)), Len(q) + 1) = x
    <3> DEFINE r == Append(q, End(x))
    <3>1. Len(q) + 1 = n + 2 /\ n + 2 > 1 /\ (n + 2) - 1 = n + 1
      BY <2>4
    <3>2. r[n + 1] = Begin(x) /\ r[n + 2] = End(x)
      BY <2>4
    <3> HIDE DEF r
    <3>3. LineAt(r, n + 2) = [is |-> x.is, of |-> x.of]
      BY <3>1, <3>2 DEF LineAt, Begin, End
    <3>4. x = [is |-> x.is, of |-> x.of]
      BY DEF Lines
    <3>5. QED
      BY <3>1, <3>3, <3>4 DEF r
  <2>8. Append(K, x) \in Seq(Lines)
    BY AppendProperties
  <2>9. QED
    BY <2>3, <2>6, <2>7, <2>8
<1>3. A = Seq(Lines)
  <2>1. A \in SUBSET Seq(Lines)
    OBVIOUS
  <2> HIDE DEF A
  <2>2. QED
    BY <1>1, <1>2, <2>1, SequencesInduction
<1>4. QED
  BY <1>3
-----------------------------------------------------------------------------
(* Cutting a stream anywhere *)

\* The beginning and the end of a sequence of lines.
LEMMA CutLines ==
    ASSUME NEW L \in Seq(Lines), NEW m \in 0..Len(L)
    PROVE  /\ SubSeq(L, 1, m) \in Seq(Lines) /\ Len(SubSeq(L, 1, m)) = m
           /\ SubSeq(L, m + 1, Len(L)) \in Seq(Lines)
           /\ Len(SubSeq(L, m + 1, Len(L))) = Len(L) - m
           /\ SubSeq(L, 1, m) \o SubSeq(L, m + 1, Len(L)) = L
           /\ \A k \in 1..m : SubSeq(L, 1, m)[k] = L[k]
           /\ \A k \in 1..(Len(L) - m) : SubSeq(L, m + 1, Len(L))[k] = L[m + k]
<1> DEFINE n == Len(L)
<1>1. n \in Nat /\ m \in Nat /\ m <= n /\ \A i \in 1..n : L[i] \in Lines
  BY LenProperties, ElementOfSeq
<1> HIDE DEF n
<1>2. /\ SubSeq(L, 1, m) \in Seq(Lines)
      /\ Len(SubSeq(L, 1, m)) = IF 1 <= m THEN m - 1 + 1 ELSE 0
      /\ \A k \in 1..(m - 1 + 1) : SubSeq(L, 1, m)[k] = L[1 + k - 1]
  BY <1>1, SubSeqProperties
<1>3. /\ SubSeq(L, m + 1, n) \in Seq(Lines)
      /\ Len(SubSeq(L, m + 1, n)) = IF m + 1 <= n THEN n - (m + 1) + 1 ELSE 0
      /\ \A k \in 1..(n - (m + 1) + 1) : SubSeq(L, m + 1, n)[k] = L[(m + 1) + k - 1]
  BY <1>1, SubSeqProperties
<1>4. SubSeq(L, 1, m) \o SubSeq(L, m + 1, n) = L
  <2>1. 1 \in 1..(n + 1) /\ m \in (1 - 1)..n /\ n \in m..n
    BY <1>1
  <2>2. SubSeq(L, 1, m) \o SubSeq(L, m + 1, n) = SubSeq(L, 1, n)
    BY <2>1, ConcatAdjacentSubSeq DEF n
  <2>3. QED
    BY <2>2, SubSeqFull DEF n
<1> DEFINE a == SubSeq(L, 1, m)
           b == SubSeq(L, m + 1, n)
<1>5. /\ Len(a) = m /\ \A k \in 1..m : a[k] = L[k]
      /\ Len(b) = n - m /\ \A k \in 1..(n - m) : b[k] = L[m + k]
  <2> HIDE DEF a, b
  <2>1. /\ Len(a) = IF 1 <= m THEN m - 1 + 1 ELSE 0
        /\ \A k \in 1..(m - 1 + 1) : a[k] = L[1 + k - 1]
        /\ Len(b) = IF m + 1 <= n THEN n - (m + 1) + 1 ELSE 0
        /\ \A k \in 1..(n - (m + 1) + 1) : b[k] = L[(m + 1) + k - 1]
    BY <1>2, <1>3 DEF a, b
  <2>2. /\ \A k \in 1..m : k \in 1..(m - 1 + 1) /\ 1 + k - 1 = k
        /\ \A k \in 1..(n - m) : k \in 1..(n - (m + 1) + 1) /\ (m + 1) + k - 1 = m + k
    BY <1>1
  <2>3. QED
    BY <1>1, <2>1, <2>2
<1> HIDE DEF a, b
<1>6. QED
  BY <1>2, <1>3, <1>4, <1>5 DEF n, a, b

\* The same for pieces.
LEMMA CutPieces ==
    ASSUME NEW p \in Chunk, NEW m \in 0..Len(p)
    PROVE  /\ SubSeq(p, 1, m) \in Chunk /\ Len(SubSeq(p, 1, m)) = m
           /\ SubSeq(p, m + 1, Len(p)) \in Chunk
           /\ Len(SubSeq(p, m + 1, Len(p))) = Len(p) - m
           /\ SubSeq(p, 1, m) \o SubSeq(p, m + 1, Len(p)) = p
           /\ \A k \in 1..m : SubSeq(p, 1, m)[k] = p[k]
<1> DEFINE n == Len(p)
<1>1. n \in Nat /\ m \in Nat /\ m <= n /\ \A i \in 1..n : p[i] \in Piece
  BY LenProperties, ElementOfSeq DEF Chunk
<1> HIDE DEF n
<1>2. /\ SubSeq(p, 1, m) \in Seq(Piece)
      /\ Len(SubSeq(p, 1, m)) = IF 1 <= m THEN m - 1 + 1 ELSE 0
      /\ \A k \in 1..(m - 1 + 1) : SubSeq(p, 1, m)[k] = p[1 + k - 1]
  BY <1>1, SubSeqProperties
<1>3. /\ SubSeq(p, m + 1, n) \in Seq(Piece)
      /\ Len(SubSeq(p, m + 1, n)) = IF m + 1 <= n THEN n - (m + 1) + 1 ELSE 0
  BY <1>1, SubSeqProperties
<1>4. SubSeq(p, 1, m) \o SubSeq(p, m + 1, n) = p
  <2>1. 1 \in 1..(n + 1) /\ m \in (1 - 1)..n /\ n \in m..n
    BY <1>1
  <2>2. SubSeq(p, 1, m) \o SubSeq(p, m + 1, n) = SubSeq(p, 1, n)
    BY <2>1, ConcatAdjacentSubSeq DEF n, Chunk
  <2>3. QED
    BY <2>2, SubSeqFull DEF n, Chunk
<1> DEFINE a == SubSeq(p, 1, m)
           b == SubSeq(p, m + 1, n)
<1>5. /\ Len(a) = m /\ \A k \in 1..m : a[k] = p[k]
      /\ Len(b) = n - m
  <2> HIDE DEF a, b
  <2>1. /\ Len(a) = IF 1 <= m THEN m - 1 + 1 ELSE 0
        /\ \A k \in 1..(m - 1 + 1) : a[k] = p[1 + k - 1]
        /\ Len(b) = IF m + 1 <= n THEN n - (m + 1) + 1 ELSE 0
    BY <1>2, <1>3 DEF a, b
  <2>2. \A k \in 1..m : k \in 1..(m - 1 + 1) /\ 1 + k - 1 = k
    BY <1>1
  <2>3. QED
    BY <1>1, <2>1, <2>2
<1> HIDE DEF a, b
<1>6. QED
  BY <1>2, <1>3, <1>4, <1>5 DEF n, a, b, Chunk

LEMMA ConcatCancels ==
    ASSUME NEW T, NEW s \in Seq(T), NEW t \in Seq(T), NEW u \in Seq(T), s \o t = s \o u
    PROVE  t = u
<1>1. /\ Len(s) \in Nat /\ Len(t) \in Nat /\ Len(u) \in Nat
      /\ Len(s \o t) = Len(s) + Len(t) /\ Len(s \o u) = Len(s) + Len(u)
      /\ \A i \in 1..(Len(s) + Len(t)) :
            (s \o t)[i] = IF i <= Len(s) THEN s[i] ELSE t[i - Len(s)]
      /\ \A i \in 1..(Len(s) + Len(u)) :
            (s \o u)[i] = IF i <= Len(s) THEN s[i] ELSE u[i - Len(s)]
  BY LenProperties, ConcatProperties
<1>2. Len(t) = Len(u)
  BY <1>1
<1>3. ASSUME NEW i \in 1..Len(t)
      PROVE  t[i] = u[i]
  <2>1. /\ Len(s) + i \in 1..(Len(s) + Len(t)) /\ ~(Len(s) + i <= Len(s))
        /\ (Len(s) + i) - Len(s) = i
    BY <1>1
  <2>2. (s \o t)[Len(s) + i] = t[i] /\ (s \o u)[Len(s) + i] = u[i]
    BY <1>1, <1>2, <2>1
  <2>3. QED
    BY <2>2
<1>4. QED
  BY <1>2, <1>3, SeqEqual

\* Of the pieces of whole lines the second of each ends it: LastEnd of a beginning
\* of them is the end of its last whole line.
LEMMA LastEndOfBeginning ==
    ASSUME NEW p \in Chunk, \A i \in 1..Len(p) : p[i].ends <=> i % 2 = 0
    PROVE  LastEnd(p) = 2 * (Len(p) \div 2)
<1> DEFINE n == Len(p)
           e == 2 * (n \div 2)
           S == {0} \cup {i \in DOMAIN p : p[i].ends}
<1>1. n \in Nat /\ DOMAIN p = 1..n
  BY LenProperties DEF Chunk
<1> HIDE DEF n
<1>2. e \in Nat /\ e <= n /\ n <= e + 1 /\ e % 2 = 0
  BY <1>1
<1> HIDE DEF e
<1>3. \A i \in S : i \in Nat /\ i <= e
  <2>1. ASSUME NEW i \in 1..n, i % 2 = 0
        PROVE  i <= e
    BY <1>1, <1>2, <2>1
  <2>2. QED
    BY <1>1, <1>2, <2>1 DEF n
<1>4. e \in S
  BY <1>1, <1>2 DEF n
<1> HIDE DEF S
<1>5. Max(S) = e
  <2>1. \A x \in S : (\A y \in S : x >= y) => x = e
    BY <1>2, <1>3, <1>4
  <2>2. \A y \in S : e >= y
    BY <1>2, <1>3
  <2>3. QED
    BY <1>4, <2>1, <2>2 DEF Max
<1>6. QED
  BY <1>5 DEF LastEnd, S, e, n

\* Wherever the pieces of lines are cut: the whole lines before the cut are parsed,
\* what is kept is at most one piece, and with the rest it is the other lines.
LEMMA Cut ==
    ASSUME NEW L \in Seq(Lines), NEW p \in Chunk, NEW r \in Chunk, p \o r = Pieces(L)
    PROVE  LET m == Len(p) \div 2 IN
           /\ m \in 0..Len(L)
           /\ Parsed(p) = SubSeq(L, 1, m)
           /\ Kept(p) \in Chunk /\ Len(Kept(p)) <= 1
           /\ Kept(p) \o r = Pieces(SubSeq(L, m + 1, Len(L)))
<1> DEFINE n == Len(L)
           k == Len(p)
           m == k \div 2
           P == Pieces(L)
           A == SubSeq(L, 1, m)
           B == SubSeq(L, m + 1, n)
           b == SubSeq(p, 1, 2 * m)
<1>1. /\ n \in Nat /\ k \in Nat /\ Len(r) \in Nat
      /\ P \in Chunk /\ Len(P) = 2 * n
      /\ \A i \in 1..(2 * n) : P[i] = PieceAt(L, i)
  BY PiecesTyped, LenProperties DEF Chunk
<1>2. /\ 2 * n = k + Len(r)
      /\ \A i \in 1..k : P[i] = p[i]
  <2>1. /\ Len(p \o r) = Len(p) + Len(r)
        /\ \A i \in 1..(Len(p) + Len(r)) : (p \o r)[i] = IF i <= Len(p) THEN p[i] ELSE r[i - Len(p)]
    BY ConcatProperties DEF Chunk
  <2> HIDE DEF P
  <2>2. p \o r = P
    BY DEF P
  <2>3. 2 * n = k + Len(r)
    BY <1>1, <2>1, <2>2
  <2> HIDE DEF k, n
  <2>4. \A i \in 1..k : P[i] = p[i]
    <3>1. \A i \in 1..k : i \in 1..(k + Len(r)) /\ i <= k
      BY <1>1
    <3>2. QED
      BY <2>1, <2>2, <3>1 DEF k
  <2>5. QED
    BY <2>3, <2>4
<1> HIDE DEF n, k, P
<1>3. m \in 0..n /\ 2 * m \in 0..k /\ k <= 2 * m + 1 /\ m \in Nat /\ 2 * m \in Nat
  <2>1. k \in Nat /\ n \in Nat /\ k <= 2 * n
    BY <1>1, <1>2
  <2>2. m \in Nat /\ 2 * m <= k /\ k <= 2 * m + 1
    BY <2>1
  <2> HIDE DEF m
  <2>3. QED
    BY <2>1, <2>2
<1> HIDE DEF m
<1>4. \A i \in 1..k : p[i].ends <=> i % 2 = 0
  <2>1. \A i \in 1..k : i \in 1..(2 * n)
    BY <1>1, <1>2
  <2>2. \A i \in 1..k : p[i] = PieceAt(L, i)
    BY <1>1, <1>2, <2>1
  <2>3. \A i : PieceAt(L, i).ends <=> i % 2 = 0
    BY DEF PieceAt
  <2>4. QED
    BY <2>2, <2>3
<1>5. LastEnd(p) = 2 * m
  BY <1>4, LastEndOfBeginning DEF k, m
<1>6. /\ A \in Seq(Lines) /\ Len(A) = m
      /\ B \in Seq(Lines) /\ A \o B = L
      /\ \A i \in 1..m : A[i] = L[i]
  BY <1>3, CutLines DEF n
<1>7. /\ b \in Chunk /\ Len(b) = 2 * m
      /\ SubSeq(p, 2 * m + 1, k) \in Chunk
      /\ Len(SubSeq(p, 2 * m + 1, k)) = k - 2 * m
      /\ b \o SubSeq(p, 2 * m + 1, k) = p
      /\ \A i \in 1..(2 * m) : b[i] = p[i]
  <2> DEFINE j == 2 * m
  <2>1. j \in 0..Len(p)
    BY <1>3 DEF k
  <2> HIDE DEF j
  <2>2. /\ SubSeq(p, 1, j) \in Chunk /\ Len(SubSeq(p, 1, j)) = j
        /\ SubSeq(p, j + 1, Len(p)) \in Chunk
        /\ Len(SubSeq(p, j + 1, Len(p))) = Len(p) - j
        /\ SubSeq(p, 1, j) \o SubSeq(p, j + 1, Len(p)) = p
        /\ \A i \in 1..j : SubSeq(p, 1, j)[i] = p[i]
    BY <2>1, CutPieces
  <2>3. QED
    BY <2>2 DEF j, k
<1> HIDE DEF A, B, b
<1>8. Kept(p) = SubSeq(p, 2 * m + 1, k)
  BY <1>5 DEF Kept, k
<1>9. Pieces(A) = b
  <2>1. /\ Pieces(A) \in Chunk /\ Len(Pieces(A)) = 2 * m
        /\ \A i \in 1..(2 * m) : Pieces(A)[i] = PieceAt(A, i)
    BY <1>6, PiecesTyped
  <2>2. ASSUME NEW i \in 1..(2 * m)
        PROVE  Pieces(A)[i] = b[i]
    <3>1. /\ (i + 1) \div 2 \in 1..m
          /\ i \in 1..k /\ i \in 1..(2 * n)
      BY <1>1, <1>3
    <3>2. A[(i + 1) \div 2] = L[(i + 1) \div 2]
      BY <1>6, <3>1
    <3>3. b[i] = PieceAt(L, i)
      BY <1>1, <1>2, <1>7, <3>1
    <3>4. QED
      BY <2>1, <3>2, <3>3 DEF PieceAt
  <2> DEFINE q == Pieces(A)
  <2>3. Len(q) = Len(b) /\ \A i \in 1..Len(q) : q[i] = b[i]
    BY <1>7, <2>1, <2>2
  <2>4. q \in Seq(Piece) /\ b \in Seq(Piece)
    BY <1>7, <2>1 DEF Chunk
  <2> HIDE DEF q
  <2>5. q = b
    BY <2>3, <2>4, SeqEqual
  <2>6. QED
    BY <2>5 DEF q
<1>10. Parsed(b) = A
  BY <1>6, <1>9, ParsedPieces
<1>11. Parsed(p) = A
  <2>1. CASE k = 2 * m
    <3>1. b = SubSeq(p, 1, k)
      BY <2>1 DEF b
    <3>2. b = p
      BY <3>1, SubSeqFull DEF k, Chunk
    <3>3. QED
      BY <1>10, <3>2
  <2>2. CASE k # 2 * m
    <3>0. k = 2 * m + 1 /\ k \in 1..k
      BY <1>1, <1>3, <2>2
    <3>1. k = 2 * m + 1 /\ k \in 1..k /\ k % 2 # 0
      BY <1>3, <3>0
    <3>2. p[k] \in Piece /\ ~p[k].ends
      BY <1>4, <3>1, ElementOfSeq DEF k, Chunk
    <3>3. p = Append(b, p[k])
      <4> DEFINE x == p[k]
                 c == Append(b, x)
      <4>1. x \in Piece
        BY <3>2
      <4> HIDE DEF x
      <4>2. /\ c \in Seq(Piece) /\ Len(c) = Len(b) + 1
            /\ \A i \in 1..Len(b) : c[i] = b[i]
            /\ c[Len(b) + 1] = x
        BY <1>7, <4>1, AppendProperties DEF Chunk
      <4> HIDE DEF c
      <4>3. Len(c) = k /\ c[k] = x
        BY <1>7, <3>1, <4>2
      <4>4. \A i \in 1..k : i \in 1..(2 * m) \/ i = k
        BY <1>3, <3>1
      <4>5. \A i \in 1..k : c[i] = p[i]
        BY <1>7, <4>2, <4>3, <4>4 DEF x
      <4>6. p = c
        BY <4>2, <4>3, <4>5, SeqEqual DEF k, Chunk
      <4>7. QED
        BY <4>6 DEF c, x
    <3> DEFINE x == p[k]
    <3>4. x \in Piece /\ ~x.ends /\ p = Append(b, x)
      BY <3>2, <3>3
    <3> HIDE DEF x
    <3>5. Parsed(Append(b, x)) = Parsed(b)
      BY <1>7, <3>4, ParsedOneMore
    <3>6. QED
      BY <1>10, <3>4, <3>5
  <2>3. QED
    BY <2>1, <2>2
<1>12. Kept(p) \o r = Pieces(B)
  <2> DEFINE c == Kept(p)
             d == Pieces(B)
  <2>1. c \in Seq(Piece) /\ b \in Seq(Piece) /\ r \in Seq(Piece) /\ d \in Seq(Piece)
    BY <1>6, <1>7, <1>8, PiecesTyped DEF Chunk
  <2>2. b \o c = p
    BY <1>7, <1>8
  <2>3. P = b \o d
    BY <1>6, <1>9, PiecesOfConcat DEF P
  <2>4. P = p \o r
    BY DEF P
  <2> HIDE DEF c, d
  <2>5. P = b \o (c \o r)
    <3>1. (b \o c) \o r = b \o (c \o r)
      BY <2>1, ConcatAssociative
    <3>2. QED
      BY <2>2, <2>4, <3>1
  <2>6. c \o r \in Seq(Piece)
    BY <2>1, ConcatProperties
  <2>7. c \o r = d
    BY <2>1, <2>3, <2>5, <2>6, ConcatCancels
  <2>8. QED
    BY <2>7 DEF c, d
<1>13. Kept(p) \in Chunk /\ Len(Kept(p)) <= 1
  BY <1>1, <1>3, <1>7, <1>8
<1>14. QED
  BY <1>3, <1>11, <1>12, <1>13 DEF A, B, m, n, k
-----------------------------------------------------------------------------
(* Whole lines, kinds and beginnings *)

LEMMA PiecesAreWhole ==
    ASSUME NEW L \in Seq(Lines)
    PROVE  Pieces(L) \in Chunk /\ WholeLines(Pieces(L)) /\ Parsed(Pieces(L)) = L
BY PiecesTyped, ParsedPieces DEF WholeLines

LEMMA WholeIsPieces ==
    ASSUME NEW p \in Chunk, WholeLines(p)
    PROVE  Parsed(p) \in Seq(Lines) /\ Pieces(Parsed(p)) = p
BY ParsedTyped DEF WholeLines

\* One piece is no line.
LEMMA ShortIsEmpty ==
    ASSUME NEW p \in Chunk, WholeLines(p), Len(p) <= 1
    PROVE  p = <<>> /\ Parsed(p) = <<>>
<1> DEFINE L == Parsed(p)
<1>1. L \in Seq(Lines) /\ p = Pieces(L)
  BY WholeIsPieces
<1> HIDE DEF L
<1>2. Len(p) = 2 * Len(L) /\ Len(L) \in Nat
  BY <1>1, PiecesTyped, LenProperties
<1>3. Len(L) = 0 /\ Len(p) = 0
  BY <1>2
<1>4. L = <<>> /\ p = <<>>
  <2>1. p \in Seq(Piece)
    BY DEF Chunk
  <2>2. QED
    BY <1>1, <1>3, <2>1, EmptySeq
<1>5. QED
  BY <1>4 DEF L

LEMMA OnlyKindsOfConcat ==
    ASSUME NEW s \in Seq(Lines), NEW t \in Seq(Lines), NEW kinds
    PROVE  OnlyKinds(s \o t, kinds) <=> OnlyKinds(s, kinds) /\ OnlyKinds(t, kinds)
<1> DEFINE m == Len(s)
           n == Len(t)
           u == s \o t
<1>1. /\ m \in Nat /\ n \in Nat /\ u \in Seq(Lines) /\ Len(u) = m + n
      /\ \A i \in 1..(m + n) : u[i] = IF i <= m THEN s[i] ELSE t[i - m]
      /\ DOMAIN s = 1..m /\ DOMAIN t = 1..n
  BY LenProperties, ConcatProperties
<1> HIDE DEF m, n, u
<1>2. DOMAIN u = 1..(m + n)
  BY <1>1, LenProperties
<1>3. ASSUME OnlyKinds(u, kinds)
      PROVE  OnlyKinds(s, kinds) /\ OnlyKinds(t, kinds)
  <2>1. \A i \in 1..m : i \in 1..(m + n) /\ u[i] = s[i]
    BY <1>1
  <2>2. \A i \in 1..n : m + i \in 1..(m + n) /\ u[m + i] = t[i]
    <3>1. \A i \in 1..n : m + i \in 1..(m + n) /\ ~(m + i <= m) /\ (m + i) - m = i
      BY <1>1
    <3>2. QED
      BY <1>1, <3>1
  <2>3. QED
    BY <1>1, <1>2, <1>3, <2>1, <2>2 DEF OnlyKinds
<1>4. ASSUME OnlyKinds(s, kinds), OnlyKinds(t, kinds)
      PROVE  OnlyKinds(u, kinds)
  <2>1. \A i \in 1..(m + n) : (i <= m => i \in 1..m) /\ (~(i <= m) => i - m \in 1..n)
    BY <1>1
  <2>2. QED
    BY <1>1, <1>2, <1>4, <2>1 DEF OnlyKinds
<1>5. QED
  BY <1>3, <1>4 DEF u

LEMMA BeginningOfMore ==
    ASSUME NEW s \in Seq(Nat), NEW t \in Seq(Nat), NEW x \in Nat, IsBeginning(s, t)
    PROVE  IsBeginning(s, Append(t, x))
<1> DEFINE u == Append(t, x)
           N == Nat
<1>1. s \in Seq(N) /\ t \in Seq(N) /\ x \in N
  OBVIOUS
<1> HIDE DEF N
<1>2. /\ Len(t) \in Nat /\ Len(u) = Len(t) + 1 /\ u \in Seq(N)
      /\ \A i \in 1..Len(t) : u[i] = t[i]
  BY <1>1, AppendProperties, LenProperties
<1> HIDE DEF u
<1>3. PICK n \in 0..Len(t) : s = SubSeq(t, 1, n)
  BY DEF IsBeginning
<1>4. n \in 0..Len(u) /\ n \in Nat
  BY <1>2
<1>5. SubSeq(u, 1, n) = SubSeq(t, 1, n)
  <2>1. \A i \in 1..n : i \in 1..Len(t) /\ i \in 1..Len(u)
    BY <1>2
  <2>2. \A i \in 1..n : t[i] \in N /\ u[i] \in N /\ u[i] = t[i]
    BY <1>1, <1>2, <2>1, ElementOfSeq
  <2>3. /\ SubSeq(t, 1, n) \in Seq(N) /\ SubSeq(u, 1, n) \in Seq(N)
        /\ Len(SubSeq(t, 1, n)) = IF 1 <= n THEN n - 1 + 1 ELSE 0
        /\ Len(SubSeq(u, 1, n)) = IF 1 <= n THEN n - 1 + 1 ELSE 0
        /\ \A i \in 1..(n - 1 + 1) : SubSeq(t, 1, n)[i] = t[1 + i - 1]
        /\ \A i \in 1..(n - 1 + 1) : SubSeq(u, 1, n)[i] = u[1 + i - 1]
    BY <1>4, <2>2, SubSeqProperties
  <2> DEFINE a == SubSeq(t, 1, n)
             b == SubSeq(u, 1, n)
  <2> HIDE DEF a, b
  <2>4. /\ a \in Seq(N) /\ b \in Seq(N) /\ Len(a) = n /\ Len(b) = n
        /\ \A i \in 1..n : a[i] = t[i] /\ b[i] = u[i]
    <3>1. n - 1 + 1 = n /\ \A i \in 1..n : 1 + i - 1 = i
      BY <1>4
    <3>2. Len(a) = n /\ Len(b) = n
      BY <1>4, <2>3 DEF a, b
    <3>3. \A i \in 1..n : a[i] = t[i] /\ b[i] = u[i]
      BY <2>3, <3>1 DEF a, b
    <3>4. QED
      BY <2>3, <3>2, <3>3 DEF a, b
  <2>5. a = b
    BY <2>2, <2>4, SeqEqual
  <2>6. QED
    BY <2>5 DEF a, b
<1>6. QED
  BY <1>3, <1>4, <1>5 DEF IsBeginning, u

LEMMA BeginningOfBeginning ==
    ASSUME NEW s \in Seq(Nat), NEW u \in Seq(Nat), NEW t \in Seq(Nat), IsBeginning(s \o u, t)
    PROVE  IsBeginning(s, t) /\ s = SubSeq(t, 1, Len(s)) /\ Len(s) <= Len(t)
<1> DEFINE N == Nat
           v == s \o u
           m == Len(s)
<1>1. s \in Seq(N) /\ u \in Seq(N) /\ t \in Seq(N)
  OBVIOUS
<1> HIDE DEF N
<1>2. /\ m \in Nat /\ Len(u) \in Nat /\ Len(t) \in Nat
      /\ v \in Seq(N) /\ Len(v) = m + Len(u)
      /\ \A i \in 1..(m + Len(u)) : v[i] = IF i <= m THEN s[i] ELSE u[i - m]
  BY <1>1, ConcatProperties, LenProperties
<1> HIDE DEF v, m
<1>3. PICK n \in 0..Len(t) : v = SubSeq(t, 1, n)
  BY DEF IsBeginning, v
<1>4. n \in Nat /\ \A i \in 1..n : t[i] \in N
  BY <1>1, <1>2, ElementOfSeq
<1>5. Len(v) = n /\ \A i \in 1..n : v[i] = t[i]
  <2>1. /\ Len(v) = IF 1 <= n THEN n - 1 + 1 ELSE 0
        /\ \A i \in 1..(n - 1 + 1) : v[i] = t[1 + i - 1]
    BY <1>3, <1>4, SubSeqProperties
  <2>2. \A i \in 1..n : i \in 1..(n - 1 + 1) /\ 1 + i - 1 = i
    BY <1>4
  <2>3. Len(v) = n
    BY <1>4, <2>1
  <2>4. QED
    BY <2>1, <2>2, <2>3
<1>6. m <= n /\ m \in 0..Len(t) /\ \A i \in 1..m : i \in 1..n /\ i \in 1..(m + Len(u)) /\ i <= m
  BY <1>2, <1>4, <1>5
<1> DEFINE a == SubSeq(t, 1, m)
<1>7. a \in Seq(N) /\ Len(a) = m /\ \A i \in 1..m : a[i] = t[i]
  <2>1. \A i \in 1..m : t[i] \in N
    BY <1>4, <1>6
  <2>2. /\ a \in Seq(N) /\ Len(a) = IF 1 <= m THEN m - 1 + 1 ELSE 0
        /\ \A i \in 1..(m - 1 + 1) : a[i] = t[1 + i - 1]
    BY <1>2, <2>1, SubSeqProperties
  <2>3. \A i \in 1..m : i \in 1..(m - 1 + 1) /\ 1 + i - 1 = i
    BY <1>2
  <2> HIDE DEF a
  <2>4. Len(a) = m
    BY <1>2, <2>2
  <2>5. QED
    BY <2>2, <2>3, <2>4
<1> HIDE DEF a
<1>8. \A i \in 1..m : s[i] = a[i]
  BY <1>2, <1>5, <1>6, <1>7
<1>9. s = a
  BY <1>1, <1>7, <1>8, SeqEqual DEF m
<1>10. s = SubSeq(t, 1, Len(s))
  BY <1>9 DEF a, m
<1>11. Len(s) \in 0..Len(t) /\ Len(s) <= Len(t)
  BY <1>2, <1>6 DEF m
<1>12. QED
  BY <1>10, <1>11 DEF IsBeginning

LEMMA BeginningOfItself ==
    ASSUME NEW t \in Seq(Nat)
    PROVE  IsBeginning(t, t)
<1>1. Len(t) \in 0..Len(t)
  BY LenProperties
<1>2. t = SubSeq(t, 1, Len(t))
  BY SubSeqFull
<1>3. QED
  BY <1>1, <1>2 DEF IsBeginning
-----------------------------------------------------------------------------
(* The invariant *)

LEMMA StreamsTyped ==
    ASSUME TypeOK
    PROVE  /\ Incoming \in Chunk /\ Outgoing \in Chunk
           /\ Parsed(Incoming) \in Seq(Lines) /\ Parsed(Outgoing) \in Seq(Lines)
           /\ Told \in Seq(Nat) /\ Text(Parsed(Incoming)) \in Seq(Nat)
<1>1. Incoming \in Chunk /\ Outgoing \in Chunk
  <2>1. buffer \o relay \in Seq(Piece)
    BY ConcatProperties DEF TypeOK, Chunk
  <2>2. QED
    BY <2>1, ConcatProperties DEF TypeOK, Chunk, Incoming, Outgoing
<1>2. Parsed(Incoming) \in Seq(Lines) /\ Parsed(Outgoing) \in Seq(Lines)
  BY <1>1, ParsedTyped
<1>3. Text(Parsed(Incoming)) \in Seq(Nat) /\ Text(Parsed(Outgoing)) \in Seq(Nat)
  BY <1>2, TextTyped
<1>4. Told \in Seq(Nat)
  <2> DEFINE a == shown
             b == Text(Parsed(Outgoing))
             N == Nat
  <2>1. a \in Seq(N) /\ b \in Seq(N)
    BY <1>3 DEF TypeOK
  <2> HIDE DEF a, b, N
  <2>2. a \o b \in Seq(N)
    BY <2>1, ConcatProperties
  <2>3. QED
    BY <2>2 DEF a, b, N, Told
<1>5. QED
  BY <1>1, <1>2, <1>3, <1>4

LEMMA InitRelay == Init => RelayInv
<1> SUFFICES ASSUME Init PROVE RelayInv
  OBVIOUS
<1>1. <<>> \in Chunk /\ <<>> \in Seq(Nat) /\ <<>> \in Seq(Lines) /\ Len(<<>>) = 0
  BY EmptySeq DEF Chunk
<1>2. TypeOK
  BY <1>1 DEF Init, TypeOK
<1>3. Incoming = <<>> /\ Outgoing = <<>>
  BY <1>1, ConcatEmptySeq DEF Init, Incoming, Outgoing, Chunk
<1>4. Parsed(<<>>) = <<>> /\ WholeLines(<<>>) /\ Text(<<>>) = <<>>
  BY ParsedNone, PiecesOfNone, TextNone DEF WholeLines
<1>5. Told = <<>>
  BY <1>1, <1>3, <1>4, ConcatEmptySeq DEF Told, Init
<1>6. \A kinds : OnlyKinds(<<>>, kinds)
  BY <1>1 DEF OnlyKinds
<1>7. IsBeginning(<<>>, <<>>)
  BY <1>1, BeginningOfItself
<1>8. <<>> \o <<>> = <<>>
  BY <1>1, ConcatEmptySeq
<1>9. GateInv
  BY <1>1, <1>3, <1>4, <1>6 DEF Init, GateInv, Harness
<1>10. ReaderInv
  BY <1>1, <1>3, <1>4, <1>5, <1>6, <1>7, <1>8 DEF Init, ReaderInv
<1>11. QED
  BY <1>2, <1>9, <1>10 DEF RelayInv

LEMMA PiecesAssociate ==
    ASSUME NEW s \in Chunk, NEW t \in Chunk, NEW u \in Chunk
    PROVE  /\ (s \o t) \o u = s \o (t \o u)
           /\ s \o t \in Chunk
BY ConcatAssociative, ConcatProperties DEF Chunk

\* A sequence of numbers, with the set hidden from the provers.
Numbers == Seq(Nat)

LEMMA NumbersAssociate ==
    ASSUME NEW s \in Numbers, NEW t \in Numbers, NEW u \in Numbers
    PROVE  /\ (s \o t) \o u = s \o (t \o u)
           /\ s \o t \in Numbers
<1> DEFINE N == Nat
<1>1. s \in Seq(N) /\ t \in Seq(N) /\ u \in Seq(N)
  BY DEF Numbers
<1> HIDE DEF N
<1>2. (s \o t) \o u = s \o (t \o u) /\ s \o t \in Seq(N)
  BY <1>1, ConcatAssociative, ConcatProperties
<1>3. QED
  BY <1>2 DEF N, Numbers

\* The route writes the lines D.
LEMMA RouteWrites ==
    ASSUME TypeOK, NEW D \in Seq(Lines),
           UNCHANGED <<buffer, relay, shown>>, down' = down \o Pieces(D)
    PROVE  /\ down' \in Chunk
           /\ WholeLines(Outgoing) =>
                 /\ WholeLines(Outgoing)' /\ Parsed(Outgoing)' = Parsed(Outgoing) \o D
                 /\ Told' = Told \o Text(D)
<1>1. down \in Seq(Piece) /\ Pieces(D) \in Seq(Piece) /\ buffer \o relay \in Seq(Piece)
  BY PiecesTyped, ConcatProperties DEF TypeOK, Chunk
<1>2. down' \in Chunk
  BY <1>1, ConcatProperties DEF Chunk
<1>3. Outgoing' = Outgoing \o Pieces(D)
  <2>1. ((buffer \o relay) \o down) \o Pieces(D) = (buffer \o relay) \o (down \o Pieces(D))
    BY <1>1, ConcatAssociative
  <2>2. QED
    BY <2>1 DEF Outgoing
<1>4. ASSUME WholeLines(Outgoing)
      PROVE  /\ WholeLines(Outgoing)' /\ Parsed(Outgoing)' = Parsed(Outgoing) \o D
             /\ Told' = Told \o Text(D)
  <2> DEFINE L == Parsed(Outgoing)
  <2>1. L \in Seq(Lines) /\ Pieces(L) = Outgoing
    BY <1>4, StreamsTyped, WholeIsPieces
  <2> HIDE DEF L
  <2>2. L \o D \in Seq(Lines) /\ Outgoing' = Pieces(L \o D)
    BY <1>3, <2>1, PiecesOfConcat, ConcatProperties
  <2>3. WholeLines(Pieces(L \o D)) /\ Parsed(Pieces(L \o D)) = L \o D
    BY <2>2, PiecesAreWhole
  <2>4. Text(L \o D) = Text(L) \o Text(D)
    BY <2>1, TextOfConcat
  <2>5. shown \o (Text(L) \o Text(D)) = (shown \o Text(L)) \o Text(D)
    <3>1. shown \in Numbers /\ Text(L) \in Numbers /\ Text(D) \in Numbers
      BY <2>1, TextTyped DEF TypeOK, Numbers
    <3>2. QED
      BY <3>1, NumbersAssociate
  <2>6. WholeLines(Outgoing)' /\ Parsed(Outgoing)' = L \o D
    BY <2>2, <2>3 DEF WholeLines
  <2>7. QED
    BY <2>4, <2>5, <2>6 DEF Told, L
<1>5. QED
  BY <1>2, <1>4

LEMMA SpeakKeeps ==
    ASSUME RelayInv, NEW is \in {"text", "tool", "hidden"}, Speak(is), UNCHANGED caller
    PROVE  RelayInv'
<1> DEFINE x == [is |-> is, of |-> lines + 1]
<1>1. TypeOK /\ GateInv /\ ReaderInv
  BY DEF RelayInv
<1>2. x \in Lines /\ x.is = is /\ x.of = lines + 1 /\ <<x>> \in Seq(Lines) /\ lines + 1 \in Nat
  BY <1>1 DEF TypeOK, Lines, Kinds
<1>3. Line(is, lines + 1) = Pieces(<<x>>)
  BY DEF Line
<1>4. /\ lines' = lines + 1 /\ provider = "speaking" /\ provider' = provider
      /\ said' = IF is = "text" THEN Append(said, lines + 1) ELSE said
      /\ up' = IF gateway = "streaming" THEN up \o Pieces(<<x>>) ELSE up
      /\ UNCHANGED <<caller, unread, gateway, row, down, relay, hop, buffer, shown, reader>>
  BY <1>3 DEF Speak, hopVars, readerVars
<1> HIDE DEF x
<1>5. said' \in Seq(Nat) /\ said \in Seq(Nat)
  BY <1>1, <1>2, <1>4 DEF TypeOK
<1>6. up' \in Chunk
  <2>1. Pieces(<<x>>) \in Seq(Piece) /\ up \in Seq(Piece)
    BY <1>1, <1>2, PiecesTyped DEF TypeOK, Chunk
  <2>2. QED
    BY <1>4, <2>1, ConcatProperties DEF Chunk
<1>7. TypeOK'
  BY <1>1, <1>2, <1>4, <1>5, <1>6 DEF TypeOK
<1>8. Outgoing' = Outgoing /\ Told' = Told /\ Parsed(Outgoing)' = Parsed(Outgoing)
  BY <1>4 DEF Outgoing, Told
<1>9. IsBeginning(Told, said) => IsBeginning(Told, said')
  BY <1>1, <1>2, <1>4, <1>5, StreamsTyped, BeginningOfMore
<1>10. CASE gateway = "streaming"
  <2> DEFINE L == Parsed(Incoming)
  <2>1. /\ WholeLines(Incoming) /\ OnlyKinds(L, {"text", "tool", "hidden"})
        /\ row = "PENDING" /\ Len(unread) <= 1
    BY <1>1, <1>10 DEF GateInv
  <2>2. L \in Seq(Lines) /\ Incoming = Pieces(L)
    BY <1>1, <2>1, StreamsTyped, WholeIsPieces
  <2> HIDE DEF L
  <2>3. Incoming' = Incoming \o Pieces(<<x>>)
    <3>1. unread \in Seq(Piece) /\ up \in Seq(Piece) /\ Pieces(<<x>>) \in Seq(Piece)
      BY <1>1, <1>2, PiecesTyped DEF TypeOK, Chunk
    <3>2. (unread \o up) \o Pieces(<<x>>) = unread \o (up \o Pieces(<<x>>))
      BY <3>1, ConcatAssociative
    <3>3. QED
      BY <1>4, <1>10, <3>2 DEF Incoming
  <2>4. L \o <<x>> \in Seq(Lines) /\ L \o <<x>> = Append(L, x)
    BY <1>2, <2>2, ConcatProperties, AppendIsConcat
  <2>5. Incoming' = Pieces(L \o <<x>>)
    BY <1>2, <2>2, <2>3, PiecesOfConcat
  <2>6. WholeLines(Incoming)' /\ Parsed(Incoming)' = L \o <<x>>
    BY <2>4, <2>5, PiecesAreWhole DEF WholeLines
  <2>7. OnlyKinds(L \o <<x>>, {"text", "tool", "hidden"})
    <3>1. OnlyKinds(<<x>>, {"text", "tool", "hidden"})
      BY <1>2 DEF OnlyKinds
    <3>2. QED
      BY <1>2, <2>1, <2>2, <3>1, OnlyKindsOfConcat DEF L
  <2>8. GateInv'
    BY <1>1, <1>4, <1>10, <2>1, <2>6, <2>7 DEF GateInv, Harness
  <2>9. ASSUME reader = "reading"
        PROVE  Told' \o Text(Parsed(Incoming)') = said'
    <3>1. Told \o Text(L) = said
      BY <1>1, <1>10, <2>9 DEF ReaderInv, L
    <3>2. Text(L \o <<x>>) = IF is = "text" THEN Append(Text(L), lines + 1) ELSE Text(L)
      BY <1>2, <2>2, <2>4, TextOneMore
    <3>3. Told \o Append(Text(L), lines + 1) = Append(Told \o Text(L), lines + 1)
      <4> DEFINE N == Nat
                 a == Told
                 b == Text(L)
                 c == lines + 1
      <4>1. a \in Seq(N) /\ b \in Seq(N) /\ c \in N
        BY <1>1, <1>2, <2>2, StreamsTyped, TextTyped
      <4> HIDE DEF N, a, b, c
      <4>2. a \o Append(b, c) = Append(a \o b, c)
        BY <4>1, ConcatOneMore
      <4>3. QED
        BY <4>2 DEF a, b, c
    <3>4. QED
      BY <1>4, <1>8, <2>6, <3>1, <3>2, <3>3
  <2>10. ReaderInv'
    BY <1>1, <1>4, <1>8, <1>9, <1>10, <2>9 DEF ReaderInv, WholeLines
  <2>11. QED
    BY <1>7, <2>8, <2>10 DEF RelayInv
<1>11. CASE gateway # "streaming"
  <2>1. gateway # "closing" /\ row # "SETTLED"
    BY <1>1, <1>4 DEF GateInv
  <2>2. GateInv'
    BY <1>1, <1>4, <1>11, <2>1 DEF GateInv, Harness
  <2>3. ReaderInv'
    BY <1>1, <1>4, <1>8, <1>9, <1>11, <2>1 DEF ReaderInv, WholeLines
  <2>4. QED
    BY <1>7, <2>2, <2>3 DEF RelayInv
<1>12. QED
  BY <1>10, <1>11

\* A step that leaves the two streams and the reader alone.
LEMMA QuietStep ==
    ASSUME RelayInv, UNCHANGED <<unread, up, down, relay, buffer, shown, said>>
    PROVE  /\ Incoming' = Incoming /\ Outgoing' = Outgoing /\ Told' = Told
           /\ WholeLines(Outgoing)' = WholeLines(Outgoing)
           /\ Parsed(Outgoing)' = Parsed(Outgoing)
           /\ WholeLines(Incoming)' = WholeLines(Incoming)
           /\ Parsed(Incoming)' = Parsed(Incoming)
BY DEF Incoming, Outgoing, Told, WholeLines

LEMMA StopSpeakingKeeps ==
    ASSUME RelayInv, StopSpeaking, UNCHANGED caller
    PROVE  RelayInv'
<1>1. /\ provider = "speaking" /\ provider' \in {"ended", "failed"}
      /\ UNCHANGED <<caller, lines, said, up, unread, gateway, row, down, relay, hop,
                     buffer, shown, reader>>
  BY DEF StopSpeaking, gateVars, hopVars, readerVars
<1>2. TypeOK'
  BY <1>1 DEF RelayInv, TypeOK
<1>3. /\ WholeLines(Outgoing)' = WholeLines(Outgoing) /\ Parsed(Outgoing)' = Parsed(Outgoing)
      /\ WholeLines(Incoming)' = WholeLines(Incoming) /\ Parsed(Incoming)' = Parsed(Incoming)
      /\ Told' = Told
  BY <1>1, QuietStep
<1>4. GateInv'
  BY <1>1, <1>3 DEF RelayInv, GateInv, Harness
<1>5. ReaderInv'
  BY <1>1, <1>3 DEF RelayInv, ReaderInv
<1>6. QED
  BY <1>2, <1>4, <1>5 DEF RelayInv

LEMMA ReceiveKeeps ==
    ASSUME RelayInv, Receive, UNCHANGED caller
    PROVE  RelayInv'
<1>1. TypeOK /\ GateInv /\ ReaderInv
  BY DEF RelayInv
<1>2. PICK n \in 1..Len(up) :
         /\ up' = Rest(up, n)
         /\ unread' = Kept(unread \o SubSeq(up, 1, n))
         /\ down' = down \o Pieces(Deltas(unread \o SubSeq(up, 1, n)))
  BY DEF Receive
<1>3. /\ gateway = "streaming"
      /\ UNCHANGED <<caller, lines, said, provider, gateway, row, relay, hop, buffer, shown, reader>>
  BY DEF Receive, upVars, readerVars
<1> DEFINE first == SubSeq(up, 1, n)
           r == SubSeq(up, n + 1, Len(up))
           p == unread \o first
           L == Parsed(Incoming)
           m == Len(p) \div 2
           A == SubSeq(L, 1, m)
           B == SubSeq(L, m + 1, Len(L))
           D == OfKind(A, {"text", "tool"})
<1>4. first \in Seq(Piece) /\ r \in Seq(Piece) /\ first \o r = up
  <2>1. up \in Chunk /\ n \in 0..Len(up)
    BY <1>1, <1>2 DEF TypeOK
  <2>2. QED
    BY <2>1, CutPieces DEF Chunk
<1>5. /\ WholeLines(Incoming) /\ OnlyKinds(L, {"text", "tool", "hidden"}) /\ row = "PENDING"
      /\ Incoming = unread \o up /\ unread \in Seq(Piece)
  BY <1>1, <1>3 DEF GateInv, Incoming, TypeOK, Chunk
<1>6. L \in Seq(Lines) /\ Pieces(L) = Incoming
  BY <1>1, <1>5, StreamsTyped, WholeIsPieces
<1>7. /\ up' = r /\ unread' = Kept(p)
      /\ down' = down \o Pieces(OfKind(Parsed(p), {"text", "tool"}))
  BY <1>2 DEF Rest, Deltas
<1> HIDE DEF first, r, L
<1>8. p \in Chunk /\ r \in Chunk /\ p \o r = Pieces(L)
  <2>1. (unread \o first) \o r = unread \o (first \o r)
    <3>1. unread \in Chunk /\ first \in Chunk /\ r \in Chunk
      BY <1>4, <1>5 DEF Chunk
    <3>2. QED
      BY <3>1, PiecesAssociate
  <2>2. unread \o first \in Seq(Piece)
    BY <1>4, <1>5, ConcatProperties
  <2>3. QED
    BY <1>4, <1>5, <1>6, <2>1, <2>2 DEF Chunk
<1> HIDE DEF p
<1>9. /\ m \in 0..Len(L) /\ Parsed(p) = A /\ Kept(p) \in Chunk /\ Len(Kept(p)) <= 1
      /\ Kept(p) \o r = Pieces(B)
  BY <1>6, <1>8, Cut
<1>10. A \in Seq(Lines) /\ B \in Seq(Lines) /\ A \o B = L
  BY <1>6, <1>9, CutLines
<1> HIDE DEF m, A, B
<1>11. /\ D \in Seq(Lines) /\ Text(D) = Text(A) /\ OnlyKinds(D, {"text", "tool"})
       /\ down' = down \o Pieces(D)
  BY <1>7, <1>9, <1>10, TextOfDeltas, OfKindTyped
<1> HIDE DEF D
<1>12. /\ Incoming' = Pieces(B) /\ WholeLines(Incoming)' /\ Parsed(Incoming)' = B
       /\ Len(unread') <= 1 /\ unread' \in Chunk /\ up' \in Chunk
  BY <1>7, <1>8, <1>9, <1>10, PiecesAreWhole DEF Incoming, WholeLines
<1>13. OnlyKinds(B, {"text", "tool", "hidden"})
  BY <1>5, <1>10, OnlyKindsOfConcat
<1>14. /\ down' \in Chunk
       /\ WholeLines(Outgoing) => /\ WholeLines(Outgoing)' /\ Told' = Told \o Text(D)
                                  /\ Parsed(Outgoing)' = Parsed(Outgoing) \o D
  <2>1. UNCHANGED <<buffer, relay, shown>>
    BY <1>3
  <2>2. QED
    BY <1>1, <1>11, <2>1, RouteWrites
<1>15. TypeOK'
  BY <1>1, <1>3, <1>12, <1>14 DEF TypeOK
<1>16. GateInv'
  BY <1>1, <1>3, <1>5, <1>12, <1>13 DEF GateInv, Harness
<1>17. ASSUME reader = "reading"
       PROVE  /\ OnlyKinds(Parsed(Outgoing)', {"text", "tool", "usage", "error"})
              /\ Told' \o Text(B) = said /\ IsBeginning(Told', said)
  <2>1. /\ WholeLines(Outgoing) /\ OnlyKinds(Parsed(Outgoing), {"text", "tool", "usage", "error"})
        /\ Told \o Text(L) = said
    BY <1>1, <1>3, <1>17 DEF ReaderInv, L
  <2>2. /\ Told' = Told \o Text(A) /\ Parsed(Outgoing)' = Parsed(Outgoing) \o D
        /\ WholeLines(Outgoing)'
    BY <1>11, <1>14, <2>1
  <2>3. OnlyKinds(D, {"text", "tool", "usage", "error"})
    BY <1>11 DEF OnlyKinds
  <2>4. OnlyKinds(Parsed(Outgoing)', {"text", "tool", "usage", "error"})
    <3>1. Parsed(Outgoing) \in Seq(Lines)
      BY <1>1, StreamsTyped
    <3>2. QED
      BY <1>11, <2>1, <2>2, <2>3, <3>1, OnlyKindsOfConcat
  <2>5. Text(L) = Text(A) \o Text(B)
    BY <1>10, TextOfConcat
  <2>6. /\ Told \in Seq(Nat) /\ Text(A) \in Seq(Nat) /\ Text(B) \in Seq(Nat)
        /\ Told' \in Seq(Nat) /\ said \in Seq(Nat)
    <3>1. TypeOK'
      BY <1>15
    <3>2. Told' \in Seq(Nat)
      BY <2>2, <1>1, <1>10, StreamsTyped, TextTyped, NumbersAssociate DEF Numbers
    <3>3. QED
      BY <1>1, <1>10, <3>2, StreamsTyped, TextTyped DEF TypeOK
  <2>7. Told' \o Text(B) = said
    <3>1. Told \in Numbers /\ Text(A) \in Numbers /\ Text(B) \in Numbers
      BY <2>6 DEF Numbers
    <3>2. (Told \o Text(A)) \o Text(B) = Told \o (Text(A) \o Text(B))
      BY <3>1, NumbersAssociate
    <3>3. QED
      BY <2>1, <2>2, <2>5, <3>2
  <2>8. IsBeginning(Told', said)
    <3>1. IsBeginning(Told' \o Text(B), said)
      BY <2>6, <2>7, BeginningOfItself
    <3>2. QED
      BY <2>6, <3>1, BeginningOfBeginning
  <2>9. QED
    BY <2>4, <2>7, <2>8
<1>18. ReaderInv'
  BY <1>1, <1>3, <1>12, <1>14, <1>17 DEF ReaderInv
<1>19. QED
  BY <1>15, <1>16, <1>18 DEF RelayInv

LEMMA ReceiveEndKeeps ==
    ASSUME RelayInv, ReceiveEnd, UNCHANGED caller
    PROVE  RelayInv'
<1>1. TypeOK /\ GateInv /\ ReaderInv
  BY DEF RelayInv
<1>2. /\ gateway = "streaming" /\ provider = "ended" /\ up = <<>> /\ gateway' = "closing"
      /\ UNCHANGED <<caller, lines, said, provider, up, unread, row, down, relay, hop,
                     buffer, shown, reader>>
  BY DEF ReceiveEnd, upVars, hopVars, readerVars
<1>3. TypeOK'
  BY <1>1, <1>2 DEF TypeOK
<1>4. /\ WholeLines(Outgoing)' = WholeLines(Outgoing) /\ Parsed(Outgoing)' = Parsed(Outgoing)
      /\ Told' = Told
  BY <1>2, QuietStep
<1>5. GateInv'
  BY <1>1, <1>2 DEF GateInv, Harness
<1>6. Text(Parsed(Incoming)) = <<>>
  <2>1. unread \in Seq(Piece) /\ Len(unread) <= 1 /\ WholeLines(Incoming)
    BY <1>1, <1>2 DEF TypeOK, Chunk, GateInv
  <2>2. Incoming = unread
    BY <1>2, <2>1, ConcatEmptySeq DEF Incoming
  <2>3. Parsed(Incoming) = <<>>
    BY <2>1, <2>2, ShortIsEmpty DEF Chunk
  <2>4. QED
    BY <2>3, TextNone
<1>7. reader = "reading" => Told = said
  <2>1. SUFFICES ASSUME reader = "reading" PROVE Told = said
    OBVIOUS
  <2>2. Told \o <<>> = said
    BY <1>1, <1>2, <1>6, <2>1 DEF ReaderInv
  <2> DEFINE N == Nat
             a == Told
  <2>3. a \in Seq(N)
    BY <1>1, StreamsTyped
  <2> HIDE DEF N, a
  <2>4. a \o <<>> = a
    BY <2>3, ConcatEmptySeq
  <2>5. QED
    BY <2>2, <2>4 DEF a
<1>8. ReaderInv'
  BY <1>1, <1>2, <1>4, <1>7 DEF ReaderInv
<1>9. QED
  BY <1>3, <1>5, <1>8 DEF RelayInv

LEMMA ReceiveErrorKeeps ==
    ASSUME RelayInv, ReceiveError, UNCHANGED caller
    PROVE  RelayInv'
<1>1. TypeOK /\ GateInv /\ ReaderInv
  BY DEF RelayInv
<1>2. /\ gateway = "streaming" /\ gateway' = "failing" /\ up' = <<>>
      /\ UNCHANGED <<caller, lines, said, provider, unread, row, down, relay, hop,
                     buffer, shown, reader>>
  BY DEF ReceiveError, upVars, hopVars, readerVars
<1>3. TypeOK'
  <2>1. <<>> \in Chunk
    BY EmptySeq DEF Chunk
  <2>2. QED
    BY <1>1, <1>2, <2>1 DEF TypeOK
<1>4. Outgoing' = Outgoing /\ Told' = Told
  BY <1>2 DEF Outgoing, Told
<1>5. /\ WholeLines(Outgoing)' = WholeLines(Outgoing) /\ Parsed(Outgoing)' = Parsed(Outgoing)
  BY <1>4 DEF WholeLines
<1>6. GateInv'
  BY <1>1, <1>2 DEF GateInv, Harness
<1>7. ReaderInv'
  BY <1>1, <1>2, <1>4, <1>5 DEF ReaderInv
<1>8. QED
  BY <1>3, <1>6, <1>7 DEF RelayInv

\* The route writes a line that carries no text.
LEMMA LineWritten ==
    ASSUME TypeOK, NEW kind \in {"usage", "error"},
           UNCHANGED <<buffer, relay, shown>>, down' = down \o Line(kind, 0)
    PROVE  /\ down' \in Chunk
           /\ WholeLines(Outgoing) =>
                 /\ WholeLines(Outgoing)' /\ Told' = Told
                 /\ \A kinds : OnlyKinds(Parsed(Outgoing)', kinds)
                                  <=> OnlyKinds(Parsed(Outgoing), kinds) /\ kind \in kinds
<1> DEFINE x == [is |-> kind, of |-> 0]
           D == <<x>>
<1>1. x \in Lines /\ D \in Seq(Lines) /\ D = Append(<<>>, x) /\ <<>> \in Seq(Lines)
  BY DEF Lines, Kinds
<1>2. Text(D) = <<>>
  BY <1>1, TextOneMore, TextNone
<1>3. \A kinds : OnlyKinds(D, kinds) <=> kind \in kinds
  <2>1. Len(D) = 1 /\ D[1] = x /\ DOMAIN D = {1}
    OBVIOUS
  <2>2. QED
    BY <2>1 DEF OnlyKinds
<1>4. down' = down \o Pieces(D)
  BY DEF Line
<1> HIDE DEF D
<1>5. /\ down' \in Chunk
      /\ WholeLines(Outgoing) =>
            /\ WholeLines(Outgoing)' /\ Parsed(Outgoing)' = Parsed(Outgoing) \o D
            /\ Told' = Told \o Text(D)
  BY <1>1, <1>4, RouteWrites
<1>6. Told \o <<>> = Told
  <2> DEFINE N == Nat
             a == Told
  <2>1. a \in Seq(N)
    BY StreamsTyped
  <2> HIDE DEF N, a
  <2>2. a \o <<>> = a
    BY <2>1, ConcatEmptySeq
  <2>3. QED
    BY <2>2 DEF a
<1>7. Parsed(Outgoing) \in Seq(Lines)
  BY StreamsTyped
<1>8. \A kinds : OnlyKinds(Parsed(Outgoing) \o D, kinds)
                    <=> OnlyKinds(Parsed(Outgoing), kinds) /\ OnlyKinds(D, kinds)
  <2> DEFINE E == Parsed(Outgoing)
  <2>1. E \in Seq(Lines) /\ D \in Seq(Lines)
    BY <1>1, <1>7
  <2> HIDE DEF E
  <2>2. TAKE kinds
  <2>3. OnlyKinds(E \o D, kinds) <=> OnlyKinds(E, kinds) /\ OnlyKinds(D, kinds)
    BY <2>1, OnlyKindsOfConcat
  <2>4. QED
    BY <2>3 DEF E
<1>9. QED
  BY <1>2, <1>3, <1>5, <1>6, <1>8

LEMMA CloseKeeps ==
    ASSUME RelayInv, Close, UNCHANGED caller
    PROVE  RelayInv'
<1>1. TypeOK /\ GateInv /\ ReaderInv
  BY DEF RelayInv
<1>2. /\ gateway = "closing" /\ provider = "ended"
      /\ UNCHANGED <<caller, lines, said, provider, up, unread, relay, hop, buffer, shown, reader>>
  BY <1>1 DEF Close, upVars, readerVars, GateInv
<1>3. CASE row' = "SETTLED" /\ gateway' = "over" /\ down' = down \o Line("usage", 0)
  <2>1. /\ down' \in Chunk
        /\ WholeLines(Outgoing) =>
              /\ WholeLines(Outgoing)' /\ Told' = Told
              /\ \A kinds : OnlyKinds(Parsed(Outgoing)', kinds)
                               <=> OnlyKinds(Parsed(Outgoing), kinds) /\ "usage" \in kinds
    BY <1>1, <1>2, <1>3, LineWritten
  <2>2. TypeOK'
    BY <1>1, <1>2, <1>3, <2>1 DEF TypeOK
  <2>3. GateInv'
    BY <1>1, <1>2, <1>3 DEF GateInv, Harness
  <2>4. ReaderInv'
    BY <1>1, <1>2, <1>3, <2>1 DEF ReaderInv
  <2>5. QED
    BY <2>2, <2>3, <2>4 DEF RelayInv
<1>4. CASE row' \in {row, "SETTLED"} /\ gateway' = "failing" /\ UNCHANGED down
  <2>1. TypeOK'
    BY <1>1, <1>2, <1>4 DEF TypeOK
  <2>2. GateInv'
    BY <1>1, <1>2, <1>4 DEF GateInv, Harness
  <2>3. /\ WholeLines(Outgoing)' = WholeLines(Outgoing) /\ Parsed(Outgoing)' = Parsed(Outgoing)
        /\ Told' = Told
    BY <1>2, <1>4, QuietStep
  <2>4. ReaderInv'
    BY <1>1, <1>2, <1>4, <2>3 DEF ReaderInv
  <2>5. QED
    BY <2>1, <2>2, <2>4 DEF RelayInv
<1>5. QED
  BY <1>3, <1>4 DEF Close

LEMMA FailDeliveryKeeps ==
    ASSUME RelayInv, FailDelivery, UNCHANGED caller
    PROVE  RelayInv'
<1>1. TypeOK /\ GateInv /\ ReaderInv
  BY DEF RelayInv
<1>2. /\ gateway = "failing" /\ row' \in {row, "FAILED"} /\ gateway' = "over"
      /\ down' = down \o Line("error", 0)
      /\ UNCHANGED <<caller, lines, said, provider, up, unread, relay, hop, buffer, shown, reader>>
  BY DEF FailDelivery, upVars, readerVars
<1>3. /\ down' \in Chunk
      /\ WholeLines(Outgoing) =>
            /\ WholeLines(Outgoing)' /\ Told' = Told
            /\ \A kinds : OnlyKinds(Parsed(Outgoing)', kinds)
                             <=> OnlyKinds(Parsed(Outgoing), kinds) /\ "error" \in kinds
  BY <1>1, <1>2, LineWritten
<1>4. TypeOK'
  BY <1>1, <1>2, <1>3 DEF TypeOK
<1>5. GateInv'
  BY <1>1, <1>2 DEF GateInv, Harness
<1>6. ReaderInv'
  BY <1>1, <1>2, <1>3 DEF ReaderInv
<1>7. QED
  BY <1>4, <1>5, <1>6 DEF RelayInv

\* The gateway's end, a broken hop and a lost connection lose nothing of what is
\* still on its way to the invariant.
LEMMA CrashKeeps ==
    ASSUME RelayInv, Crash \/ BreakHop \/ LoseConnection, UNCHANGED caller
    PROVE  RelayInv'
<1>1. TypeOK /\ GateInv /\ ReaderInv
  BY DEF RelayInv
<1>2. /\ UNCHANGED <<caller, lines, said, provider, up, unread, row, down, relay, buffer, shown>>
      /\ \/ gateway' = "crashed" /\ hop' = hop /\ reader' = reader
         \/ gateway' = gateway /\ Harness /\ hop' = "broken" /\ reader' = reader
         \/ gateway' = gateway /\ hop' = hop /\ reader' = "failed"
  BY DEF Crash, BreakHop, LoseConnection, upVars, gateVars, hopVars, readerVars
<1>3. TypeOK'
  BY <1>1, <1>2 DEF TypeOK
<1>4. /\ WholeLines(Outgoing)' = WholeLines(Outgoing) /\ Parsed(Outgoing)' = Parsed(Outgoing)
      /\ WholeLines(Incoming)' = WholeLines(Incoming) /\ Parsed(Incoming)' = Parsed(Incoming)
      /\ Told' = Told
  BY <1>2, QuietStep
<1>5. GateInv'
  BY <1>1, <1>2, <1>4 DEF GateInv, Harness
<1>6. ReaderInv'
  BY <1>1, <1>2, <1>4 DEF ReaderInv
<1>7. QED
  BY <1>3, <1>5, <1>6 DEF RelayInv

LEMMA PipeKeeps ==
    ASSUME RelayInv, Pipe, UNCHANGED caller
    PROVE  RelayInv'
<1>1. TypeOK /\ GateInv /\ ReaderInv
  BY DEF RelayInv
<1>2. PICK n \in 1..Len(down) : relay' = relay \o SubSeq(down, 1, n) /\ down' = Rest(down, n)
  BY DEF Pipe
<1>3. /\ Harness
      /\ UNCHANGED <<caller, lines, said, provider, up, unread, gateway, row, hop, buffer, shown, reader>>
  BY DEF Pipe, upVars, gateVars, readerVars
<1> DEFINE first == SubSeq(down, 1, n)
           r == SubSeq(down, n + 1, Len(down))
<1>4. /\ first \in Chunk /\ r \in Chunk /\ first \o r = down
      /\ buffer \in Chunk /\ relay \in Chunk
  <2>1. down \in Chunk /\ n \in 0..Len(down)
    BY <1>1, <1>2 DEF TypeOK
  <2>2. QED
    BY <1>1, <2>1, CutPieces DEF TypeOK
<1>5. relay' = relay \o first /\ down' = r
  BY <1>2 DEF Rest
<1> HIDE DEF first, r
<1>6. relay' \in Chunk /\ down' \in Chunk
  BY <1>4, <1>5, PiecesAssociate
<1>7. Outgoing' = Outgoing
  <2>1. buffer \o (relay \o first) = (buffer \o relay) \o first
    BY <1>4, PiecesAssociate
  <2>2. buffer \o relay \in Chunk
    BY <1>4, PiecesAssociate
  <2>3. ((buffer \o relay) \o first) \o r = (buffer \o relay) \o (first \o r)
    BY <1>4, <2>2, PiecesAssociate
  <2>4. QED
    BY <1>3, <1>4, <1>5, <2>1, <2>3 DEF Outgoing
<1>8. /\ WholeLines(Outgoing)' = WholeLines(Outgoing) /\ Parsed(Outgoing)' = Parsed(Outgoing)
      /\ Told' = Told
  BY <1>3, <1>7 DEF WholeLines, Told
<1>9. /\ WholeLines(Incoming)' = WholeLines(Incoming) /\ Parsed(Incoming)' = Parsed(Incoming)
  BY <1>3 DEF Incoming, WholeLines
<1>10. TypeOK'
  BY <1>1, <1>3, <1>6 DEF TypeOK
<1>11. GateInv'
  BY <1>1, <1>3, <1>9 DEF GateInv, Harness
<1>12. ReaderInv'
  BY <1>1, <1>3, <1>8, <1>9 DEF ReaderInv
<1>13. QED
  BY <1>10, <1>11, <1>12 DEF RelayInv

\* What arrives, and what is on its way behind it.
LEMMA Arrives ==
    ASSUME RelayInv, NEW n \in 1..Len(Arriving)
    PROVE  LET first == SubSeq(Arriving, 1, n)
               r == Rest(Arriving, n)
               behind == IF Harness THEN r \o down ELSE r
           IN  /\ buffer \o first \in Chunk /\ behind \in Chunk /\ r \in Chunk
               /\ (buffer \o first) \o behind = Outgoing
               /\ ~Harness => relay = <<>>
<1> DEFINE arriving == Arriving
           first == SubSeq(arriving, 1, n)
           r == SubSeq(arriving, n + 1, Len(arriving))
<1>1. /\ buffer \in Chunk /\ relay \in Chunk /\ down \in Chunk
      /\ ~Harness => relay = <<>>
  BY DEF RelayInv, TypeOK, GateInv
<1>2. arriving \in Chunk /\ n \in 0..Len(arriving)
  BY <1>1 DEF Arriving
<1>3. Rest(Arriving, n) = r
  BY DEF Rest
<1> HIDE DEF arriving
<1>4. first \in Chunk /\ r \in Chunk /\ first \o r = arriving
  BY <1>2, CutPieces
<1> HIDE DEF first, r
<1>5. buffer \o first \in Chunk
  BY <1>1, <1>4, PiecesAssociate
<1>6. (buffer \o first) \o r = buffer \o arriving
  <2>1. buffer \in Chunk /\ first \in Chunk /\ r \in Chunk
    BY <1>1, <1>4
  <2>2. (buffer \o first) \o r = buffer \o (first \o r)
    BY <2>1, PiecesAssociate
  <2>3. QED
    BY <1>4, <2>2
<1>7. CASE Harness
  <2>1. r \o down \in Chunk /\ arriving = relay
    BY <1>1, <1>4, <1>7, PiecesAssociate DEF arriving, Arriving
  <2>2. (buffer \o first) \o (r \o down) = ((buffer \o first) \o r) \o down
    BY <1>1, <1>4, <1>5, PiecesAssociate
  <2>3. QED
    BY <1>3, <1>4, <1>5, <1>6, <1>7, <2>1, <2>2 DEF Outgoing, first, arriving
<1>8. CASE ~Harness
  <2>1. arriving = down /\ buffer \o relay = buffer
    <3>1. buffer \o <<>> = buffer
      BY <1>1, ConcatEmptySeq DEF Chunk
    <3>2. QED
      BY <1>1, <1>8, <3>1 DEF arriving, Arriving
  <2>2. QED
    BY <1>1, <1>3, <1>4, <1>5, <1>6, <1>8, <2>1 DEF Outgoing, first, arriving
<1>9. QED
  BY <1>7, <1>8

\* What is read before the first line that throws is a beginning of what was found.
LEMMA TextRead ==
    ASSUME NEW found \in Seq(Lines),
           NEW throws \in SUBSET DOMAIN found, throws # {}
    PROVE  LET read == SubSeq(found, 1, Min(throws) - 1) IN
           \E rest \in Seq(Lines) : read \in Seq(Lines) /\ read \o rest = found
<1> DEFINE k == Min(throws)
           m == k - 1
<1>1. DOMAIN found = 1..Len(found) /\ Len(found) \in Nat
  BY LenProperties
<1>2. k \in throws
  <2>1. throws \subseteq Nat
    BY <1>1
  <2> DEFINE P(i) == i \in throws
  <2>2. \E i \in throws : \A j \in throws : i <= j
    <3>1. PICK i0 \in throws : TRUE
      OBVIOUS
    <3>2. throws \in SUBSET Nat /\ throws # {}
      BY <2>1
    <3>3. PICK i \in throws : \A j \in throws : <<j, i>> \notin OpToRel(<, Nat)
      BY <3>2, NatLessThanWellFounded, WFMin, Zenon
    <3>4. \A j \in throws : ~(j < i)
      BY <3>2, <3>3, Zenon DEF OpToRel
    <3>5. QED
      BY <2>1, <3>4
  <2>3. QED
    BY <2>2 DEF Min
<1> HIDE DEF k
<1>3. m \in 0..Len(found)
  BY <1>1, <1>2
<1> HIDE DEF m
<1>4. QED
  <2>1. /\ SubSeq(found, 1, m) \in Seq(Lines) /\ SubSeq(found, m + 1, Len(found)) \in Seq(Lines)
        /\ SubSeq(found, 1, m) \o SubSeq(found, m + 1, Len(found)) = found
    BY <1>3, CutLines
  <2>2. QED
    BY <2>1 DEF m, k

LEMMA ReadChunkFacts ==
    ASSUME RelayInv, ReadChunk, UNCHANGED caller
    PROVE  /\ relay' \in Chunk /\ down' \in Chunk /\ buffer' \in Chunk /\ shown' \in Seq(Nat)
           /\ UNCHANGED <<caller, lines, said, provider, up, unread, gateway, row, hop>>
           /\ reader = "reading" /\ reader' \in {"reading", "failed"}
           /\ ~Harness => relay' = relay
           /\ IsBeginning(shown', said) /\ Len(shown) <= Len(shown')
           /\ reader' = "reading" =>
                 /\ Len(buffer') <= 1 /\ WholeLines(Outgoing)' /\ Told' = Told
                 /\ OnlyKinds(Parsed(Outgoing)', {"text", "tool", "usage", "error"})
                 /\ OnlyKinds(Parsed(Outgoing)', {"text", "tool", "usage"}) =>
                       OnlyKinds(Parsed(Outgoing), {"text", "tool", "usage"})
<1> DEFINE first(n) == SubSeq(Arriving, 1, n)
           throwing(found) == {k \in DOMAIN found : found[k].is \in {"error", "garbled"}}
           reading(found) == IF throwing(found) = {} THEN found
                             ELSE SubSeq(found, 1, Min(throwing(found)) - 1)
<1>1. PICK n \in 1..Len(Arriving) :
         /\ shown' = shown \o Text(reading(Parsed(buffer \o first(n))))
         /\ reader' = IF throwing(Parsed(buffer \o first(n))) = {} THEN "reading" ELSE "failed"
         /\ buffer' = Kept(buffer \o first(n))
         /\ IF Harness THEN relay' = Rest(relay, n) /\ UNCHANGED down
                       ELSE down' = Rest(down, n) /\ UNCHANGED relay
  BY DEF ReadChunk
<1> DEFINE p == buffer \o first(n)
           r == Rest(Arriving, n)
           behind == IF Harness THEN r \o down ELSE r
           L == Parsed(Outgoing)
           m == Len(p) \div 2
           A == SubSeq(L, 1, m)
           B == SubSeq(L, m + 1, Len(L))
<1>2. /\ UNCHANGED <<caller, lines, said, provider, up, unread, gateway, row, hop>>
      /\ reader = "reading"
  BY DEF ReadChunk, upVars, gateVars
<1>3. /\ p \in Chunk /\ behind \in Chunk /\ r \in Chunk /\ p \o behind = Outgoing
      /\ ~Harness => relay = <<>>
  BY Arrives
<1>4. /\ TypeOK /\ WholeLines(Outgoing) /\ IsBeginning(Told, said)
      /\ OnlyKinds(L, {"text", "tool", "usage", "error"})
  BY <1>2 DEF RelayInv, ReaderInv
<1>5. /\ L \in Seq(Lines) /\ Pieces(L) = Outgoing
  BY <1>4, StreamsTyped, WholeIsPieces
<1>6. IF Harness THEN relay' = r /\ down' = down ELSE down' = r /\ relay' = relay
  BY <1>1 DEF Arriving
<1>7. relay' \in Chunk /\ down' \in Chunk /\ (~Harness => relay' = relay)
  BY <1>3, <1>4, <1>6 DEF TypeOK
<1>8. buffer' = Kept(p) /\ shown' = shown \o Text(reading(Parsed(p)))
      /\ reader' = IF throwing(Parsed(p)) = {} THEN "reading" ELSE "failed"
  BY <1>1
<1> HIDE DEF p, r, L
<1>9. Kept(p) \in Chunk => Outgoing' = Kept(p) \o behind
  <2>1. SUFFICES ASSUME Kept(p) \in Chunk PROVE (buffer' \o relay') \o down' = Kept(p) \o behind
    BY DEF Outgoing
  <2>2. CASE Harness
    <3>1. Kept(p) \in Chunk /\ r \in Chunk /\ down \in Chunk
      BY <1>3, <1>4, <2>1 DEF TypeOK
    <3>2. (Kept(p) \o r) \o down = Kept(p) \o (r \o down)
      BY <3>1, PiecesAssociate
    <3>3. QED
      BY <1>6, <1>8, <2>2, <3>2
  <2>3. CASE ~Harness
    <3>1. Kept(p) \o <<>> = Kept(p)
      BY <2>1, ConcatEmptySeq DEF Chunk
    <3>2. QED
      BY <1>3, <1>6, <1>8, <2>3, <3>1
  <2>4. QED
    BY <2>2, <2>3
<1> HIDE DEF behind
<1>10. /\ m \in 0..Len(L) /\ Parsed(p) = A /\ Kept(p) \in Chunk /\ Len(Kept(p)) <= 1
       /\ Kept(p) \o behind = Pieces(B)
  BY <1>3, <1>5, Cut
<1>11. A \in Seq(Lines) /\ B \in Seq(Lines) /\ A \o B = L
  BY <1>5, <1>10, CutLines
<1> HIDE DEF m, A, B
<1>12. shown \in Numbers /\ said \in Numbers
  BY <1>4 DEF TypeOK, Numbers
<1>13. Told = shown \o Text(L)
  BY DEF Told, L
<1>14. shown' \in Seq(Nat) /\ IsBeginning(shown', said) /\ Len(shown) <= Len(shown')
  <2> DEFINE found == A
             read == reading(found)
  <2>1. PICK rest \in Seq(Lines) : read \in Seq(Lines) /\ read \o rest = A
    <3>1. CASE throwing(A) = {}
      <4>1. read = A /\ A \o <<>> = A /\ <<>> \in Seq(Lines)
        BY <1>11, <3>1, ConcatEmptySeq, EmptySeq
      <4>2. QED
        BY <1>11, <4>1
    <3>2. CASE throwing(A) # {}
      <4> DEFINE throws == throwing(A)
      <4>1. throws \in SUBSET DOMAIN A /\ throws # {} /\ read = SubSeq(A, 1, Min(throws) - 1)
        BY <3>2
      <4> HIDE DEF throws
      <4>2. \E rest \in Seq(Lines) :
               /\ SubSeq(A, 1, Min(throws) - 1) \in Seq(Lines)
               /\ SubSeq(A, 1, Min(throws) - 1) \o rest = A
        BY <1>11, <4>1, TextRead
      <4>3. QED
        BY <4>1, <4>2
    <3>3. QED
      BY <3>1, <3>2
  <2>2. shown' = shown \o Text(read)
    BY <1>8, <1>10
  <2> HIDE DEF read
  <2>3. Text(A) = Text(read) \o Text(rest) /\ Text(L) = Text(A) \o Text(B)
    BY <1>11, <2>1, TextOfConcat
  <2> DEFINE a == Text(read)
             b == Text(rest)
             c == Text(B)
  <2>4. a \in Numbers /\ b \in Numbers /\ c \in Numbers
    BY <1>11, <2>1, TextTyped DEF Numbers
  <2>5. Told = shown \o ((a \o b) \o c) /\ shown' = shown \o a
    BY <1>13, <2>2, <2>3
  <2> HIDE DEF a, b, c
  <2>6. a \o b \in Numbers /\ b \o c \in Numbers /\ shown \o a \in Numbers
    BY <1>12, <2>4, NumbersAssociate
  <2>7. (a \o b) \o c = a \o (b \o c)
    BY <2>4, NumbersAssociate
  <2>8. (shown \o a) \o (b \o c) = shown \o (a \o (b \o c))
    <3> DEFINE d == b \o c
    <3>1. shown \in Numbers /\ a \in Numbers /\ d \in Numbers
      BY <1>12, <2>4, <2>6
    <3> HIDE DEF d
    <3>2. (shown \o a) \o d = shown \o (a \o d)
      BY <3>1, NumbersAssociate
    <3>3. QED
      BY <3>2 DEF d
  <2>9. IsBeginning((shown \o a) \o (b \o c), said)
    BY <1>4, <2>5, <2>7, <2>8
  <2>10. IsBeginning(shown \o a, said)
    BY <1>12, <2>6, <2>9, BeginningOfBeginning DEF Numbers
  <2>11. Len(shown) <= Len(shown \o a)
    <3> DEFINE N == Nat
    <3>1. shown \in Seq(N) /\ a \in Seq(N)
      BY <1>12, <2>4 DEF Numbers
    <3> HIDE DEF N
    <3>2. Len(shown \o a) = Len(shown) + Len(a) /\ Len(shown) \in Nat /\ Len(a) \in Nat
      BY <3>1, ConcatProperties, LenProperties
    <3>3. QED
      BY <3>2
  <2>12. QED
    BY <2>5, <2>6, <2>10, <2>11 DEF Numbers
<1>15. ASSUME reader' = "reading"
       PROVE  /\ Len(buffer') <= 1 /\ WholeLines(Outgoing)' /\ Told' = Told
              /\ OnlyKinds(Parsed(Outgoing)', {"text", "tool", "usage", "error"})
              /\ OnlyKinds(Parsed(Outgoing)', {"text", "tool", "usage"}) =>
                    OnlyKinds(L, {"text", "tool", "usage"})
  <2>1. throwing(A) = {}
    BY <1>8, <1>10, <1>15
  <2>2. shown' = shown \o Text(A)
    BY <1>8, <1>10, <2>1
  <2>3. Outgoing' = Pieces(B)
    BY <1>9, <1>10
  <2>4. WholeLines(Outgoing)' /\ Parsed(Outgoing)' = B
    BY <1>11, <2>3, PiecesAreWhole DEF WholeLines
  <2>5. Told' = (shown \o Text(A)) \o Text(B)
    BY <2>2, <2>4 DEF Told
  <2>6. Text(L) = Text(A) \o Text(B)
    BY <1>11, TextOfConcat
  <2>7. Text(A) \in Numbers /\ Text(B) \in Numbers
    BY <1>11, TextTyped DEF Numbers
  <2>8. (shown \o Text(A)) \o Text(B) = shown \o (Text(A) \o Text(B))
    BY <1>12, <2>7, NumbersAssociate
  <2>9. /\ OnlyKinds(A, {"text", "tool", "usage", "error"})
        /\ OnlyKinds(B, {"text", "tool", "usage", "error"})
    BY <1>4, <1>11, OnlyKindsOfConcat
  <2>10. OnlyKinds(A, {"text", "tool", "usage"})
    BY <2>1, <2>9 DEF OnlyKinds
  <2>11. OnlyKinds(B, {"text", "tool", "usage"}) => OnlyKinds(L, {"text", "tool", "usage"})
    BY <1>11, <2>10, OnlyKindsOfConcat
  <2>12. QED
    BY <1>8, <1>10, <1>13, <2>4, <2>5, <2>6, <2>8, <2>9, <2>11
<1>16. QED
  BY <1>2, <1>7, <1>8, <1>10, <1>14, <1>15 DEF L

LEMMA ReadChunkKeeps ==
    ASSUME RelayInv, ReadChunk, UNCHANGED caller
    PROVE  RelayInv'
<1>1. TypeOK /\ GateInv /\ ReaderInv
  BY DEF RelayInv
<1>2. /\ relay' \in Chunk /\ down' \in Chunk /\ buffer' \in Chunk /\ shown' \in Seq(Nat)
      /\ UNCHANGED <<caller, lines, said, provider, up, unread, gateway, row, hop>>
      /\ reader = "reading" /\ reader' \in {"reading", "failed"}
      /\ ~Harness => relay' = relay
      /\ reader' = "reading" =>
            /\ Len(buffer') <= 1 /\ WholeLines(Outgoing)' /\ Told' = Told
            /\ OnlyKinds(Parsed(Outgoing)', {"text", "tool", "usage", "error"})
            /\ OnlyKinds(Parsed(Outgoing)', {"text", "tool", "usage"}) =>
                  OnlyKinds(Parsed(Outgoing), {"text", "tool", "usage"})
  BY ReadChunkFacts
<1>3. TypeOK'
  BY <1>1, <1>2 DEF TypeOK
<1>4. /\ WholeLines(Incoming)' = WholeLines(Incoming) /\ Parsed(Incoming)' = Parsed(Incoming)
  BY <1>2 DEF Incoming, WholeLines
<1>5. GateInv'
  BY <1>1, <1>2, <1>4 DEF GateInv, Harness
<1>6. ReaderInv'
  <2>1. CASE reader' = "failed"
    BY <2>1 DEF ReaderInv
  <2>2. CASE reader' = "reading"
    BY <1>1, <1>2, <1>4, <2>2 DEF ReaderInv
  <2>3. QED
    BY <1>2, <2>1, <2>2
<1>7. QED
  BY <1>3, <1>5, <1>6 DEF RelayInv

LEMMA ReadEndKeeps ==
    ASSUME RelayInv, ReadEnd, UNCHANGED caller
    PROVE  RelayInv' /\ row = "SETTLED" /\ provider = "ended" /\ shown = said
<1>1. TypeOK /\ GateInv /\ ReaderInv
  BY DEF RelayInv
<1>2. /\ reader = "reading" /\ reader' = "complete" /\ gateway = "over"
      /\ down = <<>> /\ relay = <<>>
      /\ UNCHANGED <<caller, lines, said, provider, up, unread, gateway, row, down, relay, hop,
                     buffer, shown>>
  BY DEF ReadEnd, upVars, gateVars, hopVars
<1>3. TypeOK'
  BY <1>1, <1>2 DEF TypeOK
<1>4. /\ WholeLines(Incoming)' = WholeLines(Incoming) /\ Parsed(Incoming)' = Parsed(Incoming)
  BY <1>2, QuietStep
<1>5. GateInv'
  BY <1>1, <1>2, <1>4 DEF GateInv, Harness
<1>6. ReaderInv'
  BY <1>2 DEF ReaderInv
<1>7. WholeLines(Outgoing) /\ Len(buffer) <= 1 /\ buffer \in Chunk
  BY <1>1, <1>2 DEF ReaderInv, TypeOK
<1>8. Outgoing = buffer
  <2>1. buffer \o <<>> = buffer
    BY <1>7, ConcatEmptySeq DEF Chunk
  <2>2. QED
    BY <1>2, <2>1 DEF Outgoing
<1>9. Parsed(Outgoing) = <<>>
  BY <1>7, <1>8, ShortIsEmpty
<1>10. OnlyKinds(Parsed(Outgoing), {"text", "tool", "usage"})
  <2>1. DOMAIN <<>> = {}
    OBVIOUS
  <2>2. QED
    BY <1>9, <2>1 DEF OnlyKinds
<1>11. Told = said /\ row = "SETTLED"
  BY <1>1, <1>2, <1>10 DEF ReaderInv
<1>12. provider = "ended"
  BY <1>1, <1>11 DEF GateInv
<1>13. shown = said
  <2>1. Told = shown \o <<>>
    BY <1>9, TextNone DEF Told
  <2> DEFINE N == Nat
             a == shown
  <2>2. a \in Seq(N)
    BY <1>1 DEF TypeOK
  <2> HIDE DEF N, a
  <2>3. a \o <<>> = a
    BY <2>2, ConcatEmptySeq
  <2>4. QED
    BY <1>11, <2>1, <2>3 DEF a
<1>14. QED
  BY <1>3, <1>5, <1>6, <1>11, <1>12, <1>13 DEF RelayInv

LEMMA StepRelay == RelayInv /\ [Next]_vars => RelayInv'
<1> SUFFICES ASSUME RelayInv, [Next]_vars PROVE RelayInv'
  OBVIOUS
<1>1. CASE UNCHANGED vars
  <2>1. UNCHANGED <<caller, lines, said, provider, up, unread, gateway, row, down, relay, hop,
                    buffer, shown, reader>>
    BY <1>1 DEF vars, upVars, gateVars, hopVars, readerVars
  <2>2. TypeOK'
    BY <2>1 DEF RelayInv, TypeOK
  <2>3. /\ WholeLines(Outgoing)' = WholeLines(Outgoing) /\ Parsed(Outgoing)' = Parsed(Outgoing)
        /\ WholeLines(Incoming)' = WholeLines(Incoming) /\ Parsed(Incoming)' = Parsed(Incoming)
        /\ Told' = Told
    BY <2>1, QuietStep
  <2>4. GateInv'
    BY <2>1, <2>3 DEF RelayInv, GateInv, Harness
  <2>5. ReaderInv'
    BY <2>1, <2>3 DEF RelayInv, ReaderInv
  <2>6. QED
    BY <2>2, <2>4, <2>5 DEF RelayInv
<1>2. CASE Next
  <2>1. UNCHANGED caller
    BY <1>2 DEF Next
  <2>2. ASSUME NEW is \in {"text", "tool", "hidden"}, Speak(is) PROVE RelayInv'
    BY <2>1, <2>2, SpeakKeeps
  <2>3. CASE StopSpeaking
    BY <2>1, <2>3, StopSpeakingKeeps
  <2>4. CASE Receive
    BY <2>1, <2>4, ReceiveKeeps
  <2>5. CASE ReceiveEnd
    BY <2>1, <2>5, ReceiveEndKeeps
  <2>6. CASE ReceiveError
    BY <2>1, <2>6, ReceiveErrorKeeps
  <2>7. CASE Close
    BY <2>1, <2>7, CloseKeeps
  <2>8. CASE FailDelivery
    BY <2>1, <2>8, FailDeliveryKeeps
  <2>9. CASE Crash \/ BreakHop \/ LoseConnection
    BY <2>1, <2>9, CrashKeeps
  <2>10. CASE Pipe
    BY <2>1, <2>10, PipeKeeps
  <2>11. CASE ReadChunk
    BY <2>1, <2>11, ReadChunkKeeps
  <2>12. CASE ReadEnd
    BY <2>1, <2>12, ReadEndKeeps
  <2>13. QED
    BY <1>2, <2>2, <2>3, <2>4, <2>5, <2>6, <2>7, <2>8, <2>9, <2>10, <2>11, <2>12 DEF Next
<1>3. QED
  BY <1>1, <1>2

\* The invariant of StreamRelayProps holds of every behaviour: what has been told and what
\* is still on its way always add up to what the model said.
THEOREM RelayInvariant == Spec => []RelayInv
BY InitRelay, StepRelay, PTL DEF Spec
-----------------------------------------------------------------------------
(* The refinement *)

LEMMA InitPromise == Init => Promise!Init
BY DEF Init, Promise!Init, Outcome, Harness

\* One more number at the end.
LEMMA SaysOneMore ==
    ASSUME NEW s \in Seq(Nat), NEW x \in Nat
    PROVE  /\ Len(Append(s, x)) = Len(s) + 1
           /\ SubSeq(Append(s, x), 1, Len(s)) = s
<1> DEFINE N == Nat
           t == Append(s, x)
<1>1. s \in Seq(N) /\ x \in N
  OBVIOUS
<1> HIDE DEF N
<1>2. /\ t \in Seq(N) /\ Len(t) = Len(s) + 1 /\ Len(s) \in Nat
      /\ \A i \in 1..Len(s) : t[i] = s[i]
  BY <1>1, AppendProperties, LenProperties
<1> HIDE DEF t
<1>3. SubSeq(t, 1, Len(s)) = s
  <2> DEFINE u == SubSeq(t, 1, Len(s))
  <2>1. \A i \in 1..Len(s) : t[i] \in N
    BY <1>2, ElementOfSeq
  <2>2. /\ u \in Seq(N) /\ Len(u) = IF 1 <= Len(s) THEN Len(s) - 1 + 1 ELSE 0
        /\ \A i \in 1..(Len(s) - 1 + 1) : u[i] = t[1 + i - 1]
    BY <1>2, <2>1, SubSeqProperties
  <2> HIDE DEF u
  <2>3. Len(u) = Len(s) /\ \A i \in 1..Len(s) : u[i] = s[i]
    BY <1>2, <2>2
  <2>4. u = s
    BY <1>1, <2>2, <2>3, SeqEqual
  <2>5. QED
    BY <2>4 DEF u
<1>4. QED
  BY <1>2, <1>3 DEF t

\* Each step of the relay is a step of the promise, or none the promise tells apart.
LEMMA StepPromise ==
    ASSUME RelayInv, [Next]_vars
    PROVE  [Promise!Next]_(Promise!promiseVars)
<1> USE DEF Outcome, Harness
<1>1. TypeOK /\ GateInv /\ ReaderInv
  BY DEF RelayInv
<1>2. CASE UNCHANGED vars
  BY <1>2 DEF vars, upVars, gateVars, hopVars, readerVars, Promise!promiseVars
<1>3. CASE Next
  <2>1. UNCHANGED caller
    BY <1>3 DEF Next
  <2>2. ASSUME NEW is \in {"text", "tool", "hidden"}, Speak(is)
        PROVE  [Promise!Next]_(Promise!promiseVars)
    <3>1. /\ provider = "speaking" /\ provider' = provider /\ lines' = lines + 1
          /\ said' = IF is = "text" THEN Append(said, lines') ELSE said
          /\ UNCHANGED <<gateway, row, hop, shown, reader>>
      BY <2>2 DEF Speak, hopVars, readerVars
    <3>2. CASE is = "text"
      <4>1. said \in Seq(Nat) /\ lines' \in Nat /\ said' = Append(said, lines')
        BY <1>1, <3>1, <3>2 DEF TypeOK
      <4>2. Len(said') = Len(said) + 1 /\ SubSeq(said', 1, Len(said)) = said
        BY <4>1, SaysOneMore
      <4>3. Promise!Say
        BY <3>1, <4>2 DEF Promise!Say
      <4>4. QED
        BY <2>1, <4>3 DEF Promise!Next
    <3>3. CASE is # "text"
      BY <2>1, <3>1, <3>3 DEF Promise!promiseVars
    <3>4. QED
      BY <3>2, <3>3
  <2>3. CASE StopSpeaking
    <3>1. provider = "speaking" /\ UNCHANGED <<said, gateway, row, hop, shown, reader>>
      BY <2>3 DEF StopSpeaking, gateVars, hopVars, readerVars
    <3>2. CASE provider' = "ended"
      <4>1. Promise!Finish
        BY <3>1, <3>2 DEF Promise!Finish
      <4>2. QED
        BY <2>1, <4>1 DEF Promise!Next
    <3>3. CASE provider' # "ended"
      BY <2>1, <3>1, <3>3 DEF Promise!promiseVars
    <3>4. QED
      BY <3>2, <3>3
  <2>4. CASE Receive \/ ReceiveEnd \/ ReceiveError \/ Pipe
    <3>1. /\ UNCHANGED <<provider, said, row, hop, shown, reader>>
          /\ gateway # "crashed" /\ gateway' # "crashed"
      BY <2>4 DEF Receive, ReceiveEnd, ReceiveError, Pipe, upVars, gateVars, hopVars, readerVars
    <3>2. QED
      BY <2>1, <3>1 DEF Promise!promiseVars
  <2>5. CASE Close \/ FailDelivery
    <3>1. /\ UNCHANGED <<provider, said, hop, shown, reader>>
          /\ gateway \in {"closing", "failing"} /\ gateway' # "crashed"
          /\ row' = "SETTLED" => provider = "ended"
      BY <1>1, <2>5 DEF Close, FailDelivery, upVars, readerVars, GateInv
    <3>2. reader # "complete"
      BY <1>1, <3>1 DEF ReaderInv
    <3>3. Promise!Book
      BY <3>1, <3>2 DEF Promise!Book
    <3>4. QED
      BY <2>1, <3>3 DEF Promise!Next
  <2>6. CASE Crash
    <3>1. /\ UNCHANGED <<provider, said, row, hop, shown, reader>>
          /\ gateway # "crashed" /\ gateway' = "crashed"
      BY <2>6 DEF Crash, upVars, hopVars, readerVars
    <3>2. CASE hop = "broken"
      <4>1. Promise!ComeApart
        BY <3>1, <3>2 DEF Promise!ComeApart
      <4>2. QED
        BY <2>1, <4>1 DEF Promise!Next
    <3>3. CASE hop # "broken"
      BY <2>1, <3>1, <3>3 DEF Promise!promiseVars
    <3>4. QED
      BY <3>2, <3>3
  <2>7. CASE BreakHop
    <3>1. /\ caller = "harness" /\ hop = "open" /\ hop' = "broken"
          /\ UNCHANGED <<provider, said, row, gateway, shown, reader>>
      BY <2>7 DEF BreakHop, upVars, gateVars, readerVars
    <3>2. CASE gateway # "crashed"
      <4>1. Promise!FallSilent
        BY <3>1, <3>2 DEF Promise!FallSilent
      <4>2. QED
        BY <2>1, <4>1 DEF Promise!Next
    <3>3. CASE gateway = "crashed"
      BY <2>1, <3>1, <3>3 DEF Promise!promiseVars
    <3>4. QED
      BY <3>2, <3>3
  <2>8. CASE ReadChunk
    <3>1. /\ UNCHANGED <<provider, said, row, gateway, hop>>
          /\ reader = "reading" /\ reader' \in {"reading", "failed"}
          /\ IsBeginning(shown', said) /\ Len(shown) <= Len(shown')
          /\ shown' \in Seq(Nat) /\ shown \in Seq(Nat) /\ said \in Seq(Nat)
      BY <1>1, <2>1, <2>8, ReadChunkFacts DEF TypeOK
    <3>2. \E n \in Len(shown)..Len(said) : shown' = SubSeq(said, 1, n)
      <4>1. IsBeginning(shown' \o <<>>, said) /\ <<>> \in Seq(Nat)
        <5> DEFINE N == Nat
                   a == shown'
        <5>1. a \in Seq(N) /\ <<>> \in Seq(N)
          BY <3>1
        <5> HIDE DEF N, a
        <5>2. a \o <<>> = a
          BY <5>1, ConcatEmptySeq
        <5>3. QED
          BY <3>1, <5>1, <5>2 DEF a, N
      <4>2. shown' = SubSeq(said, 1, Len(shown')) /\ Len(shown') <= Len(said)
        BY <3>1, <4>1, BeginningOfBeginning
      <4>3. Len(shown) \in Nat /\ Len(shown') \in Nat /\ Len(said) \in Nat
        BY <3>1, LenProperties
      <4>4. Len(shown') \in Len(shown)..Len(said)
        BY <3>1, <4>2, <4>3
      <4>5. QED
        BY <4>2, <4>4
    <3>3. CASE reader' = "reading"
      <4>1. Promise!Show
        BY <3>1, <3>2, <3>3 DEF Promise!Show, Promise!Longer
      <4>2. QED
        BY <2>1, <4>1 DEF Promise!Next
    <3>4. CASE reader' = "failed"
      <4>1. Promise!Fail
        BY <3>1, <3>2, <3>4 DEF Promise!Fail, Promise!Longer
      <4>2. QED
        BY <2>1, <4>1 DEF Promise!Next
    <3>5. QED
      BY <3>1, <3>3, <3>4
  <2>9. CASE ReadEnd
    <3>1. row = "SETTLED" /\ provider = "ended" /\ shown = said
      BY <2>1, <2>9, ReadEndKeeps
    <3>2. /\ reader = "reading" /\ reader' = "complete"
          /\ UNCHANGED <<provider, said, row, gateway, hop, shown>>
      BY <2>9 DEF ReadEnd, upVars, gateVars, hopVars
    <3>3. Promise!Complete
      BY <3>1, <3>2 DEF Promise!Complete
    <3>4. QED
      BY <2>1, <3>3 DEF Promise!Next
  <2>10. CASE LoseConnection
    <3>1. /\ reader = "reading" /\ reader' = "failed"
          /\ UNCHANGED <<provider, said, row, gateway, hop, shown>>
      BY <2>10 DEF LoseConnection, upVars, gateVars, hopVars
    <3>2. \E n \in Len(shown)..Len(said) : shown' = SubSeq(said, 1, n)
      <4>1. IsBeginning(Told, said) /\ Told = shown \o Text(Parsed(Outgoing))
        BY <1>1, <3>1 DEF ReaderInv, Told
      <4>2. shown \in Seq(Nat) /\ Text(Parsed(Outgoing)) \in Seq(Nat) /\ said \in Seq(Nat)
        BY <1>1, StreamsTyped, TextTyped DEF TypeOK
      <4>3. shown = SubSeq(said, 1, Len(shown)) /\ Len(shown) <= Len(said)
        BY <4>1, <4>2, BeginningOfBeginning
      <4>4. Len(shown) \in Nat /\ Len(said) \in Nat
        BY <4>2, LenProperties
      <4>5. Len(shown) \in Len(shown)..Len(said)
        BY <4>3, <4>4
      <4>6. QED
        BY <3>1, <4>3, <4>5
    <3>3. Promise!Fail
      BY <3>1, <3>2 DEF Promise!Fail, Promise!Longer
    <3>4. QED
      BY <2>1, <3>3 DEF Promise!Next
  <2>11. QED
    BY <1>3, <2>2, <2>3, <2>4, <2>5, <2>6, <2>7, <2>8, <2>9, <2>10 DEF Next
<1>4. QED
  BY <1>2, <1>3

\* The relay implements the promise: what the reader has is always the beginning of what
\* the model said, and "complete" means all of it and booked, for any number of lines and
\* any cuts (deepseek.ts:222-261, chat.ts:195-260, chat.tsx:177-231).
THEOREM RelayKeepsItsPromise == Spec => ReadsWhatWasSaid
<1>1. Init => Promise!Init
  BY InitPromise
<1>2. RelayInv /\ [Next]_vars => [Promise!Next]_(Promise!promiseVars)
  BY StepPromise
<1>3. QED
  BY <1>1, <1>2, RelayInvariant, PTL DEF Spec, ReadsWhatWasSaid, Promise!Spec
===============================================================================
