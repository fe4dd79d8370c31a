---------------------------- MODULE SequenceFacts ----------------------------
(***************************************************************************)
(* What the proofs of this project share about sequences: induction, the   *)
(* elements of a sequence, prefixes, and what FlattenSeq computes.  The    *)
(* induction theorems of the library take an operator as a parameter; the  *)
(* one here takes a set, and follows from the fact that inclusion is well  *)
(* founded on finite sets.                                                 *)
(***************************************************************************)
EXTENDS Integers, SequencesExt, SequenceTheorems, FiniteSetTheorems, WellFoundedInduction,
        TLAPS

LEMMA SetInduction ==
    ASSUME NEW P, 0 \in P, \A n \in Nat : n \in P => n + 1 \in P
    PROVE  Nat \subseteq P
<1> SUFFICES ASSUME NEW k \in Nat, k \notin P PROVE FALSE
    OBVIOUS
<1> DEFINE T == {0..n : n \in Nat \ P}
<1>1. T \subseteq FiniteSubsetsOf(Nat)
    <2> SUFFICES ASSUME NEW n \in Nat PROVE 0..n \in FiniteSubsetsOf(Nat)
        OBVIOUS
    <2>1. IsFiniteSet(0..n)
        BY FS_Interval
    <2> QED BY <2>1 DEF FiniteSubsetsOf
<1>2. IsWellFoundedOn(StrictSubsetOrdering(Nat), FiniteSubsetsOf(Nat))
    BY FS_StrictSubsetOrderingWellFounded
<1>3. T # {}
    OBVIOUS
<1> HIDE DEF T
<1>4. PICK x \in T : \A y \in T : <<y, x>> \notin StrictSubsetOrdering(Nat)
    <2> DEFINE S == FiniteSubsetsOf(Nat)
               R == StrictSubsetOrdering(Nat)
    <2>1. IsWellFoundedOn(R, S) /\ T \subseteq S
        BY <1>1, <1>2
    <2> HIDE DEF R, S
    <2>2. \E x \in T : \A y \in T : ~ (<<y, x>> \in R)
        BY <1>3, <2>1, WFMin
    <2> QED BY <2>2 DEF R
<1>5. PICK n \in Nat \ P : x = 0..n
    BY DEF T
<1>6. n # 0 /\ n - 1 \in Nat
    BY <1>5
<1>7. n - 1 \notin P
    BY <1>6, <1>5
<1>8. 0..(n - 1) \in T
    BY <1>6, <1>7 DEF T
<1>9. 0..(n-1) \subseteq 0..n /\ 0..(n-1) # 0..n
    BY <1>6
<1>10. <<0..(n-1), x>> \in StrictSubsetOrdering(Nat)
    BY <1>9, <1>5, SMT DEF StrictSubsetOrdering
<1> QED BY <1>4, <1>8, <1>10

-----------------------------------------------------------------------------
(* The elements of a sequence.                                             *)

LEMMA RangeEmpty == Range(<<>>) = {}
  BY EmptySeq DEF Range

LEMMA RangeAppend ==
    ASSUME NEW S, NEW s \in Seq(S), NEW x \in S
    PROVE  Range(Append(s, x)) = Range(s) \cup {x}
  <1> DEFINE t == Append(s, x)
  <1>1. /\ t \in Seq(S) /\ Len(t) = Len(s) + 1 /\ Len(s) \in Nat
        /\ \A i \in 1..Len(s) : t[i] = s[i]
        /\ t[Len(s) + 1] = x
    BY AppendProperties, LenProperties
  <1>2. Range(t) = {t[i] : i \in 1..(Len(s) + 1)} /\ Range(s) = {s[i] : i \in 1..Len(s)}
    BY <1>1, LenProperties DEF Range
  <1>3. 1..(Len(s) + 1) = 1..Len(s) \cup {Len(s) + 1}
    BY <1>1
  <1> HIDE DEF t
  <1>4. Range(t) = {t[i] : i \in 1..Len(s)} \cup {t[Len(s) + 1]}
    BY <1>2, <1>3
  <1>5. Range(t) = Range(s) \cup {x}
    BY <1>1, <1>2, <1>4
  <1>6. QED
    BY <1>5 DEF t

LEMMA RangeFinite ==
    ASSUME NEW S, NEW s \in Seq(S)
    PROVE  IsFiniteSet(Range(s))
  <1>1. s \in Surjection(1..Len(s), Range(s)) /\ Len(s) \in Nat
    BY LenProperties DEF Range, Surjection
  <1>2. IsFiniteSet(1..Len(s))
    BY <1>1, FS_Interval
  <1>3. QED
    BY <1>1, <1>2, FS_Surjection

-----------------------------------------------------------------------------
(* FlattenSeq.                                                             *)

\* What the recursive function of FlattenSeq is: g[i] joins the first i.
Flattens(g, seqs) ==
    g = [i \in 1..Len(seqs) |-> IF i = 1 THEN seqs[i] ELSE g[i - 1] \o seqs[i]]

\* There is such a function for every sequence.
LEMMA FlattensExists ==
    ASSUME NEW S, NEW seqs \in Seq(S)
    PROVE  \E g : Flattens(g, seqs)
<1> DEFINE Up(g, n) == g = [i \in 1..n |-> IF i = 1 THEN seqs[i] ELSE g[i - 1] \o seqs[i]]
           P == {n \in Nat : \E g : Up(g, n)}
<1>1. 0 \in P
    <2>1. Up(<<>>, 0)
        OBVIOUS
    <2> QED BY <2>1
<1>2. ASSUME NEW n \in Nat, n \in P PROVE n + 1 \in P
    <2>1. PICK g : Up(g, n)
        BY <1>2
    <2> DEFINE top == IF n = 0 THEN seqs[1] ELSE g[n] \o seqs[n + 1]
               h == [i \in 1..(n + 1) |-> IF i = n + 1 THEN top ELSE g[i]]
               k == [i \in 1..(n + 1) |-> IF i = 1 THEN seqs[i] ELSE h[i - 1] \o seqs[i]]
    <2>2. ASSUME NEW i \in 1..(n + 1) PROVE h[i] = k[i]
        <3>1. CASE i = n + 1 /\ n = 0
            BY <3>1
        <3>2. CASE i = n + 1 /\ n # 0
            <4>1. i - 1 = n /\ n \in 1..(n + 1) /\ i # 1
                BY <3>2
            <4>2. h[n] = g[n]
                BY <4>1
            <4>3. top = g[n] \o seqs[n + 1]
                BY <3>2
            <4>4. h[i] = top
                BY <3>2
            <4>5. k[i] = h[n] \o seqs[n + 1]
                BY <4>1, <3>2
            <4> QED BY <4>2, <4>3, <4>4, <4>5
        <3>3. CASE i # n + 1
            <4>1. i \in 1..n /\ h[i] = g[i]
                BY <3>3
            <4>2. g[i] = IF i = 1 THEN seqs[i] ELSE g[i - 1] \o seqs[i]
                BY ONLY <4>1, <2>1
            <4>3. i # 1 => i - 1 \in 1..(n + 1) /\ i - 1 # n + 1
                BY <4>1
            <4>4. i # 1 => h[i - 1] = g[i - 1]
                BY <4>3
            <4> QED BY <4>1, <4>2, <4>4
        <3> QED BY <3>1, <3>2, <3>3
    <2>3. h = k
        BY <2>2
    <2>4. Up(h, n + 1)
        BY <2>3
    <2> HIDE DEF h, Up
    <2>5. \E f : Up(f, n + 1)
        BY <2>4
    <2> QED BY <2>5
<1>3. Nat \subseteq P
    <2> HIDE DEF P
    <2> QED BY <1>1, <1>2, SetInduction
<1>4. Len(seqs) \in P
    BY <1>3, LenProperties
<1>5. PICK g : Up(g, Len(seqs))
    BY <1>4
<1> QED BY <1>5 DEF Flattens

\* FlattenSeq is the last value of the function.
LEMMA FlattenSeqLast ==
    ASSUME NEW S, NEW seqs \in Seq(S), seqs # <<>>
    PROVE  \E g : Flattens(g, seqs) /\ FlattenSeq(seqs) = g[Len(seqs)]
<1> DEFINE c == CHOOSE g : Flattens(g, seqs)
<1>1. Flattens(c, seqs)
    BY FlattensExists
<1>2. Len(seqs) # 0
    BY EmptySeq
<1>3. FlattenSeq(seqs) = c[Len(seqs)]
    BY <1>2 DEF FlattenSeq, Flattens
<1> QED BY <1>1, <1>3

LEMMA FlattensAt ==
    ASSUME NEW s, NEW g, Flattens(g, s), NEW i \in 1..Len(s)
    PROVE  g[i] = IF i = 1 THEN s[i] ELSE g[i - 1] \o s[i]
BY DEF Flattens

Agree(g, h, n) == \A i \in 1..n : g[i] = h[i]

\* Sequences that begin alike are joined alike.
LEMMA FlattensAgree ==
    ASSUME NEW s, NEW t, NEW g, NEW h, Flattens(g, s), Flattens(h, t),
           Len(s) \in Nat, Len(t) = Len(s) + 1, Agree(s, t, Len(s))
    PROVE  Agree(g, h, Len(s))
<1> DEFINE n == Len(s)
           P == {i \in Nat : i + 1 \in 1..n => g[i + 1] = h[i + 1]}
<1>1. \A i \in 1..n : /\ g[i] = IF i = 1 THEN s[i] ELSE g[i - 1] \o s[i]
                      /\ h[i] = IF i = 1 THEN t[i] ELSE h[i - 1] \o t[i]
    <2> SUFFICES ASSUME NEW i \in 1..n
                 PROVE  /\ g[i] = IF i = 1 THEN s[i] ELSE g[i - 1] \o s[i]
                        /\ h[i] = IF i = 1 THEN t[i] ELSE h[i - 1] \o t[i]
        OBVIOUS
    <2>1. i \in 1..Len(s) /\ i \in 1..Len(t)
        OBVIOUS
    <2> QED BY <2>1, FlattensAt
<1>2. 0 \in P
    BY <1>1 DEF Agree
<1>3. ASSUME NEW i \in Nat, i \in P PROVE i + 1 \in P
    <2> SUFFICES ASSUME i + 2 \in 1..n PROVE g[i + 2] = h[i + 2]
        BY i + 1 + 1 = i + 2
    <2>1. i + 1 \in 1..n /\ i + 2 # 1 /\ i + 2 - 1 = i + 1
        OBVIOUS
    <2>2. g[i + 1] = h[i + 1]
        BY <2>1, <1>3
    <2>3. s[i + 2] = t[i + 2]
        BY DEF Agree
    <2> QED BY <1>1, <2>1, <2>2, <2>3
<1>4. Nat \subseteq P
    <2> HIDE DEF P
    <2> QED BY <1>2, <1>3, SetInduction
<1> SUFFICES ASSUME NEW i \in 1..n PROVE g[i] = h[i]
    BY DEF Agree
<1>5. i - 1 \in Nat /\ i - 1 + 1 = i
    OBVIOUS
<1> HIDE DEF P
<1>6. i - 1 \in P
    BY <1>4, <1>5
<1> QED BY <1>5, <1>6 DEF P

LEMMA FlattenSeqEmpty == FlattenSeq(<<>>) = <<>>
BY DEF FlattenSeq

\* One sequence more at the end.
LEMMA FlattenSeqAppend ==
    ASSUME NEW S, NEW seqs \in Seq(Seq(S)), NEW x \in Seq(S)
    PROVE  FlattenSeq(Append(seqs, x)) = FlattenSeq(seqs) \o x
<1> DEFINE t == Append(seqs, x)
           n == Len(seqs)
<1>1. /\ t \in Seq(Seq(S)) /\ t # <<>> /\ Len(t) = n + 1 /\ n \in Nat
      /\ \A i \in 1..n : t[i] = seqs[i]
      /\ t[n + 1] = x
    BY AppendProperties, LenProperties
<1> HIDE DEF t
<1>2. PICK h : Flattens(h, t) /\ FlattenSeq(t) = h[n + 1]
    BY <1>1, FlattenSeqLast
<1>3. h[n + 1] = IF n + 1 = 1 THEN t[n + 1] ELSE h[n + 1 - 1] \o t[n + 1]
    <2>1. n + 1 \in 1..Len(t)
        BY <1>1
    <2> QED BY <2>1, <1>2, FlattensAt
<1>4. CASE n = 0
    <2>1. seqs = <<>>
        BY <1>4, EmptySeq
    <2>2. <<>> \o x = x
        BY ConcatEmptySeq
    <2> QED BY <1>1, <1>2, <1>3, <1>4, <2>1, <2>2, FlattenSeqEmpty DEF t
<1>5. CASE n # 0
    <2>1. seqs # <<>>
        BY <1>5, EmptySeq
    <2>2. PICK g : Flattens(g, seqs) /\ FlattenSeq(seqs) = g[n]
        BY <2>1, FlattenSeqLast
    <2>4. g[n] = h[n]
        <3>1. /\ Len(t) = Len(seqs) + 1 /\ Len(seqs) \in Nat
              /\ Agree(seqs, t, Len(seqs))
            BY <1>1 DEF Agree
        <3>2. Agree(g, h, Len(seqs))
            <4>1. Flattens(g, seqs) /\ Flattens(h, t)
                BY <2>2, <1>2
            <4> QED BY ONLY <3>1, <4>1, FlattensAgree
        <3> QED BY <3>2, <1>1, <1>5 DEF Agree
    <2>5. h[n + 1] = h[n] \o x
        BY <1>3, <1>5, <1>1
    <2> QED BY <1>2, <2>2, <2>4, <2>5 DEF t
<1> QED BY <1>4, <1>5

LEMMA EmptyIsShort == ASSUME NEW s, Len(s) # 0 PROVE s # <<>>
OBVIOUS

\* s is u and then x, and so is what they are joined to.
EndsWith(s, u, x) == /\ s = Append(u, x)
                     /\ Len(s) = Len(u) + 1 /\ Len(u) \in Nat
                     /\ FlattenSeq(s) = FlattenSeq(u) \o x

LEMMA FlattenSeqSplit ==
    ASSUME NEW S, NEW s \in Seq(Seq(S)), s # <<>>
    PROVE  \E u \in Seq(Seq(S)), x \in Seq(S) : EndsWith(s, u, x)
<1>1. PICK u \in Seq(Seq(S)), x \in Seq(S) : s = Append(u, x)
    BY SequenceEmptyOrAppend
<1>2. Len(s) = Len(u) + 1 /\ Len(u) \in Nat
    BY <1>1, AppendProperties, LenProperties
<1>3. FlattenSeq(s) = FlattenSeq(u) \o x
    BY <1>1, FlattenSeqAppend
<1> QED BY <1>1, <1>2, <1>3 DEF EndsWith

LEMMA FlattenSeqType ==
    ASSUME NEW S, NEW seqs \in Seq(Seq(S))
    PROVE  FlattenSeq(seqs) \in Seq(S)
<1> DEFINE P == {n \in Nat : \A s \in Seq(Seq(S)) : Len(s) = n => FlattenSeq(s) \in Seq(S)}
<1>1. 0 \in P
    <2>1. ASSUME NEW s \in Seq(Seq(S)), Len(s) = 0 PROVE FlattenSeq(s) \in Seq(S)
        <3>1. s = <<>>
            BY <2>1, EmptySeq
        <3> QED BY <3>1, FlattenSeqEmpty, EmptySeq
    <2> QED BY <2>1
<1>2. ASSUME NEW n \in Nat, n \in P PROVE n + 1 \in P
    <2>1. ASSUME NEW s \in Seq(Seq(S)), Len(s) = n + 1 PROVE FlattenSeq(s) \in Seq(S)
        <3>1. s # <<>>
            BY <2>1, EmptySeq
        <3>2. PICK u \in Seq(Seq(S)), x \in Seq(S)  : EndsWith(s, u, x)
            BY ONLY <3>1, FlattenSeqSplit
        <3>3. Len(u) = n /\ FlattenSeq(s) = FlattenSeq(u) \o x
            BY <3>2, <2>1 DEF EndsWith
        <3>4. FlattenSeq(u) \in Seq(S)
            BY <3>3, <1>2
        <3> QED BY <3>3, <3>4, ConcatProperties
    <2> QED BY <2>1
<1>3. Nat \subseteq P
    <2> HIDE DEF P
    <2> QED BY <1>1, <1>2, SetInduction
<1>4. Len(seqs) \in P
    BY <1>3, LenProperties
<1> QED BY <1>4

\* The first sequence comes first.
LEMMA FlattenSeqHead ==
    ASSUME NEW S, NEW seqs \in Seq(Seq(S)), seqs # <<>>
    PROVE  FlattenSeq(seqs) = Head(seqs) \o FlattenSeq(Tail(seqs))
<1> DEFINE P == {n \in Nat : \A s \in Seq(Seq(S)) : Len(s) = n + 1 =>
                                 FlattenSeq(s) = Head(s) \o FlattenSeq(Tail(s))}
<1>1. 0 \in P
    <2>1. ASSUME NEW s \in Seq(Seq(S)), Len(s) = 0 + 1
          PROVE  FlattenSeq(s) = Head(s) \o FlattenSeq(Tail(s))
        <3>0. s # <<>>
            <4>1. Len(s) # 0
                BY <2>1
            <4> QED BY <4>1, EmptyIsShort
        <3>1. PICK u \in Seq(Seq(S)), x \in Seq(S)  : EndsWith(s, u, x)
            BY ONLY <3>0, FlattenSeqSplit
        <3>2. u = <<>> /\ s = Append(u, x) /\ FlattenSeq(s) = FlattenSeq(u) \o x
            BY <2>1, <3>1, EmptySeq DEF EndsWith
        <3>3. Head(s) = x /\ Tail(s) = <<>>
            BY <3>2, HeadTailAppend
        <3>4. <<>> \o x = x /\ x \o <<>> = x
            BY ConcatEmptySeq
        <3> QED BY <3>2, <3>3, <3>4, FlattenSeqEmpty
    <2> QED BY <2>1
<1>2. ASSUME NEW n \in Nat, n \in P PROVE n + 1 \in P
    <2>1. ASSUME NEW s \in Seq(Seq(S)), Len(s) = n + 1 + 1
          PROVE  FlattenSeq(s) = Head(s) \o FlattenSeq(Tail(s))
        <3>0. s # <<>>
            BY <2>1, EmptySeq
        <3>1. PICK u \in Seq(Seq(S)), x \in Seq(S)  : EndsWith(s, u, x)
            BY ONLY <3>0, FlattenSeqSplit
        <3>2. Len(u) = n + 1 /\ s = Append(u, x) /\ FlattenSeq(s) = FlattenSeq(u) \o x
            BY <2>1, <3>1 DEF EndsWith
        <3>9. FlattenSeq(u) = Head(u) \o FlattenSeq(Tail(u))
            BY <3>2, <1>2
        <3>3. u # <<>>
            BY <3>2, EmptyIsShort
        <3>4. Head(u) \in Seq(S) /\ Tail(u) \in Seq(Seq(S))
            BY <3>3, HeadTailProperties
        <3>5. Head(s) = Head(u) /\ Tail(s) = Append(Tail(u), x)
            BY <3>2, <3>3, HeadTailAppend
        <3>6. FlattenSeq(Tail(s)) = FlattenSeq(Tail(u)) \o x
            BY <3>4, <3>5, FlattenSeqAppend
        <3>7. FlattenSeq(Tail(u)) \in Seq(S)
            BY <3>4, FlattenSeqType
        <3>8. (Head(u) \o FlattenSeq(Tail(u))) \o x = Head(u) \o (FlattenSeq(Tail(u)) \o x)
            <4> DEFINE a == Head(u)
                       b == FlattenSeq(Tail(u))
            <4>1. a \in Seq(S) /\ b \in Seq(S) /\ x \in Seq(S)
                BY <3>4, <3>7
            <4> HIDE DEF a, b
            <4>2. (a \o b) \o x = a \o (b \o x)
                BY ONLY <4>1, ConcatAssociative, SMTT(40)
            <4> QED BY <4>2 DEF a, b
        <3> QED BY <3>2, <3>9, <3>5, <3>6, <3>8
    <2> QED BY <2>1
<1>3. Nat \subseteq P
    <2> HIDE DEF P
    <2> QED BY <1>1, <1>2, SetInduction
<1>4. Len(seqs) - 1 \in Nat
    BY EmptySeq
<1> HIDE DEF P
<1>5. Len(seqs) - 1 \in P /\ Len(seqs) - 1 + 1 = Len(seqs)
    BY <1>3, <1>4
<1> QED BY <1>5 DEF P

\* A function on 1..n is a sequence.
LEMMA FunctionIsSeq ==
    ASSUME NEW S, NEW n \in Nat, NEW f \in [1..n -> S]
    PROVE  f \in Seq(S) /\ Len(f) = n
<1>1. f \in Seq(S)
    BY SeqDef
<1>2. DOMAIN f = 1..n /\ DOMAIN f = 1..Len(f) /\ Len(f) \in Nat
    BY <1>1, LenProperties
<1> QED BY <1>1, <1>2

LEMMA PairIsSeq == ASSUME NEW S, NEW a \in S, NEW b \in S PROVE <<a, b>> \in Seq(S)
<1>1. <<a, b>> \in [1..2 -> S]
    OBVIOUS
<1> QED BY <1>1, FunctionIsSeq

LEMMA ReverseProperties ==
    ASSUME NEW S, NEW s \in Seq(S)
    PROVE  Reverse(s) \in Seq(S) /\ Range(Reverse(s)) = Range(s)
  <1> DEFINE n == Len(s)
             f == [i \in 1..n |-> s[(n - i) + 1]]
  <1>1. n \in Nat /\ DOMAIN s = 1..n /\ \A i \in 1..n : s[i] \in S
    BY LenProperties
  <1>2. Reverse(s) = f
    BY DEF Reverse
  <1>3. \A i \in 1..n : (n - i) + 1 \in 1..n /\ (n - ((n - i) + 1)) + 1 = i
    BY <1>1
  <1> HIDE DEF n
  <1>4. f \in [1..n -> S]
    BY <1>1, <1>3
  <1>5. Range(f) = Range(s)
    <2>1. Range(f) = {f[i] : i \in 1..n} /\ Range(s) = {s[i] : i \in 1..n}
      BY <1>1 DEF Range
    <2>2. \A i \in 1..n : f[i] = s[(n - i) + 1] /\ f[(n - i) + 1] = s[i]
      BY <1>3
    <2> HIDE DEF f
    <2> QED BY <1>3, <2>1, <2>2
  <1> HIDE DEF f
  <1> QED BY <1>1, <1>2, <1>4, <1>5, FunctionIsSeq

\* The elements of the joined sequence are those of the sequences.
LEMMA FlattenSeqRange ==
    ASSUME NEW S, NEW seqs \in Seq(Seq(S))
    PROVE  Range(FlattenSeq(seqs)) = UNION {Range(seqs[i]) : i \in 1..Len(seqs)}
<1> DEFINE P == {n \in Nat : \A s \in Seq(Seq(S)) : Len(s) = n =>
                     Range(FlattenSeq(s)) = UNION {Range(s[i]) : i \in 1..Len(s)}}
<1>1. 0 \in P
    <2> SUFFICES ASSUME NEW s \in Seq(Seq(S)), Len(s) = 0
                 PROVE  Range(FlattenSeq(s)) = UNION {Range(s[i]) : i \in 1..Len(s)}
        OBVIOUS
    <2>1. s = <<>>
        BY EmptySeq
    <2> QED BY <2>1, FlattenSeqEmpty, RangeEmpty
<1>2. ASSUME NEW n \in Nat, n \in P PROVE n + 1 \in P
    <2> SUFFICES ASSUME NEW s \in Seq(Seq(S)), Len(s) = n + 1
                 PROVE  Range(FlattenSeq(s)) = UNION {Range(s[i]) : i \in 1..Len(s)}
        OBVIOUS
    <2>1. s # <<>>
        BY EmptySeq
    <2>2. PICK u \in Seq(Seq(S)), x \in Seq(S) : EndsWith(s, u, x)
        BY ONLY <2>1, FlattenSeqSplit
    <2>3. Len(u) = n /\ FlattenSeq(s) = FlattenSeq(u) \o x /\ s = Append(u, x)
        BY <2>2 DEF EndsWith
    <2>4. Range(FlattenSeq(u)) = UNION {Range(u[i]) : i \in 1..n}
        BY <1>2, <2>3
    <2>5. Range(FlattenSeq(s)) = Range(FlattenSeq(u)) \cup Range(x)
        BY <2>3, FlattenSeqType, RangeConcatenation
    <2>6. (\A i \in 1..n : s[i] = u[i]) /\ s[n + 1] = x
        BY <2>3, AppendProperties
    <2>7. 1..(n + 1) = 1..n \cup {n + 1}
        OBVIOUS
    <2>8. {Range(s[i]) : i \in 1..(n + 1)} = {Range(u[i]) : i \in 1..n} \cup {Range(x)}
        BY <2>6, <2>7
    <2> QED BY <2>4, <2>5, <2>8
<1>3. Nat \subseteq P
    <2> HIDE DEF P
    <2> QED BY <1>1, <1>2, SetInduction
<1>4. Len(seqs) \in P
    BY <1>3, LenProperties
<1> QED BY <1>4

-----------------------------------------------------------------------------
(* Prefixes.                                                               *)

LEMMA PrefixElements ==
    ASSUME NEW S, NEW s \in Seq(S), NEW t \in Seq(S)
    PROVE  IsPrefix(s, t) <=> Len(s) <= Len(t) /\ \A i \in 1..Len(s) : s[i] = t[i]
<1>1. Len(s) \in Nat /\ Len(t) \in Nat
    BY LenProperties
<1>2. SubSeq(s, 1, Len(s)) = s
    BY SubSeqFull
<1> SUFFICES ASSUME Len(s) <= Len(t)
             PROVE  s = SubSeq(t, 1, Len(s)) <=> \A i \in 1..Len(s) : s[i] = t[i]
    BY <1>2 DEF IsPrefix
<1> DEFINE u == SubSeq(t, 1, Len(s))
<1>3. \A i \in 1..Len(s) : t[i] \in S
    BY <1>1, ElementOfSeq
<1>4. u \in Seq(S) /\ Len(u) = IF 1 <= Len(s) THEN Len(s) - 1 + 1 ELSE 0
    BY <1>1, <1>3, SubSeqProperties
<1>5. \A i \in 1..(Len(s) - 1 + 1) : u[i] = t[1 + i - 1]
    BY <1>1, <1>3, SubSeqProperties
<1>6. \A i \in 1..Len(s) : u[i] = t[i]
    BY <1>1, <1>5
<1>7. Len(u) = Len(s)
    BY <1>1, <1>4
<1> HIDE DEF u
<1>8. s = u <=> \A i \in 1..Len(s) : s[i] = u[i]
    BY <1>4, <1>7, SeqEqual
<1> QED BY <1>6, <1>8 DEF u

LEMMA PrefixOfConcat ==
    ASSUME NEW S, NEW s \in Seq(S), NEW t \in Seq(S)
    PROVE  IsPrefix(s, s \o t)
<1>1. /\ Len(s) \in Nat /\ Len(t) \in Nat
      /\ s \o t \in Seq(S) /\ Len(s \o t) = Len(s) + Len(t)
      /\ \A i \in 1..(Len(s) + Len(t)) :
             (s \o t)[i] = IF i <= Len(s) THEN s[i] ELSE t[i - Len(s)]
    BY ConcatProperties, LenProperties
<1> DEFINE u == s \o t
<1>2. Len(s) <= Len(u) /\ \A i \in 1..Len(s) : s[i] = u[i]
    BY <1>1
<1> HIDE DEF u
<1>3. u \in Seq(S)
    BY <1>1 DEF u
<1>4. IsPrefix(s, u)
    BY <1>2, <1>3, PrefixElements
<1> QED BY <1>4 DEF u

LEMMA PrefixExtends ==
    ASSUME NEW S, NEW s \in Seq(S), NEW t \in Seq(S), NEW u \in Seq(S), IsPrefix(s, t)
    PROVE  IsPrefix(s, t \o u)
<1> DEFINE v == t \o u
<1>1. /\ Len(s) \in Nat /\ Len(t) \in Nat
      /\ Len(s) <= Len(t) /\ \A i \in 1..Len(s) : s[i] = t[i]
    BY LenProperties, PrefixElements
<1>2. /\ v \in Seq(S)
      /\ Len(t) <= Len(v) /\ \A i \in 1..Len(t) : t[i] = v[i]
    BY ConcatProperties, PrefixOfConcat, PrefixElements
<1> HIDE DEF v
<1>3. Len(v) \in Nat
    BY <1>2, LenProperties
<1>4. Len(s) <= Len(v) /\ \A i \in 1..Len(s) : s[i] = v[i]
    BY <1>1, <1>2, <1>3
<1>5. IsPrefix(s, v)
    BY <1>2, <1>4, PrefixElements
<1> QED BY <1>5 DEF v

LEMMA PrefixOfItself == ASSUME NEW S, NEW s \in Seq(S) PROVE IsPrefix(s, s)
BY DEF IsPrefix

LEMMA PrefixTransitive ==
    ASSUME NEW S, NEW s \in Seq(S), NEW t \in Seq(S), NEW u \in Seq(S),
           IsPrefix(s, t), IsPrefix(t, u)
    PROVE  IsPrefix(s, u)
<1>1. Len(s) \in Nat /\ Len(t) \in Nat /\ Len(u) \in Nat
    BY LenProperties
<1>2. Len(s) <= Len(t) /\ \A i \in 1..Len(s) : s[i] = t[i]
    BY PrefixElements
<1>3. Len(t) <= Len(u) /\ \A i \in 1..Len(t) : t[i] = u[i]
    BY PrefixElements
<1>4. Len(s) <= Len(u) /\ \A i \in 1..Len(s) : s[i] = u[i]
    BY <1>1, <1>2, <1>3
<1> QED BY <1>4, PrefixElements

-----------------------------------------------------------------------------
(* Recursion and induction.                                                *)

\* f is what D makes of it, for all that is less deep than n.
UpTo(f, S, rank, D, n) == \A x \in S : rank[x] < n => f[x] = D[<<x, f>>]

\* For each element D looks only at what the function is for less deep ones.
LooksDown(S, V, rank, D) ==
    /\ V # {} /\ rank \in [S -> Nat] /\ D \in [S \X [S -> V] -> V]
    /\ \A x \in S : \A f, g \in [S -> V] :
           (\A y \in S : rank[y] < rank[x] => f[y] = g[y]) => D[<<x, f>>] = D[<<x, g>>]

\* What is defined in this way is defined.
LEMMA Recursion ==
    ASSUME NEW S, NEW V, NEW rank, NEW D, LooksDown(S, V, rank, D)
    PROVE  \E f \in [S -> V] : \A x \in S : f[x] = D[<<x, f>>]
<1>00. /\ V # {} /\ rank \in [S -> Nat] /\ D \in [S \X [S -> V] -> V]
       /\ \A x \in S : \A f, g \in [S -> V] :
              (\A y \in S : rank[y] < rank[x] => f[y] = g[y]) => D[<<x, f>>] = D[<<x, g>>]
    BY DEF LooksDown
<1> USE <1>00
<1> DEFINE Up(f, n) == UpTo(f, S, rank, D, n)
           P == {n \in Nat : \E f \in [S -> V] : Up(f, n)}
           Q == {n \in Nat : \A f, g \in [S -> V] :
                     Up(f, n) /\ Up(g, n) => \A x \in S : rank[x] < n => f[x] = g[x]}
<1>0. \A x \in S : rank[x] \in Nat
    OBVIOUS
<1>1. 0 \in P
    <2>1. PICK v \in V : TRUE
        OBVIOUS
    <2> DEFINE f == [x \in S |-> v]
    <2>2. f \in [S -> V] /\ Up(f, 0)
        BY <1>0 DEF UpTo
    <2> QED BY <2>2
<1>2. ASSUME NEW n \in Nat, n \in P PROVE n + 1 \in P
    <2>1. PICK f \in [S -> V] : Up(f, n)
        BY <1>2
    <2> DEFINE h == [x \in S |-> D[<<x, f>>]]
    <2>2. h \in [S -> V]
        OBVIOUS
    <2>3. \A x \in S : h[x] = D[<<x, f>>]
        OBVIOUS
    <2> HIDE DEF h
    <2>4. ASSUME NEW x \in S, rank[x] < n + 1 PROVE h[x] = D[<<x, h>>]
        <3>1. ASSUME NEW y \in S, rank[y] < rank[x] PROVE f[y] = h[y]
            <4>1. rank[y] < n
                BY <2>4, <3>1, <1>0
            <4> QED BY <4>1, <2>1, <2>3 DEF UpTo
        <3> QED BY <3>1, <2>2, <2>3
    <2>5. Up(h, n + 1)
        BY <2>4 DEF UpTo
    <2> QED BY <2>2, <2>5
<1>3. 0 \in Q
    BY <1>0
<1>4. ASSUME NEW n \in Nat, n \in Q PROVE n + 1 \in Q
    <2> SUFFICES ASSUME NEW f \in [S -> V], NEW g \in [S -> V], Up(f, n + 1), Up(g, n + 1),
                        NEW x \in S, rank[x] < n + 1
                 PROVE  f[x] = g[x]
        OBVIOUS
    <2>1. \A y \in S : rank[y] < n => rank[y] < n + 1
        BY <1>0
    <2>2. Up(f, n) /\ Up(g, n)
        BY <2>1 DEF UpTo
    <2>3. \A y \in S : rank[y] < n => f[y] = g[y]
        BY <1>4, <2>2
    <2>4. \A y \in S : rank[y] < rank[x] => f[y] = g[y]
        BY <2>3, <1>0
    <2>5. D[<<x, f>>] = D[<<x, g>>]
        BY <2>4
    <2> QED BY <2>5 DEF UpTo
<1>5. Nat \subseteq P /\ Nat \subseteq Q
    <2> HIDE DEF P, Q
    <2> QED BY <1>1, <1>2, <1>3, <1>4, SetInduction
<1> DEFINE At(n) == CHOOSE f \in [S -> V] : Up(f, n)
           F == [x \in S |-> At(rank[x] + 1)[x]]
<1>6. ASSUME NEW n \in Nat PROVE At(n) \in [S -> V] /\ Up(At(n), n)
    <2> HIDE DEF Up
    <2>1. n \in P
        BY <1>5
    <2> QED BY <2>1
<1> HIDE DEF At
<1>7. F \in [S -> V]
    <2> SUFFICES ASSUME NEW x \in S PROVE At(rank[x] + 1)[x] \in V
        OBVIOUS
    <2>1. At(rank[x] + 1) \in [S -> V]
        BY <1>0, <1>6
    <2> QED BY <2>1
<1>8. ASSUME NEW x \in S PROVE F[x] = D[<<x, F>>]
    <2> DEFINE f == At(rank[x] + 1)
    <2>0. rank[x] + 1 \in Nat
        BY <1>0
    <2>1. f \in [S -> V] /\ Up(f, rank[x] + 1)
        BY <2>0, <1>6
    <2>2. F[x] = f[x]
        OBVIOUS
    <2> HIDE DEF f
    <2>3. ASSUME NEW y \in S, rank[y] < rank[x] PROVE f[y] = F[y]
        <3> DEFINE g == At(rank[y] + 1)
        <3>0. F[y] = g[y]
            OBVIOUS
        <3>5. rank[y] + 1 \in Nat
            BY <1>0
        <3>1. g \in [S -> V] /\ Up(g, rank[y] + 1)
            BY <3>5, <1>6
        <3> HIDE DEF g
        <3>2. Up(f, rank[y] + 1)
            <4>1. \A z \in S : rank[z] < rank[y] + 1 => rank[z] < rank[x] + 1
                BY <1>0, <2>3
            <4> QED BY <4>1, <2>1 DEF UpTo
        <3>3. rank[y] + 1 \in Q
            BY <1>0, <1>5
        <3>4. rank[y] < rank[y] + 1
            BY <1>0
        <3> QED BY <2>1, <3>0, <3>1, <3>2, <3>3, <3>4
    <2>4. D[<<x, f>>] = D[<<x, F>>]
        BY <2>1, <2>3, <1>7
    <2>5. f[x] = D[<<x, f>>]
        <3>1. rank[x] < rank[x] + 1
            BY <1>0
        <3> QED BY <2>1, <3>1 DEF UpTo
    <2> QED BY <2>2, <2>4, <2>5
<1> HIDE DEF F
<1> QED BY <1>7, <1>8

LEMMA SeqInduction ==
    ASSUME NEW S, NEW P, <<>> \in P,
           \A s \in Seq(S), x \in S : s \in P => Append(s, x) \in P
    PROVE  Seq(S) \subseteq P
<1> DEFINE Q == {n \in Nat : \A s \in Seq(S) : Len(s) = n => s \in P}
<1>1. 0 \in Q
    BY EmptySeq
<1>2. ASSUME NEW n \in Nat, n \in Q PROVE n + 1 \in Q
    <2> SUFFICES ASSUME NEW s \in Seq(S), Len(s) = n + 1 PROVE s \in P
        OBVIOUS
    <2>1. s # <<>>
        BY EmptySeq
    <2>2. PICK u \in Seq(S), x \in S : s = Append(u, x)
        BY <2>1, SequenceEmptyOrAppend
    <2>3. Len(u) = n
        BY <2>2, AppendProperties, LenProperties
    <2> QED BY <1>2, <2>2, <2>3
<1>3. Nat \subseteq Q
    <2> HIDE DEF Q
    <2> QED BY <1>1, <1>2, SetInduction
<1> QED BY <1>3, LenProperties

-----------------------------------------------------------------------------
(* Sums.                                                                   *)

\* The values of F, one for each element of s, added up.
Sum(F, s) == Len(FlattenSeq([i \in DOMAIN s |-> [k \in 1..F[s[i]] |-> 0]]))

LEMMA SumEmpty == ASSUME NEW F PROVE Sum(F, <<>>) = 0
<1>1. [i \in DOMAIN <<>> |-> [k \in 1..F[<<>>[i]] |-> 0]] = <<>>
    OBVIOUS
<1> QED BY <1>1, FlattenSeqEmpty, EmptySeq DEF Sum

LEMMA SumAppend ==
    ASSUME NEW S, NEW F \in [S -> Nat], NEW s \in Seq(S), NEW x \in S
    PROVE  Sum(F, Append(s, x)) = Sum(F, s) + F[x] /\ Sum(F, s) \in Nat
<1> DEFINE Ones(n) == [k \in 1..n |-> 0]
           f == [i \in DOMAIN s |-> Ones(F[s[i]])]
           t == Append(s, x)
           g == [i \in DOMAIN t |-> Ones(F[t[i]])]
<1>1. ASSUME NEW n \in Nat PROVE Ones(n) \in Seq(Nat) /\ Len(Ones(n)) = n
    <2>1. Ones(n) \in [1..n -> Nat]
        OBVIOUS
    <2> HIDE DEF Ones
    <2> QED BY <2>1, FunctionIsSeq
<1> HIDE DEF Ones
<1>2. /\ Len(s) \in Nat /\ DOMAIN s = 1..Len(s) /\ \A i \in 1..Len(s) : s[i] \in S
      /\ t \in Seq(S) /\ Len(t) = Len(s) + 1 /\ DOMAIN t = 1..(Len(s) + 1)
      /\ \A i \in 1..Len(s) : t[i] = s[i]
      /\ t[Len(s) + 1] = x
    BY AppendProperties, LenProperties
<1> HIDE DEF t
<1>3. f \in [1..Len(s) -> Seq(Nat)]
    BY <1>1, <1>2
<1> DEFINE h == Append(f, Ones(F[x]))
<1>4. f \in Seq(Seq(Nat)) /\ Len(f) = Len(s)
    BY <1>2, <1>3, FunctionIsSeq
<1>5. Ones(F[x]) \in Seq(Nat) /\ Len(Ones(F[x])) = F[x]
    BY <1>1
<1>6. g = h
    <2>1. /\ DOMAIN h = 1..(Len(s) + 1) /\ h[Len(s) + 1] = Ones(F[x])
          /\ \A i \in 1..Len(s) : h[i] = f[i]
        BY <1>4, <1>5, AppendProperties, LenProperties
    <2>2. DOMAIN g = 1..(Len(s) + 1)
        BY <1>2
    <2>3. ASSUME NEW i \in 1..(Len(s) + 1) PROVE g[i] = h[i]
        <3>1. CASE i = Len(s) + 1
            BY <1>2, <2>1, <3>1
        <3>2. CASE i \in 1..Len(s)
            BY <1>2, <2>1, <3>2
        <3> QED BY <3>1, <3>2, <1>2
    <2>4. h \in Seq(Seq(Nat))
        BY <1>4, <1>5, AppendProperties
    <2>5. h = [i \in DOMAIN h |-> h[i]] /\ g = [i \in DOMAIN g |-> g[i]]
        <3> HIDE DEF h
        <3>1. h \in [DOMAIN h -> Seq(Nat)]
            BY <2>1, <2>4, LenProperties, ElementOfSeq
        <3> QED BY <3>1
    <2> HIDE DEF h, g
    <2> QED BY <2>1, <2>2, <2>3, <2>5
<1> HIDE DEF f
<1>7. FlattenSeq(h) = FlattenSeq(f) \o Ones(F[x]) /\ FlattenSeq(f) \in Seq(Nat)
    BY <1>4, <1>5, FlattenSeqAppend, FlattenSeqType
<1> DEFINE a == FlattenSeq(f)
           b == Ones(F[x])
<1>8. Len(a \o b) = Len(a) + Len(b) /\ Len(a) \in Nat
    <2>1. a \in Seq(Nat) /\ b \in Seq(Nat)
        BY <1>7, <1>5
    <2> HIDE DEF a, b
    <2> QED BY <2>1, ConcatProperties, LenProperties
<1>9. Sum(F, s) = Len(a)
    BY DEF Sum, f, Ones
<1>10. Sum(F, t) = Len(FlattenSeq(g))
    BY DEF Sum, g, Ones
<1> QED BY <1>5, <1>6, <1>7, <1>8, <1>9, <1>10 DEF t

LEMMA SumType ==
    ASSUME NEW S, NEW F \in [S -> Nat], NEW s \in Seq(S)
    PROVE  Sum(F, s) \in Nat
<1>1. CASE s = <<>>
    BY <1>1, SumEmpty
<1>2. CASE s # <<>>
    <2>1. PICK u \in Seq(S), x \in S : s = Append(u, x)
        BY <1>2, SequenceEmptyOrAppend
    <2> QED BY <2>1, SumAppend
<1> QED BY <1>1, <1>2

LEMMA SumOne ==
    ASSUME NEW S, NEW F \in [S -> Nat], NEW x \in S
    PROVE  Sum(F, <<x>>) = F[x]
<1>1. <<x>> = Append(<<>>, x) /\ <<>> \in Seq(S)
    OBVIOUS
<1>2. Sum(F, Append(<<>>, x)) = Sum(F, <<>>) + F[x]
    BY <1>1, SumAppend
<1>3. Sum(F, <<>>) = 0 /\ F[x] \in Nat
    BY SumEmpty
<1> QED BY <1>1, <1>2, <1>3

LEMMA ConcatAppend ==
    ASSUME NEW S, NEW s \in Seq(S), NEW u \in Seq(S), NEW x \in S
    PROVE  s \o Append(u, x) = Append(s \o u, x)
<1>1. <<x>> \in Seq(S)
    OBVIOUS
<1>2. Append(u, x) = u \o <<x>>
    BY AppendIsConcat
<1>3. s \o u \in Seq(S)
    BY ConcatProperties
<1>4. Append(s \o u, x) = (s \o u) \o <<x>>
    BY <1>3, AppendIsConcat
<1>5. s \o (u \o <<x>>) = (s \o u) \o <<x>>
    BY <1>1, ConcatAssociative
<1> QED BY <1>2, <1>4, <1>5

LEMMA SumConcat ==
    ASSUME NEW S, NEW F \in [S -> Nat], NEW s \in Seq(S), NEW t \in Seq(S)
    PROVE  Sum(F, s \o t) = Sum(F, s) + Sum(F, t)
<1> DEFINE P == {u \in Seq(S) : Sum(F, s \o u) = Sum(F, s) + Sum(F, u)}
<1>1. <<>> \in P
    <2>1. s \o <<>> = s /\ <<>> \in Seq(S)
        BY ConcatEmptySeq
    <2>2. Sum(F, s) \in Nat /\ Sum(F, <<>>) = 0
        BY SumType, SumEmpty
    <2>3. Sum(F, s \o <<>>) = Sum(F, s) + Sum(F, <<>>)
        BY <2>1, <2>2
    <2> QED BY <2>1, <2>3
<1>2. ASSUME NEW u \in Seq(S), NEW x \in S, u \in P PROVE Append(u, x) \in P
    <2>1. s \o Append(u, x) = Append(s \o u, x)
        BY ConcatAppend
    <2>2. s \o u \in Seq(S) /\ Append(u, x) \in Seq(S)
        BY ConcatProperties, AppendProperties
    <2>3. Sum(F, Append(s \o u, x)) = Sum(F, s \o u) + F[x] /\ Sum(F, Append(u, x)) = Sum(F, u) + F[x]
        BY <2>2, SumAppend
    <2>4. Sum(F, s) \in Nat /\ Sum(F, u) \in Nat /\ F[x] \in Nat
        BY SumType
    <2>5. Sum(F, s \o u) = Sum(F, s) + Sum(F, u)
        BY <1>2
    <2>6. Sum(F, s \o Append(u, x)) = Sum(F, s) + Sum(F, Append(u, x))
        BY <2>1, <2>3, <2>4, <2>5
    <2> QED BY <2>2, <2>6
<1>3. Seq(S) \subseteq P
    <2> HIDE DEF P
    <2> QED BY <1>1, <1>2, SeqInduction
<1> QED BY <1>3

\* A sum of sums.
LEMMA SumFlatten ==
    ASSUME NEW S, NEW F \in [S -> Nat], NEW ss \in Seq(Seq(S))
    PROVE  Sum(F, FlattenSeq(ss)) = Sum([s \in Seq(S) |-> Sum(F, s)], ss)
<1> DEFINE G == [s \in Seq(S) |-> Sum(F, s)]
           P == {u \in Seq(Seq(S)) : Sum(F, FlattenSeq(u)) = Sum(G, u)}
<1>0. G \in [Seq(S) -> Nat] /\ \A s \in Seq(S) : G[s] = Sum(F, s)
    BY SumType
<1> HIDE DEF G
<1>1. <<>> \in P
    BY FlattenSeqEmpty, SumEmpty
<1>2. ASSUME NEW u \in Seq(Seq(S)), NEW x \in Seq(S), u \in P PROVE Append(u, x) \in P
    <2>1. FlattenSeq(Append(u, x)) = FlattenSeq(u) \o x /\ FlattenSeq(u) \in Seq(S)
        BY FlattenSeqAppend, FlattenSeqType
    <2>2. Sum(F, FlattenSeq(u) \o x) = Sum(F, FlattenSeq(u)) + Sum(F, x)
        BY <2>1, SumConcat
    <2>3. Sum(G, Append(u, x)) = Sum(G, u) + G[x]
        BY <1>0, SumAppend
    <2>4. Append(u, x) \in Seq(Seq(S))
        BY AppendProperties
    <2> QED BY <1>0, <1>2, <2>1, <2>2, <2>3, <2>4
<1>3. Seq(Seq(S)) \subseteq P
    <2> HIDE DEF P
    <2> QED BY <1>1, <1>2, SeqInduction
<1> QED BY <1>3 DEF G

\* Only the values for the elements count.
LEMMA SumAgree ==
    ASSUME NEW S, NEW F \in [S -> Nat], NEW T, NEW G \in [T -> Nat], NEW s \in Seq(S), s \in Seq(T),
           \A x \in S \cap T : F[x] = G[x]
    PROVE  Sum(F, s) = Sum(G, s)
<1> DEFINE f == [i \in DOMAIN s |-> [k \in 1..F[s[i]] |-> 0]]
           g == [i \in DOMAIN s |-> [k \in 1..G[s[i]] |-> 0]]
<1>1. \A i \in DOMAIN s : s[i] \in S \cap T
    BY LenProperties, ElementOfSeq
<1>2. f = g
    BY <1>1
<1> QED BY <1>2 DEF Sum

\* The same values in the same order.
Alike(S, F, s, T, G, t) == /\ F \in [S -> Nat] /\ G \in [T -> Nat]
                           /\ s \in Seq(S) /\ t \in Seq(T) /\ Len(t) = Len(s)
                           /\ \A i \in 1..Len(s) : F[s[i]] = G[t[i]]

LEMMA SumSame ==
    ASSUME NEW S, NEW F, NEW s, NEW T, NEW G, NEW t, Alike(S, F, s, T, G, t)
    PROVE  Sum(F, s) = Sum(G, t)
<1>1. DOMAIN s = 1..Len(s) /\ DOMAIN t = 1..Len(s)
    BY LenProperties DEF Alike
<1>2. [i \in DOMAIN s |-> [k \in 1..F[s[i]] |-> 0]] = [i \in DOMAIN t |-> [k \in 1..G[t[i]] |-> 0]]
    BY <1>1 DEF Alike
<1> QED BY <1>2 DEF Sum

\* H is F and G added up.
AddUp(F, G, H, S) == /\ F \in [S -> Nat] /\ G \in [S -> Nat] /\ H \in [S -> Nat]
                     /\ \A x \in S : H[x] = F[x] + G[x]

LEMMA SumPlus ==
    ASSUME NEW S, NEW F, NEW G, NEW H, AddUp(F, G, H, S), NEW s \in Seq(S)
    PROVE  Sum(H, s) = Sum(F, s) + Sum(G, s)
<1>0. /\ F \in [S -> Nat] /\ G \in [S -> Nat] /\ H \in [S -> Nat]
      /\ \A x \in S : H[x] = F[x] + G[x]
    BY DEF AddUp
<1> DEFINE P == {u \in Seq(S) : Sum(H, u) = Sum(F, u) + Sum(G, u)}
<1>1. <<>> \in P
    BY SumEmpty
<1>2. ASSUME NEW u \in Seq(S), NEW x \in S, u \in P PROVE Append(u, x) \in P
    <2>1. /\ Sum(F, Append(u, x)) = Sum(F, u) + F[x] /\ Sum(G, Append(u, x)) = Sum(G, u) + G[x]
          /\ Sum(H, Append(u, x)) = Sum(H, u) + H[x]
        BY <1>0, SumAppend
    <2>2. Sum(F, u) \in Nat /\ Sum(G, u) \in Nat /\ F[x] \in Nat /\ G[x] \in Nat
        BY <1>0, SumType
    <2>3. Sum(H, Append(u, x)) = Sum(F, Append(u, x)) + Sum(G, Append(u, x))
        BY <1>0, <1>2, <2>1, <2>2
    <2> QED BY <2>3, AppendProperties
<1>3. Seq(S) \subseteq P
    <2> HIDE DEF P
    <2> QED BY <1>1, <1>2, SeqInduction
<1> QED BY <1>3

LEMMA SumZero ==
    ASSUME NEW S, NEW F \in [S -> Nat], \A x \in S : F[x] = 0, NEW s \in Seq(S)
    PROVE  Sum(F, s) = 0
<1>0. AddUp(F, F, F, S)
    BY DEF AddUp
<1>1. Sum(F, s) = Sum(F, s) + Sum(F, s)
    BY <1>0, SumPlus
<1> QED BY <1>1, SumType

\* It does not matter over which of two sequences is summed first.
Crosses(S, L, T, M, A, R, C) ==
    /\ A \in [S \X T -> Nat] /\ L \in Seq(S) /\ M \in Seq(T)
    /\ R = [x \in S |-> Sum([y \in T |-> A[<<x, y>>]], M)]
    /\ C = [y \in T |-> Sum([x \in S |-> A[<<x, y>>]], L)]

LEMMA SumSwap ==
    ASSUME NEW S, NEW L, NEW T, NEW M, NEW A, NEW R, NEW C, Crosses(S, L, T, M, A, R, C)
    PROVE  Sum(R, L) = Sum(C, M)
<1>0. A \in [S \X T -> Nat] /\ L \in Seq(S) /\ M \in Seq(T)
    BY DEF Crosses
<1> DEFINE Row(x) == [y \in T |-> A[<<x, y>>]]
           Column(y) == [x \in S |-> A[<<x, y>>]]
           F == [x \in S |-> Sum(Row(x), M)]
           G(l) == [y \in T |-> Sum(Column(y), l)]
           P == {l \in Seq(S) : Sum(F, l) = Sum(G(l), M)}
<1>1. /\ \A x \in S : Row(x) \in [T -> Nat] /\ \A y \in T : Row(x)[y] = A[<<x, y>>]
      /\ \A y \in T : Column(y) \in [S -> Nat] /\ \A x \in S : Column(y)[x] = A[<<x, y>>]
    BY <1>0
<1> HIDE DEF Row, Column
<1>2. F \in [S -> Nat] /\ \A x \in S : F[x] = Sum(Row(x), M)
    BY <1>0, <1>1, SumType
<1> HIDE DEF F
<1>3. ASSUME NEW l \in Seq(S) PROVE G(l) \in [T -> Nat] /\ \A y \in T : G(l)[y] = Sum(Column(y), l)
    BY <1>1, SumType
<1> HIDE DEF G
<1>4. <<>> \in P
    <2>1. <<>> \in Seq(S)
        OBVIOUS
    <2>2. \A y \in T : G(<<>>)[y] = 0
        BY <1>3, <2>1, SumEmpty
    <2>3. Sum(G(<<>>), M) = 0
        BY <1>0, <1>3, <2>1, <2>2, SumZero
    <2> QED BY <2>1, <2>3, SumEmpty
<1>5. ASSUME NEW l \in Seq(S), NEW x \in S, l \in P PROVE Append(l, x) \in P
    <2>1. Append(l, x) \in Seq(S)
        BY AppendProperties
    <2>2. Sum(F, Append(l, x)) = Sum(F, l) + F[x]
        BY <1>2, SumAppend
    <2>3. \A y \in T : G(Append(l, x))[y] = G(l)[y] + Row(x)[y]
        <3> TAKE y \in T
        <3> DEFINE c == Column(y)
        <3>1. c \in [S -> Nat] /\ c[x] = A[<<x, y>>]
            BY <1>1
        <3>2. G(Append(l, x))[y] = Sum(c, Append(l, x)) /\ G(l)[y] = Sum(c, l)
            BY <2>1, <1>3
        <3>3. Row(x)[y] = A[<<x, y>>]
            BY <1>1
        <3> HIDE DEF c
        <3>4. Sum(c, Append(l, x)) = Sum(c, l) + c[x]
            BY <3>1, SumAppend
        <3> QED BY <3>1, <3>2, <3>3, <3>4
    <2>4. Sum(G(Append(l, x)), M) = Sum(G(l), M) + Sum(Row(x), M)
        <3> DEFINE f == G(l)
                   g == Row(x)
                   h == G(Append(l, x))
        <3>1. f \in [T -> Nat] /\ g \in [T -> Nat] /\ h \in [T -> Nat]
            BY <2>1, <1>1, <1>3
        <3> HIDE DEF f, g, h
        <3>2. \A y \in T : h[y] = f[y] + g[y]
            BY <2>3 DEF f, g, h
        <3>3. Sum(h, M) = Sum(f, M) + Sum(g, M)
            <4>1. AddUp(f, g, h, T)
                BY <3>1, <3>2 DEF AddUp
            <4> QED BY <1>0, <4>1, SumPlus
        <3> QED BY <3>3 DEF f, g, h
    <2>5. Sum(F, Append(l, x)) = Sum(G(Append(l, x)), M)
        BY <1>2, <1>5, <2>2, <2>4
    <2> QED BY <2>1, <2>5
<1>6. Seq(S) \subseteq P
    <2> HIDE DEF P
    <2> QED BY <1>4, <1>5, SeqInduction
<1>7. Sum(F, L) = Sum(G(L), M)
    BY <1>0, <1>6
<1>8. R = F /\ C = G(L)
    BY DEF Crosses, F, G, Row, Column
<1> QED BY <1>7, <1>8

\* With one element more of a sequence.
LEMMA SumNext ==
    ASSUME NEW S, NEW F \in [S -> Nat], NEW s \in Seq(S), NEW k \in 1..Len(s)
    PROVE  Sum(F, SubSeq(s, 1, k)) = Sum(F, SubSeq(s, 1, k - 1)) + F[s[k]]
<1>1. Len(s) \in Nat /\ s[k] \in S
    BY LenProperties, ElementOfSeq
<1>0. \A i \in 1..Len(s) : s[i] \in S
    BY ElementOfSeq
<1>2. SubSeq(s, 1, k - 1) \in Seq(S) /\ Len(SubSeq(s, 1, k - 1)) = k - 1
      /\ \A i \in 1..(k - 1) : SubSeq(s, 1, k - 1)[i] = s[i]
    BY <1>0, <1>1, SubSeqProperties
<1>3. SubSeq(s, 1, k) \in Seq(S) /\ Len(SubSeq(s, 1, k)) = k /\ \A i \in 1..k : SubSeq(s, 1, k)[i] = s[i]
    BY <1>0, <1>1, SubSeqProperties
<1> DEFINE u == SubSeq(s, 1, k - 1)
           v == SubSeq(s, 1, k)
<1>4. v = Append(u, s[k])
    <2> HIDE DEF u, v
    <2>1. /\ Append(u, s[k]) \in Seq(S) /\ Len(Append(u, s[k])) = k
          /\ \A i \in 1..k : Append(u, s[k])[i] = s[i]
        BY <1>1, <1>2, AppendProperties DEF u
    <2> QED BY <2>1, <1>3, SeqEqual DEF v
<1> HIDE DEF u, v
<1>5. u \in Seq(S)
    BY <1>2 DEF u
<1> QED BY <1>1, <1>4, <1>5, SumAppend DEF u, v

-----------------------------------------------------------------------------
(* What is made of every element of a sequence.                             *)

\* h has something for every element.
Maps(h, S, T) == h \in [S -> T]

Mapped(h, s) == [i \in DOMAIN s |-> h[s[i]]]

LEMMA MappedType ==
    ASSUME NEW S, NEW T, NEW h, Maps(h, S, T), NEW s \in Seq(S)
    PROVE  /\ Mapped(h, s) \in Seq(T) /\ Len(Mapped(h, s)) = Len(s)
           /\ \A i \in 1..Len(s) : Mapped(h, s)[i] = h[s[i]]
<1>1. Len(s) \in Nat /\ DOMAIN s = 1..Len(s) /\ \A i \in 1..Len(s) : s[i] \in S
    BY LenProperties, ElementOfSeq
<1>2. Mapped(h, s) \in [1..Len(s) -> T]
    BY <1>1 DEF Mapped, Maps
<1>3. \A i \in 1..Len(s) : Mapped(h, s)[i] = h[s[i]]
    BY <1>1 DEF Mapped
<1> QED BY <1>1, <1>2, <1>3, FunctionIsSeq

LEMMA MappedEmpty == ASSUME NEW h PROVE Mapped(h, <<>>) = <<>>
BY DEF Mapped

LEMMA MappedAppend ==
    ASSUME NEW S, NEW T, NEW h, Maps(h, S, T), NEW s \in Seq(S), NEW x \in S
    PROVE  Mapped(h, Append(s, x)) = Append(Mapped(h, s), h[x])
<1> DEFINE t == Append(s, x)
           m == Mapped(h, s)
           n == Mapped(h, t)
           e == Append(m, h[x])
<1>1. /\ t \in Seq(S) /\ Len(t) = Len(s) + 1 /\ Len(s) \in Nat
      /\ \A i \in 1..Len(s) : t[i] = s[i]
      /\ t[Len(s) + 1] = x
    BY AppendProperties, LenProperties
<1> HIDE DEF t
<1>2. m \in Seq(T) /\ Len(m) = Len(s) /\ \A i \in 1..Len(s) : m[i] = h[s[i]]
    BY MappedType
<1>3. n \in Seq(T) /\ Len(n) = Len(t) /\ \A i \in 1..Len(t) : n[i] = h[t[i]]
    BY <1>1, MappedType
<1> HIDE DEF m, n
<1>4. /\ e \in Seq(T) /\ Len(e) = Len(s) + 1 /\ \A i \in 1..Len(s) : e[i] = m[i]
      /\ e[Len(s) + 1] = h[x]
    BY <1>2, AppendProperties DEF Maps
<1> HIDE DEF e
<1>5. ASSUME NEW i \in 1..Len(n) PROVE n[i] = e[i]
    <2>1. CASE i \in 1..Len(s)
        BY <2>1, <1>1, <1>2, <1>3, <1>4
    <2>2. CASE i = Len(s) + 1
        BY <2>2, <1>1, <1>3, <1>4
    <2> QED BY <2>1, <2>2, <1>1, <1>3
<1>6. n = e
    BY <1>1, <1>3, <1>4, <1>5, SeqEqual
<1> QED BY <1>6 DEF n, e, m, t

\* The elements of the sequences h makes.
Flat(h, s) == FlattenSeq(Mapped(h, s))

LEMMA FlatEmpty == ASSUME NEW h PROVE Flat(h, <<>>) = <<>>
BY MappedEmpty, FlattenSeqEmpty DEF Flat

LEMMA FlatAppend ==
    ASSUME NEW S, NEW T, NEW h, Maps(h, S, Seq(T)), NEW s \in Seq(S), NEW x \in S
    PROVE  Flat(h, Append(s, x)) = Flat(h, s) \o h[x] /\ Flat(h, s) \in Seq(T)
<1>1. Mapped(h, s) \in Seq(Seq(T))
    BY MappedType
<1>2. Mapped(h, Append(s, x)) = Append(Mapped(h, s), h[x])
    BY MappedAppend
<1>3. h[x] \in Seq(T)
    BY DEF Maps
<1> QED BY <1>1, <1>2, <1>3, FlattenSeqAppend, FlattenSeqType DEF Flat

LEMMA FlatType ==
    ASSUME NEW S, NEW T, NEW h, Maps(h, S, Seq(T)), NEW s \in Seq(S)
    PROVE  Flat(h, s) \in Seq(T)
BY MappedType, FlattenSeqType DEF Flat

LEMMA FlatConcat ==
    ASSUME NEW S, NEW T, NEW h, Maps(h, S, Seq(T)), NEW s \in Seq(S), NEW t \in Seq(S)
    PROVE  Flat(h, s \o t) = Flat(h, s) \o Flat(h, t)
<1>01. \A u \in Seq(S), x \in S : Flat(h, Append(u, x)) = Flat(h, u) \o h[x]
    BY FlatAppend
<1>02. \A u \in Seq(S) : Flat(h, u) \in Seq(T)
    BY FlatType
<1>03. \A a, b, c \in Seq(T) : (a \o b) \o c = a \o (b \o c)
    BY ConcatAssociative
<1>04. \A x \in S : h[x] \in Seq(T)
    BY DEF Maps
<1> DEFINE P == {u \in Seq(S) : Flat(h, s \o u) = Flat(h, s) \o Flat(h, u)}
<1>1. <<>> \in P
    <2>1. s \o <<>> = s /\ <<>> \in Seq(S)
        BY ConcatEmptySeq
    <2>2. Flat(h, s) \o <<>> = Flat(h, s)
        BY FlatType, ConcatEmptySeq
    <2> QED BY <2>1, <2>2, FlatEmpty
<1>2. ASSUME NEW u \in Seq(S), NEW x \in S, u \in P PROVE Append(u, x) \in P
    <2>1. s \o Append(u, x) = Append(s \o u, x)
        BY ConcatAppend
    <2>2. s \o u \in Seq(S) /\ Append(u, x) \in Seq(S)
        BY ConcatProperties, AppendProperties
    <2>3. Flat(h, Append(s \o u, x)) = Flat(h, s \o u) \o h[x] /\ Flat(h, Append(u, x)) = Flat(h, u) \o h[x]
        BY <2>2, <1>01
    <2>4. Flat(h, s) \in Seq(T) /\ Flat(h, u) \in Seq(T) /\ h[x] \in Seq(T)
        BY <1>02, <1>04
    <2>5. (Flat(h, s) \o Flat(h, u)) \o h[x] = Flat(h, s) \o (Flat(h, u) \o h[x])
        BY <2>4, <1>03
    <2>6. Flat(h, s \o u) = Flat(h, s) \o Flat(h, u)
        BY <1>2
    <2>7. Flat(h, s \o Append(u, x)) = Flat(h, s) \o Flat(h, Append(u, x))
        BY <2>1, <2>3, <2>5, <2>6
    <2> QED BY <2>2, <2>7
<1>3. Seq(S) \subseteq P
    <2> HIDE DEF P
    <2> QED BY <1>1, <1>2, SeqInduction
<1> QED BY <1>3

\* A sum over such elements.
Totals(S, T, h, F, G) == /\ Maps(h, S, Seq(T)) /\ F \in [T -> Nat] /\ G \in [S -> Nat]
                         /\ \A x \in S : G[x] = Sum(F, h[x])

LEMMA SumFlat ==
    ASSUME NEW S, NEW T, NEW h, NEW F, NEW G, Totals(S, T, h, F, G), NEW s \in Seq(S)
    PROVE  Sum(F, Flat(h, s)) = Sum(G, s)
<1>00. /\ Maps(h, S, Seq(T)) /\ F \in [T -> Nat] /\ G \in [S -> Nat]
       /\ \A x \in S : G[x] = Sum(F, h[x])
    BY DEF Totals
<1> USE <1>00
<1>01. \A a, b \in Seq(T) : Sum(F, a \o b) = Sum(F, a) + Sum(F, b)
    BY SumConcat
<1> DEFINE P == {u \in Seq(S) : Sum(F, Flat(h, u)) = Sum(G, u)}
<1>1. <<>> \in P
    BY FlatEmpty, SumEmpty
<1>2. ASSUME NEW u \in Seq(S), NEW x \in S, u \in P PROVE Append(u, x) \in P
    <2>1. Flat(h, Append(u, x)) = Flat(h, u) \o h[x] /\ Flat(h, u) \in Seq(T)
        BY FlatAppend
    <2>0. h[x] \in Seq(T)
        BY DEF Maps
    <2>2. Sum(F, Flat(h, Append(u, x))) = Sum(F, Flat(h, u)) + Sum(F, h[x])
        BY <2>0, <2>1, <1>01
    <2>3. Sum(G, Append(u, x)) = Sum(G, u) + G[x]
        BY SumAppend
    <2>4. Sum(F, Flat(h, Append(u, x))) = Sum(G, Append(u, x))
        BY <1>2, <2>2, <2>3
    <2> QED BY <2>4, AppendProperties
<1>3. Seq(S) \subseteq P
    <2> HIDE DEF P
    <2> QED BY <1>1, <1>2, SeqInduction
<1> QED BY <1>3

-----------------------------------------------------------------------------
(* Calls one after the other, each of which leads from one state to another. *)

RunsAlong(R, s, x, y, G) == /\ G[1] = x /\ G[Len(s) + 1] = y
                            /\ \A i \in 1..Len(s) : <<s[i], G[i], G[i + 1]>> \in R

\* Calls s lead from x to y, if each does what R says.
Runs(R, X, s, x, y) == \E G \in [1..(Len(s) + 1) -> X] : RunsAlong(R, s, x, y, G)

LEMMA RunNone ==
    ASSUME NEW R, NEW X, NEW x, NEW y
    PROVE  Runs(R, X, <<>>, x, y) <=> x \in X /\ x = y
<1>1. Len(<<>>) = 0
    BY EmptySeq
<1>2. ASSUME x \in X, x = y PROVE Runs(R, X, <<>>, x, y)
    <2> DEFINE G == [i \in 1..1 |-> x]
    <2>1. RunsAlong(R, <<>>, x, y, G)
        BY <1>1, <1>2 DEF RunsAlong
    <2>2. G \in [1..(0 + 1) -> X]
        BY <1>2
    <2> HIDE DEF G
    <2> QED BY <1>1, <2>1, <2>2 DEF Runs
<1>3. ASSUME Runs(R, X, <<>>, x, y) PROVE x \in X /\ x = y
    <2>1. PICK G \in [1..(0 + 1) -> X] : RunsAlong(R, <<>>, x, y, G)
        BY <1>1, <1>3 DEF Runs
    <2>2. 1 \in 1..(0 + 1) /\ G[1] = x /\ G[0 + 1] = y
        BY <1>1, <2>1 DEF RunsAlong
    <2> QED BY <2>2
<1> QED BY <1>2, <1>3

LEMMA RunOne ==
    ASSUME NEW R, NEW X, NEW c, NEW x \in X, NEW y \in X, <<c, x, y>> \in R
    PROVE  Runs(R, X, <<c>>, x, y)
<1> DEFINE G == [i \in 1..2 |-> IF i = 1 THEN x ELSE y]
           s == <<c>>
<1>1. G[1] = x /\ G[2] = y
    OBVIOUS
<1>2. G \in [1..2 -> X] /\ Len(s) = 1 /\ s[1] = c
    OBVIOUS
<1> HIDE DEF G, s
<1>3. RunsAlong(R, s, x, y, G)
    <2>1. ASSUME NEW i \in 1..Len(s) PROVE <<s[i], G[i], G[i + 1]>> \in R
        <3>1. i = 1 /\ i + 1 = 2
            BY <1>2
        <3> QED BY <3>1, <1>1, <1>2
    <2> QED BY <1>1, <1>2, <2>1 DEF RunsAlong
<1>4. Runs(R, X, s, x, y)
    BY <1>2, <1>3 DEF Runs
<1> QED BY <1>4 DEF s

LEMMA RunOn ==
    ASSUME NEW C, NEW R, NEW X, NEW s \in Seq(C), NEW t \in Seq(C), NEW x, NEW y, NEW z,
           Runs(R, X, s, x, y), Runs(R, X, t, y, z)
    PROVE  Runs(R, X, s \o t, x, z)
<1> DEFINE m == Len(s)
           n == Len(t)
           u == s \o t
<1>1. PICK G \in [1..(m + 1) -> X] : RunsAlong(R, s, x, y, G)
    BY DEF Runs
<1>2. PICK H \in [1..(n + 1) -> X] : RunsAlong(R, t, y, z, H)
    BY DEF Runs
<1>3. m \in Nat /\ n \in Nat /\ Len(u) = m + n
    BY LenProperties, ConcatProperties
<1>4. \A i \in 1..(m + n) : u[i] = IF i <= m THEN s[i] ELSE t[i - m]
    BY ConcatProperties
<1> DEFINE A == [i \in 1..(m + n + 1) |-> IF i <= m THEN G[i] ELSE H[i - m]]
<1>5. A \in [1..(m + n + 1) -> X]
    <2> SUFFICES ASSUME NEW i \in 1..(m + n + 1) PROVE A[i] \in X
        OBVIOUS
    <2>1. CASE i <= m
        BY <1>3, <2>1
    <2>2. CASE ~(i <= m)
        <3>1. i - m \in 1..(n + 1)
            BY <1>3, <2>2
        <3> QED BY <2>2, <3>1
    <2> QED BY <2>1, <2>2
<1>6. /\ \A i \in 1..(m + 1) : A[i] = G[i]
      /\ \A i \in (m + 1)..(m + n + 1) : A[i] = H[i - m]
    <2>1. G[m + 1] = H[1]
        BY <1>1, <1>2 DEF RunsAlong
    <2>2. ASSUME NEW i \in (m + 1)..(m + n + 1) PROVE A[i] = H[i - m]
        BY <1>3
    <2>3. A[m + 1] = H[1]
        BY <1>3
    <2>4. ASSUME NEW i \in 1..(m + 1) PROVE A[i] = G[i]
        <3>1. CASE i <= m
            BY <3>1, <1>3
        <3>2. CASE i = m + 1
            BY <3>2, <2>1, <2>3
        <3> QED BY <3>1, <3>2, <1>3
    <2> QED BY <2>2, <2>4
<1> HIDE DEF A, u
<1>7. A[1] = x /\ A[m + n + 1] = z
    <2>1. 1 \in 1..(m + 1) /\ m + n + 1 \in (m + 1)..(m + n + 1) /\ m + n + 1 - m = n + 1
        BY <1>3
    <2>2. A[1] = G[1]
        BY <2>1, <1>6
    <2>3. A[m + n + 1] = H[n + 1]
        <3> DEFINE j == m + n + 1
        <3>1. j \in (m + 1)..(m + n + 1) /\ j - m = n + 1
            BY <1>3
        <3> HIDE DEF j
        <3>2. A[j] = H[j - m]
            BY <3>1, <1>6
        <3> QED BY <3>1, <3>2 DEF j
    <2> QED BY <2>2, <2>3, <1>1, <1>2 DEF RunsAlong
<1>8. ASSUME NEW i \in 1..(m + n) PROVE <<u[i], A[i], A[i + 1]>> \in R
    <2>1. CASE i <= m
        <3>1. i \in 1..m /\ i \in 1..(m + 1) /\ i + 1 \in 1..(m + 1)
            BY <2>1, <1>3
        <3>2. <<s[i], G[i], G[i + 1]>> \in R
            BY <3>1, <1>1 DEF RunsAlong
        <3> QED BY <3>1, <3>2, <2>1, <1>4, <1>6
    <2>2. CASE ~(i <= m)
        <3>1. /\ i - m \in 1..n /\ i \in (m + 1)..(m + n + 1) /\ i + 1 \in (m + 1)..(m + n + 1)
              /\ i + 1 - m = i - m + 1
            BY <2>2, <1>3
        <3>2. <<t[i - m], H[i - m], H[i - m + 1]>> \in R
            BY <3>1, <1>2 DEF RunsAlong
        <3>3. u[i] = t[i - m] /\ A[i] = H[i - m] /\ A[i + 1] = H[i - m + 1]
            BY <3>1, <2>2, <1>4, <1>6
        <3> QED BY <3>2, <3>3
    <2> QED BY <2>1, <2>2
<1>9. RunsAlong(R, u, x, z, A)
    BY <1>3, <1>7, <1>8 DEF RunsAlong
<1> QED BY <1>3, <1>5, <1>9 DEF Runs, u

LEMMA RunFirst ==
    ASSUME NEW C, NEW R, NEW X, NEW s \in Seq(C), s # <<>>, NEW x, NEW z, Runs(R, X, s, x, z)
    PROVE  x \in X /\ \E y \in X : <<Head(s), x, y>> \in R /\ Runs(R, X, Tail(s), y, z)
<1> DEFINE n == Len(s) - 1
           t == Tail(s)
<1>1. PICK G \in [1..(Len(s) + 1) -> X] : RunsAlong(R, s, x, z, G)
    BY DEF Runs
<1>2. /\ n \in Nat /\ Len(s) = n + 1 /\ Len(t) = n /\ Head(s) = s[1]
      /\ \A i \in 1..n : t[i] = s[i + 1]
    BY EmptySeq, HeadTailProperties
<1> DEFINE A == [i \in 1..(n + 1) |-> G[i + 1]]
<1>3. A \in [1..(n + 1) -> X]
    BY <1>2
<1>4. \A i \in 1..(n + 1) : A[i] = G[i + 1]
    OBVIOUS
<1> HIDE DEF A, t
<1>5. <<Head(s), x, G[2]>> \in R /\ G[2] \in X /\ x \in X
    <2>1. 1 \in 1..Len(s) /\ 1 \in 1..(Len(s) + 1) /\ 2 \in 1..(Len(s) + 1)
        BY <1>2
    <2>2. <<s[1], G[1], G[2]>> \in R /\ G[1] \in X
        BY <2>1, <1>1 DEF RunsAlong
    <2> QED BY <2>1, <2>2, <1>1, <1>2 DEF RunsAlong
<1>6. ASSUME NEW i \in 1..n PROVE <<t[i], A[i], A[i + 1]>> \in R
    <2>1. i + 1 \in 1..Len(s) /\ i \in 1..(n + 1) /\ i + 1 \in 1..(n + 1)
        BY <1>2
    <2>2. <<s[i + 1], G[i + 1], G[i + 1 + 1]>> \in R
        BY <2>1, <1>1 DEF RunsAlong
    <2> QED BY <2>1, <2>2, <1>2, <1>4
<1>7. A[1] = G[2] /\ A[n + 1] = z
    <2>1. 1 \in 1..(n + 1) /\ n + 1 \in 1..(n + 1)
        BY <1>2
    <2> QED BY <2>1, <1>1, <1>2, <1>4 DEF RunsAlong
<1>8. RunsAlong(R, t, G[2], z, A)
    BY <1>2, <1>6, <1>7 DEF RunsAlong
<1>9. Runs(R, X, t, G[2], z)
    BY <1>2, <1>3, <1>8 DEF Runs
<1> QED BY <1>5, <1>9 DEF t

\* Calls that h has for elements of T count them, with F, and lead back to c.
AddsUp(R, X, C, T, h, F, c) ==
    /\ Maps(h, T, Seq(C)) /\ F \in [T -> Nat]
    /\ \A n \in Nat : <<c, n>> \in X
    /\ \A x \in T, n \in Nat : Runs(R, X, h[x], <<c, n>>, <<c, n + F[x]>>)

LEMMA RunSum ==
    ASSUME NEW R, NEW X, NEW C, NEW T, NEW h, NEW F, NEW c, AddsUp(R, X, C, T, h, F, c),
           NEW s \in Seq(T), NEW n \in Nat
    PROVE  Runs(R, X, Flat(h, s), <<c, n>>, <<c, n + Sum(F, s)>>)
<1>0. /\ Maps(h, T, Seq(C)) /\ F \in [T -> Nat]
      /\ \A m \in Nat : <<c, m>> \in X
      /\ \A x \in T, m \in Nat : Runs(R, X, h[x], <<c, m>>, <<c, m + F[x]>>)
    BY DEF AddsUp
<1>01. \A u \in Seq(T) : Sum(F, u) \in Nat /\ Flat(h, u) \in Seq(C)
    BY <1>0, SumType, FlatType
<1>021. \A u \in Seq(T), x \in T : Flat(h, Append(u, x)) = Flat(h, u) \o h[x]
    BY <1>0, FlatAppend
<1>022. \A u \in Seq(T), x \in T : Sum(F, Append(u, x)) = Sum(F, u) + F[x]
    BY <1>0, SumAppend
<1>03. \A x \in T : h[x] \in Seq(C)
    BY <1>0 DEF Maps
<1>04. \A u, v \in Seq(C) : \A x, y, z : Runs(R, X, u, x, y) /\ Runs(R, X, v, y, z) => Runs(R, X, u \o v, x, z)
    BY RunOn
<1> DEFINE P == {u \in Seq(T) : Runs(R, X, Flat(h, u), <<c, n>>, <<c, n + Sum(F, u)>>)}
<1>1. <<>> \in P
    <2>1. Flat(h, <<>>) = <<>> /\ Sum(F, <<>>) = 0 /\ <<>> \in Seq(T)
        BY FlatEmpty, SumEmpty
    <2>2. n + 0 = n
        OBVIOUS
    <2> QED BY <1>0, <2>1, <2>2, RunNone
<1>2. ASSUME NEW u \in Seq(T), NEW x \in T, u \in P PROVE Append(u, x) \in P
    <2> DEFINE m == n + Sum(F, u)
    <2>1. m \in Nat /\ m + F[x] = n + (Sum(F, u) + F[x])
        BY <1>0, <1>01
    <2>2. Runs(R, X, Flat(h, u), <<c, n>>, <<c, m>>)
        BY <1>2
    <2> HIDE DEF m
    <2>3. Runs(R, X, h[x], <<c, m>>, <<c, m + F[x]>>)
        BY <1>0, <2>1
    <2>4. Runs(R, X, Flat(h, u) \o h[x], <<c, n>>, <<c, m + F[x]>>)
        BY <1>01, <1>03, <1>04, <2>2, <2>3
    <2>5. Runs(R, X, Flat(h, Append(u, x)), <<c, n>>, <<c, n + Sum(F, Append(u, x))>>)
        BY <1>021, <1>022, <2>1, <2>4
    <2> QED BY <2>5, AppendProperties
<1>3. Seq(T) \subseteq P
    <2> HIDE DEF P
    <2> QED BY <1>1, <1>2, SeqInduction
<1> QED BY <1>3

\* The last of them may lead somewhere else.
LEMMA RunSumTo ==
    ASSUME NEW R, NEW X, NEW C, NEW T, NEW h, NEW F, NEW c, AddsUp(R, X, C, T, h, F, c),
           NEW s \in Seq(T), s # <<>>, NEW n \in Nat, NEW d,
           \A x \in T, m \in Nat : Runs(R, X, h[x], <<c, m>>, <<d, m + F[x]>>)
    PROVE  Runs(R, X, Flat(h, s), <<c, n>>, <<d, n + Sum(F, s)>>)
<1>0. Maps(h, T, Seq(C)) /\ F \in [T -> Nat]
    BY DEF AddsUp
<1>1. PICK u \in Seq(T), x \in T : s = Append(u, x)
    BY SequenceEmptyOrAppend
<1> DEFINE m == n + Sum(F, u)
<1>2. /\ Flat(h, s) = Flat(h, u) \o h[x] /\ Flat(h, u) \in Seq(C) /\ h[x] \in Seq(C)
      /\ Sum(F, s) = Sum(F, u) + F[x] /\ Sum(F, u) \in Nat
    <2>1. h[x] \in Seq(C)
        BY <1>0 DEF Maps
    <2>2. Flat(h, s) = Flat(h, u) \o h[x] /\ Flat(h, u) \in Seq(C)
        BY <1>0, <1>1, FlatAppend
    <2>3. Sum(F, s) = Sum(F, u) + F[x] /\ Sum(F, u) \in Nat
        BY <1>0, <1>1, SumAppend
    <2> QED BY <2>1, <2>2, <2>3
<1>3. m \in Nat /\ m + F[x] = n + Sum(F, s)
    BY <1>0, <1>2
<1>4. Runs(R, X, Flat(h, u), <<c, n>>, <<c, m>>)
    BY RunSum
<1> HIDE DEF m
<1>5. Runs(R, X, h[x], <<c, m>>, <<d, m + F[x]>>)
    BY <1>3
<1>6. Runs(R, X, Flat(h, u) \o h[x], <<c, n>>, <<d, m + F[x]>>)
    BY <1>2, <1>4, <1>5, RunOn
<1> QED BY <1>2, <1>3, <1>6
=============================================================================
