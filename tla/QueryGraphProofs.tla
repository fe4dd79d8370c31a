--------------------------- MODULE QueryGraphProofs ---------------------------
(***************************************************************************)
(* What the visitors keep while they go through a text of any size, shown  *)
(* action by action:                                                       *)
(*  - Shape: the variables have their types, and the calls still to be     *)
(*    done fit the stacks.  Every call is a move from one height of the    *)
(*    stacks to another (Moves); those still to be done lead from where    *)
(*    the stacks are to where all of them are empty (Fits).                *)
(*  - Aligned: triple patterns and operands, names and IDs, are in step.   *)
(*  - GraphInv: the dependencies and connections are sound, and complete   *)
(*    for the groups that are open.                                        *)
(*  - Course: as long as nothing is thrown, what is still to be done is    *)
(*    fine if and only if the query is, for the terms and verbs that are   *)
(*    supported and for those that do not end the process (Judges).        *)
(* The module of the engine puts these together.                           *)
(***************************************************************************)
EXTENDS QueryMeaning, SequenceFacts

Blocks == [kind : {"block"}, tss : Seq(SameSubject)]
Unions == [kind : {"union"}, groups : Seq(Group) \ {<<>>}]

\* The calls there can be.
Frame == [visit : {"prefix"}, arg : Declaration]
         \cup [visit : {"where", "optional"}, arg : Group]
         \cup [visit : {"select"}, arg : {All} \cup Seq(Selection)]
         \cup [visit : {"variable"}, arg : Selection]
         \cup [visit : {"pattern"}, arg : [group : Group, gous : Seq(Unions)]]
         \cup [visit : {"resize"}, arg : Nat \X Nat]
         \cup [visit : {"depend", "close", "leave", "end"}, arg : {<<>>}]
         \cup [visit : {"block"}, arg : Blocks]
         \cup [visit : {"subject"}, arg : SameSubject]
         \cup [visit : {"property"}, arg : Properties]
         \cup [visit : {"verb"}, arg : Verb]
         \cup [visit : {"object"}, arg : Term]

-----------------------------------------------------------------------------
(* Sequences.                                                               *)

LEMMA TopProperties ==
    ASSUME NEW S, NEW s \in Seq(S), s # <<>>
    PROVE  Top(s) \in S /\ Len(s) \in Nat \ {0} /\ Top(s) = s[Len(s)]
<1>1. Len(s) \in Nat \ {0}
    BY EmptySeq
<1> QED BY <1>1, ElementOfSeq DEF Top

LEMMA SetTopProperties ==
    ASSUME NEW S, NEW s \in Seq(S), s # <<>>, NEW x \in S
    PROVE  /\ SetTop(s, x) \in Seq(S) /\ SetTop(s, x) # <<>>
           /\ Len(SetTop(s, x)) = Len(s)
           /\ SetTop(s, x)[Len(s)] = x
           /\ \A i \in 1..(Len(s) - 1) : SetTop(s, x)[i] = s[i]
<1>1. Len(s) \in Nat \ {0}
    BY EmptySeq
<1>2. /\ SetTop(s, x) \in Seq(S)
      /\ Len(SetTop(s, x)) = Len(s)
      /\ \A j \in 1..Len(s) : SetTop(s, x)[j] = IF j = Len(s) THEN x ELSE s[j]
    BY <1>1, ExceptSeq DEF SetTop
<1>3. SetTop(s, x) # <<>>
    BY <1>1, <1>2, EmptySeq
<1> QED BY <1>1, <1>2, <1>3

LEMMA PopProperties ==
    ASSUME NEW S, NEW s \in Seq(S), s # <<>>
    PROVE  /\ Pop(s) \in Seq(S) /\ Len(Pop(s)) = Len(s) - 1
           /\ \A i \in 1..(Len(s) - 1) : Pop(s)[i] = s[i]
<1>1. Len(s) \in Nat \ {0}
    BY EmptySeq
<1>2. \A i \in 1..(Len(s) - 1) : s[i] \in S
    BY <1>1, ElementOfSeq
<1> DEFINE n == Len(s) - 1
           u == SubSeq(s, 1, n)
<1>3. n \in Nat /\ \A i \in 1..n : s[i] \in S
    BY <1>1, <1>2
<1> HIDE DEF n
<1>4. /\ u \in Seq(S)
      /\ Len(u) = IF 1 <= n THEN n - 1 + 1 ELSE 0
      /\ \A i \in 1..(n - 1 + 1) : u[i] = s[1 + i - 1]
    BY <1>3, SubSeqProperties
<1> HIDE DEF u
<1>5. Len(u) = n /\ \A i \in 1..n : u[i] = s[i]
    BY <1>3, <1>4
<1>6. Pop(s) = u
    BY DEF Pop, Front, u, n
<1> QED BY <1>4, <1>5, <1>6 DEF n

\* The elements of s that are in T.
LEMMA WithinProperties ==
    ASSUME NEW S, NEW s \in Seq(S), NEW T
    PROVE  /\ Within(s, T) \in Seq(S \cap T)
           /\ Range(Within(s, T)) = Range(s) \cap T
<1> DEFINE f == [i \in DOMAIN s |-> IF s[i] \in T THEN <<s[i]>> ELSE <<>>]
<1>1. Len(s) \in Nat /\ DOMAIN s = 1..Len(s) /\ \A i \in 1..Len(s) : s[i] \in S
    BY LenProperties
<1>2. \A i \in 1..Len(s) : f[i] \in Seq(S \cap T)
    <2> SUFFICES ASSUME NEW i \in 1..Len(s) PROVE f[i] \in Seq(S \cap T)
        OBVIOUS
    <2>1. CASE s[i] \in T
        BY <1>1, <2>1
    <2>2. CASE s[i] \notin T
        BY <1>1, <2>2
    <2> QED BY <2>1, <2>2
<1>3. f \in [1..Len(s) -> Seq(S \cap T)]
    BY <1>1, <1>2
<1>4. \A i \in 1..Len(s) : Range(f[i]) = {s[i]} \cap T
    <2> SUFFICES ASSUME NEW i \in 1..Len(s) PROVE Range(f[i]) = {s[i]} \cap T
        OBVIOUS
    <2>1. CASE s[i] \in T
        <3>1. f[i] = <<s[i]>>
            BY <1>1, <2>1
        <3> HIDE DEF f
        <3> QED BY <2>1, <3>1 DEF Range
    <2>2. CASE s[i] \notin T
        <3>1. f[i] = <<>>
            BY <1>1, <2>2
        <3> QED BY <2>2, <3>1, RangeEmpty
    <2> QED BY <2>1, <2>2
<1> HIDE DEF f
<1>5. f \in Seq(Seq(S \cap T)) /\ Len(f) = Len(s)
    BY <1>1, <1>3, FunctionIsSeq
<1>6. FlattenSeq(f) \in Seq(S \cap T)
    BY <1>5, FlattenSeqType
<1>7. Range(FlattenSeq(f)) = UNION {Range(f[i]) : i \in 1..Len(f)}
    BY <1>5, FlattenSeqRange
<1>8. Range(s) = {s[i] : i \in 1..Len(s)}
    BY <1>1 DEF Range
<1>9. Range(FlattenSeq(f)) = Range(s) \cap T
    BY <1>4, <1>5, <1>7, <1>8
<1> QED BY <1>6, <1>9 DEF Within, f

-----------------------------------------------------------------------------
(* Calls.                                                                   *)

LEMMA CallsAreFrames ==
    ASSUME NEW T, NEW f, NEW args \in Seq(T), \A x \in T : Call(f, x) \in Frame
    PROVE  /\ Calls(f, args) \in Seq(Frame)
           /\ Len(Calls(f, args)) = Len(args)
           /\ \A i \in 1..Len(args) : Calls(f, args)[i].visit = f
<1>1. Len(args) \in Nat /\ DOMAIN args = 1..Len(args) /\ \A i \in 1..Len(args) : args[i] \in T
    BY LenProperties
<1>2. Calls(f, args) \in [1..Len(args) -> Frame]
    BY <1>1 DEF Calls
<1>3. \A i \in 1..Len(args) : Calls(f, args)[i].visit = f
    BY <1>1 DEF Calls, Call
<1> QED BY <1>1, <1>2, <1>3, FunctionIsSeq

LEMMA OneCall ==
    ASSUME NEW f, NEW x, Call(f, x) \in Frame
    PROVE  <<Call(f, x)>> \in Seq(Frame) /\ Len(<<Call(f, x)>>) = 1
           /\ <<Call(f, x)>>[1].visit = f
BY DEF Call

\* How the calls find the stacks: `open' has for each group that is open how
\* many blocks and OPTIONAL groups of it there are at least, `conj' is the number
\* of conjunctions that are begun and not closed.
Counts == Nat \X Nat
State  == [open : Seq(Counts), conj : Nat]
Closed == [open |-> <<>>, conj |-> 0]

Below(p, q) == p[1] <= q[1] /\ p[2] <= q[2]
Lower(r, s) == Len(r) = Len(s) /\ \A l \in 1..Len(s) : Below(r[l], s[l])

\* Calls that begin and end with one group more than there are conjunctions,
\* and calls outside of all groups.
Inside  == {"pattern", "resize", "depend", "block", "subject", "property", "verb", "object"}
Outside == {"prefix", "where", "select", "variable"}

\* What a call finds and what it leaves.
Moves(c, x, y) ==
    \/ c.visit \in Outside /\ x = Closed /\ y = Closed
    \/ /\ c.visit \in Inside
       /\ Len(x.open) = x.conj + 1 /\ y.conj = x.conj /\ Lower(y.open, x.open)
       /\ c.visit = "resize" => Below(c.arg, Top(x.open)) /\ Below(Top(y.open), c.arg)
    \/ c.visit = "optional" /\ x.conj >= 1 /\ Len(x.open) = x.conj /\ y = x
    \/ /\ c.visit = "close" /\ x.conj >= 1 /\ Len(x.open) = x.conj
       /\ y.open = x.open /\ y.conj = x.conj - 1
    \/ /\ c.visit = "leave" /\ x.conj >= 1 /\ Len(x.open) = x.conj + 1
       /\ y.open = Pop(x.open) /\ y.conj = x.conj
    \/ c.visit = "end" /\ Len(x.open) = 1 /\ x.conj = 0 /\ y = Closed

Along(s, x, y, G) == /\ G[1] = x /\ G[Len(s) + 1] = y
                     /\ \A i \in 1..Len(s) : Moves(s[i], G[i], G[i + 1])

\* So do calls one after the other.
MoveAll(s, x, y) == \E G \in [1..(Len(s) + 1) -> State] : Along(s, x, y, G)

LEMMA MoveNone == ASSUME NEW x \in State PROVE MoveAll(<<>>, x, x)
<1> DEFINE G == [i \in 1..1 |-> x]
<1>1. Len(<<>>) = 0
    BY EmptySeq
<1>2. Along(<<>>, x, x, G)
    BY <1>1 DEF Along
<1>3. G \in [1..(0 + 1) -> State]
    OBVIOUS
<1> HIDE DEF G
<1> QED BY <1>1, <1>2, <1>3 DEF MoveAll

\* As many calls as one likes that leave the stacks as they were.
LEMMA MoveLevel ==
    ASSUME NEW s \in Seq(Frame), NEW x \in State, \A i \in 1..Len(s) : Moves(s[i], x, x)
    PROVE  MoveAll(s, x, x)
<1> DEFINE G == [i \in 1..(Len(s) + 1) |-> x]
<1>1. Len(s) \in Nat
    BY LenProperties
<1>2. G[1] = x /\ G[Len(s) + 1] = x
    BY <1>1
<1>3. ASSUME NEW i \in 1..Len(s) PROVE G[i] = x /\ G[i + 1] = x
    BY <1>1
<1>4. G \in [1..(Len(s) + 1) -> State]
    OBVIOUS
<1> HIDE DEF G
<1>5. Along(s, x, x, G)
    BY <1>2, <1>3 DEF Along
<1> QED BY <1>4, <1>5 DEF MoveAll

LEMMA MoveOne ==
    ASSUME NEW s \in Seq(Frame), Len(s) = 1, NEW x \in State, NEW y \in State, Moves(s[1], x, y)
    PROVE  MoveAll(s, x, y)
<1> DEFINE G == [i \in 1..2 |-> IF i = 1 THEN x ELSE y]
<1>1. G[1] = x /\ G[2] = y
    OBVIOUS
<1>2. G \in [1..2 -> State]
    OBVIOUS
<1> HIDE DEF G
<1>3. Along(s, x, y, G)
    BY <1>1 DEF Along
<1> QED BY <1>2, <1>3 DEF MoveAll

LEMMA MoveOn ==
    ASSUME NEW s \in Seq(Frame), NEW t \in Seq(Frame), NEW x, NEW y, NEW z,
           MoveAll(s, x, y), MoveAll(t, y, z)
    PROVE  MoveAll(s \o t, x, z)
<1> DEFINE m == Len(s)
           n == Len(t)
           u == s \o t
<1>1. PICK G \in [1..(m + 1) -> State] : Along(s, x, y, G)
    BY DEF MoveAll
<1>2. PICK H \in [1..(n + 1) -> State] : Along(t, y, z, H)
    BY DEF MoveAll
<1>3. m \in Nat /\ n \in Nat /\ Len(u) = m + n
    BY LenProperties, ConcatProperties
<1>4. \A i \in 1..(m + n) : u[i] = IF i <= m THEN s[i] ELSE t[i - m]
    BY ConcatProperties
<1> DEFINE A == [i \in 1..(m + n + 1) |-> IF i <= m THEN G[i] ELSE H[i - m]]
<1>5. A \in [1..(m + n + 1) -> State]
    <2> SUFFICES ASSUME NEW i \in 1..(m + n + 1) PROVE A[i] \in State
        OBVIOUS
    <2>1. CASE i <= m
        BY <1>3, <2>1
    <2>2. CASE ~(i <= m)
        <3>1. i - m \in 1..(n + 1)
            BY <1>3, <2>2
        <3> QED BY <2>2, <3>1
    <2> QED BY <2>1, <2>2
<1>6. /\ \A i \in 1..(m + 1) : A[i] = G[i]
      /\ \A i \in (m + 1)..(m + n + 1) : A[i] = H[i - m]
    <2>1. G[m + 1] = H[1]
        BY <1>1, <1>2 DEF Along
    <2>2. ASSUME NEW i \in (m + 1)..(m + n + 1) PROVE A[i] = H[i - m]
        BY <1>3
    <2>3. A[m + 1] = H[1]
        BY <1>3
    <2>4. ASSUME NEW i \in 1..(m + 1) PROVE A[i] = G[i]
        <3>1. CASE i <= m
            BY <3>1, <1>3
        <3>2. CASE i = m + 1
            BY <3>2, <2>1, <2>3
        <3> QED BY <3>1, <3>2, <1>3
    <2> QED BY <2>2, <2>4
<1> HIDE DEF A, u
<1>7. A[1] = x /\ A[m + n + 1] = z
    <2>1. 1 \in 1..(m + 1) /\ m + n + 1 \in (m + 1)..(m + n + 1) /\ m + n + 1 - m = n + 1
        BY <1>3
    <2>2. A[1] = G[1]
        BY <2>1, <1>6
    <2>3. A[m + n + 1] = H[n + 1]
        <3> DEFINE j == m + n + 1
        <3>1. j \in (m + 1)..(m + n + 1) /\ j - m = n + 1
            BY <1>3
        <3> HIDE DEF j
        <3>2. A[j] = H[j - m]
            BY <3>1, <1>6
        <3> QED BY <3>1, <3>2 DEF j
    <2> QED BY <2>2, <2>3, <1>1, <1>2 DEF Along
<1>8. ASSUME NEW i \in 1..(m + n) PROVE Moves(u[i], A[i], A[i + 1])
    <2>1. CASE i <= m
        <3>1. i \in 1..m /\ i \in 1..(m + 1) /\ i + 1 \in 1..(m + 1)
            BY <2>1, <1>3
        <3>2. Moves(s[i], G[i], G[i + 1])
            BY <3>1, <1>1 DEF Along
        <3> QED BY <3>1, <3>2, <2>1, <1>4, <1>6
    <2>2. CASE ~(i <= m)
        <3>1. /\ i - m \in 1..n /\ i \in (m + 1)..(m + n + 1) /\ i + 1 \in (m + 1)..(m + n + 1)
              /\ i + 1 - m = i - m + 1
            BY <2>2, <1>3
        <3>2. Moves(t[i - m], H[i - m], H[i - m + 1])
            BY <3>1, <1>2 DEF Along
        <3> QED BY <3>1, <3>2, <2>2, <1>4, <1>6
    <2> QED BY <2>1, <2>2
<1>9. Along(u, x, z, A)
    BY <1>3, <1>7, <1>8 DEF Along
<1> QED BY <1>3, <1>5, <1>9 DEF MoveAll, u

LEMMA MoveFirst ==
    ASSUME NEW s \in Seq(Frame), s # <<>>, NEW x, NEW z, MoveAll(s, x, z)
    PROVE  x \in State /\ \E y \in State : Moves(Head(s), x, y) /\ MoveAll(Tail(s), y, z)
<1> DEFINE n == Len(s) - 1
           t == Tail(s)
<1>1. PICK G \in [1..(Len(s) + 1) -> State] : Along(s, x, z, G)
    BY DEF MoveAll
<1>2. /\ n \in Nat /\ Len(s) = n + 1 /\ Len(t) = n /\ Head(s) = s[1]
      /\ \A i \in 1..n : t[i] = s[i + 1]
    BY EmptySeq, HeadTailProperties
<1> DEFINE A == [i \in 1..(n + 1) |-> G[i + 1]]
<1>3. A \in [1..(n + 1) -> State]
    BY <1>2
<1>4. \A i \in 1..(n + 1) : A[i] = G[i + 1]
    OBVIOUS
<1> HIDE DEF A, t
<1>5. Moves(Head(s), x, G[2]) /\ G[2] \in State /\ x \in State
    <2>1. 1 \in 1..Len(s) /\ 1 \in 1..(Len(s) + 1) /\ 2 \in 1..(Len(s) + 1)
        BY <1>2
    <2>2. Moves(s[1], G[1], G[2]) /\ G[1] \in State
        BY <2>1, <1>1 DEF Along
    <2> QED BY <2>1, <2>2, <1>1, <1>2 DEF Along
<1>6. ASSUME NEW i \in 1..n PROVE Moves(t[i], A[i], A[i + 1])
    <2>1. i + 1 \in 1..Len(s) /\ i \in 1..(n + 1) /\ i + 1 \in 1..(n + 1)
        BY <1>2
    <2>2. Moves(s[i + 1], G[i + 1], G[i + 1 + 1])
        BY <2>1, <1>1 DEF Along
    <2> QED BY <2>1, <2>2, <1>2, <1>4
<1>7. A[1] = G[2] /\ A[n + 1] = z
    <2>1. 1 \in 1..(n + 1) /\ n + 1 \in 1..(n + 1)
        BY <1>2
    <2> QED BY <2>1, <1>1, <1>2, <1>4 DEF Along
<1>8. Along(t, G[2], z, A)
    BY <1>2, <1>6, <1>7 DEF Along
<1>9. MoveAll(t, G[2], z)
    BY <1>2, <1>3, <1>8 DEF MoveAll
<1> QED BY <1>5, <1>9 DEF t

\* Calls inside of a group, the last of which leaves less than it finds.
LEMMA MoveDown ==
    ASSUME NEW s \in Seq(Frame), s # <<>>, NEW x \in State, NEW y \in State,
           \A i \in 1..Len(s) : Moves(s[i], x, x), Moves(s[Len(s)], x, y)
    PROVE  MoveAll(s, x, y)
<1> DEFINE n == Len(s)
           G == [i \in 1..(n + 1) |-> IF i = n + 1 THEN y ELSE x]
<1>1. n \in Nat \ {0}
    BY EmptySeq
<1>2. G[1] = x /\ G[n + 1] = y
    BY <1>1
<1>3. ASSUME NEW i \in 1..n PROVE Moves(s[i], G[i], G[i + 1])
    BY <1>1
<1>4. G \in [1..(n + 1) -> State]
    OBVIOUS
<1> HIDE DEF G
<1>5. Along(s, x, y, G)
    BY <1>2, <1>3 DEF Along
<1> QED BY <1>4, <1>5 DEF MoveAll

LEMMA BelowFacts ==
    /\ \A p \in Counts : Below(p, p)
    /\ \A p, q, r \in Counts : Below(p, q) /\ Below(q, r) => Below(p, r)
BY DEF Below, Counts

LEMMA LowerFacts ==
    /\ \A r \in Seq(Counts) : Lower(r, r)
    /\ \A r, s, t \in Seq(Counts) : Lower(r, s) /\ Lower(s, t) => Lower(r, t)
<1>2. ASSUME NEW r \in Seq(Counts) PROVE Lower(r, r)
    BY ElementOfSeq, BelowFacts DEF Lower
<1>3. ASSUME NEW r \in Seq(Counts), NEW s \in Seq(Counts), NEW t \in Seq(Counts),
             Lower(r, s), Lower(s, t)
      PROVE  Lower(r, t)
    <2>1. ASSUME NEW l \in 1..Len(t) PROVE Below(r[l], t[l])
        <3>1. l \in 1..Len(r) /\ l \in 1..Len(s) /\ Below(r[l], s[l]) /\ Below(s[l], t[l])
            BY <1>3 DEF Lower
        <3>2. r[l] \in Counts /\ s[l] \in Counts /\ t[l] \in Counts
            BY <3>1, ElementOfSeq
        <3> QED BY <3>1, <3>2, BelowFacts
    <2> QED BY <1>3, <2>1 DEF Lower
<1> QED BY <1>2, <1>3

-----------------------------------------------------------------------------
(* Terms and paths.                                                         *)

\* The provers do not know that what is written between quotes is a string.
Part == STRING \cup {"xsd:", "rdf:", "type", "string", "boolean"}

Node == ({"var", "blank"} \X STRING) \cup ({"iri"} \X Seq(Part)) \cup {NoNode}
        \cup ({"literal"} \X (({"iri"} \X Seq(Part)) \cup ({"@"} \X STRING)) \X STRING)

PrefixMaps == UNION {[S -> Seq(STRING)] : S \in SUBSET STRING}
Visited  == Node \cup {Thrown, Crashed}

LEMMA IriType ==
    ASSUME NEW ps \in PrefixMaps, NEW t \in IriTerm
    PROVE  visitIri(ps, t) \in ({"iri"} \X Seq(Part)) \cup {Thrown, Crashed}
<1>0. Seq(STRING) \subseteq Seq(Part)
    BY SeqMonotonic DEF Part
<1>1. CASE t[1] = "iriref"
    BY <1>0, <1>1 DEF visitIri, IriTerm, Iri
<1>2. CASE t[1] = "ns"
    BY <1>2 DEF visitIri, IriTerm
<1>3. CASE t[1] = "pname" /\ t[2] \in DOMAIN ps
    <2>1. ps[t[2]] \in Seq(STRING) /\ t[3] \in Seq(STRING)
        BY <1>3 DEF PrefixMaps, IriTerm
    <2>2. ps[t[2]] \o t[3] \in Seq(STRING)
        BY <2>1, ConcatProperties
    <2> QED BY <1>0, <1>3, <2>2 DEF visitIri, Iri
<1>4. CASE t[1] = "pname" /\ t[2] \notin DOMAIN ps
    BY <1>4 DEF visitIri
<1> QED BY <1>1, <1>2, <1>3, <1>4 DEF IriTerm

LEMMA TwoParts == ASSUME NEW a \in Part, NEW b \in Part PROVE Iri(<<a, b>>) \in {"iri"} \X Seq(Part)
<1>1. <<a, b>> \in Seq(Part)
    BY PairIsSeq
<1> QED BY <1>1 DEF Iri

LEMMA TermType ==
    ASSUME NEW ps \in PrefixMaps, NEW t \in Term
    PROVE  visitVarOrTerm(ps, t) \in Visited
<1>1. CASE t[1] = "var"
    BY <1>1 DEF visitVarOrTerm, Term, IriTerm, Var, Visited, Node
<1>2. CASE t[1] \in {"iriref", "pname", "ns"}
    <2>1. t \in IriTerm
        BY <1>2 DEF Term
    <2> QED BY <1>2, <2>1, IriType DEF visitVarOrTerm, Visited, Node
<1>3. CASE t[1] \in {"label", "anon"}
    BY <1>3 DEF visitVarOrTerm, visitBlankNode, Blank, Term, IriTerm, Visited, Node
<1>4. CASE t[1] = "string"
    <2>1. t[2] \in STRING
        BY <1>4 DEF Term, IriTerm
    <2>2. Xsd("string") \in {"iri"} \X Seq(Part)
        BY TwoParts DEF Xsd, Part
    <2>3. visitVarOrTerm(ps, t) = Literal(Xsd("string"), t[2])
        BY <1>4 DEF visitVarOrTerm, visitRdfLiteral
    <2> QED BY <2>1, <2>2, <2>3 DEF Literal, Visited, Node
<1>5. CASE t[1] = "lang"
    <2>1. t[2] \in STRING /\ t[3] \in STRING
        BY <1>5 DEF Term, IriTerm
    <2>2. visitVarOrTerm(ps, t) = Literal(<<"@", t[3]>>, t[2])
        BY <1>5 DEF visitVarOrTerm, visitRdfLiteral
    <2> QED BY <2>1, <2>2 DEF Literal, Visited, Node
<1>6. CASE t[1] = "typed"
    <2>1. t[2] \in STRING /\ t[3] \in IriTerm
        BY <1>6 DEF Term, IriTerm
    <2> DEFINE type == visitIri(ps, t[3])
    <2>2. type \in ({"iri"} \X Seq(Part)) \cup {Thrown, Crashed}
        BY <2>1, IriType
    <2>3. visitVarOrTerm(ps, t) = IF Failed(type) THEN type ELSE Literal(type, t[2])
        BY <1>6 DEF visitVarOrTerm, visitRdfLiteral
    <2> HIDE DEF type
    <2> QED BY <2>1, <2>2, <2>3 DEF Failed, Literal, Visited, Node
<1>7. CASE t[1] = "boolean"
    <2>1. t[2] \in STRING
        BY <1>7 DEF Term, IriTerm
    <2>2. Xsd("boolean") \in {"iri"} \X Seq(Part)
        BY TwoParts DEF Xsd, Part
    <2>3. visitVarOrTerm(ps, t) = Literal(Xsd("boolean"), t[2])
        BY <1>7 DEF visitVarOrTerm, visitBooleanLiteral
    <2> QED BY <2>1, <2>2, <2>3 DEF Literal, Visited, Node
<1>8. CASE t[1] = "number"
    <2>1. t[2] \in STRING /\ t[3] \in STRING
        BY <1>8 DEF Term, IriTerm
    <2>2. Xsd(t[3]) \in {"iri"} \X Seq(Part)
        BY <2>1, TwoParts DEF Xsd, Part
    <2>3. visitVarOrTerm(ps, t) = Literal(Xsd(t[3]), t[2])
        BY <1>8 DEF visitVarOrTerm, visitNumericLiteral
    <2> QED BY <2>1, <2>2, <2>3 DEF Literal, Visited, Node
<1>9. CASE t[1] \in {"nil", "node", "missing"}
    BY <1>9 DEF visitVarOrTerm, Visited
<1> QED BY <1>1, <1>2, <1>3, <1>4, <1>5, <1>6, <1>7, <1>8, <1>9 DEF Term, IriTerm

LEMMA PrimaryType ==
    ASSUME NEW path \in Path, path # <<>>
    PROVE  Primary(path) \in IriTerm \cup {<<"a">>, <<"not">>} \cup ({"path"} \X Path)
<1>1. path \in Seq(Seq(Element) \ {<<>>})
    BY GrammarAssumption
<1>2. 1 \in 1..Len(path)
    BY <1>1, EmptySeq
<1>3. path[1] \in Seq(Element) \ {<<>>}
    BY <1>1, <1>2, ElementOfSeq
<1>4. 1 \in 1..Len(path[1])
    BY <1>3, EmptySeq
<1>5. path[1][1] \in Element
    BY <1>3, <1>4, ElementOfSeq
<1> QED BY <1>5 DEF Primary, Element

LEMMA VerbType ==
    ASSUME NEW ps \in PrefixMaps, NEW verb \in Verb
    PROVE  /\ ~IsNested(verb) => visitVerb(ps, verb) \in Visited
           /\ IsNested(verb) => Primary(verb[2]) \in Verb
<1>1. CASE verb[1] = "var"
    BY <1>1 DEF visitVerb, IsNested, Verb, Var, Visited, Node
<1>3. CASE verb[1] = "missing"
    BY <1>3 DEF visitVerb, IsNested, Visited
<1>2. CASE verb[1] = "path"
    <2> DEFINE primary == Primary(verb[2])
    <2>0. ~PathThrows(verb[2]) => verb[2] # <<>>
        BY EmptySeq DEF PathThrows
    <2>1. ~PathThrows(verb[2]) => primary \in IriTerm \cup {<<"a">>, <<"not">>} \cup ({"path"} \X Path)
        BY <1>2, <2>0, PrimaryType DEF Verb
    <2> HIDE DEF primary
    <2>2. IsNested(verb) => primary \in Verb
        BY <2>1 DEF IsNested, IriTerm, Verb, primary
    <2>3. ASSUME ~IsNested(verb), ~PathThrows(verb[2]) PROVE visitVerb(ps, verb) \in Visited
        <3>1. primary \in IriTerm \cup {<<"a">>, <<"not">>}
            BY <1>2, <2>1, <2>3 DEF IsNested, primary
        <3>2. visitVerb(ps, verb) = visitPathElt(ps, primary)
            BY <1>2, <2>3 DEF visitVerb, primary
        <3>3. CASE primary = <<"a">>
            <4>1. RdfType \in Node
                BY TwoParts DEF RdfType, Node, Part
            <4>2. visitVerb(ps, verb) = RdfType
                BY <3>2, <3>3 DEF visitPathElt
            <4> QED BY <4>1, <4>2 DEF Visited
        <3>4. CASE primary = <<"not">>
            BY <3>2, <3>4 DEF visitPathElt, Visited
        <3>5. CASE primary \in IriTerm
            <4>1. visitIri(ps, primary) \in Visited
                BY <3>5, IriType DEF Visited, Node
            <4> QED BY <3>2, <3>5, <4>1 DEF visitPathElt, IriTerm
        <3> QED BY <3>1, <3>3, <3>4, <3>5
    <2>4. ASSUME PathThrows(verb[2]) PROVE visitVerb(ps, verb) \in Visited
        BY <1>2, <2>4 DEF visitVerb, Visited
    <2> QED BY <2>2, <2>3, <2>4 DEF primary
<1> QED BY <1>1, <1>2, <1>3 DEF Verb

-----------------------------------------------------------------------------
(* Edges.                                                                   *)

LEMMA SeqOfSubset == ASSUME NEW S, NEW T, NEW s \in Seq(S), Range(s) \subseteq T PROVE s \in Seq(T)
<1>1. s \in Seq(Range(s))
    BY SeqOfRange
<1> QED BY <1>1, SeqMonotonic

LEMMA SetToSeqProperties ==
    ASSUME NEW S, IsFiniteSet(S)
    PROVE  SetToSeq(S) \in Seq(S) /\ Range(SetToSeq(S)) = S
<1> DEFINE n == Cardinality(S)
           Q(f) == f \in [1..n -> S] /\ IsInjective(f)
<1>1. n \in Nat /\ IsFiniteSet(1..n) /\ Cardinality(1..n) = n
    BY FS_CardinalityType, FS_Interval
<1>2. \E f : Q(f)
    <2>1. ExistsBijection(1..n, S)
        BY FS_CardinalityType
    <2> QED BY <2>1 DEF ExistsBijection, Bijection, Injection, IsInjective
<1>3. SetToSeq(S) = CHOOSE f : Q(f)
    BY DEF SetToSeq
<1> HIDE DEF Q
<1>4. Q(SetToSeq(S))
    BY <1>2, <1>3
<1> DEFINE f == SetToSeq(S)
<1>5. f \in [1..n -> S] /\ IsInjective(f)
    BY <1>4 DEF Q
<1> HIDE DEF f
<1>6. f \in Seq(S)
    BY <1>1, <1>5, FunctionIsSeq
<1>7. f \in Injection(1..n, S)
    BY <1>5 DEF Injection
<1>8. f \in Surjection(1..n, S)
    BY <1>1, <1>7, FS_Injection
<1>9. Range(f) = S
    BY <1>8 DEF Surjection, Range
<1> QED BY <1>6, <1>9 DEF f

EdgesOf(a, b, L)  == {<<a, b, l>> : l \in L}
BothWays(a, b, L) == EdgesOf(a, b, L) \cup EdgesOf(b, a, L)

LEMMA JoinEdgesRange ==
    ASSUME NEW a, NEW b, NEW S, NEW as \in Seq(S), NEW bs \in Seq(S)
    PROVE  LET E == BothWays(a, b, Labels(as, bs))
           IN  JoinEdges(a, b, as, bs) \in Seq(E) /\ Range(JoinEdges(a, b, as, bs)) = E
<1> DEFINE shared == Range(as) \cap Range(bs)
           L == Labels(as, bs)
           labels == SetToSeq(L)
           pair(i) == << <<a, b, labels[i]>>, <<b, a, labels[i]>> >>
           f == [i \in DOMAIN labels |-> pair(i)]
           E == BothWays(a, b, L)
<1>1. IsFiniteSet(L)
    <2>1. IsFiniteSet(shared)
        BY RangeFinite, FS_Intersection
    <2>2. IsFiniteSet({Unlabelled})
        BY FS_Singleton
    <2> QED BY <2>1, <2>2 DEF Labels
<1>2. labels \in Seq(L) /\ Range(labels) = L
    BY <1>1, SetToSeqProperties
<1>3. JoinEdges(a, b, as, bs) = FlattenSeq(f)
    BY DEF JoinEdges
<1> HIDE DEF labels, L
<1>4. Len(labels) \in Nat /\ DOMAIN labels = 1..Len(labels) /\ \A i \in 1..Len(labels) : labels[i] \in L
    BY <1>2, LenProperties
<1>5. ASSUME NEW i \in 1..Len(labels)
      PROVE  /\ f[i] \in Seq(E)
             /\ Range(f[i]) = {<<a, b, labels[i]>>, <<b, a, labels[i]>>}
    <2> DEFINE x == <<a, b, labels[i]>>
               y == <<b, a, labels[i]>>
    <2>1. x \in E /\ y \in E
        BY <1>4 DEF BothWays, EdgesOf
    <2>2. f[i] = <<x, y>>
        BY <1>4
    <2> HIDE DEF x, y, E, f
    <2>3. <<x, y>> \in Seq(E)
        BY <2>1, PairIsSeq
    <2>4. Range(<<x, y>>) = {x, y}
        BY DEF Range
    <2> QED BY <2>2, <2>3, <2>4 DEF x, y
<1>6. f \in [1..Len(labels) -> Seq(E)]
    BY <1>4, <1>5
<1> HIDE DEF f
<1>7. f \in Seq(Seq(E)) /\ Len(f) = Len(labels)
    BY <1>4, <1>6, FunctionIsSeq
<1>8. FlattenSeq(f) \in Seq(E) /\ Range(FlattenSeq(f)) = UNION {Range(f[i]) : i \in 1..Len(f)}
    BY <1>7, FlattenSeqType, FlattenSeqRange
<1>9. UNION {Range(f[i]) : i \in 1..Len(labels)} = E
    <2>1. L = {labels[i] : i \in 1..Len(labels)}
        BY <1>2, <1>4 DEF Range
    <2>2. ASSUME NEW i \in 1..Len(labels) PROVE Range(f[i]) \subseteq E
        BY <1>4, <1>5 DEF BothWays, EdgesOf
    <2>3. ASSUME NEW e \in E PROVE \E i \in 1..Len(labels) : e \in Range(f[i])
        <3>1. PICK l \in L : e = <<a, b, l>> \/ e = <<b, a, l>>
            BY <2>3 DEF BothWays, EdgesOf
        <3>2. PICK i \in 1..Len(labels) : labels[i] = l
            BY <2>1
        <3> QED BY <1>5, <3>1, <3>2
    <2> HIDE DEF E
    <2> QED BY <2>2, <2>3
<1> QED BY <1>3, <1>7, <1>8, <1>9 DEF E, L

LEMMA EdgesRange ==
    ASSUME NEW a, NEW b, NEW S, NEW as \in Seq(S), NEW bs \in Seq(S)
    PROVE  LET E == EdgesOf(a, b, Labels(as, bs))
           IN  Edges(a, b, as, bs) \in Seq(E) /\ Range(Edges(a, b, as, bs)) = E
<1> DEFINE hits == Within(as, Range(bs))
           L == Labels(as, bs)
           E == EdgesOf(a, b, L)
<1>1. hits \in Seq(S \cap Range(bs)) /\ Range(hits) = Range(as) \cap Range(bs)
    BY ZenonT(90), WithinProperties
<1> HIDE DEF hits
<1>2. Len(hits) \in Nat /\ DOMAIN hits = 1..Len(hits) /\ Range(hits) = {hits[i] : i \in 1..Len(hits)}
    BY <1>1, LenProperties, RangeEquality
<1>3. CASE hits = <<>>
    <2>1. L = {Unlabelled}
        BY <1>1, <1>3, RangeEmpty DEF Labels
    <2>2. Edges(a, b, as, bs) = << <<a, b, Unlabelled>> >>
        BY <1>3 DEF Edges, hits
    <2>3. <<a, b, Unlabelled>> \in E
        BY <2>1 DEF EdgesOf
    <2> DEFINE x == <<a, b, Unlabelled>>
    <2> HIDE DEF x, E
    <2>4. <<x>> \in Seq(E) /\ Range(<<x>>) = {x}
        BY <2>3 DEF Range, x
    <2> QED BY <2>1, <2>2, <2>4 DEF x, E, EdgesOf
<1>4. CASE hits # <<>>
    <2>1. Len(hits) # 0 /\ 1 \in 1..Len(hits)
        BY <1>1, <1>4, EmptySeq
    <2>2. L = Range(hits)
        BY <1>1, <1>2, <2>1 DEF Labels
    <2> DEFINE f == [i \in 1..Len(hits) |-> <<a, b, hits[i]>>]
    <2>3. Edges(a, b, as, bs) = f
        BY <1>2, <1>4 DEF Edges, hits
    <2>4. f \in [1..Len(hits) -> E]
        BY <1>2, <2>2 DEF EdgesOf
    <2>5. Range(f) = E
        BY <1>2, <2>2 DEF Range, EdgesOf
    <2> HIDE DEF f, E
    <2>6. f \in Seq(E)
        BY <1>2, <2>4, FunctionIsSeq
    <2> QED BY <2>3, <2>5, <2>6 DEF E
<1> QED BY <1>3, <1>4

LEMMA PairsRange ==
    ASSUME NEW S, NEW T, NEW s \in Seq(S), NEW t \in Seq(T)
    PROVE  /\ Pairs(s, t) \in Seq(S \X T)
           /\ \A x : x \in Range(Pairs(s, t)) <=> x \in Range(s) \X Range(t)
<1> DEFINE row(i) == [j \in DOMAIN t |-> <<s[i], t[j]>>]
           f == [i \in DOMAIN s |-> row(i)]
<1>1. /\ Len(s) \in Nat /\ DOMAIN s = 1..Len(s) /\ \A i \in 1..Len(s) : s[i] \in S
      /\ Len(t) \in Nat /\ DOMAIN t = 1..Len(t) /\ \A i \in 1..Len(t) : t[i] \in T
    BY LenProperties
<1>2. ASSUME NEW i \in 1..Len(s)
      PROVE  row(i) \in Seq(S \X T) /\ Range(row(i)) = {s[i]} \X Range(t)
    <2>1. row(i) \in [1..Len(t) -> S \X T]
        BY <1>1
    <2>2. Range(row(i)) = {s[i]} \X Range(t)
        BY <1>1 DEF Range
    <2> HIDE DEF row
    <2> QED BY <1>1, <2>1, <2>2, FunctionIsSeq
<1> HIDE DEF row
<1>3. f \in [1..Len(s) -> Seq(S \X T)] /\ \A i \in 1..Len(s) : f[i] = row(i)
    BY <1>1, <1>2
<1>4. Pairs(s, t) = FlattenSeq(f)
    BY DEF Pairs, row
<1> HIDE DEF f
<1>5. f \in Seq(Seq(S \X T)) /\ Len(f) = Len(s)
    BY <1>1, <1>3, FunctionIsSeq
<1>6. FlattenSeq(f) \in Seq(S \X T) /\ Range(FlattenSeq(f)) = UNION {Range(f[i]) : i \in 1..Len(f)}
    BY <1>5, FlattenSeqType, FlattenSeqRange
<1>7. ASSUME NEW x PROVE x \in UNION {Range(f[i]) : i \in 1..Len(f)} <=> x \in Range(s) \X Range(t)
    <2>1. Range(s) = {s[i] : i \in 1..Len(s)}
        BY <1>1 DEF Range
    <2>2. \A i \in 1..Len(f) : Range(f[i]) = {s[i]} \X Range(t)
        BY <1>2, <1>3, <1>5
    <2> HIDE DEF Range
    <2> QED BY <1>5, <2>1, <2>2
<1> QED BY <1>4, <1>6, <1>7

-----------------------------------------------------------------------------
(* What is known of the query and the visitor.                              *)

Vertex == 1..Len(operands)
Label  == 0..Letters
Edge   == Vertex \X Vertex \X Label

NamesType == /\ prefixes \in PrefixMaps
             /\ projected_variables \in Seq(Node)
             /\ var_to_id \in Seq(Node)
             /\ active_subject \in Node /\ active_predicate \in Node
OdgType == /\ triple_patterns \in Seq(Node \X Node \X Node)
           /\ operands \in Seq(Seq(Label))
           /\ dependencies \in Seq(Edge)
           /\ connections \in Seq(Vertex \X Vertex)
StacksType == /\ group_patterns \in Seq(Seq(Vertex))
              /\ opt_operands \in Seq(Seq(Vertex)) /\ union_operands \in Seq(Seq(Vertex))
              /\ triples_blocks \in Seq(Seq(Blocks)) /\ optional_blocks \in Seq(Seq(Group))
CallsType == visits \in Seq(Frame) /\ error \in {"none", "thrown", "crashed"}

GraphType == NamesType /\ OdgType /\ StacksType /\ CallsType

\* The heights of the stacks fit each other.
StacksFit == /\ Len(triples_blocks) = Len(group_patterns) /\ Len(optional_blocks) = Len(group_patterns)
             /\ Len(union_operands) = Len(opt_operands)

\* How many blocks and OPTIONAL groups there are of the l-th group.
BlocksAt(l) == <<Len(triples_blocks[l]), Len(optional_blocks[l])>>

Covers(x) == /\ x \in State
             /\ Len(x.open) = Len(group_patterns) /\ x.conj = Len(opt_operands)
             /\ \A l \in 1..Len(group_patterns) : Below(x.open[l], BlocksAt(l))

\* What is still to be done fits the stacks: there is a group or a conjunction
\* open wherever one is needed, and none at the end; no vector grows when it is
\* resized.
Fits == /\ StacksFit
        /\ error = "none" => \E x : Covers(x) /\ MoveAll(visits, x, Closed)
        /\ error # "none" => visits = <<>>

Shape == GraphType /\ Fits

LEMMA LabelsType ==
    ASSUME NEW as \in Seq(Label), NEW bs \in Seq(Label)
    PROVE  Labels(as, bs) \subseteq Label
<1>1. Range(as) \subseteq Label
    BY RangeOfSeq
<1>2. 0 \in Label
    BY LettersAssumption DEF Label
<1> QED BY <1>1, <1>2 DEF Labels, Unlabelled

LEMMA DependenciesRange ==
    ASSUME OdgType, NEW prev \in Seq(Vertex), NEW cur \in Seq(Vertex)
    PROVE  /\ group_dependencies(prev, cur) \in Seq(Edge)
           /\ \A e : e \in Range(group_dependencies(prev, cur)) <=>
                     \E a \in Range(prev), b \in Range(cur) :
                         \E l \in Labels(operands[a], operands[b]) : e = <<a, b, l>>
<1> DEFINE ps == Pairs(prev, cur)
           f == [i \in DOMAIN ps |-> Edges(ps[i][1], ps[i][2], operands[ps[i][1]], operands[ps[i][2]])]
<1>1. ps \in Seq(Vertex \X Vertex) /\ \A x : x \in Range(ps) <=> x \in Range(prev) \X Range(cur)
    BY PairsRange
<1>2. group_dependencies(prev, cur) = FlattenSeq(f)
    BY DEF group_dependencies
<1> HIDE DEF ps
<1>3. /\ Len(ps) \in Nat /\ DOMAIN ps = 1..Len(ps) /\ Range(ps) = {ps[i] : i \in 1..Len(ps)}
      /\ \A i \in 1..Len(ps) : ps[i] \in Vertex \X Vertex
    BY <1>1, LenProperties, RangeEquality
<1>4. ASSUME NEW i \in 1..Len(ps)
      PROVE  /\ f[i] \in Seq(Edge)
             /\ \A e : e \in Range(f[i]) <=> \E l \in Labels(operands[ps[i][1]], operands[ps[i][2]]) :
                                                  e = <<ps[i][1], ps[i][2], l>>
    <2> DEFINE a == ps[i][1]
               b == ps[i][2]
    <2>1. a \in Vertex /\ b \in Vertex
        BY <1>3
    <2>2. f[i] = Edges(a, b, operands[a], operands[b])
        BY <1>3
    <2> HIDE DEF a, b, f
    <2>3. operands[a] \in Seq(Label) /\ operands[b] \in Seq(Label)
        BY <2>1, ElementOfSeq DEF OdgType, Vertex
    <2> DEFINE E == EdgesOf(a, b, Labels(operands[a], operands[b]))
    <2>4. Edges(a, b, operands[a], operands[b]) \in Seq(E) /\ Range(Edges(a, b, operands[a], operands[b])) = E
        BY <2>3, EdgesRange
    <2>5. E \subseteq Edge
        BY <2>1, <2>3, LabelsType DEF Edge, EdgesOf
    <2>6. f[i] \in Seq(Edge)
        BY <2>2, <2>4, <2>5, SeqMonotonic
    <2>7. \A e : e \in Range(f[i]) <=> \E l \in Labels(operands[a], operands[b]) : e = <<a, b, l>>
        BY <2>2, <2>4 DEF EdgesOf
    <2> QED BY <2>6, <2>7 DEF a, b
<1>5. f \in [1..Len(ps) -> Seq(Edge)]
    BY <1>3, <1>4
<1> HIDE DEF f
<1>6. f \in Seq(Seq(Edge)) /\ Len(f) = Len(ps)
    BY <1>3, <1>5, FunctionIsSeq
<1>7. FlattenSeq(f) \in Seq(Edge) /\ Range(FlattenSeq(f)) = UNION {Range(f[i]) : i \in 1..Len(ps)}
    BY <1>6, FlattenSeqType, FlattenSeqRange
<1>8. ASSUME NEW e
      PROVE  e \in Range(FlattenSeq(f)) <=> \E a \in Range(prev), b \in Range(cur) :
                         \E l \in Labels(operands[a], operands[b]) : e = <<a, b, l>>
    <2>1. ASSUME NEW i \in 1..Len(ps), e \in Range(f[i])
          PROVE  \E a \in Range(prev), b \in Range(cur) :
                         \E l \in Labels(operands[a], operands[b]) : e = <<a, b, l>>
        <3>1. ps[i][1] \in Range(prev) /\ ps[i][2] \in Range(cur)
            <4>1. ps[i] \in Range(prev) \X Range(cur)
                BY <1>1, <1>3
            <4> QED BY <4>1
        <3> QED BY <1>4, <2>1, <3>1
    <2>2. ASSUME NEW a \in Range(prev), NEW b \in Range(cur), NEW l \in Labels(operands[a], operands[b]),
                 e = <<a, b, l>>
          PROVE  \E i \in 1..Len(ps) : e \in Range(f[i])
        <3>1. <<a, b>> \in Range(ps)
            BY <1>1
        <3>2. PICK i \in 1..Len(ps) : ps[i] = <<a, b>>
            BY <1>3, <3>1
        <3>3. ps[i][1] = a /\ ps[i][2] = b
            BY <3>2
        <3> QED BY <1>4, <2>2, <3>3
    <2> QED BY <1>7, <2>1, <2>2
<1> QED BY <1>2, <1>7, <1>8

LEMMA ConnectionsRange ==
    ASSUME StacksType, opt_operands # <<>>, NEW cur \in Seq(Vertex)
    PROVE  /\ group_connections(cur) \in Seq(Vertex \X Vertex)
           /\ \A c \in Range(group_connections(cur)) :
                  \E a \in Range(cur), b \in Range(Top(opt_operands)) : c = <<a, b>> \/ c = <<b, a>>
           /\ \A x, y : <<x, y>> \in Range(group_connections(cur)) => <<y, x>> \in Range(group_connections(cur))
<1> DEFINE others == Within(Top(opt_operands), Range(Top(opt_operands)) \ Range(Top(union_operands)))
           ps == Pairs(cur, others)
           f == [i \in DOMAIN ps |-> << ps[i], <<ps[i][2], ps[i][1]>> >>]
           E == Vertex \X Vertex
<1>1. Top(opt_operands) \in Seq(Vertex)
    BY TopProperties DEF StacksType
<1>2. others \in Seq(Vertex) /\ Range(others) \subseteq Range(Top(opt_operands))
    <2>1. /\ others \in Seq(Vertex \cap (Range(Top(opt_operands)) \ Range(Top(union_operands))))
          /\ Range(others) \subseteq Range(Top(opt_operands))
        <3> DEFINE S == Top(opt_operands)
                   T == Range(S) \ Range(Top(union_operands))
        <3>1. others = Within(S, T) /\ S \in Seq(Vertex)
            BY <1>1
        <3> HIDE DEF others, S, T
        <3>2. others \in Seq(Vertex \cap T) /\ Range(others) = Range(S) \cap T
            BY <3>1, WithinProperties
        <3> QED BY <3>2 DEF S, T
    <2> HIDE DEF others
    <2> QED BY <2>1, SeqMonotonic
<1>3. group_connections(cur) = FlattenSeq(f)
    BY DEF group_connections
<1> HIDE DEF others
<1>4. ps \in Seq(E) /\ \A x : x \in Range(ps) <=> x \in Range(cur) \X Range(others)
    BY <1>2, PairsRange
<1> HIDE DEF ps
<1>5. /\ Len(ps) \in Nat /\ DOMAIN ps = 1..Len(ps)
      /\ \A i \in 1..Len(ps) : ps[i] \in Vertex \X Vertex /\ ps[i] \in Range(cur) \X Range(others)
    <2>1. Len(ps) \in Nat /\ DOMAIN ps = 1..Len(ps) /\ Range(ps) = {ps[i] : i \in 1..Len(ps)}
        BY <1>4, LenProperties, RangeEquality
    <2> QED BY <1>4, <2>1, ElementOfSeq
<1>6. ASSUME NEW i \in 1..Len(ps)
      PROVE  f[i] \in Seq(E) /\ Range(f[i]) = {ps[i], <<ps[i][2], ps[i][1]>>}
    <2> DEFINE x == ps[i]
               y == <<ps[i][2], ps[i][1]>>
    <2>1. x \in E /\ y \in E /\ f[i] = <<x, y>>
        BY <1>5
    <2> HIDE DEF x, y, E, f
    <2>2. <<x, y>> \in Seq(E)
        BY <2>1, PairIsSeq
    <2>3. Range(<<x, y>>) = {x, y}
        BY DEF Range
    <2> QED BY <2>1, <2>2, <2>3 DEF x, y
<1>7. f \in [1..Len(ps) -> Seq(E)]
    BY <1>5, <1>6
<1> HIDE DEF f
<1>8. f \in Seq(Seq(E)) /\ Len(f) = Len(ps)
    BY <1>5, <1>7, FunctionIsSeq
<1>9. FlattenSeq(f) \in Seq(E) /\ Range(FlattenSeq(f)) = UNION {Range(f[i]) : i \in 1..Len(ps)}
    BY <1>8, FlattenSeqType, FlattenSeqRange
<1>10. ASSUME NEW c \in Range(FlattenSeq(f))
       PROVE  \E a \in Range(cur), b \in Range(Top(opt_operands)) : c = <<a, b>> \/ c = <<b, a>>
    <2>1. PICK i \in 1..Len(ps) : c \in {ps[i], <<ps[i][2], ps[i][1]>>}
        BY <1>6, <1>9
    <2>2. ps[i][1] \in Range(cur) /\ ps[i][2] \in Range(Top(opt_operands)) /\ ps[i] = <<ps[i][1], ps[i][2]>>
        BY <1>2, <1>5
    <2> QED BY <2>1, <2>2
<1>11. ASSUME NEW x, NEW y, <<x, y>> \in Range(FlattenSeq(f)) PROVE <<y, x>> \in Range(FlattenSeq(f))
    <2>1. PICK i \in 1..Len(ps) : <<x, y>> \in {ps[i], <<ps[i][2], ps[i][1]>>}
        BY <1>6, <1>9, <1>11
    <2>2. ps[i] = <<ps[i][1], ps[i][2]>>
        BY <1>5
    <2>3. <<y, x>> \in {ps[i], <<ps[i][2], ps[i][1]>>}
        BY <2>1, <2>2
    <2>4. <<y, x>> \in Range(f[i])
        BY <1>6, <2>3
    <2> QED BY <1>9, <2>4
<1> QED BY <1>3, <1>9, <1>10, <1>11

-----------------------------------------------------------------------------
(* Calls that end and begin.                                                *)

LEMMA CallOf ==
    ASSUME Shape, NEW f, Calling(f)
    PROVE  /\ visits # <<>> /\ Head(visits) \in Frame /\ Head(visits).visit = f
           /\ Tail(visits) \in Seq(Frame) /\ error = "none"
           /\ \E x, y \in State : Covers(x) /\ Moves(Head(visits), x, y) /\ MoveAll(Tail(visits), y, Closed)
<1>1. visits # <<>> /\ visits \in Seq(Frame) /\ Head(visits).visit = f
    BY DEF Calling, Shape, GraphType, CallsType
<1>2. error = "none"
    BY <1>1 DEF Shape, Fits
<1>3. PICK x : Covers(x) /\ MoveAll(visits, x, Closed)
    BY <1>2 DEF Shape, Fits
<1>4. Head(visits) \in Frame /\ Tail(visits) \in Seq(Frame)
    BY <1>1, HeadTailProperties
<1>5. x \in State /\ \E y \in State : Moves(Head(visits), x, y) /\ MoveAll(Tail(visits), y, Closed)
    BY <1>1, <1>3, MoveFirst
<1> QED BY <1>1, <1>2, <1>3, <1>4, <1>5

LEMMA Lengths ==
    ASSUME StacksType
    PROVE  /\ Len(group_patterns) \in Nat /\ Len(opt_operands) \in Nat /\ Len(union_operands) \in Nat
           /\ Len(triples_blocks) \in Nat /\ Len(optional_blocks) \in Nat
BY LenProperties DEF StacksType

LEMMA ArgType ==
    ASSUME Shape, NEW f, Calling(f)
    PROVE  /\ f = "prefix" => Arg \in Declaration
           /\ f \in {"where", "optional"} => Arg \in Group
           /\ f = "select" => Arg \in {All} \cup Seq(Selection)
           /\ f = "variable" => Arg \in Selection
           /\ f = "pattern" => Arg \in [group : Group, gous : Seq(Unions)]
           /\ f = "resize" => Arg \in Counts
           /\ f = "block" => Arg \in Blocks
           /\ f = "subject" => Arg \in SameSubject
           /\ f = "property" => Arg \in Properties
           /\ f = "verb" => Arg \in Verb
           /\ f = "object" => Arg \in Term
<1>1. Head(visits) \in Frame /\ Head(visits).visit = f
    BY CallOf
<1> DEFINE fr == Head(visits)
<1> HIDE DEF fr
<1>2. fr \in Frame /\ fr.visit = f /\ Arg = fr.arg
    BY <1>1 DEF fr, Arg
<1> QED BY <1>2 DEF Frame, Counts

LEMMA DoFits ==
    ASSUME Shape, NEW f, Calling(f), NEW calls \in Seq(Frame), Do(calls), error' = error, StacksFit',
           \A x, y \in State : Covers(x) /\ Moves(Head(visits), x, y) =>
                                 \E z : Covers(z)' /\ MoveAll(calls, z, y)
    PROVE  CallsType' /\ Fits'
<1> DEFINE t == Tail(visits)
<1>1. PICK x, y \in State : Covers(x) /\ Moves(Head(visits), x, y) /\ MoveAll(t, y, Closed)
    BY CallOf
<1>2. t \in Seq(Frame) /\ error' = "none" /\ visits' = calls \o t
    BY CallOf DEF Do
<1> HIDE DEF t
<1>3. PICK z : Covers(z)' /\ MoveAll(calls, z, y)
    BY <1>1
<1>4. MoveAll(calls \o t, z, Closed)
    BY <1>1, <1>2, <1>3, MoveOn
<1>5. calls \o t \in Seq(Frame)
    BY <1>2, ConcatProperties
<1>6. \E w : Covers(w)' /\ MoveAll(visits', w, Closed)
    BY <1>2, <1>3, <1>4
<1> QED BY <1>2, <1>5, <1>6 DEF CallsType, Fits

LEMMA ReturnFits ==
    ASSUME Shape, NEW f, Calling(f), Return, error' = error, StacksFit',
           \A x, y \in State : Covers(x) /\ Moves(Head(visits), x, y) => Covers(y)'
    PROVE  CallsType' /\ Fits'
<1>1. PICK x, y \in State : Covers(x) /\ Moves(Head(visits), x, y) /\ MoveAll(Tail(visits), y, Closed)
    BY CallOf
<1>2. Tail(visits) \in Seq(Frame) /\ error' = "none" /\ visits' = Tail(visits)
    BY CallOf DEF Return
<1>3. Covers(y)'
    BY <1>1
<1>4. \E w : Covers(w)' /\ MoveAll(visits', w, Closed)
    BY <1>1, <1>2, <1>3
<1> QED BY <1>2, <1>4 DEF CallsType, Fits

LEMMA ThrowShape ==
    ASSUME Shape, NEW node \in {Thrown, Crashed}, Throw(node)
    PROVE  Shape'
<1>1. error' \in {"thrown", "crashed"} /\ visits' = <<>>
    BY DEF Throw, Thrown, Crashed
<1>2. UNCHANGED <<nameVars, odgVars, activeVars, groupVars, optVars>>
    BY DEF Throw
<1>3. NamesType' /\ OdgType' /\ StacksType'
    BY <1>2 DEF Shape, GraphType, NamesType, OdgType, StacksType, nameVars, odgVars, activeVars, groupVars,
                optVars, Vertex, Edge
<1>4. CallsType' /\ Fits'
    <2>1. StacksFit'
        BY <1>2 DEF Shape, Fits, StacksFit, groupVars, optVars
    <2>2. error' # "none" /\ visits' \in Seq(Frame)
        BY <1>1, EmptySeq
    <2> QED BY <1>1, <2>1, <2>2 DEF CallsType, Fits
<1> QED BY <1>3, <1>4 DEF Shape, GraphType

-----------------------------------------------------------------------------
(* Calls of their own kind.                                                 *)

LEMMA SameStacks ==
    ASSUME Shape, UNCHANGED <<groupVars, optVars>>, operands' = operands
    PROVE  StacksType' /\ StacksFit' /\ \A x : Covers(x) => Covers(x)'
<1>1. UNCHANGED <<group_patterns, opt_operands, union_operands, triples_blocks, optional_blocks>>
    BY DEF groupVars, optVars
<1>2. StacksType' /\ StacksFit'
    BY <1>1 DEF Shape, Fits, StacksFit, GraphType, StacksType, Vertex
<1>3. ASSUME NEW x, Covers(x) PROVE Covers(x)'
    BY <1>1, <1>3 DEF Covers, BlocksAt
<1> QED BY <1>2, <1>3

LEMMA SameData ==
    ASSUME Shape, UNCHANGED <<nameVars, odgVars, activeVars>>
    PROVE  NamesType' /\ OdgType' /\ operands' = operands
BY DEF Shape, GraphType, NamesType, OdgType, nameVars, odgVars, activeVars, Vertex, Edge

LEMMA CoversLower ==
    ASSUME StacksType, StacksFit, NEW x, Covers(x), NEW y \in State, y.conj = x.conj, Lower(y.open, x.open)
    PROVE  Covers(y)
<1>1. ASSUME NEW l \in 1..Len(group_patterns) PROVE Below(y.open[l], BlocksAt(l))
    <2>1. x.open[l] \in Counts /\ y.open[l] \in Counts
        <3>1. x.open \in Seq(Counts) /\ y.open \in Seq(Counts)
            BY DEF Covers, State
        <3>2. l \in 1..Len(x.open) /\ l \in 1..Len(y.open)
            BY DEF Covers, Lower
        <3> QED BY <3>1, <3>2, ElementOfSeq
    <2>2. BlocksAt(l) \in Counts
        <3>1. triples_blocks[l] \in Seq(Blocks) /\ optional_blocks[l] \in Seq(Group)
            BY ElementOfSeq DEF StacksType, StacksFit
        <3> QED BY <3>1, LenProperties DEF BlocksAt, Counts
    <2>3. Below(y.open[l], x.open[l]) /\ Below(x.open[l], BlocksAt(l))
        BY DEF Covers, Lower
    <2> QED BY <2>1, <2>2, <2>3, BelowFacts
<1> QED BY <1>1 DEF Covers, Lower

\* What a call of these kinds leaves is there when it begins.
LEMMA LevelMoves ==
    ASSUME Shape, NEW f \in Inside \cup Outside, Calling(f),
           NEW x \in State, NEW y \in State, Covers(x), Moves(Head(visits), x, y)
    PROVE  /\ Covers(y)
           /\ f \in Inside => Len(y.open) = y.conj + 1
           /\ f \in Outside => y = Closed
<1>1. Head(visits).visit = f /\ StacksType /\ StacksFit
    BY CallOf DEF Shape, GraphType, Fits
<1>2. CASE f \in Outside
    BY <1>1, <1>2 DEF Moves, Inside, Outside
<1>3. CASE f \in Inside
    <2>1. Len(x.open) = x.conj + 1 /\ y.conj = x.conj /\ Lower(y.open, x.open)
        BY <1>1, <1>3 DEF Moves, Inside, Outside
    <2>2. Covers(y)
        BY <1>1, <2>1, CoversLower
    <2> QED BY <1>3, <2>1, <2>2 DEF Lower, Inside, Outside
<1> QED BY <1>2, <1>3

\* A call inside of a group has one, and the conjunctions are those around it.
LEMMA GroupIsOpen ==
    ASSUME Shape, NEW f \in Inside, Calling(f)
    PROVE  /\ Len(group_patterns) = Len(opt_operands) + 1
           /\ group_patterns # <<>> /\ triples_blocks # <<>> /\ optional_blocks # <<>>
<1>1. Head(visits).visit = f /\ StacksType /\ StacksFit
    BY CallOf DEF Shape, GraphType, Fits
<1>2. PICK x, y \in State : Covers(x) /\ Moves(Head(visits), x, y)
    BY CallOf
<1>3. Len(x.open) = x.conj + 1
    BY <1>1, <1>2 DEF Moves, Inside, Outside
<1>4. Len(group_patterns) = Len(opt_operands) + 1 /\ Len(opt_operands) \in Nat
    BY <1>1, <1>2, <1>3, Lengths DEF Covers
<1> QED BY <1>1, <1>4, EmptySeq DEF StacksFit

LEMMA LevelFits ==
    ASSUME Shape, NEW f \in Inside \cup Outside, Calling(f),
           NEW calls \in Seq(Frame), Do(calls),
           \A i \in 1..Len(calls) : calls[i].visit \in Inside <=> f \in Inside,
           \A i \in 1..Len(calls) : calls[i].visit \in (Inside \cup Outside) \ {"resize"},
           error' = error, StacksFit', \A x : Covers(x) => Covers(x)'
    PROVE  CallsType' /\ Fits'
<1>1. ASSUME NEW x \in State, NEW y \in State, Covers(x), Moves(Head(visits), x, y)
      PROVE  Covers(y)' /\ MoveAll(calls, y, y)
    <2>1. Covers(y) /\ (f \in Inside => Len(y.open) = y.conj + 1) /\ (f \in Outside => y = Closed)
        BY <1>1, LevelMoves
    <2>2. Lower(y.open, y.open)
        BY LowerFacts DEF State
    <2>3. ASSUME NEW i \in 1..Len(calls) PROVE Moves(calls[i], y, y)
        BY <2>1, <2>2 DEF Moves, Inside, Outside
    <2>4. MoveAll(calls, y, y)
        BY <2>3, MoveLevel
    <2> QED BY <2>1, <2>4
<1> QED BY <1>1, DoFits

LEMMA LevelReturns ==
    ASSUME Shape, NEW f \in Inside \cup Outside, Calling(f), Return, error' = error, StacksFit',
           \A x : Covers(x) => Covers(x)'
    PROVE  CallsType' /\ Fits'
<1>1. ASSUME NEW x \in State, NEW y \in State, Covers(x), Moves(Head(visits), x, y) PROVE Covers(y)'
    BY <1>1, LevelMoves
<1> QED BY <1>1, ReturnFits

\* Calls that do nothing but call others of their kind, or nothing at all.
LEMMA OthersAreCalled ==
    ASSUME Shape, NEW f \in Inside \cup Outside, Calling(f),
           NEW calls \in Seq(Frame), Do(calls),
           \A i \in 1..Len(calls) : calls[i].visit \in Inside <=> f \in Inside,
           \A i \in 1..Len(calls) : calls[i].visit \in (Inside \cup Outside) \ {"resize"},
           UNCHANGED <<nameVars, odgVars, activeVars, groupVars, optVars, error>>
    PROVE  Shape'
<1>1. NamesType' /\ OdgType' /\ operands' = operands
    BY SameData
<1>2. StacksType' /\ StacksFit' /\ \A x : Covers(x) => Covers(x)'
    BY <1>1, SameStacks
<1>3. error' = error
    OBVIOUS
<1>4. CallsType' /\ Fits'
    BY <1>2, <1>3, LevelFits
<1> QED BY <1>1, <1>2, <1>4 DEF Shape, GraphType

LEMMA NothingIsCalled ==
    ASSUME Shape, NEW f \in Inside \cup Outside, Calling(f), Return,
           UNCHANGED <<groupVars, optVars, error>>, NamesType', OdgType', operands' = operands
    PROVE  Shape'
<1>1. StacksType' /\ StacksFit' /\ \A x : Covers(x) => Covers(x)'
    BY SameStacks
<1>2. error' = error
    OBVIOUS
<1>3. CallsType' /\ Fits'
    BY <1>1, <1>2, LevelReturns
<1> QED BY <1>1, <1>3 DEF Shape, GraphType

-----------------------------------------------------------------------------
(* The prologue and the triples.                                            *)

LEMMA PrologueShape == ASSUME Shape, visitPrologue PROVE Shape'
<1>1. Calling("prefix") /\ Return /\ prefixes' = visitPrefixDecl(prefixes, Arg)
      /\ UNCHANGED <<projected_variables, var_to_id, odgVars, activeVars, groupVars, optVars, error>>
    BY DEF visitPrologue
<1>2. visitPrefixDecl(prefixes, Arg) \in PrefixMaps
    <2>1. Arg.prefix \in STRING /\ Arg.namespace \in Seq(STRING)
        BY <1>1, ArgType DEF Declaration
    <2>2. PICK S \in SUBSET STRING : prefixes \in [S -> Seq(STRING)]
        BY DEF Shape, GraphType, NamesType, PrefixMaps
    <2> DEFINE T == {Arg.prefix} \cup S
               f == visitPrefixDecl(prefixes, Arg)
    <2>3. f \in [T -> Seq(STRING)]
        BY <2>1, <2>2 DEF visitPrefixDecl
    <2>4. T \in SUBSET STRING
        BY <2>1
    <2> HIDE DEF T, f
    <2>5. f \in PrefixMaps
        BY <2>3, <2>4 DEF PrefixMaps
    <2> QED BY <2>5 DEF f
<1>3. NamesType' /\ OdgType' /\ operands' = operands
    BY <1>1, <1>2 DEF Shape, GraphType, NamesType, OdgType, odgVars, activeVars, Vertex, Edge
<1> QED BY <1>1, <1>3, NothingIsCalled DEF Outside

LEMMA TriplesBlockShape == ASSUME Shape, visitTriplesBlock PROVE Shape'
<1>1. Calling("block") /\ Do(Calls("subject", Arg.tss))
      /\ UNCHANGED <<nameVars, odgVars, activeVars, groupVars, optVars, error>>
    BY DEF visitTriplesBlock
<1>2. Arg.tss \in Seq(SameSubject)
    BY <1>1, ArgType DEF Blocks
<1>3. \A x \in SameSubject : Call("subject", x) \in Frame
    BY DEF Call, Frame
<1>4. /\ Calls("subject", Arg.tss) \in Seq(Frame)
      /\ \A i \in 1..Len(Calls("subject", Arg.tss)) : Calls("subject", Arg.tss)[i].visit = "subject"
    BY <1>2, <1>3, CallsAreFrames
<1> QED BY <1>1, <1>4, OthersAreCalled DEF Inside

LEMMA TriplesNodeShape == ASSUME Shape, visitTriplesNode PROVE Shape'
<1>1. Calling("subject") /\ Return
      /\ UNCHANGED <<nameVars, odgVars, activeVars, groupVars, optVars, error>>
    BY DEF visitTriplesNode
<1>2. NamesType' /\ OdgType' /\ operands' = operands
    BY <1>1, SameData
<1> QED BY <1>1, <1>2, NothingIsCalled DEF Inside

LEMMA PropertyListShape == ASSUME Shape, visitPropertyListPath PROVE Shape'
<1>1. Calling("property") /\ Do(<<Call("verb", Arg.verb)>> \o Calls("object", Arg.objects))
      /\ UNCHANGED <<nameVars, odgVars, activeVars, groupVars, optVars, error>>
    BY DEF visitPropertyListPath
<1>2. Arg.verb \in Verb /\ Arg.objects \in Seq(Term)
    BY <1>1, ArgType DEF Properties
<1> DEFINE s == <<Call("verb", Arg.verb)>>
           t == Calls("object", Arg.objects)
<1>3. s \in Seq(Frame) /\ Len(s) = 1 /\ s[1].visit = "verb"
    <2>1. Call("verb", Arg.verb) \in Frame
        BY <1>2 DEF Call, Frame
    <2> QED BY <2>1, OneCall
<1>4. t \in Seq(Frame) /\ \A i \in 1..Len(t) : t[i].visit = "object"
    <2>1. \A x \in Term : Call("object", x) \in Frame
        BY DEF Call, Frame
    <2> QED BY <1>2, <2>1, CallsAreFrames
<1> HIDE DEF s, t
<1>5. s \o t \in Seq(Frame) /\ \A i \in 1..Len(s \o t) : (s \o t)[i].visit \in {"verb", "object"}
    BY <1>3, <1>4, ConcatProperties
<1> QED BY <1>1, <1>5, OthersAreCalled DEF Inside, s, t

LEMMA PathShape == ASSUME Shape, visitPath PROVE Shape'
<1>1. Calling("verb") /\ IsNested(Arg) /\ Do(<<Call("verb", Primary(Arg[2]))>>)
      /\ UNCHANGED <<nameVars, odgVars, activeVars, groupVars, optVars, error>>
    BY DEF visitPath
<1>2. Arg \in Verb /\ prefixes \in PrefixMaps
    BY <1>1, ArgType DEF Shape, GraphType, NamesType
<1>3. Primary(Arg[2]) \in Verb
    BY <1>1, <1>2, VerbType
<1> DEFINE s == <<Call("verb", Primary(Arg[2]))>>
<1>4. s \in Seq(Frame) /\ Len(s) = 1 /\ s[1].visit = "verb"
    <2>1. Call("verb", Primary(Arg[2])) \in Frame
        BY <1>3 DEF Call, Frame
    <2> QED BY <2>1, OneCall
<1>5. Do(s)
    BY <1>1
<1> HIDE DEF s
<1>6. \A i \in 1..Len(s) : s[i].visit = "verb"
    BY <1>4
<1> QED BY <1>1, <1>4, <1>5, <1>6, OthersAreCalled DEF Inside

-----------------------------------------------------------------------------
(* Variables and their IDs.                                                 *)

TriplePattern == Node \X Node \X Node

LEMMA NotFailed == ASSUME NEW node \in Visited, ~Failed(node) PROVE node \in Node
BY DEF Visited, Failed

LEMMA RegisteredType ==
    ASSUME NamesType, NEW node \in Node
    PROVE  /\ Registered(node) \in Seq(Node)
           /\ Range(Registered(node)) = Range(var_to_id) \cup (IF IsVar(node) THEN {node} ELSE {})
<1>1. var_to_id \in Seq(Node)
    BY DEF NamesType
<1>2. CASE IsVar(node) /\ node \notin Range(var_to_id)
    BY <1>1, <1>2, AppendProperties, RangeAppend DEF Registered
<1>3. CASE ~(IsVar(node) /\ node \notin Range(var_to_id))
    BY <1>1, <1>3 DEF Registered
<1> QED BY <1>2, <1>3

LEMMA VariablesRange ==
    ASSUME NEW tp \in TriplePattern
    PROVE  /\ Variables(tp) \in Seq(Node)
           /\ \A v : v \in Range(Variables(tp)) <=> \E i \in 1..3 : v = tp[i] /\ IsVar(tp[i])
<1> DEFINE s == <<1, 2, 3>>
           T == {i \in 1..3 : IsVar(tp[i])}
           w == VarPlaces(tp)
<1>1. s \in Seq(1..3) /\ Range(s) = 1..3
    <2>1. s \in Seq(1..3)
        OBVIOUS
    <2>2. Range(s) = {s[1], s[2], s[3]}
        BY DEF Range
    <2> QED BY <2>1, <2>2
<1>2. w = Within(s, T)
    BY DEF VarPlaces
<1> HIDE DEF s, w
<1>3. w \in Seq(1..3 \cap T) /\ Range(w) = 1..3 \cap T
    BY <1>1, <1>2, WithinProperties
<1>4. \A i \in 1..3 : tp[i] \in Node
    BY DEF TriplePattern
<1>5. /\ Len(w) \in Nat /\ DOMAIN w = 1..Len(w) /\ \A k \in 1..Len(w) : w[k] \in T
      /\ Range(w) = {w[k] : k \in 1..Len(w)}
    BY <1>3, LenProperties, RangeEquality
<1> DEFINE f == [k \in 1..Len(w) |-> tp[w[k]]]
<1>6. Variables(tp) = f
    BY <1>5 DEF Variables, w
<1>7. f \in [1..Len(w) -> Node]
    BY <1>4, <1>5
<1>8. f \in Seq(Node)
    BY <1>5, <1>7, FunctionIsSeq
<1>9. ASSUME NEW v PROVE v \in Range(f) <=> \E i \in 1..3 : v = tp[i] /\ IsVar(tp[i])
    <2>1. v \in Range(f) <=> \E k \in 1..Len(w) : v = tp[w[k]]
        BY DEF Range
    <2>2. \A i : i \in 1..3 /\ IsVar(tp[i]) <=> \E k \in 1..Len(w) : i = w[k]
        BY <1>3, <1>5
    <2> QED BY <2>1, <2>2
<1> HIDE DEF f
<1> QED BY <1>6, <1>8, <1>9

LEMMA LetterRange == ASSUME NEW n \in Nat PROVE (n % Letters) + 1 \in 1..Letters
BY LettersAssumption

LEMMA IdOfType ==
    ASSUME NEW S, NEW variables \in Seq(S), NEW v
    PROVE  /\ IdOf(variables, v) \in Label
           /\ v \in Range(variables) => IdOf(variables, v) \in 1..Letters
<1>1. CASE v \in Range(variables)
    <2> DEFINE j == CHOOSE i \in DOMAIN variables : variables[i] = v
    <2>1. j \in 1..Len(variables) /\ Len(variables) \in Nat
        BY <1>1, LenProperties DEF Range
    <2>2. IdOf(variables, v) = ((j - 1) % Letters) + 1
        BY <1>1 DEF IdOf
    <2> HIDE DEF j
    <2>3. j - 1 \in Nat
        BY <2>1
    <2>4. IdOf(variables, v) \in 1..Letters
        BY <2>2, <2>3, LetterRange
    <2> QED BY <2>4, LettersAssumption DEF Label
<1>2. CASE v \notin Range(variables)
    BY <1>2, LettersAssumption DEF IdOf, Label
<1> QED BY <1>1, <1>2

LEMMA IdsType ==
    ASSUME NEW S, NEW variables \in Seq(S), NEW tp \in TriplePattern
    PROVE  /\ Ids(variables, tp) \in Seq(Label) /\ Len(Ids(variables, tp)) = Len(Variables(tp))
           /\ \A k \in 1..Len(Variables(tp)) : Ids(variables, tp)[k] = IdOf(variables, Variables(tp)[k])
<1> DEFINE w == Variables(tp)
           f == [k \in 1..Len(w) |-> IdOf(variables, w[k])]
<1>1. Len(w) \in Nat /\ DOMAIN w = 1..Len(w)
    BY VariablesRange, LenProperties
<1>2. Ids(variables, tp) = f
    BY <1>1 DEF Ids
<1> HIDE DEF w
<1>3. f \in [1..Len(w) -> Label]
    BY IdOfType
<1>4. \A k \in 1..Len(w) : f[k] = IdOf(variables, w[k])
    OBVIOUS
<1> HIDE DEF f
<1> QED BY <1>1, <1>2, <1>3, <1>4, FunctionIsSeq DEF w

LEMMA SubjectShape == ASSUME Shape, visitTriplesSameSubjectPath PROVE Shape'
<1> DEFINE node == visitVarOrTerm(prefixes, Arg.subject)
<1>1. Calling("subject") /\ Arg \in SameSubject
    BY ArgType DEF visitTriplesSameSubjectPath
<1>2. node \in Visited
    BY <1>1, TermType DEF SameSubject, Shape, GraphType, NamesType
<1>3. CASE Failed(node)
    <2>1. Throw(node)
        BY <1>3 DEF visitTriplesSameSubjectPath
    <2>2. node \in {Thrown, Crashed}
        BY <1>3 DEF Failed
    <2> QED BY <2>1, <2>2, ThrowShape
<1>4. CASE ~Failed(node)
    <2>1. /\ active_subject' = node /\ register_var(node) /\ Do(Calls("property", Arg.properties))
          /\ UNCHANGED <<prefixes, projected_variables, odgVars, active_predicate, groupVars, optVars, error>>
        BY <1>4 DEF visitTriplesSameSubjectPath
    <2>2. node \in Node
        BY <1>2, <1>4, NotFailed
    <2> HIDE DEF node
    <2>3. NamesType'
        BY <2>1, <2>2, RegisteredType DEF register_var, Shape, GraphType, NamesType
    <2>4. OdgType' /\ operands' = operands
        BY <2>1 DEF odgVars, Shape, GraphType, OdgType, Vertex, Edge
    <2>5. StacksType' /\ StacksFit' /\ \A x : Covers(x) => Covers(x)'
        BY <2>1, <2>4, SameStacks
    <2> DEFINE calls == Calls("property", Arg.properties)
    <2>6. calls \in Seq(Frame) /\ \A k \in 1..Len(calls) : calls[k].visit = "property"
        <3>1. \A x \in Properties : Call("property", x) \in Frame
            BY DEF Call, Frame
        <3>2. Arg.properties \in Seq(Properties)
            BY <1>1 DEF SameSubject
        <3> QED BY <3>1, <3>2, CallsAreFrames
    <2>7. Do(calls)
        BY <2>1
    <2> HIDE DEF calls
    <2>8. CallsType' /\ Fits'
        BY <1>1, <2>1, <2>5, <2>6, <2>7, LevelFits DEF Inside
    <2> QED BY <2>3, <2>4, <2>5, <2>8 DEF Shape, GraphType
<1> QED BY <1>3, <1>4

LEMMA VerbShape == ASSUME Shape, visitVerbPath PROVE Shape'
<1> DEFINE node == visitVerb(prefixes, Arg)
<1>1. Calling("verb") /\ Arg \in Verb /\ ~IsNested(Arg)
    BY ArgType DEF visitVerbPath
<1>2. node \in Visited
    BY <1>1, VerbType DEF Shape, GraphType, NamesType
<1>3. CASE Failed(node)
    <2>1. Throw(node)
        BY <1>3 DEF visitVerbPath
    <2>2. node \in {Thrown, Crashed}
        BY <1>3 DEF Failed
    <2> QED BY <2>1, <2>2, ThrowShape
<1>4. CASE ~Failed(node)
    <2>1. /\ active_predicate' = node /\ register_var(node) /\ Return
          /\ UNCHANGED <<prefixes, projected_variables, odgVars, active_subject, groupVars, optVars, error>>
        BY <1>4 DEF visitVerbPath
    <2>2. node \in Node
        BY <1>2, <1>4, NotFailed
    <2> HIDE DEF node
    <2>3. NamesType'
        BY <2>1, <2>2, RegisteredType DEF register_var, Shape, GraphType, NamesType
    <2>4. OdgType' /\ operands' = operands
        BY <2>1 DEF odgVars, Shape, GraphType, OdgType, Vertex, Edge
    <2> QED BY <1>1, <2>1, <2>3, <2>4, NothingIsCalled DEF Inside
<1> QED BY <1>3, <1>4

-----------------------------------------------------------------------------
(* A new operand.                                                           *)

\* The edges that add_tp(tp) adds.
JoinsOf(v, ids) ==
    LET gp == Reverse(Top(group_patterns))
    IN  FlattenSeq([k \in DOMAIN gp |-> JoinEdges(gp[k], v, operands[gp[k]], ids)])

LEMMA JoinsRange ==
    ASSUME OdgType, StacksType, group_patterns # <<>>, NEW ids \in Seq(Label)
    PROVE  LET v == Len(operands) + 1
               V == 1..v
           IN  /\ JoinsOf(v, ids) \in Seq(V \X V \X Label)
               /\ \A e : e \in Range(JoinsOf(v, ids)) <=>
                         \E a \in Range(Top(group_patterns)) : \E l \in Labels(operands[a], ids) :
                             e = <<a, v, l>> \/ e = <<v, a, l>>
<1> DEFINE v == Len(operands) + 1
           E == (1..v) \X (1..v) \X Label
           gp == Reverse(Top(group_patterns))
           f == [k \in DOMAIN gp |-> JoinEdges(gp[k], v, operands[gp[k]], ids)]
<1>1. Top(group_patterns) \in Seq(Vertex)
    BY TopProperties DEF StacksType
<1>2. gp \in Seq(Vertex) /\ Range(gp) = Range(Top(group_patterns))
    BY <1>1, ReverseProperties
<1>3. JoinsOf(v, ids) = FlattenSeq(f)
    BY DEF JoinsOf
<1> HIDE DEF gp
<1>4. /\ Len(gp) \in Nat /\ DOMAIN gp = 1..Len(gp) /\ Range(gp) = {gp[k] : k \in 1..Len(gp)}
      /\ \A k \in 1..Len(gp) : gp[k] \in Vertex
    BY <1>2, LenProperties, RangeEquality
<1>5. Len(operands) \in Nat /\ v \in Nat /\ v \in 1..v /\ Vertex \subseteq 1..v
    BY LenProperties DEF OdgType, Vertex
<1> HIDE DEF v
<1>6. ASSUME NEW k \in 1..Len(gp)
      PROVE  /\ f[k] \in Seq(E)
             /\ \A e : e \in Range(f[k]) <=> \E l \in Labels(operands[gp[k]], ids) :
                                                  e = <<gp[k], v, l>> \/ e = <<v, gp[k], l>>
    <2> DEFINE a == gp[k]
    <2>1. a \in Vertex /\ f[k] = JoinEdges(a, v, operands[a], ids)
        BY <1>4
    <2> HIDE DEF a, f
    <2>2. operands[a] \in Seq(Label)
        BY <2>1, ElementOfSeq DEF OdgType, Vertex
    <2> DEFINE F == BothWays(a, v, Labels(operands[a], ids))
    <2>3. JoinEdges(a, v, operands[a], ids) \in Seq(F) /\ Range(JoinEdges(a, v, operands[a], ids)) = F
        BY <2>2, JoinEdgesRange
    <2>4. F \subseteq E
        <3> DEFINE L == Labels(operands[a], ids)
        <3>1. L \subseteq Label
            BY <2>2, LabelsType
        <3>2. a \in 1..v /\ v \in 1..v
            BY <1>5, <2>1
        <3>3. \A l \in L : <<a, v, l>> \in E /\ <<v, a, l>> \in E
            <4> HIDE DEF L
            <4> QED BY <3>1, <3>2
        <3>4. F = {<<a, v, l>> : l \in L} \cup {<<v, a, l>> : l \in L}
            BY DEF BothWays, EdgesOf
        <3> HIDE DEF F, L, E
        <3> QED BY <3>3, <3>4
    <2>5. f[k] \in Seq(E)
        BY <2>1, <2>3, <2>4, SeqMonotonic
    <2>6. \A e : e \in Range(f[k]) <=> \E l \in Labels(operands[a], ids) : e = <<a, v, l>> \/ e = <<v, a, l>>
        BY <2>1, <2>3 DEF BothWays, EdgesOf
    <2> QED BY <2>5, <2>6 DEF a
<1>7. f \in [1..Len(gp) -> Seq(E)]
    BY <1>4, <1>6
<1> HIDE DEF f, E
<1>8. f \in Seq(Seq(E)) /\ Len(f) = Len(gp)
    BY <1>4, <1>7, FunctionIsSeq
<1>9. FlattenSeq(f) \in Seq(E) /\ Range(FlattenSeq(f)) = UNION {Range(f[k]) : k \in 1..Len(gp)}
    BY <1>8, FlattenSeqType, FlattenSeqRange
<1>10. ASSUME NEW e
       PROVE  e \in Range(FlattenSeq(f)) <=> \E a \in Range(Top(group_patterns)) :
                  \E l \in Labels(operands[a], ids) : e = <<a, v, l>> \/ e = <<v, a, l>>
    <2> DEFINE Joins(a) == \E l \in Labels(operands[a], ids) : e = <<a, v, l>> \/ e = <<v, a, l>>
    <2>1. e \in Range(FlattenSeq(f)) <=> \E k \in 1..Len(gp) : e \in Range(f[k])
        BY <1>9
    <2>2. \A k \in 1..Len(gp) : e \in Range(f[k]) <=> Joins(gp[k])
        BY <1>6
    <2> HIDE DEF Joins
    <2>3. e \in Range(FlattenSeq(f)) <=> \E a \in Range(Top(group_patterns)) : Joins(a)
        BY <1>2, <1>4, <2>1, <2>2
    <2> QED BY <2>3 DEF Joins
<1> QED BY <1>3, <1>9, <1>10 DEF v, E

\* What an object does.
LEMMA ObjectStep ==
    ASSUME Shape, visitObject, error' # "thrown", error' # "crashed"
    PROVE  \E node \in Node :
             LET tp == <<active_subject, active_predicate, node>>
                 ids == Ids(var_to_id', tp)
                 v   == Len(operands) + 1
             IN  /\ Return /\ error' = error
                 /\ tp \in TriplePattern /\ var_to_id' = Registered(node) /\ ids \in Seq(Label)
                 /\ triple_patterns' = Append(triple_patterns, tp)
                 /\ operands' = Append(operands, ids)
                 /\ dependencies' = dependencies \o JoinsOf(v, ids)
                 /\ group_patterns # <<>>
                 /\ group_patterns' = AddTop(group_patterns, <<v>>)
                 /\ UNCHANGED <<prefixes, projected_variables, connections, activeVars,
                               triples_blocks, optional_blocks, optVars>>
<1> DEFINE node == visitVarOrTerm(prefixes, Arg)
<1>1. Calling("object") /\ Arg \in Term
    BY ArgType DEF visitObject
<1>2. node \in Visited
    BY <1>1, TermType DEF Shape, GraphType, NamesType
<1>3. ~Failed(node)
    <2> SUFFICES ASSUME Failed(node) PROVE FALSE
        OBVIOUS
    <2>1. error' = node[1]
        BY DEF visitObject, Throw
    <2> QED BY <2>1 DEF Failed, Thrown, Crashed
<1>4. node \in Node
    BY <1>2, <1>3, NotFailed
<1>5. /\ AddObject(node) /\ Return
      /\ UNCHANGED <<prefixes, projected_variables, connections, activeVars, triples_blocks, optional_blocks,
                    optVars, error>>
    BY <1>3 DEF visitObject
<1> HIDE DEF node
<1> DEFINE tp == <<active_subject, active_predicate, node>>
           ids == Ids(var_to_id', tp)
           v   == Len(operands) + 1
<1>6. tp \in TriplePattern
    BY <1>4 DEF TriplePattern, Shape, GraphType, NamesType
<1>7. var_to_id' = Registered(node) /\ add_tp(tp)
    BY <1>5 DEF AddObject, register_var
<1>8. ids \in Seq(Label)
    BY <1>4, <1>6, <1>7, RegisteredType, IdsType DEF Shape, GraphType
<1>9. /\ triple_patterns' = Append(triple_patterns, tp)
      /\ operands' = Append(operands, ids)
      /\ dependencies' = dependencies \o JoinsOf(v, ids)
      /\ group_patterns' = AddTop(group_patterns, <<v>>)
    BY <1>7 DEF add_tp, JoinsOf
<1>10. group_patterns # <<>>
    BY <1>1, GroupIsOpen DEF Inside
<1> QED BY <1>4, <1>5, <1>6, <1>7, <1>8, <1>9, <1>10

\* The sequences of operands and of edges stay what they are when there is
\* one operand more.
LEMMA MoreVertices ==
    ASSUME Vertex \subseteq Vertex'
    PROVE  /\ Seq(Vertex) \subseteq Seq(Vertex') /\ Seq(Edge) \subseteq Seq(Edge')
           /\ Seq(Vertex \X Vertex) \subseteq Seq(Vertex' \X Vertex')
           /\ Seq(Seq(Vertex)) \subseteq Seq(Seq(Vertex'))
<1>1. Edge \subseteq Edge' /\ Vertex \X Vertex \subseteq Vertex' \X Vertex'
    BY DEF Edge, Label
<1>2. Seq(Vertex) \subseteq Seq(Vertex')
    BY SeqMonotonic
<1>3. Seq(Edge) \subseteq Seq(Edge')
    BY <1>1, SeqMonotonic
<1>4. Seq(Vertex \X Vertex) \subseteq Seq(Vertex' \X Vertex')
    BY <1>1, SeqMonotonic
<1>5. Seq(Seq(Vertex)) \subseteq Seq(Seq(Vertex'))
    BY <1>2, SeqMonotonic
<1> QED BY <1>2, <1>3, <1>4, <1>5

LEMMA AddTopProperties ==
    ASSUME NEW S, NEW s \in Seq(Seq(S)), s # <<>>, NEW x \in Seq(S)
    PROVE  /\ AddTop(s, x) \in Seq(Seq(S)) /\ AddTop(s, x) # <<>> /\ Len(AddTop(s, x)) = Len(s)
           /\ Range(AddTop(s, x)[Len(s)]) = Range(Top(s)) \cup Range(x)
           /\ \A i \in 1..(Len(s) - 1) : AddTop(s, x)[i] = s[i]
<1>1. Top(s) \in Seq(S)
    BY TopProperties
<1> DEFINE u == Top(s) \o x
<1>2. u \in Seq(S) /\ Range(u) = Range(Top(s)) \cup Range(x)
    BY <1>1, ConcatProperties, RangeConcatenation
<1> HIDE DEF u
<1>3. AddTop(s, x) = SetTop(s, u)
    BY DEF AddTop, u
<1> DEFINE T == Seq(S)
<1>4. s \in Seq(T) /\ u \in T
    BY <1>2
<1> HIDE DEF T
<1>5. /\ SetTop(s, u) \in Seq(T) /\ SetTop(s, u) # <<>> /\ Len(SetTop(s, u)) = Len(s)
      /\ SetTop(s, u)[Len(s)] = u /\ \A i \in 1..(Len(s) - 1) : SetTop(s, u)[i] = s[i]
    BY <1>4, SetTopProperties
<1> QED BY <1>2, <1>3, <1>5 DEF T

LEMMA AddTopLength ==
    ASSUME NEW S, NEW s \in Seq(Seq(S)), s # <<>>, NEW x \in Seq(S)
    PROVE  Len(AddTop(s, x)[Len(s)]) \in Nat /\ Len(s[Len(s)]) <= Len(AddTop(s, x)[Len(s)])
<1>1. Top(s) \in Seq(S) /\ Top(s) = s[Len(s)]
    BY TopProperties
<1> DEFINE u == Top(s) \o x
<1>2. u \in Seq(S) /\ Len(u) = Len(Top(s)) + Len(x)
    BY <1>1, ConcatProperties
<1> HIDE DEF u
<1>3. AddTop(s, x) = SetTop(s, u)
    BY DEF AddTop, u
<1> DEFINE T == Seq(S)
<1>4. s \in Seq(T) /\ u \in T
    BY <1>2
<1> HIDE DEF T
<1>5. SetTop(s, u)[Len(s)] = u
    BY <1>4, SetTopProperties
<1> QED BY <1>1, <1>2, <1>3, <1>5, LenProperties

LEMMA ObjectShape == ASSUME Shape, visitObject PROVE Shape'
<1>1. CASE error' \in {"thrown", "crashed"}
    <2> DEFINE node == visitVarOrTerm(prefixes, Arg)
    <2>1. Calling("object")
        BY DEF visitObject
    <2>2. Failed(node)
        <3>1. error = "none"
            BY <2>1, CallOf
        <3> QED BY <1>1, <3>1 DEF visitObject
    <2>3. Throw(node) /\ node \in {Thrown, Crashed}
        BY <2>2 DEF visitObject, Failed
    <2> QED BY <2>3, ThrowShape
<1>2. CASE error' \notin {"thrown", "crashed"}
    <2> DEFINE v == Len(operands) + 1
    <2>1. PICK node \in Node :
             LET tp == <<active_subject, active_predicate, node>>
                 ids == Ids(var_to_id', tp)
             IN  /\ Return /\ error' = error
                 /\ tp \in TriplePattern /\ var_to_id' = Registered(node) /\ ids \in Seq(Label)
                 /\ triple_patterns' = Append(triple_patterns, tp)
                 /\ operands' = Append(operands, ids)
                 /\ dependencies' = dependencies \o JoinsOf(v, ids)
                 /\ group_patterns # <<>>
                 /\ group_patterns' = AddTop(group_patterns, <<v>>)
                 /\ UNCHANGED <<prefixes, projected_variables, connections, activeVars,
                               triples_blocks, optional_blocks, optVars>>
        BY <1>2, ObjectStep
    <2> DEFINE tp == <<active_subject, active_predicate, node>>
               ids == Ids(var_to_id', tp)
    <2>2. NamesType'
        BY <2>1, RegisteredType DEF Shape, GraphType, NamesType, activeVars
    <2>3. OdgType /\ StacksType
        BY DEF Shape, GraphType
    <2> HIDE DEF tp, ids
    <2>4. tp \in TriplePattern /\ ids \in Seq(Label) /\ triple_patterns' = Append(triple_patterns, tp)
          /\ operands' = Append(operands, ids) /\ dependencies' = dependencies \o JoinsOf(v, ids)
        BY <2>1 DEF tp, ids
    <2>5. /\ operands' \in Seq(Seq(Label)) /\ Len(operands') = v /\ Len(operands) \in Nat
          /\ triple_patterns' \in Seq(TriplePattern)
        BY <2>3, <2>4, AppendProperties, LenProperties DEF OdgType, TriplePattern
    <2>6. Vertex' = 1..v /\ v \in Vertex' /\ Vertex \subseteq Vertex'
        BY <2>5 DEF Vertex
    <2>7. JoinsOf(v, ids) \in Seq(Edge')
        <3>1. JoinsOf(v, ids) \in Seq((1..v) \X (1..v) \X Label)
            BY <2>1, <2>3, <2>4, JoinsRange
        <3>2. Edge' = (1..v) \X (1..v) \X Label
            BY <2>6 DEF Edge, Label
        <3> QED BY <3>1, <3>2
    <2>8. dependencies \in Seq(Edge') /\ connections \in Seq(Vertex' \X Vertex')
        BY <2>3, <2>6, MoreVertices DEF OdgType
    <2>9. dependencies' \in Seq(Edge')
        BY <2>4, <2>7, <2>8, ConcatProperties
    <2>10. OdgType'
        BY <2>1, <2>5, <2>8, <2>9 DEF OdgType, Label, TriplePattern
    <2>11. /\ group_patterns \in Seq(Seq(Vertex')) /\ opt_operands \in Seq(Seq(Vertex'))
           /\ union_operands \in Seq(Seq(Vertex'))
        BY <2>3, <2>6, MoreVertices DEF StacksType
    <2>12. group_patterns' \in Seq(Seq(Vertex')) /\ Len(group_patterns') = Len(group_patterns)
        <3>1. <<v>> \in Seq(Vertex')
            BY <2>6
        <3> QED BY <2>1, <2>11, <3>1, AddTopProperties
    <2>13. StacksType' /\ StacksFit'
        BY <2>1, <2>11, <2>12 DEF Shape, Fits, GraphType, StacksType, StacksFit, optVars
    <2>16. ASSUME NEW x, Covers(x) PROVE Covers(x)'
        BY <2>1, <2>12, <2>16 DEF Covers, BlocksAt, optVars
    <2>14. Calling("object") /\ Return /\ error' = error
        BY <2>1 DEF visitObject
    <2>15. CallsType' /\ Fits'
        BY <2>13, <2>14, <2>16, LevelReturns DEF Inside
    <2> QED BY <2>2, <2>10, <2>13, <2>15 DEF Shape, GraphType
<1> QED BY <1>1, <1>2

-----------------------------------------------------------------------------
(* The clauses.                                                             *)

LEMMA SubSelectShape == ASSUME Shape, visitSubSelect PROVE Shape'
BY ThrowShape DEF visitSubSelect

LEMMA SubqueryShape == ASSUME Shape, visitSubquery PROVE Shape'
BY ThrowShape DEF visitSubquery

LEMMA SelectShape == ASSUME Shape, visitSelectClause PROVE Shape'
<1>1. Calling("select") /\ Arg # All /\ Do(Calls("variable", Arg))
      /\ UNCHANGED <<nameVars, odgVars, activeVars, groupVars, optVars, error>>
    BY DEF visitSelectClause
<1>2. Arg \in Seq(Selection)
    BY <1>1, ArgType
<1>3. \A x \in Selection : Call("variable", x) \in Frame
    BY DEF Call, Frame
<1>4. /\ Calls("variable", Arg) \in Seq(Frame)
      /\ \A i \in 1..Len(Calls("variable", Arg)) : Calls("variable", Arg)[i].visit = "variable"
    BY <1>2, <1>3, CallsAreFrames
<1> QED BY <1>1, <1>4, OthersAreCalled DEF Inside, Outside

LEMMA SelectVariableShape == ASSUME Shape, visitSelectVariable PROVE Shape'
<1>1. Calling("variable") /\ Arg \in Selection
    BY ArgType DEF visitSelectVariable
<1>2. CASE Arg[1] # "var"
    BY <1>2, ThrowShape DEF visitSelectVariable
<1>3. CASE Arg[1] = "var"
    <2> DEFINE node == Var(Arg[2])
    <2>1. /\ register_var(node) /\ projected_variables' = Append(projected_variables, node) /\ Return
          /\ UNCHANGED <<prefixes, odgVars, activeVars, groupVars, optVars, error>>
        BY <1>3 DEF visitSelectVariable
    <2>2. node \in Node
        BY <1>1, <1>3 DEF Selection, Var, Node
    <2> HIDE DEF node
    <2>3. NamesType'
        BY <2>1, <2>2, RegisteredType, AppendProperties
           DEF register_var, Shape, GraphType, NamesType, activeVars
    <2>4. OdgType' /\ operands' = operands
        BY <2>1 DEF odgVars, Shape, GraphType, OdgType, Vertex, Edge
    <2> QED BY <1>1, <2>1, <2>3, <2>4, NothingIsCalled DEF Inside, Outside
<1> QED BY <1>2, <1>3

\* The variables of the triple patterns.
LEMMA MentionedRange ==
    ASSUME OdgType
    PROVE  LET s == FlattenSeq([i \in DOMAIN triple_patterns |-> Variables(triple_patterns[i])])
           IN  /\ s \in Seq(Node)
               /\ \A v : v \in Range(s) <=>
                         \E i \in 1..Len(triple_patterns) : v \in Range(Variables(triple_patterns[i]))
<1> DEFINE tps == triple_patterns
           n == Len(tps)
           f == [i \in DOMAIN tps |-> Variables(tps[i])]
<1>1. n \in Nat /\ DOMAIN tps = 1..n /\ \A i \in 1..n : tps[i] \in TriplePattern
    BY LenProperties, ElementOfSeq DEF OdgType, TriplePattern
<1>2. \A i \in 1..n : Variables(tps[i]) \in Seq(Node)
    BY <1>1, VariablesRange
<1>3. f \in [1..n -> Seq(Node)] /\ \A i \in 1..n : f[i] = Variables(tps[i])
    BY <1>1, <1>2
<1> HIDE DEF f
<1>4. f \in Seq(Seq(Node)) /\ Len(f) = n
    BY <1>1, <1>3, FunctionIsSeq
<1>5. FlattenSeq(f) \in Seq(Node) /\ Range(FlattenSeq(f)) = UNION {Range(f[i]) : i \in 1..n}
    BY <1>4, FlattenSeqType, FlattenSeqRange
<1>6. \A v : v \in Range(FlattenSeq(f)) <=> \E i \in 1..n : v \in Range(Variables(tps[i]))
    BY <1>3, <1>5
<1> QED BY <1>5, <1>6 DEF f

LEMMA FirstsProperties ==
    ASSUME NEW S, NEW s \in Seq(S)
    PROVE  Firsts(s) \in Seq(S) /\ Range(Firsts(s)) \subseteq Range(s)
<1> DEFINE n == Len(s)
           is == [i \in DOMAIN s |-> i]
           T == {i \in DOMAIN s : \A j \in 1..(i - 1) : s[j] # s[i]}
           w == Within(is, T)
<1>1. n \in Nat /\ DOMAIN s = 1..n /\ \A i \in 1..n : s[i] \in S
    BY LenProperties
<1>2. is \in [1..n -> 1..n]
    BY <1>1
<1> HIDE DEF is, n, T
<1>3. is \in Seq(1..n)
    BY <1>1, <1>2, FunctionIsSeq
<1>4. w \in Seq(1..n \cap T)
    BY <1>3, WithinProperties
<1> HIDE DEF w
<1>5. Len(w) \in Nat /\ DOMAIN w = 1..Len(w) /\ \A k \in 1..Len(w) : w[k] \in 1..n
    BY <1>4, LenProperties
<1> DEFINE f == [k \in DOMAIN w |-> s[w[k]]]
<1>6. f \in [1..Len(w) -> S] /\ Range(f) \subseteq Range(s)
    BY <1>1, <1>5 DEF Range
<1>7. Firsts(s) = f
    BY DEF Firsts, w, is, T
<1> HIDE DEF f
<1> QED BY <1>5, <1>6, <1>7, FunctionIsSeq

\* What `*' stands for.
LEMMA AsteriskStep ==
    ASSUME Shape, visitAsterisk, error' = "none"
    PROVE  /\ Return /\ UNCHANGED <<prefixes, var_to_id, odgVars, activeVars, groupVars, optVars, error>>
           /\ projected_variables' \in Seq(Node)
           /\ \A v \in Range(projected_variables') :
                  \E i \in 1..Len(triple_patterns) : v \in Range(Variables(triple_patterns[i]))
<1> DEFINE mentioned == FlattenSeq([i \in DOMAIN triple_patterns |-> Variables(triple_patterns[i])])
           T == {v \in Range(mentioned) : v[1] # "blank"}
           named == Within(Firsts(mentioned), T)
<1>1. /\ mentioned \in Seq(Node)
      /\ \A v : v \in Range(mentioned) <=>
                \E i \in 1..Len(triple_patterns) : v \in Range(Variables(triple_patterns[i]))
    BY MentionedRange DEF Shape, GraphType
<1>2. named # <<>>
    <2> SUFFICES ASSUME named = <<>> PROVE FALSE
        OBVIOUS
    <2>1. Throw(Thrown)
        BY DEF visitAsterisk
    <2> QED BY <2>1 DEF Throw, Thrown
<1>3. /\ projected_variables' = named /\ Return
      /\ UNCHANGED <<prefixes, var_to_id, odgVars, activeVars, groupVars, optVars, error>>
    BY <1>2 DEF visitAsterisk
<1> HIDE DEF mentioned, T
<1>4. Firsts(mentioned) \in Seq(Node) /\ Range(Firsts(mentioned)) \subseteq Range(mentioned)
    BY <1>1, FirstsProperties
<1>5. named \in Seq(Node \cap T) /\ Range(named) = Range(Firsts(mentioned)) \cap T
    BY <1>4, WithinProperties
<1> HIDE DEF named
<1>6. named \in Seq(Node)
    BY <1>5, SeqMonotonic
<1> QED BY <1>1, <1>3, <1>4, <1>5, <1>6

LEMMA AsteriskShape == ASSUME Shape, visitAsterisk PROVE Shape'
<1>1. Calling("select")
    BY DEF visitAsterisk
<1>2. CASE error' # "none"
    <2>1. error = "none"
        BY <1>1, CallOf
    <2>2. Throw(Thrown)
        BY <1>2, <2>1 DEF visitAsterisk
    <2> QED BY <2>2, ThrowShape
<1>3. CASE error' = "none"
    <2>1. /\ Return /\ UNCHANGED <<prefixes, var_to_id, odgVars, activeVars, groupVars, optVars, error>>
          /\ projected_variables' \in Seq(Node)
        BY <1>3, AsteriskStep
    <2>2. NamesType'
        BY <2>1 DEF Shape, GraphType, NamesType, activeVars
    <2>3. OdgType' /\ operands' = operands
        BY <2>1 DEF odgVars, Shape, GraphType, OdgType, Vertex, Edge
    <2> QED BY <1>1, <2>1, <2>2, <2>3, NothingIsCalled DEF Inside, Outside
<1> QED BY <1>2, <1>3

-----------------------------------------------------------------------------
(* Groups.                                                                  *)

LEMMA KindTypes ==
    ASSUME NEW group \in Group
    PROVE  /\ OfKind(group, "block") \in Seq(Blocks) /\ OfKind(group, "union") \in Seq(Unions)
           /\ OptionalGroups(group) \in Seq(Group)
<1> DEFINE T(kind) == {item \in Range(group) : item.kind = kind}
<1>1. group \in Seq(Item)
    BY GrammarAssumption
<1>2. ASSUME NEW kind PROVE OfKind(group, kind) \in Seq(Item \cap T(kind))
    <2> HIDE DEF T
    <2>1. Within(group, T(kind)) \in Seq(Item \cap T(kind))
        BY <1>1, WithinProperties
    <2> QED BY <2>1 DEF OfKind, T
<1>3. Item \cap T("block") \subseteq Blocks
    BY DEF Item, Blocks
<1>4. Item \cap T("union") \subseteq Unions
    BY DEF Item, Unions
<1>5. \A item \in Item \cap T("optional") : item.group \in Group
    BY DEF Item
<1> HIDE DEF T
<1>6. OfKind(group, "block") \in Seq(Blocks) /\ OfKind(group, "union") \in Seq(Unions)
    <2>1. Seq(Item \cap T("block")) \subseteq Seq(Blocks) /\ Seq(Item \cap T("union")) \subseteq Seq(Unions)
        BY <1>3, <1>4, SeqMonotonic
    <2> QED BY <1>2, <2>1
<1>7. OptionalGroups(group) \in Seq(Group)
    <2> DEFINE items == OfKind(group, "optional")
               f == [i \in DOMAIN items |-> items[i].group]
    <2>1. /\ Len(items) \in Nat /\ DOMAIN items = 1..Len(items)
          /\ \A i \in 1..Len(items) : items[i] \in Item \cap T("optional")
        BY <1>2, LenProperties
    <2>2. f \in [1..Len(items) -> Group]
        BY <1>5, <2>1
    <2>3. OptionalGroups(group) = f
        BY DEF OptionalGroups
    <2> HIDE DEF items, f
    <2> QED BY <2>1, <2>2, <2>3, FunctionIsSeq
<1> QED BY <1>6, <1>7

LEMMA ConjunctionCalls ==
    ASSUME NEW blocks \in Seq(Blocks)
    PROVE  /\ Conjunction(blocks) \in Seq(Frame)
           /\ \A i \in 1..Len(Conjunction(blocks)) : Conjunction(blocks)[i].visit \in {"block", "depend"}
<1> DEFINE s == Calls("block", blocks)
           t == <<Call("depend", <<>>)>>
<1>1. s \in Seq(Frame) /\ \A i \in 1..Len(s) : s[i].visit = "block"
    <2>1. \A x \in Blocks : Call("block", x) \in Frame
        BY DEF Call, Frame
    <2> QED BY <2>1, CallsAreFrames
<1>2. t \in Seq(Frame) /\ Len(t) = 1 /\ t[1].visit = "depend"
    <2>1. Call("depend", <<>>) \in Frame
        BY DEF Call, Frame
    <2> QED BY <2>1, OneCall
<1> HIDE DEF s, t
<1>3. s \o t \in Seq(Frame) /\ \A i \in 1..Len(s \o t) : (s \o t)[i].visit \in {"block", "depend"}
    BY <1>1, <1>2, ConcatProperties
<1> QED BY <1>3 DEF Conjunction, s, t

BranchCall(c, sizes) == c.visit = "pattern" \/ (c.visit = "resize" /\ c.arg = sizes)

LEMMA BranchCalls ==
    ASSUME NEW gous \in Seq(Unions), gous # <<>>, NEW m \in Nat, NEW n \in Nat
    PROVE  /\ BranchesOf(gous, m, n) \in Seq(Frame)
           /\ \A i \in 1..Len(BranchesOf(gous, m, n)) :
                  BranchCall(BranchesOf(gous, m, n)[i], <<m, n>>)
<1> DEFINE branches == Last(gous).groups
           pair(i) == << Call("pattern", [group |-> branches[i], gous |-> Front(gous)]),
                         Call("resize", <<m, n>>) >>
           f == [i \in DOMAIN branches |-> pair(i)]
           P == {c \in Frame : BranchCall(c, <<m, n>>)}
<1>1. branches \in Seq(Group)
    <2>1. Last(gous) \in Unions
        BY TopProperties DEF Last, Top
    <2> QED BY <2>1 DEF Unions
<1>2. Front(gous) \in Seq(Unions)
    BY PopProperties DEF Pop
<1>3. BranchesOf(gous, m, n) = FlattenSeq(f)
    BY DEF BranchesOf
<1> HIDE DEF branches
<1>4. Len(branches) \in Nat /\ DOMAIN branches = 1..Len(branches) /\ \A i \in 1..Len(branches) : branches[i] \in Group
    BY <1>1, LenProperties
<1>5. ASSUME NEW i \in 1..Len(branches) PROVE pair(i) \in Seq(P)
    <2> DEFINE c == Call("pattern", [group |-> branches[i], gous |-> Front(gous)])
               d == Call("resize", <<m, n>>)
    <2>1. c \in P
        BY <1>2, <1>4 DEF Call, Frame, BranchCall
    <2>2. d \in P
        BY DEF Call, Frame, BranchCall
    <2> HIDE DEF c, d, P
    <2>3. <<c, d>> \in Seq(P)
        BY <2>1, <2>2, PairIsSeq
    <2> QED BY <2>3 DEF c, d
<1> HIDE DEF pair
<1>6. f \in [1..Len(branches) -> Seq(P)]
    BY <1>4, <1>5
<1> HIDE DEF f
<1>7. f \in Seq(Seq(P))
    BY <1>4, <1>6, FunctionIsSeq
<1> DEFINE s == FlattenSeq(f)
<1>8. s \in Seq(P)
    <2> HIDE DEF P
    <2> QED BY <1>7, FlattenSeqType
<1> HIDE DEF s
<1>9. \A i \in 1..Len(s) : s[i] \in P
    BY <1>8, ElementOfSeq
<1>10. s \in Seq(Frame)
    <2>1. P \subseteq Frame
        OBVIOUS
    <2> HIDE DEF P
    <2> QED BY <1>8, <2>1, SeqMonotonic
<1> QED BY <1>3, <1>9, <1>10 DEF s

\* More blocks are enough where fewer are.
LEMMA CoversMore ==
    ASSUME StacksType, StacksFit, Len(group_patterns') = Len(group_patterns),
           Len(opt_operands') = Len(opt_operands),
           \A l \in 1..Len(group_patterns) : BlocksAt(l)' \in Counts /\ Below(BlocksAt(l), BlocksAt(l)'),
           NEW x, Covers(x)
    PROVE  Covers(x)'
<1>1. ASSUME NEW l \in 1..Len(group_patterns) PROVE Below(x.open[l], BlocksAt(l)')
    <2>1. x.open[l] \in Counts
        <3>1. x.open \in Seq(Counts) /\ l \in 1..Len(x.open)
            BY DEF Covers, State
        <3> QED BY <3>1, ElementOfSeq
    <2>2. BlocksAt(l) \in Counts
        <3>1. triples_blocks[l] \in Seq(Blocks) /\ optional_blocks[l] \in Seq(Group)
            BY ElementOfSeq DEF StacksType, StacksFit
        <3> QED BY <3>1, LenProperties DEF BlocksAt, Counts
    <2>3. Below(x.open[l], BlocksAt(l))
        BY DEF Covers
    <2> QED BY <2>1, <2>2, <2>3, BelowFacts
<1> QED BY <1>1 DEF Covers

LEMMA RaiseTop ==
    ASSUME NEW q \in Seq(Counts), q # <<>>, NEW p \in Counts, Below(Top(q), p)
    PROVE  LET r == SetTop(q, p) IN
           /\ r \in Seq(Counts) /\ Len(r) = Len(q) /\ Top(r) = p /\ Lower(q, r) /\ Lower(r, r)
           /\ \A l \in 1..Len(q) : r[l] = IF l = Len(q) THEN p ELSE q[l]
<1> DEFINE r == SetTop(q, p)
<1>1. /\ r \in Seq(Counts) /\ Len(r) = Len(q) /\ r[Len(q)] = p
      /\ \A l \in 1..(Len(q) - 1) : r[l] = q[l]
    BY SetTopProperties
<1>2. Len(q) \in Nat \ {0}
    BY EmptySeq
<1> HIDE DEF r
<1>3. \A l \in 1..Len(q) : r[l] = IF l = Len(q) THEN p ELSE q[l]
    BY <1>1, <1>2
<1>4. Lower(q, r)
    <2>1. ASSUME NEW l \in 1..Len(q) PROVE Below(q[l], r[l])
        BY <1>3, ElementOfSeq, BelowFacts DEF Top
    <2> QED BY <1>1, <2>1 DEF Lower
<1> QED BY <1>1, <1>3, <1>4, LowerFacts DEF r, Top

LEMMA PatternShape == ASSUME Shape, visitWellDesignedPattern PROVE Shape'
<1> DEFINE gous == Arg.gous \o OfKind(Arg.group, "union")
           top  == Len(group_patterns)
           m    == Len(Top(triples_blocks'))
           n    == Len(Top(optional_blocks'))
<1>1. Calling("pattern") /\ "pattern" \in Inside
    BY DEF visitWellDesignedPattern, Inside
<1>2. /\ triples_blocks'  = AddTop(triples_blocks, OfKind(Arg.group, "block"))
      /\ optional_blocks' = AddTop(optional_blocks, OptionalGroups(Arg.group))
      /\ Do(IF gous = <<>> THEN Conjunction(Top(triples_blocks')) ELSE BranchesOf(gous, m, n))
      /\ UNCHANGED <<nameVars, odgVars, activeVars, group_patterns, optVars, error>>
    BY DEF visitWellDesignedPattern
<1>3. Arg.group \in Group /\ Arg.gous \in Seq(Unions)
    BY <1>1, ArgType
<1>4. /\ OfKind(Arg.group, "block") \in Seq(Blocks) /\ OptionalGroups(Arg.group) \in Seq(Group)
      /\ gous \in Seq(Unions)
    BY <1>3, KindTypes, ConcatProperties
<1> HIDE DEF gous
<1>5. /\ StacksType /\ StacksFit /\ triples_blocks # <<>> /\ optional_blocks # <<>>
      /\ Len(group_patterns) = Len(opt_operands) + 1 /\ top \in Nat \ {0}
    <2>1. Len(group_patterns) = Len(opt_operands) + 1 /\ triples_blocks # <<>> /\ optional_blocks # <<>>
        BY <1>1, GroupIsOpen
    <2> QED BY <2>1, Lengths DEF Shape, GraphType, Fits
<1>6. /\ triples_blocks' \in Seq(Seq(Blocks)) /\ triples_blocks' # <<>> /\ Len(triples_blocks') = top
      /\ \A l \in 1..(top - 1) : triples_blocks'[l] = triples_blocks[l]
      /\ Len(triples_blocks'[top]) \in Nat /\ Len(triples_blocks[top]) <= Len(triples_blocks'[top])
    <2>1. triples_blocks \in Seq(Seq(Blocks)) /\ Len(triples_blocks) = top
        BY <1>5 DEF StacksType, StacksFit
    <2> HIDE DEF top
    <2> QED BY ZenonT(40), <1>2, <1>4, <1>5, <2>1, AddTopProperties, AddTopLength
<1>7. /\ optional_blocks' \in Seq(Seq(Group)) /\ optional_blocks' # <<>> /\ Len(optional_blocks') = top
      /\ \A l \in 1..(top - 1) : optional_blocks'[l] = optional_blocks[l]
      /\ Len(optional_blocks'[top]) \in Nat /\ Len(optional_blocks[top]) <= Len(optional_blocks'[top])
    <2>1. optional_blocks \in Seq(Seq(Group)) /\ Len(optional_blocks) = top
        BY <1>5 DEF StacksType, StacksFit
    <2> HIDE DEF top
    <2> QED BY ZenonT(40), <1>2, <1>4, <1>5, <2>1, AddTopProperties, AddTopLength
<1>8. NamesType' /\ OdgType' /\ operands' = operands
    BY <1>2, SameData
<1>9. StacksType' /\ StacksFit'
    BY <1>2, <1>5, <1>6, <1>7, <1>8 DEF StacksType, StacksFit, Vertex, optVars
<1>10. /\ Len(group_patterns') = top /\ Len(opt_operands') = Len(opt_operands)
       /\ error' = error /\ group_patterns' = group_patterns /\ opt_operands' = opt_operands
    BY <1>2 DEF optVars
<1>11. /\ m \in Nat /\ m = Len(triples_blocks'[top])
       /\ n \in Nat /\ n = Len(optional_blocks'[top])
       /\ Top(triples_blocks') \in Seq(Blocks)
    <2>1. Top(triples_blocks') = triples_blocks'[top] /\ Top(optional_blocks') = optional_blocks'[top]
        BY <1>6, <1>7 DEF Top
    <2>2. Top(triples_blocks') \in Seq(Blocks)
        BY <1>6, TopProperties
    <2> QED BY <1>6, <1>7, <2>1, <2>2
<1>12. ASSUME NEW x, Covers(x) PROVE Covers(x)'
    <2>1. ASSUME NEW l \in 1..top PROVE BlocksAt(l)' \in Counts /\ Below(BlocksAt(l), BlocksAt(l)')
        <3>1. triples_blocks[l] \in Seq(Blocks) /\ optional_blocks[l] \in Seq(Group)
            BY <1>5, ElementOfSeq DEF StacksType, StacksFit
        <3>2. Len(triples_blocks[l]) \in Nat /\ Len(optional_blocks[l]) \in Nat
            BY <3>1, LenProperties
        <3>3. CASE l = top
            BY <1>5, <1>6, <1>7, <3>2, <3>3 DEF BlocksAt, Below, Counts
        <3>4. CASE l # top
            <4>1. l \in 1..(top - 1)
                BY <1>5, <3>4
            <4> QED BY SMTT(30), <1>6, <1>7, <3>2, <4>1 DEF BlocksAt, Below, Counts
        <3> QED BY <3>3, <3>4
    <2> QED BY <1>5, <1>10, <1>12, <2>1, CoversMore
<1> HIDE DEF m, n
<1>13. CASE gous = <<>>
    <2>1. Do(Conjunction(Top(triples_blocks')))
        BY <1>2, <1>13
    <2> DEFINE calls == Conjunction(Top(triples_blocks'))
    <2>2. calls \in Seq(Frame) /\ \A i \in 1..Len(calls) : calls[i].visit \in {"block", "depend"}
        BY <1>11, ConjunctionCalls
    <2> HIDE DEF calls
    <2>3. Do(calls)
        BY <2>1 DEF calls
    <2>4. CallsType' /\ Fits'
        BY <1>1, <1>9, <1>10, <1>12, <2>2, <2>3, LevelFits DEF Inside
    <2> QED BY <1>8, <1>9, <2>4 DEF Shape, GraphType
<1>14. CASE gous # <<>>
    <2> DEFINE calls == BranchesOf(gous, m, n)
    <2>1. Do(calls)
        BY <1>2, <1>14
    <2>2. /\ calls \in Seq(Frame)
          /\ \A i \in 1..Len(calls) : BranchCall(calls[i], <<m, n>>)
        BY <1>4, <1>11, <1>14, BranchCalls
    <2> HIDE DEF calls
    <2>3. ASSUME NEW x \in State, NEW y \in State, Covers(x), Moves(Head(visits), x, y)
          PROVE  \E z : Covers(z)' /\ MoveAll(calls, z, y)
        <3>1. Covers(y)' /\ Len(y.open) = y.conj + 1
            BY <1>1, <1>12, <2>3, LevelMoves
        <3>2. PICK k : k = top
            OBVIOUS
        <3>3. PICK p : p = <<m, n>>
            OBVIOUS
        <3> HIDE DEF top
        <3>4. /\ y.open \in Seq(Counts) /\ y.conj \in Nat /\ Len(y.open) = k /\ k \in 1..k
              /\ Len(group_patterns') = k /\ y.conj = Len(opt_operands') /\ y.open # <<>>
              /\ \A l \in 1..k : Below(y.open[l], BlocksAt(l)') /\ y.open[l] \in Counts
            BY <1>5, <1>10, <3>1, <3>2, ElementOfSeq, EmptySeq DEF Covers, State
        <3>5. p \in Counts /\ BlocksAt(k)' = p
            BY <1>11, <3>2, <3>3 DEF Counts, BlocksAt
        <3>6. Below(Top(y.open), p) /\ Below(p, p)
            BY <3>4, <3>5, BelowFacts DEF Top
        <3>7. PICK r : /\ r \in Seq(Counts) /\ Len(r) = k /\ Top(r) = p
                       /\ Lower(y.open, r) /\ Lower(r, r)
                       /\ \A l \in 1..k : r[l] = IF l = k THEN p ELSE y.open[l]
            BY <3>4, <3>5, <3>6, RaiseTop
        <3>8. PICK z : z \in State /\ z.open = r /\ z.conj = y.conj
            <4>1. [open |-> r, conj |-> y.conj] \in State
                BY <3>4, <3>7 DEF State
            <4>2. PICK z : z = [open |-> r, conj |-> y.conj]
                OBVIOUS
            <4> QED BY <4>1, <4>2
        <3>9. Covers(z)'
            <4>1. ASSUME NEW l \in 1..k PROVE Below(r[l], BlocksAt(l)')
                BY <3>4, <3>5, <3>6, <3>7
            <4> QED BY <3>4, <3>7, <3>8, <4>1 DEF Covers
        <3>10. \A i \in 1..Len(calls) : BranchCall(calls[i], p)
            BY <2>2, <3>3
        <3>11. ASSUME NEW i \in 1..Len(calls) PROVE Moves(calls[i], z, z) /\ Moves(calls[i], z, y)
            <4>1. BranchCall(calls[i], p)
                BY <3>10
            <4> QED BY <3>1, <3>4, <3>6, <3>7, <3>8, <4>1 DEF Moves, Inside, BranchCall
        <3>12. CASE calls = <<>>
            <4>1. MoveAll(calls, y, y)
                BY <2>3, <3>12, MoveNone
            <4> QED BY <3>1, <4>1
        <3>13. CASE calls # <<>>
            <4>1. Len(calls) \in 1..Len(calls)
                BY <2>2, <3>13, EmptySeq
            <4>2. MoveAll(calls, z, y)
                BY <2>2, <2>3, <3>8, <3>11, <3>13, <4>1, MoveDown
            <4> QED BY <3>9, <4>2
        <3> QED BY <3>12, <3>13
    <2>4. CallsType' /\ Fits'
        BY <1>1, <1>9, <1>10, <2>1, <2>2, <2>3, DoFits
    <2> QED BY <1>8, <1>9, <2>4 DEF Shape, GraphType
<1> QED BY <1>13, <1>14

\* As many elements of a sequence as there are, from its beginning.
LEMMA PrefixProperties ==
    ASSUME NEW S, NEW s \in Seq(S), NEW k \in Nat, k <= Len(s)
    PROVE  SubSeq(s, 1, k) \in Seq(S) /\ Len(SubSeq(s, 1, k)) = k
<1>1. Len(s) \in Nat
    BY LenProperties
<1>2. \A i \in 1..k : s[i] \in S
    BY <1>1, ElementOfSeq
<1> DEFINE u == SubSeq(s, 1, k)
<1>3. u \in Seq(S) /\ Len(u) = IF 1 <= k THEN k - 1 + 1 ELSE 0
    BY <1>2, SubSeqProperties
<1> HIDE DEF u
<1> QED BY <1>3 DEF u

LEMMA BlocksType ==
    ASSUME StacksType, StacksFit, NEW l \in 1..Len(group_patterns)
    PROVE  /\ triples_blocks[l] \in Seq(Blocks) /\ optional_blocks[l] \in Seq(Group)
           /\ BlocksAt(l) \in Counts
<1>1. triples_blocks[l] \in Seq(Blocks) /\ optional_blocks[l] \in Seq(Group)
    BY ElementOfSeq DEF StacksType, StacksFit
<1> QED BY <1>1, LenProperties DEF BlocksAt, Counts

\* There are as many blocks to keep: no vector grows with blocks that were not
\* pushed.
LEMMA ResizeFits ==
    ASSUME Shape, Calling("resize")
    PROVE  /\ Arg[1] \in Nat /\ Arg[1] <= Len(Top(triples_blocks))
           /\ Arg[2] \in Nat /\ Arg[2] <= Len(Top(optional_blocks))
<1>1. PICK x, y \in State : Covers(x) /\ Moves(Head(visits), x, y)
    BY CallOf
<1>2. Head(visits).visit = "resize" /\ Arg \in Counts /\ Below(Arg, Top(x.open))
    <2>1. Head(visits).visit = "resize" /\ Arg \in Counts
        BY CallOf, ArgType
    <2> QED BY <1>1, <2>1 DEF Moves, Outside, Arg
<1>3. StacksType /\ StacksFit /\ group_patterns # <<>>
    BY GroupIsOpen DEF Shape, GraphType, Fits, Inside
<1> DEFINE top == Len(group_patterns)
<1>4. top \in 1..top /\ Len(x.open) = top /\ x.open \in Seq(Counts)
    BY <1>1, <1>3, EmptySeq DEF Covers, State, StacksType
<1>5. Below(x.open[top], BlocksAt(top)) /\ x.open[top] \in Counts /\ Top(x.open) = x.open[top]
    BY <1>1, <1>4, ElementOfSeq DEF Covers, Top
<1>6. BlocksAt(top) \in Counts
    BY <1>3, <1>4, BlocksType
<1>7. Below(Arg, BlocksAt(top))
    BY <1>2, <1>5, <1>6, BelowFacts
<1>8. Len(triples_blocks) = top /\ Len(optional_blocks) = top
    BY <1>3 DEF StacksFit
<1> QED BY <1>2, <1>7, <1>8 DEF Below, BlocksAt, Counts, Top

LEMMA ResizeShape == ASSUME Shape, Resize PROVE Shape'
<1> DEFINE top == Len(group_patterns)
           s == SubSeq(Top(triples_blocks), 1, Arg[1])
           t == SubSeq(Top(optional_blocks), 1, Arg[2])
<1>1. Calling("resize") /\ "resize" \in Inside
    BY DEF Resize, Inside
<1>2. /\ triples_blocks' = SetTop(triples_blocks, s) /\ optional_blocks' = SetTop(optional_blocks, t)
      /\ Return /\ UNCHANGED <<nameVars, odgVars, activeVars, group_patterns, optVars, error>>
    BY DEF Resize
<1>3. /\ StacksType /\ StacksFit /\ triples_blocks # <<>> /\ optional_blocks # <<>> /\ top \in Nat \ {0}
      /\ group_patterns # <<>>
    <2>1. group_patterns # <<>> /\ triples_blocks # <<>> /\ optional_blocks # <<>>
        BY <1>1, GroupIsOpen
    <2> QED BY <2>1, EmptySeq DEF Shape, GraphType, Fits, StacksType
<1>4. s \in Seq(Blocks) /\ Len(s) = Arg[1]
    <2>1. Top(triples_blocks) \in Seq(Blocks)
        BY <1>3, TopProperties DEF StacksType
    <2>2. Arg[1] \in Nat /\ Arg[1] <= Len(Top(triples_blocks))
        BY <1>1, ResizeFits
    <2> QED BY <2>1, <2>2, PrefixProperties
<1>5. t \in Seq(Group) /\ Len(t) = Arg[2]
    <2>1. Top(optional_blocks) \in Seq(Group)
        BY <1>3, TopProperties DEF StacksType
    <2>2. Arg[2] \in Nat /\ Arg[2] <= Len(Top(optional_blocks))
        BY <1>1, ResizeFits
    <2> QED BY <2>1, <2>2, PrefixProperties
<1> HIDE DEF s, t
<1>6. /\ triples_blocks' \in Seq(Seq(Blocks)) /\ Len(triples_blocks') = top /\ triples_blocks'[top] = s
      /\ \A l \in 1..(top - 1) : triples_blocks'[l] = triples_blocks[l]
    <2> DEFINE T == Seq(Blocks)
    <2>1. triples_blocks \in Seq(T) /\ s \in T /\ Len(triples_blocks) = top
        BY <1>3, <1>4 DEF StacksType, StacksFit
    <2> HIDE DEF T, top
    <2>2. triples_blocks # <<>> /\ triples_blocks' = SetTop(triples_blocks, s)
        BY <1>2, <1>3
    <2>3. /\ SetTop(triples_blocks, s) \in Seq(T) /\ Len(SetTop(triples_blocks, s)) = Len(triples_blocks)
          /\ SetTop(triples_blocks, s)[Len(triples_blocks)] = s
          /\ \A l \in 1..(Len(triples_blocks) - 1) : SetTop(triples_blocks, s)[l] = triples_blocks[l]
        BY ZenonT(90), <2>1, <2>2, SetTopProperties
    <2> QED BY <2>1, <2>2, <2>3 DEF T
<1>7. /\ optional_blocks' \in Seq(Seq(Group)) /\ Len(optional_blocks') = top /\ optional_blocks'[top] = t
      /\ \A l \in 1..(top - 1) : optional_blocks'[l] = optional_blocks[l]
    <2> DEFINE T == Seq(Group)
    <2>1. optional_blocks \in Seq(T) /\ t \in T /\ Len(optional_blocks) = top
        BY <1>3, <1>5 DEF StacksType, StacksFit
    <2> HIDE DEF T, top
    <2>2. optional_blocks # <<>> /\ optional_blocks' = SetTop(optional_blocks, t)
        BY <1>2, <1>3
    <2>3. /\ SetTop(optional_blocks, t) \in Seq(T) /\ Len(SetTop(optional_blocks, t)) = Len(optional_blocks)
          /\ SetTop(optional_blocks, t)[Len(optional_blocks)] = t
          /\ \A l \in 1..(Len(optional_blocks) - 1) : SetTop(optional_blocks, t)[l] = optional_blocks[l]
        BY ZenonT(90), <2>1, <2>2, SetTopProperties
    <2> QED BY <2>1, <2>2, <2>3 DEF T
<1>8. NamesType' /\ OdgType' /\ operands' = operands
    BY <1>2, SameData
<1>9. StacksType' /\ StacksFit'
    BY <1>2, <1>3, <1>6, <1>7, <1>8 DEF StacksType, StacksFit, Vertex, optVars
<1>10. /\ Len(group_patterns') = top /\ Len(opt_operands') = Len(opt_operands) /\ error' = error
    BY <1>2 DEF optVars
<1>11. ASSUME NEW x \in State, NEW y \in State, Covers(x), Moves(Head(visits), x, y) PROVE Covers(y)'
    <2>1. Covers(y)
        BY <1>1, <1>11, LevelMoves
    <2>2. PICK k : k = top
        OBVIOUS
    <2>3. Below(Top(y.open), Arg) /\ Arg \in Counts
        <3>1. Head(visits).visit = "resize" /\ Arg \in Counts
            BY <1>1, CallOf, ArgType
        <3> QED BY <1>11, <3>1 DEF Moves, Outside, Arg
    <2>4. k \in Nat \ {0} /\ Len(y.open) = k /\ \A l \in 1..k : Below(y.open[l], BlocksAt(l))
        BY <1>3, <2>1, <2>2 DEF Covers
    <2>5. ASSUME NEW l \in 1..k PROVE Below(y.open[l], BlocksAt(l)')
        <3>1. CASE l = k
            <4>1. BlocksAt(l)' = Arg
                <5> HIDE DEF top
                <5> QED BY <1>4, <1>5, <1>6, <1>7, <2>2, <2>3, <3>1 DEF BlocksAt, Counts
            <4> QED BY <2>3, <2>4, <3>1, <4>1 DEF Top
        <3>2. CASE l # k
            <4>1. l \in 1..(top - 1)
                BY <2>2, <2>4, <3>2
            <4> HIDE DEF top
            <4> QED BY <1>6, <1>7, <2>4, <4>1 DEF BlocksAt
        <3> QED BY <3>1, <3>2
    <2> QED BY <1>10, <2>1, <2>2, <2>4, <2>5 DEF Covers
<1>12. CallsType' /\ Fits'
    BY <1>1, <1>2, <1>9, <1>10, <1>11, ReturnFits
<1> QED BY <1>8, <1>9, <1>12 DEF Shape, GraphType

LEMMA AppendFacts ==
    ASSUME NEW S, NEW s \in Seq(S), NEW x \in S
    PROVE  /\ Push(s, x) \in Seq(S) /\ Push(s, x) # <<>> /\ Len(Push(s, x)) = Len(s) + 1
           /\ \A i \in 1..Len(s) : Push(s, x)[i] = s[i]
           /\ Push(s, x)[Len(s) + 1] = x
<1>1. /\ Append(s, x) \in Seq(S) /\ Len(Append(s, x)) = Len(s) + 1
      /\ \A i \in 1..Len(s) : Append(s, x)[i] = s[i]
      /\ Append(s, x)[Len(s) + 1] = x
    BY AppendProperties
<1>2. Len(s) \in Nat
    BY LenProperties
<1>3. Append(s, x) # <<>>
    BY <1>1, <1>2, EmptySeq
<1> QED BY <1>1, <1>3 DEF Push

\* A group begins with no blocks.
LEMMA EnterStacks ==
    ASSUME Shape, EnterGroup, operands' = operands, UNCHANGED optVars
    PROVE  /\ StacksType' /\ StacksFit'
           /\ \A x, z \in State : Covers(x) /\ z.conj = x.conj /\ z.open = Push(x.open, <<0, 0>>) => Covers(z)'
<1> DEFINE top == Len(group_patterns)
<1>1. StacksType /\ StacksFit /\ top \in Nat /\ UNCHANGED <<opt_operands, union_operands>>
    BY Lengths DEF Shape, GraphType, Fits, optVars
<1>2. group_patterns' \in Seq(Seq(Vertex)) /\ Len(group_patterns') = top + 1
    <2>1. group_patterns' = Push(group_patterns, <<>>) /\ <<>> \in Seq(Vertex)
        BY EmptySeq DEF EnterGroup
    <2> DEFINE T == Seq(Vertex)
    <2>2. group_patterns \in Seq(T) /\ <<>> \in T
        BY <1>1, <2>1 DEF StacksType
    <2> HIDE DEF T
    <2>3. group_patterns' \in Seq(T) /\ Len(group_patterns') = Len(group_patterns) + 1
        BY <2>1, <2>2, AppendFacts
    <2> QED BY <2>3 DEF T
<1>3. /\ triples_blocks' \in Seq(Seq(Blocks)) /\ Len(triples_blocks') = top + 1
      /\ triples_blocks'[top + 1] = <<>> /\ \A l \in 1..top : triples_blocks'[l] = triples_blocks[l]
    <2>1. triples_blocks' = Push(triples_blocks, <<>>) /\ <<>> \in Seq(Blocks)
        BY EmptySeq DEF EnterGroup
    <2> DEFINE T == Seq(Blocks)
    <2>2. triples_blocks \in Seq(T) /\ <<>> \in T /\ Len(triples_blocks) = top
        BY <1>1, <2>1 DEF StacksType, StacksFit
    <2> HIDE DEF T
    <2>3. /\ triples_blocks' \in Seq(T) /\ Len(triples_blocks') = Len(triples_blocks) + 1
          /\ triples_blocks'[Len(triples_blocks) + 1] = <<>>
          /\ \A l \in 1..Len(triples_blocks) : triples_blocks'[l] = triples_blocks[l]
        BY ZenonT(120), <2>1, <2>2, AppendFacts
    <2> QED BY <2>2, <2>3 DEF T
<1>4. /\ optional_blocks' \in Seq(Seq(Group)) /\ Len(optional_blocks') = top + 1
      /\ optional_blocks'[top + 1] = <<>> /\ \A l \in 1..top : optional_blocks'[l] = optional_blocks[l]
    <2>1. optional_blocks' = Push(optional_blocks, <<>>) /\ <<>> \in Seq(Group)
        BY EmptySeq DEF EnterGroup
    <2> DEFINE T == Seq(Group)
    <2>2. optional_blocks \in Seq(T) /\ <<>> \in T /\ Len(optional_blocks) = top
        BY <1>1, <2>1 DEF StacksType, StacksFit
    <2> HIDE DEF T
    <2>3. /\ optional_blocks' \in Seq(T) /\ Len(optional_blocks') = Len(optional_blocks) + 1
          /\ optional_blocks'[Len(optional_blocks) + 1] = <<>>
          /\ \A l \in 1..Len(optional_blocks) : optional_blocks'[l] = optional_blocks[l]
        BY ZenonT(120), <2>1, <2>2, AppendFacts
    <2> QED BY <2>2, <2>3 DEF T
<1>5. StacksType' /\ StacksFit'
    BY <1>1, <1>2, <1>3, <1>4 DEF StacksType, StacksFit, Vertex
<1>6. ASSUME NEW x \in State, NEW z \in State, Covers(x), z.conj = x.conj, z.open = Push(x.open, <<0, 0>>)
      PROVE  Covers(z)'
    <2>1. PICK k : k = top
        OBVIOUS
    <2> HIDE DEF top
    <2>2. k \in Nat /\ Len(x.open) = k /\ x.open \in Seq(Counts) /\ Len(group_patterns') = k + 1
          /\ x.conj = Len(opt_operands') /\ \A l \in 1..k : Below(x.open[l], BlocksAt(l))
        BY <1>1, <1>2, <1>6, <2>1 DEF Covers, State, top
    <2>3. /\ Len(z.open) = k + 1 /\ z.open[k + 1] = <<0, 0>>
          /\ \A l \in 1..k : z.open[l] = x.open[l]
        <3> DEFINE p == <<0, 0>>
                   q == x.open
        <3>1. p \in Counts /\ q \in Seq(Counts) /\ Len(q) = k /\ z.open = Push(q, p)
            BY <1>6, <2>2 DEF Counts
        <3> HIDE DEF p, q
        <3>2. Len(Push(q, p)) = Len(q) + 1 /\ Push(q, p)[Len(q) + 1] = p
              /\ \A l \in 1..Len(q) : Push(q, p)[l] = q[l]
            BY ZenonT(40), <3>1, AppendFacts
        <3> QED BY <3>1, <3>2 DEF p, q
    <2>4. ASSUME NEW l \in 1..(k + 1) PROVE Below(z.open[l], BlocksAt(l)')
        <3>1. CASE l = k + 1
            <4>1. BlocksAt(l)' = <<0, 0>>
                BY <1>3, <1>4, <2>1, <3>1, EmptySeq DEF BlocksAt
            <4> QED BY <2>3, <3>1, <4>1 DEF Below
        <3>2. CASE l # k + 1
            <4>1. l \in 1..k
                BY <2>2, <3>2
            <4> QED BY <1>3, <1>4, <2>1, <2>2, <2>3, <4>1 DEF BlocksAt
        <3> QED BY <3>1, <3>2
    <2> QED BY <1>6, <2>2, <2>3, <2>4 DEF Covers
<1> QED BY <1>5, <1>6

LEMMA LeaveStacks ==
    ASSUME Shape, LeaveGroup, group_patterns # <<>>, operands' = operands, UNCHANGED opt_operands,
           union_operands' \in Seq(Seq(Vertex)), Len(union_operands') = Len(union_operands)
    PROVE  /\ StacksType' /\ StacksFit'
           /\ \A x, z \in State : Covers(x) /\ z.conj = x.conj /\ z.open = Pop(x.open) => Covers(z)'
<1> DEFINE top == Len(group_patterns)
<1>1. StacksType /\ StacksFit /\ top \in Nat \ {0}
    BY Lengths, EmptySeq DEF Shape, GraphType, Fits, StacksType
<1>2. group_patterns' \in Seq(Seq(Vertex)) /\ Len(group_patterns') = top - 1
    <2> DEFINE T == Seq(Vertex)
    <2>1. group_patterns' = Pop(group_patterns) /\ group_patterns \in Seq(T)
        BY <1>1 DEF LeaveGroup, StacksType
    <2> HIDE DEF T
    <2>2. group_patterns' \in Seq(T) /\ Len(group_patterns') = Len(group_patterns) - 1
        BY <2>1, PopProperties
    <2> QED BY <2>2 DEF T
<1>3. /\ triples_blocks' \in Seq(Seq(Blocks)) /\ Len(triples_blocks') = top - 1
      /\ \A l \in 1..(top - 1) : triples_blocks'[l] = triples_blocks[l]
    <2> DEFINE T == Seq(Blocks)
    <2>1. triples_blocks' = Pop(triples_blocks) /\ triples_blocks \in Seq(T) /\ Len(triples_blocks) = top
        BY <1>1 DEF LeaveGroup, StacksType, StacksFit
    <2>2. triples_blocks # <<>>
        BY <1>1, <2>1, EmptySeq
    <2> HIDE DEF T
    <2>3. /\ triples_blocks' \in Seq(T) /\ Len(triples_blocks') = Len(triples_blocks) - 1
          /\ \A l \in 1..(Len(triples_blocks) - 1) : triples_blocks'[l] = triples_blocks[l]
        BY <2>1, <2>2, PopProperties
    <2> QED BY <2>1, <2>3 DEF T
<1>4. /\ optional_blocks' \in Seq(Seq(Group)) /\ Len(optional_blocks') = top - 1
      /\ \A l \in 1..(top - 1) : optional_blocks'[l] = optional_blocks[l]
    <2> DEFINE T == Seq(Group)
    <2>1. optional_blocks' = Pop(optional_blocks) /\ optional_blocks \in Seq(T) /\ Len(optional_blocks) = top
        BY <1>1 DEF LeaveGroup, StacksType, StacksFit
    <2>2. optional_blocks # <<>>
        BY <1>1, <2>1, EmptySeq
    <2> HIDE DEF T
    <2>3. /\ optional_blocks' \in Seq(T) /\ Len(optional_blocks') = Len(optional_blocks) - 1
          /\ \A l \in 1..(Len(optional_blocks) - 1) : optional_blocks'[l] = optional_blocks[l]
        BY <2>1, <2>2, PopProperties
    <2> QED BY <2>1, <2>3 DEF T
<1>5. StacksType' /\ StacksFit'
    BY <1>1, <1>2, <1>3, <1>4 DEF StacksType, StacksFit, Vertex
<1>6. ASSUME NEW x \in State, NEW z \in State, Covers(x), z.conj = x.conj, z.open = Pop(x.open)
      PROVE  Covers(z)'
    <2>1. PICK k : k = top
        OBVIOUS
    <2> HIDE DEF top
    <2>2. /\ k \in Nat \ {0} /\ Len(x.open) = k /\ x.open \in Seq(Counts) /\ x.open # <<>>
          /\ Len(group_patterns') = k - 1 /\ x.conj = Len(opt_operands')
          /\ \A l \in 1..k : Below(x.open[l], BlocksAt(l))
        BY <1>1, <1>2, <1>6, <2>1, EmptySeq DEF Covers, State, top
    <2>3. Len(z.open) = k - 1 /\ \A l \in 1..(k - 1) : z.open[l] = x.open[l]
        BY <1>6, <2>2, PopProperties
    <2>4. ASSUME NEW l \in 1..(k - 1) PROVE Below(z.open[l], BlocksAt(l)')
        <3>1. l \in 1..k
            BY <2>2
        <3> QED BY <1>3, <1>4, <2>1, <2>2, <2>3, <3>1 DEF BlocksAt
    <2> QED BY <1>6, <2>2, <2>3, <2>4 DEF Covers
<1> QED BY <1>5, <1>6

\* A group graph pattern, and then the end of the group.
LEMMA GroupCalls ==
    ASSUME NEW group \in Group, NEW last \in {"leave", "end"}
    PROVE  LET calls == <<Call("pattern", [group |-> group, gous |-> <<>>]), Call(last, <<>>)>>
           IN  /\ calls \in Seq(Frame) /\ Len(calls) = 2
               /\ calls[1].visit = "pattern" /\ calls[2].visit = last
<1> DEFINE c == Call("pattern", [group |-> group, gous |-> <<>>])
           d == Call(last, <<>>)
<1>1. c \in Frame /\ c.visit = "pattern"
    BY EmptySeq DEF Call, Frame
<1>2. d \in Frame /\ d.visit = last
    BY DEF Call, Frame
<1> HIDE DEF c, d
<1>3. <<c, d>> \in Seq(Frame)
    BY <1>1, <1>2, PairIsSeq
<1> QED BY <1>1, <1>2, <1>3 DEF c, d

LEMMA MoveTwo ==
    ASSUME NEW s \in Seq(Frame), Len(s) = 2, NEW x \in State, NEW y \in State, NEW z \in State,
           Moves(s[1], x, y), Moves(s[2], y, z)
    PROVE  MoveAll(s, x, z)
<1> DEFINE G == [i \in 1..3 |-> IF i = 1 THEN x ELSE IF i = 2 THEN y ELSE z]
<1>1. G[1] = x /\ G[2] = y /\ G[3] = z
    OBVIOUS
<1>2. G \in [1..3 -> State]
    OBVIOUS
<1> HIDE DEF G
<1>3. Along(s, x, z, G)
    BY <1>1 DEF Along
<1> QED BY <1>2, <1>3 DEF MoveAll

LEMMA PushedState ==
    ASSUME NEW y \in State
    PROVE  \E z \in State : /\ z.conj = y.conj /\ z.open = Push(y.open, <<0, 0>>)
                            /\ Len(z.open) = Len(y.open) + 1 /\ y.open = Pop(z.open)
                            /\ Lower(z.open, z.open)
<1> DEFINE p == <<0, 0>>
           q == y.open
           r == Push(q, p)
           z == [open |-> r, conj |-> y.conj]
<1>1. q \in Seq(Counts) /\ p \in Counts /\ y.conj \in Nat
    BY DEF State, Counts
<1> HIDE DEF p, q
<1>2. /\ r \in Seq(Counts) /\ r # <<>> /\ Len(r) = Len(q) + 1
      /\ \A i \in 1..Len(q) : r[i] = q[i]
    BY <1>1, AppendFacts
<1> HIDE DEF r
<1>3. Pop(r) \in Seq(Counts) /\ Len(Pop(r)) = Len(r) - 1 /\ \A i \in 1..(Len(r) - 1) : Pop(r)[i] = r[i]
    BY <1>2, PopProperties
<1>4. Pop(r) = q
    <2>1. Len(q) \in Nat /\ Len(Pop(r)) = Len(q)
        BY <1>1, <1>2, <1>3, LenProperties
    <2>2. \A i \in 1..Len(q) : Pop(r)[i] = q[i]
        BY <1>2, <1>3, <2>1
    <2> QED BY <1>1, <1>3, <2>1, <2>2, SeqEqual
<1>5. Lower(r, r)
    BY <1>2, LowerFacts
<1>6. z \in State /\ z.open = r /\ z.conj = y.conj
    BY <1>1, <1>2 DEF State
<1> HIDE DEF z
<1> QED BY <1>2, <1>4, <1>5, <1>6 DEF r, p, q

LEMMA WhereShape == ASSUME Shape, visitWhereClause PROVE Shape'
<1> DEFINE calls == <<Call("pattern", [group |-> Arg, gous |-> <<>>]), Call("end", <<>>)>>
<1>1. /\ Calling("where") /\ EnterGroup /\ Do(calls)
      /\ UNCHANGED <<nameVars, odgVars, activeVars, optVars, error>>
    BY DEF visitWhereClause
<1>2. /\ calls \in Seq(Frame) /\ Len(calls) = 2
      /\ calls[1].visit = "pattern" /\ calls[2].visit = "end"
    BY <1>1, ArgType, GroupCalls
<1> HIDE DEF calls
<1>3. NamesType' /\ OdgType' /\ operands' = operands
    BY <1>1, SameData
<1>4. /\ StacksType' /\ StacksFit'
      /\ \A x, z \in State : Covers(x) /\ z.conj = x.conj /\ z.open = Push(x.open, <<0, 0>>) => Covers(z)'
    BY <1>1, <1>3, EnterStacks
<1>5. ASSUME NEW x \in State, NEW y \in State, Covers(x), Moves(Head(visits), x, y)
      PROVE  \E z : Covers(z)' /\ MoveAll(calls, z, y)
    <2>1. x = Closed /\ y = Closed
        BY <1>1, <1>5, CallOf DEF Moves, Inside
    <2>2. x.conj = 0 /\ Len(x.open) = 0
        BY <2>1, EmptySeq DEF Closed
    <2>3. PICK z \in State : /\ z.conj = x.conj /\ z.open = Push(x.open, <<0, 0>>)
                             /\ Len(z.open) = Len(x.open) + 1 /\ Lower(z.open, z.open)
        BY PushedState
    <2>4. z.conj = 0 /\ z.open = Push(x.open, <<0, 0>>) /\ Len(z.open) = 1 /\ Lower(z.open, z.open)
        BY <2>2, <2>3
    <2>5. Covers(z)'
        BY <1>4, <1>5, <2>1, <2>2, <2>4
    <2>6. Moves(calls[1], z, z) /\ Moves(calls[2], z, y)
        BY <1>2, <2>1, <2>4 DEF Moves, Inside
    <2>7. MoveAll(calls, z, y)
        BY <1>2, <2>4, <2>6, MoveTwo
    <2> QED BY <2>5, <2>7
<1>6. error' = error
    BY <1>1
<1>7. CallsType' /\ Fits'
    BY <1>1, <1>2, <1>4, <1>5, <1>6, DoFits
<1> QED BY <1>3, <1>4, <1>7 DEF Shape, GraphType

LEMMA EnterShape == ASSUME Shape, EnterOptional PROVE Shape'
<1> DEFINE calls == <<Call("pattern", [group |-> Arg, gous |-> <<>>]), Call("leave", <<>>)>>
<1>1. /\ Calling("optional") /\ EnterGroup /\ Do(calls)
      /\ UNCHANGED <<nameVars, odgVars, activeVars, optVars, error>>
    BY DEF EnterOptional
<1>2. /\ calls \in Seq(Frame) /\ Len(calls) = 2
      /\ calls[1].visit = "pattern" /\ calls[2].visit = "leave"
    BY <1>1, ArgType, GroupCalls
<1> HIDE DEF calls
<1>3. NamesType' /\ OdgType' /\ operands' = operands
    BY <1>1, SameData
<1>4. /\ StacksType' /\ StacksFit'
      /\ \A x, z \in State : Covers(x) /\ z.conj = x.conj /\ z.open = Push(x.open, <<0, 0>>) => Covers(z)'
    BY <1>1, <1>3, EnterStacks
<1>5. ASSUME NEW x \in State, NEW y \in State, Covers(x), Moves(Head(visits), x, y)
      PROVE  \E z : Covers(z)' /\ MoveAll(calls, z, y)
    <2>1. x.conj >= 1 /\ Len(x.open) = x.conj /\ y = x
        BY <1>1, <1>5, CallOf DEF Moves, Inside, Outside
    <2>2. PICK z \in State : /\ z.conj = x.conj /\ z.open = Push(x.open, <<0, 0>>)
                             /\ Len(z.open) = Len(x.open) + 1 /\ x.open = Pop(z.open)
                             /\ Lower(z.open, z.open)
        BY PushedState
    <2>3. Covers(z)'
        BY <1>4, <1>5, <2>2
    <2>4. Moves(calls[1], z, z) /\ Moves(calls[2], z, y)
        BY <1>2, <2>1, <2>2 DEF Moves, Inside
    <2>5. MoveAll(calls, z, y)
        BY <1>2, <2>2, <2>4, MoveTwo
    <2> QED BY <2>3, <2>5
<1>6. error' = error
    BY <1>1
<1>7. CallsType' /\ Fits'
    BY <1>1, <1>2, <1>4, <1>5, <1>6, DoFits
<1> QED BY <1>3, <1>4, <1>7 DEF Shape, GraphType

\* Stacks that are read or popped are not empty.
LEMMA EndNeeds ==
    ASSUME Shape
    PROVE  /\ Calling("end") \/ Calling("leave") =>
                 /\ group_patterns # <<>> /\ triples_blocks # <<>> /\ optional_blocks # <<>>
           /\ Calling("close") => group_patterns # <<>>
           /\ Calling("leave") \/ Calling("close") => opt_operands # <<>> /\ union_operands # <<>>
<1>1. ASSUME NEW f \in {"end", "leave", "close"}, Calling(f)
      PROVE  /\ group_patterns # <<>> /\ triples_blocks # <<>> /\ optional_blocks # <<>>
             /\ f # "end" => opt_operands # <<>> /\ union_operands # <<>>
    <2>1. PICK x, y \in State : Covers(x) /\ Moves(Head(visits), x, y)
        BY <1>1, CallOf
    <2>2. Len(x.open) >= 1 /\ (f # "end" => x.conj >= 1) /\ Len(x.open) \in Nat
        <3>1. Head(visits).visit = f /\ x.conj \in Nat
            BY <1>1, CallOf DEF State
        <3>2. CASE f = "end"
            <4>1. Len(x.open) = 1
                BY <2>1, <3>1, <3>2 DEF Moves, Inside, Outside
            <4> QED BY <3>2, <4>1
        <3>3. CASE f = "leave"
            BY <2>1, <3>1, <3>3 DEF Moves, Inside, Outside
        <3>4. CASE f = "close"
            BY <2>1, <3>1, <3>4 DEF Moves, Inside, Outside
        <3> QED BY <3>2, <3>3, <3>4
    <2>3. Len(group_patterns) = Len(x.open) /\ Len(opt_operands) = x.conj /\ StacksFit
        BY <2>1 DEF Covers, Shape, Fits
    <2> QED BY <2>2, <2>3, EmptySeq DEF StacksFit
<1> QED BY <1>1

LEMMA EndShape == ASSUME Shape, EndWhereClause PROVE Shape'
<1>1. /\ Calling("end") /\ LeaveGroup /\ Return
      /\ UNCHANGED <<nameVars, odgVars, activeVars, optVars, error>>
    BY DEF EndWhereClause
<1>2. NamesType' /\ OdgType' /\ operands' = operands
    BY <1>1, SameData
<1>3. /\ StacksType' /\ StacksFit'
      /\ \A x, z \in State : Covers(x) /\ z.conj = x.conj /\ z.open = Pop(x.open) => Covers(z)'
    <2>1. group_patterns # <<>> /\ UNCHANGED <<opt_operands, union_operands>>
        BY <1>1, EndNeeds DEF optVars
    <2>2. union_operands' \in Seq(Seq(Vertex)) /\ Len(union_operands') = Len(union_operands)
        BY <2>1 DEF Shape, GraphType, StacksType
    <2> QED BY <1>1, <1>2, <2>1, <2>2, LeaveStacks
<1>4. ASSUME NEW x \in State, NEW y \in State, Covers(x), Moves(Head(visits), x, y) PROVE Covers(y)'
    <2>1. Len(x.open) = 1 /\ x.conj = 0 /\ y = Closed
        BY <1>1, <1>4, CallOf DEF Moves, Inside, Outside
    <2>2. x.open \in Seq(Counts)
        BY DEF State
    <2>3. Pop(x.open) = <<>>
        <3> DEFINE q == x.open
        <3>1. q \in Seq(Counts) /\ Len(q) = 1
            BY <2>1, <2>2
        <3> HIDE DEF q
        <3>2. q # <<>>
            BY <3>1, EmptySeq
        <3>3. Pop(q) \in Seq(Counts) /\ Len(Pop(q)) = 0
            BY <3>1, <3>2, PopProperties
        <3> QED BY <3>3, EmptySeq DEF q
    <2> QED BY <1>3, <1>4, <2>1, <2>3 DEF Closed
<1>5. error' = error
    BY <1>1
<1>6. CallsType' /\ Fits'
    BY <1>1, <1>3, <1>4, <1>5, ReturnFits
<1> QED BY <1>2, <1>3, <1>6 DEF Shape, GraphType

LEMMA LeaveShape == ASSUME Shape, LeaveOptional PROVE Shape'
<1>1. /\ Calling("leave") /\ union_operands' = SetTop(union_operands, <<>>) /\ LeaveGroup /\ Return
      /\ UNCHANGED <<nameVars, odgVars, activeVars, opt_operands, error>>
    BY DEF LeaveOptional, ClearUnion
<1>2. NamesType' /\ OdgType' /\ operands' = operands
    BY <1>1, SameData
<1>3. /\ StacksType' /\ StacksFit'
      /\ \A x, z \in State : Covers(x) /\ z.conj = x.conj /\ z.open = Pop(x.open) => Covers(z)'
    <2>1. group_patterns # <<>> /\ union_operands # <<>> /\ union_operands \in Seq(Seq(Vertex))
        BY <1>1, EndNeeds DEF Shape, GraphType, StacksType
    <2>2. union_operands' \in Seq(Seq(Vertex)) /\ Len(union_operands') = Len(union_operands)
        <3> DEFINE T == Seq(Vertex)
                   e == <<>>
        <3>1. union_operands \in Seq(T) /\ e \in T /\ union_operands' = SetTop(union_operands, e)
            BY <1>1, <2>1, EmptySeq
        <3> HIDE DEF T, e
        <3>2. union_operands' \in Seq(T) /\ Len(union_operands') = Len(union_operands)
            BY <2>1, <3>1, SetTopProperties
        <3> QED BY <3>2 DEF T
    <2> QED BY <1>1, <1>2, <2>1, <2>2, LeaveStacks
<1>4. ASSUME NEW x \in State, NEW y \in State, Covers(x), Moves(Head(visits), x, y) PROVE Covers(y)'
    <2>1. y.open = Pop(x.open) /\ y.conj = x.conj
        BY <1>1, <1>4, CallOf DEF Moves, Inside, Outside
    <2> QED BY <1>3, <1>4, <2>1
<1>5. error' = error
    BY <1>1
<1>6. CallsType' /\ Fits'
    BY <1>1, <1>3, <1>4, <1>5, ReturnFits
<1> QED BY <1>2, <1>3, <1>6 DEF Shape, GraphType

LEMMA CloseShape == ASSUME Shape, CloseConjunction PROVE Shape'
<1>1. /\ Calling("close") /\ union_operands' = Pop(union_operands) /\ opt_operands' = Pop(opt_operands)
      /\ group_patterns' = SetTop(group_patterns, <<>>) /\ Return
      /\ UNCHANGED <<nameVars, odgVars, activeVars, triples_blocks, optional_blocks, error>>
    BY DEF CloseConjunction
<1>2. NamesType' /\ OdgType' /\ operands' = operands
    BY <1>1, SameData
<1>3. /\ StacksType /\ StacksFit
      /\ group_patterns # <<>> /\ opt_operands # <<>> /\ union_operands # <<>>
    BY <1>1, EndNeeds DEF Shape, GraphType, Fits
<1>4. group_patterns' \in Seq(Seq(Vertex)) /\ Len(group_patterns') = Len(group_patterns)
    <2> DEFINE T == Seq(Vertex)
               e == <<>>
    <2>1. group_patterns \in Seq(T) /\ e \in T /\ group_patterns' = SetTop(group_patterns, e)
        BY <1>1, <1>3, EmptySeq DEF StacksType
    <2> HIDE DEF T, e
    <2>2. group_patterns' \in Seq(T) /\ Len(group_patterns') = Len(group_patterns)
        BY <1>3, <2>1, SetTopProperties
    <2> QED BY <2>2 DEF T
<1>5. /\ opt_operands' \in Seq(Seq(Vertex)) /\ Len(opt_operands') = Len(opt_operands) - 1
      /\ union_operands' \in Seq(Seq(Vertex)) /\ Len(union_operands') = Len(union_operands) - 1
    <2> DEFINE T == Seq(Vertex)
    <2>1. opt_operands \in Seq(T) /\ union_operands \in Seq(T)
        BY <1>3 DEF StacksType
    <2> HIDE DEF T
    <2>2. Pop(opt_operands) \in Seq(T) /\ Len(Pop(opt_operands)) = Len(opt_operands) - 1
        BY <1>3, <2>1, PopProperties
    <2>3. Pop(union_operands) \in Seq(T) /\ Len(Pop(union_operands)) = Len(union_operands) - 1
        BY <1>3, <2>1, PopProperties
    <2> QED BY <1>1, <2>2, <2>3 DEF T
<1>6. StacksType' /\ StacksFit'
    BY <1>1, <1>2, <1>3, <1>4, <1>5 DEF StacksType, StacksFit, Vertex
<1>7. ASSUME NEW x \in State, NEW y \in State, Covers(x), Moves(Head(visits), x, y) PROVE Covers(y)'
    <2>1. y.open = x.open /\ y.conj = x.conj - 1
        BY <1>1, <1>7, CallOf DEF Moves, Inside, Outside
    <2> QED BY <1>1, <1>4, <1>5, <1>7, <2>1 DEF Covers, BlocksAt
<1>8. error' = error
    BY <1>1
<1>9. CallsType' /\ Fits'
    BY <1>1, <1>6, <1>7, <1>8, ReturnFits
<1> QED BY <1>2, <1>6, <1>9 DEF Shape, GraphType

\* Where there is a conjunction, there is a group around the one that is open.
LEMMA ParentIsOpen ==
    ASSUME Shape, Calling("depend")
    PROVE  /\ Top(group_patterns) \in Seq(Vertex)
           /\ opt_operands # <<>> =>
                 /\ Len(group_patterns) - 1 \in 1..Len(group_patterns)
                 /\ group_patterns[Len(group_patterns) - 1] \in Seq(Vertex)
                 /\ union_operands # <<>>
<1>1. Len(group_patterns) = Len(opt_operands) + 1 /\ group_patterns # <<>>
    BY GroupIsOpen DEF Inside
<1>2. StacksType /\ StacksFit /\ Len(opt_operands) \in Nat
    BY Lengths DEF Shape, GraphType, Fits
<1>3. Top(group_patterns) \in Seq(Vertex)
    <2> DEFINE T == Seq(Vertex)
    <2>1. group_patterns \in Seq(T)
        BY <1>2 DEF StacksType
    <2> HIDE DEF T
    <2>2. Top(group_patterns) \in T
        BY <1>1, <2>1, TopProperties
    <2> QED BY <2>2 DEF T
<1>4. ASSUME opt_operands # <<>>
      PROVE  /\ Len(group_patterns) - 1 \in 1..Len(group_patterns)
             /\ group_patterns[Len(group_patterns) - 1] \in Seq(Vertex)
             /\ union_operands # <<>>
    <2>1. Len(opt_operands) \in Nat \ {0}
        BY <1>2, <1>4, EmptySeq DEF StacksType
    <2>2. Len(group_patterns) - 1 \in 1..Len(group_patterns)
        BY <1>1, <2>1
    <2>3. group_patterns[Len(group_patterns) - 1] \in Seq(Vertex)
        BY <1>2, <2>2, ElementOfSeq DEF StacksType
    <2>4. union_operands # <<>>
        BY <1>2, <2>1, EmptySeq DEF StacksFit
    <2> QED BY <2>2, <2>3, <2>4
<1> QED BY <1>3, <1>4

\* What the triples of a conjunction do to the stacks of its OPTIONAL groups.
LEMMA DependStacks ==
    ASSUME Shape, Calling("depend"), DependOnParent
    PROVE  /\ opt_operands' \in Seq(Seq(Vertex)) /\ Len(opt_operands') = Len(opt_operands) + 1
           /\ union_operands' \in Seq(Seq(Vertex)) /\ Len(union_operands') = Len(union_operands) + 1
<1>1. StacksType /\ StacksFit
    BY DEF Shape, GraphType, Fits
<1> DEFINE T == Seq(Vertex)
           e == <<>>
<1>2. opt_operands \in Seq(T) /\ union_operands \in Seq(T) /\ e \in T
    BY <1>1, EmptySeq DEF StacksType
<1>3. CASE opt_operands = <<>>
    <2>1. opt_operands' = <<e>> /\ union_operands' = <<e>>
        BY <1>3 DEF DependOnParent
    <2>2. Len(opt_operands) = 0 /\ Len(union_operands) = 0
        BY <1>1, <1>3, EmptySeq DEF StacksFit
    <2> HIDE DEF e, T
    <2>3. <<e>> \in Seq(T) /\ Len(<<e>>) = 1
        BY <1>2
    <2> QED BY <2>1, <2>2, <2>3 DEF T
<1>4. CASE opt_operands # <<>>
    <2> DEFINE cur == Top(group_patterns)
               a == AddTop(opt_operands, cur)
               b == AddTop(union_operands, cur)
    <2>1. cur \in Seq(Vertex) /\ union_operands # <<>>
        BY <1>4, ParentIsOpen
    <2>2. opt_operands' = Push(a, e) /\ union_operands' = Push(b, e)
        BY <1>4 DEF DependOnParent
    <2> HIDE DEF cur
    <2>3. a \in Seq(Seq(Vertex)) /\ Len(a) = Len(opt_operands)
        BY <1>2, <1>4, <2>1, AddTopProperties
    <2>4. b \in Seq(Seq(Vertex)) /\ Len(b) = Len(union_operands)
        BY <1>2, <2>1, AddTopProperties
    <2> HIDE DEF a, b, e
    <2>5. a \in Seq(T) /\ b \in Seq(T)
        BY <2>3, <2>4
    <2> HIDE DEF T
    <2>6. Push(a, e) \in Seq(T) /\ Len(Push(a, e)) = Len(a) + 1
        BY <1>2, <2>5, AppendFacts
    <2>7. Push(b, e) \in Seq(T) /\ Len(Push(b, e)) = Len(b) + 1
        BY <1>2, <2>5, AppendFacts
    <2> QED BY <2>2, <2>3, <2>4, <2>6, <2>7 DEF T
<1> QED BY <1>3, <1>4

LEMMA DependOdg ==
    ASSUME Shape, Calling("depend"), DependOnParent, UNCHANGED <<triple_patterns, operands>>
    PROVE  OdgType'
<1>1. OdgType /\ StacksType
    BY DEF Shape, GraphType
<1>2. CASE opt_operands = <<>>
    BY <1>1, <1>2 DEF DependOnParent, OdgType, Vertex, Edge
<1>3. CASE opt_operands # <<>>
    <2> DEFINE prev == group_patterns[Len(group_patterns) - 1]
               cur  == Top(group_patterns)
    <2>1. prev \in Seq(Vertex) /\ cur \in Seq(Vertex)
        BY <1>3, ParentIsOpen
    <2>2. dependencies' = dependencies \o group_dependencies(prev, cur)
          /\ connections' = connections \o group_connections(cur)
        BY <1>3 DEF DependOnParent
    <2> HIDE DEF prev, cur
    <2>3. group_dependencies(prev, cur) \in Seq(Edge) /\ group_connections(cur) \in Seq(Vertex \X Vertex)
        BY <1>1, <1>3, <2>1, DependenciesRange, ConnectionsRange
    <2>4. dependencies' \in Seq(Edge)
        BY <1>1, <2>2, <2>3, ConcatProperties DEF OdgType
    <2>5. connections' \in Seq(Vertex \X Vertex)
        <3> DEFINE E == Vertex \X Vertex
        <3>1. connections \in Seq(E) /\ group_connections(cur) \in Seq(E)
            BY <1>1, <2>3 DEF OdgType
        <3> HIDE DEF E
        <3>2. connections' \in Seq(E)
            BY <2>2, <3>1, ConcatProperties
        <3> QED BY <3>2 DEF E
    <2> QED BY <1>1, <2>4, <2>5 DEF OdgType, Vertex, Edge
<1> QED BY <1>2, <1>3

LEMMA OptionalsShape == ASSUME Shape, VisitOptionals PROVE Shape'
<1> DEFINE s == Calls("optional", Top(optional_blocks))
           t == <<Call("close", <<>>)>>
<1>1. /\ Calling("depend") /\ DependOnParent /\ Do(s \o t)
      /\ UNCHANGED <<nameVars, triple_patterns, operands, activeVars, groupVars, error>>
    BY DEF VisitOptionals
<1>2. /\ StacksType /\ StacksFit /\ optional_blocks # <<>>
      /\ UNCHANGED <<group_patterns, triples_blocks, optional_blocks>>
    BY <1>1, GroupIsOpen DEF Shape, GraphType, Fits, Inside, groupVars
<1>3. s \in Seq(Frame) /\ \A i \in 1..Len(s) : s[i].visit = "optional"
    <2>1. \A x \in Group : Call("optional", x) \in Frame
        BY DEF Call, Frame
    <2>2. Top(optional_blocks) \in Seq(Group)
        <3> DEFINE T == Seq(Group)
        <3>1. optional_blocks \in Seq(T)
            BY <1>2 DEF StacksType
        <3> HIDE DEF T
        <3>2. Top(optional_blocks) \in T
            BY <1>2, <3>1, TopProperties
        <3> QED BY <3>2 DEF T
    <2> QED BY <2>1, <2>2, CallsAreFrames
<1>4. t \in Seq(Frame) /\ Len(t) = 1 /\ t[1].visit = "close"
    <2>1. Call("close", <<>>) \in Frame
        BY DEF Call, Frame
    <2> QED BY <2>1, OneCall
<1>5. DependOnParent /\ Calling("depend") /\ Do(s \o t)
    BY <1>1
<1> HIDE DEF s, t
<1>6. NamesType' /\ OdgType'
    <2>1. NamesType'
        BY <1>1 DEF Shape, GraphType, NamesType, nameVars, activeVars
    <2> QED BY <1>1, <2>1, DependOdg
<1>7. /\ opt_operands' \in Seq(Seq(Vertex)) /\ Len(opt_operands') = Len(opt_operands) + 1
      /\ union_operands' \in Seq(Seq(Vertex)) /\ Len(union_operands') = Len(union_operands) + 1
    BY <1>5, DependStacks
<1>8. StacksType' /\ StacksFit'
    BY <1>1, <1>2, <1>7 DEF StacksType, StacksFit, Vertex
<1>9. ASSUME NEW x \in State, NEW y \in State, Covers(x), Moves(Head(visits), x, y)
      PROVE  \E z : Covers(z)' /\ MoveAll(s \o t, z, y)
    <2>1. Covers(y) /\ Len(y.open) = y.conj + 1
        BY <1>5, <1>9, LevelMoves DEF Inside
    <2>2. PICK z \in State : z.open = y.open /\ z.conj = y.conj + 1
        <3>1. [open |-> y.open, conj |-> y.conj + 1] \in State
            BY DEF State
        <3> QED BY <3>1
    <2>3. Covers(z)'
        BY <1>2, <1>7, <2>1, <2>2 DEF Covers, BlocksAt
    <2>4. y.conj \in Nat /\ z.conj >= 1 /\ Len(z.open) = z.conj /\ y.conj = z.conj - 1
        BY <2>1, <2>2 DEF State
    <2>5. \A i \in 1..Len(s) : Moves(s[i], z, z)
        BY <1>3, <2>4 DEF Moves
    <2>6. Moves(t[1], z, y)
        BY <1>4, <2>2, <2>4 DEF Moves
    <2>7. MoveAll(s, z, z) /\ MoveAll(t, z, y)
        BY <1>3, <1>4, <2>5, <2>6, MoveLevel, MoveOne
    <2>8. MoveAll(s \o t, z, y)
        BY <1>3, <1>4, <2>7, MoveOn
    <2> QED BY <2>3, <2>8
<1>10. s \o t \in Seq(Frame) /\ error' = error
    BY <1>1, <1>3, <1>4, ConcatProperties
<1>11. CallsType' /\ Fits'
    BY <1>5, <1>8, <1>9, <1>10, DoFits
<1> QED BY <1>6, <1>8, <1>11 DEF Shape, GraphType

\* Whatever is visited, what is still to be done fits the stacks.
LEMMA VisitShape == ASSUME Shape, Visit PROVE Shape'
BY PrologueShape, TriplesBlockShape, TriplesNodeShape, SubjectShape, PropertyListShape, PathShape,
   VerbShape, ObjectShape, SubqueryShape, PatternShape, ResizeShape, OptionalsShape, CloseShape,
   EnterShape, LeaveShape, SubSelectShape, WhereShape, EndShape, AsteriskShape, SelectShape,
   SelectVariableShape
   DEF Visit

LEMMA NothingShape == NothingParsed => Shape
<1> SUFFICES ASSUME NothingParsed PROVE Shape
    OBVIOUS
<1>1. NamesType
    <2>1. NoPrefixes \in PrefixMaps
        <3>1. NoPrefixes \in [{} -> Seq(STRING)]
            BY DEF NoPrefixes
        <3> QED BY <3>1 DEF PrefixMaps
    <2> QED BY <2>1, EmptySeq DEF NothingParsed, NamesType, Node
<1>2. OdgType /\ StacksType /\ CallsType
    BY EmptySeq DEF NothingParsed, OdgType, StacksType, CallsType
<1>3. Covers(Closed)
    BY EmptySeq DEF NothingParsed, Covers, Closed, State
<1>4. MoveAll(<<>>, Closed, Closed)
    BY <1>3, MoveNone DEF Covers
<1>5. Fits
    BY <1>3, <1>4 DEF NothingParsed, Fits, StacksFit
<1> QED BY <1>1, <1>2, <1>5 DEF Shape, GraphType

\* The text of a query is read into the calls that a parser makes.
LEMMA ParseShape ==
    ASSUME NothingParsed, NEW text \in Text, Parse(text),
           UNCHANGED <<nameVars, odgVars, activeVars, groupVars, optVars>>
    PROVE  Shape'
<1>1. NamesType' /\ OdgType' /\ StacksType' /\ StacksFit' /\ Covers(Closed)' /\ Closed \in State
    <2>1. Shape
        BY NothingShape
    <2>2. NamesType' /\ OdgType' /\ operands' = operands
        BY <2>1, SameData
    <2>3. StacksType' /\ StacksFit' /\ \A x : Covers(x) => Covers(x)'
        BY <2>1, <2>2, SameStacks
    <2>4. Covers(Closed)
        BY EmptySeq DEF NothingParsed, Covers, Closed, State
    <2> QED BY <2>2, <2>3, <2>4 DEF Covers
<1>2. CASE text.form \notin {"select", "ask"} \/ text.prologue.base
    <2>1. error' = "thrown" /\ visits' = <<>>
        BY <1>2 DEF Parse, NothingParsed
    <2> QED BY <1>1, <2>1, EmptySeq DEF Shape, GraphType, CallsType, Fits
<1>3. CASE ~(text.form \notin {"select", "ask"} \/ text.prologue.base)
    <2> DEFINE s == Calls("prefix", text.prologue.prefixes)
               t == <<Call("where", text.where)>>
               u == IF text.form = "ask" THEN <<>> ELSE <<Call("select", text.select)>>
    <2>1. error' = "none" /\ visits' = s \o t \o u
        BY <1>3 DEF Parse, NothingParsed
    <2>2. s \in Seq(Frame) /\ \A i \in 1..Len(s) : s[i].visit = "prefix"
        <3>1. \A x \in Declaration : Call("prefix", x) \in Frame
            BY DEF Call, Frame
        <3>2. text.prologue.prefixes \in Seq(Declaration)
            BY DEF Text
        <3> QED BY <3>1, <3>2, CallsAreFrames
    <2>3. t \in Seq(Frame) /\ Len(t) = 1 /\ t[1].visit = "where"
        <3>1. Call("where", text.where) \in Frame
            BY DEF Call, Frame, Text
        <3> QED BY <3>1, OneCall
    <2>4. u \in Seq(Frame) /\ \A i \in 1..Len(u) : u[i].visit = "select"
        <3>1. CASE text.form = "ask"
            BY <3>1, EmptySeq
        <3>2. CASE text.form # "ask"
            <4>1. Call("select", text.select) \in Frame
                BY DEF Call, Frame, Text
            <4>2. <<Call("select", text.select)>> \in Seq(Frame)
                  /\ Len(<<Call("select", text.select)>>) = 1 /\ <<Call("select", text.select)>>[1].visit = "select"
                BY <4>1, OneCall
            <4> QED BY <3>2, <4>2
        <3> QED BY <3>1, <3>2
    <2> HIDE DEF s, t, u
    <2> DEFINE v == s \o t \o u
    <2>5. v \in Seq(Frame) /\ \A i \in 1..Len(v) : v[i].visit \in Outside
        <3>1. s \o t \in Seq(Frame) /\ \A i \in 1..Len(s \o t) : (s \o t)[i].visit \in Outside
            BY SMTT(30), <2>2, <2>3, ConcatProperties DEF Outside
        <3> DEFINE w == s \o t
        <3> HIDE DEF w
        <3>2. w \o u \in Seq(Frame) /\ \A i \in 1..Len(w \o u) : (w \o u)[i].visit \in Outside
            BY <2>4, <3>1, ConcatProperties DEF Outside, w
        <3> QED BY <3>2 DEF w
    <2>6. visits' = v
        BY <2>1
    <2> HIDE DEF v
    <2>7. \A i \in 1..Len(v) : Moves(v[i], Closed, Closed)
        BY <2>5 DEF Moves
    <2>8. MoveAll(v, Closed, Closed)
        BY <1>1, <2>5, <2>7, MoveLevel
    <2> QED BY <1>1, <2>1, <2>5, <2>6, <2>8 DEF Shape, GraphType, CallsType, Fits
<1> QED BY <1>2, <1>3

\* When nothing is left to be done the stacks are empty.
LEMMA EndedStacks ==
    ASSUME Shape, visits = <<>>, error = "none"
    PROVE  /\ group_patterns = <<>> /\ triples_blocks = <<>> /\ optional_blocks = <<>>
           /\ opt_operands = <<>> /\ union_operands = <<>>
<1>1. PICK x : Covers(x) /\ MoveAll(<<>>, x, Closed)
    BY DEF Shape, Fits
<1>2. Len(<<>>) = 0
    BY EmptySeq
<1>3. x = Closed
    BY <1>1, <1>2 DEF MoveAll, Along
<1>4. Len(x.open) = 0 /\ x.conj = 0
    BY <1>2, <1>3 DEF Closed
<1>5. /\ Len(group_patterns) = 0 /\ Len(triples_blocks) = 0 /\ Len(optional_blocks) = 0
      /\ Len(opt_operands) = 0 /\ Len(union_operands) = 0
    BY <1>1, <1>4 DEF Covers, Shape, Fits, StacksFit
<1> QED BY <1>5, EmptySeq DEF Shape, GraphType, StacksType

\* Every call finds the stacks it takes something from.
LEMMA StacksAreFound ==
    ASSUME Shape, visits # <<>>
    PROVE  LET call == Head(visits).visit IN
           /\ call \in {"object", "pattern", "resize", "depend", "close", "leave", "end"} =>
                  group_patterns # <<>> /\ triples_blocks # <<>> /\ optional_blocks # <<>>
           /\ call \in {"close", "leave"} => opt_operands # <<>> /\ union_operands # <<>>
           /\ call = "depend" /\ opt_operands # <<>> => Len(group_patterns) > 1 /\ union_operands # <<>>
           /\ call = "resize" => Arg[1] <= Len(Top(triples_blocks)) /\ Arg[2] <= Len(Top(optional_blocks))
<1> DEFINE call == Head(visits).visit
<1>1. Calling(call)
    BY DEF Calling
<1> HIDE DEF call
<1>2. ASSUME call \in {"object", "pattern", "resize", "depend"}
      PROVE  group_patterns # <<>> /\ triples_blocks # <<>> /\ optional_blocks # <<>>
    <2>1. call \in Inside
        BY <1>2 DEF Inside
    <2> QED BY <1>1, <2>1, GroupIsOpen
<1>3. ASSUME call \in {"close", "leave", "end"}
      PROVE  group_patterns # <<>> /\ triples_blocks # <<>> /\ optional_blocks # <<>>
    <2>1. Calling("close") \/ Calling("leave") \/ Calling("end")
        BY <1>1, <1>3
    <2>2. group_patterns # <<>>
        BY <2>1, EndNeeds
    <2> QED BY <2>2, EmptySeq DEF Shape, Fits, StacksFit, GraphType, StacksType
<1>4. call \in {"close", "leave"} => opt_operands # <<>> /\ union_operands # <<>>
    BY <1>1, EndNeeds
<1>5. ASSUME call = "depend", opt_operands # <<>>
      PROVE  Len(group_patterns) > 1 /\ union_operands # <<>>
    <2>1. Calling("depend") /\ Len(group_patterns) \in Nat
        BY <1>1, <1>5, Lengths DEF Shape, GraphType
    <2> QED BY <1>5, <2>1, ParentIsOpen
<1>6. call = "resize" => Arg[1] <= Len(Top(triples_blocks)) /\ Arg[2] <= Len(Top(optional_blocks))
    BY <1>1, ResizeFits
<1> QED BY <1>2, <1>3, <1>4, <1>5, <1>6 DEF call

-----------------------------------------------------------------------------
(* Names and IDs.                                                           *)

Apart(s) == \A i, j \in 1..Len(s) : s[i] = s[j] => i = j

Known(node) == IsVar(node) => node \in Range(var_to_id)

\* The names in the triple patterns and the IDs in the operands stay in step.
Aligned == /\ Apart(var_to_id)
           /\ Len(operands) = Len(triple_patterns)
           /\ \A i \in 1..Len(operands) : operands[i] = Ids(var_to_id, triple_patterns[i])
           /\ \A i \in 1..Len(triple_patterns) :
                  \A v \in Range(Variables(triple_patterns[i])) : v \in Range(var_to_id)
           /\ \A v \in Range(projected_variables) : v \in Range(var_to_id)
           /\ Known(active_subject) /\ Known(active_predicate)

alignVars == <<projected_variables, var_to_id, triple_patterns, operands, active_subject, active_predicate>>

\* The ID of a variable that comes up once is its place.
LEMMA IdAt ==
    ASSUME NEW S, NEW s \in Seq(S), Apart(s), NEW i \in 1..Len(s)
    PROVE  IdOf(s, s[i]) = ((i - 1) % Letters) + 1
<1>1. Len(s) \in Nat /\ DOMAIN s = 1..Len(s)
    BY LenProperties
<1>2. s[i] \in Range(s)
    BY <1>1 DEF Range
<1>3. (CHOOSE j \in DOMAIN s : s[j] = s[i]) = i
    BY <1>1 DEF Apart
<1> QED BY <1>2, <1>3 DEF IdOf

\* A variable keeps its ID when another one is registered.
LEMMA RegisteredKeeps ==
    ASSUME NamesType, Apart(var_to_id), NEW node \in Node
    PROVE  LET s == Registered(node) IN
           /\ Apart(s)
           /\ \A v \in Range(var_to_id) : v \in Range(s) /\ IdOf(s, v) = IdOf(var_to_id, v)
           /\ IsVar(node) => node \in Range(s)
<1> DEFINE s == Registered(node)
<1>1. /\ var_to_id \in Seq(Node) /\ Len(var_to_id) \in Nat
      /\ Range(var_to_id) = {var_to_id[i] : i \in 1..Len(var_to_id)}
    BY LenProperties, RangeEquality DEF NamesType
<1>2. s \in Seq(Node) /\ Range(s) = Range(var_to_id) \cup (IF IsVar(node) THEN {node} ELSE {})
    BY RegisteredType
<1>3. CASE IsVar(node) /\ node \notin Range(var_to_id)
    <2>1. s = Append(var_to_id, node)
        BY <1>3 DEF Registered
    <2> HIDE DEF s
    <2>2. /\ Len(s) = Len(var_to_id) + 1 /\ s[Len(var_to_id) + 1] = node
          /\ \A i \in 1..Len(var_to_id) : s[i] = var_to_id[i]
        BY <1>1, <2>1, AppendProperties
    <2>3. \A i \in 1..Len(var_to_id) : s[i] # node
        BY <1>1, <1>3, <2>2
    <2>4. Apart(s)
        <3> SUFFICES ASSUME NEW i \in 1..Len(s), NEW j \in 1..Len(s), s[i] = s[j] PROVE i = j
            BY DEF Apart
        <3>1. CASE i \in 1..Len(var_to_id) /\ j \in 1..Len(var_to_id)
            BY <2>2, <3>1 DEF Apart
        <3>2. CASE i \notin 1..Len(var_to_id)
            BY <1>1, <2>2, <2>3, <3>2
        <3>3. CASE j \notin 1..Len(var_to_id)
            BY <1>1, <2>2, <2>3, <3>3
        <3> QED BY <3>1, <3>2, <3>3
    <2>5. ASSUME NEW v \in Range(var_to_id) PROVE IdOf(s, v) = IdOf(var_to_id, v)
        <3>1. PICK i \in 1..Len(var_to_id) : v = var_to_id[i]
            BY <1>1
        <3>2. i \in 1..Len(s) /\ v = s[i]
            BY <1>1, <2>2, <3>1
        <3>3. IdOf(s, v) = ((i - 1) % Letters) + 1
            BY <1>2, <2>4, <3>2, IdAt
        <3>4. IdOf(var_to_id, v) = ((i - 1) % Letters) + 1
            BY <1>1, <3>1, IdAt
        <3> QED BY <3>3, <3>4
    <2> QED BY <1>2, <1>3, <2>4, <2>5 DEF s
<1>4. CASE ~(IsVar(node) /\ node \notin Range(var_to_id))
    BY <1>4 DEF Registered
<1> QED BY <1>3, <1>4

LEMMA IdsKept ==
    ASSUME NEW s, NEW t, NEW tp \in TriplePattern,
           \A v \in Range(Variables(tp)) : IdOf(t, v) = IdOf(s, v)
    PROVE  Ids(t, tp) = Ids(s, tp)
<1>1. \A k \in DOMAIN Variables(tp) : Variables(tp)[k] \in Range(Variables(tp))
    BY DEF Range
<1> QED BY <1>1 DEF Ids

\* With a variable more the triple patterns have the operands they had.
LEMMA RegisterAligned ==
    ASSUME NamesType, OdgType, Aligned, NEW node \in Node
    PROVE  LET s == Registered(node) IN
           /\ \A i \in 1..Len(operands) : operands[i] = Ids(s, triple_patterns[i])
           /\ \A i \in 1..Len(triple_patterns) :
                  \A v \in Range(Variables(triple_patterns[i])) : v \in Range(s)
           /\ \A v \in Range(projected_variables) : v \in Range(s)
           /\ IsVar(active_subject) => active_subject \in Range(s)
           /\ IsVar(active_predicate) => active_predicate \in Range(s)
<1> DEFINE s == Registered(node)
<1>1. \A v \in Range(var_to_id) : v \in Range(s) /\ IdOf(s, v) = IdOf(var_to_id, v)
    BY RegisteredKeeps DEF Aligned
<1> HIDE DEF s
<1>2. ASSUME NEW i \in 1..Len(operands) PROVE operands[i] = Ids(s, triple_patterns[i])
    <2>1. triple_patterns[i] \in TriplePattern /\ i \in 1..Len(triple_patterns)
        BY ElementOfSeq DEF OdgType, Aligned, TriplePattern
    <2>2. Ids(s, triple_patterns[i]) = Ids(var_to_id, triple_patterns[i])
        BY <1>1, <2>1, IdsKept DEF Aligned
    <2> QED BY <2>2 DEF Aligned
<1> QED BY <1>1, <1>2 DEF s, Aligned, Known

LEMMA SubjectStep ==
    ASSUME Shape, visitTriplesSameSubjectPath
    PROVE  \/ UNCHANGED alignVars
           \/ \E node \in Node : /\ active_subject' = node /\ var_to_id' = Registered(node)
                                 /\ UNCHANGED <<projected_variables, triple_patterns, operands, active_predicate>>
<1> DEFINE node == visitVarOrTerm(prefixes, Arg.subject)
<1>1. Calling("subject") /\ Arg \in SameSubject
    BY ArgType DEF visitTriplesSameSubjectPath
<1>2. node \in Visited
    BY <1>1, TermType DEF SameSubject, Shape, GraphType, NamesType
<1>3. CASE Failed(node)
    BY <1>3 DEF visitTriplesSameSubjectPath, Throw, alignVars, nameVars, odgVars, activeVars
<1>4. CASE ~Failed(node)
    <2>1. /\ active_subject' = node /\ register_var(node)
          /\ UNCHANGED <<projected_variables, odgVars, active_predicate>>
        BY <1>4 DEF visitTriplesSameSubjectPath
    <2> QED BY <1>2, <1>4, <2>1, NotFailed DEF register_var, odgVars
<1> QED BY <1>3, <1>4

LEMMA VerbStep ==
    ASSUME Shape, visitVerbPath
    PROVE  \/ UNCHANGED alignVars
           \/ \E node \in Node : /\ active_predicate' = node /\ var_to_id' = Registered(node)
                                 /\ UNCHANGED <<projected_variables, triple_patterns, operands, active_subject>>
<1> DEFINE node == visitVerb(prefixes, Arg)
<1>1. Calling("verb") /\ Arg \in Verb /\ ~IsNested(Arg)
    BY ArgType DEF visitVerbPath
<1>2. node \in Visited
    BY <1>1, VerbType DEF Shape, GraphType, NamesType
<1>3. CASE Failed(node)
    BY <1>3 DEF visitVerbPath, Throw, alignVars, nameVars, odgVars, activeVars
<1>4. CASE ~Failed(node)
    <2>1. /\ active_predicate' = node /\ register_var(node)
          /\ UNCHANGED <<projected_variables, odgVars, active_subject>>
        BY <1>4 DEF visitVerbPath
    <2> QED BY <1>2, <1>4, <2>1, NotFailed DEF register_var, odgVars
<1> QED BY <1>3, <1>4

LEMMA SelectStep ==
    ASSUME Shape, visitSelectVariable
    PROVE  \/ UNCHANGED alignVars
           \/ \E node \in Node : /\ IsVar(node) /\ var_to_id' = Registered(node)
                                 /\ projected_variables' = Append(projected_variables, node)
                                 /\ UNCHANGED <<triple_patterns, operands, active_subject, active_predicate>>
<1>1. Calling("variable") /\ Arg \in Selection
    BY ArgType DEF visitSelectVariable
<1>2. CASE Arg[1] # "var"
    BY <1>2 DEF visitSelectVariable, Throw, alignVars, nameVars, odgVars, activeVars
<1>3. CASE Arg[1] = "var"
    <2> DEFINE node == Var(Arg[2])
    <2>1. /\ register_var(node) /\ projected_variables' = Append(projected_variables, node)
          /\ UNCHANGED <<odgVars, activeVars>>
        BY <1>3 DEF visitSelectVariable
    <2>2. node \in Node /\ IsVar(node)
        BY <1>1, <1>3 DEF Selection, Var, Node, IsVar
    <2> HIDE DEF node
    <2> QED BY <2>1, <2>2 DEF register_var, odgVars, activeVars
<1> QED BY <1>2, <1>3

\* Only where a variable can come in are names and IDs touched.
LEMMA OthersAlign ==
    ASSUME Visit, ~visitTriplesSameSubjectPath, ~visitVerbPath, ~visitObject, ~visitAsterisk,
           ~visitSelectVariable
    PROVE  UNCHANGED alignVars
BY DEF Visit, visitPrologue, visitTriplesBlock, visitTriplesNode, visitPropertyListPath, visitPath,
       visitSubquery, visitWellDesignedPattern, Resize, VisitOptionals, CloseConjunction, EnterOptional,
       LeaveOptional, visitSubSelect, visitWhereClause, EndWhereClause, visitSelectClause, Throw,
       alignVars, nameVars, odgVars, activeVars

LEMMA SameAligned == ASSUME Aligned, UNCHANGED alignVars PROVE Aligned'
BY DEF Aligned, Known, alignVars

LEMMA ObjectAligned == ASSUME Shape, Aligned, visitObject PROVE Aligned'
<1>1. CASE error' \in {"thrown", "crashed"}
    <2>1. error = "none"
        BY CallOf DEF visitObject
    <2> QED BY <1>1, <2>1, SameAligned DEF visitObject, Throw, alignVars, nameVars, odgVars, activeVars
<1>2. CASE error' \notin {"thrown", "crashed"}
    <2>1. PICK node \in Node :
             LET tp == <<active_subject, active_predicate, node>>
                 ids == Ids(var_to_id', tp)
             IN  /\ tp \in TriplePattern /\ var_to_id' = Registered(node) /\ ids \in Seq(Label)
                 /\ triple_patterns' = Append(triple_patterns, tp)
                 /\ operands' = Append(operands, ids)
                 /\ UNCHANGED <<projected_variables, activeVars>>
        BY <1>2, ObjectStep
    <2> DEFINE tp == <<active_subject, active_predicate, node>>
               ids == Ids(var_to_id', tp)
               n == Len(operands)
    <2>2. NamesType /\ OdgType
        BY DEF Shape, GraphType
    <2>3. /\ \A i \in 1..n : operands[i] = Ids(var_to_id', triple_patterns[i])
          /\ \A i \in 1..n : \A v \in Range(Variables(triple_patterns[i])) : v \in Range(var_to_id')
          /\ \A v \in Range(projected_variables) : v \in Range(var_to_id')
          /\ IsVar(active_subject) => active_subject \in Range(var_to_id')
          /\ IsVar(active_predicate) => active_predicate \in Range(var_to_id')
        BY <2>1, <2>2, RegisterAligned DEF Aligned
    <2>4. Apart(var_to_id') /\ (IsVar(node) => node \in Range(var_to_id'))
        BY <2>1, <2>2, RegisteredKeeps DEF Aligned
    <2>5. ASSUME NEW v \in Range(Variables(tp)) PROVE v \in Range(var_to_id')
        <3>1. PICK i \in 1..3 : v = tp[i] /\ IsVar(tp[i])
            BY <2>1, VariablesRange
        <3> QED BY <2>3, <2>4, <3>1
    <2> HIDE DEF tp, ids
    <2>6. /\ triple_patterns' = Append(triple_patterns, tp) /\ operands' = Append(operands, ids)
          /\ tp \in TriplePattern /\ ids \in Seq(Label)
          /\ UNCHANGED <<projected_variables, active_subject, active_predicate>>
        BY <2>1 DEF tp, ids, activeVars
    <2>7. /\ Len(operands') = n + 1 /\ operands'[n + 1] = ids /\ \A i \in 1..n : operands'[i] = operands[i]
          /\ n \in Nat
        <3> DEFINE T == Seq(Label)
        <3>1. operands \in Seq(T) /\ ids \in T
            BY <2>2, <2>6 DEF OdgType
        <3> HIDE DEF T
        <3> QED BY <2>6, <3>1, AppendProperties, LenProperties
    <2>8. /\ Len(triple_patterns') = n + 1 /\ triple_patterns'[n + 1] = tp
          /\ \A i \in 1..n : triple_patterns'[i] = triple_patterns[i]
        <3>1. triple_patterns \in Seq(TriplePattern) /\ Len(triple_patterns) = n
            BY <2>2 DEF OdgType, TriplePattern, Aligned
        <3> QED BY <2>6, <3>1, AppendProperties
    <2> HIDE DEF n
    <2>9. \A i \in 1..(n + 1) : i \in 1..n \/ i = n + 1
        BY <2>7
    <2>10. \A i \in 1..(n + 1) : operands'[i] = Ids(var_to_id', triple_patterns'[i])
        BY <2>3, <2>7, <2>8, <2>9 DEF ids
    <2>11. \A i \in 1..(n + 1) : \A v \in Range(Variables(triple_patterns'[i])) : v \in Range(var_to_id')
        BY <2>3, <2>5, <2>8, <2>9
    <2> QED BY <2>3, <2>4, <2>6, <2>7, <2>8, <2>10, <2>11 DEF Aligned, Known
<1> QED BY <1>1, <1>2

LEMMA AsteriskAligned == ASSUME Shape, Aligned, visitAsterisk PROVE Aligned'
<1>1. CASE error' # "none"
    <2>1. error = "none"
        BY CallOf DEF visitAsterisk
    <2> QED BY <1>1, <2>1, SameAligned DEF visitAsterisk, Throw, alignVars, nameVars, odgVars, activeVars
<1>2. CASE error' = "none"
    <2>1. /\ UNCHANGED <<var_to_id, triple_patterns, operands, active_subject, active_predicate>>
          /\ \A v \in Range(projected_variables') :
                  \E i \in 1..Len(triple_patterns) : v \in Range(Variables(triple_patterns[i]))
        BY <1>2, AsteriskStep DEF odgVars, activeVars
    <2> QED BY <2>1 DEF Aligned, Known
<1> QED BY <1>1, <1>2

\* A variable is registered before the IDs of a triple pattern are taken.
LEMMA VisitAligned == ASSUME Shape, Aligned, Visit PROVE Aligned'
<1>1. NamesType /\ OdgType
    BY DEF Shape, GraphType
<1>2. ASSUME UNCHANGED <<triple_patterns, operands>>, NEW node \in Node, var_to_id' = Registered(node)
      PROVE  /\ Apart(var_to_id') /\ (IsVar(node) => node \in Range(var_to_id'))
             /\ Len(operands') = Len(triple_patterns')
             /\ \A i \in 1..Len(operands') : operands'[i] = Ids(var_to_id', triple_patterns'[i])
             /\ \A i \in 1..Len(triple_patterns') :
                    \A v \in Range(Variables(triple_patterns'[i])) : v \in Range(var_to_id')
             /\ \A v \in Range(projected_variables) : v \in Range(var_to_id')
             /\ IsVar(active_subject) => active_subject \in Range(var_to_id')
             /\ IsVar(active_predicate) => active_predicate \in Range(var_to_id')
    <2>1. Apart(var_to_id') /\ (IsVar(node) => node \in Range(var_to_id'))
        BY <1>1, <1>2, RegisteredKeeps DEF Aligned
    <2> QED BY <1>1, <1>2, <2>1, RegisterAligned DEF Aligned
<1>3. CASE visitTriplesSameSubjectPath
    <2>1. CASE UNCHANGED alignVars
        BY <2>1, SameAligned
    <2>2. CASE \E node \in Node :
                  /\ active_subject' = node /\ var_to_id' = Registered(node)
                  /\ UNCHANGED <<projected_variables, triple_patterns, operands, active_predicate>>
        BY <1>2, <2>2 DEF Aligned, Known
    <2> QED BY <1>3, <2>1, <2>2, SubjectStep
<1>4. CASE visitVerbPath
    <2>1. CASE UNCHANGED alignVars
        BY <2>1, SameAligned
    <2>2. CASE \E node \in Node :
                  /\ active_predicate' = node /\ var_to_id' = Registered(node)
                  /\ UNCHANGED <<projected_variables, triple_patterns, operands, active_subject>>
        BY <1>2, <2>2 DEF Aligned, Known
    <2> QED BY <1>4, <2>1, <2>2, VerbStep
<1>5. CASE visitSelectVariable
    <2>1. CASE UNCHANGED alignVars
        BY <2>1, SameAligned
    <2>2. ASSUME NEW node \in Node, IsVar(node), var_to_id' = Registered(node),
                 projected_variables' = Append(projected_variables, node),
                 UNCHANGED <<triple_patterns, operands, active_subject, active_predicate>>
          PROVE  Aligned'
        <3>1. Range(projected_variables') = Range(projected_variables) \cup {node}
            BY <1>1, <2>2, RangeAppend DEF NamesType
        <3> QED BY <1>2, <2>2, <3>1 DEF Aligned, Known
    <2> QED BY <1>5, <2>1, <2>2, SelectStep
<1> QED BY <1>3, <1>4, <1>5, ObjectAligned, AsteriskAligned, OthersAlign, SameAligned

LEMMA NothingAligned == NothingParsed => Aligned
<1> SUFFICES ASSUME NothingParsed PROVE Aligned
    OBVIOUS
<1>1. /\ projected_variables = <<>> /\ var_to_id = <<>> /\ triple_patterns = <<>> /\ operands = <<>>
      /\ active_subject = NoNode /\ active_predicate = NoNode
    BY DEF NothingParsed
<1>2. ~IsVar(NoNode)
    BY DEF IsVar, NoNode
<1>3. Len(<<>>) = 0 /\ Range(<<>>) = {}
    BY EmptySeq, RangeEmpty
<1> QED BY <1>1, <1>2, <1>3 DEF Aligned, Known, Apart

\* What the alignment says of a query.
LEMMA AlignedIds ==
    ASSUME NamesType, OdgType, Aligned
    PROVE  LET mentioned == (UNION {Range(Variables(triple_patterns[i])) : i \in DOMAIN triple_patterns})
                            \cup Range(projected_variables) IN
           /\ Len(operands) = Len(triple_patterns)
           /\ \A i \in DOMAIN operands : operands[i] = Ids(var_to_id, triple_patterns[i])
           /\ \A v \in mentioned : IdOf(var_to_id, v) \in 1..Letters
           /\ Len(var_to_id) <= Letters => \A v, w \in mentioned :
                                  IdOf(var_to_id, v) = IdOf(var_to_id, w) => v = w
<1> DEFINE mentioned == (UNION {Range(Variables(triple_patterns[i])) : i \in DOMAIN triple_patterns})
                        \cup Range(projected_variables)
<1>1. /\ DOMAIN operands = 1..Len(operands) /\ DOMAIN triple_patterns = 1..Len(triple_patterns)
    BY LenProperties DEF OdgType
<1>2. ASSUME NEW v \in mentioned PROVE v \in Range(var_to_id)
    <2>1. ASSUME NEW i \in DOMAIN triple_patterns, v \in Range(Variables(triple_patterns[i]))
          PROVE  v \in Range(var_to_id)
        BY <1>1, <2>1 DEF Aligned
    <2>2. CASE v \in Range(projected_variables)
        BY <2>2 DEF Aligned
    <2>3. CASE v \notin Range(projected_variables)
        <3> DEFINE D == DOMAIN triple_patterns
                   F(i) == Range(Variables(triple_patterns[i]))
        <3>1. v \in UNION {F(i) : i \in D}
            BY <1>2, <2>3
        <3> HIDE DEF D, F
        <3>2. PICK i \in D : v \in F(i)
            BY <3>1
        <3> QED BY <2>1, <3>2 DEF D, F
    <2> QED BY <2>2, <2>3
<1>3. /\ var_to_id \in Seq(Node) /\ Len(var_to_id) \in Nat
      /\ Range(var_to_id) = {var_to_id[i] : i \in 1..Len(var_to_id)}
    BY LenProperties, RangeEquality DEF NamesType
<1> HIDE DEF mentioned
<1>4. \A v \in mentioned : IdOf(var_to_id, v) \in 1..Letters
    BY <1>2, <1>3, IdOfType
<1>5. ASSUME Len(var_to_id) <= Letters, NEW v \in mentioned, NEW w \in mentioned,
             IdOf(var_to_id, v) = IdOf(var_to_id, w)
      PROVE  v = w
    <2>1. PICK i \in 1..Len(var_to_id) : v = var_to_id[i]
        BY <1>2, <1>3
    <2>2. PICK j \in 1..Len(var_to_id) : w = var_to_id[j]
        BY <1>2, <1>3
    <2>3. IdOf(var_to_id, v) = ((i - 1) % Letters) + 1 /\ IdOf(var_to_id, w) = ((j - 1) % Letters) + 1
        BY <1>3, <2>1, <2>2, IdAt DEF Aligned
    <2>4. ASSUME NEW k \in 0..(Letters - 1) PROVE k % Letters = k
        BY LettersAssumption, SMT
    <2>5. i - 1 \in 0..(Letters - 1) /\ j - 1 \in 0..(Letters - 1)
        BY <1>3, <1>5, LettersAssumption
    <2>6. (i - 1) % Letters = i - 1 /\ (j - 1) % Letters = j - 1
        BY <2>4, <2>5
    <2> QED BY <1>5, <2>1, <2>2, <2>3, <2>6
<1> QED BY <1>1, <1>4, <1>5 DEF Aligned, mentioned

-----------------------------------------------------------------------------
(* The graph.                                                               *)

Deps  == Range(dependencies)
Conns == Range(connections)

\* The operands of the l-th group, and of the parts of its OPTIONAL groups that
\* have been visited.
Pattern(l)     == Range(group_patterns[l])
Optionals(l)   == Range(opt_operands[l])
LabelsOf(a, b) == Labels(operands[a], operands[b])

\* A dependency is an edge between two operands, labelled with what they share;
\* an edge from a later to an earlier operand goes the other way, too.
DepsSound == \A a, b \in Vertex, x \in Label :
                 <<a, b, x>> \in Deps => /\ a # b /\ x \in LabelsOf(a, b)
                                         /\ b < a => <<b, a, x>> \in Deps

\* A connection goes both ways, and between operands that do not depend on
\* each other.
ConnsSound == \A a, b \in Vertex :
                  <<a, b>> \in Conns => /\ a # b /\ <<b, a>> \in Conns
                                        /\ \A x \in Label : <<a, b, x>> \notin Deps

\* What is within a group comes after what is in it.
Ordered == /\ \A j \in 1..Len(group_patterns) : \A i \in 1..(j - 1) :
                  \A a \in Pattern(i), b \in Pattern(j) : a < b
           /\ \A i \in 1..Len(group_patterns) : i <= Len(opt_operands) =>
                  \A a \in Pattern(i), b \in Optionals(i) : a < b

Together(a, b) == \A x \in LabelsOf(a, b) : <<a, b, x>> \in Deps

\* The operands of a group are joined, and so is a group with the one it is in.
Joined == /\ \A i \in 1..Len(group_patterns) :
                 \A a, b \in Pattern(i) : a # b => Together(a, b)
          /\ \A i \in 2..Len(opt_operands) : i <= Len(group_patterns) =>
                 \A a \in Pattern(i - 1), b \in Pattern(i) : Together(a, b)

\* Before its conjunction is at its end, what is in a group is joined with
\* nothing else, and comes after what is in the OPTIONAL groups before it.
Collecting == Len(group_patterns) = Len(opt_operands) + 1
Fresh == Collecting =>
             \A a \in Pattern(Len(group_patterns)) :
                 /\ opt_operands # <<>> => \A b \in Optionals(Len(opt_operands)) : b < a
                 /\ \A b \in Vertex : <<a, b>> \notin Conns
                 /\ \A b \in Vertex, x \in Label :
                        <<a, b, x>> \in Deps \/ <<b, a, x>> \in Deps => b \in Pattern(Len(group_patterns))

GraphInv == DepsSound /\ ConnsSound /\ Ordered /\ Joined /\ Fresh

theGraph == <<operands, dependencies, connections, group_patterns, opt_operands>>

LEMMA SameGraph == ASSUME GraphInv, UNCHANGED theGraph PROVE GraphInv'
BY DEF GraphInv, theGraph, DepsSound, ConnsSound, Ordered, Joined, Fresh, Together, Collecting, LabelsOf,
       Pattern, Optionals, Deps, Conns, Vertex, Label

LEMMA NothingGraph == NothingParsed => GraphInv
<1> SUFFICES ASSUME NothingParsed PROVE GraphInv
    OBVIOUS
<1>1. Len(operands) = 0 /\ Len(group_patterns) = 0 /\ Len(opt_operands) = 0
    BY EmptySeq DEF NothingParsed
<1>2. Vertex = {}
    BY <1>1 DEF Vertex
<1> QED BY <1>1, <1>2 DEF GraphInv, DepsSound, ConnsSound, Ordered, Joined, Fresh, Collecting

LEMMA OthersDraw ==
    ASSUME Visit, ~visitObject, ~VisitOptionals, ~CloseConjunction, ~EnterOptional, ~LeaveOptional,
           ~visitWhereClause, ~EndWhereClause
    PROVE  UNCHANGED theGraph
BY DEF Visit, visitPrologue, visitTriplesBlock, visitTriplesNode, visitTriplesSameSubjectPath,
       visitPropertyListPath, visitPath, visitVerbPath, visitSubquery, visitWellDesignedPattern, Resize,
       visitSubSelect, visitAsterisk, visitSelectClause, visitSelectVariable, Throw,
       theGraph, odgVars, groupVars, optVars

\* How many groups and conjunctions there are at the end of one.
LEMMA Heights ==
    ASSUME Shape
    PROVE  /\ Calling("end") \/ Calling("leave") => Collecting
           /\ Calling("close") => Len(group_patterns) = Len(opt_operands)
<1>1. ASSUME NEW f \in {"end", "leave", "close"}, Calling(f)
      PROVE  Len(group_patterns) = IF f = "close" THEN Len(opt_operands) ELSE Len(opt_operands) + 1
    <2>1. PICK x, y \in State : Covers(x) /\ Moves(Head(visits), x, y)
        BY <1>1, CallOf
    <2>2. Head(visits).visit = f /\ x.conj \in Nat
        BY <1>1, CallOf DEF State
    <2>3. Len(x.open) = IF f = "close" THEN x.conj ELSE x.conj + 1
        <3>1. CASE f = "end"
            <4>1. Len(x.open) = 1 /\ x.conj = 0
                BY <2>1, <2>2, <3>1 DEF Moves, Inside, Outside
            <4> QED BY <3>1, <4>1
        <3>2. CASE f = "leave"
            BY <2>1, <2>2, <3>2 DEF Moves, Inside, Outside
        <3>3. CASE f = "close"
            BY <2>1, <2>2, <3>3 DEF Moves, Inside, Outside
        <3> QED BY <3>1, <3>2, <3>3
    <2> QED BY <2>1, <2>3 DEF Covers
<1> QED BY <1>1 DEF Collecting

LEMMA EnterGraph ==
    ASSUME StacksType, GraphInv, EnterGroup, UNCHANGED <<operands, dependencies, connections, opt_operands>>
    PROVE  GraphInv'
<1>1. PICK n : n = Len(group_patterns)
    OBVIOUS
<1>2. /\ n \in Nat /\ Len(group_patterns') = n + 1 /\ Len(opt_operands) \in Nat
      /\ \A l \in 1..n : Pattern(l)' = Pattern(l)
      /\ Pattern(n + 1)' = {}
    <2> DEFINE T == Seq(Vertex)
               e == <<>>
    <2>1. group_patterns \in Seq(T) /\ e \in T /\ group_patterns' = Push(group_patterns, e)
        BY EmptySeq DEF StacksType, EnterGroup
    <2> HIDE DEF T, e
    <2>2. /\ Len(group_patterns') = Len(group_patterns) + 1
          /\ \A l \in 1..Len(group_patterns) : group_patterns'[l] = group_patterns[l]
          /\ group_patterns'[Len(group_patterns) + 1] = e
        BY ZenonT(40), <2>1, AppendFacts
    <2>3. Range(e) = {}
        BY RangeEmpty DEF e
    <2> QED BY <1>1, <2>2, <2>3, Lengths DEF Pattern
<1>3. \A k : Optionals(k)' = Optionals(k)
    BY DEF Optionals
<1>4. Vertex' = Vertex /\ Deps' = Deps /\ Conns' = Conns
    BY DEF Vertex, Deps, Conns
<1>5. \A a, b : LabelsOf(a, b)' = LabelsOf(a, b)
    BY DEF LabelsOf
<1>6. DepsSound' /\ ConnsSound'
    BY <1>4, <1>5 DEF GraphInv, DepsSound, ConnsSound, Label
<1>7. Ordered'
    <2>1. ASSUME NEW j \in 1..(n + 1), NEW i \in 1..(j - 1), NEW a \in Pattern(i)', NEW b \in Pattern(j)'
          PROVE  a < b
        <3>1. j # n + 1
            BY <1>2, <2>1
        <3>2. j \in 1..n /\ i \in 1..n
            BY <1>2, <3>1
        <3> QED BY <1>1, <1>2, <2>1, <3>2 DEF GraphInv, Ordered
    <2>2. ASSUME NEW i \in 1..(n + 1), i <= Len(opt_operands), NEW a \in Pattern(i)', NEW b \in Optionals(i)'
          PROVE  a < b
        <3>1. i # n + 1
            BY <1>2, <2>2
        <3>2. i \in 1..n
            BY <1>2, <3>1
        <3> QED BY <1>1, <1>2, <1>3, <2>2, <3>2 DEF GraphInv, Ordered
    <2> QED BY <1>2, <2>1, <2>2 DEF Ordered
<1>8. \A a, b : Together(a, b)' <=> Together(a, b)
    BY <1>4, <1>5 DEF Together
<1>9. Joined'
    <2>1. ASSUME NEW i \in 1..(n + 1), NEW a \in Pattern(i)', NEW b \in Pattern(i)', a # b
          PROVE  Together(a, b)'
        <3>1. i \in 1..n
            BY <1>2, <2>1
        <3> QED BY <1>1, <1>2, <1>8, <2>1, <3>1 DEF GraphInv, Joined
    <2>2. ASSUME NEW i \in 2..Len(opt_operands), i <= n + 1, NEW a \in Pattern(i - 1)', NEW b \in Pattern(i)'
          PROVE  Together(a, b)'
        <3>1. i # n + 1
            BY <1>2, <2>2
        <3>2. i \in 1..n /\ i - 1 \in 1..n
            BY <1>2, <2>2, <3>1
        <3> QED BY <1>1, <1>2, <1>8, <2>2, <3>2 DEF GraphInv, Joined
    <2> QED BY <1>2, <2>1, <2>2 DEF Joined
<1>10. Fresh'
    BY <1>2 DEF Fresh
<1> QED BY <1>6, <1>7, <1>9, <1>10 DEF GraphInv

\* At the end of a group, and of a conjunction, a group is let go of.
LEMMA LetGoGraph ==
    ASSUME StacksType, GraphInv, UNCHANGED <<operands, dependencies, connections>>,
           NEW n \in Nat, n <= Len(group_patterns), Len(group_patterns') = n \/ Len(group_patterns') = n + 1,
           \A l \in 1..n : Pattern(l)' = Pattern(l),
           Len(group_patterns') = n + 1 => Pattern(n + 1)' = {},
           NEW m \in Nat, m <= Len(opt_operands), Len(opt_operands') = m,
           \A k \in 1..m : Optionals(k)' = Optionals(k),
           m + 1 # n
    PROVE  GraphInv'
<1>2. Len(group_patterns) \in Nat /\ Len(opt_operands) \in Nat
    BY Lengths
<1>3. ASSUME NEW j \in 1..Len(group_patterns'), Pattern(j)' # {}
      PROVE  j \in 1..n /\ j \in 1..Len(group_patterns) /\ Pattern(j)' = Pattern(j)
    BY <1>2, <1>3
<1>4. Vertex' = Vertex /\ Deps' = Deps /\ Conns' = Conns
    BY DEF Vertex, Deps, Conns
<1>5. \A a, b : LabelsOf(a, b)' = LabelsOf(a, b)
    BY DEF LabelsOf
<1>6. DepsSound' /\ ConnsSound'
    BY <1>4, <1>5 DEF GraphInv, DepsSound, ConnsSound, Label
<1>7. Ordered'
    <2>1. ASSUME NEW j \in 1..Len(group_patterns'), NEW i \in 1..(j - 1), NEW a \in Pattern(i)',
                 NEW b \in Pattern(j)'
          PROVE  a < b
        <3>1. i \in 1..Len(group_patterns')
            BY <1>2, <2>1
        <3> QED BY <1>3, <2>1, <3>1 DEF GraphInv, Ordered
    <2>2. ASSUME NEW i \in 1..Len(group_patterns'), i <= Len(opt_operands'), NEW a \in Pattern(i)',
                 NEW b \in Optionals(i)'
          PROVE  a < b
        <3>1. i \in 1..m /\ i <= Len(opt_operands)
            BY <1>2, <2>2
        <3> QED BY <1>3, <2>2, <3>1 DEF GraphInv, Ordered
    <2> QED BY <2>1, <2>2 DEF Ordered
<1>8. \A a, b : Together(a, b)' <=> Together(a, b)
    BY <1>4, <1>5 DEF Together
<1>9. Joined'
    <2>1. ASSUME NEW i \in 1..Len(group_patterns'), NEW a \in Pattern(i)', NEW b \in Pattern(i)', a # b
          PROVE  Together(a, b)'
        BY <1>3, <1>8, <2>1 DEF GraphInv, Joined
    <2>2. ASSUME NEW i \in 2..Len(opt_operands'), i <= Len(group_patterns'), NEW a \in Pattern(i - 1)',
                 NEW b \in Pattern(i)'
          PROVE  Together(a, b)'
        <3>1. i \in 1..Len(group_patterns') /\ i - 1 \in 1..Len(group_patterns') /\ i \in 2..Len(opt_operands)
            BY <1>2, <2>2
        <3>2. i <= Len(group_patterns) /\ a \in Pattern(i - 1) /\ b \in Pattern(i)
            BY <1>3, <2>2, <3>1
        <3> QED BY <1>8, <3>1, <3>2 DEF GraphInv, Joined
    <2> QED BY <2>1, <2>2 DEF Joined
<1>10. Fresh'
    <2>1. Collecting' => Len(group_patterns') = n + 1
        BY DEF Collecting
    <2> QED BY <2>1 DEF Fresh
<1> QED BY <1>6, <1>7, <1>9, <1>10 DEF GraphInv

LEMMA LeaveGraph ==
    ASSUME Shape, GraphInv, Collecting, LeaveGroup,
           UNCHANGED <<operands, dependencies, connections, opt_operands>>
    PROVE  GraphInv'
<1> DEFINE T == Seq(Vertex)
           n == Len(group_patterns) - 1
           m == Len(opt_operands)
<1>1. StacksType /\ n \in Nat /\ m \in Nat /\ n = m /\ Len(group_patterns) = n + 1
    BY Lengths DEF Shape, GraphType, Collecting
<1>2. group_patterns \in Seq(T) /\ group_patterns # <<>> /\ group_patterns' = Pop(group_patterns)
    BY <1>1, EmptySeq DEF StacksType, LeaveGroup
<1> HIDE DEF T
<1>3. /\ Len(group_patterns') = Len(group_patterns) - 1
      /\ \A i \in 1..(Len(group_patterns) - 1) : group_patterns'[i] = group_patterns[i]
    BY <1>2, PopProperties
<1>4. PICK k : k = n
    OBVIOUS
<1>5. /\ k \in Nat /\ k <= Len(group_patterns) /\ Len(group_patterns') = k /\ k <= Len(opt_operands)
      /\ Len(opt_operands') = k
      /\ \A l \in 1..k : Pattern(l)' = Pattern(l) /\ Optionals(l)' = Optionals(l)
    BY <1>1, <1>3, <1>4 DEF Pattern, Optionals
<1>6. k + 1 # k /\ ~(Len(group_patterns') = k + 1)
    BY <1>5
<1> QED BY <1>1, <1>5, <1>6, LetGoGraph

LEMMA CloseGraph == ASSUME Shape, GraphInv, CloseConjunction PROVE GraphInv'
<1> DEFINE T == Seq(Vertex)
           e == <<>>
<1>1. /\ Calling("close") /\ opt_operands' = Pop(opt_operands) /\ group_patterns' = SetTop(group_patterns, e)
      /\ UNCHANGED <<operands, dependencies, connections>>
    BY DEF CloseConjunction, odgVars
<1>2. /\ StacksType /\ group_patterns # <<>> /\ opt_operands # <<>>
      /\ Len(group_patterns) = Len(opt_operands) /\ Len(opt_operands) \in Nat \ {0}
    BY <1>1, EndNeeds, Heights, EmptySeq DEF Shape, GraphType, StacksType
<1>3. group_patterns \in Seq(T) /\ opt_operands \in Seq(T) /\ e \in T
    BY <1>2, EmptySeq DEF StacksType
<1> HIDE DEF T, e
<1>4. /\ Len(opt_operands') = Len(opt_operands) - 1
      /\ \A i \in 1..(Len(opt_operands) - 1) : opt_operands'[i] = opt_operands[i]
    BY <1>1, <1>2, <1>3, PopProperties
<1>5. /\ Len(group_patterns') = Len(group_patterns) /\ group_patterns'[Len(group_patterns)] = e
      /\ \A i \in 1..(Len(group_patterns) - 1) : group_patterns'[i] = group_patterns[i]
    <2>1. group_patterns \in Seq(T) /\ e \in T /\ group_patterns # <<>> /\ group_patterns' = SetTop(group_patterns, e)
        BY <1>1, <1>2, <1>3
    <2> QED BY ZenonT(40), <2>1, SetTopProperties
<1>6. PICK k : k = Len(opt_operands) - 1
    OBVIOUS
<1>7. /\ k \in Nat /\ k <= Len(group_patterns) /\ Len(group_patterns') = k + 1 /\ k <= Len(opt_operands)
      /\ Len(opt_operands') = k
      /\ \A l \in 1..k : Pattern(l)' = Pattern(l) /\ Optionals(l)' = Optionals(l)
    BY <1>2, <1>4, <1>5, <1>6 DEF Pattern, Optionals
<1>8. Pattern(k + 1)' = {}
    <2>1. Range(e) = {}
        BY RangeEmpty DEF e
    <2>2. k + 1 = Len(group_patterns)
        BY <1>2, <1>6
    <2> QED BY <1>5, <2>1, <2>2 DEF Pattern
<1>9. k + 1 # k
    BY <1>7
<1> QED BY <1>1, <1>2, <1>7, <1>8, <1>9, LetGoGraph

LEMMA GraphTypes ==
    ASSUME OdgType, StacksType
    PROVE  /\ \A l \in 1..Len(group_patterns) : Pattern(l) \subseteq Vertex
           /\ \A k \in 1..Len(opt_operands) : Optionals(k) \subseteq Vertex
           /\ Deps \subseteq Edge /\ Conns \subseteq Vertex \X Vertex
<1>1. ASSUME NEW l \in 1..Len(group_patterns) PROVE Pattern(l) \subseteq Vertex
    <2>1. group_patterns[l] \in Seq(Vertex)
        BY <1>1, ElementOfSeq DEF StacksType
    <2> QED BY <2>1, RangeOfSeq DEF Pattern
<1>2. ASSUME NEW k \in 1..Len(opt_operands) PROVE Optionals(k) \subseteq Vertex
    <2>1. opt_operands[k] \in Seq(Vertex)
        BY <1>2, ElementOfSeq DEF StacksType
    <2> QED BY <2>1, RangeOfSeq DEF Optionals
<1>3. Deps \subseteq Edge
    BY RangeOfSeq DEF OdgType, Deps
<1>4. Conns \subseteq Vertex \X Vertex
    <2> DEFINE E == Vertex \X Vertex
    <2>1. connections \in Seq(E)
        BY DEF OdgType
    <2> HIDE DEF E
    <2>2. Range(connections) \subseteq E
        BY <2>1, RangeOfSeq
    <2> QED BY <2>2 DEF Conns, E
<1> QED BY <1>1, <1>2, <1>3, <1>4

LEMMA LabelsEitherWay == \A s, t : Labels(s, t) = Labels(t, s)
BY DEF Labels

\* An operand that is new is joined with all there are in its group.
LEMMA NewOperandGraph ==
    ASSUME OdgType, StacksType, GraphInv, Collecting,
           NEW v \in Nat, v = Len(operands) + 1, Len(operands') = v,
           \A a \in Vertex : operands'[a] = operands[a],
           NEW n \in Nat, n = Len(group_patterns), n # 0, Len(group_patterns') = n,
           \A l \in 1..(n - 1) : Pattern(l)' = Pattern(l), Pattern(n)' = Pattern(n) \cup {v},
           \A e : e \in Deps' <=> \/ e \in Deps
                                  \/ \E a \in Pattern(n) : \E l \in LabelsOf(a, v)' :
                                         e = <<a, v, l>> \/ e = <<v, a, l>>,
           UNCHANGED <<connections, opt_operands>>
    PROVE  GraphInv'
<1>1. /\ Vertex' = Vertex \cup {v} /\ \A a \in Vertex : a \in Nat /\ a < v
      /\ Len(operands) \in Nat /\ Len(opt_operands) \in Nat
    BY Lengths, LenProperties DEF OdgType, Vertex
<1>2. /\ \A l \in 1..n : Pattern(l) \subseteq Vertex
      /\ \A k \in 1..Len(opt_operands) : Optionals(k) \subseteq Vertex
      /\ Deps \subseteq Edge /\ Conns \subseteq Vertex \X Vertex
    BY GraphTypes
<1>3. Conns' = Conns /\ (\A k : Optionals(k)' = Optionals(k)) /\ Label' = Label
    BY DEF Conns, Optionals, Label
<1>4. /\ \A a, b \in Vertex : LabelsOf(a, b)' = LabelsOf(a, b)
      /\ \A a, b : LabelsOf(a, b)' = LabelsOf(b, a)'
    BY LabelsEitherWay DEF LabelsOf
<1>5. \A a, b \in Vertex : \A x : <<a, b, x>> \in Deps' <=> <<a, b, x>> \in Deps
    BY <1>1
<1>6. \A a, x : /\ <<a, v, x>> \in Deps' <=> a \in Pattern(n) /\ x \in LabelsOf(a, v)'
                /\ <<v, a, x>> \in Deps' <=> a \in Pattern(n) /\ x \in LabelsOf(a, v)'
    <2>1. ASSUME NEW a, NEW x PROVE <<a, v, x>> \notin Deps /\ <<v, a, x>> \notin Deps
        BY <1>1, <1>2 DEF Edge
    <2>2. v \notin Pattern(n)
        BY <1>1, <1>2
    <2> QED BY <2>1, <2>2
<1>7. n \in 1..n /\ v \notin Pattern(n) /\ Pattern(n) \subseteq Vertex
    BY <1>1, <1>2
<1>8. DepsSound'
    <2> SUFFICES ASSUME NEW a \in Vertex \cup {v}, NEW b \in Vertex \cup {v}, NEW x \in Label,
                        <<a, b, x>> \in Deps'
                 PROVE  /\ a # b /\ x \in LabelsOf(a, b)'
                        /\ b < a => <<b, a, x>> \in Deps'
        BY <1>1, <1>3 DEF DepsSound
    <2>1. CASE a # v /\ b # v
        BY <1>4, <1>5, <2>1 DEF GraphInv, DepsSound
    <2>2. CASE b = v
        BY <1>6, <1>7, <2>2
    <2>3. CASE a = v
        BY <1>4, <1>6, <1>7, <2>3
    <2> QED BY <2>1, <2>2, <2>3
<1>9. ConnsSound'
    <2> SUFFICES ASSUME NEW a \in Vertex', NEW b \in Vertex', <<a, b>> \in Conns
                 PROVE  /\ a # b /\ <<b, a>> \in Conns /\ \A x \in Label : <<a, b, x>> \notin Deps'
        BY <1>3 DEF ConnsSound
    <2>1. a \in Vertex /\ b \in Vertex
        BY <1>2
    <2> QED BY <1>5, <2>1 DEF GraphInv, ConnsSound
<1>10. Ordered'
    <2>1. ASSUME NEW j \in 1..n, NEW i \in 1..(j - 1), NEW a \in Pattern(i)', NEW b \in Pattern(j)'
          PROVE  a < b
        <3>1. i \in 1..(n - 1) /\ i \in 1..n /\ a \in Pattern(i) /\ a < v
            BY <1>1, <1>2
        <3>2. CASE b = v
            BY <3>1, <3>2
        <3>3. CASE b # v
            <4>1. b \in Pattern(j)
                BY <3>3
            <4> QED BY <3>1, <4>1 DEF GraphInv, Ordered
        <3> QED BY <3>2, <3>3
    <2>2. ASSUME NEW i \in 1..n, i <= Len(opt_operands), NEW a \in Pattern(i)', NEW b \in Optionals(i)'
          PROVE  a < b
        <3>1. i # n
            BY <1>1, <2>2 DEF Collecting
        <3>2. a \in Pattern(i) /\ b \in Optionals(i)
            BY <1>3, <2>2, <3>1
        <3> QED BY <2>2, <3>2 DEF GraphInv, Ordered
    <2> QED BY <2>1, <2>2 DEF Ordered
<1>11. \A a, b \in Vertex : Together(a, b) => Together(a, b)'
    BY <1>4, <1>5 DEF Together
<1>12. \A a \in Pattern(n) : Together(a, v)' /\ Together(v, a)'
    BY <1>4, <1>6 DEF Together
<1>13. Joined'
    <2>1. ASSUME NEW i \in 1..n, NEW a \in Pattern(i)', NEW b \in Pattern(i)', a # b
          PROVE  Together(a, b)'
        <3>1. CASE i = n /\ (a = v \/ b = v)
            BY <1>12, <2>1, <3>1
        <3>2. CASE ~(i = n /\ (a = v \/ b = v))
            <4>1. a \in Pattern(i) /\ b \in Pattern(i)
                BY <2>1, <3>2
            <4>2. a \in Vertex /\ b \in Vertex
                BY <1>2, <4>1
            <4> QED BY <1>11, <2>1, <4>1, <4>2 DEF GraphInv, Joined
        <3> QED BY <3>1, <3>2
    <2>2. ASSUME NEW i \in 2..Len(opt_operands'), i <= n, NEW a \in Pattern(i - 1)', NEW b \in Pattern(i)'
          PROVE  Together(a, b)'
        <3>1. /\ i \in 2..Len(opt_operands) /\ i \in 1..(n - 1) /\ i - 1 \in 1..(n - 1)
              /\ i \in 1..n /\ i - 1 \in 1..n
            BY <1>1, <2>2 DEF Collecting
        <3>2. a \in Pattern(i - 1) /\ b \in Pattern(i)
            <4>1. PICK k : k = i - 1
                OBVIOUS
            <4>2. a \in Pattern(k) /\ b \in Pattern(i)
                BY <2>2, <3>1, <4>1
            <4> QED BY <4>1, <4>2
        <3>3. a \in Vertex /\ b \in Vertex
            BY <1>2, <3>1, <3>2
        <3> QED BY <1>11, <2>2, <3>1, <3>2, <3>3 DEF GraphInv, Joined
    <2> QED BY <2>1, <2>2 DEF Joined
<1>14. Fresh'
    <2> SUFFICES ASSUME NEW a \in Pattern(n)'
                 PROVE  /\ opt_operands # <<>> => \A b \in Optionals(Len(opt_operands)) : b < a
                        /\ \A b \in Vertex' : <<a, b>> \notin Conns
                        /\ \A b \in Vertex', x \in Label :
                               <<a, b, x>> \in Deps' \/ <<b, a, x>> \in Deps' => b \in Pattern(n)'
        <3>1. Len(group_patterns') = n /\ opt_operands' = opt_operands
            OBVIOUS
        <3> QED BY <1>3, <3>1 DEF Fresh
    <2>1. CASE a = v
        <3>1. ASSUME opt_operands # <<>>, NEW b \in Optionals(Len(opt_operands)) PROVE b < a
            <4>1. Len(opt_operands) \in 1..Len(opt_operands)
                BY <1>1, <3>1, EmptySeq DEF StacksType
            <4> QED BY <1>1, <1>2, <2>1, <3>1, <4>1
        <3>2. \A b : <<v, b>> \notin Conns
            BY <1>1, <1>2
        <3> QED BY <1>6, <2>1, <3>1, <3>2
    <2>2. CASE a # v
        <3>1. a \in Pattern(n) /\ a \in Vertex
            BY <1>7, <2>2
        <3>2. \A b \in Vertex : <<a, b>> \notin Conns
            BY <3>1 DEF GraphInv, Fresh
        <3>3. <<a, v>> \notin Conns
            BY <1>1, <1>2
        <3>4. opt_operands # <<>> => \A b \in Optionals(Len(opt_operands)) : b < a
            BY <3>1 DEF GraphInv, Fresh
        <3>5. ASSUME NEW b \in Vertex, NEW x \in Label, <<a, b, x>> \in Deps' \/ <<b, a, x>> \in Deps'
              PROVE  b \in Pattern(n)
            BY <1>5, <3>1, <3>5 DEF GraphInv, Fresh
        <3> QED BY <1>1, <3>2, <3>3, <3>4, <3>5
    <2> QED BY <2>1, <2>2
<1> QED BY <1>8, <1>9, <1>10, <1>13, <1>14 DEF GraphInv

LEMMA ObjectGraph == ASSUME Shape, GraphInv, visitObject PROVE GraphInv'
<1>1. CASE error' \in {"thrown", "crashed"}
    <2> DEFINE node == visitVarOrTerm(prefixes, Arg)
    <2>1. Calling("object")
        BY DEF visitObject
    <2>2. Failed(node)
        <3>1. error = "none"
            BY <2>1, CallOf
        <3> QED BY <1>1, <3>1 DEF visitObject
    <2>3. Throw(node)
        BY <2>2 DEF visitObject
    <2> QED BY <2>3, SameGraph DEF Throw, theGraph, odgVars, groupVars, optVars
<1>2. CASE error' \notin {"thrown", "crashed"}
    <2>1. PICK v, ids :
             /\ v = Len(operands) + 1 /\ ids \in Seq(Label) /\ operands' = Append(operands, ids)
             /\ dependencies' = dependencies \o JoinsOf(v, ids)
             /\ group_patterns # <<>> /\ group_patterns' = AddTop(group_patterns, <<v>>)
             /\ UNCHANGED <<connections, optVars>>
        <3>1. PICK node \in Node :
                LET tp == <<active_subject, active_predicate, node>>
                    ids == Ids(var_to_id', tp)
                    v   == Len(operands) + 1
                IN  /\ ids \in Seq(Label)
                    /\ operands' = Append(operands, ids)
                    /\ dependencies' = dependencies \o JoinsOf(v, ids)
                    /\ group_patterns # <<>>
                    /\ group_patterns' = AddTop(group_patterns, <<v>>)
                    /\ UNCHANGED <<connections, optVars>>
            BY <1>2, ObjectStep
        <3> QED BY <3>1
    <2>2. OdgType /\ StacksType /\ Collecting
        BY GroupIsOpen DEF visitObject, Shape, GraphType, Inside, Collecting
    <2>3. /\ v \in Nat /\ Len(operands') = v /\ Len(operands) \in Nat
          /\ operands'[v] = ids /\ \A a \in Vertex : operands'[a] = operands[a]
        BY <2>1, <2>2, AppendProperties, LenProperties DEF OdgType, Vertex
    <2>4. PICK n : n = Len(group_patterns)
        OBVIOUS
    <2>5. n \in Nat /\ n # 0 /\ group_patterns \in Seq(Seq(Nat)) /\ n \in 1..n
        <3>1. Vertex \subseteq Nat
            BY <2>3 DEF Vertex
        <3>2. Seq(Vertex) \subseteq Seq(Nat)
            BY <3>1, SeqMonotonic
        <3>3. Seq(Seq(Vertex)) \subseteq Seq(Seq(Nat))
            BY <3>2, SeqMonotonic
        <3>4. n \in Nat /\ n # 0
            BY <2>1, <2>2, <2>4, Lengths, EmptySeq DEF StacksType
        <3> QED BY <2>2, <3>3, <3>4 DEF StacksType
    <2>6. /\ Len(group_patterns') = n /\ Pattern(n)' = Pattern(n) \cup {v}
          /\ \A l \in 1..(n - 1) : Pattern(l)' = Pattern(l)
        <3> DEFINE x == <<v>>
        <3>1. x \in Seq(Nat) /\ Range(x) = {v}
            BY <2>3 DEF Range
        <3>2. group_patterns' = AddTop(group_patterns, x)
            BY <2>1
        <3> HIDE DEF x
        <3>3. /\ Len(group_patterns') = Len(group_patterns)
              /\ Range(group_patterns'[Len(group_patterns)]) = Range(Top(group_patterns)) \cup Range(x)
              /\ \A i \in 1..(Len(group_patterns) - 1) : group_patterns'[i] = group_patterns[i]
            <4>1. group_patterns # <<>> /\ group_patterns \in Seq(Seq(Nat))
                BY <2>1, <2>5
            <4> DEFINE u == AddTop(group_patterns, x)
            <4>2. /\ Len(u) = Len(group_patterns)
                  /\ Range(u[Len(group_patterns)]) = Range(Top(group_patterns)) \cup Range(x)
                  /\ \A i \in 1..(Len(group_patterns) - 1) : u[i] = group_patterns[i]
                <5> DEFINE T == Nat
                <5>1. x \in Seq(T) /\ group_patterns # <<>> /\ group_patterns \in Seq(Seq(T))
                    BY <3>1, <4>1
                <5> HIDE DEF T
                <5> QED BY ZenonT(90), <5>1, AddTopProperties
            <4> QED BY <3>2, <4>2
        <3> QED BY <2>4, <3>1, <3>3 DEF Pattern, Top
    <2>7. /\ Deps' = Deps \cup Range(JoinsOf(v, ids))
          /\ \A e : e \in Range(JoinsOf(v, ids)) <=>
                    \E a \in Pattern(n) : \E l \in Labels(operands[a], ids) : e = <<a, v, l>> \/ e = <<v, a, l>>
        <3>1. /\ JoinsOf(v, ids) \in Seq((1..v) \X (1..v) \X Label)
              /\ \A e : e \in Range(JoinsOf(v, ids)) <=>
                        \E a \in Range(Top(group_patterns)) : \E l \in Labels(operands[a], ids) :
                             e = <<a, v, l>> \/ e = <<v, a, l>>
            <4>1. group_patterns # <<>> /\ ids \in Seq(Label) /\ v = Len(operands) + 1
                BY <2>1
            <4> DEFINE w == Len(operands) + 1
                       J == JoinsOf(w, ids)
            <4>2. /\ J \in Seq((1..w) \X (1..w) \X Label)
                  /\ \A e : e \in Range(J) <=>
                            \E a \in Range(Top(group_patterns)) : \E l \in Labels(operands[a], ids) :
                                 e = <<a, w, l>> \/ e = <<w, a, l>>
                BY <2>2, <4>1, JoinsRange
            <4> QED BY <4>1, <4>2
        <3>2. dependencies \in Seq((1..v) \X (1..v) \X Label)
            <4>1. Edge \subseteq (1..v) \X (1..v) \X Label
                BY <2>1, <2>3 DEF Edge, Vertex
            <4> QED BY <2>2, <4>1, SeqMonotonic DEF OdgType
        <3> DEFINE E == (1..v) \X (1..v) \X Label
        <3>3. dependencies \in Seq(E) /\ JoinsOf(v, ids) \in Seq(E)
            BY <3>1, <3>2
        <3> HIDE DEF E
        <3>4. Range(dependencies \o JoinsOf(v, ids)) = Range(dependencies) \cup Range(JoinsOf(v, ids))
            BY <3>3, RangeConcatenation
        <3> QED BY <2>1, <2>4, <3>1, <3>4 DEF Deps, Pattern, Top
    <2>8. \A a \in Pattern(n) : LabelsOf(a, v)' = Labels(operands[a], ids)
        <3>1. Pattern(n) \subseteq Vertex
            BY <2>2, <2>4, <2>5, GraphTypes
        <3> QED BY <2>3, <3>1 DEF LabelsOf
    <2>9. \A e : e \in Deps' <=> \/ e \in Deps
                                 \/ \E a \in Pattern(n) : \E l \in LabelsOf(a, v)' :
                                         e = <<a, v, l>> \/ e = <<v, a, l>>
        BY <2>7, <2>8
    <2>10. UNCHANGED <<connections, opt_operands>>
        BY <2>1 DEF optVars
    <2> QED BY <2>1, <2>2, <2>3, <2>4, <2>5, <2>6, <2>9, <2>10, NewOperandGraph
<1> QED BY <1>1, <1>2

\* A group is joined with the one it is in, and connected with the OPTIONAL
\* groups before it.
LEMMA EndedGraph ==
    ASSUME OdgType, StacksType, GraphInv,
           NEW n \in Nat, NEW m \in Nat, n = m + 1, m # 0,
           Len(group_patterns) = n, Len(opt_operands) = m, Len(opt_operands') = n,
           UNCHANGED <<operands, group_patterns>>,
           \A a, b, x : <<a, b, x>> \in Deps' <=> \/ <<a, b, x>> \in Deps
                                                  \/ a \in Pattern(m) /\ b \in Pattern(n) /\ x \in LabelsOf(a, b),
           Conns \subseteq Conns',
           \A a, b : <<a, b>> \in Conns' => /\ <<b, a>> \in Conns' \/ <<a, b>> \in Conns
                                            /\ \/ <<a, b>> \in Conns
                                               \/ a \in Pattern(n) /\ b \in Optionals(m)
                                               \/ b \in Pattern(n) /\ a \in Optionals(m),
           \A k \in 1..(m - 1) : Optionals(k)' = Optionals(k),
           Optionals(m)' = Optionals(m) \cup Pattern(n), Optionals(n)' = {}
    PROVE  GraphInv'
<1>1. /\ \A l \in 1..n : Pattern(l) \subseteq Vertex
      /\ \A k \in 1..m : Optionals(k) \subseteq Vertex
      /\ Vertex \subseteq Nat
    BY GraphTypes DEF Vertex
<1>2. /\ Vertex' = Vertex /\ Label' = Label /\ (\A l : Pattern(l)' = Pattern(l))
      /\ \A a, b : LabelsOf(a, b)' = LabelsOf(a, b)
    BY DEF Vertex, Label, Pattern, LabelsOf
<1>3. /\ m \in 1..n /\ n \in 1..n /\ m \in 1..(n - 1) /\ m \in 1..m
    OBVIOUS
<1>4. \A a \in Pattern(m), b \in Pattern(n) : a < b
    BY <1>3 DEF GraphInv, Ordered
<1>5. \A a \in Pattern(m), b \in Optionals(m) : a < b
    BY <1>3 DEF GraphInv, Ordered
<1>6. \A a \in Pattern(n) :
          /\ \A b \in Optionals(m) : b < a
          /\ \A b \in Vertex : <<a, b>> \notin Conns
          /\ \A b \in Vertex, x \in Label : <<a, b, x>> \in Deps \/ <<b, a, x>> \in Deps => b \in Pattern(n)
    <2>1. Collecting /\ opt_operands # <<>>
        BY EmptySeq DEF Collecting, StacksType
    <2> QED BY <2>1 DEF GraphInv, Fresh
<1>7. DepsSound'
    <2> SUFFICES ASSUME NEW a \in Vertex, NEW b \in Vertex, NEW x \in Label, <<a, b, x>> \in Deps'
                 PROVE  a # b /\ x \in LabelsOf(a, b) /\ (b < a => <<b, a, x>> \in Deps')
        BY <1>2 DEF DepsSound
    <2>1. CASE <<a, b, x>> \in Deps
        BY <2>1 DEF GraphInv, DepsSound
    <2>2. CASE a \in Pattern(m) /\ b \in Pattern(n) /\ x \in LabelsOf(a, b)
        BY <1>1, <1>4, <2>2
    <2> QED BY <2>1, <2>2
<1>8. ConnsSound'
    <2> SUFFICES ASSUME NEW a \in Vertex, NEW b \in Vertex, <<a, b>> \in Conns'
                 PROVE  a # b /\ <<b, a>> \in Conns' /\ \A x \in Label : <<a, b, x>> \notin Deps'
        BY <1>2 DEF ConnsSound
    <2>1. CASE <<a, b>> \in Conns
        <3>1. a # b /\ <<b, a>> \in Conns /\ \A x \in Label : <<a, b, x>> \notin Deps
            BY <2>1 DEF GraphInv, ConnsSound
        <3>2. b \notin Pattern(n)
            BY <1>6, <3>1
        <3> QED BY <3>1, <3>2
    <2>2. CASE <<a, b>> \notin Conns /\ a \in Pattern(n) /\ b \in Optionals(m)
        <3>1. b < a /\ b \notin Pattern(n)
            BY <1>1, <1>6, <2>2
        <3> QED BY <1>1, <1>6, <2>2, <3>1
    <2>3. CASE <<a, b>> \notin Conns /\ b \in Pattern(n) /\ a \in Optionals(m)
        <3>1. a < b /\ a \notin Pattern(n) /\ a \notin Pattern(m)
            BY <1>1, <1>5, <1>6, <2>3
        <3> QED BY <1>1, <1>6, <2>3, <3>1
    <2> QED BY <2>1, <2>2, <2>3
<1>9. Ordered'
    <2>1. ASSUME NEW i \in 1..n, NEW a \in Pattern(i), NEW b \in Optionals(i)' PROVE a < b
        <3>1. CASE i = n
            BY <2>1, <3>1
        <3>2. CASE i = m
            BY <1>4, <1>5, <2>1, <3>2
        <3>3. CASE i # n /\ i # m
            <4>1. i \in 1..(m - 1) /\ i <= m
                BY <3>3
            <4> QED BY <2>1, <4>1 DEF GraphInv, Ordered
        <3> QED BY <3>1, <3>2, <3>3
    <2>2. \A j \in 1..n : \A i \in 1..(j - 1) : \A a \in Pattern(i), b \in Pattern(j) : a < b
        BY DEF GraphInv, Ordered
    <2> QED BY <1>2, <2>1, <2>2 DEF Ordered
<1>10. \A a, b : Together(a, b) => Together(a, b)'
    BY <1>2 DEF Together
<1>11. Joined'
    <2>1. ASSUME NEW i \in 2..n, NEW a \in Pattern(i - 1), NEW b \in Pattern(i) PROVE Together(a, b)'
        <3>1. CASE i = n
            BY <1>2, <2>1, <3>1 DEF Together
        <3>2. CASE i # n
            <4>1. i \in 2..m /\ i <= n
                BY <3>2
            <4> QED BY <1>10, <2>1, <4>1 DEF GraphInv, Joined
        <3> QED BY <3>1, <3>2
    <2>2. \A i \in 1..n : \A a, b \in Pattern(i) : a # b => Together(a, b)'
        BY <1>10 DEF GraphInv, Joined
    <2> QED BY <1>2, <2>1, <2>2 DEF Joined
<1>12. Fresh'
    BY DEF Fresh, Collecting
<1> QED BY <1>7, <1>8, <1>9, <1>11, <1>12 DEF GraphInv

LEMMA OptionalsGraph == ASSUME Shape, GraphInv, VisitOptionals PROVE GraphInv'
<1>1. Calling("depend") /\ DependOnParent /\ UNCHANGED <<operands, group_patterns>>
    BY DEF VisitOptionals, groupVars
<1>2. OdgType /\ StacksType /\ Len(group_patterns) = Len(opt_operands) + 1 /\ Len(opt_operands) \in Nat
    BY <1>1, GroupIsOpen, Lengths DEF Inside, Shape, GraphType
<1>3. CASE opt_operands = <<>>
    <2>1. /\ Len(group_patterns) = 1 /\ Len(opt_operands) = 0
          /\ UNCHANGED <<dependencies, connections>> /\ opt_operands' = << <<>> >>
        BY <1>1, <1>2, <1>3, EmptySeq DEF DependOnParent
    <2>2. Len(opt_operands') = 1 /\ Optionals(1)' = {}
        <3>1. opt_operands'[1] = <<>>
            BY <2>1
        <3> QED BY <2>1, <3>1, RangeEmpty DEF Optionals
    <2>3. Deps' = Deps /\ Conns' = Conns /\ Vertex' = Vertex /\ Label' = Label
        BY <1>1, <2>1 DEF Deps, Conns, Vertex, Label
    <2>4. (\A l : Pattern(l)' = Pattern(l)) /\ \A a, b : LabelsOf(a, b)' = LabelsOf(a, b)
        BY <1>1 DEF Pattern, LabelsOf
    <2>5. \A a, b : Together(a, b)' <=> Together(a, b)
        BY <2>3, <2>4 DEF Together
    <2>6. DepsSound' /\ ConnsSound'
        BY <2>3, <2>4 DEF GraphInv, DepsSound, ConnsSound
    <2>7. Ordered'
        BY <1>1, <2>1, <2>2, <2>4 DEF GraphInv, Ordered
    <2>8. Joined'
        BY <1>1, <2>1, <2>2, <2>4, <2>5 DEF GraphInv, Joined
    <2>9. Fresh'
        BY <1>1, <2>1, <2>2 DEF Fresh, Collecting
    <2> QED BY <2>6, <2>7, <2>8, <2>9 DEF GraphInv
<1>4. CASE opt_operands # <<>>
    <2>1. PICK n, m : n = Len(group_patterns) /\ m = Len(opt_operands)
        OBVIOUS
    <2>2. /\ n \in Nat /\ m \in Nat /\ n = m + 1 /\ m # 0 /\ n - 1 = m
          /\ Len(group_patterns) = n /\ Len(opt_operands) = m
        BY <1>2, <1>4, <2>1, EmptySeq DEF StacksType
    <2> DEFINE prev == group_patterns[m]
               cur  == Top(group_patterns)
    <2>3. prev \in Seq(Vertex) /\ cur \in Seq(Vertex) /\ Range(prev) = Pattern(m) /\ Range(cur) = Pattern(n)
        BY <1>1, <1>4, <2>2, ParentIsOpen DEF Pattern, Top
    <2>4. /\ dependencies' = dependencies \o group_dependencies(prev, cur)
          /\ connections' = connections \o group_connections(cur)
          /\ opt_operands' = Push(AddTop(opt_operands, cur), <<>>)
        BY <1>1, <1>4, <2>2 DEF DependOnParent
    <2> HIDE DEF prev, cur
    <2>5. /\ group_dependencies(prev, cur) \in Seq(Edge)
          /\ \A e : e \in Range(group_dependencies(prev, cur)) <=>
                    \E a \in Range(prev), b \in Range(cur) :
                        \E l \in Labels(operands[a], operands[b]) : e = <<a, b, l>>
        BY <1>2, <2>3, DependenciesRange
    <2>6. \A a, b, x : <<a, b, x>> \in Deps' <=> \/ <<a, b, x>> \in Deps
                                                 \/ a \in Pattern(m) /\ b \in Pattern(n) /\ x \in LabelsOf(a, b)
        <3>1. Deps' = Deps \cup Range(group_dependencies(prev, cur))
            BY <1>2, <2>4, <2>5, RangeConcatenation DEF Deps, OdgType
        <3> QED BY <2>3, <2>5, <3>1 DEF LabelsOf
    <2>7. /\ group_connections(cur) \in Seq(Vertex \X Vertex)
          /\ \A c \in Range(group_connections(cur)) :
                 \E a \in Range(cur), b \in Range(Top(opt_operands)) : c = <<a, b>> \/ c = <<b, a>>
          /\ \A x, y : <<x, y>> \in Range(group_connections(cur)) => <<y, x>> \in Range(group_connections(cur))
        BY <1>2, <1>4, <2>3, ConnectionsRange
    <2>8. Conns' = Conns \cup Range(group_connections(cur))
        <3> DEFINE E == Vertex \X Vertex
        <3>1. connections \in Seq(E) /\ group_connections(cur) \in Seq(E)
            BY <1>2, <2>7 DEF OdgType
        <3> HIDE DEF E
        <3> QED BY <2>4, <3>1, RangeConcatenation DEF Conns
    <2>9. ASSUME NEW a, NEW b, <<a, b>> \in Conns'
          PROVE  /\ <<b, a>> \in Conns' \/ <<a, b>> \in Conns
                 /\ \/ <<a, b>> \in Conns
                    \/ a \in Pattern(n) /\ b \in Optionals(m)
                    \/ b \in Pattern(n) /\ a \in Optionals(m)
        <3>1. CASE <<a, b>> \in Conns
            BY <3>1
        <3>2. CASE <<a, b>> \in Range(group_connections(cur))
            <4>1. <<b, a>> \in Conns'
                BY <2>7, <2>8, <3>2
            <4>2. PICK c \in Range(cur), d \in Range(Top(opt_operands)) : <<a, b>> = <<c, d>> \/ <<a, b>> = <<d, c>>
                BY <2>7, <3>2
            <4>3. d \in Optionals(m)
                BY <2>1, <4>2 DEF Optionals, Top
            <4> QED BY <2>3, <4>1, <4>2, <4>3
        <3> QED BY <2>8, <2>9, <3>1, <3>2
    <2>10. /\ Len(opt_operands') = n /\ Optionals(n)' = {}
           /\ Optionals(m)' = Optionals(m) \cup Pattern(n)
           /\ \A k \in 1..(m - 1) : Optionals(k)' = Optionals(k)
        <3> DEFINE T == Seq(Vertex)
                   u == AddTop(opt_operands, cur)
                   e == <<>>
        <3>1. opt_operands \in Seq(Seq(Vertex)) /\ e \in T /\ opt_operands' = Push(u, e)
            BY <1>2, <2>4, EmptySeq DEF StacksType
        <3>2. /\ u \in Seq(Seq(Vertex)) /\ Len(u) = Len(opt_operands)
              /\ Range(u[Len(opt_operands)]) = Range(Top(opt_operands)) \cup Range(cur)
              /\ \A i \in 1..(Len(opt_operands) - 1) : u[i] = opt_operands[i]
            <4>1. opt_operands \in Seq(Seq(Vertex)) /\ opt_operands # <<>> /\ cur \in Seq(Vertex)
                BY <1>4, <2>3, <3>1
            <4> QED BY ZenonT(90), <4>1, AddTopProperties
        <3>3. Range(e) = {}
            BY RangeEmpty
        <3>4. u \in Seq(T)
            BY <3>2
        <3> HIDE DEF T, u, e
        <3>5. /\ Len(opt_operands') = Len(u) + 1
              /\ \A i \in 1..Len(u) : opt_operands'[i] = u[i]
              /\ opt_operands'[Len(u) + 1] = e
            BY ZenonT(40), <3>1, <3>4, AppendFacts
        <3>6. Len(u) = m /\ Len(opt_operands') = n /\ opt_operands'[n] = e
            BY <2>2, <3>2, <3>5
        <3>7. opt_operands'[m] = u[m] /\ Range(u[m]) = Optionals(m) \cup Pattern(n)
            BY <2>2, <2>3, <3>2, <3>5, <3>6 DEF Optionals, Top
        <3>8. \A k \in 1..(m - 1) : opt_operands'[k] = opt_operands[k]
            BY <2>2, <3>2, <3>5, <3>6
        <3> QED BY <3>3, <3>6, <3>7, <3>8 DEF Optionals
    <2>11. Conns \subseteq Conns'
        BY <2>8
    <2> QED BY <1>1, <1>2, <2>2, <2>6, <2>9, <2>10, <2>11, EndedGraph
<1> QED BY <1>3, <1>4

LEMMA VisitGraph == ASSUME Shape, GraphInv, Visit PROVE GraphInv'
<1>1. CASE visitWhereClause \/ EnterOptional
    <2>1. EnterGroup /\ UNCHANGED <<operands, dependencies, connections, opt_operands>>
        BY <1>1 DEF visitWhereClause, EnterOptional, odgVars, optVars
    <2> QED BY <2>1, EnterGraph DEF Shape, GraphType
<1>2. CASE EndWhereClause \/ LeaveOptional
    <2>1. LeaveGroup /\ UNCHANGED <<operands, dependencies, connections, opt_operands>>
        BY <1>2 DEF EndWhereClause, LeaveOptional, odgVars, optVars
    <2>2. Collecting
        BY <1>2, Heights DEF EndWhereClause, LeaveOptional
    <2> QED BY <2>1, <2>2, LeaveGraph
<1> QED BY <1>1, <1>2, ObjectGraph, OptionalsGraph, CloseGraph, OthersDraw, SameGraph

-----------------------------------------------------------------------------
(* Joining branches.                                                        *)

\* Branches whose OPTIONAL groups are in T.
BranchOver(T) == [tss : Seq(SameSubject), opts : Seq(T)]

LEMMA NothingType == ASSUME NEW T PROVE Nothing \in BranchOver(T)
BY DEF Nothing, BranchOver

LEMMA JoinType ==
    ASSUME NEW T, NEW b \in BranchOver(T), NEW c \in BranchOver(T)
    PROVE  Join(b, c) \in BranchOver(T)
<1>1. b.tss \o c.tss \in Seq(SameSubject) /\ b.opts \o c.opts \in Seq(T)
    BY ConcatProperties DEF BranchOver
<1> QED BY <1>1 DEF Join, BranchOver

LEMMA PairsEmpty == ASSUME NEW t PROVE Pairs(<<>>, t) = <<>>
<1>1. [i \in DOMAIN <<>> |-> [j \in DOMAIN t |-> << <<>>[i], t[j] >>]] = <<>>
    OBVIOUS
<1> QED BY <1>1, FlattenSeqEmpty DEF Pairs

LEMMA PairsAppend ==
    ASSUME NEW S, NEW T, NEW s \in Seq(S), NEW t \in Seq(T), NEW x \in S
    PROVE  Pairs(Append(s, x), t) = Pairs(s, t) \o [j \in DOMAIN t |-> <<x, t[j]>>]
           /\ Pairs(s, t) \in Seq(S \X T)
<1> DEFINE Row(y) == [j \in DOMAIN t |-> <<y, t[j]>>]
           f == [i \in DOMAIN s |-> Row(s[i])]
           u == Append(s, x)
           g == [i \in DOMAIN u |-> Row(u[i])]
<1>1. ASSUME NEW y \in S PROVE Row(y) \in Seq(S \X T)
    <2>1. Row(y) \in [1..Len(t) -> S \X T]
        BY LenProperties, ElementOfSeq
    <2> HIDE DEF Row
    <2> QED BY <2>1, FunctionIsSeq, LenProperties
<1>2. /\ Len(s) \in Nat /\ DOMAIN s = 1..Len(s) /\ \A i \in 1..Len(s) : s[i] \in S
      /\ u \in Seq(S) /\ Len(u) = Len(s) + 1 /\ DOMAIN u = 1..(Len(s) + 1)
      /\ \A i \in 1..Len(s) : u[i] = s[i]
      /\ u[Len(s) + 1] = x
    BY AppendProperties, LenProperties
<1>3. Pairs(s, t) = FlattenSeq(f) /\ Pairs(u, t) = FlattenSeq(g)
    BY DEF Pairs
<1> HIDE DEF u, Row
<1>4. f \in [1..Len(s) -> Seq(S \X T)] /\ g \in [1..(Len(s) + 1) -> Seq(S \X T)]
    <2>1. \A i \in 1..Len(s) : f[i] \in Seq(S \X T)
        BY <1>1, <1>2
    <2>2. \A i \in 1..(Len(s) + 1) : u[i] \in S
        BY <1>2, ElementOfSeq
    <2>3. \A i \in 1..(Len(s) + 1) : g[i] \in Seq(S \X T)
        BY <1>1, <1>2, <2>2
    <2>4. f = [i \in 1..Len(s) |-> f[i]] /\ g = [i \in 1..(Len(s) + 1) |-> g[i]]
        BY <1>2
    <2> HIDE DEF f, g
    <2> QED BY <2>1, <2>3, <2>4
<1>5. f \in Seq(Seq(S \X T)) /\ Len(f) = Len(s) /\ g \in Seq(Seq(S \X T)) /\ Len(g) = Len(s) + 1
    BY <1>2, <1>4, FunctionIsSeq
<1>6. \A i \in 1..Len(s) : g[i] = f[i]
    BY <1>2
<1>7. g[Len(s) + 1] = Row(x)
    BY <1>2
<1> HIDE DEF f, g
<1>8. Row(x) \in Seq(S \X T)
    BY <1>1
<1>9. g = Append(f, Row(x))
    <2> DEFINE h == Append(f, Row(x))
               r == Row(x)
    <2>0. r \in Seq(S \X T) /\ h = Append(f, r)
        BY <1>8
    <2> HIDE DEF r, h
    <2>1. /\ h \in Seq(Seq(S \X T)) /\ Len(h) = Len(s) + 1
          /\ \A i \in 1..Len(s) : h[i] = f[i]
          /\ h[Len(s) + 1] = r
        BY <1>5, <2>0, AppendProperties
    <2>2. \A i \in 1..Len(h) : h[i] = g[i]
        <3> TAKE i \in 1..Len(h)
        <3>1. CASE i \in 1..Len(s)
            BY <3>1, <2>1, <1>6
        <3>2. CASE i = Len(s) + 1
            BY <3>2, <2>1, <1>7 DEF r
        <3> QED BY <3>1, <3>2, <2>1, <1>2
    <2>3. h = g
        BY <1>5, <2>1, <2>2, SeqEqual
    <2> QED BY <2>3 DEF h
<1>10. FlattenSeq(g) = FlattenSeq(f) \o Row(x) /\ FlattenSeq(f) \in Seq(S \X T)
    BY <1>5, <1>8, <1>9, FlattenSeqAppend, FlattenSeqType
<1> QED BY <1>3, <1>10 DEF u, Row

LEMMA JoinBranchesType ==
    ASSUME NEW T, NEW bs \in Seq(BranchOver(T)), NEW cs \in Seq(BranchOver(T))
    PROVE  JoinBranches(bs, cs) \in Seq(BranchOver(T))
<1> DEFINE B == BranchOver(T)
           ps == Pairs(bs, cs)
           js == [i \in DOMAIN ps |-> Join(ps[i][1], ps[i][2])]
<1>1. ps \in Seq(B \X B)
    <2>1. CASE bs = <<>>
        <3>1. ps = <<>>
            BY <2>1, PairsEmpty
        <3> QED BY <3>1
    <2>2. CASE bs # <<>>
        <3>1. PICK u \in Seq(B), x \in B : bs = Append(u, x)
            BY <2>2, SequenceEmptyOrAppend
        <3>2. Append(u, x) \in Seq(B)
            BY AppendProperties
        <3>3. Pairs(Append(bs, x), cs) = Pairs(bs, cs) \o [j \in DOMAIN cs |-> <<x, cs[j]>>]
              /\ Pairs(bs, cs) \in Seq(B \X B)
            BY PairsAppend
        <3> QED BY <3>3
    <2> QED BY <2>1, <2>2
<1> HIDE DEF ps
<1>2. \A i \in 1..Len(ps) : ps[i][1] \in B /\ ps[i][2] \in B
    BY <1>1, ElementOfSeq
<1> HIDE DEF B
<1>3. ASSUME NEW i \in 1..Len(ps) PROVE Join(ps[i][1], ps[i][2]) \in B
    <2>1. ps[i][1] \in BranchOver(T) /\ ps[i][2] \in BranchOver(T)
        BY <1>2 DEF B
    <2> QED BY <2>1, JoinType DEF B
<1>4. DOMAIN ps = 1..Len(ps) /\ Len(ps) \in Nat
    BY <1>1, LenProperties
<1>5. js \in [1..Len(ps) -> B]
    BY <1>3, <1>4
<1>6. js \in Seq(B)
    BY <1>4, <1>5, FunctionIsSeq
<1> QED BY <1>6 DEF JoinBranches, js, ps, B

\* What the recursive function of FoldLeft is here.
Folds(f, bss) ==
    f = [S \in SUBSET DOMAIN bss |->
            IF S = {} THEN <<Nothing>>
            ELSE LET i == Max(S) IN JoinBranches(f[S \ {i}], bss[i])]

LEMMA JoinAllIs == ASSUME NEW bss PROVE JoinAll(bss) = (CHOOSE f : Folds(f, bss))[DOMAIN bss]
BY DEF JoinAll, FoldLeft, MapThenFoldSet, Folds

LEMMA MaxIs ==
    ASSUME NEW n \in Nat, NEW X \in SUBSET (1..n), X # {}
    PROVE  Max(X) \in X /\ \A y \in X : Max(X) >= y
<1> DEFINE P == {m \in Nat : \A Y \in SUBSET (1..m) : Y # {} => \E x \in Y : \A y \in Y : x >= y}
<1>1. 0 \in P
    <2>1. 1..0 = {}
        OBVIOUS
    <2>2. SUBSET (1..0) = {{}}
        BY <2>1
    <2> QED BY <2>2
<1>2. ASSUME NEW m \in Nat, m \in P PROVE m + 1 \in P
    <2> SUFFICES ASSUME NEW Y \in SUBSET (1..(m + 1)), Y # {} PROVE \E x \in Y : \A y \in Y : x >= y
        OBVIOUS
    <2>1. CASE m + 1 \in Y
        BY <2>1
    <2>2. CASE m + 1 \notin Y
        <3>1. Y \in SUBSET (1..m)
            BY <2>2
        <3> QED BY <3>1, <1>2
    <2> QED BY <2>1, <2>2
<1>3. n \in P
    <2> HIDE DEF P
    <2> QED BY <1>1, <1>2, SetInduction
<1> QED BY <1>3 DEF Max

LEMMA FoldsExists ==
    ASSUME NEW T, NEW bss \in Seq(Seq(BranchOver(T)))
    PROVE  \E f \in [SUBSET (1..Len(bss)) -> Seq(BranchOver(T))] : Folds(f, bss)
<1> DEFINE n == Len(bss)
           S == SUBSET (1..n)
           V == Seq(BranchOver(T))
           rank == [X \in S |-> Cardinality(X)]
           Next_(X, f) == IF X = {} THEN <<Nothing>> ELSE JoinBranches(f[X \ {Max(X)}], bss[Max(X)])
           D == [p \in S \X [S -> V] |-> Next_(p[1], p[2])]
<1>1. n \in Nat /\ DOMAIN bss = 1..n /\ \A i \in 1..n : bss[i] \in V
    BY LenProperties, ElementOfSeq
<1>2. ASSUME NEW X \in S PROVE IsFiniteSet(X)
    <2>1. IsFiniteSet(1..n)
        BY <1>1, FS_Interval
    <2> QED BY <2>1, FS_Subset
<1>3. rank \in [S -> Nat] /\ \A X \in S : rank[X] = Cardinality(X)
    BY <1>2, FS_CardinalityType
<1>4. V # {} /\ <<Nothing>> \in V
    BY NothingType
<1>5. ASSUME NEW X \in S, X # {} PROVE Max(X) \in 1..n /\ X \ {Max(X)} \in S /\ rank[X \ {Max(X)}] < rank[X]
    <2>1. Max(X) \in X
        BY <1>1, <1>5, MaxIs
    <2>2. Cardinality(X \ {Max(X)}) = Cardinality(X) - 1 /\ Cardinality(X) \in Nat
        BY <2>1, <1>2, FS_RemoveElement, FS_CardinalityType
    <2>3. X \ {Max(X)} \in S
        OBVIOUS
    <2>4. rank[X \ {Max(X)}] = Cardinality(X \ {Max(X)}) /\ rank[X] = Cardinality(X)
        BY <2>3, <1>3
    <2>5. Max(X) \in 1..n
        BY <2>1
    <2>6. rank[X \ {Max(X)}] < rank[X]
        BY <2>2, <2>4
    <2> QED BY <2>3, <2>5, <2>6
<1> HIDE DEF rank
<1>6. ASSUME NEW X \in S, NEW f \in [S -> V] PROVE Next_(X, f) \in V
    <2>1. CASE X = {}
        BY <2>1, <1>4
    <2>2. CASE X # {}
        <3>1. f[X \ {Max(X)}] \in V /\ bss[Max(X)] \in V
            BY <2>2, <1>1, <1>5
        <3>2. JoinBranches(f[X \ {Max(X)}], bss[Max(X)]) \in V
            BY <3>1, JoinBranchesType
        <3> QED BY <2>2, <3>2
    <2> QED BY <2>1, <2>2
<1>7. ASSUME NEW X \in S, NEW f \in [S -> V], NEW g \in [S -> V],
             \A Y \in S : rank[Y] < rank[X] => f[Y] = g[Y]
      PROVE  Next_(X, f) = Next_(X, g)
    <2>1. X # {} => f[X \ {Max(X)}] = g[X \ {Max(X)}]
        BY <1>5, <1>7
    <2> QED BY <2>1
<1>8. D \in [S \X [S -> V] -> V] /\ \A X \in S : \A f \in [S -> V] : D[<<X, f>>] = Next_(X, f)
    <2> HIDE DEF Next_
    <2> QED BY <1>6
<1> HIDE DEF D
<1>9. \A X \in S : \A f, g \in [S -> V] :
          (\A Y \in S : rank[Y] < rank[X] => f[Y] = g[Y]) => D[<<X, f>>] = D[<<X, g>>]
    <2> SUFFICES ASSUME NEW X \in S, NEW f \in [S -> V], NEW g \in [S -> V],
                        \A Y \in S : rank[Y] < rank[X] => f[Y] = g[Y]
                 PROVE  D[<<X, f>>] = D[<<X, g>>]
        OBVIOUS
    <2>1. Next_(X, f) = Next_(X, g)
        BY <1>7
    <2>2. D[<<X, f>>] = Next_(X, f) /\ D[<<X, g>>] = Next_(X, g)
        BY <1>8
    <2> QED BY <2>1, <2>2
<1>10. \E f \in [S -> V] : \A X \in S : f[X] = D[<<X, f>>]
    <2>1. D \in [S \X [S -> V] -> V] /\ rank \in [S -> Nat]
        BY <1>3, <1>8
    <2> HIDE DEF S, V
    <2>2. LooksDown(S, V, rank, D)
        BY <2>1, <1>4, <1>9 DEF LooksDown
    <2> QED BY <2>2, Recursion
<1>11. PICK f \in [S -> V] : \A X \in S : f[X] = D[<<X, f>>]
    BY <1>10
<1>12. \A X \in S : f[X] = Next_(X, f)
    BY <1>8, <1>11
<1>13. f = [X \in SUBSET DOMAIN bss |->
               IF X = {} THEN <<Nothing>>
               ELSE LET i == Max(X) IN JoinBranches(f[X \ {i}], bss[i])]
    BY <1>1, <1>12
<1> QED BY <1>13 DEF Folds

LEMMA FoldsAt ==
    ASSUME NEW T, NEW bss \in Seq(Seq(BranchOver(T)))
    PROVE  \E f : /\ JoinAll(bss) = f[1..Len(bss)]
                  /\ f[{}] = <<Nothing>>
                  /\ \A k \in 1..Len(bss) : f[1..k] = JoinBranches(f[1..(k - 1)], bss[k])
<1> DEFINE f == CHOOSE g : Folds(g, bss)
<1>1. Folds(f, bss)
    BY FoldsExists
<1>2. Len(bss) \in Nat /\ DOMAIN bss = 1..Len(bss)
    BY LenProperties
<1>3. JoinAll(bss) = f[1..Len(bss)]
    BY <1>2, JoinAllIs
<1>4. \A X \in SUBSET (1..Len(bss)) :
          f[X] = IF X = {} THEN <<Nothing>> ELSE JoinBranches(f[X \ {Max(X)}], bss[Max(X)])
    <2> HIDE DEF f
    <2> QED BY <1>1, <1>2 DEF Folds
<1> HIDE DEF f
<1>5. f[{}] = <<Nothing>>
    BY <1>4
<1>6. ASSUME NEW k \in 1..Len(bss) PROVE f[1..k] = JoinBranches(f[1..(k - 1)], bss[k])
    <2>0. k \in Nat /\ 1 <= k /\ k <= Len(bss)
        BY <1>2
    <2>1. 1..k \in SUBSET (1..Len(bss)) /\ 1..k # {} /\ k \in 1..k /\ k \in Nat
        <3>1. \A j \in 1..k : j \in 1..Len(bss)
            BY <2>0, <1>2
        <3>2. k \in 1..k
            BY <2>0
        <3> QED BY <2>0, <3>1, <3>2
    <2>2. Max(1..k) = k
        <3>1. Max(1..k) \in 1..k /\ Max(1..k) >= k
            BY <2>1, MaxIs
        <3> QED BY <3>1, <2>1
    <2>3. (1..k) \ {k} = 1..(k - 1)
        BY <2>1
    <2> QED BY <2>1, <2>2, <2>3, <1>4
<1> QED BY <1>3, <1>5, <1>6

LEMMA JoinAllEmpty == JoinAll(<<>>) = <<Nothing>>
<1>1. <<>> \in Seq(Seq(BranchOver({}))) /\ Len(<<>>) = 0 /\ 1..0 = {}
    BY EmptySeq
<1>2. \E f : JoinAll(<<>>) = f[1..Len(<<>>)] /\ f[{}] = <<Nothing>>
    BY <1>1, FoldsAt
<1> QED BY <1>1, <1>2

LEMMA JoinAllAppend ==
    ASSUME NEW T, NEW bss \in Seq(Seq(BranchOver(T))), NEW bs \in Seq(BranchOver(T))
    PROVE  JoinAll(Append(bss, bs)) = JoinBranches(JoinAll(bss), bs)
<1> DEFINE t == Append(bss, bs)
           n == Len(bss)
<1>1. /\ t \in Seq(Seq(BranchOver(T))) /\ Len(t) = n + 1 /\ n \in Nat
      /\ \A i \in 1..n : t[i] = bss[i]
      /\ t[n + 1] = bs
    BY AppendProperties, LenProperties
<1> HIDE DEF t, n
<1>2. PICK f : /\ JoinAll(bss) = f[1..n]
               /\ f[{}] = <<Nothing>>
               /\ \A k \in 1..n : f[1..k] = JoinBranches(f[1..(k - 1)], bss[k])
    BY FoldsAt DEF n
<1>3. PICK g : /\ JoinAll(t) = g[1..(n + 1)]
               /\ g[{}] = <<Nothing>>
               /\ \A k \in 1..(n + 1) : g[1..k] = JoinBranches(g[1..(k - 1)], t[k])
    <2>1. \E g : /\ JoinAll(t) = g[1..Len(t)]
                 /\ g[{}] = <<Nothing>>
                 /\ \A k \in 1..Len(t) : g[1..k] = JoinBranches(g[1..(k - 1)], t[k])
        BY <1>1, FoldsAt
    <2> QED BY <2>1, <1>1
<1> DEFINE P == {k \in Nat : k <= n => f[1..k] = g[1..k]}
<1>4. 0 \in P
    <2>1. 1..0 = {}
        OBVIOUS
    <2> QED BY <2>1, <1>2, <1>3
<1>5. ASSUME NEW k \in Nat, k \in P PROVE k + 1 \in P
    <2> SUFFICES ASSUME k + 1 <= n PROVE f[1..(k + 1)] = g[1..(k + 1)]
        OBVIOUS
    <2>1. k + 1 \in 1..n /\ k + 1 \in 1..(n + 1) /\ k + 1 - 1 = k
        BY <1>1
    <2>2. f[1..(k + 1)] = JoinBranches(f[1..k], bss[k + 1]) /\ g[1..(k + 1)] = JoinBranches(g[1..k], t[k + 1])
        BY <2>1, <1>2, <1>3
    <2>3. f[1..k] = g[1..k]
        BY <1>5, <1>1
    <2> QED BY <2>1, <2>2, <2>3, <1>1
<1>6. n \in P
    <2> HIDE DEF P
    <2> QED BY <1>1, <1>4, <1>5, SetInduction
<1>7. g[1..(n + 1)] = JoinBranches(g[1..n], bs)
    <2>1. n + 1 \in 1..(n + 1) /\ n + 1 - 1 = n
        BY <1>1
    <2> QED BY <2>1, <1>1, <1>3
<1> QED BY <1>1, <1>2, <1>3, <1>6, <1>7 DEF t

LEMMA JoinAllType ==
    ASSUME NEW T, NEW bss \in Seq(Seq(BranchOver(T)))
    PROVE  JoinAll(bss) \in Seq(BranchOver(T))
<1> DEFINE B == BranchOver(T)
           P == {s \in Seq(Seq(B)) : JoinAll(s) \in Seq(B)}
<1>1. <<>> \in P
    <2>1. <<Nothing>> \in Seq(B)
        BY NothingType
    <2>2. <<>> \in Seq(Seq(B))
        OBVIOUS
    <2> HIDE DEF B
    <2> QED BY <2>1, <2>2, JoinAllEmpty
<1>2. ASSUME NEW s \in Seq(Seq(B)), NEW x \in Seq(B), s \in P PROVE Append(s, x) \in P
    BY <1>2, JoinAllAppend, JoinBranchesType, AppendProperties
<1>3. Seq(Seq(B)) \subseteq P
    <2> HIDE DEF P, B
    <2> QED BY <1>1, <1>2, SeqInduction
<1> QED BY <1>3

-----------------------------------------------------------------------------
(* The branches of a group.                                                 *)

Branch == BranchOver(Group)

LEMMA ItemKinds ==
    ASSUME NEW item \in Item
    PROVE  \/ item.kind = "block" /\ item.tss \in Seq(SameSubject)
           \/ item.kind = "union" /\ item.groups \in Seq(Group)
           \/ item.kind = "optional" /\ item.group \in Group
           \/ item.kind \in {"other", "subselect"}
BY DEF Item

LEMMA ItemType ==
    ASSUME NEW item \in Item, NEW T, NEW f,
           item.kind = "optional" => item.group \in T,
           item.kind = "union" => \A h \in Range(item.groups) : f[h] \in Seq(BranchOver(T))
    PROVE  ItemBranches(item, f) \in Seq(BranchOver(T))
<1>1. CASE item.kind = "block" /\ item.tss \in Seq(SameSubject)
    <2>1. [tss |-> item.tss, opts |-> <<>>] \in BranchOver(T)
        BY <1>1 DEF BranchOver
    <2> QED BY <1>1, <2>1 DEF ItemBranches
<1>2. CASE item.kind = "union" /\ item.groups \in Seq(Group)
    <2> DEFINE gs == item.groups
               bss == [k \in DOMAIN gs |-> f[gs[k]]]
    <2>1. Len(gs) \in Nat /\ DOMAIN gs = 1..Len(gs) /\ \A k \in 1..Len(gs) : gs[k] \in Range(gs)
        BY <1>2, LenProperties DEF Range
    <2>2. bss \in [1..Len(gs) -> Seq(BranchOver(T))]
        BY <1>2, <2>1
    <2>3. bss \in Seq(Seq(BranchOver(T)))
        BY <2>1, <2>2, FunctionIsSeq
    <2> HIDE DEF bss
    <2>4. FlattenSeq(bss) \in Seq(BranchOver(T))
        BY <2>3, FlattenSeqType
    <2> QED BY <1>2, <2>4 DEF ItemBranches, bss
<1>3. CASE item.kind = "optional" /\ item.group \in Group
    <2>1. [tss |-> <<>>, opts |-> <<item.group>>] \in BranchOver(T)
        BY <1>3 DEF BranchOver
    <2> QED BY <1>3, <2>1 DEF ItemBranches
<1>4. CASE item.kind \in {"other", "subselect"}
    <2>1. Nothing \in BranchOver(T)
        BY NothingType
    <2> QED BY <1>4, <2>1 DEF ItemBranches
<1> QED BY <1>1, <1>2, <1>3, <1>4, ItemKinds

LEMMA EachItemType ==
    ASSUME NEW items \in Seq(Item), NEW T, NEW f,
           \A i \in DOMAIN items : ItemBranches(items[i], f) \in Seq(BranchOver(T))
    PROVE  EachItem(items, f) \in Seq(Seq(BranchOver(T)))
<1>1. Len(items) \in Nat /\ DOMAIN items = 1..Len(items)
    BY LenProperties
<1>2. EachItem(items, f) \in [1..Len(items) -> Seq(BranchOver(T))]
    BY <1>1 DEF EachItem
<1> QED BY <1>1, <1>2, FunctionIsSeq

LEMMA GroupItems ==
    ASSUME NEW g \in Group
    PROVE  /\ g \in Seq(Item) /\ Len(g) \in Nat /\ DOMAIN g = 1..Len(g)
           /\ \A i \in DOMAIN g : g[i] \in Item
           /\ \A i \in DOMAIN g : /\ g[i].kind = "optional" => g[i].group \in Inner(g) /\ g[i].group \in Group
                                  /\ g[i].kind = "union" => /\ g[i].groups \in Seq(Group)
                                                            /\ Range(g[i].groups) \subseteq Inner(g) \cap Group
<1>1. g \in Seq(Item)
    BY GrammarAssumption
<1>2. Len(g) \in Nat /\ DOMAIN g = 1..Len(g) /\ \A i \in DOMAIN g : g[i] \in Item
    BY <1>1, LenProperties, ElementOfSeq
<1>3. ASSUME NEW i \in DOMAIN g, g[i].kind = "optional" PROVE g[i].group \in Inner(g) /\ g[i].group \in Group
    <2>1. GroupsOf(g[i]) = {g[i].group}
        BY <1>3 DEF GroupsOf
    <2>2. g[i].group \in Group
        BY <1>2, <1>3, ItemKinds
    <2> QED BY <2>1, <2>2 DEF Inner
<1>4. ASSUME NEW i \in DOMAIN g, g[i].kind = "union"
      PROVE  g[i].groups \in Seq(Group) /\ Range(g[i].groups) \subseteq Inner(g) \cap Group
    <2>1. GroupsOf(g[i]) = Range(g[i].groups)
        BY <1>4 DEF GroupsOf
    <2>2. g[i].groups \in Seq(Group)
        BY <1>2, <1>4, ItemKinds
    <2>3. Range(g[i].groups) \subseteq Group
        BY <2>2, LenProperties, ElementOfSeq DEF Range
    <2> QED BY <2>1, <2>2, <2>3 DEF Inner
<1> QED BY <1>1, <1>2, <1>3, <1>4

\* What the function is.
BranchesAre(f) == f = [group \in Group |-> JoinAll(EachItem(group, f))]

LEMMA BranchesIs == Branches = CHOOSE f : BranchesAre(f)
BY DEF Branches, BranchesAre

LEMMA BranchesExist == \E f \in [Group -> Seq(Branch)] : BranchesAre(f)
<1> DEFINE V == Seq(Branch)
           D == [p \in Group \X [Group -> V] |-> JoinAll(EachItem(p[1], p[2]))]
<1>1. V # {}
    <2>1. <<>> \in V
        OBVIOUS
    <2> QED BY <2>1
<1>2. ASSUME NEW g \in Group, NEW f \in [Group -> V]
      PROVE  EachItem(g, f) \in Seq(Seq(Branch)) /\ JoinAll(EachItem(g, f)) \in V
    <2>1. \A i \in DOMAIN g : ItemBranches(g[i], f) \in Seq(BranchOver(Group))
        <3> TAKE i \in DOMAIN g
        <3>1. g[i] \in Item /\ (g[i].kind = "optional" => g[i].group \in Group)
              /\ (g[i].kind = "union" => \A h \in Range(g[i].groups) : f[h] \in Seq(BranchOver(Group)))
            BY GroupItems DEF Branch
        <3> QED BY <3>1, ItemType
    <2>2. EachItem(g, f) \in Seq(Seq(BranchOver(Group)))
        BY <2>1, EachItemType, GroupItems
    <2> QED BY <2>2, JoinAllType DEF Branch
<1>3. D \in [Group \X [Group -> V] -> V] /\ \A g \in Group : \A f \in [Group -> V] : D[<<g, f>>] = JoinAll(EachItem(g, f))
    <2> HIDE DEF V
    <2> QED BY <1>2
<1>4. ASSUME NEW g \in Group, NEW f \in [Group -> V], NEW h \in [Group -> V],
             \A y \in Group : GroupDepth[y] < GroupDepth[g] => f[y] = h[y]
      PROVE  EachItem(g, f) = EachItem(g, h)
    <2>1. \A y \in Inner(g) \cap Group : f[y] = h[y]
        BY <1>4, DepthAssumption
    <2>2. ASSUME NEW i \in DOMAIN g PROVE ItemBranches(g[i], f) = ItemBranches(g[i], h)
        <3>1. CASE g[i].kind = "union"
            <4> DEFINE gs == g[i].groups
            <4>1. \A k \in DOMAIN gs : gs[k] \in Inner(g) \cap Group
                BY <3>1, GroupItems DEF Range
            <4>2. [k \in DOMAIN gs |-> f[gs[k]]] = [k \in DOMAIN gs |-> h[gs[k]]]
                BY <4>1, <2>1
            <4> QED BY <3>1, <4>2 DEF ItemBranches
        <3>2. CASE g[i].kind # "union"
            BY <3>2 DEF ItemBranches
        <3> QED BY <3>1, <3>2
    <2> QED BY <2>2 DEF EachItem
<1> HIDE DEF D
<1>5. LooksDown(Group, V, GroupDepth, D)
    <2>1. \A g \in Group : \A f, h \in [Group -> V] :
              (\A y \in Group : GroupDepth[y] < GroupDepth[g] => f[y] = h[y]) => D[<<g, f>>] = D[<<g, h>>]
        <3> SUFFICES ASSUME NEW g \in Group, NEW f \in [Group -> V], NEW h \in [Group -> V],
                            \A y \in Group : GroupDepth[y] < GroupDepth[g] => f[y] = h[y]
                     PROVE  D[<<g, f>>] = D[<<g, h>>]
            OBVIOUS
        <3>1. EachItem(g, f) = EachItem(g, h)
            BY <1>4
        <3> QED BY <3>1, <1>3
    <2> HIDE DEF V
    <2> QED BY <2>1, <1>1, <1>3, DepthAssumption DEF LooksDown
<1>6. \E f \in [Group -> V] : \A g \in Group : f[g] = D[<<g, f>>]
    BY <1>5, Recursion
<1>7. PICK f \in [Group -> V] : \A g \in Group : f[g] = D[<<g, f>>]
    BY <1>6
<1>8. f = [g \in Group |-> JoinAll(EachItem(g, f))]
    BY <1>3, <1>7
<1> QED BY <1>8 DEF BranchesAre

\* All groups that are less deep.
Shallower(g) == {h \in Group : GroupDepth[h] < GroupDepth[g]}

LEMMA BranchesOfGroup ==
    ASSUME NEW g \in Group
    PROVE  Branches[g] = JoinAll(EachItem(g, Branches))
<1> DEFINE f == CHOOSE f : BranchesAre(f)
<1>1. BranchesAre(f)
    BY BranchesExist
<1>2. Branches = f
    BY BranchesIs
<1> HIDE DEF f
<1> QED BY <1>1, <1>2 DEF BranchesAre

LEMMA BranchOverMonotonic ==
    ASSUME NEW S, NEW T, S \subseteq T
    PROVE  Seq(BranchOver(S)) \subseteq Seq(BranchOver(T))
<1>1. Seq(S) \subseteq Seq(T)
    BY SeqMonotonic
<1>2. BranchOver(S) \subseteq BranchOver(T)
    BY <1>1 DEF BranchOver
<1> QED BY <1>2, SeqMonotonic

LEMMA BranchesShallower == \A g \in Group : Branches[g] \in Seq(BranchOver(Shallower(g)))
<1> DEFINE P == {n \in Nat : \A g \in Group : GroupDepth[g] < n => Branches[g] \in Seq(BranchOver(Shallower(g)))}
<1>0. \A g \in Group : GroupDepth[g] \in Nat
    BY DepthAssumption
<1>1. 0 \in P
    BY <1>0
<1>2. ASSUME NEW n \in Nat, n \in P PROVE n + 1 \in P
    <2> SUFFICES ASSUME NEW g \in Group, GroupDepth[g] < n + 1
                 PROVE  Branches[g] \in Seq(BranchOver(Shallower(g)))
        OBVIOUS
    <2>1. \A h \in Inner(g) \cap Group : h \in Shallower(g) /\ Branches[h] \in Seq(BranchOver(Shallower(g)))
        <3> TAKE h \in Inner(g) \cap Group
        <3>1. GroupDepth[h] < GroupDepth[g] /\ GroupDepth[h] < n
            BY <1>0, DepthAssumption
        <3>2. Shallower(h) \subseteq Shallower(g)
            BY <3>1, <1>0 DEF Shallower
        <3>3. Branches[h] \in Seq(BranchOver(Shallower(h)))
            BY <3>1, <1>2
        <3> QED BY <3>1, <3>2, <3>3, BranchOverMonotonic DEF Shallower
    <2>2. \A i \in DOMAIN g : ItemBranches(g[i], Branches) \in Seq(BranchOver(Shallower(g)))
        <3> TAKE i \in DOMAIN g
        <3>1. g[i] \in Item /\ (g[i].kind = "optional" => g[i].group \in Shallower(g))
              /\ (g[i].kind = "union" => \A h \in Range(g[i].groups) : Branches[h] \in Seq(BranchOver(Shallower(g))))
            BY <2>1, GroupItems
        <3> QED BY <3>1, ItemType
    <2>3. EachItem(g, Branches) \in Seq(Seq(BranchOver(Shallower(g))))
        BY <2>2, EachItemType, GroupItems
    <2> QED BY <2>3, JoinAllType, BranchesOfGroup
<1>3. Nat \subseteq P
    <2> HIDE DEF P
    <2> QED BY <1>1, <1>2, SetInduction
<1> SUFFICES ASSUME NEW g \in Group PROVE Branches[g] \in Seq(BranchOver(Shallower(g)))
    OBVIOUS
<1>4. GroupDepth[g] + 1 \in P /\ GroupDepth[g] < GroupDepth[g] + 1
    BY <1>0, <1>3
<1> QED BY <1>4

LEMMA BranchesType == \A g \in Group : Branches[g] \in Seq(Branch)
BY BranchesShallower, BranchOverMonotonic DEF Branch, Shallower

-----------------------------------------------------------------------------
(* Measures of branches.                                                    *)

\* A measure does not depend on what of a branch comes first.
Measures == {F \in [Branch -> Nat] :
                \A a, b, c \in Branch : F[Join(Join(a, b), c)] = F[Join(Join(b, a), c)]}

\* The measure of what is joined with b, and that with all the branches in bs.
Shift(F, b)   == [c \in Branch |-> F[Join(b, c)]]
With(F, bs) == [c \in Branch |-> Sum(Shift(F, c), bs)]

LEMMA BranchFacts ==
    /\ Nothing \in Branch
    /\ \A b \in Branch : Join(b, Nothing) = b /\ Join(Nothing, b) = b
    /\ \A b, c \in Branch : Join(b, c) \in Branch
    /\ \A a, b, c \in Branch : Join(Join(a, b), c) = Join(a, Join(b, c))
<1>1. Nothing \in Branch /\ \A b, c \in Branch : Join(b, c) \in Branch
    BY NothingType, JoinType DEF Branch
<1>2. ASSUME NEW b \in Branch PROVE Join(b, Nothing) = b /\ Join(Nothing, b) = b
    <2>1. b.tss \in Seq(SameSubject) /\ b.opts \in Seq(Group) /\ b = [tss |-> b.tss, opts |-> b.opts]
        BY DEF Branch, BranchOver
    <2>2. b.tss \o <<>> = b.tss /\ <<>> \o b.tss = b.tss /\ b.opts \o <<>> = b.opts /\ <<>> \o b.opts = b.opts
        BY <2>1, ConcatEmptySeq
    <2> QED BY <2>1, <2>2 DEF Join, Nothing
<1>3. ASSUME NEW a \in Branch, NEW b \in Branch, NEW c \in Branch
      PROVE  Join(Join(a, b), c) = Join(a, Join(b, c))
    <2>0. /\ a.tss \in Seq(SameSubject) /\ b.tss \in Seq(SameSubject) /\ c.tss \in Seq(SameSubject)
          /\ a.opts \in Seq(Group) /\ b.opts \in Seq(Group) /\ c.opts \in Seq(Group)
        BY DEF Branch, BranchOver
    <2>1. \A p, q, r \in Seq(SameSubject) : (p \o q) \o r = p \o (q \o r)
        BY ConcatAssociative
    <2>2. \A p, q, r \in Seq(Group) : (p \o q) \o r = p \o (q \o r)
        BY ConcatAssociative
    <2>3. (a.tss \o b.tss) \o c.tss = a.tss \o (b.tss \o c.tss)
        BY <2>0, <2>1
    <2>4. (a.opts \o b.opts) \o c.opts = a.opts \o (b.opts \o c.opts)
        BY <2>0, <2>2
    <2> QED BY <2>3, <2>4 DEF Join
<1> QED BY <1>1, <1>2, <1>3

LEMMA MeasureType == \A F \in Measures : F \in [Branch -> Nat]
BY DEF Measures

LEMMA EitherFirst == \A F \in Measures : \A a, b \in Branch : F[Join(a, b)] = F[Join(b, a)]
<1> SUFFICES ASSUME NEW F \in Measures, NEW a \in Branch, NEW b \in Branch
             PROVE  F[Join(a, b)] = F[Join(b, a)]
    OBVIOUS
<1>1. F[Join(Join(a, b), Nothing)] = F[Join(Join(b, a), Nothing)]
    BY BranchFacts DEF Measures
<1>2. Join(Join(a, b), Nothing) = Join(a, b) /\ Join(Join(b, a), Nothing) = Join(b, a)
    BY BranchFacts
<1> QED BY <1>1, <1>2

LEMMA ShiftType ==
    ASSUME NEW F \in [Branch -> Nat], NEW b \in Branch
    PROVE  Shift(F, b) \in [Branch -> Nat] /\ \A c \in Branch : Shift(F, b)[c] = F[Join(b, c)]
BY BranchFacts DEF Shift

LEMMA ShiftTwice ==
    ASSUME NEW F \in [Branch -> Nat], NEW b \in Branch, NEW c \in Branch
    PROVE  Shift(Shift(F, b), c) = Shift(F, Join(b, c))
<1>1. \A d \in Branch : Join(c, d) \in Branch /\ Join(b, Join(c, d)) = Join(Join(b, c), d)
    BY BranchFacts
<1> QED BY <1>1 DEF Shift

LEMMA ShiftNothing == ASSUME NEW F \in [Branch -> Nat] PROVE Shift(F, Nothing) = F
<1>1. \A c \in Branch : Join(Nothing, c) = c
    BY BranchFacts
<1> QED BY <1>1 DEF Shift

LEMMA ShiftSwap ==
    ASSUME NEW F \in Measures, NEW a \in Branch, NEW b \in Branch
    PROVE  Shift(F, Join(a, b)) = Shift(F, Join(b, a))
<1>1. \A c \in Branch : F[Join(Join(a, b), c)] = F[Join(Join(b, a), c)]
    BY DEF Measures
<1> QED BY <1>1 DEF Shift

LEMMA ShiftMeasure == \A F \in Measures : \A b \in Branch : Shift(F, b) \in Measures
<1> SUFFICES ASSUME NEW F \in Measures, NEW b \in Branch PROVE Shift(F, b) \in Measures
    OBVIOUS
<1>1. Shift(F, b) \in [Branch -> Nat] /\ \A c \in Branch : Shift(F, b)[c] = F[Join(b, c)]
    BY MeasureType, ShiftType
<1>2. ASSUME NEW x \in Branch, NEW y \in Branch, NEW z \in Branch
      PROVE  F[Join(b, Join(Join(x, y), z))] = F[Join(b, Join(Join(y, x), z))]
    <2>0. Join(x, y) \in Branch /\ Join(y, x) \in Branch /\ Join(z, b) \in Branch
          /\ Join(Join(x, y), z) \in Branch /\ Join(Join(y, x), z) \in Branch
        BY BranchFacts
    <2>1. /\ F[Join(b, Join(Join(x, y), z))] = F[Join(Join(Join(x, y), z), b)]
          /\ F[Join(b, Join(Join(y, x), z))] = F[Join(Join(Join(y, x), z), b)]
        BY <2>0, EitherFirst
    <2>2. /\ Join(Join(Join(x, y), z), b) = Join(Join(x, y), Join(z, b))
          /\ Join(Join(Join(y, x), z), b) = Join(Join(y, x), Join(z, b))
        BY <2>0, BranchFacts
    <2>3. F[Join(Join(x, y), Join(z, b))] = F[Join(Join(y, x), Join(z, b))]
        BY <2>0 DEF Measures
    <2> QED BY <2>1, <2>2, <2>3
<1>3. \A x, y, z \in Branch : Shift(F, b)[Join(Join(x, y), z)] = Shift(F, b)[Join(Join(y, x), z)]
    <2> TAKE x, y, z \in Branch
    <2>1. Join(Join(x, y), z) \in Branch /\ Join(Join(y, x), z) \in Branch
        BY BranchFacts
    <2> QED BY <2>1, <1>1, <1>2
<1> QED BY <1>1, <1>3 DEF Measures

LEMMA WithType ==
    ASSUME NEW F \in [Branch -> Nat], NEW bs \in Seq(Branch)
    PROVE  With(F, bs) \in [Branch -> Nat] /\ \A c \in Branch : With(F, bs)[c] = Sum(Shift(F, c), bs)
<1>1. \A c \in Branch : Sum(Shift(F, c), bs) \in Nat
    BY ShiftType, SumType
<1> QED BY <1>1 DEF With

LEMMA WithMeasure == \A F \in Measures : \A bs \in Seq(Branch) : With(F, bs) \in Measures
<1> SUFFICES ASSUME NEW F \in Measures, NEW bs \in Seq(Branch) PROVE With(F, bs) \in Measures
    OBVIOUS
<1>0. F \in [Branch -> Nat]
    BY MeasureType
<1>1. With(F, bs) \in [Branch -> Nat] /\ \A c \in Branch : With(F, bs)[c] = Sum(Shift(F, c), bs)
    BY <1>0, WithType
<1>2. ASSUME NEW a \in Branch, NEW b \in Branch, NEW c \in Branch
      PROVE  With(F, bs)[Join(Join(a, b), c)] = With(F, bs)[Join(Join(b, a), c)]
    <2>0. Join(a, b) \in Branch /\ Join(b, a) \in Branch
          /\ Join(Join(a, b), c) \in Branch /\ Join(Join(b, a), c) \in Branch
        BY BranchFacts
    <2>1. Shift(F, Join(Join(a, b), c)) = Shift(Shift(F, Join(a, b)), c)
          /\ Shift(F, Join(Join(b, a), c)) = Shift(Shift(F, Join(b, a)), c)
        BY <1>0, <2>0, ShiftTwice
    <2>2. Shift(F, Join(a, b)) = Shift(F, Join(b, a))
        BY ShiftSwap
    <2> QED BY <2>0, <2>1, <2>2, <1>1
<1> QED BY <1>1, <1>2 DEF Measures

LEMMA ShiftWith ==
    ASSUME NEW F \in [Branch -> Nat], NEW bs \in Seq(Branch), NEW b \in Branch
    PROVE  Shift(With(F, bs), b) = With(Shift(F, b), bs)
<1>1. ASSUME NEW c \in Branch PROVE With(F, bs)[Join(b, c)] = Sum(Shift(Shift(F, b), c), bs)
    <2>1. Join(b, c) \in Branch
        BY BranchFacts
    <2>2. With(F, bs)[Join(b, c)] = Sum(Shift(F, Join(b, c)), bs)
        BY <2>1, WithType
    <2> QED BY <2>2, ShiftTwice
<1> QED BY <1>1 DEF Shift, With

LEMMA JoinBranchesEmpty == ASSUME NEW bs PROVE JoinBranches(<<>>, bs) = <<>>
<1> DEFINE ps == Pairs(<<>>, bs)
<1>1. ps = <<>>
    BY PairsEmpty
<1> HIDE DEF ps
<1>2. [i \in DOMAIN ps |-> Join(ps[i][1], ps[i][2])] = <<>>
    BY <1>1
<1> QED BY <1>2 DEF JoinBranches, ps

\* One branch joined with each.
JoinEach(b, bs) == [j \in DOMAIN bs |-> Join(b, bs[j])]

LEMMA JoinEachType ==
    ASSUME NEW b \in Branch, NEW bs \in Seq(Branch)
    PROVE  /\ JoinEach(b, bs) \in Seq(Branch) /\ Len(JoinEach(b, bs)) = Len(bs)
           /\ \A j \in 1..Len(bs) : JoinEach(b, bs)[j] = Join(b, bs[j])
<1>1. Len(bs) \in Nat /\ DOMAIN bs = 1..Len(bs) /\ \A j \in 1..Len(bs) : bs[j] \in Branch
    BY LenProperties, ElementOfSeq
<1>2. \A j \in 1..Len(bs) : Join(b, bs[j]) \in Branch
    BY <1>1, BranchFacts
<1>3. JoinEach(b, bs) \in [1..Len(bs) -> Branch]
    BY <1>1, <1>2 DEF JoinEach
<1>4. \A j \in 1..Len(bs) : JoinEach(b, bs)[j] = Join(b, bs[j])
    BY <1>1 DEF JoinEach
<1> QED BY <1>1, <1>3, <1>4, FunctionIsSeq

LEMMA JoinBranchesAppend ==
    ASSUME NEW bs \in Seq(Branch), NEW b \in Branch, NEW cs \in Seq(Branch)
    PROVE  JoinBranches(Append(bs, b), cs) = JoinBranches(bs, cs) \o JoinEach(b, cs)
           /\ JoinBranches(bs, cs) \in Seq(Branch)
<1> DEFINE ps == Pairs(bs, cs)
           row == [j \in DOMAIN cs |-> <<b, cs[j]>>]
           qs == Pairs(Append(bs, b), cs)
           js == JoinBranches(bs, cs)
           es == JoinEach(b, cs)
           ks == JoinBranches(Append(bs, b), cs)
<1>1. qs = ps \o row /\ ps \in Seq(Branch \X Branch)
    BY PairsAppend
<1>2. Len(cs) \in Nat /\ DOMAIN cs = 1..Len(cs) /\ \A j \in 1..Len(cs) : cs[j] \in Branch
    BY LenProperties, ElementOfSeq
<1>3. row \in [1..Len(cs) -> Branch \X Branch]
    BY <1>2
<1>4. row \in Seq(Branch \X Branch) /\ Len(row) = Len(cs) /\ \A j \in 1..Len(cs) : row[j] = <<b, cs[j]>>
    BY <1>2, <1>3, FunctionIsSeq
<1>5. js \in Seq(Branch) /\ ks \in Seq(Branch) /\ es \in Seq(Branch)
    <2>1. Append(bs, b) \in Seq(Branch)
        BY AppendProperties
    <2> QED BY <2>1, JoinBranchesType, JoinEachType DEF Branch
<1>6. Len(ps) \in Nat /\ DOMAIN ps = 1..Len(ps)
    BY <1>1, LenProperties
<1>7. js = [i \in DOMAIN ps |-> Join(ps[i][1], ps[i][2])] /\ ks = [i \in DOMAIN qs |-> Join(qs[i][1], qs[i][2])]
    BY DEF JoinBranches
<1> HIDE DEF ps, row, qs, js, ks
<1>8. /\ qs \in Seq(Branch \X Branch) /\ Len(qs) = Len(ps) + Len(cs)
      /\ \A i \in 1..Len(qs) : qs[i] = IF i <= Len(ps) THEN ps[i] ELSE row[i - Len(ps)]
    <2>0. ps \in Seq(Branch \X Branch) /\ row \in Seq(Branch \X Branch)
        BY <1>1, <1>4
    <2>1. /\ ps \o row \in Seq(Branch \X Branch) /\ Len(ps \o row) = Len(ps) + Len(row)
          /\ \A i \in 1..(Len(ps) + Len(row)) : (ps \o row)[i] = IF i <= Len(ps) THEN ps[i] ELSE row[i - Len(ps)]
        BY <2>0, ConcatProperties
    <2> QED BY <2>1, <1>1, <1>4
<1>9. DOMAIN qs = 1..Len(qs) /\ Len(js) = Len(ps) /\ Len(ks) = Len(qs)
    <2>1. DOMAIN qs = 1..Len(qs) /\ Len(qs) \in Nat
        BY <1>8, LenProperties
    <2>2. DOMAIN js = 1..Len(ps) /\ DOMAIN ks = 1..Len(qs)
        BY <1>6, <1>7, <2>1
    <2> QED BY <2>1, <2>2, <1>5, <1>6, LenProperties
<1>10. Len(es) = Len(cs) /\ \A j \in 1..Len(cs) : es[j] = Join(b, cs[j])
    BY JoinEachType
<1> HIDE DEF es
<1>11. /\ js \o es \in Seq(Branch) /\ Len(js \o es) = Len(qs)
       /\ \A i \in 1..Len(qs) : (js \o es)[i] = IF i <= Len(ps) THEN js[i] ELSE es[i - Len(ps)]
    <2>1. /\ js \o es \in Seq(Branch) /\ Len(js \o es) = Len(js) + Len(es)
          /\ \A i \in 1..(Len(js) + Len(es)) : (js \o es)[i] = IF i <= Len(js) THEN js[i] ELSE es[i - Len(js)]
        BY <1>5, ConcatProperties
    <2> QED BY <2>1, <1>8, <1>9, <1>10
<1>12. ASSUME NEW i \in 1..Len(qs) PROVE ks[i] = (js \o es)[i]
    <2>1. ks[i] = Join(qs[i][1], qs[i][2])
        BY <1>7, <1>9
    <2>2. CASE i <= Len(ps)
        <3>1. i \in 1..Len(ps)
            BY <2>2, <1>6
        <3>2. js[i] = Join(ps[i][1], ps[i][2])
            BY <3>1, <1>6, <1>7
        <3> QED BY <2>1, <2>2, <3>2, <1>8, <1>11
    <2>3. CASE ~(i <= Len(ps))
        <3>1. i - Len(ps) \in 1..Len(cs)
            BY <2>3, <1>2, <1>6, <1>8
        <3>2. qs[i] = <<b, cs[i - Len(ps)]>> /\ (js \o es)[i] = Join(b, cs[i - Len(ps)])
            BY <2>3, <3>1, <1>4, <1>8, <1>10, <1>11
        <3> QED BY <2>1, <3>2
    <2> QED BY <2>2, <2>3
<1>13. ks = js \o es
    BY <1>5, <1>9, <1>11, <1>12, SeqEqual
<1> QED BY <1>5, <1>13 DEF ks, js, es

LEMMA SumJoinBranches ==
    ASSUME NEW F \in [Branch -> Nat], NEW bs \in Seq(Branch), NEW cs \in Seq(Branch)
    PROVE  Sum(F, JoinBranches(bs, cs)) = Sum(With(F, cs), bs)
<1> DEFINE G == With(F, cs)
           P == {l \in Seq(Branch) : Sum(F, JoinBranches(l, cs)) = Sum(G, l)}
<1>1. G \in [Branch -> Nat] /\ \A c \in Branch : G[c] = Sum(Shift(F, c), cs)
    BY WithType
<1> HIDE DEF G
<1>2. <<>> \in P
    BY JoinBranchesEmpty, SumEmpty
<1>3. ASSUME NEW l \in Seq(Branch), NEW b \in Branch, l \in P PROVE Append(l, b) \in P
    <2>1. JoinBranches(Append(l, b), cs) = JoinBranches(l, cs) \o JoinEach(b, cs)
          /\ JoinBranches(l, cs) \in Seq(Branch)
        BY JoinBranchesAppend
    <2>2. JoinEach(b, cs) \in Seq(Branch) /\ Len(JoinEach(b, cs)) = Len(cs)
          /\ \A j \in 1..Len(cs) : JoinEach(b, cs)[j] = Join(b, cs[j])
        BY JoinEachType
    <2>3. Sum(F, JoinBranches(l, cs) \o JoinEach(b, cs)) = Sum(F, JoinBranches(l, cs)) + Sum(F, JoinEach(b, cs))
        BY <2>1, <2>2, SumConcat
    <2>4. Sum(F, JoinEach(b, cs)) = Sum(Shift(F, b), cs)
        <3>1. Shift(F, b) \in [Branch -> Nat] /\ \A c \in Branch : Shift(F, b)[c] = F[Join(b, c)]
            BY ShiftType
        <3>2. \A j \in 1..Len(cs) : Shift(F, b)[cs[j]] = F[JoinEach(b, cs)[j]]
            BY <3>1, <2>2, ElementOfSeq
        <3> DEFINE G2 == Shift(F, b)
                   es == JoinEach(b, cs)
        <3>3. G2 \in [Branch -> Nat] /\ es \in Seq(Branch) /\ Len(cs) = Len(es)
              /\ \A j \in 1..Len(es) : F[es[j]] = G2[cs[j]]
            BY <3>1, <3>2, <2>2
        <3> HIDE DEF G2, es
        <3>5. Alike(Branch, F, es, Branch, G2, cs)
            BY <3>3 DEF Alike
        <3>4. Sum(F, es) = Sum(G2, cs)
            BY <3>5, SumSame
        <3> QED BY <3>4 DEF G2, es
    <2>5. Sum(G, Append(l, b)) = Sum(G, l) + G[b]
        BY <1>1, SumAppend
    <2>6. Sum(F, JoinBranches(Append(l, b), cs)) = Sum(G, Append(l, b))
        BY <1>1, <1>3, <2>1, <2>3, <2>4, <2>5
    <2> QED BY <2>6, AppendProperties
<1>4. Seq(Branch) \subseteq P
    <2> HIDE DEF P
    <2> QED BY <1>2, <1>3, SeqInduction
<1> QED BY <1>4 DEF G

LEMMA WithSwap ==
    ASSUME NEW F \in Measures, NEW bs \in Seq(Branch), NEW cs \in Seq(Branch)
    PROVE  Sum(With(F, cs), bs) = Sum(With(F, bs), cs)
<1> DEFINE A == [p \in Branch \X Branch |-> F[Join(p[1], p[2])]]
<1>0. F \in [Branch -> Nat]
    BY MeasureType
<1>1. A \in [Branch \X Branch -> Nat] /\ \A x, y \in Branch : A[<<x, y>>] = F[Join(x, y)]
    BY <1>0, BranchFacts
<1> HIDE DEF A
<1>3. \A x \in Branch : [y \in Branch |-> A[<<x, y>>]] = Shift(F, x)
    BY <1>1 DEF Shift
<1>4. \A y \in Branch : [x \in Branch |-> A[<<x, y>>]] = Shift(F, y)
    <2> TAKE y \in Branch
    <2>1. \A x \in Branch : A[<<x, y>>] = F[Join(y, x)]
        BY <1>1, EitherFirst
    <2> QED BY <2>1 DEF Shift
<1>5. [x \in Branch |-> Sum([y \in Branch |-> A[<<x, y>>]], cs)] = With(F, cs)
    BY <1>3 DEF With
<1>6. [y \in Branch |-> Sum([x \in Branch |-> A[<<x, y>>]], bs)] = With(F, bs)
    BY <1>4 DEF With
<1>7. Crosses(Branch, bs, Branch, cs, A, With(F, cs), With(F, bs))
    BY <1>1, <1>5, <1>6 DEF Crosses
<1> QED BY <1>7, SumSwap

LEMMA WithOne ==
    ASSUME NEW F \in Measures, NEW b \in Branch
    PROVE  With(F, <<b>>) = Shift(F, b)
<1>0. F \in [Branch -> Nat]
    BY MeasureType
<1>1. ASSUME NEW c \in Branch PROVE Sum(Shift(F, c), <<b>>) = F[Join(b, c)]
    <2>1. Shift(F, c) \in [Branch -> Nat] /\ Shift(F, c)[b] = F[Join(c, b)]
        BY <1>0, ShiftType
    <2>2. Sum(Shift(F, c), <<b>>) = Shift(F, c)[b]
        BY <2>1, SumOne
    <2> QED BY <2>1, <2>2, EitherFirst
<1> QED BY <1>1 DEF With, Shift

LEMMA WithJoined ==
    ASSUME NEW F \in [Branch -> Nat], NEW bs \in Seq(Branch), NEW cs \in Seq(Branch)
    PROVE  With(F, JoinBranches(bs, cs)) = With(With(F, cs), bs)
<1>1. ASSUME NEW c \in Branch PROVE Sum(Shift(F, c), JoinBranches(bs, cs)) = Sum(Shift(With(F, cs), c), bs)
    <2>1. Shift(F, c) \in [Branch -> Nat]
        BY ShiftType
    <2>2. Sum(Shift(F, c), JoinBranches(bs, cs)) = Sum(With(Shift(F, c), cs), bs)
        BY <2>1, SumJoinBranches
    <2> QED BY <2>2, ShiftWith
<1> QED BY <1>1 DEF With

-----------------------------------------------------------------------------
(* What a group has of its own, and its UNIONs.                             *)

\* The item of one kind, if it is.
IfKind(kind) == [item \in Item |-> IF item.kind = kind THEN <<item>> ELSE <<>>]

LEMMA IfKindType == ASSUME NEW kind PROVE Maps(IfKind(kind), Item, Seq(Item))
BY DEF IfKind, Maps

LEMMA OfKindIs ==
    ASSUME NEW items \in Seq(Item), NEW kind
    PROVE  OfKind(items, kind) = Flat(IfKind(kind), items)
<1> DEFINE T == {item \in Range(items) : item.kind = kind}
<1>1. DOMAIN items = 1..Len(items) /\ \A i \in 1..Len(items) : items[i] \in Item /\ items[i] \in Range(items)
    BY LenProperties, ElementOfSeq DEF Range
<1>2. [i \in DOMAIN items |-> IF items[i] \in T THEN <<items[i]>> ELSE <<>>]
      = [i \in DOMAIN items |-> IfKind(kind)[items[i]]]
    BY <1>1 DEF IfKind
<1> QED BY <1>2 DEF OfKind, Within, Flat, Mapped

LEMMA OfKindAppend ==
    ASSUME NEW items \in Seq(Item), NEW kind, NEW item \in Item
    PROVE  /\ OfKind(items, kind) \in Seq(Item)
           /\ OfKind(Append(items, item), kind)
              = IF item.kind = kind THEN Append(OfKind(items, kind), item) ELSE OfKind(items, kind)
<1> DEFINE s == OfKind(items, kind)
           h == IfKind(kind)
<1>1. s = Flat(h, items) /\ s \in Seq(Item)
    BY OfKindIs, IfKindType, FlatType
<1>2. Append(items, item) \in Seq(Item)
    BY AppendProperties
<1>3. OfKind(Append(items, item), kind) = Flat(h, Append(items, item))
    BY <1>2, OfKindIs
<1>4. Flat(h, Append(items, item)) = Flat(h, items) \o h[item]
    BY IfKindType, FlatAppend
<1>5. h[item] = IF item.kind = kind THEN <<item>> ELSE <<>>
    BY DEF IfKind
<1> HIDE DEF s, h
<1>6. OfKind(Append(items, item), kind) = IF item.kind = kind THEN Append(s, item) ELSE s
    <2>1. s \o <<item>> = Append(s, item) /\ s \o <<>> = s
        BY <1>1, AppendIsConcat, ConcatEmptySeq
    <2> QED BY <2>1, <1>1, <1>3, <1>4, <1>5
<1> QED BY <1>1, <1>6 DEF s

\* The triples of blocks.
TssOf(blocks) == Flat([b \in Blocks |-> b.tss], blocks)

\* Blocks and OPTIONAL groups as a branch.
Base(blocks, opts) == [tss |-> TssOf(blocks), opts |-> opts]

OwnPart(items) == Base(OfKind(items, "block"), OptionalGroups(items))

LEMMA TssType == Maps([b \in Blocks |-> b.tss], Blocks, Seq(SameSubject))
BY DEF Blocks, Maps

LEMMA BaseType ==
    ASSUME NEW bs \in Seq(Blocks), NEW os \in Seq(Group)
    PROVE  Base(bs, os) \in Branch
BY TssType, FlatType DEF Base, TssOf, Branch, BranchOver

LEMMA BaseConcat ==
    ASSUME NEW bs \in Seq(Blocks), NEW os \in Seq(Group), NEW cs \in Seq(Blocks), NEW ps \in Seq(Group)
    PROVE  Base(bs \o cs, os \o ps) = Join(Base(bs, os), Base(cs, ps))
<1>1. TssOf(bs \o cs) = TssOf(bs) \o TssOf(cs)
    <2> DEFINE h == [b \in Blocks |-> b.tss]
    <2>1. Maps(h, Blocks, Seq(SameSubject))
        BY TssType
    <2> HIDE DEF h
    <2>2. Flat(h, bs \o cs) = Flat(h, bs) \o Flat(h, cs)
        BY <2>1, FlatConcat
    <2> QED BY <2>2 DEF TssOf, h
<1> QED BY <1>1 DEF Base, Join

LEMMA BaseEmpty == Base(<<>>, <<>>) = Nothing
BY FlatEmpty DEF Base, TssOf, Nothing

-----------------------------------------------------------------------------
(* The branches of items, one after the other.                              *)

LEMMA ItemBranchesType == \A x \in Item : ItemBranches(x, Branches) \in Seq(Branch)
<1> SUFFICES ASSUME NEW x \in Item PROVE ItemBranches(x, Branches) \in Seq(Branch)
    OBVIOUS
<1>1. x.kind = "optional" => x.group \in Group
    BY ItemKinds
<1>2. x.kind = "union" => \A h \in Range(x.groups) : Branches[h] \in Seq(BranchOver(Group))
    <2> SUFFICES ASSUME x.kind = "union", NEW h \in Range(x.groups) PROVE h \in Group
        BY BranchesType DEF Branch
    <2>1. x.groups \in Seq(Group)
        BY ItemKinds
    <2> QED BY <2>1, LenProperties, ElementOfSeq DEF Range
<1> QED BY <1>1, <1>2, ItemType DEF Branch

AllOf(items) == JoinAll(EachItem(items, Branches))

\* The function of the branches of items.
BranchesOfItem == [x \in Item |-> ItemBranches(x, Branches)]

LEMMA EachItemIs ==
    ASSUME NEW s \in Seq(Item)
    PROVE  EachItem(s, Branches) = Mapped(BranchesOfItem, s) /\ Maps(BranchesOfItem, Item, Seq(Branch))
<1>1. DOMAIN s = 1..Len(s) /\ \A i \in 1..Len(s) : s[i] \in Item
    BY LenProperties, ElementOfSeq
<1>2. EachItem(s, Branches) = Mapped(BranchesOfItem, s)
    BY <1>1 DEF EachItem, Mapped, BranchesOfItem
<1> QED BY <1>2, ItemBranchesType DEF Maps, BranchesOfItem

LEMMA AllOfEmpty == AllOf(<<>>) = <<Nothing>>
<1>1. EachItem(<<>>, Branches) = <<>>
    BY DEF EachItem
<1> QED BY <1>1, JoinAllEmpty DEF AllOf

LEMMA AllOfAppend ==
    ASSUME NEW s \in Seq(Item), NEW x \in Item
    PROVE  /\ AllOf(s) \in Seq(Branch)
           /\ AllOf(Append(s, x)) = JoinBranches(AllOf(s), ItemBranches(x, Branches))
<1> DEFINE e == EachItem(s, Branches)
           bs == ItemBranches(x, Branches)
           n == EachItem(Append(s, x), Branches)
<1>1. Append(s, x) \in Seq(Item) /\ bs \in Seq(Branch) /\ bs = BranchesOfItem[x]
    BY AppendProperties, ItemBranchesType DEF BranchesOfItem
<1>2. e = Mapped(BranchesOfItem, s) /\ n = Mapped(BranchesOfItem, Append(s, x))
    BY <1>1, EachItemIs
<1>3. Maps(BranchesOfItem, Item, Seq(Branch))
    BY EachItemIs
<1>4. e \in Seq(Seq(Branch))
    BY <1>2, <1>3, MappedType
<1>5. n = Append(e, bs)
    BY <1>1, <1>2, <1>3, MappedAppend
<1> HIDE DEF e, bs, n
<1>6. JoinAll(Append(e, bs)) = JoinBranches(JoinAll(e), bs) /\ JoinAll(e) \in Seq(Branch)
    BY <1>1, <1>4, JoinAllAppend, JoinAllType DEF Branch
<1>7. JoinAll(n) = JoinBranches(JoinAll(e), bs) /\ JoinAll(e) \in Seq(Branch)
    BY <1>5, <1>6
<1> QED BY <1>7 DEF AllOf, e, bs, n

LEMMA AllOfType == \A s \in Seq(Item) : AllOf(s) \in Seq(Branch)
<1> SUFFICES ASSUME NEW s \in Seq(Item) PROVE AllOf(s) \in Seq(Branch)
    OBVIOUS
<1>1. EachItem(s, Branches) \in Seq(Seq(Branch))
    BY EachItemIs, MappedType
<1> QED BY <1>1, JoinAllType DEF AllOf, Branch

\* What an item has that is no UNION.
Own(x) == CASE x.kind = "block"    -> [tss |-> x.tss, opts |-> <<>>]
            [] x.kind = "optional" -> [tss |-> <<>>, opts |-> <<x.group>>]
            [] OTHER               -> Nothing

LEMMA OwnItem ==
    ASSUME NEW x \in Item, x.kind # "union"
    PROVE  ItemBranches(x, Branches) = <<Own(x)>> /\ Own(x) \in Branch
<1>1. ItemBranches(x, Branches) = <<Own(x)>>
    BY ItemKinds DEF ItemBranches, Own
<1>2. <<>> \in Seq(SameSubject) /\ <<>> \in Seq(Group)
    OBVIOUS
<1>3. x.kind = "optional" => <<x.group>> \in Seq(Group)
    BY ItemKinds
<1>4. Own(x) \in Branch
    BY <1>2, <1>3, ItemKinds, BranchFacts DEF Own, Branch, BranchOver
<1> QED BY <1>1, <1>4

\* The elements of OfKind are of that kind.
LEMMA OfKindRange ==
    ASSUME NEW s \in Seq(Item), NEW kind
    PROVE  OfKind(s, kind) \in Seq({x \in Item : x.kind = kind})
<1> DEFINE T == {x \in Item : x.kind = kind}
<1>1. OfKind(s, kind) = Flat(IfKind(kind), s)
    BY OfKindIs
<1>2. Maps(IfKind(kind), Item, Seq(T))
    <2>1. ASSUME NEW x \in Item PROVE IfKind(kind)[x] \in Seq(T)
        <3>1. IfKind(kind)[x] = IF x.kind = kind THEN <<x>> ELSE <<>>
            BY DEF IfKind
        <3>2. CASE x.kind = kind
            <4>1. x \in T
                BY <3>2
            <4> HIDE DEF T
            <4> QED BY <4>1, <3>1, <3>2
        <3>3. CASE x.kind # kind
            <4> HIDE DEF T
            <4> QED BY <3>1, <3>3
        <3> QED BY <3>2, <3>3
    <2> HIDE DEF T
    <2> QED BY <2>1 DEF Maps, IfKind
<1> QED BY <1>1, <1>2, FlatType

OptionalItems == [kind : {"optional"}, group : Group]

LEMMA OptionalsAppend ==
    ASSUME NEW s \in Seq(Item), NEW x \in Item
    PROVE  /\ OptionalGroups(s) \in Seq(Group)
           /\ OptionalGroups(Append(s, x))
              = IF x.kind = "optional" THEN Append(OptionalGroups(s), x.group) ELSE OptionalGroups(s)
<1> DEFINE T == {y \in Item : y.kind = "optional"}
           h == [y \in T |-> y.group]
           t == OfKind(s, "optional")
           a == Append(s, x)
           u == OfKind(a, "optional")
<1>0. Maps(h, T, Group)
    BY ItemKinds DEF Maps
<1>1. t \in Seq(T) /\ a \in Seq(Item) /\ u \in Seq(T)
    <2>1. a \in Seq(Item)
        BY AppendProperties
    <2> HIDE DEF a
    <2>2. t \in Seq(T)
        BY OfKindRange
    <2>3. u \in Seq(T)
        BY <2>1, OfKindRange
    <2> QED BY <2>1, <2>2, <2>3
<1>2. \A v \in Seq(T) : [i \in DOMAIN v |-> v[i].group] = Mapped(h, v)
    <2> SUFFICES ASSUME NEW v \in Seq(T) PROVE [i \in DOMAIN v |-> v[i].group] = Mapped(h, v)
        OBVIOUS
    <2>1. \A i \in DOMAIN v : v[i] \in T
        BY LenProperties, ElementOfSeq
    <2> QED BY <2>1 DEF Mapped
<1>3. OptionalGroups(s) = Mapped(h, t) /\ OptionalGroups(a) = Mapped(h, u)
    BY <1>1, <1>2 DEF OptionalGroups
<1>4. u = IF x.kind = "optional" THEN Append(t, x) ELSE t
    BY OfKindAppend
<1>5. x.kind = "optional" => h[x] = x.group /\ x \in T
    OBVIOUS
<1> HIDE DEF h, t, u, T
<1>6. Mapped(h, t) \in Seq(Group)
    BY <1>0, <1>1, MappedType
<1>7. x.kind = "optional" => Mapped(h, u) = Append(Mapped(h, t), x.group)
    BY <1>0, <1>1, <1>4, <1>5, MappedAppend
<1> QED BY <1>3, <1>4, <1>6, <1>7

LEMMA BlocksAppend ==
    ASSUME NEW s \in Seq(Item), NEW x \in Item
    PROVE  /\ OfKind(s, "block") \in Seq(Blocks)
           /\ TssOf(OfKind(Append(s, x), "block"))
              = IF x.kind = "block" THEN TssOf(OfKind(s, "block")) \o x.tss ELSE TssOf(OfKind(s, "block"))
<1> DEFINE h == [b \in Blocks |-> b.tss]
           t == OfKind(s, "block")
<1>1. {y \in Item : y.kind = "block"} = Blocks
    BY ItemKinds DEF Item, Blocks
<1>2. t \in Seq(Blocks)
    BY <1>1, OfKindRange
<1>3. OfKind(Append(s, x), "block") = IF x.kind = "block" THEN Append(t, x) ELSE t
    BY OfKindAppend
<1>4. Maps(h, Blocks, Seq(SameSubject))
    BY TssType
<1>5. x.kind = "block" => x \in Blocks /\ h[x] = x.tss
    BY <1>1
<1>6. \A b \in Blocks : Flat(h, Append(t, b)) = Flat(h, t) \o h[b]
    <2> HIDE DEF h, t
    <2> QED BY <1>2, <1>4, FlatAppend
<1> HIDE DEF t
<1> QED BY <1>2, <1>3, <1>5, <1>6 DEF TssOf, t

LEMMA OwnPartAppend ==
    ASSUME NEW s \in Seq(Item), NEW x \in Item
    PROVE  /\ OwnPart(s) \in Branch
           /\ OwnPart(Append(s, x)) = IF x.kind = "union" THEN OwnPart(s) ELSE Join(OwnPart(s), Own(x))
<1> DEFINE tss == TssOf(OfKind(s, "block"))
           os == OptionalGroups(s)
           a == Append(s, x)
<1>1. tss \in Seq(SameSubject) /\ os \in Seq(Group)
    <2>1. OfKind(s, "block") \in Seq(Blocks)
        BY BlocksAppend
    <2> HIDE DEF os
    <2>2. tss \in Seq(SameSubject)
        BY <2>1, TssType, FlatType DEF TssOf
    <2>3. os \in Seq(Group)
        BY OptionalsAppend DEF os
    <2> QED BY <2>2, <2>3
<1>2. OwnPart(s) = [tss |-> tss, opts |-> os]
    BY DEF OwnPart, Base
<1>3. OwnPart(a) = [tss |-> TssOf(OfKind(a, "block")), opts |-> OptionalGroups(a)]
    BY DEF OwnPart, Base
<1>4. TssOf(OfKind(a, "block")) = IF x.kind = "block" THEN tss \o x.tss ELSE tss
    BY BlocksAppend
<1>5. OptionalGroups(a) = IF x.kind = "optional" THEN Append(os, x.group) ELSE os
    BY OptionalsAppend
<1>6. tss \o <<>> = tss /\ os \o <<>> = os
    BY <1>1, ConcatEmptySeq
<1>7. x.kind = "optional" => Append(os, x.group) = os \o <<x.group>>
    BY <1>1, ItemKinds, AppendIsConcat
<1> HIDE DEF tss, os, a
<1>8. OwnPart(s) \in Branch
    BY <1>1, <1>2 DEF Branch, BranchOver
<1>9. OwnPart(a) = IF x.kind = "union" THEN OwnPart(s) ELSE Join(OwnPart(s), Own(x))
    <2>1. CASE x.kind = "block"
        <3>1. Own(x) = [tss |-> x.tss, opts |-> <<>>] /\ x.kind # "union"
            BY <2>1 DEF Own, Nothing
        <3>2. Join(OwnPart(s), Own(x)) = [tss |-> OwnPart(s).tss \o Own(x).tss, opts |-> OwnPart(s).opts \o Own(x).opts]
            BY DEF Join
        <3>3. OwnPart(s).tss = tss /\ OwnPart(s).opts = os
            BY <1>2
        <3>4. OwnPart(a) = [tss |-> tss \o x.tss, opts |-> os]
            BY <2>1, <1>3, <1>4, <1>5
        <3>5. Own(x).tss = x.tss /\ Own(x).opts = <<>>
            BY <3>1
        <3>6. Join(OwnPart(s), Own(x)) = [tss |-> tss \o x.tss, opts |-> os]
            BY <3>2, <3>3, <3>5, <1>6
        <3> QED BY <3>1, <3>4, <3>6
    <2>2. CASE x.kind = "optional"
        <3>1. Own(x) = [tss |-> <<>>, opts |-> <<x.group>>] /\ x.kind # "union"
            BY <2>2 DEF Own, Nothing
        <3>2. Join(OwnPart(s), Own(x)) = [tss |-> OwnPart(s).tss \o Own(x).tss, opts |-> OwnPart(s).opts \o Own(x).opts]
            BY DEF Join
        <3>3. OwnPart(s).tss = tss /\ OwnPart(s).opts = os
            BY <1>2
        <3>4. OwnPart(a) = [tss |-> tss, opts |-> os \o <<x.group>>]
            BY <2>2, <1>3, <1>4, <1>5, <1>7
        <3>5. Own(x).tss = <<>> /\ Own(x).opts = <<x.group>>
            BY <3>1
        <3>6. Join(OwnPart(s), Own(x)) = [tss |-> tss, opts |-> os \o <<x.group>>]
            BY <3>2, <3>3, <3>5, <1>6
        <3> QED BY <3>1, <3>4, <3>6
    <2>3. CASE x.kind = "union"
        BY <2>3, <1>2, <1>3, <1>4, <1>5
    <2>4. CASE x.kind \in {"other", "subselect"}
        <3>1. Own(x) = [tss |-> <<>>, opts |-> <<>>] /\ x.kind # "union"
            BY <2>4 DEF Own, Nothing
        <3>2. Join(OwnPart(s), Own(x)) = [tss |-> OwnPart(s).tss \o Own(x).tss, opts |-> OwnPart(s).opts \o Own(x).opts]
            BY DEF Join
        <3>3. OwnPart(s).tss = tss /\ OwnPart(s).opts = os
            BY <1>2
        <3> QED BY <2>4, <3>1, <3>2, <3>3, <1>3, <1>4, <1>5, <1>6
    <2> QED BY <2>1, <2>2, <2>3, <2>4, ItemKinds
<1> QED BY <1>8, <1>9 DEF a

LEMMA OwnPartType == \A s \in Seq(Item) : OwnPart(s) \in Branch
<1> SUFFICES ASSUME NEW s \in Seq(Item) PROVE OwnPart(s) \in Branch
    OBVIOUS
<1>1. CASE s = <<>>
    <2>1. OfKind(s, "block") = <<>> /\ OptionalGroups(s) = <<>>
        BY <1>1, FlattenSeqEmpty DEF OptionalGroups, OfKind, Within
    <2> QED BY <2>1, BaseEmpty, BranchFacts DEF OwnPart
<1>2. CASE s # <<>>
    <2>1. PICK u \in Seq(Item), x \in Item : s = Append(u, x)
        BY <1>2, SequenceEmptyOrAppend
    <2>2. OwnPart(u) \in Branch
        BY OwnPartAppend
    <2>3. x.kind # "union" => Own(x) \in Branch
        BY OwnItem
    <2>4. OwnPart(s) = IF x.kind = "union" THEN OwnPart(u) ELSE Join(OwnPart(u), Own(x))
        BY <2>1, OwnPartAppend
    <2> QED BY <2>2, <2>3, <2>4, BranchFacts
<1> QED BY <1>1, <1>2

LEMMA OwnPartEmpty == OwnPart(<<>>) = Nothing /\ OfKind(<<>>, "union") = <<>>
<1>1. \A kind : OfKind(<<>>, kind) = <<>>
    BY FlattenSeqEmpty DEF OfKind, Within
<1>2. OptionalGroups(<<>>) = <<>>
    BY <1>1 DEF OptionalGroups
<1> QED BY <1>1, <1>2, BaseEmpty DEF OwnPart

\* A sum over the branches of items, after those of others, comes to one over
\* the UNIONs among them.
Collected(F, s, g) ==
    Sum(F, JoinBranches(AllOf(s), AllOf(g))) = Sum(Shift(F, OwnPart(g)), AllOf(s \o OfKind(g, "union")))

LEMMA CollectNone == ASSUME NEW F \in Measures, NEW s \in Seq(Item) PROVE Collected(F, s, <<>>)
<1> DEFINE M == AllOf(s)
<1>1. F \in [Branch -> Nat] /\ Nothing \in Branch /\ M \in Seq(Branch)
    BY MeasureType, BranchFacts, AllOfType
<1>2. AllOf(<<>>) = <<Nothing>> /\ OwnPart(<<>>) = Nothing /\ OfKind(<<>>, "union") = <<>>
    BY AllOfEmpty, OwnPartEmpty
<1>3. s \o <<>> = s
    BY ConcatEmptySeq
<1> HIDE DEF M
<1>4. <<Nothing>> \in Seq(Branch)
    BY <1>1
<1> DEFINE N == <<Nothing>>
<1> HIDE DEF N
<1>5. Sum(F, JoinBranches(M, N)) = Sum(With(F, N), M)
    BY <1>1, <1>4, SumJoinBranches DEF N
<1>6. With(F, N) = Shift(F, Nothing)
    BY <1>1, WithOne DEF N
<1> QED BY <1>2, <1>3, <1>5, <1>6 DEF Collected, M, N

LEMMA CollectNext ==
    ASSUME NEW g \in Seq(Item), NEW x \in Item,
           \A F \in Measures, s \in Seq(Item) : Collected(F, s, g),
           NEW F \in Measures, NEW s \in Seq(Item)
    PROVE  Collected(F, s, Append(g, x))
<1> DEFINE M == AllOf(s)
           G == AllOf(g)
           I == ItemBranches(x, Branches)
           U == OfKind(g, "union")
           o == OwnPart(g)
           H == With(F, I)
           N == AllOf(s \o U)
           a == Append(g, x)
           L == Sum(F, JoinBranches(M, AllOf(a)))
<1>1. /\ F \in [Branch -> Nat] /\ M \in Seq(Branch) /\ G \in Seq(Branch) /\ I \in Seq(Branch)
      /\ U \in Seq(Item) /\ o \in Branch
    BY MeasureType, AllOfType, ItemBranchesType, OfKindAppend, OwnPartType
<1>2. s \o U \in Seq(Item) /\ N \in Seq(Branch) /\ H \in Measures /\ H \in [Branch -> Nat]
    BY <1>1, ConcatProperties, AllOfType, WithMeasure, MeasureType
<1>3. AllOf(a) = JoinBranches(G, I) /\ AllOf(a) \in Seq(Branch)
    BY AllOfAppend, AllOfType, AppendProperties
<1>4. Sum(H, JoinBranches(M, G)) = Sum(Shift(H, o), N)
    BY <1>2 DEF Collected
<1>41. OfKind(a, "union") = IF x.kind = "union" THEN Append(U, x) ELSE U
    BY OfKindAppend
<1>42. OwnPart(a) = IF x.kind = "union" THEN o ELSE Join(o, Own(x))
    BY OwnPartAppend
<1>43. AllOf(Append(s \o U, x)) = JoinBranches(N, I)
    BY <1>2, AllOfAppend
<1>44. s \o Append(U, x) = Append(s \o U, x)
    BY <1>1, ConcatAppend
<1>45. x.kind # "union" => I = <<Own(x)>> /\ Own(x) \in Branch
    BY OwnItem
<1>46. H = With(F, I)
    OBVIOUS
<1> HIDE DEF M, G, I, U, o, N, a, H
<1>5. L = Sum(Shift(H, o), N)
    <2>1. L = Sum(With(F, JoinBranches(G, I)), M)
        <3> DEFINE J == JoinBranches(G, I)
        <3>1. L = Sum(F, JoinBranches(M, J)) /\ J \in Seq(Branch)
            BY <1>3
        <3> HIDE DEF J
        <3>2. Sum(F, JoinBranches(M, J)) = Sum(With(F, J), M)
            BY <1>1, <3>1, SumJoinBranches
        <3> QED BY <3>1, <3>2 DEF J
    <2>2. With(F, JoinBranches(G, I)) = With(H, G)
        <3>1. With(F, JoinBranches(G, I)) = With(With(F, I), G)
            BY <1>1, WithJoined
        <3> QED BY <3>1, <1>46
    <2>3. Sum(With(H, G), M) = Sum(H, JoinBranches(M, G))
        BY <1>1, <1>2, SumJoinBranches
    <2> QED BY <2>1, <2>2, <2>3, <1>4
<1> DEFINE K == Shift(F, o)
<1>6. Shift(H, o) = With(K, I) /\ K \in [Branch -> Nat] /\ K \in Measures
    BY <1>1, ShiftWith, ShiftType, ShiftMeasure DEF H
<1> HIDE DEF K
<1>7. CASE x.kind = "union"
    <2>1. Sum(With(K, I), N) = Sum(K, JoinBranches(N, I))
        BY <1>1, <1>2, <1>6, SumJoinBranches
    <2>2. L = Sum(K, AllOf(Append(s \o U, x)))
        BY <2>1, <1>5, <1>6, <1>43
    <2>3. AllOf(s \o OfKind(a, "union")) = AllOf(Append(s \o U, x)) /\ Shift(F, OwnPart(a)) = K
        BY <1>7, <1>41, <1>42, <1>44 DEF K
    <2> QED BY <2>2, <2>3 DEF Collected, M, a
<1>8. CASE x.kind # "union"
    <2>1. With(K, I) = Shift(K, Own(x))
        BY <1>8, <1>6, <1>45, WithOne
    <2>2. Shift(K, Own(x)) = Shift(F, Join(o, Own(x)))
        BY <1>8, <1>1, <1>45, ShiftTwice DEF K
    <2>3. AllOf(s \o OfKind(a, "union")) = N /\ Shift(F, OwnPart(a)) = Shift(F, Join(o, Own(x)))
        BY <1>8, <1>41, <1>42 DEF N
    <2> QED BY <2>1, <2>2, <2>3, <1>5, <1>6 DEF Collected, M, a
<1> QED BY <1>7, <1>8

LEMMA Collect == \A g \in Seq(Item) : \A F \in Measures, s \in Seq(Item) : Collected(F, s, g)
<1> DEFINE P == {g \in Seq(Item) : \A F \in Measures, s \in Seq(Item) : Collected(F, s, g)}
<1>1. <<>> \in P
    BY CollectNone
<1>2. ASSUME NEW g \in Seq(Item), NEW x \in Item, g \in P PROVE Append(g, x) \in P
    BY <1>2, CollectNext, AppendProperties
<1>3. Seq(Item) \subseteq P
    <2> HIDE DEF P
    <2> QED BY <1>1, <1>2, SeqInduction
<1> QED BY <1>3

-----------------------------------------------------------------------------
(* What the branches of a group come to, after those of UNIONs.             *)

Value(F, g, s) == Sum(F, JoinBranches(AllOf(s), Branches[g]))

LEMMA ValueType == \A F \in Measures : \A g \in Group, s \in Seq(Item) : Value(F, g, s) \in Nat
<1> SUFFICES ASSUME NEW F \in Measures, NEW g \in Group, NEW s \in Seq(Item) PROVE Value(F, g, s) \in Nat
    OBVIOUS
<1>1. F \in [Branch -> Nat] /\ AllOf(s) \in Seq(Branch) /\ Branches[g] \in Seq(Branch)
    BY MeasureType, AllOfType, BranchesType
<1>2. JoinBranches(AllOf(s), Branches[g]) \in Seq(Branch)
    BY <1>1, JoinBranchesType DEF Branch
<1> QED BY <1>1, <1>2, SumType DEF Value

LEMMA BranchesAreAllOf == \A g \in Group : Branches[g] = AllOf(g) /\ g \in Seq(Item)
BY BranchesOfGroup, GrammarAssumption DEF AllOf

LEMMA DistributeNone ==
    ASSUME NEW F \in Measures, NEW g \in Group, NEW s \in Seq(Item),
           s \o OfKind(g, "union") = <<>>
    PROVE  Value(F, g, s) = F[OwnPart(g)]
<1> DEFINE o == OwnPart(g)
           K == Shift(F, o)
<1>1. g \in Seq(Item) /\ Branches[g] = AllOf(g)
    BY BranchesAreAllOf
<1>2. o \in Branch /\ F \in [Branch -> Nat] /\ Nothing \in Branch
    BY <1>1, OwnPartType, MeasureType, BranchFacts
<1>3. Value(F, g, s) = Sum(K, <<Nothing>>)
    BY <1>1, Collect, AllOfEmpty DEF Collected, Value
<1> HIDE DEF o
<1>4. K \in [Branch -> Nat] /\ K[Nothing] = F[Join(o, Nothing)]
    BY <1>2, ShiftType
<1>5. Join(o, Nothing) = o
    BY <1>2, BranchFacts
<1> HIDE DEF K
<1>6. Sum(K, <<Nothing>>) = K[Nothing]
    BY <1>2, <1>4, SumOne
<1> QED BY <1>3, <1>4, <1>5, <1>6 DEF o

\* A sum over the branches of items of which the last one is a UNION is one
\* over the groups of that.
LEMMA LastUnion ==
    ASSUME NEW F \in Measures, NEW t \in Seq(Item), NEW u \in Item, u.kind = "union"
    PROVE  Sum(F, AllOf(Append(t, u))) = Sum([h \in Group |-> Value(F, h, t)], u.groups)
<1> DEFINE M == AllOf(t)
           I == ItemBranches(u, Branches)
           G == [h \in Group |-> Value(F, h, t)]
           H == With(F, M)
           L == Sum(F, AllOf(Append(t, u)))
           gs == u.groups
<1>1. F \in [Branch -> Nat] /\ M \in Seq(Branch) /\ I \in Seq(Branch) /\ gs \in Seq(Group)
    BY MeasureType, AllOfType, ItemBranchesType, ItemKinds
<1>2. AllOf(Append(t, u)) = JoinBranches(M, I)
    BY AllOfAppend
<1>3. I = Flat(Branches, gs)
    BY DEF ItemBranches, Flat, Mapped
<1>4. Maps(Branches, Group, Seq(Branch))
    <2>1. Branches = [h \in Group |-> Branches[h]]
        BY DEF Branches
    <2> QED BY <2>1, BranchesType DEF Maps
<1>5. G \in [Group -> Nat]
    BY ValueType
<1>6. H \in [Branch -> Nat]
    BY <1>1, WithType
<1>7. ASSUME NEW h \in Group PROVE G[h] = Sum(H, Branches[h])
    <2>1. Branches[h] \in Seq(Branch) /\ G[h] = Sum(F, JoinBranches(M, Branches[h]))
        BY BranchesType DEF Value
    <2>2. Sum(F, JoinBranches(M, Branches[h])) = Sum(With(F, Branches[h]), M)
        BY <1>1, <2>1, SumJoinBranches
    <2>3. Sum(With(F, Branches[h]), M) = Sum(H, Branches[h])
        BY <1>1, <2>1, WithSwap
    <2> QED BY <2>1, <2>2, <2>3
<1> HIDE DEF M, I, G, gs
<1>8. L = Sum(With(F, I), M)
    BY <1>1, <1>2, SumJoinBranches
<1>9. Sum(With(F, I), M) = Sum(H, I)
    BY <1>1, WithSwap
<1> HIDE DEF H, L
<1>10. \A h \in Group : G[h] = Sum(H, Branches[h])
    BY <1>7
<1>11. Totals(Group, Branch, Branches, H, G)
    BY <1>4, <1>5, <1>6, <1>10 DEF Totals
<1>12. Sum(H, Flat(Branches, gs)) = Sum(G, gs)
    BY <1>1, <1>11, SumFlat
<1> QED BY <1>3, <1>8, <1>9, <1>12 DEF L, G, gs

LEMMA FrontAndLast ==
    ASSUME NEW S, NEW s \in Seq(S), s # <<>>
    PROVE  Front(s) \in Seq(S) /\ Last(s) \in S /\ s = Append(Front(s), Last(s))
<1> DEFINE u == Front(s)
           x == Last(s)
           a == Append(u, x)
<1>1. /\ u \in Seq(S) /\ Len(u) = Len(s) - 1 /\ \A i \in 1..(Len(s) - 1) : u[i] = s[i]
      /\ x \in S /\ x = s[Len(s)] /\ Len(s) \in Nat \ {0}
    BY PopProperties, TopProperties DEF Pop, Last, Top
<1> HIDE DEF u, x
<1>2. /\ a \in Seq(S) /\ Len(a) = Len(u) + 1 /\ \A i \in 1..Len(u) : a[i] = u[i]
      /\ a[Len(u) + 1] = x
    BY <1>1, AppendProperties
<1> HIDE DEF a
<1>3. Len(a) = Len(s) /\ \A i \in 1..Len(a) : a[i] = s[i]
    BY <1>1, <1>2
<1>4. a = s
    BY <1>2, <1>3, SeqEqual
<1> QED BY <1>1, <1>4 DEF u, x, a

LEMMA DistributeLast ==
    ASSUME NEW F \in Measures, NEW g \in Group, NEW s \in Seq(Unions), s \o OfKind(g, "union") # <<>>
    PROVE  LET us == s \o OfKind(g, "union")
           IN  /\ Front(us) \in Seq(Unions) /\ Last(us) \in Unions
               /\ Value(F, g, s) = Sum([h \in Group |-> Value(Shift(F, OwnPart(g)), h, Front(us))], Last(us).groups)
<1> DEFINE us == s \o OfKind(g, "union")
<1>0. us = s \o OfKind(g, "union") /\ us # <<>>
    OBVIOUS
<1> HIDE DEF us
<1> SUFFICES /\ Front(us) \in Seq(Unions) /\ Last(us) \in Unions
             /\ Value(F, g, s) = Sum([h \in Group |-> Value(Shift(F, OwnPart(g)), h, Front(us))], Last(us).groups)
    BY DEF us
<1> DEFINE o == OwnPart(g)
           K == Shift(F, o)
           t == Front(us)
           u == Last(us)
<1>1. g \in Seq(Item) /\ Branches[g] = AllOf(g)
    BY BranchesAreAllOf
<1>2. Unions \subseteq Item /\ Seq(Unions) \subseteq Seq(Item)
    <2>1. Unions \subseteq Item
        BY DEF Unions, Item
    <2> QED BY <2>1, SeqMonotonic
<1>3. us \in Seq(Unions)
    BY <1>0, KindTypes, ConcatProperties
<1>4. t \in Seq(Unions) /\ u \in Unions /\ us = Append(t, u)
    BY <1>0, <1>3, FrontAndLast
<1>5. Value(F, g, s) = Sum(K, AllOf(us))
    BY <1>0, <1>1, <1>2, Collect DEF Collected, Value
<1>6. K \in Measures
    BY <1>1, OwnPartType, ShiftMeasure
<1> HIDE DEF o, K, t, u
<1>7. Sum(K, AllOf(Append(t, u))) = Sum([h \in Group |-> Value(K, h, t)], u.groups)
    <2>1. u \in Item /\ u.kind = "union" /\ t \in Seq(Item)
        BY <1>2, <1>4 DEF Unions
    <2> QED BY <2>1, <1>6, LastUnion
<1> QED BY <1>3, <1>4, <1>5, <1>7 DEF o, K, t, u

-----------------------------------------------------------------------------
(* The branches of OPTIONAL groups too.                                     *)

\* A branch and what f has for its OPTIONAL groups.
WithOptionals(f) == [b \in Branch |-> <<b>> \o Flat(f, b.opts)]

AllBranchesAre(f) == f = [group \in Group |->
    LET bs == Branches[group]
    IN  FlattenSeq([i \in DOMAIN bs |->
            <<bs[i]>> \o FlattenSeq([k \in DOMAIN bs[i].opts |-> f[bs[i].opts[k]]])])]

LEMMA AllBranchesIs == AllBranches = CHOOSE f : AllBranchesAre(f)
BY DEF AllBranches, AllBranchesAre

LEMMA BranchOpts == \A b \in Branch : b.opts \in Seq(Group) /\ b.tss \in Seq(SameSubject)
BY DEF Branch, BranchOver

LEMMA WithOptionalsType ==
    ASSUME NEW f, Maps(f, Group, Seq(Branch))
    PROVE  /\ Maps(WithOptionals(f), Branch, Seq(Branch))
           /\ \A b \in Branch : Flat(f, b.opts) \in Seq(Branch)
<1>1. ASSUME NEW b \in Branch PROVE Flat(f, b.opts) \in Seq(Branch) /\ <<b>> \o Flat(f, b.opts) \in Seq(Branch)
    <2>1. b.opts \in Seq(Group)
        BY BranchOpts
    <2>2. Flat(f, b.opts) \in Seq(Branch) /\ <<b>> \in Seq(Branch)
        BY <2>1, FlatType
    <2> QED BY <2>2, ConcatProperties
<1> QED BY <1>1 DEF Maps, WithOptionals

LEMMA FlattensWithOptionals ==
    ASSUME NEW f, NEW bs \in Seq(Branch)
    PROVE  FlattenSeq([i \in DOMAIN bs |->
               <<bs[i]>> \o FlattenSeq([k \in DOMAIN bs[i].opts |-> f[bs[i].opts[k]]])])
           = Flat(WithOptionals(f), bs)
<1>1. DOMAIN bs = 1..Len(bs) /\ \A i \in 1..Len(bs) : bs[i] \in Branch
    BY LenProperties, ElementOfSeq
<1>2. [i \in DOMAIN bs |-> <<bs[i]>> \o FlattenSeq([k \in DOMAIN bs[i].opts |-> f[bs[i].opts[k]]])]
      = [i \in DOMAIN bs |-> WithOptionals(f)[bs[i]]]
    BY <1>1 DEF WithOptionals, Flat, Mapped
<1> QED BY <1>2 DEF Flat, Mapped

LEMMA WithOptionalsAgree ==
    ASSUME NEW f, NEW h, NEW S, NEW bs \in Seq(BranchOver(S)), S \subseteq Group,
           \A y \in S : f[y] = h[y]
    PROVE  Flat(WithOptionals(f), bs) = Flat(WithOptionals(h), bs)
<1>1. DOMAIN bs = 1..Len(bs) /\ \A i \in 1..Len(bs) : bs[i] \in BranchOver(S)
    BY LenProperties, ElementOfSeq
<1>2. ASSUME NEW i \in DOMAIN bs PROVE WithOptionals(f)[bs[i]] = WithOptionals(h)[bs[i]]
    <2> DEFINE s == bs[i].opts
    <2>1. s \in Seq(S) /\ bs[i] \in BranchOver(S)
        BY <1>1 DEF BranchOver
    <2>2. \A k \in DOMAIN s : s[k] \in S
        BY <2>1, LenProperties, ElementOfSeq
    <2>3. Mapped(f, s) = Mapped(h, s)
        BY <2>2 DEF Mapped
    <2>4. bs[i] \in Branch
        <3>1. Seq(S) \subseteq Seq(Group)
            BY SeqMonotonic
        <3> QED BY <2>1, <3>1 DEF Branch, BranchOver
    <2>5. WithOptionals(f)[bs[i]] = <<bs[i]>> \o Flat(f, s) /\ WithOptionals(h)[bs[i]] = <<bs[i]>> \o Flat(h, s)
        BY <2>4 DEF WithOptionals
    <2> QED BY <2>3, <2>5 DEF Flat
<1>3. Mapped(WithOptionals(f), bs) = Mapped(WithOptionals(h), bs)
    BY <1>2 DEF Mapped
<1> QED BY <1>3 DEF Flat

LEMMA AllBranchesExist == \E f \in [Group -> Seq(Branch)] : AllBranchesAre(f)
<1> DEFINE V == Seq(Branch)
           E(g, f) == Flat(WithOptionals(f), Branches[g])
           D == [p \in Group \X [Group -> V] |-> E(p[1], p[2])]
<1>1. V # {}
    <2>1. <<>> \in V
        OBVIOUS
    <2> QED BY <2>1
<1>2. ASSUME NEW g \in Group, NEW f \in [Group -> V] PROVE E(g, f) \in V
    <2>1. Maps(f, Group, Seq(Branch)) /\ Branches[g] \in Seq(Branch)
        BY BranchesType DEF Maps
    <2>2. Maps(WithOptionals(f), Branch, Seq(Branch))
        BY <2>1, WithOptionalsType
    <2> QED BY <2>1, <2>2, FlatType
<1>3. D \in [Group \X [Group -> V] -> V] /\ \A g \in Group : \A f \in [Group -> V] : D[<<g, f>>] = E(g, f)
    <2> HIDE DEF V, E
    <2> QED BY <1>2
<1>4. ASSUME NEW g \in Group, NEW f \in [Group -> V], NEW h \in [Group -> V],
             \A y \in Group : GroupDepth[y] < GroupDepth[g] => f[y] = h[y]
      PROVE  E(g, f) = E(g, h)
    <2> DEFINE S == Shallower(g)
               bs == Branches[g]
    <2>1. bs \in Seq(BranchOver(S)) /\ S \subseteq Group /\ \A y \in S : f[y] = h[y]
        BY <1>4, BranchesShallower DEF Shallower
    <2> HIDE DEF S, bs
    <2>2. Flat(WithOptionals(f), bs) = Flat(WithOptionals(h), bs)
        BY <2>1, WithOptionalsAgree
    <2> QED BY <2>2 DEF bs
<1> HIDE DEF D
<1>5. LooksDown(Group, V, GroupDepth, D)
    <2>1. \A g \in Group : \A f, h \in [Group -> V] :
              (\A y \in Group : GroupDepth[y] < GroupDepth[g] => f[y] = h[y]) => D[<<g, f>>] = D[<<g, h>>]
        <3> SUFFICES ASSUME NEW g \in Group, NEW f \in [Group -> V], NEW h \in [Group -> V],
                            \A y \in Group : GroupDepth[y] < GroupDepth[g] => f[y] = h[y]
                     PROVE  D[<<g, f>>] = D[<<g, h>>]
            OBVIOUS
        <3>1. E(g, f) = E(g, h)
            BY <1>4
        <3> HIDE DEF E
        <3> QED BY <3>1, <1>3
    <2> HIDE DEF V
    <2> QED BY <2>1, <1>1, <1>3, DepthAssumption DEF LooksDown
<1>6. \E f \in [Group -> V] : \A g \in Group : f[g] = D[<<g, f>>]
    BY <1>5, Recursion
<1>7. PICK f \in [Group -> V] : \A g \in Group : f[g] = D[<<g, f>>]
    BY <1>6
<1>8. f = [g \in Group |-> E(g, f)]
    <2> HIDE DEF E
    <2> QED BY <1>3, <1>7
<1>9. f = [g \in Group |-> LET bs == Branches[g]
                           IN  FlattenSeq([i \in DOMAIN bs |-> <<bs[i]>>
                                   \o FlattenSeq([k \in DOMAIN bs[i].opts |-> f[bs[i].opts[k]]])])]
    <2> DEFINE B(g) == LET bs == Branches[g]
                       IN  FlattenSeq([i \in DOMAIN bs |-> <<bs[i]>>
                               \o FlattenSeq([k \in DOMAIN bs[i].opts |-> f[bs[i].opts[k]]])])
    <2>1. \A g \in Group : B(g) = E(g, f)
        BY BranchesType, FlattensWithOptionals
    <2> HIDE DEF B, E
    <2>2. f = [g \in Group |-> B(g)]
        BY <1>8, <2>1
    <2> QED BY <2>2 DEF B
<1> QED BY <1>9 DEF AllBranchesAre

LEMMA AllBranchesOf ==
    /\ Maps(AllBranches, Group, Seq(Branch))
    /\ \A g \in Group : AllBranches[g] = Flat(WithOptionals(AllBranches), Branches[g])
<1> DEFINE f == CHOOSE f : AllBranchesAre(f)
<1>1. AllBranchesAre(f)
    BY AllBranchesExist
<1>2. AllBranches = f
    BY AllBranchesIs
<1> HIDE DEF f
<1>3. ASSUME NEW g \in Group PROVE f[g] = Flat(WithOptionals(f), Branches[g])
    <2>1. Branches[g] \in Seq(Branch)
        BY BranchesType
    <2> QED BY <2>1, <1>1, FlattensWithOptionals DEF AllBranchesAre
<1>4. f = [g \in Group |-> f[g]]
    BY <1>1 DEF AllBranchesAre
<1> DEFINE P == {n \in Nat : \A g \in Group : GroupDepth[g] < n => f[g] \in Seq(Branch)}
<1>5. 0 \in P
    BY DepthAssumption
<1>6. ASSUME NEW n \in Nat, n \in P PROVE n + 1 \in P
    <2> SUFFICES ASSUME NEW g \in Group, GroupDepth[g] < n + 1 PROVE f[g] \in Seq(Branch)
        OBVIOUS
    <2> DEFINE S == Shallower(g)
               h == [y \in Group |-> IF y \in S THEN f[y] ELSE <<>>]
    <2>1. \A y \in S : f[y] \in Seq(Branch)
        BY <1>6, DepthAssumption DEF Shallower
    <2>2. Maps(h, Group, Seq(Branch)) /\ \A y \in S : f[y] = h[y]
        <3>0. <<>> \in Seq(Branch)
            OBVIOUS
        <3>1. \A y \in Group : h[y] \in Seq(Branch)
            BY <2>1, <3>0
        <3>2. \A y \in S : f[y] = h[y]
            BY DEF Shallower
        <3> QED BY <3>1, <3>2 DEF Maps
    <2>3. Branches[g] \in Seq(BranchOver(S)) /\ S \subseteq Group /\ Branches[g] \in Seq(Branch)
        BY BranchesShallower, BranchesType DEF Shallower
    <2> HIDE DEF S, h
    <2>4. f[g] = Flat(WithOptionals(h), Branches[g])
        BY <1>3, <2>2, <2>3, WithOptionalsAgree
    <2>5. Maps(WithOptionals(h), Branch, Seq(Branch))
        BY <2>2, WithOptionalsType
    <2> QED BY <2>3, <2>4, <2>5, FlatType
<1>7. Nat \subseteq P
    <2> HIDE DEF P
    <2> QED BY <1>5, <1>6, SetInduction
<1>8. ASSUME NEW g \in Group PROVE f[g] \in Seq(Branch)
    <2>1. GroupDepth[g] + 1 \in Nat /\ GroupDepth[g] < GroupDepth[g] + 1
        BY DepthAssumption
    <2>2. GroupDepth[g] + 1 \in P
        BY <2>1, <1>7
    <2> QED BY <2>1, <2>2
<1>9. Maps(f, Group, Seq(Branch))
    BY <1>4, <1>8 DEF Maps
<1> QED BY <1>2, <1>3, <1>9

-----------------------------------------------------------------------------
(* Paths and verbs.                                                         *)

Plainest == IriTerm \cup {<<"a">>, <<"not">>}

InnermostAre(f) == f = [path \in Path |->
    LET primary == IF path = <<>> THEN <<"missing">> ELSE path[1][1].primary
    IN  IF primary[1] = "path" THEN f[primary[2]] ELSE primary]

PlainAre(f) == f = [path \in Path |->
    /\ Len(path) = 1 /\ Len(path[1]) = 1
    /\ ~path[1][1].inverse
    /\ path[1][1].primary[1] = "path" => f[path[1][1].primary[2]]]

LEMMA PathInside ==
    ASSUME NEW path \in Path, path # <<>>
    PROVE  /\ Primary(path)[1] = "path" =>
                  Primary(path)[2] \in Path /\ PathDepth[Primary(path)[2]] < PathDepth[path]
           /\ Primary(path)[1] # "path" => Primary(path) \in Plainest
<1>1. Primary(path) \in IriTerm \cup {<<"a">>, <<"not">>} \cup ({"path"} \X Path)
    BY PrimaryType
<1>2. path \in Seq(Seq(Element) \ {<<>>})
    BY GrammarAssumption
<1>3. 1 \in DOMAIN path /\ path[1] \in Seq(Element) \ {<<>>}
    BY <1>2, EmptySeq, ElementOfSeq, LenProperties
<1>4. 1 \in DOMAIN path[1]
    BY <1>3, EmptySeq, LenProperties
<1> DEFINE p == Primary(path)
<1>5. p = path[1][1].primary
    BY DEF Primary
<1> HIDE DEF p
<1>6. ASSUME p[1] = "path" PROVE p[2] \in Path /\ p = <<"path", p[2]>>
    BY <1>1, <1>6 DEF IriTerm, p
<1>7. p[1] = "path" => p[2] \in InnerPaths(path)
    BY <1>3, <1>4, <1>5, <1>6 DEF InnerPaths
<1>8. p[1] # "path" => p \in Plainest
    BY <1>1 DEF Plainest, p
<1> QED BY <1>6, <1>7, <1>8, DepthAssumption DEF p

LEMMA InnermostExists == \E f \in [Path -> Plainest \cup {<<"missing">>}] : InnermostAre(f)
<1> DEFINE V == Plainest \cup {<<"missing">>}
           first(q) == IF q = <<>> THEN <<"missing">> ELSE Primary(q)
           E(q, f) == IF first(q)[1] = "path" THEN f[first(q)[2]] ELSE first(q)
           D == [p \in Path \X [Path -> V] |-> E(p[1], p[2])]
<1>1. V # {}
    BY DEF Plainest
<1>2. ASSUME NEW q \in Path, NEW f \in [Path -> V] PROVE E(q, f) \in V
    <2>1. first(q)[1] = "path" => first(q)[2] \in Path
        BY PathInside
    <2>2. first(q)[1] # "path" => first(q) \in V
        BY PathInside DEF Plainest
    <2> QED BY <2>1, <2>2
<1>3. D \in [Path \X [Path -> V] -> V] /\ \A q \in Path : \A f \in [Path -> V] : D[<<q, f>>] = E(q, f)
    <2> HIDE DEF V, E
    <2> QED BY <1>2
<1>4. ASSUME NEW q \in Path, NEW f \in [Path -> V], NEW h \in [Path -> V],
             \A y \in Path : PathDepth[y] < PathDepth[q] => f[y] = h[y]
      PROVE  E(q, f) = E(q, h)
    BY <1>4, PathInside
<1> HIDE DEF D
<1>5. LooksDown(Path, V, PathDepth, D)
    <2>1. \A q \in Path : \A f, h \in [Path -> V] :
              (\A y \in Path : PathDepth[y] < PathDepth[q] => f[y] = h[y]) => D[<<q, f>>] = D[<<q, h>>]
        <3> SUFFICES ASSUME NEW q \in Path, NEW f \in [Path -> V], NEW h \in [Path -> V],
                            \A y \in Path : PathDepth[y] < PathDepth[q] => f[y] = h[y]
                     PROVE  D[<<q, f>>] = D[<<q, h>>]
            OBVIOUS
        <3>1. E(q, f) = E(q, h)
            BY <1>4
        <3> HIDE DEF E
        <3> QED BY <3>1, <1>3
    <2> HIDE DEF V
    <2> QED BY <2>1, <1>1, <1>3, DepthAssumption DEF LooksDown
<1>6. \E f \in [Path -> V] : \A q \in Path : f[q] = D[<<q, f>>]
    BY <1>5, Recursion
<1>7. PICK f \in [Path -> V] : \A q \in Path : f[q] = D[<<q, f>>]
    BY <1>6
<1>8. f = [q \in Path |-> E(q, f)]
    <2> HIDE DEF E
    <2> QED BY <1>3, <1>7
<1> QED BY <1>8 DEF InnermostAre, Primary

LEMMA InnermostOf ==
    ASSUME NEW path \in Path, path # <<>>
    PROVE  Innermost[path] = IF Primary(path)[1] = "path" THEN Innermost[Primary(path)[2]] ELSE Primary(path)
<1> DEFINE f == CHOOSE f : InnermostAre(f)
<1>1. InnermostAre(f)
    BY InnermostExists
<1>2. Innermost = f
    BY DEF Innermost, InnermostAre
<1> HIDE DEF f
<1> QED BY <1>1, <1>2 DEF InnermostAre, Primary

LEMMA PathThrowsIs ==
    ASSUME NEW path \in Path
    PROVE  ~PathThrows(path) <=> Len(path) = 1 /\ Len(path[1]) = 1 /\ ~path[1][1].inverse
<1>1. path \in Seq(Seq(Element) \ {<<>>})
    BY GrammarAssumption
<1> DEFINE s == path[1]
<1>2. ASSUME Len(path) = 1 PROVE Len(s) \in Nat \ {0}
    <2>1. s \in Seq(Element) \ {<<>>}
        BY <1>1, <1>2, ElementOfSeq
    <2> QED BY <2>1, EmptySeq
<1> HIDE DEF s
<1>3. ~PathThrows(path) <=> ~(Len(path) # 1 \/ Len(s) > 1 \/ s[1].inverse)
    BY DEF PathThrows, s
<1>4. ASSUME Len(path) = 1 PROVE (Len(s) > 1) <=> (Len(s) # 1)
    <2>1. \A n \in Nat \ {0} : (n > 1) <=> (n # 1)
        OBVIOUS
    <2> QED BY <2>1, <1>2, <1>4
<1> QED BY <1>3, <1>4 DEF s

LEMMA PlainExists == \E f \in [Path -> BOOLEAN] : PlainAre(f)
<1> DEFINE V == BOOLEAN
           E(q, f) == ~PathThrows(q) /\ (Primary(q)[1] = "path" => f[Primary(q)[2]])
           D == [p \in Path \X [Path -> V] |-> E(p[1], p[2])]
<1>1. V # {}
    OBVIOUS
<1>2. ASSUME NEW q \in Path, NEW f \in [Path -> V] PROVE E(q, f) \in V
    OBVIOUS
<1>3. D \in [Path \X [Path -> V] -> V] /\ \A q \in Path : \A f \in [Path -> V] : D[<<q, f>>] = E(q, f)
    <2> HIDE DEF E
    <2>1. \A q \in Path : \A f \in [Path -> V] : D[<<q, f>>] = E(q, f)
        OBVIOUS
    <2> HIDE DEF V
    <2>2. D \in [Path \X [Path -> V] -> V]
        BY <1>2
    <2> QED BY <2>1, <2>2
<1>4. ASSUME NEW q \in Path, NEW f \in [Path -> V], NEW h \in [Path -> V],
             \A y \in Path : PathDepth[y] < PathDepth[q] => f[y] = h[y]
      PROVE  E(q, f) = E(q, h)
    <2>1. ~PathThrows(q) => q # <<>>
        BY EmptySeq DEF PathThrows
    <2> QED BY <2>1, <1>4, PathInside
<1> HIDE DEF D
<1>5. LooksDown(Path, V, PathDepth, D)
    <2>1. \A q \in Path : \A f, h \in [Path -> V] :
              (\A y \in Path : PathDepth[y] < PathDepth[q] => f[y] = h[y]) => D[<<q, f>>] = D[<<q, h>>]
        <3> SUFFICES ASSUME NEW q \in Path, NEW f \in [Path -> V], NEW h \in [Path -> V],
                            \A y \in Path : PathDepth[y] < PathDepth[q] => f[y] = h[y]
                     PROVE  D[<<q, f>>] = D[<<q, h>>]
            OBVIOUS
        <3>1. E(q, f) = E(q, h)
            BY <1>4
        <3> HIDE DEF E
        <3> QED BY <3>1, <1>3
    <2> HIDE DEF V
    <2> QED BY <2>1, <1>1, <1>3, DepthAssumption DEF LooksDown
<1>6. \E f \in [Path -> V] : \A q \in Path : f[q] = D[<<q, f>>]
    BY <1>5, Recursion
<1>7. PICK f \in [Path -> V] : \A q \in Path : f[q] = D[<<q, f>>]
    BY <1>6
<1>8. ASSUME NEW q \in Path
      PROVE  E(q, f) = (/\ Len(q) = 1 /\ Len(q[1]) = 1
                        /\ ~q[1][1].inverse
                        /\ q[1][1].primary[1] = "path" => f[q[1][1].primary[2]])
    BY PathThrowsIs DEF Primary
<1>9. f = [q \in Path |-> E(q, f)]
    <2> HIDE DEF E
    <2> QED BY <1>3, <1>7
<1> HIDE DEF E
<1> QED BY <1>8, <1>9 DEF PlainAre

LEMMA PathIsPlainOf ==
    ASSUME NEW path \in Path
    PROVE  PathIsPlain[path] <=> /\ ~PathThrows(path)
                                 /\ Primary(path)[1] = "path" => PathIsPlain[Primary(path)[2]]
<1> DEFINE f == CHOOSE f : PlainAre(f)
<1>1. PlainAre(f)
    BY PlainExists
<1>2. PathIsPlain = f
    BY DEF PathIsPlain, PlainAre
<1> HIDE DEF f
<1>3. f[path] = (/\ Len(path) = 1 /\ Len(path[1]) = 1
                 /\ ~path[1][1].inverse
                 /\ path[1][1].primary[1] = "path" => f[path[1][1].primary[2]])
    BY <1>1 DEF PlainAre
<1> QED BY <1>2, <1>3, PathThrowsIs DEF Primary

\* The node of a verb is what the visitor makes of it, in the end.
LEMMA VerbNodeIs ==
    ASSUME NEW ps \in PrefixMaps, NEW verb \in Verb
    PROVE  /\ IsNested(verb) => VerbNode(ps, verb) = VerbNode(ps, Primary(verb[2]))
           /\ ~IsNested(verb) => VerbNode(ps, verb) = visitVerb(ps, verb)
<1>1. CASE verb[1] = "var"
    <2>1. VerbNode(ps, verb) = Var(verb[2])
        BY <1>1 DEF VerbNode
    <2>2. visitVerb(ps, verb) = Var(verb[2])
        BY <1>1 DEF visitVerb
    <2>3. ~IsNested(verb)
        BY <1>1 DEF IsNested
    <2> QED BY <2>1, <2>2, <2>3
<1>3. CASE verb[1] = "missing"
    BY <1>3 DEF VerbNode, visitVerb, IsNested
<1>2. CASE verb[1] = "path"
    <2> DEFINE path == verb[2]
               p == Primary(path)
    <2>1. path \in Path
        BY <1>2 DEF Verb
    <2> HIDE DEF path
    <2>2. VerbNode(ps, verb) = IF PathIsPlain[path] THEN visitPathElt(ps, Innermost[path]) ELSE Thrown
        BY <1>2 DEF VerbNode, path
    <2>3. visitVerb(ps, verb) = IF PathThrows(path) THEN Thrown ELSE visitPathElt(ps, p)
        BY <1>2 DEF visitVerb, path
    <2>4. IsNested(verb) <=> ~PathThrows(path) /\ p[1] = "path"
        BY <1>2 DEF IsNested, path
    <2>5. p[1] = "path" => VerbNode(ps, p) = IF PathIsPlain[p[2]] THEN visitPathElt(ps, Innermost[p[2]]) ELSE Thrown
        BY DEF VerbNode
    <2>6. PathIsPlain[path] <=> ~PathThrows(path) /\ (p[1] = "path" => PathIsPlain[p[2]])
        BY <2>1, PathIsPlainOf
    <2>9. ~PathThrows(path) => path # <<>>
        BY EmptySeq DEF PathThrows
    <2>7. ~PathThrows(path) => Innermost[path] = IF p[1] = "path" THEN Innermost[p[2]] ELSE p
        BY <2>1, <2>9, InnermostOf
    <2>8. Primary(verb[2]) = p
        BY DEF p, path
    <2> HIDE DEF p
    <2> QED BY <2>2, <2>3, <2>4, <2>5, <2>6, <2>7, <2>8
<1> QED BY <1>1, <1>2, <1>3 DEF Verb

LEMMA VerbNodeType ==
    ASSUME NEW ps \in PrefixMaps, NEW verb \in Verb
    PROVE  VerbNode(ps, verb) \in Visited
<1> DEFINE P == {n \in Nat : \A path \in Path : PathDepth[path] < n =>
                     VerbNode(ps, <<"path", path>>) \in Visited}
<1>1. 0 \in P
    BY DepthAssumption
<1>2. ASSUME NEW n \in Nat, n \in P PROVE n + 1 \in P
    <2> SUFFICES ASSUME NEW path \in Path, PathDepth[path] < n + 1
                 PROVE  VerbNode(ps, <<"path", path>>) \in Visited
        OBVIOUS
    <2> DEFINE v == <<"path", path>>
               p == Primary(path)
    <2>1. v \in Verb /\ v[1] = "path" /\ v[2] = path
        BY DEF Verb
    <2> HIDE DEF v
    <2>2. CASE ~IsNested(v)
        BY <2>1, <2>2, VerbNodeIs, VerbType DEF v
    <2>3. CASE IsNested(v)
        <3>1. p[1] = "path" /\ p \in Verb /\ path # <<>>
            BY <2>1, <2>3, VerbType, EmptySeq DEF IsNested, PathThrows
        <3>2. p = <<"path", p[2]>> /\ p[2] \in Path /\ PathDepth[p[2]] < PathDepth[path]
            BY <3>1, PathInside DEF Verb
        <3>3. PathDepth[p[2]] < n
            BY <3>2, DepthAssumption
        <3>4. VerbNode(ps, <<"path", p[2]>>) \in Visited
            BY <3>2, <3>3, <1>2
        <3>5. VerbNode(ps, v) = VerbNode(ps, p)
            BY <2>1, <2>3, VerbNodeIs
        <3> HIDE DEF p
        <3> QED BY <3>2, <3>4, <3>5 DEF v
    <2> QED BY <2>2, <2>3
<1>3. Nat \subseteq P
    <2> HIDE DEF P
    <2> QED BY <1>1, <1>2, SetInduction
<1>4. CASE verb[1] \in {"var", "missing"}
    BY <1>4, VerbNodeIs, VerbType DEF IsNested
<1>5. CASE verb[1] = "path"
    <2>1. verb = <<"path", verb[2]>> /\ verb[2] \in Path
        BY <1>5 DEF Verb
    <2>2. PathDepth[verb[2]] + 1 \in Nat /\ PathDepth[verb[2]] < PathDepth[verb[2]] + 1
        BY <2>1, DepthAssumption
    <2>3. PathDepth[verb[2]] + 1 \in P
        BY <2>2, <1>3
    <2>4. VerbNode(ps, <<"path", verb[2]>>) \in Visited
        BY <2>1, <2>2, <2>3
    <2> QED BY <2>1, <2>4
<1> QED BY <1>4, <1>5 DEF Verb

-----------------------------------------------------------------------------
(* What the triple patterns come to, each with a weight: those of a group   *)
(* as a sum over its branches.                                              *)

Triple  == Visited \X Visited \X Visited
Weights == [Triple -> Nat]

TermWeight(W, D, x, y) == [o \in Term |-> W[<<x, y, visitVarOrTerm(D, o)>>]]

PropertiesWeight(W, D, x) ==
    [p \in Properties |-> Sum(TermWeight(W, D, x, VerbNode(D, p.verb)), p.objects)]

SubjectWeight(W, D) == [ts \in SameSubject |-> Sum(W, PatternsOf(D, ts))]

BlockWeight(W, D) == [b \in Blocks |-> Sum(SubjectWeight(W, D), b.tss)]

BranchWeight(W, D) == [b \in Branch |-> Sum(W, BranchTriples(D, b))]

GroupWeight(W, D) == [g \in Group |-> Sum(BranchWeight(W, D), AllBranches[g])]

\* With its OPTIONAL groups.
FullWeight(W, D) == [b \in Branch |-> BranchWeight(W, D)[b] + Sum(GroupWeight(W, D), b.opts)]

\* The triple patterns of one property.
ObjectPatterns(D, x, p) ==
    [j \in DOMAIN p.objects |-> << x, VerbNode(D, p.verb), visitVarOrTerm(D, p.objects[j]) >>]

OfProperties(D, x) == [p \in Properties |-> ObjectPatterns(D, x, p)]

LEMMA ObjectPatternsType ==
    ASSUME NEW D \in PrefixMaps, NEW x \in Visited, NEW p \in Properties
    PROVE  /\ ObjectPatterns(D, x, p) \in Seq(Triple) /\ Len(ObjectPatterns(D, x, p)) = Len(p.objects)
           /\ \A j \in 1..Len(p.objects) :
                  ObjectPatterns(D, x, p)[j] = << x, VerbNode(D, p.verb), visitVarOrTerm(D, p.objects[j]) >>
<1> DEFINE s == p.objects
           m == ObjectPatterns(D, x, p)
           y == VerbNode(D, p.verb)
<1>1. s \in Seq(Term) /\ y \in Visited
    BY VerbNodeType DEF Properties
<1>2. m = [j \in DOMAIN s |-> <<x, y, visitVarOrTerm(D, s[j])>>]
    BY DEF ObjectPatterns
<1> HIDE DEF s, m, y
<1>3. DOMAIN s = 1..Len(s) /\ Len(s) \in Nat /\ \A j \in 1..Len(s) : s[j] \in Term
    BY <1>1, LenProperties, ElementOfSeq
<1>4. \A j \in 1..Len(s) : visitVarOrTerm(D, s[j]) \in Visited
    BY <1>3, TermType
<1>5. m \in [1..Len(s) -> Triple] /\ \A j \in 1..Len(s) : m[j] = <<x, y, visitVarOrTerm(D, s[j])>>
    BY <1>1, <1>2, <1>3, <1>4 DEF Triple
<1> QED BY <1>3, <1>5, FunctionIsSeq DEF s, m, y

LEMMA OfPropertiesType ==
    ASSUME NEW D \in PrefixMaps, NEW x \in Visited
    PROVE  Maps(OfProperties(D, x), Properties, Seq(Triple))
BY ObjectPatternsType DEF Maps, OfProperties

LEMMA PatternsOfIs ==
    ASSUME NEW D \in PrefixMaps, NEW ts \in SameSubject
    PROVE  /\ PatternsOf(D, ts) \in Seq(Triple)
           /\ PatternsOf(D, ts) = IF ts.subject[1] = "node" THEN <<>>
                                  ELSE Flat(OfProperties(D, visitVarOrTerm(D, ts.subject)), ts.properties)
           /\ visitVarOrTerm(D, ts.subject) \in Visited
<1> DEFINE x == visitVarOrTerm(D, ts.subject)
           s == ts.properties
<1>1. x \in Visited /\ s \in Seq(Properties)
    BY TermType DEF SameSubject
<1>2. DOMAIN s = 1..Len(s) /\ \A i \in 1..Len(s) : s[i] \in Properties
    BY <1>1, LenProperties, ElementOfSeq
<1>3. [i \in DOMAIN s |-> LET p == s[i]
                          IN  [j \in DOMAIN p.objects |->
                                  << x, VerbNode(D, p.verb), visitVarOrTerm(D, p.objects[j]) >>]]
      = Mapped(OfProperties(D, x), s)
    BY <1>2 DEF Mapped, OfProperties, ObjectPatterns
<1>4. PatternsOf(D, ts) = IF ts.subject[1] = "node" THEN <<>> ELSE Flat(OfProperties(D, x), s)
    BY <1>3 DEF PatternsOf, Flat
<1> HIDE DEF x, s
<1>5. Flat(OfProperties(D, x), s) \in Seq(Triple)
    BY <1>1, OfPropertiesType, FlatType
<1> QED BY <1>1, <1>4, <1>5 DEF x, s

LEMMA TermWeightType ==
    ASSUME NEW D \in PrefixMaps, NEW W \in Weights, NEW x \in Visited, NEW y \in Visited
    PROVE  TermWeight(W, D, x, y) \in [Term -> Nat]
<1>1. \A o \in Term : <<x, y, visitVarOrTerm(D, o)>> \in Triple
    BY TermType DEF Triple
<1> QED BY <1>1 DEF TermWeight, Weights

LEMMA PropertiesWeightIs ==
    ASSUME NEW D \in PrefixMaps, NEW W \in Weights, NEW x \in Visited
    PROVE  /\ PropertiesWeight(W, D, x) \in [Properties -> Nat]
           /\ \A p \in Properties : PropertiesWeight(W, D, x)[p] = Sum(W, ObjectPatterns(D, x, p))
<1> SUFFICES ASSUME NEW p \in Properties
             PROVE  /\ Sum(TermWeight(W, D, x, VerbNode(D, p.verb)), p.objects) \in Nat
                    /\ Sum(TermWeight(W, D, x, VerbNode(D, p.verb)), p.objects) = Sum(W, ObjectPatterns(D, x, p))
    BY DEF PropertiesWeight
<1> DEFINE y == VerbNode(D, p.verb)
           G == TermWeight(W, D, x, y)
           s == p.objects
           t == ObjectPatterns(D, x, p)
<1>1. s \in Seq(Term) /\ y \in Visited
    BY VerbNodeType DEF Properties
<1>2. /\ t \in Seq(Triple) /\ Len(t) = Len(s)
      /\ \A j \in 1..Len(s) : t[j] = << x, y, visitVarOrTerm(D, s[j]) >>
    BY ObjectPatternsType
<1>3. G \in [Term -> Nat] /\ \A o \in Term : G[o] = W[<<x, y, visitVarOrTerm(D, o)>>]
    BY <1>1, TermWeightType DEF TermWeight
<1>4. W \in [Triple -> Nat]
    BY DEF Weights
<1> HIDE DEF y, G, s, t
<1>5. \A j \in 1..Len(s) : s[j] \in Term
    BY <1>1, ElementOfSeq
<1>6. Alike(Term, G, s, Triple, W, t)
    BY <1>1, <1>2, <1>3, <1>4, <1>5 DEF Alike
<1>7. Sum(G, s) = Sum(W, t)
    BY <1>6, SumSame
<1> QED BY <1>1, <1>3, <1>7, SumType DEF y, G, s, t

LEMMA SubjectWeightIs ==
    ASSUME NEW D \in PrefixMaps, NEW W \in Weights
    PROVE  /\ SubjectWeight(W, D) \in [SameSubject -> Nat]
           /\ \A ts \in SameSubject :
                  SubjectWeight(W, D)[ts]
                  = IF ts.subject[1] = "node" THEN 0
                    ELSE Sum(PropertiesWeight(W, D, visitVarOrTerm(D, ts.subject)), ts.properties)
<1>0. W \in [Triple -> Nat]
    BY DEF Weights
<1>1. SubjectWeight(W, D) \in [SameSubject -> Nat]
    <2>1. \A ts \in SameSubject : PatternsOf(D, ts) \in Seq(Triple)
        BY PatternsOfIs
    <2>2. \A ts \in SameSubject : Sum(W, PatternsOf(D, ts)) \in Nat
        BY <1>0, <2>1, SumType
    <2> QED BY <2>2 DEF SubjectWeight
<1>2. ASSUME NEW ts \in SameSubject, ts.subject[1] # "node"
      PROVE  Sum(W, PatternsOf(D, ts)) = Sum(PropertiesWeight(W, D, visitVarOrTerm(D, ts.subject)), ts.properties)
    <2> DEFINE x == visitVarOrTerm(D, ts.subject)
               h == OfProperties(D, x)
               G == PropertiesWeight(W, D, x)
               s == ts.properties
    <2>1. x \in Visited /\ PatternsOf(D, ts) = Flat(h, s) /\ s \in Seq(Properties)
        BY <1>2, PatternsOfIs DEF SameSubject
    <2> HIDE DEF x, s
    <2>2. Maps(h, Properties, Seq(Triple)) /\ \A p \in Properties : h[p] = ObjectPatterns(D, x, p)
        BY <2>1, OfPropertiesType DEF OfProperties
    <2>3. G \in [Properties -> Nat] /\ \A p \in Properties : G[p] = Sum(W, ObjectPatterns(D, x, p))
        BY <2>1, PropertiesWeightIs
    <2> HIDE DEF h, G
    <2>4. Totals(Properties, Triple, h, W, G)
        BY <1>0, <2>2, <2>3 DEF Totals
    <2>5. Sum(W, Flat(h, s)) = Sum(G, s)
        BY <2>1, <2>4, SumFlat
    <2> QED BY <2>1, <2>5 DEF x, s, G
<1>3. ASSUME NEW ts \in SameSubject, ts.subject[1] = "node" PROVE Sum(W, PatternsOf(D, ts)) = 0
    BY <1>3, PatternsOfIs, SumEmpty
<1> QED BY <1>1, <1>2, <1>3 DEF SubjectWeight

PatternsOfSubject(D) == [ts \in SameSubject |-> PatternsOf(D, ts)]
TriplesOfBranch(D)   == [b \in Branch |-> BranchTriples(D, b)]

LEMMA BranchTriplesIs ==
    ASSUME NEW D \in PrefixMaps
    PROVE  /\ Maps(PatternsOfSubject(D), SameSubject, Seq(Triple))
           /\ Maps(TriplesOfBranch(D), Branch, Seq(Triple))
           /\ \A b \in Branch : BranchTriples(D, b) = Flat(PatternsOfSubject(D), b.tss)
<1>1. Maps(PatternsOfSubject(D), SameSubject, Seq(Triple))
    BY PatternsOfIs DEF Maps, PatternsOfSubject
<1>2. ASSUME NEW b \in Branch
      PROVE  BranchTriples(D, b) = Flat(PatternsOfSubject(D), b.tss) /\ BranchTriples(D, b) \in Seq(Triple)
    <2> DEFINE s == b.tss
    <2>1. s \in Seq(SameSubject)
        BY BranchOpts
    <2>2. DOMAIN s = 1..Len(s) /\ \A i \in 1..Len(s) : s[i] \in SameSubject
        BY <2>1, LenProperties, ElementOfSeq
    <2>3. BranchTriples(D, b) = FlattenSeq([k \in DOMAIN s |-> PatternsOf(D, s[k])])
        BY DEF BranchTriples
    <2> HIDE DEF s
    <2>4. [k \in DOMAIN s |-> PatternsOf(D, s[k])] = Mapped(PatternsOfSubject(D), s)
        BY <2>2 DEF Mapped, PatternsOfSubject
    <2>5. Flat(PatternsOfSubject(D), s) \in Seq(Triple)
        BY <1>1, <2>1, FlatType
    <2> QED BY <2>3, <2>4, <2>5 DEF Flat, s
<1> QED BY <1>1, <1>2 DEF Maps, TriplesOfBranch

LEMMA BranchWeightIs ==
    ASSUME NEW D \in PrefixMaps, NEW W \in Weights
    PROVE  /\ BranchWeight(W, D) \in [Branch -> Nat]
           /\ \A b \in Branch : BranchWeight(W, D)[b] = Sum(SubjectWeight(W, D), b.tss)
<1>0. W \in [Triple -> Nat]
    BY DEF Weights
<1>1. Totals(SameSubject, Triple, PatternsOfSubject(D), W, SubjectWeight(W, D))
    BY <1>0, BranchTriplesIs, SubjectWeightIs DEF Totals, PatternsOfSubject, SubjectWeight
<1>2. \A b \in Branch : Sum(W, BranchTriples(D, b)) = Sum(SubjectWeight(W, D), b.tss)
    <2> SUFFICES ASSUME NEW b \in Branch
                 PROVE  Sum(W, BranchTriples(D, b)) = Sum(SubjectWeight(W, D), b.tss)
        OBVIOUS
    <2> DEFINE s == b.tss
    <2>1. s \in Seq(SameSubject) /\ BranchTriples(D, b) = Flat(PatternsOfSubject(D), s)
        BY BranchOpts, BranchTriplesIs
    <2> HIDE DEF s
    <2> QED BY <2>1, <1>1, SumFlat DEF s
<1>3. \A b \in Branch : BranchTriples(D, b) \in Seq(Triple)
    BY BranchTriplesIs DEF Maps, TriplesOfBranch
<1>4. \A b \in Branch : Sum(W, BranchTriples(D, b)) \in Nat
    BY <1>0, <1>3, SumType
<1> QED BY <1>2, <1>4 DEF BranchWeight

LEMMA AllBranchesType == \A g \in Group : AllBranches[g] \in Seq(Branch)
BY AllBranchesOf DEF Maps

LEMMA GroupWeightType ==
    ASSUME NEW D \in PrefixMaps, NEW W \in Weights
    PROVE  /\ GroupWeight(W, D) \in [Group -> Nat]
           /\ FullWeight(W, D) \in [Branch -> Nat]
<1>1. \A g \in Group : Sum(BranchWeight(W, D), AllBranches[g]) \in Nat
    BY AllBranchesType, BranchWeightIs, SumType
<1>2. GroupWeight(W, D) \in [Group -> Nat]
    BY <1>1 DEF GroupWeight
<1>3. \A b \in Branch : Sum(GroupWeight(W, D), b.opts) \in Nat
    BY <1>2, BranchOpts, SumType
<1>4. \A b \in Branch : BranchWeight(W, D)[b] \in Nat
    BY BranchWeightIs
<1> QED BY <1>2, <1>3, <1>4 DEF FullWeight

\* A group's branches come to what it comes to, if each has its OPTIONAL groups.
LEMMA GroupWeightIs ==
    ASSUME NEW D \in PrefixMaps, NEW W \in Weights, NEW g \in Group
    PROVE  GroupWeight(W, D)[g] = Sum(FullWeight(W, D), Branches[g])
<1> DEFINE B == BranchWeight(W, D)
           A == GroupWeight(W, D)
           F == FullWeight(W, D)
           h == WithOptionals(AllBranches)
           bs == Branches[g]
<1>0. B \in [Branch -> Nat] /\ A \in [Group -> Nat] /\ F \in [Branch -> Nat]
    BY BranchWeightIs, GroupWeightType
<1>1. Maps(AllBranches, Group, Seq(Branch)) /\ Maps(h, Branch, Seq(Branch)) /\ bs \in Seq(Branch)
    BY AllBranchesOf, WithOptionalsType, BranchesType
<1>2. AllBranches[g] = Flat(h, bs)
    BY AllBranchesOf
<1>3. Totals(Group, Branch, AllBranches, B, A)
    BY <1>0, <1>1 DEF Totals, GroupWeight
<1>4. ASSUME NEW b \in Branch PROVE F[b] = Sum(B, h[b])
    <2> DEFINE s == Flat(AllBranches, b.opts)
    <2>1. s \in Seq(Branch) /\ <<b>> \in Seq(Branch) /\ b.opts \in Seq(Group)
        BY <1>1, WithOptionalsType, BranchOpts
    <2>2. h[b] = <<b>> \o s
        BY DEF WithOptionals
    <2>3. Sum(B, s) = Sum(A, b.opts)
        BY <1>3, <2>1, SumFlat
    <2>4. F[b] = B[b] + Sum(A, b.opts)
        BY DEF FullWeight
    <2> HIDE DEF s, h, F, A, B
    <2>5. Sum(B, <<b>> \o s) = Sum(B, <<b>>) + Sum(B, s)
        <3> DEFINE t == <<b>>
        <3>1. t \in Seq(Branch)
            BY <2>1
        <3> HIDE DEF t
        <3>2. Sum(B, t \o s) = Sum(B, t) + Sum(B, s)
            BY <1>0, <2>1, <3>1, SumConcat
        <3> QED BY <3>2 DEF t
    <2>6. Sum(B, <<b>>) = B[b]
        BY <1>0, SumOne
    <2> QED BY <2>2, <2>3, <2>4, <2>5, <2>6
<1> HIDE DEF A, B, F, h, bs
<1>5. Totals(Branch, Branch, h, B, F)
    BY <1>0, <1>1, <1>4 DEF Totals
<1>6. Sum(B, Flat(h, bs)) = Sum(F, bs)
    BY <1>1, <1>5, SumFlat
<1> QED BY <1>2, <1>6 DEF A, B, F, bs, GroupWeight

LEMMA FullWeightJoins ==
    ASSUME NEW D \in PrefixMaps, NEW W \in Weights, NEW a \in Branch, NEW b \in Branch
    PROVE  FullWeight(W, D)[Join(a, b)] = FullWeight(W, D)[a] + FullWeight(W, D)[b]
<1> DEFINE B == BranchWeight(W, D)
           S == SubjectWeight(W, D)
           A == GroupWeight(W, D)
           F == FullWeight(W, D)
           c == Join(a, b)
<1>0. B \in [Branch -> Nat] /\ A \in [Group -> Nat] /\ S \in [SameSubject -> Nat]
    BY BranchWeightIs, GroupWeightType, SubjectWeightIs
<1>1. \A x \in Branch : B[x] = Sum(S, x.tss) /\ F[x] = B[x] + Sum(A, x.opts)
    BY BranchWeightIs DEF FullWeight
<1>2. c \in Branch /\ c.tss = a.tss \o b.tss /\ c.opts = a.opts \o b.opts
    BY BranchFacts DEF Join
<1>3. \A x \in Branch : x.tss \in Seq(SameSubject) /\ x.opts \in Seq(Group)
    BY BranchOpts
<1> HIDE DEF A, B, F, S, c
<1>4. Sum(S, a.tss \o b.tss) = Sum(S, a.tss) + Sum(S, b.tss)
    BY <1>0, <1>3, SumConcat
<1>5. Sum(A, a.opts \o b.opts) = Sum(A, a.opts) + Sum(A, b.opts)
    BY <1>0, <1>3, SumConcat
<1>6. /\ Sum(S, a.tss) \in Nat /\ Sum(S, b.tss) \in Nat /\ Sum(A, a.opts) \in Nat /\ Sum(A, b.opts) \in Nat
    BY <1>0, <1>3, SumType
<1>7. F[c] = (Sum(S, a.tss) + Sum(S, b.tss)) + (Sum(A, a.opts) + Sum(A, b.opts))
    BY <1>1, <1>2, <1>4, <1>5
<1>8. F[a] = Sum(S, a.tss) + Sum(A, a.opts) /\ F[b] = Sum(S, b.tss) + Sum(A, b.opts)
    BY <1>1
<1>9. F[c] = F[a] + F[b]
    BY <1>6, <1>7, <1>8
<1> QED BY <1>9 DEF F, c

LEMMA FullWeightMeasure ==
    ASSUME NEW D \in PrefixMaps, NEW W \in Weights
    PROVE  FullWeight(W, D) \in Measures
<1> DEFINE F == FullWeight(W, D)
<1>1. F \in [Branch -> Nat]
    BY GroupWeightType
<1>2. \A a, b \in Branch : F[Join(a, b)] = F[a] + F[b]
    BY FullWeightJoins
<1> HIDE DEF F
<1>3. ASSUME NEW a \in Branch, NEW b \in Branch, NEW c \in Branch
      PROVE  F[Join(Join(a, b), c)] = F[Join(Join(b, a), c)]
    <2>1. Join(a, b) \in Branch /\ Join(b, a) \in Branch /\ F[a] \in Nat /\ F[b] \in Nat
        BY <1>1, BranchFacts
    <2> QED BY <2>1, <1>2
<1> QED BY <1>1, <1>3 DEF F, Measures

\* Blocks and OPTIONAL groups come to what each of them comes to.
LEMMA BaseWeight ==
    ASSUME NEW D \in PrefixMaps, NEW W \in Weights, NEW bs \in Seq(Blocks), NEW os \in Seq(Group)
    PROVE  /\ BlockWeight(W, D) \in [Blocks -> Nat]
           /\ FullWeight(W, D)[Base(bs, os)] = Sum(BlockWeight(W, D), bs) + Sum(GroupWeight(W, D), os)
<1> DEFINE S == SubjectWeight(W, D)
           K == BlockWeight(W, D)
           h == [b \in Blocks |-> b.tss]
<1>0. S \in [SameSubject -> Nat]
    BY SubjectWeightIs
<1>1. Maps(h, Blocks, Seq(SameSubject)) /\ \A b \in Blocks : h[b] = b.tss /\ b.tss \in Seq(SameSubject)
    BY TssType DEF Blocks
<1>2. \A b \in Blocks : K[b] = Sum(S, b.tss)
    BY DEF BlockWeight
<1>21. K = [b \in Blocks |-> K[b]]
    BY DEF BlockWeight
<1>3. Base(bs, os) = [tss |-> Flat(h, bs), opts |-> os] /\ Base(bs, os) \in Branch
    BY BaseType DEF Base, TssOf
<1>4. FullWeight(W, D)[Base(bs, os)] = Sum(S, Base(bs, os).tss) + Sum(GroupWeight(W, D), Base(bs, os).opts)
    BY <1>3, BranchWeightIs DEF FullWeight
<1> HIDE DEF S, K, h
<1>5. K \in [Blocks -> Nat]
    <2>1. \A b \in Blocks : K[b] \in Nat
        BY <1>0, <1>1, <1>2, SumType
    <2> QED BY <2>1, <1>21
<1>6. Totals(Blocks, SameSubject, h, S, K)
    BY <1>0, <1>1, <1>2, <1>5 DEF Totals
<1>7. Sum(S, Flat(h, bs)) = Sum(K, bs)
    BY <1>6, SumFlat
<1> QED BY <1>3, <1>4, <1>5, <1>7 DEF K

LEMMA AllTriplesWeight ==
    ASSUME NEW D \in PrefixMaps, NEW W \in Weights, NEW g \in Group
    PROVE  AllTriples(D, g) \in Seq(Triple) /\ Sum(W, AllTriples(D, g)) = GroupWeight(W, D)[g]
<1> DEFINE h == TriplesOfBranch(D)
           bs == AllBranches[g]
           B == BranchWeight(W, D)
<1>1. bs \in Seq(Branch) /\ Maps(h, Branch, Seq(Triple)) /\ B \in [Branch -> Nat] /\ W \in [Triple -> Nat]
    BY AllBranchesType, BranchTriplesIs, BranchWeightIs DEF Weights
<1>2. AllTriples(D, g) = FlattenSeq([i \in DOMAIN bs |-> BranchTriples(D, bs[i])])
    BY DEF AllTriples, Over
<1>3. DOMAIN bs = 1..Len(bs) /\ \A i \in 1..Len(bs) : bs[i] \in Branch
    BY <1>1, LenProperties, ElementOfSeq
<1>4. \A b \in Branch : h[b] = BranchTriples(D, b) /\ B[b] = Sum(W, BranchTriples(D, b))
    BY DEF TriplesOfBranch, BranchWeight
<1>5. GroupWeight(W, D)[g] = Sum(B, bs)
    BY DEF GroupWeight
<1> HIDE DEF h, bs, B
<1>6. AllTriples(D, g) = Flat(h, bs)
    <2>1. [i \in DOMAIN bs |-> BranchTriples(D, bs[i])] = Mapped(h, bs)
        BY <1>3, <1>4 DEF Mapped
    <2> QED BY <2>1, <1>2 DEF Flat
<1>7. Totals(Branch, Triple, h, W, B)
    BY <1>1, <1>4 DEF Totals
<1>8. Sum(W, Flat(h, bs)) = Sum(B, bs)
    BY <1>1, <1>7, SumFlat
<1>9. Flat(h, bs) \in Seq(Triple)
    BY <1>1, FlatType
<1> QED BY <1>5, <1>6, <1>8, <1>9

-----------------------------------------------------------------------------
(* Ranges.                                                                  *)

LEMMA RangeIs ==
    ASSUME NEW S, NEW s \in Seq(S)
    PROVE  Range(s) = {s[i] : i \in 1..Len(s)} /\ Range(s) \subseteq S
BY LenProperties, ElementOfSeq DEF Range

LEMMA RangeConcat ==
    ASSUME NEW S, NEW s \in Seq(S), NEW t \in Seq(S)
    PROVE  Range(s \o t) = Range(s) \cup Range(t)
<1> DEFINE u == s \o t
           m == Len(s)
           n == Len(t)
<1>1. /\ u \in Seq(S) /\ Len(u) = m + n /\ m \in Nat /\ n \in Nat
      /\ \A i \in 1..(m + n) : u[i] = IF i <= m THEN s[i] ELSE t[i - m]
    BY ConcatProperties, LenProperties
<1> HIDE DEF u
<1>2. /\ Range(u) = {u[i] : i \in 1..(m + n)} /\ Range(s) = {s[i] : i \in 1..m}
      /\ Range(t) = {t[i] : i \in 1..n}
    BY <1>1, RangeIs
<1> HIDE DEF m, n
<1>3. ASSUME NEW x \in Range(u) PROVE x \in Range(s) \cup Range(t)
    <2>1. PICK i \in 1..(m + n) : x = u[i]
        BY <1>2
    <2>2. CASE i <= m
        BY <1>1, <1>2, <2>1, <2>2
    <2>3. CASE ~(i <= m)
        <3>1. i - m \in 1..n
            BY <1>1, <2>3
        <3> QED BY <1>1, <1>2, <2>1, <2>3, <3>1
    <2> QED BY <2>2, <2>3
<1>4. ASSUME NEW x \in Range(s) PROVE x \in Range(u)
    <2>1. PICK i \in 1..m : x = s[i]
        BY <1>2
    <2>2. i \in 1..(m + n) /\ u[i] = s[i]
        BY <1>1
    <2> QED BY <1>2, <2>1, <2>2
<1>5. ASSUME NEW x \in Range(t) PROVE x \in Range(u)
    <2>1. PICK i \in 1..n : x = t[i]
        BY <1>2
    <2>2. m + i \in 1..(m + n) /\ u[m + i] = t[i]
        <3>1. m + i \in 1..(m + n) /\ ~(m + i <= m) /\ m + i - m = i
            BY <1>1
        <3> QED BY <1>1, <3>1
    <2> QED BY <1>2, <2>1, <2>2
<1> QED BY <1>3, <1>4, <1>5 DEF u

LEMMA RangeHead ==
    ASSUME NEW S, NEW s \in Seq(S), s # <<>>
    PROVE  Range(s) = {Head(s)} \cup Range(Tail(s))
<1> DEFINE n == Len(s) - 1
           t == Tail(s)
<1>1. /\ n \in Nat /\ Len(s) = n + 1 /\ Len(t) = n /\ Head(s) = s[1] /\ t \in Seq(S)
      /\ \A i \in 1..n : t[i] = s[i + 1]
    BY EmptySeq, HeadTailProperties
<1> HIDE DEF n, t
<1>2. Range(s) = {s[i] : i \in 1..(n + 1)} /\ Range(t) = {t[i] : i \in 1..n}
    BY <1>1, RangeIs
<1>3. ASSUME NEW x \in Range(s) PROVE x \in {Head(s)} \cup Range(t)
    <2>1. PICK i \in 1..(n + 1) : x = s[i]
        BY <1>2
    <2>2. CASE i = 1
        BY <1>1, <2>1, <2>2
    <2>3. CASE i # 1
        <3>1. i - 1 \in 1..n /\ i - 1 + 1 = i
            BY <1>1, <2>3
        <3>2. t[i - 1] = s[i - 1 + 1]
            BY <1>1, <3>1
        <3> QED BY <1>2, <2>1, <3>1, <3>2
    <2> QED BY <2>2, <2>3
<1>4. Head(s) \in Range(s)
    BY <1>1, <1>2
<1>5. ASSUME NEW x \in Range(t) PROVE x \in Range(s)
    <2>1. PICK i \in 1..n : x = t[i]
        BY <1>2
    <2>2. i + 1 \in 1..(n + 1)
        BY <1>1
    <2> QED BY <1>1, <1>2, <2>1, <2>2
<1> QED BY <1>3, <1>4, <1>5 DEF t

LEMMA RangeFrontLast ==
    ASSUME NEW S, NEW s \in Seq(S), s # <<>>
    PROVE  /\ Front(s) \in Seq(S) /\ Last(s) \in S
           /\ Range(s) = Range(Front(s)) \cup {Last(s)}
<1>1. Front(s) = Pop(s) /\ Last(s) = Top(s)
    BY DEF Pop, Top, Last
<1> DEFINE u == Front(s)
           n == Len(s) - 1
<1>2. /\ u \in Seq(S) /\ Len(u) = n /\ \A i \in 1..n : u[i] = s[i]
    BY <1>1, PopProperties
<1>3. n \in Nat /\ Len(s) = n + 1 /\ Last(s) = s[n + 1] /\ Last(s) \in S
    BY <1>1, TopProperties
<1> HIDE DEF u, n
<1>4. Range(s) = {s[i] : i \in 1..(n + 1)} /\ Range(u) = {u[i] : i \in 1..n}
    BY <1>2, <1>3, RangeIs
<1>5. 1..(n + 1) = (1..n) \cup {n + 1}
    BY <1>3
<1> QED BY <1>2, <1>3, <1>4, <1>5 DEF u

LEMMA RangeCalls ==
    ASSUME NEW f, NEW T, NEW args \in Seq(T)
    PROVE  Range(Calls(f, args)) = {Call(f, x) : x \in Range(args)}
<1>1. DOMAIN Calls(f, args) = DOMAIN args /\ \A i \in DOMAIN args : Calls(f, args)[i] = Call(f, args[i])
    BY DEF Calls
<1> QED BY <1>1 DEF Range

LEMMA RangeOne == \A x : Range(<<x>>) = {x}
<1> TAKE x
<1>1. DOMAIN <<x>> = {1} /\ <<x>>[1] = x
    OBVIOUS
<1> QED BY <1>1 DEF Range

LEMMA RangeTwo == \A x, y : Range(<<x, y>>) = {x, y}
<1> TAKE x, y
<1>1. DOMAIN <<x, y>> = {1, 2} /\ <<x, y>>[1] = x /\ <<x, y>>[2] = y
    OBVIOUS
<1> QED BY <1>1 DEF Range

\* What a prefix has is there.
LEMMA RangeSubSeq ==
    ASSUME NEW S, NEW s \in Seq(S), NEW n \in 0..Len(s)
    PROVE  SubSeq(s, 1, n) \in Seq(S) /\ Range(SubSeq(s, 1, n)) \subseteq Range(s)
<1> DEFINE u == SubSeq(s, 1, n)
<1>1. Len(s) \in Nat /\ \A i \in 1..n : s[i] \in S
    BY LenProperties, ElementOfSeq
<1>2. /\ u \in Seq(S)
      /\ Len(u) = IF 1 <= n THEN n - 1 + 1 ELSE 0
      /\ \A i \in 1..(n - 1 + 1) : u[i] = s[1 + i - 1]
    BY <1>1, SubSeqProperties
<1> HIDE DEF u
<1>3. Len(u) = n /\ \A i \in 1..n : u[i] = s[i]
    BY <1>1, <1>2
<1>4. Range(s) = {s[i] : i \in 1..Len(s)} /\ Range(u) = {u[i] : i \in 1..n}
    BY <1>2, <1>3, RangeIs
<1>5. 1..n \subseteq 1..Len(s)
    BY <1>1
<1> QED BY <1>2, <1>3, <1>4, <1>5 DEF u

LEMMA KindRange ==
    ASSUME NEW g \in Group, NEW kind
    PROVE  Range(OfKind(g, kind)) = {g[i] : i \in {j \in DOMAIN g : g[j].kind = kind}}
<1> DEFINE T == {item \in Range(g) : item.kind = kind}
<1>1. g \in Seq(Item)
    BY GrammarAssumption
<1>2. T = {g[i] : i \in {j \in DOMAIN g : g[j].kind = kind}}
    BY DEF Range
<1>3. T \subseteq Range(g)
    OBVIOUS
<1> HIDE DEF T
<1>4. Range(Within(g, T)) = Range(g) \cap T
    BY <1>1, WithinProperties
<1>5. OfKind(g, kind) = Within(g, T)
    BY DEF OfKind, T
<1> QED BY <1>2, <1>3, <1>4, <1>5

-----------------------------------------------------------------------------
(* The groups of a query.                                                   *)

LEMMA InnerGroups ==
    ASSUME NEW g \in Group
    PROVE  /\ Inner(g) \subseteq Group
           /\ Inner(g) = Range(OptionalGroups(g)) \cup UNION {Range(u.groups) : u \in Range(OfKind(g, "union"))}
<1> DEFINE Opt == {i \in DOMAIN g : g[i].kind = "optional"}
           Uni == {i \in DOMAIN g : g[i].kind = "union"}
<1>1. /\ \A i \in Opt : GroupsOf(g[i]) = {g[i].group} /\ g[i].group \in Group
      /\ \A i \in Uni : GroupsOf(g[i]) = Range(g[i].groups) /\ Range(g[i].groups) \subseteq Group
      /\ \A i \in DOMAIN g : i \notin Opt \cup Uni => GroupsOf(g[i]) = {}
    BY GroupItems DEF GroupsOf
<1>2. Range(OfKind(g, "union")) = {g[i] : i \in Uni}
    BY KindRange
<1>3. Range(OptionalGroups(g)) = {g[i].group : i \in Opt}
    <2> DEFINE items == OfKind(g, "optional")
    <2>1. Range(items) = {g[i] : i \in Opt}
        BY KindRange
    <2>2. OptionalGroups(g) = [i \in DOMAIN items |-> items[i].group]
        BY DEF OptionalGroups
    <2> HIDE DEF items
    <2>3. Range(OptionalGroups(g)) = {items[i].group : i \in DOMAIN items}
        BY <2>2 DEF Range
    <2>4. {items[i].group : i \in DOMAIN items} = {x.group : x \in Range(items)}
        BY DEF Range
    <2> QED BY <2>1, <2>3, <2>4
<1> HIDE DEF Opt, Uni
<1>4. Opt \subseteq DOMAIN g /\ Uni \subseteq DOMAIN g
    BY DEF Opt, Uni
<1>5. Inner(g) = {g[i].group : i \in Opt} \cup UNION {Range(g[i].groups) : i \in Uni}
    <2>1. ASSUME NEW x, x \in Inner(g) PROVE x \in {g[i].group : i \in Opt} \cup UNION {Range(g[i].groups) : i \in Uni}
        <3>1. PICK i \in DOMAIN g : x \in GroupsOf(g[i])
            BY <2>1 DEF Inner
        <3>2. i \in Opt \cup Uni
            BY <1>1, <3>1
        <3> QED BY <1>1, <3>1, <3>2
    <2>2. ASSUME NEW x, x \in {g[i].group : i \in Opt} \cup UNION {Range(g[i].groups) : i \in Uni} PROVE x \in Inner(g)
        <3>1. PICK i \in Opt \cup Uni : x \in GroupsOf(g[i])
            BY <1>1, <2>2
        <3> QED BY <1>4, <3>1 DEF Inner
    <2> QED BY <2>1, <2>2
<1>6. UNION {Range(u.groups) : u \in Range(OfKind(g, "union"))} = UNION {Range(g[i].groups) : i \in Uni}
    BY <1>2
<1>7. Inner(g) \subseteq Group
    BY <1>1, <1>5
<1> QED BY <1>3, <1>5, <1>6, <1>7

GroupsAre(f) == f = [group \in Group |-> {group} \cup UNION {f[g] : g \in Inner(group)}]

LEMMA GroupsIs == Groups = CHOOSE f : GroupsAre(f)
BY DEF Groups, GroupsAre

LEMMA GroupsExist == \E f \in [Group -> SUBSET Group] : GroupsAre(f)
<1> DEFINE V == SUBSET Group
           inside(g, f) == {g} \cup UNION {f[h] : h \in Inner(g)}
           D == [p \in Group \X [Group -> V] |-> inside(p[1], p[2])]
<1>1. V # {}
    OBVIOUS
<1>2. ASSUME NEW g \in Group, NEW f \in [Group -> V] PROVE inside(g, f) \in V
    <2>1. \A h \in Inner(g) : f[h] \in V
        BY InnerGroups
    <2> QED BY <2>1
<1>3. D \in [Group \X [Group -> V] -> V] /\ \A g \in Group : \A f \in [Group -> V] : D[<<g, f>>] = inside(g, f)
    <2> HIDE DEF V, inside
    <2> QED BY <1>2
<1>4. ASSUME NEW g \in Group, NEW f \in [Group -> V], NEW h \in [Group -> V],
             \A y \in Group : GroupDepth[y] < GroupDepth[g] => f[y] = h[y]
      PROVE  inside(g, f) = inside(g, h)
    <2>1. \A y \in Inner(g) : f[y] = h[y]
        BY <1>4, InnerGroups, DepthAssumption
    <2>2. {f[y] : y \in Inner(g)} = {h[y] : y \in Inner(g)}
        BY <2>1
    <2> QED BY <2>2
<1> HIDE DEF D, inside
<1>5. LooksDown(Group, V, GroupDepth, D)
    <2>1. \A g \in Group : \A f, h \in [Group -> V] :
              (\A y \in Group : GroupDepth[y] < GroupDepth[g] => f[y] = h[y]) => D[<<g, f>>] = D[<<g, h>>]
        <3> SUFFICES ASSUME NEW g \in Group, NEW f \in [Group -> V], NEW h \in [Group -> V],
                            \A y \in Group : GroupDepth[y] < GroupDepth[g] => f[y] = h[y]
                     PROVE  D[<<g, f>>] = D[<<g, h>>]
            OBVIOUS
        <3>1. inside(g, f) = inside(g, h)
            BY <1>4
        <3> QED BY <3>1, <1>3
    <2> HIDE DEF V
    <2> QED BY <2>1, <1>1, <1>3, DepthAssumption DEF LooksDown
<1>6. \E f \in [Group -> V] : \A g \in Group : f[g] = D[<<g, f>>]
    BY <1>5, Recursion
<1>7. PICK f \in [Group -> V] : \A g \in Group : f[g] = D[<<g, f>>]
    BY <1>6
<1>8. f = [g \in Group |-> inside(g, f)]
    BY <1>3, <1>7
<1> QED BY <1>8 DEF GroupsAre, inside

LEMMA GroupsOfGroup ==
    ASSUME NEW g \in Group
    PROVE  Groups[g] = {g} \cup UNION {Groups[h] : h \in Inner(g)} /\ Groups[g] \subseteq Group
<1> DEFINE f == CHOOSE f : GroupsAre(f)
           D(h) == {h} \cup UNION {f[y] : y \in Inner(h)}
<1>1. GroupsAre(f)
    BY GroupsExist
<1>2. Groups = f
    BY GroupsIs
<1> HIDE DEF f
<1>3. \A h \in Group : f[h] = D(h)
    BY <1>1 DEF GroupsAre
<1> DEFINE P == {n \in Nat : \A h \in Group : GroupDepth[h] < n => f[h] \subseteq Group}
<1>4. 0 \in P
    BY DepthAssumption
<1>5. ASSUME NEW n \in Nat, n \in P PROVE n + 1 \in P
    <2> SUFFICES ASSUME NEW h \in Group, GroupDepth[h] < n + 1 PROVE f[h] \subseteq Group
        OBVIOUS
    <2>1. \A y \in Inner(h) : y \in Group /\ GroupDepth[y] < GroupDepth[h]
        BY InnerGroups, DepthAssumption
    <2>2. \A y \in Inner(h) : GroupDepth[y] < n
        BY <2>1, DepthAssumption
    <2>3. \A y \in Inner(h) : f[y] \subseteq Group
        BY <1>5, <2>1, <2>2
    <2> QED BY <1>3, <2>3
<1>6. Nat \subseteq P
    <2> HIDE DEF P
    <2> QED BY <1>4, <1>5, SetInduction
<1>7. GroupDepth[g] + 1 \in Nat /\ GroupDepth[g] < GroupDepth[g] + 1
    BY DepthAssumption
<1>8. GroupDepth[g] + 1 \in P
    BY <1>6, <1>7
<1> QED BY <1>2, <1>3, <1>7, <1>8

\* A group is not inside of itself.
LEMMA GroupsAreInside ==
    ASSUME NEW g \in Group, NEW h \in Inner(g)
    PROVE  /\ h \in Group
           /\ \A x \in Groups[h] : x \in Groups[g] \ {g}
<1>1. h \in Group /\ Groups[h] \subseteq Groups[g] /\ GroupDepth[h] < GroupDepth[g]
    BY InnerGroups, GroupsOfGroup, DepthAssumption
<1> DEFINE P == {n \in Nat : \A y \in Group : GroupDepth[y] < n => \A x \in Groups[y] : GroupDepth[x] <= GroupDepth[y]}
<1>2. 0 \in P
    BY DepthAssumption
<1>3. ASSUME NEW n \in Nat, n \in P PROVE n + 1 \in P
    <2> SUFFICES ASSUME NEW y \in Group, GroupDepth[y] < n + 1, NEW x \in Groups[y] PROVE GroupDepth[x] <= GroupDepth[y]
        OBVIOUS
    <2>1. CASE x = y
        BY <2>1, DepthAssumption
    <2>2. CASE x # y
        <3>1. PICK z \in Inner(y) : x \in Groups[z]
            BY <2>2, GroupsOfGroup
        <3>2. z \in Group /\ GroupDepth[z] < GroupDepth[y] /\ x \in Group
            BY <3>1, InnerGroups, GroupsOfGroup, DepthAssumption
        <3>3. GroupDepth[z] < n
            BY <3>2, DepthAssumption
        <3>4. GroupDepth[x] <= GroupDepth[z]
            BY <1>3, <3>1, <3>2, <3>3
        <3> QED BY <3>2, <3>4, DepthAssumption
    <2> QED BY <2>1, <2>2
<1>4. Nat \subseteq P
    <2> HIDE DEF P
    <2> QED BY <1>2, <1>3, SetInduction
<1>5. GroupDepth[h] + 1 \in P /\ GroupDepth[h] < GroupDepth[h] + 1
    BY <1>1, <1>4, DepthAssumption
<1>6. ASSUME NEW x \in Groups[h] PROVE x # g
    <2>1. GroupDepth[x] <= GroupDepth[h] /\ GroupDepth[x] \in Nat
        BY <1>1, <1>5, GroupsOfGroup, DepthAssumption
    <2> QED BY <1>1, <2>1, DepthAssumption
<1> QED BY <1>1, <1>6

-----------------------------------------------------------------------------
(* What is fine if the terms in T are, and the verbs in V.                  *)

FineTriples(T, V) == {ts \in SameSubject : \/ ts.subject[1] = "node"
                                           \/ TermsOf(ts) \subseteq T /\ VerbsOf(ts) \subseteq V}
FineBlocks(T, V)  == {b \in Blocks : Range(b.tss) \subseteq FineTriples(T, V)}
FineAlone(T, V)   == {g \in Group : ~IsSubquery(g) /\ Range(OfKind(g, "block")) \subseteq FineBlocks(T, V)}
FineGroups(T, V)  == {g \in Group : Groups[g] \subseteq FineAlone(T, V)}
FineUnions(T, V)  == {u \in Unions : Range(u.groups) \subseteq FineGroups(T, V)}

LEMMA FineGroupIs ==
    ASSUME NEW T, NEW V, NEW g \in Group
    PROVE  g \in FineGroups(T, V) <=>
               /\ g \in FineAlone(T, V)
               /\ Range(OptionalGroups(g)) \subseteq FineGroups(T, V)
               /\ Range(OfKind(g, "union")) \subseteq FineUnions(T, V)
<1> DEFINE A == FineAlone(T, V)
           F == FineGroups(T, V)
<1>1. F = {h \in Group : Groups[h] \subseteq A}
    BY DEF FineGroups
<1>2. Groups[g] = {g} \cup UNION {Groups[h] : h \in Inner(g)} /\ Inner(g) \subseteq Group
    BY GroupsOfGroup, InnerGroups
<1> HIDE DEF A, F
<1>3. g \in F <=> g \in A /\ Inner(g) \subseteq F
    BY <1>1, <1>2
<1>4. Range(OfKind(g, "union")) \subseteq FineUnions(T, V)
          <=> \A u \in Range(OfKind(g, "union")) : Range(u.groups) \subseteq F
    <2>1. OfKind(g, "union") \in Seq(Unions)
        BY KindTypes
    <2>2. Range(OfKind(g, "union")) \subseteq Unions
        BY <2>1, RangeIs
    <2> QED BY <2>2 DEF FineUnions, F
<1>5. Inner(g) = Range(OptionalGroups(g)) \cup UNION {Range(u.groups) : u \in Range(OfKind(g, "union"))}
    BY InnerGroups
<1> QED BY <1>3, <1>4, <1>5 DEF A, F

-----------------------------------------------------------------------------
(* Stacks whose levels have only elements of F.                             *)

EachIn(s, F) == \A l \in 1..Len(s) : Range(s[l]) \subseteq F
TopIn(s, F)  == s # <<>> => Range(Top(s)) \subseteq F

LEMMA EachInEmpty == \A F : EachIn(<<>>, F) /\ TopIn(<<>>, F)
<1> TAKE F
<1>1. 1..Len(<<>>) = {}
    BY EmptySeq
<1> QED BY <1>1 DEF EachIn, TopIn

LEMMA EachInTop ==
    ASSUME NEW S, NEW s \in Seq(Seq(S)), NEW F, EachIn(s, F)
    PROVE  TopIn(s, F)
<1>1. CASE s # <<>>
    <2>1. Len(s) \in 1..Len(s)
        BY <1>1, EmptySeq
    <2> QED BY <2>1 DEF EachIn, TopIn, Top
<1> QED BY <1>1 DEF TopIn

LEMMA EachInAdd ==
    ASSUME NEW S, NEW s \in Seq(Seq(S)), s # <<>>, NEW t \in Seq(S), NEW F
    PROVE  /\ EachIn(AddTop(s, t), F) <=> EachIn(s, F) /\ Range(t) \subseteq F
           /\ TopIn(AddTop(s, t), F) <=> TopIn(s, F) /\ Range(t) \subseteq F
           /\ Range(Top(AddTop(s, t))) = Range(Top(s)) \cup Range(t)
<1>0. /\ AddTop(s, t) # <<>> /\ Len(AddTop(s, t)) = Len(s)
      /\ Range(AddTop(s, t)[Len(s)]) = Range(Top(s)) \cup Range(t)
      /\ \A i \in 1..(Len(s) - 1) : AddTop(s, t)[i] = s[i]
    BY ZenonT(120), AddTopProperties
<1> DEFINE u == AddTop(s, t)
           n == Len(s)
<1>1. /\ u # <<>> /\ Len(u) = n /\ Range(u[n]) = Range(Top(s)) \cup Range(t)
      /\ \A i \in 1..(n - 1) : u[i] = s[i]
    BY <1>0
<1>2. n \in Nat \ {0} /\ Top(s) = s[n]
    BY EmptySeq DEF Top
<1> HIDE DEF u, n
<1>3. Top(u) = u[n] /\ Len(s) = n
    BY <1>1 DEF Top, n
<1>4. 1..n = (1..(n - 1)) \cup {n}
    BY <1>2
<1> DEFINE E(x) == Range(x) \subseteq F
<1>5. E(u[n]) <=> E(s[n]) /\ E(t)
    BY <1>1, <1>2
<1>6. EachIn(u, F) <=> E(u[n]) /\ \A i \in 1..(n - 1) : E(u[i])
    BY <1>1, <1>4 DEF EachIn
<1>7. EachIn(s, F) <=> E(s[n]) /\ \A i \in 1..(n - 1) : E(s[i])
    BY <1>3, <1>4 DEF EachIn
<1>8. TopIn(u, F) <=> E(u[n])
    BY <1>1, <1>3 DEF TopIn
<1>9. TopIn(s, F) <=> E(s[n])
    BY <1>2 DEF TopIn
<1> HIDE DEF E
<1>10. EachIn(u, F) <=> EachIn(s, F) /\ E(t)
    BY <1>1, <1>5, <1>6, <1>7
<1> QED BY <1>1, <1>3, <1>5, <1>8, <1>9, <1>10 DEF E, u

LEMMA EachInPush ==
    ASSUME NEW S, NEW s \in Seq(Seq(S)), NEW F
    PROVE  EachIn(Push(s, <<>>), F) <=> EachIn(s, F)
<1> DEFINE T == Seq(S)
           e == <<>>
<1>1. s \in Seq(T) /\ e \in T /\ Range(e) = {}
    BY RangeEmpty, EmptySeq
<1> HIDE DEF T, e
<1> DEFINE u == Push(s, e)
           n == Len(s)
<1>2. Len(u) = n + 1 /\ u[n + 1] = e /\ n \in Nat /\ \A i \in 1..n : u[i] = s[i]
    BY <1>1, AppendFacts, LenProperties
<1> HIDE DEF u
<1>3. 1..(n + 1) = (1..n) \cup {n + 1}
    BY <1>2
<1>4. EachIn(u, F) <=> EachIn(s, F)
    BY <1>1, <1>2, <1>3 DEF EachIn
<1> QED BY <1>4 DEF u, e

LEMMA EachInPop ==
    ASSUME NEW S, NEW s \in Seq(Seq(S)), s # <<>>, NEW F
    PROVE  EachIn(s, F) <=> EachIn(Pop(s), F) /\ TopIn(s, F)
<1> DEFINE T == Seq(S)
           u == Pop(s)
           n == Len(s)
<1>1. s \in Seq(T)
    OBVIOUS
<1> HIDE DEF T
<1>2. Len(u) = n - 1 /\ \A i \in 1..(n - 1) : u[i] = s[i]
    BY <1>1, PopProperties
<1>3. n \in Nat \ {0} /\ Top(s) = s[n]
    BY EmptySeq DEF Top
<1> HIDE DEF u
<1>4. 1..n = (1..(n - 1)) \cup {n}
    BY <1>3
<1>5. EachIn(s, F) <=> EachIn(u, F) /\ TopIn(s, F)
    BY <1>2, <1>3, <1>4 DEF EachIn, TopIn
<1> QED BY <1>5 DEF u

LEMMA EachInCut ==
    ASSUME NEW S, NEW s \in Seq(Seq(S)), s # <<>>, NEW k \in 0..Len(Top(s)), NEW F, EachIn(s, F)
    PROVE  EachIn(SetTop(s, SubSeq(Top(s), 1, k)), F)
<1> DEFINE T == Seq(S)
           t == Top(s)
           x == SubSeq(t, 1, k)
           n == Len(s)
<1>1. s \in Seq(T)
    OBVIOUS
<1>2. t \in Seq(S) /\ n \in Nat \ {0} /\ t = s[n]
    BY TopProperties
<1> HIDE DEF t
<1>3. x \in Seq(S) /\ Range(x) \subseteq Range(t)
    BY <1>2, RangeSubSeq DEF t
<1>4. x \in T
    BY <1>3
<1> HIDE DEF T, x
<1> DEFINE u == SetTop(s, x)
<1>5. Len(u) = n /\ u[n] = x /\ \A i \in 1..(n - 1) : u[i] = s[i]
    BY <1>1, <1>4, SetTopProperties
<1> HIDE DEF u
<1>6. 1..n = (1..(n - 1)) \cup {n}
    BY <1>2
<1>7. EachIn(u, F)
    BY <1>2, <1>3, <1>5, <1>6 DEF EachIn
<1> QED BY <1>7 DEF u, x, t

-----------------------------------------------------------------------------
(* Calls.                                                                   *)

FineCall(T, V, c) ==
    /\ c.visit = "block" => c.arg \in FineBlocks(T, V)
    /\ c.visit = "subject" => c.arg \in FineTriples(T, V)
    /\ c.visit = "property" => c.arg.verb \in V /\ Range(c.arg.objects) \subseteq T
    /\ c.visit = "verb" => c.arg \in V
    /\ c.visit = "object" => c.arg \in T
    /\ c.visit \in {"where", "optional"} => c.arg \in FineGroups(T, V)
    /\ c.visit = "pattern" => /\ c.arg.group \in FineGroups(T, V)
                              /\ Range(c.arg.gous) \subseteq FineUnions(T, V)
FineCalls(T, V) == {c \in Frame : FineCall(T, V, c)}

LEMMA FineArgs ==
    ASSUME NEW T, NEW V
    PROVE  /\ \A x \in Blocks : Call("block", x) \in FineCalls(T, V) <=> x \in FineBlocks(T, V)
           /\ \A x \in SameSubject : Call("subject", x) \in FineCalls(T, V) <=> x \in FineTriples(T, V)
           /\ \A x \in Properties : Call("property", x) \in FineCalls(T, V)
                                        <=> x.verb \in V /\ Range(x.objects) \subseteq T
           /\ \A x \in Verb : Call("verb", x) \in FineCalls(T, V) <=> x \in V
           /\ \A x \in Term : Call("object", x) \in FineCalls(T, V) <=> x \in T
           /\ \A x \in Group : Call("optional", x) \in FineCalls(T, V) <=> x \in FineGroups(T, V)
           /\ \A x \in Group : Call("where", x) \in FineCalls(T, V) <=> x \in FineGroups(T, V)
           /\ \A g \in Group, us \in Seq(Unions) :
                  Call("pattern", [group |-> g, gous |-> us]) \in FineCalls(T, V)
                      <=> g \in FineGroups(T, V) /\ Range(us) \subseteq FineUnions(T, V)
BY DEF Call, Frame, FineCalls, FineCall

LEMMA FineOthers ==
    ASSUME NEW T, NEW V, NEW c \in Frame,
           c.visit \in {"prefix", "select", "variable", "resize", "depend", "close", "leave", "end"}
    PROVE  c \in FineCalls(T, V)
BY DEF FineCalls, FineCall

\* The calls of f for what is in S are fine for what is in F.
Meets(T, V, f, S, F) == \A x \in S : Call(f, x) \in Frame /\ (Call(f, x) \in FineCalls(T, V) <=> x \in F)

LEMMA FineEach ==
    ASSUME NEW T, NEW V, NEW f, NEW S, NEW F, Meets(T, V, f, S, F), NEW args \in Seq(S)
    PROVE  /\ Calls(f, args) \in Seq(Frame)
           /\ Range(Calls(f, args)) \subseteq FineCalls(T, V) <=> Range(args) \subseteq F
           /\ \A i \in 1..Len(Calls(f, args)) : Calls(f, args)[i].visit = f
<1>0. \A x \in S : Call(f, x) \in Frame /\ (Call(f, x) \in FineCalls(T, V) <=> x \in F)
    BY DEF Meets
<1>1. Calls(f, args) \in Seq(Frame) /\ \A i \in 1..Len(Calls(f, args)) : Calls(f, args)[i].visit = f
    BY <1>0, CallsAreFrames
<1>2. Range(Calls(f, args)) = {Call(f, x) : x \in Range(args)}
    BY RangeCalls
<1>3. Range(args) \subseteq S
    BY RangeIs
<1> HIDE DEF Call
<1>4. Range(Calls(f, args)) \subseteq FineCalls(T, V) <=> \A x \in Range(args) : Call(f, x) \in FineCalls(T, V)
    BY <1>2
<1> QED BY <1>0, <1>1, <1>3, <1>4

LEMMA FineMeets ==
    ASSUME NEW T, NEW V
    PROVE  /\ Meets(T, V, "block", Blocks, FineBlocks(T, V))
           /\ Meets(T, V, "subject", SameSubject, FineTriples(T, V))
           /\ Meets(T, V, "property", Properties, {p \in Properties : p.verb \in V /\ Range(p.objects) \subseteq T})
           /\ Meets(T, V, "object", Term, T)
           /\ Meets(T, V, "optional", Group, FineGroups(T, V))
<1>1. \A x \in Blocks : Call("block", x) \in Frame
    BY DEF Call, Frame
<1>2. \A x \in SameSubject : Call("subject", x) \in Frame
    BY DEF Call, Frame
<1>3. \A x \in Properties : Call("property", x) \in Frame
    BY DEF Call, Frame
<1>4. \A x \in Term : Call("object", x) \in Frame
    BY DEF Call, Frame
<1>5. \A x \in Group : Call("optional", x) \in Frame
    BY DEF Call, Frame
<1> HIDE DEF Call
<1> QED BY <1>1, <1>2, <1>3, <1>4, <1>5, FineArgs DEF Meets

-----------------------------------------------------------------------------
(* The calls of a conjunction go on to its end.                             *)

Inward  == {"block", "subject", "property", "verb", "object"}
Onward  == Inward \cup {"depend"}
Settled == {"resize", "optional", "close", "leave", "end"}

\* Behind a call for a part of a triple is another one, or the end of the
\* conjunction.
Follows(s) == \A i \in 1..Len(s) : s[i].visit \in Inward =>
                  i + 1 \in 1..Len(s) /\ s[i + 1].visit \in Onward

LEMMA FollowsNone ==
    ASSUME NEW s, \A i \in 1..Len(s) : s[i].visit \notin Inward
    PROVE  Follows(s)
BY DEF Follows

LEMMA FollowsTail ==
    ASSUME NEW s \in Seq(Frame), s # <<>>, Follows(s)
    PROVE  /\ Follows(Tail(s))
           /\ Head(s).visit \in Inward => Tail(s) # <<>> /\ Head(Tail(s)).visit \in Onward
<1> DEFINE t == Tail(s)
           n == Len(s) - 1
<1>1. /\ n \in Nat /\ Len(s) = n + 1 /\ t \in Seq(Frame) /\ Len(t) = n /\ Head(s) = s[1]
      /\ \A i \in 1..n : t[i] = s[i + 1]
    BY EmptySeq, HeadTailProperties
<1> HIDE DEF t, n
<1>2. \A i \in 1..(n + 1) : s[i].visit \in Inward => i + 1 \in 1..(n + 1) /\ s[i + 1].visit \in Onward
    BY <1>1 DEF Follows
<1>3. ASSUME NEW i \in 1..n, t[i].visit \in Inward PROVE i + 1 \in 1..n /\ t[i + 1].visit \in Onward
    <2>1. i + 1 \in 1..(n + 1) /\ t[i] = s[i + 1]
        BY <1>1
    <2>2. i + 1 + 1 \in 1..(n + 1) /\ s[i + 1 + 1].visit \in Onward
        BY <1>2, <1>3, <2>1
    <2>3. i + 1 \in 1..n
        BY <1>1, <2>2
    <2> QED BY <1>1, <2>2, <2>3
<1>4. Follows(t)
    BY <1>1, <1>3 DEF Follows
<1>5. ASSUME Head(s).visit \in Inward PROVE t # <<>> /\ Head(t).visit \in Onward
    <2>1. 1 \in 1..(n + 1)
        BY <1>1
    <2>2. 1 + 1 \in 1..(n + 1) /\ s[1 + 1].visit \in Onward
        BY <1>1, <1>2, <1>5, <2>1
    <2>3. 1 \in 1..n
        BY <1>1, <2>2
    <2>4. t # <<>>
        BY <1>1, <2>3, EmptySeq
    <2>5. Head(t) = t[1]
        BY <1>1, <2>4, HeadTailProperties
    <2> QED BY <1>1, <2>2, <2>3, <2>4, <2>5
<1> QED BY <1>4, <1>5 DEF t

LEMMA FollowsJoin ==
    ASSUME NEW s \in Seq(Frame), NEW t \in Seq(Frame), Follows(s), Follows(t)
    PROVE  s \o t \in Seq(Frame) /\ Follows(s \o t)
<1> DEFINE u == s \o t
           m == Len(s)
           n == Len(t)
<1>1. /\ u \in Seq(Frame) /\ Len(u) = m + n /\ m \in Nat /\ n \in Nat
      /\ \A i \in 1..(m + n) : u[i] = IF i <= m THEN s[i] ELSE t[i - m]
    BY ConcatProperties, LenProperties
<1> HIDE DEF u
<1>2. ASSUME NEW i \in 1..(m + n), u[i].visit \in Inward PROVE i + 1 \in 1..(m + n) /\ u[i + 1].visit \in Onward
    <2>1. CASE i <= m
        <3>1. i \in 1..m /\ s[i].visit \in Inward
            BY <1>1, <1>2, <2>1
        <3>2. i + 1 \in 1..m /\ s[i + 1].visit \in Onward
            BY <3>1 DEF Follows
        <3>3. i + 1 \in 1..(m + n) /\ i + 1 <= m
            BY <1>1, <3>2
        <3>4. u[i + 1] = s[i + 1]
            BY <1>1, <3>3
        <3> QED BY <3>2, <3>3, <3>4
    <2>2. CASE ~(i <= m)
        <3>1. i - m \in 1..n /\ t[i - m].visit \in Inward
            BY <1>1, <1>2, <2>2
        <3>2. i - m + 1 \in 1..n /\ t[i - m + 1].visit \in Onward
            BY <3>1 DEF Follows
        <3>3. i + 1 \in 1..(m + n) /\ ~(i + 1 <= m) /\ i + 1 - m = i - m + 1
            BY <1>1, <2>2, <3>2
        <3>4. u[i + 1] = t[i + 1 - m]
            BY <1>1, <3>3
        <3> QED BY <3>2, <3>3, <3>4
    <2> QED BY <2>1, <2>2
<1>3. Follows(u)
    BY <1>1, <1>2 DEF Follows
<1> QED BY <1>1, <1>3 DEF u

LEMMA ConcatNone ==
    ASSUME NEW S, NEW t \in Seq(S)
    PROVE  <<>> \o t = t
<1>1. <<>> \in Seq(S) /\ Len(<<>>) = 0
    BY EmptySeq
<1>2. /\ <<>> \o t \in Seq(S) /\ Len(<<>> \o t) = Len(t) /\ Len(t) \in Nat
      /\ \A i \in 1..Len(t) : (<<>> \o t)[i] = t[i]
    <2> DEFINE e == <<>>
    <2>1. e \in Seq(S) /\ Len(e) = 0 /\ Len(t) \in Nat
        BY <1>1, LenProperties
    <2> HIDE DEF e
    <2>2. /\ e \o t \in Seq(S) /\ Len(e \o t) = Len(e) + Len(t)
          /\ \A i \in 1..(Len(e) + Len(t)) : (e \o t)[i] = IF i <= Len(e) THEN e[i] ELSE t[i - Len(e)]
        BY <2>1, ConcatProperties
    <2>3. Len(e \o t) = Len(t)
        BY <2>1, <2>2
    <2>4. \A i \in 1..Len(t) : (e \o t)[i] = t[i]
        BY <2>1, <2>2
    <2> QED BY <2>1, <2>2, <2>3, <2>4 DEF e
<1> QED BY <1>2, SeqEqual

LEMMA HeadOfConcat ==
    ASSUME NEW S, NEW s \in Seq(S), NEW t \in Seq(S), s # <<>>
    PROVE  s \o t # <<>> /\ Head(s \o t) = Head(s)
<1> DEFINE u == s \o t
<1>1. /\ u \in Seq(S) /\ Len(u) = Len(s) + Len(t) /\ Len(s) \in Nat \ {0} /\ Len(t) \in Nat
      /\ \A i \in 1..(Len(s) + Len(t)) : u[i] = IF i <= Len(s) THEN s[i] ELSE t[i - Len(s)]
    BY ConcatProperties, LenProperties, EmptySeq
<1> HIDE DEF u
<1>2. u # <<>> /\ u[1] = s[1]
    BY <1>1, EmptySeq
<1>3. Head(u) = u[1] /\ Head(s) = s[1]
    BY <1>1, <1>2, HeadTailProperties
<1> QED BY <1>2, <1>3 DEF u

\* Calls for parts of triples go on to what follows.
LEMMA FollowsInward ==
    ASSUME NEW s \in Seq(Frame), \A i \in 1..Len(s) : s[i].visit \in Inward,
           NEW t \in Seq(Frame), Follows(t), t # <<>>, Head(t).visit \in Onward
    PROVE  /\ s \o t \in Seq(Frame) /\ Follows(s \o t)
           /\ s \o t # <<>> /\ Head(s \o t).visit \in Onward
<1> DEFINE u == s \o t
           m == Len(s)
           n == Len(t)
<1>1. /\ u \in Seq(Frame) /\ Len(u) = m + n /\ m \in Nat /\ n \in Nat \ {0}
      /\ \A i \in 1..(m + n) : u[i] = IF i <= m THEN s[i] ELSE t[i - m]
    BY ConcatProperties, LenProperties, EmptySeq
<1>2. Head(t) = t[1]
    BY HeadTailProperties
<1> HIDE DEF u, m, n
<1>3. /\ \A i \in 1..m : s[i].visit \in Inward
      /\ \A i \in 1..n : t[i].visit \in Inward => i + 1 \in 1..n /\ t[i + 1].visit \in Onward
    BY DEF Follows, m, n
<1>4. \A i \in 1..(m + 1) : i \in 1..(m + n) /\ u[i].visit \in Onward
    <2> TAKE i \in 1..(m + 1)
    <2>1. i \in 1..(m + n)
        BY <1>1
    <2>2. CASE i <= m
        BY <1>1, <1>3, <2>1, <2>2 DEF Onward
    <2>3. CASE ~(i <= m)
        <3>1. i - m = 1
            BY <1>1, <2>3
        <3> QED BY <1>1, <1>2, <2>1, <2>3, <3>1
    <2> QED BY <2>1, <2>2, <2>3
<1>5. ASSUME NEW i \in 1..(m + n), u[i].visit \in Inward PROVE i + 1 \in 1..(m + n) /\ u[i + 1].visit \in Onward
    <2>1. CASE i <= m
        <3>1. i + 1 \in 1..(m + 1)
            BY <1>1, <2>1
        <3> QED BY <1>4, <3>1
    <2>2. CASE ~(i <= m)
        <3>1. i - m \in 1..n /\ t[i - m].visit \in Inward
            BY <1>1, <1>5, <2>2
        <3>2. i - m + 1 \in 1..n /\ t[i - m + 1].visit \in Onward
            BY <1>3, <3>1
        <3>3. i + 1 \in 1..(m + n) /\ ~(i + 1 <= m) /\ i + 1 - m = i - m + 1
            BY <1>1, <2>2, <3>2
        <3>4. u[i + 1] = t[i + 1 - m]
            BY <1>1, <3>3
        <3> QED BY <3>2, <3>3, <3>4
    <2> QED BY <2>1, <2>2
<1>6. Follows(u)
    BY <1>1, <1>5 DEF Follows
<1>7. u # <<>>
    BY <1>1, EmptySeq
<1>8. Head(u).visit \in Onward
    <2>1. Head(u) = u[1] /\ 1 \in 1..(m + 1)
        BY <1>1, <1>7, HeadTailProperties
    <2> QED BY <1>4, <2>1
<1> QED BY <1>1, <1>6, <1>7, <1>8 DEF u

-----------------------------------------------------------------------------
(* What the calls and the stacks say of the query.                          *)

AllFine(T, V)    == Range(visits) \subseteq FineCalls(T, V)
FineLevels(T, V) == /\ EachIn(triples_blocks, FineBlocks(T, V))
                    /\ EachIn(optional_blocks, FineGroups(T, V))
FineTop(T, V)    == /\ TopIn(triples_blocks, FineBlocks(T, V))
                    /\ TopIn(optional_blocks, FineGroups(T, V))

\* What is still to be done is fine if and only if the group is, where it says so:
\* of what has been collected for a conjunction there may be a call yet to come.
Toward(T, V, g) ==
    /\ AllFine(T, V) /\ FineTop(T, V) => FineLevels(T, V) /\ g \in FineGroups(T, V)
    /\ g \in FineGroups(T, V) => AllFine(T, V) /\ FineLevels(T, V)
    /\ visits # <<>> /\ AllFine(T, V) =>
           /\ Head(visits).visit \in Onward => TopIn(triples_blocks, FineBlocks(T, V))
           /\ Head(visits).visit \in Settled => FineTop(T, V)

Course(T, V, g) == Follows(visits) /\ Toward(T, V, g)

LEMMA StackTypes ==
    ASSUME GraphType
    PROVE  /\ triples_blocks \in Seq(Seq(Blocks)) /\ optional_blocks \in Seq(Seq(Group))
           /\ visits \in Seq(Frame)
BY DEF GraphType, StacksType, CallsType

LEMMA FineTops ==
    ASSUME GraphType, NEW T, NEW V, FineLevels(T, V)
    PROVE  FineTop(T, V)
BY StackTypes, EachInTop DEF FineLevels, FineTop

\* Where nothing is open, all is said.
LEMMA SettledIs ==
    ASSUME GraphType, NEW T, NEW V, NEW g,
           AllFine(T, V) => FineLevels(T, V) /\ g \in FineGroups(T, V),
           g \in FineGroups(T, V) => AllFine(T, V) /\ FineLevels(T, V)
    PROVE  Toward(T, V, g)
<1>1. FineLevels(T, V) => FineTop(T, V)
    BY FineTops
<1>2. FineTop(T, V) => TopIn(triples_blocks, FineBlocks(T, V))
    BY DEF FineTop
<1> QED BY <1>1, <1>2 DEF Toward

\* The calls there are, the first and the others.
LEMMA AllFineIs ==
    ASSUME Shape, NEW f, Calling(f), NEW T, NEW V
    PROVE  /\ AllFine(T, V) <=> Head(visits) \in FineCalls(T, V) /\ Range(Tail(visits)) \subseteq FineCalls(T, V)
           /\ visits # <<>> /\ visits \in Seq(Frame) /\ Tail(visits) \in Seq(Frame) /\ Head(visits).visit = f
           /\ Head(visits) \in Frame
<1>1. visits # <<>> /\ visits \in Seq(Frame) /\ Tail(visits) \in Seq(Frame) /\ Head(visits).visit = f
      /\ Head(visits) \in Frame
    BY CallOf DEF Shape, GraphType, CallsType
<1>2. Range(visits) = {Head(visits)} \cup Range(Tail(visits))
    BY <1>1, RangeHead
<1> QED BY <1>1, <1>2 DEF AllFine

LEMMA ReturnDoes ==
    ASSUME Shape, NEW f, Calling(f), Return
    PROVE  Do(<<>>)
<1>1. Tail(visits) \in Seq(Frame)
    BY CallOf
<1>2. <<>> \o Tail(visits) = Tail(visits)
    BY <1>1, ConcatNone
<1> QED BY <1>2 DEF Do, Return

LEMMA DoneCalls ==
    ASSUME Shape, NEW f, Calling(f), NEW s \in Seq(Frame), Do(s), NEW T, NEW V
    PROVE  AllFine(T, V)' <=> Range(s) \subseteq FineCalls(T, V) /\ Range(Tail(visits)) \subseteq FineCalls(T, V)
<1>1. Tail(visits) \in Seq(Frame)
    BY CallOf
<1>2. Range(visits') = Range(s) \cup Range(Tail(visits))
    <2> DEFINE t == Tail(visits)
    <2>1. visits' = s \o t
        BY DEF Do
    <2> HIDE DEF t
    <2> QED BY <1>1, <2>1, RangeConcat DEF t
<1>3. AllFine(T, V)' <=> Range(visits') \subseteq FineCalls(T, V)
    BY DEF AllFine, FineCalls, FineCall
<1> QED BY <1>2, <1>3

\* A call for a part of a triple does others of its kind that are fine if and only
\* if it is.
LEMMA InwardGoes ==
    ASSUME Shape, NEW CONSTANT T, NEW CONSTANT V, NEW CONSTANT g, Course(T, V, g),
           NEW f \in Inward, Calling(f), NEW s \in Seq(Frame), Do(s),
           \A i \in 1..Len(s) : s[i].visit \in Inward,
           Range(s) \subseteq FineCalls(T, V) <=> Head(visits) \in FineCalls(T, V),
           triples_blocks' = triples_blocks, optional_blocks' = optional_blocks
    PROVE  Course(T, V, g)'
<1> DEFINE t == Tail(visits)
<1>1. visits # <<>> /\ visits \in Seq(Frame) /\ t \in Seq(Frame) /\ Head(visits).visit = f
    BY AllFineIs
<1>2. Follows(t) /\ t # <<>> /\ Head(t).visit \in Onward
    BY <1>1, FollowsTail DEF Course
<1>3. visits' = s \o t
    BY DEF Do
<1> HIDE DEF t
<1>4. Follows(visits') /\ visits' # <<>> /\ Head(visits').visit \in Onward
    BY <1>1, <1>2, <1>3, FollowsInward
<1>5. AllFine(T, V)' <=> AllFine(T, V)
    BY AllFineIs, DoneCalls
<1>6. FineLevels(T, V)' <=> FineLevels(T, V)
    BY DEF FineLevels
<1>7. FineTop(T, V)' <=> FineTop(T, V)
    BY DEF FineTop
<1>8. TopIn(triples_blocks, FineBlocks(T, V))' <=> TopIn(triples_blocks, FineBlocks(T, V))
    OBVIOUS
<1>9. Head(visits').visit \notin Settled
    BY <1>4 DEF Settled, Onward, Inward
<1>10. f \in Onward
    BY DEF Onward
<1>11. Toward(T, V, g)'
    <2>1. /\ AllFine(T, V) /\ FineTop(T, V) => FineLevels(T, V) /\ g \in FineGroups(T, V)
          /\ g \in FineGroups(T, V) => AllFine(T, V) /\ FineLevels(T, V)
          /\ AllFine(T, V) => TopIn(triples_blocks, FineBlocks(T, V))
        BY <1>1, <1>10 DEF Course, Toward
    <2> QED BY <1>4, <1>5, <1>6, <1>7, <1>8, <1>9, <2>1 DEF Toward
<1> QED BY <1>4, <1>11 DEF Course

\* What the visitors do not reject is in T and V.
Judges(D, T, V) ==
    /\ \A t \in Term : ~Failed(visitVarOrTerm(D, t)) => t \in T
    /\ \A v \in Verb : /\ ~IsNested(v) /\ ~Failed(visitVerb(D, v)) => v \in V
                       /\ IsNested(v) => (v \in V <=> Primary(v[2]) \in V)

LEMMA HeadFine ==
    ASSUME Shape, NEW f, Calling(f), NEW T, NEW V
    PROVE  /\ f = "block" => (Head(visits) \in FineCalls(T, V) <=> Arg \in FineBlocks(T, V))
           /\ f = "subject" => (Head(visits) \in FineCalls(T, V) <=> Arg \in FineTriples(T, V))
           /\ f = "property" => (Head(visits) \in FineCalls(T, V)
                                     <=> Arg.verb \in V /\ Range(Arg.objects) \subseteq T)
           /\ f = "verb" => (Head(visits) \in FineCalls(T, V) <=> Arg \in V)
           /\ f = "object" => (Head(visits) \in FineCalls(T, V) <=> Arg \in T)
           /\ f \in {"where", "optional"} => (Head(visits) \in FineCalls(T, V) <=> Arg \in FineGroups(T, V))
           /\ f = "pattern" => (Head(visits) \in FineCalls(T, V)
                                    <=> /\ Arg.group \in FineGroups(T, V)
                                        /\ Range(Arg.gous) \subseteq FineUnions(T, V))
           /\ f \in {"prefix", "select", "variable"} \cup (Settled \ {"optional"}) \cup {"depend"} =>
                  Head(visits) \in FineCalls(T, V)
<1> DEFINE c == Head(visits)
<1>1. c \in Frame /\ c.visit = f
    BY CallOf
<1> HIDE DEF c
<1>2. /\ f = "block" => (c \in FineCalls(T, V) <=> c.arg \in FineBlocks(T, V))
      /\ f = "subject" => (c \in FineCalls(T, V) <=> c.arg \in FineTriples(T, V))
      /\ f = "property" => (c \in FineCalls(T, V) <=> c.arg.verb \in V /\ Range(c.arg.objects) \subseteq T)
      /\ f = "verb" => (c \in FineCalls(T, V) <=> c.arg \in V)
      /\ f = "object" => (c \in FineCalls(T, V) <=> c.arg \in T)
      /\ f \in {"where", "optional"} => (c \in FineCalls(T, V) <=> c.arg \in FineGroups(T, V))
      /\ f = "pattern" => (c \in FineCalls(T, V)
                               <=> c.arg.group \in FineGroups(T, V) /\ Range(c.arg.gous) \subseteq FineUnions(T, V))
    BY <1>1 DEF FineCalls, FineCall
<1>3. f \in {"prefix", "select", "variable"} \cup (Settled \ {"optional"}) \cup {"depend"} => c \in FineCalls(T, V)
    BY <1>1, FineOthers DEF Settled
<1> QED BY <1>2, <1>3 DEF Arg, c

LEMMA BlockCourse ==
    ASSUME Shape, NEW CONSTANT T, NEW CONSTANT V, NEW CONSTANT g, Course(T, V, g), visitTriplesBlock
    PROVE  Course(T, V, g)'
<1>1. /\ Calling("block") /\ Do(Calls("subject", Arg.tss))
      /\ triples_blocks' = triples_blocks /\ optional_blocks' = optional_blocks
    BY DEF visitTriplesBlock, groupVars
<1>2. Arg \in Blocks /\ Arg.tss \in Seq(SameSubject)
    BY <1>1, ArgType DEF Blocks
<1>3. Meets(T, V, "subject", SameSubject, FineTriples(T, V))
    BY FineMeets
<1> DEFINE s == Calls("subject", Arg.tss)
<1>4. /\ s \in Seq(Frame)
      /\ Range(s) \subseteq FineCalls(T, V) <=> Range(Arg.tss) \subseteq FineTriples(T, V)
      /\ \A i \in 1..Len(s) : s[i].visit = "subject"
    BY <1>2, <1>3, FineEach
<1>5. Do(s)
    BY <1>1
<1> HIDE DEF s
<1>6. Head(visits) \in FineCalls(T, V) <=> Range(Arg.tss) \subseteq FineTriples(T, V)
    BY <1>1, <1>2, HeadFine DEF FineBlocks
<1>7. \A i \in 1..Len(s) : s[i].visit \in Inward
    BY <1>4 DEF Inward
<1>8. "block" \in Inward
    BY DEF Inward
<1> QED BY <1>1, <1>4, <1>5, <1>6, <1>7, <1>8, InwardGoes

\* Nothing is left to do of a call that is fine.
LEMMA InwardEnds ==
    ASSUME Shape, NEW CONSTANT T, NEW CONSTANT V, NEW CONSTANT g, Course(T, V, g),
           NEW f \in Inward, Calling(f), Return, Head(visits) \in FineCalls(T, V),
           triples_blocks' = triples_blocks, optional_blocks' = optional_blocks
    PROVE  Course(T, V, g)'
<1> DEFINE s == <<>>
<1>1. /\ s \in Seq(Frame) /\ Do(s) /\ Range(s) = {} /\ \A i \in 1..Len(s) : s[i].visit \in Inward
    BY ReturnDoes, RangeEmpty, EmptySeq
<1>2. Range(s) \subseteq FineCalls(T, V) <=> Head(visits) \in FineCalls(T, V)
    BY <1>1
<1> HIDE DEF s
<1> QED BY <1>1, <1>2, InwardGoes

LEMMA TriplesNodeCourse ==
    ASSUME Shape, NEW CONSTANT T, NEW CONSTANT V, NEW CONSTANT g, Course(T, V, g), visitTriplesNode
    PROVE  Course(T, V, g)'
<1>1. /\ Calling("subject") /\ Arg.subject[1] = "node" /\ Return
      /\ triples_blocks' = triples_blocks /\ optional_blocks' = optional_blocks
    BY DEF visitTriplesNode, groupVars
<1>2. Arg \in FineTriples(T, V)
    BY <1>1, ArgType DEF FineTriples
<1>3. Head(visits) \in FineCalls(T, V) /\ "subject" \in Inward
    BY <1>1, <1>2, HeadFine DEF Inward
<1> QED BY <1>1, <1>3, InwardEnds

LEMMA SubjectCourse ==
    ASSUME Shape, NEW CONSTANT T, NEW CONSTANT V, NEW CONSTANT g, Course(T, V, g), Judges(prefixes, T, V),
           visitTriplesSameSubjectPath, error' = "none"
    PROVE  Course(T, V, g)'
<1> DEFINE node == visitVarOrTerm(prefixes, Arg.subject)
<1>1. Calling("subject") /\ Arg \in SameSubject /\ Arg.subject[1] # "node"
    BY ArgType DEF visitTriplesSameSubjectPath
<1>2. ~Failed(node)
    <2>1. Failed(node) => Throw(node)
        BY DEF visitTriplesSameSubjectPath
    <2> HIDE DEF node
    <2> QED BY <2>1 DEF Throw, Failed, Thrown, Crashed
<1>3. /\ Do(Calls("property", Arg.properties))
      /\ triples_blocks' = triples_blocks /\ optional_blocks' = optional_blocks
    BY <1>2 DEF visitTriplesSameSubjectPath, groupVars
<1>4. Arg.subject \in Term /\ Arg.properties \in Seq(Properties)
    BY <1>1 DEF SameSubject
<1>5. Arg.subject \in T
    BY <1>2, <1>4 DEF Judges
<1> DEFINE s == Calls("property", Arg.properties)
           F == {p \in Properties : p.verb \in V /\ Range(p.objects) \subseteq T}
<1>6. /\ s \in Seq(Frame)
      /\ Range(s) \subseteq FineCalls(T, V) <=> Range(Arg.properties) \subseteq F
      /\ \A i \in 1..Len(s) : s[i].visit = "property"
    <2>1. Meets(T, V, "property", Properties, F)
        BY FineMeets
    <2> HIDE DEF F
    <2> QED BY <1>4, <2>1, FineEach
<1>7. Do(s)
    BY <1>3
<1> HIDE DEF s
<1>8. Arg \in FineTriples(T, V) <=> Range(Arg.properties) \subseteq F
    <2> DEFINE ps == Arg.properties
    <2>1. Range(ps) \subseteq Properties /\ Range(ps) = {ps[i] : i \in DOMAIN ps}
        BY <1>4, RangeIs DEF Range
    <2>2. Arg \in FineTriples(T, V) <=> TermsOf(Arg) \subseteq T /\ VerbsOf(Arg) \subseteq V
        BY <1>1 DEF FineTriples
    <2>3. TermsOf(Arg) = {Arg.subject} \cup UNION {Range(ps[i].objects) : i \in DOMAIN ps}
          /\ VerbsOf(Arg) = {ps[i].verb : i \in DOMAIN ps}
        BY DEF TermsOf, VerbsOf
    <2> HIDE DEF ps
    <2>4. TermsOf(Arg) \subseteq T <=> \A i \in DOMAIN ps : Range(ps[i].objects) \subseteq T
        BY <1>5, <2>3
    <2>5. VerbsOf(Arg) \subseteq V <=> \A i \in DOMAIN ps : ps[i].verb \in V
        BY <2>3
    <2>6. Range(ps) \subseteq F <=> \A i \in DOMAIN ps : ps[i].verb \in V /\ Range(ps[i].objects) \subseteq T
        BY <2>1
    <2> QED BY <2>2, <2>4, <2>5, <2>6 DEF ps
<1> HIDE DEF F
<1>9. Range(s) \subseteq FineCalls(T, V) <=> Head(visits) \in FineCalls(T, V)
    BY <1>1, <1>6, <1>8, HeadFine
<1>10. "subject" \in Inward /\ \A i \in 1..Len(s) : s[i].visit \in Inward
    BY <1>6 DEF Inward
<1> QED BY <1>1, <1>3, <1>6, <1>7, <1>9, <1>10, InwardGoes

LEMMA PropertyCourse ==
    ASSUME Shape, NEW CONSTANT T, NEW CONSTANT V, NEW CONSTANT g, Course(T, V, g), visitPropertyListPath
    PROVE  Course(T, V, g)'
<1> DEFINE a == <<Call("verb", Arg.verb)>>
           b == Calls("object", Arg.objects)
           s == a \o b
<1>1. /\ Calling("property") /\ Do(s)
      /\ triples_blocks' = triples_blocks /\ optional_blocks' = optional_blocks
    BY DEF visitPropertyListPath, groupVars
<1>2. Arg.verb \in Verb /\ Arg.objects \in Seq(Term)
    BY <1>1, ArgType DEF Properties
<1>3. /\ a \in Seq(Frame) /\ Range(a) = {Call("verb", Arg.verb)} /\ \A i \in 1..Len(a) : a[i].visit = "verb"
    <2>1. Call("verb", Arg.verb) \in Frame
        BY <1>2 DEF Call, Frame
    <2>2. a \in Seq(Frame) /\ Len(a) = 1 /\ a[1].visit = "verb"
        BY <2>1, OneCall
    <2> QED BY <2>2, RangeOne
<1>4. /\ b \in Seq(Frame)
      /\ Range(b) \subseteq FineCalls(T, V) <=> Range(Arg.objects) \subseteq T
      /\ \A i \in 1..Len(b) : b[i].visit = "object"
    <2>1. Meets(T, V, "object", Term, T)
        BY FineMeets
    <2> QED BY <1>2, <2>1, FineEach
<1>5. Call("verb", Arg.verb) \in FineCalls(T, V) <=> Arg.verb \in V
    BY <1>2, FineArgs
<1> HIDE DEF a, b
<1>6. /\ s \in Seq(Frame) /\ Range(s) = Range(a) \cup Range(b)
      /\ \A i \in 1..Len(s) : s[i].visit \in Inward
    BY <1>3, <1>4, RangeConcat, ConcatProperties DEF Inward
<1> HIDE DEF s
<1>7. Range(s) \subseteq FineCalls(T, V) <=> Head(visits) \in FineCalls(T, V)
    <2>1. Head(visits) \in FineCalls(T, V) <=> Arg.verb \in V /\ Range(Arg.objects) \subseteq T
        BY <1>1, HeadFine
    <2> QED BY <1>3, <1>4, <1>5, <1>6, <2>1
<1>8. "property" \in Inward
    BY DEF Inward
<1> QED BY <1>1, <1>6, <1>7, <1>8, InwardGoes

LEMMA PathCourse ==
    ASSUME Shape, NEW CONSTANT T, NEW CONSTANT V, NEW CONSTANT g, Course(T, V, g), Judges(prefixes, T, V),
           visitPath
    PROVE  Course(T, V, g)'
<1> DEFINE w == Primary(Arg[2])
           s == <<Call("verb", w)>>
<1>1. /\ Calling("verb") /\ IsNested(Arg) /\ Do(s)
      /\ triples_blocks' = triples_blocks /\ optional_blocks' = optional_blocks
    BY DEF visitPath, groupVars
<1>2. Arg \in Verb /\ prefixes \in PrefixMaps
    BY <1>1, ArgType DEF Shape, GraphType, NamesType
<1>3. w \in Verb /\ (Arg \in V <=> w \in V)
    BY <1>1, <1>2, VerbType DEF Judges
<1> HIDE DEF w
<1>4. Call("verb", w) \in Frame
    BY <1>3 DEF Call, Frame
<1>5. s \in Seq(Frame) /\ Len(s) = 1 /\ s[1].visit = "verb" /\ Range(s) = {Call("verb", w)}
    BY <1>4, OneCall, RangeOne
<1>6. Range(s) \subseteq FineCalls(T, V) <=> w \in V
    BY <1>3, <1>5, FineArgs
<1> HIDE DEF s
<1>7. Range(s) \subseteq FineCalls(T, V) <=> Head(visits) \in FineCalls(T, V)
    BY <1>1, <1>3, <1>6, HeadFine
<1>8. "verb" \in Inward /\ \A i \in 1..Len(s) : s[i].visit \in Inward
    BY <1>5 DEF Inward
<1> QED BY <1>1, <1>5, <1>7, <1>8, InwardGoes

LEMMA VerbCourse ==
    ASSUME Shape, NEW CONSTANT T, NEW CONSTANT V, NEW CONSTANT g, Course(T, V, g), Judges(prefixes, T, V),
           visitVerbPath, error' = "none"
    PROVE  Course(T, V, g)'
<1> DEFINE node == visitVerb(prefixes, Arg)
<1>1. Calling("verb") /\ Arg \in Verb /\ ~IsNested(Arg)
    BY ArgType DEF visitVerbPath
<1>2. ~Failed(node)
    <2>1. Failed(node) => Throw(node)
        BY DEF visitVerbPath
    <2> HIDE DEF node
    <2> QED BY <2>1 DEF Throw, Failed, Thrown, Crashed
<1>3. Return /\ triples_blocks' = triples_blocks /\ optional_blocks' = optional_blocks
    BY <1>2 DEF visitVerbPath, groupVars
<1>4. Arg \in V
    BY <1>1, <1>2 DEF Judges
<1>5. Head(visits) \in FineCalls(T, V) /\ "verb" \in Inward
    BY <1>1, <1>4, HeadFine DEF Inward
<1> QED BY <1>1, <1>3, <1>5, InwardEnds

LEMMA ObjectCourse ==
    ASSUME Shape, NEW CONSTANT T, NEW CONSTANT V, NEW CONSTANT g, Course(T, V, g), Judges(prefixes, T, V),
           visitObject, error' = "none"
    PROVE  Course(T, V, g)'
<1> DEFINE node == visitVarOrTerm(prefixes, Arg)
<1>1. Calling("object") /\ Arg \in Term
    BY ArgType DEF visitObject
<1>2. ~Failed(node)
    <2>1. Failed(node) => Throw(node)
        BY DEF visitObject
    <2> HIDE DEF node
    <2> QED BY <2>1 DEF Throw, Failed, Thrown, Crashed
<1>3. Return /\ triples_blocks' = triples_blocks /\ optional_blocks' = optional_blocks
    BY <1>2 DEF visitObject
<1>4. Arg \in T
    BY <1>1, <1>2 DEF Judges
<1>5. Head(visits) \in FineCalls(T, V) /\ "object" \in Inward
    BY <1>1, <1>4, HeadFine DEF Inward
<1> QED BY <1>1, <1>3, <1>5, InwardEnds

LEMMA SettledNow ==
    ASSUME Shape, NEW T, NEW V, NEW g, Course(T, V, g), NEW f \in Settled \cup Outside, Calling(f)
    PROVE  /\ AllFine(T, V) => FineLevels(T, V) /\ g \in FineGroups(T, V)
           /\ g \in FineGroups(T, V) => AllFine(T, V) /\ FineLevels(T, V)
<1>1. Head(visits).visit = f /\ visits # <<>>
    BY CallOf
<1>2. CASE f \in Settled
    BY <1>1, <1>2 DEF Course, Toward
<1>3. CASE f \in Outside
    <2>1. PICK x, y \in State : Covers(x) /\ Moves(Head(visits), x, y)
        BY CallOf
    <2>2. x = Closed
        BY <1>1, <1>3, <2>1 DEF Moves, Inside, Outside
    <2>3. Len(group_patterns) = 0
        BY <2>1, <2>2, EmptySeq DEF Covers, Closed
    <2>4. Len(triples_blocks) = 0 /\ Len(optional_blocks) = 0
        BY <2>3 DEF Shape, Fits, StacksFit
    <2>5. triples_blocks = <<>> /\ optional_blocks = <<>>
        BY <2>4, EmptySeq, StackTypes DEF Shape
    <2>6. FineTop(T, V)
        BY <2>5, EachInEmpty DEF FineTop
    <2> QED BY <2>6 DEF Course, Toward
<1> QED BY <1>2, <1>3

\* A call that makes no level less fine does others that are fine if and only if
\* it is.
LEMMA SettledGoes ==
    ASSUME Shape, GraphType', NEW CONSTANT T, NEW CONSTANT V, NEW CONSTANT g, Course(T, V, g),
           NEW f \in Settled \cup Outside, Calling(f), NEW s \in Seq(Frame), Do(s),
           \A i \in 1..Len(s) : s[i].visit \notin Inward,
           Range(s) \subseteq FineCalls(T, V) <=> Head(visits) \in FineCalls(T, V),
           FineLevels(T, V) => FineLevels(T, V)'
    PROVE  Course(T, V, g)'
<1>1. Follows(visits')
    <2>1. visits # <<>> /\ visits \in Seq(Frame) /\ Tail(visits) \in Seq(Frame)
        BY AllFineIs
    <2>2. Follows(Tail(visits))
        BY <2>1, FollowsTail DEF Course
    <2> QED BY <2>1, <2>2, FollowsNone, FollowsJoin DEF Do
<1>2. AllFine(T, V)' <=> AllFine(T, V)
    BY AllFineIs, DoneCalls
<1>3. /\ AllFine(T, V) => FineLevels(T, V) /\ g \in FineGroups(T, V)
      /\ g \in FineGroups(T, V) => AllFine(T, V) /\ FineLevels(T, V)
    BY SettledNow
<1>4. (AllFine(T, V) => FineLevels(T, V) /\ g \in FineGroups(T, V))'
    BY <1>2, <1>3 DEF FineGroups, FineAlone
<1>5. (g \in FineGroups(T, V) => AllFine(T, V) /\ FineLevels(T, V))'
    BY <1>2, <1>3 DEF FineGroups, FineAlone
<1>6. Toward(T, V, g)'
    BY <1>4, <1>5, SettledIs, PTL
<1> QED BY <1>1, <1>6 DEF Course

\* A return.
LEMMA SettledReturns ==
    ASSUME Shape, GraphType', NEW CONSTANT T, NEW CONSTANT V, NEW CONSTANT g, Course(T, V, g),
           NEW f \in {"prefix", "select", "variable"} \cup (Settled \ {"optional"}), Calling(f), Return,
           FineLevels(T, V) => FineLevels(T, V)'
    PROVE  Course(T, V, g)'
<1> DEFINE s == <<>>
<1>1. s \in Seq(Frame) /\ Do(s) /\ Range(s) = {} /\ \A i \in 1..Len(s) : s[i].visit \notin Inward
    BY ReturnDoes, RangeEmpty, EmptySeq
<1>2. Head(visits) \in FineCalls(T, V)
    BY HeadFine
<1> HIDE DEF s
<1>3. Range(s) \subseteq FineCalls(T, V) <=> Head(visits) \in FineCalls(T, V)
    BY <1>1, <1>2
<1>4. f \in Settled \cup Outside
    BY DEF Outside
<1> QED BY <1>1, <1>3, <1>4, SettledGoes

LEMMA SameLevels ==
    ASSUME NEW CONSTANT T, NEW CONSTANT V, triples_blocks' = triples_blocks, optional_blocks' = optional_blocks
    PROVE  FineLevels(T, V)' <=> FineLevels(T, V)
BY DEF FineLevels

LEMMA PrologueCourse ==
    ASSUME Shape, GraphType', NEW CONSTANT T, NEW CONSTANT V, NEW CONSTANT g, Course(T, V, g), visitPrologue
    PROVE  Course(T, V, g)'
<1>1. Calling("prefix") /\ Return /\ triples_blocks' = triples_blocks /\ optional_blocks' = optional_blocks
    BY DEF visitPrologue, groupVars
<1> QED BY <1>1, SameLevels, SettledReturns

LEMMA AsteriskCourse ==
    ASSUME Shape, GraphType', NEW CONSTANT T, NEW CONSTANT V, NEW CONSTANT g, Course(T, V, g),
           visitAsterisk, error' = "none"
    PROVE  Course(T, V, g)'
<1>1. Calling("select") /\ Return /\ triples_blocks' = triples_blocks /\ optional_blocks' = optional_blocks
    BY DEF visitAsterisk, groupVars, Throw, Thrown
<1> QED BY <1>1, SameLevels, SettledReturns

LEMMA SelectVariableCourse ==
    ASSUME Shape, GraphType', NEW CONSTANT T, NEW CONSTANT V, NEW CONSTANT g, Course(T, V, g),
           visitSelectVariable, error' = "none"
    PROVE  Course(T, V, g)'
<1>1. Calling("variable") /\ Return /\ triples_blocks' = triples_blocks /\ optional_blocks' = optional_blocks
    BY DEF visitSelectVariable, groupVars, Throw, Thrown
<1> QED BY <1>1, SameLevels, SettledReturns

LEMMA SelectCourse ==
    ASSUME Shape, GraphType', NEW CONSTANT T, NEW CONSTANT V, NEW CONSTANT g, Course(T, V, g), visitSelectClause
    PROVE  Course(T, V, g)'
<1> DEFINE s == Calls("variable", Arg)
<1>1. /\ Calling("select") /\ Arg # All /\ Do(s)
      /\ triples_blocks' = triples_blocks /\ optional_blocks' = optional_blocks
    BY DEF visitSelectClause, groupVars
<1>2. Arg \in Seq(Selection)
    BY <1>1, ArgType
<1>3. \A x \in Selection : Call("variable", x) \in Frame
    BY DEF Call, Frame
<1>4. s \in Seq(Frame) /\ \A i \in 1..Len(s) : s[i].visit = "variable"
    BY <1>2, <1>3, CallsAreFrames
<1> HIDE DEF s
<1>5. Range(s) \subseteq FineCalls(T, V)
    <2>1. ASSUME NEW c \in Range(s) PROVE c \in FineCalls(T, V)
        <3>1. PICK i \in 1..Len(s) : c = s[i]
            BY <1>4, RangeIs
        <3>2. c \in Frame /\ c.visit = "variable"
            BY <1>4, <3>1, ElementOfSeq
        <3> QED BY <3>2, FineOthers
    <2> QED BY <2>1
<1>6. Range(s) \subseteq FineCalls(T, V) <=> Head(visits) \in FineCalls(T, V)
    BY <1>1, <1>5, HeadFine
<1>7. "select" \in Settled \cup Outside /\ \A i \in 1..Len(s) : s[i].visit \notin Inward
    BY <1>4 DEF Outside, Inward
<1>8. FineLevels(T, V) => FineLevels(T, V)'
    BY <1>1, SameLevels
<1> QED BY <1>1, <1>4, <1>6, <1>7, <1>8, SettledGoes

LEMMA CloseCourse ==
    ASSUME Shape, GraphType', NEW CONSTANT T, NEW CONSTANT V, NEW CONSTANT g, Course(T, V, g), CloseConjunction
    PROVE  Course(T, V, g)'
<1>1. Calling("close") /\ Return /\ triples_blocks' = triples_blocks /\ optional_blocks' = optional_blocks
    BY DEF CloseConjunction
<1>2. "close" \in Settled \ {"optional"}
    BY DEF Settled
<1> QED BY <1>1, <1>2, SameLevels, SettledReturns

LEMMA ResizeCourse ==
    ASSUME Shape, GraphType', NEW CONSTANT T, NEW CONSTANT V, NEW CONSTANT g, Course(T, V, g), Resize
    PROVE  Course(T, V, g)'
<1>1. /\ Calling("resize") /\ Return
      /\ triples_blocks' = SetTop(triples_blocks, SubSeq(Top(triples_blocks), 1, Arg[1]))
      /\ optional_blocks' = SetTop(optional_blocks, SubSeq(Top(optional_blocks), 1, Arg[2]))
    BY DEF Resize
<1>2. /\ triples_blocks \in Seq(Seq(Blocks)) /\ triples_blocks # <<>>
      /\ optional_blocks \in Seq(Seq(Group)) /\ optional_blocks # <<>>
    <2>1. "resize" \in Inside
        BY DEF Inside
    <2> QED BY <1>1, <2>1, GroupIsOpen, StackTypes DEF Shape
<1>3. Arg[1] \in 0..Len(Top(triples_blocks)) /\ Arg[2] \in 0..Len(Top(optional_blocks))
    <2>1. Top(triples_blocks) \in Seq(Blocks) /\ Top(optional_blocks) \in Seq(Group)
        BY <1>2, TopProperties
    <2>2. Len(Top(triples_blocks)) \in Nat /\ Len(Top(optional_blocks)) \in Nat
        BY <2>1, LenProperties
    <2> QED BY <1>1, <2>2, ResizeFits
<1>4. EachIn(triples_blocks, FineBlocks(T, V)) => EachIn(triples_blocks', FineBlocks(T, V))
    BY <1>1, <1>2, <1>3, EachInCut
<1>5. EachIn(optional_blocks, FineGroups(T, V)) => EachIn(optional_blocks', FineGroups(T, V))
    BY <1>1, <1>2, <1>3, EachInCut
<1>6. FineLevels(T, V) => FineLevels(T, V)'
    BY <1>4, <1>5 DEF FineLevels
<1>7. "resize" \in Settled \ {"optional"}
    BY DEF Settled
<1> QED BY <1>1, <1>6, <1>7, SettledReturns

LEMMA LeavesFine ==
    ASSUME Shape, NEW CONSTANT T, NEW CONSTANT V, LeaveGroup, triples_blocks # <<>>, optional_blocks # <<>>
    PROVE  FineLevels(T, V) => FineLevels(T, V)'
<1>1. /\ triples_blocks' = Pop(triples_blocks) /\ optional_blocks' = Pop(optional_blocks)
      /\ triples_blocks \in Seq(Seq(Blocks)) /\ optional_blocks \in Seq(Seq(Group))
    BY StackTypes DEF LeaveGroup, Shape
<1>2. EachIn(triples_blocks, FineBlocks(T, V)) => EachIn(triples_blocks', FineBlocks(T, V))
    BY <1>1, EachInPop
<1>3. EachIn(optional_blocks, FineGroups(T, V)) => EachIn(optional_blocks', FineGroups(T, V))
    BY <1>1, EachInPop
<1> QED BY <1>2, <1>3 DEF FineLevels

LEMMA EndCourse ==
    ASSUME Shape, GraphType', NEW CONSTANT T, NEW CONSTANT V, NEW CONSTANT g, Course(T, V, g),
           EndWhereClause \/ LeaveOptional
    PROVE  Course(T, V, g)'
<1>1. PICK f \in {"leave", "end"} : Calling(f)
    BY DEF EndWhereClause, LeaveOptional
<1>2. Return /\ LeaveGroup
    BY DEF EndWhereClause, LeaveOptional
<1>3. triples_blocks # <<>> /\ optional_blocks # <<>>
    <2>1. Calling("end") \/ Calling("leave")
        BY <1>1
    <2> QED BY <2>1, EndNeeds
<1>4. FineLevels(T, V) => FineLevels(T, V)'
    BY <1>2, <1>3, LeavesFine
<1>5. f \in Settled \ {"optional"}
    BY DEF Settled
<1> QED BY <1>1, <1>2, <1>4, <1>5, SettledReturns

-----------------------------------------------------------------------------
(* Groups.                                                                  *)

LEMMA BranchesFine ==
    ASSUME NEW T, NEW V, NEW us \in Seq(Unions), us # <<>>, NEW p \in Nat, NEW q \in Nat
    PROVE  LET s == BranchesOf(us, p, q)
           IN  /\ s \in Seq(Frame) /\ s # <<>> /\ Head(s).visit = "pattern"
               /\ \A i \in 1..Len(s) : s[i].visit \notin Inward
               /\ Range(s) \subseteq FineCalls(T, V) <=> Range(us) \subseteq FineUnions(T, V)
<1> DEFINE s == BranchesOf(us, p, q)
           gs == Last(us).groups
           first(h) == Call("pattern", [group |-> h, gous |-> Front(us)])
           resize == Call("resize", <<p, q>>)
           f == [i \in DOMAIN gs |-> <<first(gs[i]), resize>>]
<1>1. /\ Front(us) \in Seq(Unions) /\ Last(us) \in Unions
      /\ Range(us) = Range(Front(us)) \cup {Last(us)}
    BY RangeFrontLast
<1>2. gs \in Seq(Group) /\ gs # <<>>
    BY <1>1 DEF Unions
<1>3. s \in Seq(Frame) /\ \A i \in 1..Len(s) : BranchCall(s[i], <<p, q>>)
    BY BranchCalls
<1>4. \A i \in 1..Len(s) : s[i].visit \notin Inward
    BY <1>3 DEF BranchCall, Inward
<1>5. s = FlattenSeq(f)
    BY DEF BranchesOf
<1>6. /\ \A h \in Group : first(h) \in Frame /\ first(h).visit = "pattern"
      /\ resize \in Frame /\ resize.visit = "resize"
    BY <1>1 DEF Call, Frame
<1>7. \A h \in Group : first(h) \in FineCalls(T, V)
                           <=> h \in FineGroups(T, V) /\ Range(Front(us)) \subseteq FineUnions(T, V)
    BY <1>1, FineArgs
<1>8. resize \in FineCalls(T, V)
    BY <1>6, FineOthers
<1>9. Last(us) \in FineUnions(T, V) <=> Range(gs) \subseteq FineGroups(T, V)
    BY <1>1 DEF FineUnions
<1> HIDE DEF s, gs, first, resize
<1>10. Len(gs) \in Nat \ {0} /\ DOMAIN gs = 1..Len(gs) /\ \A i \in 1..Len(gs) : gs[i] \in Group
    BY <1>2, LenProperties, EmptySeq, ElementOfSeq
<1>11. \A i \in 1..Len(gs) : /\ <<first(gs[i]), resize>> \in Seq(Frame)
                             /\ Range(<<first(gs[i]), resize>>) = {first(gs[i]), resize}
    BY <1>6, <1>10, PairIsSeq, RangeTwo
<1>12. \A i \in 1..Len(gs) : f[i] = <<first(gs[i]), resize>>
    BY <1>10
<1>13. f \in [1..Len(gs) -> Seq(Frame)]
    BY <1>10, <1>11
<1> HIDE DEF f
<1>14. f \in Seq(Seq(Frame)) /\ Len(f) = Len(gs)
    BY <1>10, <1>13, FunctionIsSeq
<1>15. Range(s) = UNION {Range(f[i]) : i \in 1..Len(gs)}
    BY <1>5, <1>14, FlattenSeqRange
<1>16. Range(s) \subseteq FineCalls(T, V) <=> \A i \in 1..Len(gs) : first(gs[i]) \in FineCalls(T, V)
    <2>1. \A i \in 1..Len(gs) : Range(f[i]) = {first(gs[i]), resize}
        BY <1>11, <1>12
    <2>2. ASSUME NEW i \in 1..Len(gs), Range(s) \subseteq FineCalls(T, V) PROVE first(gs[i]) \in FineCalls(T, V)
        BY <1>15, <2>1, <2>2
    <2>3. ASSUME \A i \in 1..Len(gs) : first(gs[i]) \in FineCalls(T, V), NEW c \in Range(s) PROVE c \in FineCalls(T, V)
        <3>1. PICK i \in 1..Len(gs) : c \in Range(f[i])
            BY <1>15
        <3> QED BY <1>8, <2>1, <2>3, <3>1
    <2> QED BY <2>2, <2>3
<1>17. Range(gs) = {gs[i] : i \in 1..Len(gs)} /\ 1 \in 1..Len(gs)
    BY <1>2, <1>10, RangeIs
<1>18. Range(s) \subseteq FineCalls(T, V) <=> Range(us) \subseteq FineUnions(T, V)
    BY <1>1, <1>7, <1>9, <1>10, <1>16, <1>17
<1>19. s # <<>> /\ Head(s).visit = "pattern"
    <2>1. f # <<>> /\ Head(f) = f[1] /\ Tail(f) \in Seq(Seq(Frame))
        BY <1>10, <1>14, EmptySeq, HeadTailProperties
    <2>2. s = Head(f) \o FlattenSeq(Tail(f))
        BY <1>5, <1>14, <2>1, FlattenSeqHead
    <2> DEFINE c == first(gs[1])
               a == <<c, resize>>
    <2>3. Head(f) = a /\ a \in Seq(Frame)
        BY <1>11, <1>12, <1>17, <2>1
    <2> HIDE DEF c
    <2>6. a # <<>> /\ Head(a) = c
        OBVIOUS
    <2> HIDE DEF a
    <2>4. FlattenSeq(Tail(f)) \in Seq(Frame)
        BY <2>1, FlattenSeqType
    <2>5. s # <<>> /\ Head(s) = c
        BY <2>2, <2>3, <2>4, <2>6, HeadOfConcat
    <2> QED BY <1>6, <1>10, <1>17, <2>5 DEF c
<1> QED BY <1>3, <1>4, <1>18, <1>19 DEF s

LEMMA ConjunctionFine ==
    ASSUME NEW T, NEW V, NEW blocks \in Seq(Blocks)
    PROVE  LET s == Conjunction(blocks)
           IN  /\ s \in Seq(Frame) /\ Follows(s)
               /\ s # <<>> /\ Head(s).visit \in Onward
               /\ Range(s) \subseteq FineCalls(T, V) <=> Range(blocks) \subseteq FineBlocks(T, V)
<1> DEFINE a == Calls("block", blocks)
           d == Call("depend", <<>>)
           b == <<d>>
<1>1. /\ a \in Seq(Frame)
      /\ Range(a) \subseteq FineCalls(T, V) <=> Range(blocks) \subseteq FineBlocks(T, V)
      /\ \A i \in 1..Len(a) : a[i].visit = "block"
    <2>1. Meets(T, V, "block", Blocks, FineBlocks(T, V))
        BY FineMeets
    <2> QED BY <2>1, FineEach
<1>2. d \in Frame /\ d.visit = "depend"
    BY DEF Call, Frame
<1>3. d \in FineCalls(T, V)
    BY <1>2, FineOthers
<1> HIDE DEF a, d
<1>4. b \in Seq(Frame) /\ b # <<>> /\ Len(b) = 1 /\ b[1] = d /\ Head(b) = d /\ Range(b) = {d}
    BY <1>2, RangeOne
<1> HIDE DEF b
<1>5. Follows(b) /\ Head(b).visit \in Onward
    BY <1>2, <1>4, FollowsNone DEF Onward, Inward
<1>6. \A i \in 1..Len(a) : a[i].visit \in Inward
    BY <1>1 DEF Inward
<1>7. /\ a \o b \in Seq(Frame) /\ Follows(a \o b)
      /\ a \o b # <<>> /\ Head(a \o b).visit \in Onward
    BY <1>1, <1>4, <1>5, <1>6, FollowsInward
<1>8. Range(a \o b) = Range(a) \cup Range(b)
    BY <1>1, <1>4, RangeConcat
<1>9. Range(a \o b) \subseteq FineCalls(T, V) <=> Range(blocks) \subseteq FineBlocks(T, V)
    BY <1>1, <1>3, <1>4, <1>8
<1> QED BY <1>7, <1>9 DEF Conjunction, a, b, d

LEMMA EnterCourse ==
    ASSUME Shape, GraphType', NEW CONSTANT T, NEW CONSTANT V, NEW CONSTANT g, Course(T, V, g),
           visitWhereClause \/ EnterOptional
    PROVE  Course(T, V, g)'
<1>1. PICK f \in {"where", "optional"}, e \in {"end", "leave"} :
          Calling(f) /\ EnterGroup /\ Do(<<Call("pattern", [group |-> Arg, gous |-> <<>>]), Call(e, <<>>)>>)
    BY DEF visitWhereClause, EnterOptional
<1> DEFINE c == Call("pattern", [group |-> Arg, gous |-> <<>>])
           d == Call(e, <<>>)
           s == <<c, d>>
<1>2. Arg \in Group
    BY <1>1, ArgType
<1>3. c \in Frame /\ c.visit = "pattern" /\ d \in Frame /\ d.visit = e
    BY <1>2, EmptySeq DEF Call, Frame
<1>4. c \in FineCalls(T, V) <=> Arg \in FineGroups(T, V)
    <2>1. <<>> \in Seq(Unions) /\ Range(<<>>) \subseteq FineUnions(T, V)
        BY RangeEmpty, EmptySeq
    <2> QED BY <1>2, <2>1, FineArgs
<1>5. d \in FineCalls(T, V)
    BY <1>3, FineOthers
<1>6. Do(s)
    BY <1>1
<1> HIDE DEF c, d
<1>7. s \in Seq(Frame) /\ Range(s) = {c, d} /\ Len(s) = 2 /\ s[1] = c /\ s[2] = d
    BY <1>3, PairIsSeq, RangeTwo
<1> HIDE DEF s
<1>8. Range(s) \subseteq FineCalls(T, V) <=> Head(visits) \in FineCalls(T, V)
    BY <1>1, <1>4, <1>5, <1>7, HeadFine
<1>9. \A i \in 1..Len(s) : s[i].visit \notin Inward
    BY <1>3, <1>7 DEF Inward
<1>10. FineLevels(T, V) => FineLevels(T, V)'
    <2>1. /\ triples_blocks' = Push(triples_blocks, <<>>) /\ optional_blocks' = Push(optional_blocks, <<>>)
          /\ triples_blocks \in Seq(Seq(Blocks)) /\ optional_blocks \in Seq(Seq(Group))
        BY <1>1, StackTypes DEF EnterGroup, Shape
    <2>2. EachIn(triples_blocks, FineBlocks(T, V)) => EachIn(triples_blocks', FineBlocks(T, V))
        BY <2>1, EachInPush
    <2>3. EachIn(optional_blocks, FineGroups(T, V)) => EachIn(optional_blocks', FineGroups(T, V))
        BY <2>1, EachInPush
    <2> QED BY <2>2, <2>3 DEF FineLevels
<1>11. f \in Settled \cup Outside
    BY DEF Settled, Outside
<1> QED BY <1>1, <1>6, <1>7, <1>8, <1>9, <1>10, <1>11, SettledGoes

LEMMA DependCourse ==
    ASSUME Shape, GraphType', NEW CONSTANT T, NEW CONSTANT V, NEW CONSTANT g, Course(T, V, g), VisitOptionals
    PROVE  Course(T, V, g)'
<1> DEFINE gs == Top(optional_blocks)
           a == Calls("optional", gs)
           d == Call("close", <<>>)
           b == <<d>>
           s == a \o b
<1>1. Calling("depend") /\ Do(s) /\ triples_blocks' = triples_blocks /\ optional_blocks' = optional_blocks
    BY DEF VisitOptionals, groupVars
<1>2. /\ triples_blocks \in Seq(Seq(Blocks)) /\ triples_blocks # <<>>
      /\ optional_blocks \in Seq(Seq(Group)) /\ optional_blocks # <<>>
    <2>1. "depend" \in Inside
        BY DEF Inside
    <2> QED BY <1>1, <2>1, GroupIsOpen, StackTypes DEF Shape
<1>3. gs \in Seq(Group)
    BY <1>2, TopProperties
<1>4. TopIn(optional_blocks, FineGroups(T, V)) <=> Range(gs) \subseteq FineGroups(T, V)
    BY <1>2 DEF TopIn
<1> HIDE DEF gs
<1>5. /\ a \in Seq(Frame)
      /\ Range(a) \subseteq FineCalls(T, V) <=> Range(gs) \subseteq FineGroups(T, V)
      /\ \A i \in 1..Len(a) : a[i].visit = "optional"
    <2>1. Meets(T, V, "optional", Group, FineGroups(T, V))
        BY FineMeets
    <2> QED BY <1>3, <2>1, FineEach
<1>6. d \in Frame /\ d.visit = "close"
    BY DEF Call, Frame
<1>7. d \in FineCalls(T, V)
    BY <1>6, FineOthers
<1> HIDE DEF a, d
<1>8. b \in Seq(Frame) /\ Len(b) = 1 /\ b[1] = d /\ Range(b) = {d}
    BY <1>6, RangeOne
<1> HIDE DEF b
<1>9. s \in Seq(Frame) /\ Range(s) = Range(a) \cup Range(b)
      /\ \A i \in 1..Len(s) : s[i].visit \notin Inward
    <2>1. s \in Seq(Frame) /\ Range(s) = Range(a) \cup Range(b)
        BY <1>5, <1>8, RangeConcat, ConcatProperties
    <2>2. /\ Len(s) = Len(a) + Len(b)
          /\ \A i \in 1..(Len(a) + Len(b)) : s[i] = IF i <= Len(a) THEN a[i] ELSE b[i - Len(a)]
        BY <1>5, <1>8, ConcatProperties
    <2>3. Len(a) \in Nat
        BY <1>5, LenProperties
    <2>4. \A i \in 1..Len(s) : s[i].visit \in {"optional", "close"}
        BY <1>5, <1>6, <1>8, <2>2, <2>3
    <2> QED BY <2>1, <2>4 DEF Inward
<1> HIDE DEF s
<1>10. Range(s) \subseteq FineCalls(T, V) <=> TopIn(optional_blocks, FineGroups(T, V))
    BY <1>4, <1>5, <1>7, <1>8, <1>9
<1>11. /\ visits # <<>> /\ visits \in Seq(Frame) /\ Tail(visits) \in Seq(Frame) /\ Head(visits).visit = "depend"
       /\ AllFine(T, V) <=> Range(Tail(visits)) \subseteq FineCalls(T, V)
    <2>1. Head(visits) \in FineCalls(T, V)
        BY <1>1, HeadFine
    <2> QED BY <1>1, <2>1, AllFineIs
<1>12. AllFine(T, V)' <=> TopIn(optional_blocks, FineGroups(T, V)) /\ AllFine(T, V)
    BY <1>1, <1>9, <1>10, <1>11, DoneCalls
<1>13. AllFine(T, V) => TopIn(triples_blocks, FineBlocks(T, V))
    <2>1. "depend" \in Onward
        BY DEF Onward
    <2> QED BY <1>11, <2>1 DEF Course, Toward
<1>14. FineLevels(T, V)' <=> FineLevels(T, V)
    BY <1>1, SameLevels
<1>15. AllFine(T, V)' => FineLevels(T, V) /\ g \in FineGroups(T, V)
    <2>1. AllFine(T, V)' => AllFine(T, V) /\ FineTop(T, V)
        BY <1>12, <1>13 DEF FineTop
    <2> QED BY <2>1 DEF Course, Toward
<1>16. g \in FineGroups(T, V) => AllFine(T, V)' /\ FineLevels(T, V)
    <2>1. g \in FineGroups(T, V) => AllFine(T, V) /\ FineLevels(T, V)
        BY DEF Course, Toward
    <2>2. FineLevels(T, V) => FineTop(T, V)
        BY FineTops DEF Shape
    <2> QED BY <1>12, <2>1, <2>2 DEF FineTop
<1>17. (AllFine(T, V) => FineLevels(T, V) /\ g \in FineGroups(T, V))'
    BY <1>14, <1>15 DEF FineGroups, FineAlone
<1>18. (g \in FineGroups(T, V) => AllFine(T, V) /\ FineLevels(T, V))'
    BY <1>14, <1>16 DEF FineGroups, FineAlone
<1>19. Toward(T, V, g)'
    BY <1>17, <1>18, SettledIs, PTL
<1>20. Follows(visits')
    <2>1. Follows(Tail(visits))
        BY <1>11, FollowsTail DEF Course
    <2> QED BY <1>1, <1>9, <1>11, <2>1, FollowsNone, FollowsJoin DEF Do
<1> QED BY <1>19, <1>20 DEF Course

LEMMA PatternCourse ==
    ASSUME Shape, NEW CONSTANT T, NEW CONSTANT V, NEW CONSTANT g, Course(T, V, g), visitWellDesignedPattern
    PROVE  Course(T, V, g)'
<1> DEFINE h     == Arg.group
           bs    == OfKind(h, "block")
           os    == OptionalGroups(h)
           more  == OfKind(h, "union")
           us    == Arg.gous \o more
           p     == Len(Top(triples_blocks'))
           q     == Len(Top(optional_blocks'))
           calls == IF us = <<>> THEN Conjunction(Top(triples_blocks')) ELSE BranchesOf(us, p, q)
           FB == FineBlocks(T, V)
           FG == FineGroups(T, V)
           FU == FineUnions(T, V)
           FC == FineCalls(T, V)
<1>1. /\ Calling("pattern") /\ ~IsSubquery(h) /\ Do(calls)
      /\ triples_blocks' = AddTop(triples_blocks, bs) /\ optional_blocks' = AddTop(optional_blocks, os)
    BY DEF visitWellDesignedPattern
<1>2. h \in Group /\ Arg.gous \in Seq(Unions)
    BY <1>1, ArgType
<1>3. bs \in Seq(Blocks) /\ os \in Seq(Group) /\ more \in Seq(Unions)
    BY <1>2, KindTypes
<1>4. us \in Seq(Unions) /\ Range(us) = Range(Arg.gous) \cup Range(more)
    BY <1>2, <1>3, RangeConcat, ConcatProperties
<1>5. /\ triples_blocks \in Seq(Seq(Blocks)) /\ triples_blocks # <<>>
      /\ optional_blocks \in Seq(Seq(Group)) /\ optional_blocks # <<>>
    <2>1. "pattern" \in Inside
        BY DEF Inside
    <2> QED BY <1>1, <2>1, GroupIsOpen, StackTypes DEF Shape
<1>6. /\ visits # <<>> /\ visits \in Seq(Frame) /\ Tail(visits) \in Seq(Frame) /\ Head(visits).visit = "pattern"
      /\ AllFine(T, V) <=> Head(visits) \in FC /\ Range(Tail(visits)) \subseteq FC
      /\ Head(visits) \in FC <=> h \in FG /\ Range(Arg.gous) \subseteq FU
    BY <1>1, AllFineIs, HeadFine
<1>7. h \in FG <=> Range(bs) \subseteq FB /\ Range(os) \subseteq FG /\ Range(more) \subseteq FU
    <2>1. h \in FineAlone(T, V) <=> Range(bs) \subseteq FB
        BY <1>1, <1>2 DEF FineAlone
    <2> HIDE DEF h, bs, os, more, FB, FG, FU
    <2> QED BY <1>2, <2>1, FineGroupIs DEF h, bs, os, more, FB, FG, FU
<1> HIDE DEF h, bs, os, more, us, p, q, calls, FB, FG, FU, FC
<1>8. /\ EachIn(triples_blocks', FB) <=> EachIn(triples_blocks, FB) /\ Range(bs) \subseteq FB
      /\ TopIn(triples_blocks', FB) <=> TopIn(triples_blocks, FB) /\ Range(bs) \subseteq FB
    BY <1>1, <1>3, <1>5, EachInAdd
<1>9. /\ EachIn(optional_blocks', FG) <=> EachIn(optional_blocks, FG) /\ Range(os) \subseteq FG
      /\ TopIn(optional_blocks', FG) <=> TopIn(optional_blocks, FG) /\ Range(os) \subseteq FG
    BY <1>1, <1>3, <1>5, EachInAdd
<1>10. /\ triples_blocks' \in Seq(Seq(Blocks)) /\ triples_blocks' # <<>> /\ Top(triples_blocks') \in Seq(Blocks)
       /\ optional_blocks' \in Seq(Seq(Group)) /\ optional_blocks' # <<>> /\ Top(optional_blocks') \in Seq(Group)
    <2>1. triples_blocks' \in Seq(Seq(Blocks)) /\ triples_blocks' # <<>>
        BY <1>1, <1>3, <1>5, AddTopProperties
    <2>2. optional_blocks' \in Seq(Seq(Group)) /\ optional_blocks' # <<>>
        BY <1>1, <1>3, <1>5, AddTopProperties
    <2> QED BY <2>1, <2>2, TopProperties
<1>11. p \in Nat /\ q \in Nat
    BY <1>10, LenProperties DEF p, q
<1>12. TopIn(triples_blocks', FB) <=> Range(Top(triples_blocks')) \subseteq FB
    BY <1>10 DEF TopIn
<1>13. ASSUME us = <<>>
       PROVE  /\ calls \in Seq(Frame) /\ Follows(calls) /\ calls # <<>> /\ Head(calls).visit \in Onward
              /\ Range(calls) \subseteq FC <=> TopIn(triples_blocks', FB)
    <2>1. calls = Conjunction(Top(triples_blocks'))
        BY <1>13 DEF calls
    <2> QED BY <1>10, <1>12, <2>1, ConjunctionFine DEF FB, FC
<1>14. ASSUME us # <<>>
       PROVE  /\ calls \in Seq(Frame) /\ Follows(calls) /\ calls # <<>> /\ Head(calls).visit = "pattern"
              /\ Range(calls) \subseteq FC <=> Range(us) \subseteq FU
    <2>1. calls = BranchesOf(us, p, q)
        BY <1>14 DEF calls
    <2> QED BY <1>4, <1>11, <1>14, <2>1, BranchesFine, FollowsNone DEF FU, FC
<1>15. /\ calls \in Seq(Frame) /\ Follows(calls) /\ calls # <<>>
       /\ h \in FG /\ Range(Arg.gous) \subseteq FU /\ TopIn(triples_blocks, FB) => Range(calls) \subseteq FC
       /\ Range(calls) \subseteq FC => Range(us) \subseteq FU
    <2>1. us = <<>> => Range(us) = {}
        BY RangeEmpty
    <2> QED BY <1>4, <1>7, <1>8, <1>13, <1>14, <2>1
<1>16. AllFine(T, V)' <=> Range(calls) \subseteq FC /\ Range(Tail(visits)) \subseteq FC
    BY <1>1, <1>15, DoneCalls DEF FC
<1>17. /\ FineLevels(T, V)' <=> EachIn(triples_blocks', FB) /\ EachIn(optional_blocks', FG)
       /\ FineTop(T, V)' <=> TopIn(triples_blocks', FB) /\ TopIn(optional_blocks', FG)
       /\ FineLevels(T, V) <=> EachIn(triples_blocks, FB) /\ EachIn(optional_blocks, FG)
       /\ FineTop(T, V) <=> TopIn(triples_blocks, FB) /\ TopIn(optional_blocks, FG)
    BY DEF FineLevels, FineTop, FB, FG
<1>18. /\ AllFine(T, V) /\ FineTop(T, V) => FineLevels(T, V) /\ g \in FG
       /\ g \in FG => AllFine(T, V) /\ FineLevels(T, V)
    BY DEF Course, Toward, FG
<1>19. FineLevels(T, V) => FineTop(T, V)
    BY FineTops DEF Shape
<1>20. AllFine(T, V)' /\ FineTop(T, V)' => FineLevels(T, V)' /\ g \in FG
    <2> SUFFICES ASSUME AllFine(T, V)', FineTop(T, V)' PROVE FineLevels(T, V)' /\ g \in FG
        OBVIOUS
    <2>1. Range(bs) \subseteq FB /\ Range(os) \subseteq FG /\ FineTop(T, V)
        BY <1>8, <1>9, <1>17
    <2>2. Range(us) \subseteq FU /\ Range(Tail(visits)) \subseteq FC
        BY <1>15, <1>16
    <2>3. h \in FG /\ Range(Arg.gous) \subseteq FU
        BY <1>4, <1>7, <2>1, <2>2
    <2>4. AllFine(T, V)
        BY <1>6, <2>2, <2>3
    <2>5. FineLevels(T, V) /\ g \in FG
        BY <1>18, <2>1, <2>4
    <2> QED BY <1>8, <1>9, <1>17, <2>1, <2>5
<1>21. g \in FG => AllFine(T, V)' /\ FineLevels(T, V)'
    <2> SUFFICES ASSUME g \in FG PROVE AllFine(T, V)' /\ FineLevels(T, V)'
        OBVIOUS
    <2>1. AllFine(T, V) /\ FineLevels(T, V) /\ FineTop(T, V)
        BY <1>18, <1>19
    <2>2. h \in FG /\ Range(Arg.gous) \subseteq FU /\ Range(Tail(visits)) \subseteq FC
        BY <1>6, <2>1
    <2>3. AllFine(T, V)'
        BY <1>15, <1>16, <1>17, <2>1, <2>2
    <2>4. FineLevels(T, V)'
        BY <1>7, <1>8, <1>9, <1>17, <2>1, <2>2
    <2> QED BY <2>3, <2>4
<1>22. visits' # <<>> /\ Head(visits') = Head(calls) /\ Follows(visits')
    <2>1. Follows(Tail(visits))
        BY <1>6, FollowsTail DEF Course
    <2> QED BY <1>1, <1>6, <1>15, <2>1, HeadOfConcat, FollowsJoin DEF Do
<1>23. AllFine(T, V)' => /\ Head(visits').visit \in Onward => TopIn(triples_blocks', FB)
                         /\ Head(visits').visit \notin Settled
    <2>1. CASE us = <<>>
        <3>1. Head(visits').visit \notin Settled
            BY <1>13, <1>22, <2>1 DEF Onward, Inward, Settled
        <3> QED BY <1>13, <1>16, <2>1, <3>1
    <2>2. CASE us # <<>>
        BY <1>14, <1>22, <2>2 DEF Onward, Inward, Settled
    <2> QED BY <2>1, <2>2
<1>24. Toward(T, V, g)'
    <2>1. (AllFine(T, V) /\ FineTop(T, V) => FineLevels(T, V) /\ g \in FineGroups(T, V))'
        BY <1>20 DEF FG, FineGroups, FineAlone
    <2>2. (g \in FineGroups(T, V) => AllFine(T, V) /\ FineLevels(T, V))'
        BY <1>21 DEF FG, FineGroups, FineAlone
    <2>3. (visits # <<>> /\ AllFine(T, V) =>
              /\ Head(visits).visit \in Onward => TopIn(triples_blocks, FineBlocks(T, V))
              /\ Head(visits).visit \in Settled => FineTop(T, V))'
        BY <1>23 DEF FB
    <2> QED BY <2>1, <2>2, <2>3 DEF Toward
<1> QED BY <1>22, <1>24 DEF Course

\* With every visit, unless it throws, what is to be done stays fine where the
\* query is.
LEMMA VisitCourse ==
    ASSUME Shape, GraphType', NEW CONSTANT T, NEW CONSTANT V, NEW CONSTANT g, Course(T, V, g),
           visits # <<>> /\ Head(visits).visit \in Inward => Judges(prefixes, T, V),
           Visit, error' = "none"
    PROVE  Course(T, V, g)'
<1>1. CASE visitTriplesSameSubjectPath \/ visitPath \/ visitVerbPath \/ visitObject
    <2>1. Judges(prefixes, T, V)
        BY <1>1 DEF visitTriplesSameSubjectPath, visitPath, visitVerbPath, visitObject, Calling, Inward
    <2> QED BY <1>1, <2>1, SubjectCourse, PathCourse, VerbCourse, ObjectCourse
<1>2. CASE visitTriplesBlock \/ visitTriplesNode \/ visitPropertyListPath
    BY <1>2, BlockCourse, TriplesNodeCourse, PropertyCourse
<1>3. CASE visitWellDesignedPattern \/ Resize \/ VisitOptionals \/ CloseConjunction
    BY <1>3, PatternCourse, ResizeCourse, DependCourse, CloseCourse
<1>4. CASE EnterOptional \/ visitWhereClause \/ LeaveOptional \/ EndWhereClause
    BY <1>4, EnterCourse, EndCourse
<1>5. CASE visitPrologue \/ visitAsterisk \/ visitSelectClause \/ visitSelectVariable
    BY <1>5, PrologueCourse, AsteriskCourse, SelectCourse, SelectVariableCourse
<1>6. CASE visitSubquery \/ visitSubSelect
    BY <1>6 DEF visitSubquery, visitSubSelect, Throw, Thrown, Crashed
<1> QED BY <1>1, <1>2, <1>3, <1>4, <1>5, <1>6 DEF Visit
=============================================================================
