----------------------------- MODULE AnswerProofs -----------------------------
(***************************************************************************)
(* The guarantees of Answer for queries of any length, any multiplicities  *)
(* and any size of the writer's buffer.  They rest on one equation: what   *)
(* the client has, what is on its way and what the writer holds are,       *)
(* joined, the document up to the entries seen, unless a write has failed. *)
(***************************************************************************)
EXTENDS Answer, SequenceFacts

Part  == Int \X Int
Chunk == [chunk : Seq(Part), called_back : BOOLEAN]

\* Solutions, Document without its tail and Posted, of given values.
Entry(e, n) == [j \in 1..e[n] |-> <<n, j>>]
Begun(e, n) == <<Opening>> \o FlattenSeq([i \in 1..n |-> Entry(e, i)])
Joined(b)   == FlattenSeq([i \in 1..Len(b) |-> b[i].chunk])

Pcs == {"start", "begin", "eval", "full", "check", "close", "returned", "thrown"}

TypeOK == /\ endpoint \in Endpoints
          /\ entries \in Seq(1..MaxValue)
          /\ ask_ \in BOOLEAN
          /\ pc \in Pcs
          /\ at \in 0..Len(entries)
          /\ buffer \in Seq(Part) /\ count \in Nat
          /\ outbox \in Seq(Chunk)
          /\ connected \in BOOLEAN /\ client \in Seq(Part)
          /\ status \in {"none", "200", "400"} /\ done \in BOOLEAN
          /\ expired \in BOOLEAN /\ cut \in BOOLEAN

\* Where the task is, and what it has done by then.
TaskInv == /\ ask_ = FALSE
           /\ pc \in {"start", "begin"} =>
                  at = 0 /\ buffer = <<>> /\ client = <<>> /\ outbox = <<>>
           /\ pc \in {"full", "check"} => endpoint = "stream"
           /\ done \/ status = "400" => pc = "returned"
           /\ status = "200" => done \/ endpoint = "stream"
           /\ pc = "close" => /\ at = Len(entries) \/ expired
                              /\ cut = (at < Len(entries))

SparqlInv ==
    endpoint = "sparql" =>
        /\ pc \in {"eval", "close"} => buffer = Begun(entries, at)
        /\ status = "200" => /\ ~cut /\ at = Len(entries)
                             /\ buffer = Begun(entries, at) \o <<Closing>>

CountInv == endpoint = "count" => count + 1 = Len(Begun(entries, at))

\* The equation, and what is left of it when a write has failed.
StreamInv ==
    endpoint = "stream" /\ status # "400" =>
        /\ connected /\ pc \in {"eval", "full", "close"} =>
               (client \o Joined(outbox)) \o buffer = Begun(entries, at)
        /\ connected /\ pc = "check" => client \o Joined(outbox) = Begun(entries, at)
        /\ connected /\ done =>
               client \o Joined(outbox) = Begun(entries, at) \o <<Closing>>
        /\ connected /\ ~done /\ pc \in {"returned", "thrown"} =>
               IsPrefix(client \o Joined(outbox), Begun(entries, at))
        /\ ~done /\ pc \notin {"start", "begin"} => IsPrefix(client, Begun(entries, at))
        /\ done => IsPrefix(client, Begun(entries, at) \o <<Closing>>)
        /\ done => at = Len(entries) \/ expired

IInv == TypeOK /\ TaskInv /\ SparqlInv /\ CountInv /\ StreamInv

-----------------------------------------------------------------------------
(* The document.                                                           *)

LEMMA PartsAreParts == Opening \in Part /\ Closing \in Part
BY AnswerAssumption DEF Opening, Closing, Part

LEMMA EntryType ==
    ASSUME NEW e \in Seq(1..MaxValue), NEW n \in 1..Len(e)
    PROVE  Entry(e, n) \in Seq(Part) /\ Len(Entry(e, n)) = e[n] /\ e[n] \in Nat
<1>1. e[n] \in Nat /\ n \in Int
    <2>1. e[n] \in 1..MaxValue
        BY ElementOfSeq
    <2> QED BY <2>1, AnswerAssumption, LenProperties
<1>2. \A j \in 1..e[n] : <<n, j>> \in Part
    BY <1>1 DEF Part
<1>3. Entry(e, n) \in [1..e[n] -> Part]
    BY <1>2 DEF Entry
<1> QED BY <1>1, <1>3

LEMMA EntriesType ==
    ASSUME NEW e \in Seq(1..MaxValue), NEW n \in 0..Len(e)
    PROVE  [i \in 1..n |-> Entry(e, i)] \in Seq(Seq(Part))
<1>1. Len(e) \in Nat
    BY LenProperties
<1>2. \A i \in 1..n : i \in 1..Len(e)
    BY <1>1
<1>3. \A i \in 1..n : Entry(e, i) \in Seq(Part)
    BY <1>2, EntryType
<1>4. [i \in 1..n |-> Entry(e, i)] \in [1..n -> Seq(Part)]
    BY <1>3
<1> QED BY <1>1, <1>4

LEMMA BegunType ==
    ASSUME NEW e \in Seq(1..MaxValue), NEW n \in 0..Len(e)
    PROVE  /\ Begun(e, n) \in Seq(Part)
           /\ Begun(e, n) \o <<Closing>> \in Seq(Part)
           /\ Len(Begun(e, n) \o <<Closing>>) = Len(Begun(e, n)) + 1
<1>1. FlattenSeq([i \in 1..n |-> Entry(e, i)]) \in Seq(Part)
    BY EntriesType, FlattenSeqType
<1>2. <<Opening>> \in Seq(Part) /\ <<Closing>> \in Seq(Part) /\ Len(<<Closing>>) = 1
    BY PartsAreParts
<1>3. Begun(e, n) \in Seq(Part)
    BY <1>1, <1>2, ConcatProperties DEF Begun
<1> QED BY <1>2, <1>3, ConcatProperties

LEMMA BegunNone == ASSUME NEW e PROVE Begun(e, 0) = <<Opening>> /\ Len(Begun(e, 0)) = 1
<1>1. [i \in 1..0 |-> Entry(e, i)] = <<>>
    OBVIOUS
<1>2. <<Opening>> \in Seq(Part)
    BY PartsAreParts
<1>3. <<Opening>> \o <<>> = <<Opening>>
    BY <1>2, ConcatEmptySeq
<1>4. Begun(e, 0) = <<Opening>>
    BY <1>1, <1>3, FlattenSeqEmpty DEF Begun
<1> QED BY <1>4

\* The document grows by the solutions of the next entry.
LEMMA BegunNext ==
    ASSUME NEW e \in Seq(1..MaxValue), NEW n \in 0..(Len(e) - 1)
    PROVE  /\ Begun(e, n + 1) = Begun(e, n) \o Entry(e, n + 1)
           /\ Len(Begun(e, n + 1)) = Len(Begun(e, n)) + e[n + 1]
<1> DEFINE s == [i \in 1..n |-> Entry(e, i)]
           t == [i \in 1..(n + 1) |-> Entry(e, i)]
           x == Entry(e, n + 1)
<1>1. Len(e) \in Nat /\ n \in Nat /\ n \in 0..Len(e) /\ n + 1 \in 0..Len(e)
      /\ n + 1 \in 1..Len(e)
    BY LenProperties
<1>2. s \in Seq(Seq(Part)) /\ t \in Seq(Seq(Part)) /\ x \in Seq(Part) /\ Len(x) = e[n + 1]
    BY <1>1, EntriesType, EntryType
<1>3. Len(s) = n /\ Len(t) = n + 1
    BY <1>1
<1>4. t = Append(s, x)
    <2>1. /\ Append(s, x) \in Seq(Seq(Part)) /\ Len(Append(s, x)) = n + 1
          /\ \A i \in 1..n : Append(s, x)[i] = s[i]
          /\ Append(s, x)[n + 1] = x
        BY <1>2, <1>3, AppendProperties
    <2>2. \A i \in 1..(n + 1) : t[i] = Append(s, x)[i]
        <3> SUFFICES ASSUME NEW i \in 1..(n + 1) PROVE t[i] = Append(s, x)[i]
            OBVIOUS
        <3>1. CASE i = n + 1
            BY <3>1, <2>1
        <3>2. CASE i # n + 1
            <4>1. i \in 1..n
                BY <3>2, <1>1
            <4> QED BY <4>1, <2>1
        <3> QED BY <3>1, <3>2
    <2> HIDE DEF s, t, x
    <2> QED BY <2>1, <2>2, <1>2, <1>3, SeqEqual
<1> HIDE DEF s, t, x
<1>5. FlattenSeq(t) = FlattenSeq(s) \o x /\ FlattenSeq(s) \in Seq(Part)
    BY <1>2, <1>4, FlattenSeqAppend, FlattenSeqType
<1>6. <<Opening>> \in Seq(Part)
    BY PartsAreParts
<1>7. (<<Opening>> \o FlattenSeq(s)) \o x = <<Opening>> \o (FlattenSeq(s) \o x)
    BY <1>2, <1>5, <1>6, ConcatAssociative
<1>8. Begun(e, n + 1) = Begun(e, n) \o x
    BY <1>5, <1>7 DEF Begun, s, t
<1>9. Begun(e, n) \in Seq(Part)
    BY <1>1, BegunType
<1>10. Len(Begun(e, n) \o x) = Len(Begun(e, n)) + Len(x)
    BY <1>2, <1>9, ConcatProperties
<1> QED BY <1>2, <1>8, <1>10 DEF x

\* The operators of Answer are those above.
LEMMA DocumentIs == ASSUME NEW n PROVE Document(n) = Begun(entries, n) \o <<Closing>>
BY DEF Document, Begun, Entry, Solutions

LEMMA PostedIs == Posted = Joined(outbox)
BY DEF Posted, Joined

-----------------------------------------------------------------------------
(* What is posted.                                                         *)

LEMMA ChunksType ==
    ASSUME NEW b \in Seq(Chunk)
    PROVE  /\ [i \in 1..Len(b) |-> b[i].chunk] \in Seq(Seq(Part))
           /\ Len([i \in 1..Len(b) |-> b[i].chunk]) = Len(b)
<1>1. Len(b) \in Nat
    BY LenProperties
<1>2. \A i \in 1..Len(b) : b[i] \in Chunk
    BY ElementOfSeq
<1>3. \A i \in 1..Len(b) : b[i].chunk \in Seq(Part)
    BY <1>2 DEF Chunk
<1>4. [i \in 1..Len(b) |-> b[i].chunk] \in [1..Len(b) -> Seq(Part)]
    BY <1>3
<1> QED BY <1>1, <1>4

LEMMA JoinedType == ASSUME NEW b \in Seq(Chunk) PROVE Joined(b) \in Seq(Part)
BY ChunksType, FlattenSeqType DEF Joined

LEMMA JoinedNone == Joined(<<>>) = <<>>
<1>1. [i \in 1..Len(<<>>) |-> <<>>[i].chunk] = <<>>
    OBVIOUS
<1> QED BY <1>1, FlattenSeqEmpty DEF Joined

LEMMA JoinedAppend ==
    ASSUME NEW b \in Seq(Chunk), NEW c \in Chunk
    PROVE  Joined(Append(b, c)) = Joined(b) \o c.chunk
<1> DEFINE u == Append(b, c)
           s == [i \in 1..Len(b) |-> b[i].chunk]
           t == [i \in 1..Len(u) |-> u[i].chunk]
           x == c.chunk
<1>1. /\ u \in Seq(Chunk) /\ Len(u) = Len(b) + 1 /\ Len(b) \in Nat
      /\ \A i \in 1..Len(b) : u[i] = b[i]
      /\ u[Len(b) + 1] = c
    BY AppendProperties, LenProperties
<1> HIDE DEF u
<1>2. s \in Seq(Seq(Part)) /\ t \in Seq(Seq(Part)) /\ Len(s) = Len(b) /\ Len(t) = Len(b) + 1
    BY <1>1, ChunksType
<1>3. x \in Seq(Part)
    BY DEF Chunk
<1>4. t = Append(s, x)
    <2>1. /\ Append(s, x) \in Seq(Seq(Part)) /\ Len(Append(s, x)) = Len(b) + 1
          /\ \A i \in 1..Len(b) : Append(s, x)[i] = s[i]
          /\ Append(s, x)[Len(b) + 1] = x
        BY <1>2, <1>3, AppendProperties
    <2>2. \A i \in 1..(Len(b) + 1) : t[i] = Append(s, x)[i]
        <3> SUFFICES ASSUME NEW i \in 1..(Len(b) + 1) PROVE t[i] = Append(s, x)[i]
            OBVIOUS
        <3>1. CASE i = Len(b) + 1
            BY <3>1, <2>1, <1>1
        <3>2. CASE i # Len(b) + 1
            <4>1. i \in 1..Len(b) /\ i \in 1..Len(u)
                BY <3>2, <1>1
            <4>2. t[i] = u[i].chunk /\ s[i] = b[i].chunk
                BY <4>1
            <4> QED BY <4>1, <4>2, <2>1, <1>1
        <3> QED BY <3>1, <3>2
    <2> HIDE DEF s, t, x
    <2> QED BY <2>1, <2>2, <1>2, SeqEqual
<1> HIDE DEF s, t, x
<1>5. FlattenSeq(t) = FlattenSeq(s) \o x
    BY <1>2, <1>3, <1>4, FlattenSeqAppend
<1> QED BY <1>5 DEF Joined, s, t, x, u

\* The I/O thread takes the first chunk.
LEMMA JoinedTail ==
    ASSUME NEW b \in Seq(Chunk), b # <<>>
    PROVE  /\ b[1] \in Chunk /\ b[1].chunk \in Seq(Part) /\ Tail(b) \in Seq(Chunk)
           /\ Joined(b) = b[1].chunk \o Joined(Tail(b))
<1> DEFINE u == Tail(b)
           s == [i \in 1..Len(b) |-> b[i].chunk]
           t == [i \in 1..Len(u) |-> u[i].chunk]
<1>1. /\ u \in Seq(Chunk) /\ Len(u) = Len(b) - 1 /\ Len(b) \in Nat \ {0}
      /\ \A i \in 1..Len(u) : u[i] = b[i + 1]
    BY HeadTailProperties, EmptySeq
<1>2. b[1] \in Chunk /\ b[1].chunk \in Seq(Part)
    <2>1. b[1] \in Chunk
        BY <1>1, ElementOfSeq
    <2> QED BY <2>1 DEF Chunk
<1> HIDE DEF u
<1>3. s \in Seq(Seq(Part)) /\ t \in Seq(Seq(Part)) /\ Len(s) = Len(b) /\ Len(t) = Len(b) - 1
    BY <1>1, ChunksType
<1>4. s # <<>>
    BY <1>1, <1>3, EmptyIsShort
<1>5. Head(s) = b[1].chunk
    BY <1>1, <1>3
<1>6. Tail(s) = t
    <2>1. /\ Tail(s) \in Seq(Seq(Part)) /\ Len(Tail(s)) = Len(b) - 1
          /\ \A i \in 1..(Len(b) - 1) : Tail(s)[i] = s[i + 1]
        BY <1>3, <1>4, HeadTailProperties
    <2>2. \A i \in 1..(Len(b) - 1) : Tail(s)[i] = t[i]
        <3> SUFFICES ASSUME NEW i \in 1..(Len(b) - 1) PROVE Tail(s)[i] = t[i]
            OBVIOUS
        <3>1. i + 1 \in 1..Len(b) /\ i \in 1..Len(u)
            BY <1>1
        <3>2. s[i + 1] = b[i + 1].chunk /\ t[i] = u[i].chunk
            BY <3>1
        <3> QED BY <3>1, <3>2, <2>1, <1>1
    <2> HIDE DEF s, t
    <2> QED BY <2>1, <2>2, <1>3, SeqEqual
<1> HIDE DEF s, t
<1>7. FlattenSeq(s) = Head(s) \o FlattenSeq(Tail(s))
    BY <1>3, <1>4, FlattenSeqHead
<1> QED BY <1>1, <1>2, <1>5, <1>6, <1>7 DEF Joined, s, t, u

-----------------------------------------------------------------------------
(* The task's steps.                                                       *)

LEMMA InitEstablishes == Init => IInv
<1> SUFFICES ASSUME Init PROVE IInv
    OBVIOUS
<1>1. PICK n \in 0..MaxEntries : entries \in [1..n -> 1..MaxValue]
    BY DEF Init
<1>2. n \in Nat
    BY AnswerAssumption
<1>3. entries \in Seq(1..MaxValue) /\ Len(entries) \in Nat
    <2>1. entries \in Seq(1..MaxValue)
        BY <1>1, <1>2, SeqDef
    <2> QED BY <2>1, LenProperties
<1>4. /\ at = 0 /\ buffer = <<>> /\ client = <<>> /\ outbox = <<>> /\ ask_ = FALSE
      /\ pc = "start" /\ count = 0 /\ status = "none" /\ done = FALSE
      /\ connected = TRUE /\ expired = FALSE /\ cut = FALSE /\ endpoint \in Endpoints
    BY DEF Init
<1>5. TypeOK
    <2>1. <<>> \in Seq(Part) /\ <<>> \in Seq(Chunk)
        BY EmptySeq
    <2>2. at \in 0..Len(entries) /\ count \in Nat
        BY <1>3, <1>4
    <2> QED BY <1>3, <1>4, <2>1, <2>2 DEF TypeOK, Pcs
<1>6. TaskInv /\ SparqlInv /\ StreamInv
    BY <1>4 DEF TaskInv, SparqlInv, StreamInv
<1>7. CountInv
    BY <1>4, BegunNone DEF CountInv
<1> QED BY <1>5, <1>6, <1>7 DEF IInv

\* A step that posts a chunk or none keeps the types of what is posted.
LEMMA PostType ==
    ASSUME TypeOK, NEW c \in Seq(Part), NEW b \in BOOLEAN, Post(c, b)
    PROVE  /\ outbox' \in Seq(Chunk)
           /\ Joined(outbox') = Joined(outbox) \o c
<1> DEFINE r == [chunk |-> c, called_back |-> b]
<1>1. r \in Chunk /\ r.chunk = c
    BY DEF Chunk
<1>2. outbox' = Append(outbox, r) /\ outbox \in Seq(Chunk)
    BY DEF Post, TypeOK
<1> HIDE DEF r
<1> QED BY <1>1, <1>2, AppendProperties, JoinedAppend

LEMMA ParseFailsPreserves == ASSUME IInv, ParseFails PROVE IInv'
<1> USE DEF IInv
<1>1. /\ pc' = "returned" /\ status' = "400" /\ done' = TRUE
      /\ UNCHANGED <<endpoint, entries, ask_, at, buffer, count, connected, client, expired, cut>>
    BY DEF ParseFails, request, writer, net, clock
<1>2. outbox' \in Seq(Chunk)
    <2>1. Post(<<>>, FALSE) /\ <<>> \in Seq(Part)
        BY EmptySeq DEF ParseFails
    <2> QED BY <2>1, PostType
<1>3. TypeOK'
    BY <1>1, <1>2 DEF TypeOK, Pcs
<1>4. TaskInv' /\ StreamInv'
    BY <1>1 DEF TaskInv, StreamInv
<1>5. SparqlInv' /\ CountInv'
    BY <1>1 DEF SparqlInv, CountInv
<1> QED BY <1>3, <1>4, <1>5

LEMMA ParsedPreserves == ASSUME IInv, Parsed PROVE IInv'
<1> USE DEF IInv
<1>1. /\ pc = "start" /\ pc' = "begin" /\ ask_' = FALSE
      /\ UNCHANGED <<endpoint, entries, at, buffer, count, outbox, connected, client, status,
                     done, expired, cut>>
    BY DEF Parsed, request, writer, net, answer, clock
<1>2. TypeOK'
    BY <1>1 DEF TypeOK, Pcs
<1>3. TaskInv' /\ SparqlInv' /\ CountInv'
    BY <1>1 DEF TaskInv, SparqlInv, CountInv
<1>4. StreamInv'
    BY <1>1 DEF StreamInv, TaskInv
<1> QED BY <1>2, <1>3, <1>4

LEMMA BeginPreserves == ASSUME IInv, Begin PROVE IInv'
<1> USE DEF IInv
<1>1. /\ pc = "begin" /\ pc' = "eval"
      /\ buffer' = IF endpoint = "count" THEN <<>> ELSE <<Opening>>
      /\ UNCHANGED <<endpoint, entries, ask_, at, count, outbox, connected, client, status,
                     done, expired, cut>>
    BY DEF Begin, request, net, answer, clock, TaskInv
<1>2. at = 0 /\ client = <<>> /\ outbox = <<>> /\ ~done /\ status \notin {"400"}
    BY <1>1 DEF TaskInv
<1>3. <<Opening>> \in Seq(Part) /\ <<>> \in Seq(Part)
    BY PartsAreParts
<1>4. TypeOK'
    BY <1>1, <1>3 DEF TypeOK, Pcs
<1>5. TaskInv'
    BY <1>1, <1>2 DEF TaskInv
<1>6. Begun(entries', at') = <<Opening>>
    BY <1>1, <1>2, BegunNone
<1>7. SparqlInv'
    BY <1>1, <1>2, <1>6 DEF SparqlInv, TaskInv
<1>8. CountInv'
    BY <1>1 DEF CountInv
<1>9. StreamInv'
    <2>1. (<<>> \o <<>>) \o <<Opening>> = <<Opening>> /\ <<>> \o <<Opening>> = <<Opening>>
        BY <1>3, ConcatEmptySeq
    <2>2. IsPrefix(<<>>, <<Opening>>)
        BY <1>3, <2>1, PrefixOfConcat
    <2> QED BY <1>1, <1>2, <1>6, <2>1, <2>2, JoinedNone DEF StreamInv
<1> QED BY <1>4, <1>5, <1>7, <1>8, <1>9

\* One more entry: the writer's document grows with what it owes the client.
LEMMA NextEntryPreserves == ASSUME IInv, NextEntry PROVE IInv'
<1> USE DEF IInv
<1> DEFINE E == Entry(entries, at + 1)
<1>1. /\ pc = "eval" /\ at < Len(entries) /\ at' = at + 1
      /\ UNCHANGED <<endpoint, entries, ask_, outbox, connected, client, status, done,
                     expired, cut>>
      /\ ~done /\ status # "400"
    BY DEF NextEntry, request, net, answer, clock, TaskInv
<1>2. /\ entries \in Seq(1..MaxValue) /\ Len(entries) \in Nat
      /\ at \in 0..Len(entries) /\ at \in 0..(Len(entries) - 1) /\ at + 1 \in 1..Len(entries)
      /\ buffer \in Seq(Part) /\ count \in Nat
    BY <1>1, LenProperties DEF TypeOK
<1>3. E \in Seq(Part) /\ Len(E) = entries[at + 1] /\ entries[at + 1] \in Nat
    BY <1>2, EntryType
<1>4. /\ Begun(entries, at) \in Seq(Part)
      /\ Begun(entries', at') = Begun(entries, at) \o E
      /\ Len(Begun(entries', at')) = Len(Begun(entries, at)) + entries[at + 1]
    BY <1>1, <1>2, BegunType, BegunNext
<1>5. /\ endpoint = "count" => /\ count' = count + entries[at + 1]
                               /\ buffer' = buffer /\ pc' = "eval"
      /\ endpoint # "count" => /\ buffer' = buffer \o E /\ count' = count
                               /\ pc' = "eval" \/ (pc' = "full" /\ endpoint = "stream")
    BY <1>1 DEF NextEntry, Add, Solutions, Entry
<1> HIDE DEF E
<1>6. TypeOK'
    <2>1. buffer' \in Seq(Part)
        BY <1>2, <1>3, <1>5, ConcatProperties
    <2>2. count' \in Nat
        BY <1>2, <1>3, <1>5
    <2>3. at' \in 0..Len(entries) /\ pc' \in Pcs
        BY <1>1, <1>2, <1>5 DEF Pcs
    <2> QED BY <1>1, <2>1, <2>2, <2>3 DEF TypeOK
<1>7. TaskInv'
    BY <1>1, <1>5 DEF TaskInv
<1>8. SparqlInv'
    BY <1>1, <1>4, <1>5 DEF SparqlInv, TaskInv
<1>9. CountInv'
    <2>1. Len(Begun(entries, at)) \in Nat
        BY <1>4, LenProperties
    <2> QED BY <1>1, <1>2, <1>3, <1>4, <1>5, <2>1 DEF CountInv
<1>10. StreamInv'
    <2> SUFFICES ASSUME endpoint = "stream"
                 PROVE  /\ connected => (client \o Joined(outbox)) \o buffer' = Begun(entries', at')
                        /\ IsPrefix(client, Begun(entries', at'))
        BY <1>1, <1>5 DEF StreamInv
    <2>1. client \in Seq(Part) /\ Joined(outbox) \in Seq(Part)
        BY JoinedType DEF TypeOK
    <2>2. client \o Joined(outbox) \in Seq(Part)
        BY <2>1, ConcatProperties
    <2>3. buffer' = buffer \o E
        BY <1>5
    <2>4. ((client \o Joined(outbox)) \o buffer) \o E = (client \o Joined(outbox)) \o (buffer \o E)
        <3> DEFINE a == client \o Joined(outbox)
        <3>1. a \in Seq(Part) /\ buffer \in Seq(Part) /\ E \in Seq(Part)
            BY <2>2, <1>2, <1>3
        <3> HIDE DEF a
        <3>2. (a \o buffer) \o E = a \o (buffer \o E)
            BY ONLY <3>1, ConcatAssociative, SMTT(40)
        <3> QED BY <3>2 DEF a
    <2>5. connected => (client \o Joined(outbox)) \o buffer = Begun(entries, at)
        BY <1>1 DEF StreamInv
    <2>6. IsPrefix(client, Begun(entries, at))
        BY <1>1 DEF StreamInv
    <2>7. IsPrefix(client, Begun(entries, at) \o E)
        BY <2>1, <2>6, <1>3, <1>4, PrefixExtends
    <2> QED BY <1>4, <2>3, <2>4, <2>5, <2>7
<1> QED BY <1>6, <1>7, <1>8, <1>9, <1>10

\* Steps that touch neither the document nor what is sent of it.
LEMMA EvalEndsPreserves == ASSUME IInv, EvalEnds PROVE IInv'
<1> USE DEF IInv
<1>1. /\ pc = "eval" /\ pc' = "close" /\ cut' = (at < Len(entries))
      /\ at = Len(entries) \/ expired
      /\ UNCHANGED <<endpoint, entries, ask_, at, buffer, count, outbox, connected, client,
                     status, done, expired>>
    BY DEF EvalEnds, request, writer, net, answer
<1>2. TypeOK'
    BY <1>1 DEF TypeOK, Pcs
<1>3. TaskInv' /\ CountInv'
    BY <1>1 DEF TaskInv, CountInv
<1>4. SparqlInv' /\ StreamInv'
    BY <1>1 DEF TaskInv, SparqlInv, StreamInv
<1> QED BY <1>2, <1>3, <1>4

LEMMA EvalThrowsPreserves == ASSUME IInv, EvalThrows PROVE IInv'
<1> USE DEF IInv
<1>1. /\ pc = "eval" /\ pc' = "thrown"
      /\ UNCHANGED <<endpoint, entries, ask_, at, buffer, count, outbox, connected, client,
                     status, done, expired, cut>>
    BY DEF EvalThrows, request, writer, net, answer, clock
<1>2. TypeOK'
    BY <1>1 DEF TypeOK, Pcs
<1>3. TaskInv' /\ CountInv'
    BY <1>1 DEF TaskInv, CountInv
<1>4. SparqlInv'
    BY <1>1 DEF TaskInv, SparqlInv
<1>5. StreamInv'
    <2>1. buffer \in Seq(Part) /\ client \o Joined(outbox) \in Seq(Part)
        BY JoinedType, ConcatProperties DEF TypeOK
    <2>2. IsPrefix(client \o Joined(outbox), (client \o Joined(outbox)) \o buffer)
        BY <2>1, PrefixOfConcat
    <2> QED BY <1>1, <2>2 DEF StreamInv, TaskInv
<1> QED BY <1>2, <1>3, <1>4, <1>5

LEMMA ExpirePreserves == ASSUME IInv, Expire PROVE IInv'
<1> USE DEF IInv
<1>1. /\ expired' = TRUE
      /\ UNCHANGED <<endpoint, entries, ask_, pc, at, buffer, count, outbox, connected, client,
                     status, done, cut>>
    BY DEF Expire, request, writer, net, answer
<1>2. TypeOK'
    BY <1>1 DEF TypeOK, Pcs
<1>3. TaskInv' /\ CountInv'
    BY <1>1 DEF TaskInv, CountInv
<1>4. SparqlInv' /\ StreamInv'
    BY <1>1 DEF SparqlInv, StreamInv
<1> QED BY <1>2, <1>3, <1>4

\* The buffer goes to the I/O thread: what was held is now on its way.
LEMMA FlushChunkPreserves == ASSUME IInv, FlushChunk PROVE IInv'
<1> USE DEF IInv
<1>1. /\ pc = "full" /\ pc' = "check" /\ Post(buffer, TRUE) /\ status' = "200"
      /\ UNCHANGED <<endpoint, entries, ask_, at, buffer, count, connected, client, done,
                     expired, cut>>
      /\ endpoint = "stream" /\ status # "400" /\ ~done
    BY DEF FlushChunk, request, writer, net, clock, TaskInv
<1>2. outbox' \in Seq(Chunk) /\ Joined(outbox') = Joined(outbox) \o buffer
    BY <1>1, PostType DEF TypeOK
<1>3. TypeOK'
    BY <1>1, <1>2 DEF TypeOK, Pcs
<1>4. TaskInv' /\ SparqlInv' /\ CountInv'
    BY <1>1 DEF TaskInv, SparqlInv, CountInv
<1>5. StreamInv'
    <2>1. client \in Seq(Part) /\ Joined(outbox) \in Seq(Part) /\ buffer \in Seq(Part)
        BY JoinedType DEF TypeOK
    <2>2. (client \o Joined(outbox)) \o buffer = client \o (Joined(outbox) \o buffer)
        BY <2>1, ConcatAssociative
    <2> QED BY <1>1, <1>2, <2>2 DEF StreamInv
<1> QED BY <1>3, <1>4, <1>5

\* The buffer is given up: either the write is known to have failed, or it
\* starts anew.
LEMMA CheckWritePreserves == ASSUME IInv, CheckWrite PROVE IInv'
<1> USE DEF IInv
<1>1. /\ pc = "check"
      /\ \/ pc' = "returned" /\ buffer' = buffer
         \/ pc' = "eval" /\ buffer' = <<>>
      /\ UNCHANGED <<endpoint, entries, ask_, at, count, outbox, connected, client, status,
                     done, expired, cut>>
      /\ endpoint = "stream" /\ ~done
    BY DEF CheckWrite, request, net, answer, clock, TaskInv
<1>2. TypeOK'
    BY <1>1, EmptySeq DEF TypeOK, Pcs
<1>3. TaskInv' /\ SparqlInv' /\ CountInv'
    BY <1>1 DEF TaskInv, SparqlInv, CountInv
<1>4. StreamInv'
    <2>1. client \in Seq(Part) /\ Joined(outbox) \in Seq(Part)
        BY JoinedType DEF TypeOK
    <2>2. client \o Joined(outbox) \in Seq(Part)
        BY <2>1, ConcatProperties
    <2>3. (client \o Joined(outbox)) \o <<>> = client \o Joined(outbox)
        BY <2>2, ConcatEmptySeq
    <2>4. IsPrefix(client \o Joined(outbox), client \o Joined(outbox))
        BY <2>2, PrefixOfItself
    <2> QED BY <1>1, <2>3, <2>4 DEF StreamInv
<1> QED BY <1>2, <1>3, <1>4

\* close(): the tail, and everything that is left goes to the I/O thread.
LEMMA ClosePreserves == ASSUME IInv, Close PROVE IInv'
<1> USE DEF IInv
<1> DEFINE D == Begun(entries, at)
<1>1. /\ pc = "close" /\ ~done /\ status # "400"
      /\ at = Len(entries) \/ expired
      /\ cut = (at < Len(entries))
      /\ UNCHANGED <<endpoint, entries, ask_, at, count, connected, client, expired, cut>>
    BY DEF Close, request, net, clock, TaskInv
<1>2. /\ buffer \in Seq(Part) /\ <<Closing>> \in Seq(Part) /\ D \in Seq(Part)
      /\ D \o <<Closing>> \in Seq(Part) /\ Len(entries) \in Nat
    BY PartsAreParts, BegunType, LenProperties DEF TypeOK
<1>3. buffer' = IF endpoint = "count" THEN buffer ELSE buffer \o <<Closing>>
    BY <1>2, PartsAreParts, AppendIsConcat DEF Close
<1>4. buffer' \in Seq(Part)
    BY <1>2, <1>3, ConcatProperties
<1>5. \/ /\ endpoint = "sparql" /\ expired
         /\ pc' = "thrown" /\ UNCHANGED <<status, done, outbox>>
      \/ /\ ~(endpoint = "sparql" /\ expired)
         /\ pc' = "returned" /\ status' = "200" /\ done' = TRUE
         /\ Post(buffer', FALSE)
    BY DEF Close, answer
<1>6. \/ outbox' = outbox
      \/ outbox' \in Seq(Chunk) /\ Joined(outbox') = Joined(outbox) \o buffer'
    BY <1>4, <1>5, PostType
<1>7. TypeOK'
    BY <1>1, <1>4, <1>5, <1>6 DEF TypeOK, Pcs
<1>8. TaskInv' /\ CountInv'
    <2>1. CASE pc' = "thrown" /\ UNCHANGED <<status, done, outbox>>
        BY <1>1, <2>1 DEF TaskInv, CountInv
    <2>2. CASE pc' = "returned" /\ done' = TRUE
        BY <1>1, <2>2 DEF TaskInv, CountInv
    <2> QED BY <1>5, <2>1, <2>2
<1>9. SparqlInv'
    <2> SUFFICES ASSUME endpoint = "sparql", status' = "200"
                 PROVE  ~cut /\ at = Len(entries) /\ buffer' = D \o <<Closing>>
        BY <1>1, <1>5 DEF SparqlInv
    <2>1. status # "200"
        BY <1>1 DEF TaskInv
    <2>2. ~expired
        BY <1>5, <2>1
    <2>3. buffer = D
        BY <1>1 DEF SparqlInv
    <2>4. at = Len(entries) /\ ~cut
        <3>1. at = Len(entries)
            BY <1>1, <2>2
        <3>2. ~(at < Len(entries))
            BY <3>1, <1>2
        <3>3. cut = (at < Len(entries))
            BY <1>1
        <3> QED BY ONLY <3>1, <3>2, <3>3, Zenon
    <2>5. buffer' = D \o <<Closing>>
        BY <1>3, <2>3
    <2> QED BY <2>4, <2>5
<1>10. StreamInv'
    <2> SUFFICES ASSUME endpoint = "stream"
                 PROVE  /\ connected => client \o Joined(outbox') = D \o <<Closing>>
                        /\ IsPrefix(client, D \o <<Closing>>)
        BY <1>1, <1>5 DEF StreamInv
    <2>1. client \in Seq(Part) /\ Joined(outbox) \in Seq(Part)
        BY JoinedType DEF TypeOK
    <2>2. client \o Joined(outbox) \in Seq(Part)
        BY <2>1, ConcatProperties
    <2>3. Joined(outbox') = Joined(outbox) \o (buffer \o <<Closing>>)
        BY <1>3, <1>4, <1>5, PostType
    <2>4. client \o Joined(outbox') = (client \o Joined(outbox)) \o (buffer \o <<Closing>>)
        <3> DEFINE J == Joined(outbox)
                   b == buffer \o <<Closing>>
        <3>1. client \in Seq(Part) /\ J \in Seq(Part) /\ b \in Seq(Part)
            BY <2>1, <1>2, ConcatProperties
        <3> HIDE DEF J, b
        <3>2. (client \o J) \o b = client \o (J \o b)
            BY ONLY <3>1, ConcatAssociative, SMTT(40)
        <3> QED BY <3>2, <2>3 DEF J, b
    <2>5. (client \o Joined(outbox)) \o (buffer \o <<Closing>>)
              = ((client \o Joined(outbox)) \o buffer) \o <<Closing>>
        <3> DEFINE a == client \o Joined(outbox)
                   c == <<Closing>>
        <3>1. a \in Seq(Part) /\ buffer \in Seq(Part) /\ c \in Seq(Part)
            BY <2>2, <1>2
        <3> HIDE DEF a, c
        <3>2. (a \o buffer) \o c = a \o (buffer \o c)
            BY ONLY <3>1, ConcatAssociative, SMTT(40)
        <3> QED BY <3>2 DEF a, c
    <2>6. connected => (client \o Joined(outbox)) \o buffer = D
        BY <1>1 DEF StreamInv
    <2>7. IsPrefix(client, D)
        BY <1>1 DEF StreamInv
    <2>8. IsPrefix(client, D \o <<Closing>>)
        BY <2>1, <2>7, <1>2, PrefixExtends
    <2> QED BY <2>4, <2>5, <2>6, <2>8
<1> QED BY <1>7, <1>8, <1>9, <1>10

-----------------------------------------------------------------------------
(* The I/O thread's steps.                                                 *)

\* What the client has and what is on its way is the beginning of the document.
LEMMA SendingIsPrefix ==
    ASSUME IInv, endpoint = "stream", status # "400", connected, pc \notin {"start", "begin"}
    PROVE  /\ ~done => IsPrefix(client \o Joined(outbox), Begun(entries, at))
           /\ done  => IsPrefix(client \o Joined(outbox), Begun(entries, at) \o <<Closing>>)
<1> USE DEF IInv
<1>1. buffer \in Seq(Part) /\ client \o Joined(outbox) \in Seq(Part)
    BY JoinedType, ConcatProperties DEF TypeOK
<1>2. /\ IsPrefix(client \o Joined(outbox), client \o Joined(outbox))
      /\ IsPrefix(client \o Joined(outbox), (client \o Joined(outbox)) \o buffer)
    BY <1>1, PrefixOfItself, PrefixOfConcat
<1>3. pc \in {"eval", "full", "check", "close", "returned", "thrown"}
    BY DEF TypeOK, Pcs
<1> QED BY <1>2, <1>3 DEF StreamInv

LEMMA WriteSucceedsPreserves == ASSUME IInv, WriteSucceeds PROVE IInv'
<1> USE DEF IInv
<1> DEFINE c == outbox[1].chunk
           rest == Tail(outbox)
<1>1. /\ outbox # <<>> /\ connected /\ client' = client \o c /\ outbox' = rest
      /\ UNCHANGED <<endpoint, entries, ask_, pc, at, buffer, count, connected, status, done,
                     expired, cut>>
    BY DEF WriteSucceeds, request, writer, answer, clock
<1>2. pc \notin {"start", "begin"}
    BY <1>1 DEF TaskInv
<1>3. /\ c \in Seq(Part) /\ rest \in Seq(Chunk) /\ client \in Seq(Part)
      /\ Joined(outbox) = c \o Joined(rest)
    BY <1>1, JoinedTail DEF TypeOK
<1> HIDE DEF c, rest
<1>4. Joined(rest) \in Seq(Part) /\ client' \in Seq(Part)
    BY <1>1, <1>3, JoinedType, ConcatProperties
<1>5. client' \o Joined(outbox') = client \o Joined(outbox)
    <2> DEFINE J == Joined(rest)
    <2>1. client \in Seq(Part) /\ c \in Seq(Part) /\ J \in Seq(Part)
        BY <1>3, <1>4
    <2> HIDE DEF J
    <2>2. (client \o c) \o J = client \o (c \o J)
        BY ONLY <2>1, ConcatAssociative, SMTT(40)
    <2> QED BY <2>2, <1>1, <1>3 DEF J
<1>6. TypeOK'
    BY <1>1, <1>3, <1>4 DEF TypeOK
<1>7. TaskInv' /\ SparqlInv' /\ CountInv'
    BY <1>1, <1>2 DEF TaskInv, SparqlInv, CountInv
<1>8. StreamInv'
    <2> SUFFICES ASSUME endpoint = "stream", status # "400"
                 PROVE  /\ ~done => IsPrefix(client', Begun(entries, at))
                        /\ done  => IsPrefix(client', Begun(entries, at) \o <<Closing>>)
        BY <1>1, <1>5 DEF StreamInv
    <2>1. IsPrefix(client', client \o Joined(outbox))
        BY <1>1, <1>4, <1>5, PrefixOfConcat
    <2>2. client \o Joined(outbox) \in Seq(Part)
        BY JoinedType, ConcatProperties DEF TypeOK
    <2>3. Begun(entries, at) \in Seq(Part) /\ Begun(entries, at) \o <<Closing>> \in Seq(Part)
        BY BegunType DEF TypeOK
    <2>4. CASE done
        <3>1. IsPrefix(client \o Joined(outbox), Begun(entries, at) \o <<Closing>>)
            BY <1>1, <1>2, <2>4, SendingIsPrefix
        <3>2. IsPrefix(client', Begun(entries, at) \o <<Closing>>)
            BY <1>4, <2>1, <2>2, <2>3, <3>1, PrefixTransitive
        <3> QED BY <2>4, <3>2
    <2>5. CASE ~done
        <3>1. IsPrefix(client \o Joined(outbox), Begun(entries, at))
            BY <1>1, <1>2, <2>5, SendingIsPrefix
        <3>2. IsPrefix(client', Begun(entries, at))
            BY <1>4, <2>1, <2>2, <2>3, <3>1, PrefixTransitive
        <3> QED BY <2>5, <3>2
    <2> QED BY <2>4, <2>5
<1> QED BY <1>6, <1>7, <1>8

LEMMA WriteFailsPreserves == ASSUME IInv, WriteFails PROVE IInv'
<1> USE DEF IInv
<1>1. /\ outbox # <<>> /\ connected' = FALSE /\ outbox' = Tail(outbox)
      /\ UNCHANGED <<endpoint, entries, ask_, pc, at, buffer, count, client, status, done,
                     expired, cut>>
    BY DEF WriteFails, request, writer, answer, clock
<1>2. outbox' \in Seq(Chunk)
    BY <1>1, JoinedTail DEF TypeOK
<1>3. TypeOK'
    BY <1>1, <1>2 DEF TypeOK
<1>4. TaskInv' /\ SparqlInv' /\ CountInv'
    BY <1>1 DEF TaskInv, SparqlInv, CountInv
<1>5. StreamInv'
    BY <1>1 DEF StreamInv
<1> QED BY <1>3, <1>4, <1>5

LEMMA NextPreserves == IInv /\ [Next]_vars => IInv'
<1> SUFFICES ASSUME IInv, [Next]_vars PROVE IInv'
    OBVIOUS
<1>1. CASE UNCHANGED vars
    <2>1. UNCHANGED <<endpoint, entries, ask_, pc, at, buffer, count, outbox, connected, client,
                      status, done, expired, cut>>
        BY <1>1 DEF vars, request, writer, net, answer, clock
    <2>2. TypeOK'
        BY <2>1 DEF IInv, TypeOK
    <2>3. TaskInv' /\ SparqlInv' /\ CountInv'
        BY <2>1 DEF IInv, TaskInv, SparqlInv, CountInv
    <2>4. StreamInv'
        BY <2>1 DEF IInv, StreamInv
    <2> QED BY <2>2, <2>3, <2>4 DEF IInv
<1>2. CASE TaskStep
    BY <1>2, ParseFailsPreserves, ParsedPreserves, BeginPreserves, NextEntryPreserves,
       EvalEndsPreserves, EvalThrowsPreserves, FlushChunkPreserves, CheckWritePreserves,
       ClosePreserves DEF TaskStep
<1>3. CASE IoStep
    BY <1>3, WriteSucceedsPreserves, WriteFailsPreserves DEF IoStep
<1>4. CASE Expire
    BY <1>4, ExpirePreserves
<1> QED BY <1>1, <1>2, <1>3, <1>4 DEF Next

-----------------------------------------------------------------------------
\* What the three endpoints have sent, hold and count fits the entries they
\* have seen, at every moment, for any query.
THEOREM Invariance == Spec => []IInv
BY InitEstablishes, NextPreserves, PTL DEF Spec

\* The variables have their types; no part of a document is made up.
THEOREM TypeCorrect == Spec => []TypeOK
<1>1. IInv => TypeOK
    BY DEF IInv
<1> QED BY <1>1, Invariance, PTL

\* /sparql answers 200 with the whole document only: what the deadline has
\* cut off is never passed off as the answer.
THEOREM SparqlSendsTheWhole == Spec => []SparqlAnswerIsWhole
<1>1. IInv => SparqlAnswerIsWhole
    BY DocumentIs DEF IInv, SparqlInv, SparqlAnswerIsWhole
<1> QED BY <1>1, Invariance, PTL

\* /stream sends the document in order, nothing twice and nothing left out,
\* however the writes and the task interleave; after a failed write the client
\* still has a beginning of it.
THEOREM StreamKeepsTheOrder == Spec => []StreamIsInOrder
<1>1. IInv => StreamIsInOrder
    <2> SUFFICES ASSUME IInv, endpoint = "stream", status # "400"
                 PROVE  /\ IsPrefix(client, Document(at))
                        /\ done /\ connected => client \o Posted = Document(at)
                        /\ pc = "eval" /\ connected =>
                               client \o Posted \o buffer \o <<Closing>> = Document(at)
        BY DEF StreamIsInOrder
    <2> USE DEF IInv
    <2>1. /\ client \in Seq(Part) /\ Begun(entries, at) \in Seq(Part)
          /\ <<Closing>> \in Seq(Part) /\ Document(at) \in Seq(Part)
        <3>1. client \in Seq(Part) /\ entries \in Seq(1..MaxValue) /\ at \in 0..Len(entries)
            BY DEF TypeOK
        <3>2. Begun(entries, at) \in Seq(Part) /\ Begun(entries, at) \o <<Closing>> \in Seq(Part)
            BY ONLY <3>1, BegunType
        <3>3. <<Closing>> \in Seq(Part)
            BY PartsAreParts
        <3> QED BY <3>1, <3>2, <3>3, DocumentIs
    <2>2. IsPrefix(client, Document(at))
        <3>1. CASE pc \in {"start", "begin"}
            <4>1. client = <<>> /\ <<>> \o Document(at) = Document(at)
                BY <3>1, <2>1, ConcatEmptySeq DEF TaskInv
            <4> QED BY <4>1, <2>1, PrefixOfConcat
        <3>2. CASE pc \notin {"start", "begin"} /\ ~done
            <4>1. IsPrefix(client, Begun(entries, at))
                BY <3>2 DEF StreamInv
            <4> QED BY <4>1, <2>1, PrefixExtends, DocumentIs
        <3>3. CASE done
            BY <3>3, DocumentIs DEF StreamInv
        <3> QED BY <3>1, <3>2, <3>3
    <2> QED BY <2>2, DocumentIs, PostedIs DEF StreamInv
<1> QED BY <1>1, Invariance, PTL

\* A stream that is complete before the deadline has every solution.
THEOREM StreamInTimeSendsTheWhole == Spec => []StreamInTimeIsWhole
<1>1. IInv => StreamInTimeIsWhole
    <2> SUFFICES ASSUME IInv, endpoint = "stream", done, status = "200", connected,
                        outbox = <<>>, ~expired
                 PROVE  client = Document(Len(entries))
        BY DEF StreamInTimeIsWhole
    <2> USE DEF IInv
    <2>1. client \in Seq(Part)
        BY DEF TypeOK
    <2>2. at = Len(entries) /\ client \o Joined(outbox) = Begun(entries, at) \o <<Closing>>
        BY DEF StreamInv
    <2>3. client \o Joined(outbox) = client
        BY <2>1, JoinedNone, ConcatEmptySeq
    <2> QED BY <2>2, <2>3, DocumentIs
<1> QED BY <1>1, Invariance, PTL

\* /count has counted the solutions a document of the same entries lists.
THEOREM CountCountsSolutions == Spec => []CountIsRight
<1>1. IInv => CountIsRight
    <2> SUFFICES ASSUME IInv, endpoint = "count" PROVE count + 2 = Len(Document(at))
        BY DEF CountIsRight
    <2>1. Len(Document(at)) = Len(Begun(entries, at)) + 1
        BY BegunType, DocumentIs DEF IInv, TypeOK
    <2>2. count + 1 = Len(Begun(entries, at)) /\ count \in Nat
        BY DEF IInv, CountInv, TypeOK
    <2> QED BY <2>1, <2>2
<1> QED BY <1>1, Invariance, PTL

-----------------------------------------------------------------------------
(* A task comes out.                                                       *)

\* How far a task is from its end: what is left of the entries, and where it
\* is with the one it has.
Phase == CASE pc = "start" -> 7
           [] pc = "begin" -> 6
           [] pc = "full"  -> 5
           [] pc = "check" -> 4
           [] pc = "eval"  -> 3
           [] pc = "close" -> 2
           [] OTHER        -> 0
Distance == IF Running THEN 3 * (Len(entries) - at) + Phase ELSE 0

LEMMA TaskStepAdvances == ASSUME TypeOK, TaskStep PROVE Distance \in Nat /\ Distance' < Distance
<1> DEFINE n == Len(entries)
<1>1. n \in Nat /\ at \in 0..n /\ n - at \in Nat /\ pc \in Pcs
    BY LenProperties DEF TypeOK
<1>2. UNCHANGED entries
    BY DEF TaskStep, ParseFails, Parsed, Begin, NextEntry, EvalEnds, EvalThrows, FlushChunk,
           CheckWrite, Close, request
<1>3. CASE pc' \in {"returned", "thrown"}
    <2>1. Running
        BY DEF Running, TaskStep, ParseFails, Parsed, Begin, NextEntry, EvalEnds, EvalThrows,
               FlushChunk, CheckWrite, Close
    <2> HIDE DEF n
    <2>2. Distance' = 0
        BY <1>3 DEF Distance, Running
    <2>3. Distance \in Nat /\ Distance > 0
        BY <1>1, <2>1 DEF Distance, Running, Phase, Pcs, n
    <2> QED BY <2>2, <2>3
<1>4. CASE pc' \notin {"returned", "thrown"} /\ at' = at
    <2>1. \/ pc = "start" /\ pc' = "begin"
          \/ pc = "begin" /\ pc' = "eval"
          \/ pc = "eval"  /\ pc' = "close"
          \/ pc = "full"  /\ pc' = "check"
          \/ pc = "check" /\ pc' = "eval"
        <3>1. ~NextEntry
            BY <1>1, <1>4 DEF NextEntry
        <3> QED BY <1>4, <3>1 DEF TaskStep, ParseFails, Parsed, Begin, EvalEnds, EvalThrows,
                                  FlushChunk, CheckWrite, Close
    <2>2. Running /\ Running'
        BY <2>1 DEF Running
    <2>3. Phase \in Nat /\ Phase' \in Nat /\ Phase' < Phase
        BY <2>1 DEF Phase
    <2> QED BY <1>1, <1>2, <1>4, <2>2, <2>3 DEF Distance
<1>5. CASE pc' \notin {"returned", "thrown"} /\ at' # at
    <2>1. pc = "eval" /\ pc' \in {"eval", "full"} /\ at < n /\ at' = at + 1
        BY <1>5 DEF TaskStep, ParseFails, Parsed, Begin, NextEntry, EvalEnds, EvalThrows,
                    FlushChunk, CheckWrite, Close, writer
    <2>2. Running /\ Running' /\ Phase = 3 /\ Phase' \in {3, 5}
        BY <2>1 DEF Running, Phase
    <2> QED BY <1>1, <1>2, <2>1, <2>2 DEF Distance
<1> QED BY <1>3, <1>4, <1>5

\* What makes a task end: each of its steps brings it nearer to its end,
\* whatever the writes it has posted come to, so that a failed write is not
\* tried for ever; and each step of the I/O thread takes a chunk off the outbox
\* and leaves the task where it is.
THEOREM TasksAdvance ==
    Spec => [][/\ TaskStep => Distance \in Nat /\ Distance' < Distance
               /\ IoStep => Len(outbox') < Len(outbox) /\ Distance' = Distance]_vars
<1>1. ASSUME TypeOK, IoStep PROVE Len(outbox') < Len(outbox) /\ Distance' = Distance
    <2>1. outbox \in Seq(Chunk) /\ outbox # <<>> /\ outbox' = Tail(outbox)
        BY <1>1 DEF TypeOK, IoStep, WriteSucceeds, WriteFails
    <2>2. Len(outbox) \in Nat /\ Len(outbox') = Len(outbox) - 1
        BY <2>1, HeadTailProperties, LenProperties
    <2>3. UNCHANGED <<pc, at, entries>>
        BY <1>1 DEF IoStep, WriteSucceeds, WriteFails, request, writer
    <2> QED BY <2>2, <2>3 DEF Distance, Running, Phase
<1>2. TypeOK /\ [Next]_vars =>
          [/\ TaskStep => Distance \in Nat /\ Distance' < Distance
           /\ IoStep => Len(outbox') < Len(outbox) /\ Distance' = Distance]_vars
    BY <1>1, TaskStepAdvances
<1> QED BY <1>2, TypeCorrect, PTL DEF Spec
=============================================================================
