----------------------------- MODULE MCQueryEngine -----------------------------
(***************************************************************************)
(* QueryEngine for TLC.  Nested groups: a triple pattern, then two items,  *)
(* each a block, a UNION or an OPTIONAL whose groups may hold such items   *)
(* once more; some variables are shared, some triple patterns share none,  *)
(* one has a variable twice, one has none.  Flat groups, which are         *)
(* evaluated as well: up to three triple patterns on several files.        *)
(* Written groups: every kind of term, verb, list and declaration.  Files  *)
(* with errors and repetitions, with and without a tool.  Lists.           *)
(***************************************************************************)
EXTENDS QueryEngine

I(name) == <<"iriref", <<name>>>>     \* an IRI as it is written
N(name) == Iri(<<name>>)              \* and as a node
V(name) == <<"var", name>>

Block(tss)  == [kind |-> "block", tss |-> tss]
Union(gs)   == [kind |-> "union", groups |-> gs]
Optional(g) == [kind |-> "optional", group |-> g]
PassedOver  == [kind |-> "other"]
SubSelect   == [kind |-> "subselect"]

Elt(primary)    == [inverse |-> FALSE, primary |-> primary, mod |-> ""]
PathTo(primary) == <<"path", << <<Elt(primary)>> >> >>
Property(verb, objects)   == [verb |-> verb, objects |-> objects]
Triples_(subject, properties) == [subject |-> subject, properties |-> properties]

TS(s, p, o) == Triples_(s, <<Property(IF p[1] = "var" THEN p ELSE PathTo(p), <<o>>)>>)
B(ts)       == Block(<<ts>>)

xy == TS(V("x"), I("p"), V("y"))
yz == TS(V("y"), I("p"), V("z"))
xx == TS(V("x"), I("p"), V("x"))
zb == TS(V("z"), I("p"), <<"label", "b">>)
ab == TS(I("a"), I("p"), I("b"))
pp == TS(V("x"), V("z"), I("b"))
vw == TS(V("v"), I("p"), V("w"))

Query(form, prologue, where, select, distinct) ==
    [form |-> form, prologue |-> prologue, where |-> where, select |-> select,
     distinct |-> distinct]
NoPrologue == [prefixes |-> <<>>, base |-> FALSE]
Star(where) == Query("select", NoPrologue, where, All, FALSE)

-----------------------------------------------------------------------------
(* Nested groups.                                                           *)

Simple == {<<B(xy)>>, <<B(zb)>>, <<Block(<<xx, yz>>)>>}
Items  == {B(ab), PassedOver}
          \cup {Optional(g) : g \in Simple}
          \cup {Union(<<g, h>>) : g \in {<<B(xy)>>, <<B(zb)>>}, h \in Simple}
Nested == {<<B(yz), i, j>> : i \in Items, j \in {Optional(<<B(xy)>>), Union(<<<<B(ab)>>, <<B(zb)>>>>)}}
Deep   == Items \cup {Optional(g) : g \in Nested} \cup {Union(<<<<B(ab)>>, g>>) : g \in Nested}

Whole  == {<<B(xx), i, j>> : i, j \in Deep}
          \cup {<<i, j, B(xy)>> : i \in Items, j \in Deep}
          \cup {<<PassedOver>>, <<>>}

-----------------------------------------------------------------------------
(* What is written in a block.                                              *)

Terms_ == {V("x"), I("a"), <<"pname", "e", <<"a">>>>, <<"pname", "f", <<"a">>>>,
           <<"ns", "e">>, <<"label", "b">>, <<"anon">>, <<"nil">>, <<"node">>, <<"missing">>,
           <<"string", "1">>, <<"lang", "1", "en">>, <<"typed", "1", <<"iriref", <<"xsd:", "integer">>>>>>,
           <<"typed", "1", <<"pname", "f", <<"a">>>>>>, <<"typed", "1", <<"ns", "e">>>>,
           <<"number", "1", "integer">>, <<"number", "1", "double">>, <<"boolean", "1">>}

Elements_ == {Elt(I("p")), Elt(<<"pname", "e", <<"p">>>>), Elt(<<"a">>), Elt(<<"not">>), Elt(<<"ns", "e">>),
              [Elt(I("p")) EXCEPT !.mod = "*"], [Elt(I("p")) EXCEPT !.inverse = TRUE]}
Steps  == {<<e>> : e \in Elements_}
Elements2 == Elements_ \cup {Elt(<<"path", <<s>> >>) : s \in Steps}
                       \cup {[Elt(<<"path", <<s, s>> >>) EXCEPT !.mod = "?"] : s \in Steps}
Paths  == {<< <<e>> >> : e \in Elements2} \cup {<< <<e, f>> >> : e, f \in Elements_}
          \cup {<< <<e>>, <<f>> >> : e, f \in {Elt(I("p")), Elt(<<"a">>)}}
          \cup {<<>>, << <<Elt(<<"path", <<>> >>)>> >>}

Decl(prefix, namespace) == [prefix |-> prefix, namespace |-> namespace]
Prologues == {NoPrologue, [NoPrologue EXCEPT !.base = TRUE],
              [prefixes |-> <<Decl("e", <<"a">>)>>, base |-> FALSE],
              [prefixes |-> <<Decl("f", <<>>), Decl("e", <<"p">>), Decl("f", <<"b">>)>>, base |-> FALSE]}

P1 == Property(PathTo(I("p")), <<V("x"), I("a")>>)
P2 == Property(V("q"), <<I("b")>>)

Written == {<<Block(<<Triples_(s, <<P1, Property(PathTo(I("q")), <<o, V("y")>>)>>), xy>>)>> : s, o \in Terms_}
           \cup {<<Block(<<Triples_(V("y"), <<P2, Property(v, <<I("a")>>), P1>>)>>)>> :
                     v \in {<<"path", p>> : p \in Paths} \cup {<<"missing">>}}
Refused == {<<SubSelect>>, <<B(xy), Optional(<<SubSelect>>)>>, <<Union(<<<<B(xy)>>, <<SubSelect>>>>), B(xy)>>,
            <<Optional(<<B(Triples_(<<"nil">>, <<P1>>))>>), Union(<<<<SubSelect>>, <<B(zb)>>>>)>>}

Texts == {Star(g) : g \in Whole}
         \cup {Query("select", pr, g, All, FALSE) : pr \in Prologues, g \in Written \cup Refused}
         \cup {Query(form, NoPrologue, g, <<s>>, FALSE) :
                 form \in {"select", "ask", "construct"}, g \in Refused \cup {<<B(zb)>>, <<B(ab)>>},
                 s \in {V("x"), <<"expression">>}}

-----------------------------------------------------------------------------
(* Files, lists and queries that are evaluated.                             *)

t1 == <<N("a"), N("p"), N("a")>>
t2 == <<N("a"), N("p"), N("b")>>
t3 == <<N("b"), N("p"), N("a")>>
t4 == <<N("b"), N("p"), N("p")>>
t5 == <<N("p"), N("a"), N("b")>>
t6 == <<N("b"), N("p"), N("b")>>

first == <<"first">>
rest  == <<"rest">>
nil   == <<"nil">>
fa == <<N("a"), first, N("b")>>
fb == <<N("a"), first, N("p")>>
fn == <<N("a"), first, nil>>
ra == <<N("a"), rest, nil>>
rb == <<N("a"), rest, N("b")>>
gb == <<N("b"), first, N("a")>>
rn == <<N("b"), rest, nil>>

MCTriples == {t1, t2, t3, t4, t5, t6, fa, fb, fn, ra, rb, gb, rn}
MCHash == [t \in MCTriples |-> IF t = t4 THEN t5 ELSE t]  \* these two collide

Flat  == {<<Block(s)>> : s \in UNION {[1..n -> {xy, yz, xx, ab, pp}] : n \in 1..2}}
         \cup {<<B(s), PassedOver, B(t), B(zb)>> : s, t \in {xy, yz, xx, ab, pp}}
         \cup {<<B(xy), Block(<<zb, vw>>)>>}
Files == {<<>>, <<t2>>, <<t1, t2, Bad, t3>>, <<t2, t4, t5, t6>>}

Asked == {Query(q[1], NoPrologue, g, q[2], q[3]) :
             g \in Flat, q \in {<<"select", s, d>> : s \in {All, <<V("y")>>, <<V("z"), V("x")>>}, d \in BOOLEAN}
                              \cup {<<"ask", All, FALSE>>}}

\* The groups and paths of the texts, and those inside of others.
Contained == Simple \cup Nested \cup {<<B(ab)>>, <<SubSelect>>, <<B(Triples_(<<"nil">>, <<P1>>))>>}
MCGroup == {t.where : t \in Texts \cup Asked} \cup Contained
MCPath  == Paths \cup {<<s, s>> : s \in Steps} \cup {PathTo(I(name))[2] : name \in {"p", "q"}}

RECURSIVE DepthOf(_), DepthOfPath(_)
DepthOf(g)     == 1 + Max({0} \cup {DepthOf(h) : h \in Inner(g)})
DepthOfPath(p) == 1 + Max({0} \cup {DepthOfPath(q) : q \in InnerPaths(p)})
MCGroupDepth   == [g \in MCGroup |-> DepthOf(g)]
MCPathDepth    == [p \in MCPath |-> DepthOfPath(p)]

Request(fs, tools, limits, lists, texts) ==
    [file : fs, tool : tools, limit : limits, list : lists, text : texts]

Plain   == Star(<<B(xy)>>)
Repeated == UNION {[1..n -> {t2, t4, t5, Bad}] : n \in 1..4}
Listed  == UNION {[1..n -> {fa, fb, fn, ra, rb, gb, rn}] : n \in 0..4}

MCRequests == Request({<<>>}, {NoTool}, {0}, {NoList}, Texts)
              \cup Request(Files, {NoTool}, {0}, {NoList}, Asked)
              \cup Request({Missing}, {NoTool}, {0}, {NoList}, {Plain})
              \cup Request(Repeated, {"deduplicated-nt", "rdf2ids", "rdf2ids --distinct"}, {0, 2, 9},
                           {NoList}, {Plain})
              \cup Request({f \in Listed : IsInjective(f)}, {NoTool}, {0}, {nil, N("a")}, {Plain})
=============================================================================
