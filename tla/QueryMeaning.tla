----------------------------- MODULE QueryMeaning -----------------------------
(***************************************************************************)
(* What the text of a query means, without visitors, stacks or calls:      *)
(* which triple patterns it has, how they depend on each other, and        *)
(* whether it is supported.  The recursion is on paths and groups, which   *)
(* are trees: there is less in what is inside of another.                  *)
(***************************************************************************)
EXTENDS QueryGraph

\* What is inside of a group, and of a path.
GroupsOf(item) == CASE item.kind = "union"    -> Range(item.groups)
                    [] item.kind = "optional" -> {item.group}
                    [] OTHER                  -> {}
Inner(group)      == UNION {GroupsOf(group[i]) : i \in DOMAIN group}
InnerPaths(path)  == {q \in Path : \E i \in DOMAIN path : \E j \in DOMAIN path[i] :
                                       path[i][j].primary = <<"path", q>>}

CONSTANTS GroupDepth, PathDepth   \* how deep they are

ASSUME DepthAssumption ==
    /\ GroupDepth \in [Group -> Nat] /\ PathDepth \in [Path -> Nat]
    /\ \A g \in Group : \A h \in Inner(g) : GroupDepth[h] < GroupDepth[g]
    /\ \A p \in Path : \A q \in InnerPaths(p) : PathDepth[q] < PathDepth[p]

-----------------------------------------------------------------------------
(* Prologue, terms and paths.                                               *)

\* The declaration of a prefix that counts.
Declared(decls) ==
    LET is(p) == {i \in DOMAIN decls : decls[i].prefix = p}
    IN  [p \in {decls[i].prefix : i \in DOMAIN decls} |->
            decls[CHOOSE i \in is(p) : \A j \in is(p) : j <= i].namespace]

\* Names with nothing behind the prefix, which are valid, and terms that are
\* missing end the process.
TermEndsProcess(t) == t[1] \in {"ns", "missing"} \/ (t[1] = "typed" /\ t[3][1] = "ns")

TermSupported(declared, t) ==
    /\ t[1] \notin {"anon", "nil", "node"}
    /\ t[1] = "pname" => t[2] \in DOMAIN declared
    /\ (t[1] = "typed" /\ t[3][1] = "pname") => t[3][2] \in DOMAIN declared
    /\ ~TermEndsProcess(t)

\* What a path comes down to, all parentheses and operators left off.
Innermost[path \in Path] ==
    LET primary == IF path = <<>> THEN <<"missing">> ELSE path[1][1].primary
    IN  IF primary[1] = "path" THEN Innermost[primary[2]] ELSE primary

PathIsPlain[path \in Path] ==
    /\ Len(path) = 1 /\ Len(path[1]) = 1
    /\ ~path[1][1].inverse
    /\ path[1][1].primary[1] = "path" => PathIsPlain[path[1][1].primary[2]]

IsModified[path \in Path] ==
    \E i \in DOMAIN path : \E j \in DOMAIN path[i] :
        \/ path[i][j].mod # ""
        \/ /\ path[i][j].primary[1] = "path"
           /\ IsModified[path[i][j].primary[2]]

VerbSupported(declared, verb) ==
    \/ verb[1] = "var"
    \/ /\ verb[1] = "path"
       /\ PathIsPlain[verb[2]]
       /\ Innermost[verb[2]][1] # "not"
       /\ TermSupported(declared, Innermost[verb[2]])

VerbEndsProcess(verb) ==
    \/ verb[1] = "missing"
    \/ verb[1] = "path" /\ PathIsPlain[verb[2]] /\ TermEndsProcess(Innermost[verb[2]])

\* The node a verb stands for; only a plain path has one.
VerbNode(declared, verb) ==
    CASE verb[1] = "var"     -> Var(verb[2])
      [] verb[1] = "missing" -> Crashed
      [] OTHER               -> IF PathIsPlain[verb[2]]
                                THEN visitPathElt(declared, Innermost[verb[2]]) ELSE Thrown

\* The triple patterns of the triples of one subject; those of a collection or
\* of [...] are passed over.
PatternsOf(declared, ts) ==
    IF ts.subject[1] = "node" THEN <<>>
    ELSE FlattenSeq([i \in DOMAIN ts.properties |->
             LET p == ts.properties[i]
             IN  [j \in DOMAIN p.objects |->
                     << visitVarOrTerm(declared, ts.subject), VerbNode(declared, p.verb),
                        visitVarOrTerm(declared, p.objects[j]) >>]])

-----------------------------------------------------------------------------
(* The branches of a group, one for each choice of a branch in every UNION. *)
(* A branch has triples and OPTIONAL groups.                                *)

Nothing == [tss |-> <<>>, opts |-> <<>>]

Join(b, c) == [tss |-> b.tss \o c.tss, opts |-> b.opts \o c.opts]

JoinBranches(bs, cs) == LET ps == Pairs(bs, cs)
                        IN  [i \in DOMAIN ps |-> Join(ps[i][1], ps[i][2])]

JoinAll(bss) == FoldLeft(JoinBranches, <<Nothing>>, bss)

\* Those of an item, where branches has those of the groups in it.
ItemBranches(item, branches) ==
    CASE item.kind = "block"    -> << [tss |-> item.tss, opts |-> <<>>] >>
      [] item.kind = "optional" -> << [tss |-> <<>>, opts |-> <<item.group>>] >>
      [] item.kind = "union"    -> FlattenSeq([k \in DOMAIN item.groups |->
                                                  branches[item.groups[k]]])
      [] OTHER                  -> << Nothing >>

EachItem(items, branches) == [i \in DOMAIN items |-> ItemBranches(items[i], branches)]

Branches[group \in Group] == JoinAll(EachItem(group, Branches))

\* Those of the OPTIONAL groups too: for each branch that has it once more.
AllBranches[group \in Group] ==
    LET bs == Branches[group]
    IN  FlattenSeq([i \in DOMAIN bs |->
            <<bs[i]>> \o FlattenSeq([k \in DOMAIN bs[i].opts |-> AllBranches[bs[i].opts[k]]])])

\* F of every branch in a list, one after the other.
Over(bs, F(_)) == FlattenSeq([i \in DOMAIN bs |-> F(bs[i])])

BranchTriples(declared, b) == FlattenSeq([k \in DOMAIN b.tss |-> PatternsOf(declared, b.tss[k])])

AllTriples(declared, group) ==
    Over(AllBranches[group], LAMBDA b : BranchTriples(declared, b))

\* The edges within a branch, and from it into its OPTIONAL groups.
EdgesWithin(tps) ==
    FlattenSeq([j \in DOMAIN tps |-> FlattenSeq([i \in 1..(j - 1) |->
        JoinEdges(tps[i], tps[j], Ids(var_to_id, tps[i]), Ids(var_to_id, tps[j]))])])
EdgesInto(outer, inner) ==
    FlattenSeq([i \in DOMAIN outer |-> FlattenSeq([j \in DOMAIN inner |->
        Edges(outer[i], inner[j], Ids(var_to_id, outer[i]), Ids(var_to_id, inner[j]))])])

\* Between the triple patterns of a branch, from those of a branch to those of
\* its OPTIONAL groups, and no others.
AllDependencies(declared, group) ==
    Over(AllBranches[group], LAMBDA b :
        EdgesWithin(BranchTriples(declared, b))
        \o FlattenSeq([k \in DOMAIN b.opts |->
               Over(Branches[b.opts[k]], LAMBDA c :
                   EdgesInto(BranchTriples(declared, b), BranchTriples(declared, c)))]))

\* Between the triple patterns of different OPTIONAL groups of a branch.
AllConnections(declared, group) ==
    LET TopTriples(g) == Over(Branches[g], LAMBDA c : BranchTriples(declared, c))
    IN  Over(AllBranches[group], LAMBDA b :
            FlattenSeq([i \in DOMAIN b.opts |-> FlattenSeq([j \in DOMAIN b.opts |->
                IF i = j THEN <<>> ELSE Pairs(TopTriples(b.opts[i]), TopTriples(b.opts[j]))])]))

Count(s, x)   == Cardinality({i \in DOMAIN s : s[i] = x})
SameBag(s, t) == Len(s) = Len(t) /\ \A x \in Range(s) : Count(s, x) = Count(t, x)

\* Edges between triple patterns for edges between operands.
BetweenPatterns(edges) ==
    [i \in DOMAIN edges |-> [edges[i] EXCEPT ![1] = triple_patterns[@],
                                             ![2] = triple_patterns[@]]]

-----------------------------------------------------------------------------
(* What is supported.                                                       *)

\* The groups of a query and all its triples.
Groups[group \in Group] == {group} \cup UNION {Groups[g] : g \in Inner(group)}

\* What is said of a query's triples holds of those that are not passed over.
VisitedTriples(group) ==
    {ts \in UNION {UNION {Range(g[i].tss) : i \in {j \in DOMAIN g : g[j].kind = "block"}} :
                       g \in Groups[group]} :
        ts.subject[1] # "node"}
VerbsOf(ts)    == {ts.properties[i].verb : i \in DOMAIN ts.properties}
TermsOf(ts)    == {ts.subject} \cup UNION {Range(ts.properties[i].objects) :
                                               i \in DOMAIN ts.properties}

Supported(declared, group) ==
    /\ \A g \in Groups[group] : ~IsSubquery(g)
    /\ \A ts \in VisitedTriples(group) :
           /\ \A t \in TermsOf(ts) : TermSupported(declared, t)
           /\ \A v \in VerbsOf(ts) : VerbSupported(declared, v)

\* The process may end where a prefix stands alone, a term or a verb is missing,
\* or a subquery or a pattern that is missing is nested.
MayEndProcess(group) ==
    \/ \E g \in Groups[group] \ {group} : IsSubquery(g)
    \/ \E ts \in VisitedTriples(group) :
           \/ \E t \in TermsOf(ts) : TermEndsProcess(t)
           \/ \E v \in VerbsOf(ts) : VerbEndsProcess(v)

HasModifiedPath(group) ==
    \E ts \in VisitedTriples(group) : \E v \in VerbsOf(ts) : v[1] = "path" /\ IsModified[v[2]]
=============================================================================
