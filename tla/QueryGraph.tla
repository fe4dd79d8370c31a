------------------------------ MODULE QueryGraph ------------------------------
(***************************************************************************)
(* How PrologueVisitor and SelectAskQueryVisitor turn the text of a query  *)
(* into triple patterns, numbered variables and an operand dependency      *)
(* graph.  Every triple pattern becomes an operand; a dependency is an     *)
(* edge labelled with a shared variable, or unlabelled if two operands     *)
(* share none; a connection marks a cartesian product between different    *)
(* OPTIONAL parts.  UNIONs are resolved on the way: joins are distributed  *)
(* over them, so a triple pattern outside a UNION becomes one operand for  *)
(* each combination of their branches.                                     *)
(*                                                                         *)
(* The visitors are recursive.  `visits' has the calls that are still to   *)
(* be done, the one in progress first: an action is what a visit function  *)
(* does before it calls others, and replaces its call by theirs, with what *)
(* it does when they have returned as a call of its own.                   *)
(***************************************************************************)
EXTENDS QuerySyntax

CONSTANT Letters   \* how many IDs of variables there are: the values of a char

ASSUME LettersAssumption == Letters \in Nat \ {0}

\* The query.
VARIABLES prefixes,
          projected_variables,
          var_to_id,         \* the variables, in the order they are registered
          triple_patterns,
          operands,          \* of each operand, its variables' IDs
          dependencies, connections

\* The visitor: what it has seen of a triple, and its stacks.
VARIABLES active_subject, active_predicate,
          group_patterns, opt_operands, union_operands,
          triples_blocks, optional_blocks

VARIABLES visits, error

nameVars   == <<prefixes, projected_variables, var_to_id>>
odgVars    == <<triple_patterns, operands, dependencies, connections>>
activeVars == <<active_subject, active_predicate>>
groupVars  == <<group_patterns, triples_blocks, optional_blocks>>
optVars    == <<opt_operands, union_operands>>
graphVars  == <<nameVars, odgVars, activeVars, groupVars, optVars, visits, error>>

NothingParsed ==
    /\ prefixes = NoPrefixes /\ projected_variables = <<>> /\ var_to_id = <<>>
    /\ triple_patterns = <<>> /\ operands = <<>> /\ dependencies = <<>> /\ connections = <<>>
    /\ active_subject = NoNode /\ active_predicate = NoNode
    /\ group_patterns = <<>> /\ opt_operands = <<>> /\ union_operands = <<>>
    /\ triples_blocks = <<>> /\ optional_blocks = <<>>
    /\ visits = <<>> /\ error = "none"

-----------------------------------------------------------------------------
(* Calls and stacks.                                                        *)

Call(function, arg)    == [visit |-> function, arg |-> arg]
Calls(function, args)  == [i \in DOMAIN args |-> Call(function, args[i])]
Calling(function)      == visits # <<>> /\ Head(visits).visit = function
Arg                    == Head(visits).arg
Return                 == visits' = Tail(visits)
Do(calls)              == visits' = calls \o Tail(visits)

\* An exception leaves all calls.
Throw(node) == /\ error' = node[1]
               /\ visits' = <<>>
               /\ UNCHANGED <<nameVars, odgVars, activeVars, groupVars, optVars>>

Top(s)       == s[Len(s)]
SetTop(s, x) == [s EXCEPT ![Len(s)] = x]
AddTop(s, x) == SetTop(s, Top(s) \o x)
Pop(s)       == Front(s)
Push(s, x)   == Append(s, x)

-----------------------------------------------------------------------------
(* The prologue.                                                            *)

visitPrologue == /\ Calling("prefix")
                 /\ prefixes' = visitPrefixDecl(prefixes, Arg)
                 /\ Return
                 /\ UNCHANGED <<projected_variables, var_to_id, odgVars, activeVars, groupVars,
                                optVars, error>>

-----------------------------------------------------------------------------
(* Triple patterns.                                                         *)

\* With a variable that has not been met before.
Registered(node) == IF IsVar(node) /\ node \notin Range(var_to_id)
                    THEN Append(var_to_id, node) ELSE var_to_id

register_var(node) == var_to_id' = Registered(node)

\* The ID of a variable is the letter of its place, counted from 'a'; after the
\* last of them comes the first one.  A variable that is not registered would get
\* a zero.
IdOf(variables, var) ==
    IF var \in Range(variables)
    THEN (((CHOOSE i \in DOMAIN variables : variables[i] = var) - 1) % Letters) + 1
    ELSE 0

\* The places of the variables of a triple pattern, and the variables.
VarPlaces(tp) == Within(<<1, 2, 3>>, {i \in 1..3 : IsVar(tp[i])})
Variables(tp) == [k \in DOMAIN VarPlaces(tp) |-> tp[VarPlaces(tp)[k]]]

Ids(variables, tp) == [k \in DOMAIN Variables(tp) |-> IdOf(variables, Variables(tp)[k])]

Unlabelled == 0

\* The labels of the edges between two operands: the variables they share.
Labels(as, bs) == LET shared == Range(as) \cap Range(bs)
                  IN  IF shared = {} THEN {Unlabelled} ELSE shared

\* Mutant of JoinEdges: one direction only.
JoinEdgesOneWay(a, b, as, bs) ==
    LET labels == SetToSeq(Labels(as, bs))
    IN  [i \in DOMAIN labels |-> <<a, b, labels[i]>>]

\* Both directions of the edges between two operands of one group.
JoinEdges(a, b, as, bs) ==
    LET labels == SetToSeq(Labels(as, bs))
    IN  FlattenSeq([i \in DOMAIN labels |-> << <<a, b, labels[i]>>, <<b, a, labels[i]>> >>])

add_tp(tp) ==
    LET ids  == Ids(var_to_id', tp)
        v_id == Len(operands) + 1
        gp   == Reverse(Top(group_patterns))
    IN  /\ triple_patterns' = Append(triple_patterns, tp)
        /\ operands' = Append(operands, ids)
        /\ dependencies' = dependencies \o FlattenSeq(
               [i \in DOMAIN gp |-> JoinEdges(gp[i], v_id, operands[gp[i]], ids)])
        /\ group_patterns' = AddTop(group_patterns, <<v_id>>)

visitTriplesBlock == /\ Calling("block")
                     /\ Do(Calls("subject", Arg.tss))
                     /\ UNCHANGED <<nameVars, odgVars, activeVars, groupVars, optVars, error>>

\* The triples of a collection or of [...] are passed over.
visitTriplesNode == /\ Calling("subject") /\ Arg.subject[1] = "node"
                    /\ Return
                    /\ UNCHANGED <<nameVars, odgVars, activeVars, groupVars, optVars, error>>

visitTriplesSameSubjectPath ==
    /\ Calling("subject") /\ Arg.subject[1] # "node"
    /\ LET node == visitVarOrTerm(prefixes, Arg.subject)
       IN  IF Failed(node) THEN Throw(node)
           ELSE /\ active_subject' = node
                /\ register_var(node)
                /\ Do(Calls("property", Arg.properties))
                /\ UNCHANGED <<prefixes, projected_variables, odgVars, active_predicate,
                               groupVars, optVars, error>>

visitPropertyListPath ==
    /\ Calling("property")
    /\ Do(<<Call("verb", Arg.verb)>> \o Calls("object", Arg.objects))
    /\ UNCHANGED <<nameVars, odgVars, activeVars, groupVars, optVars, error>>

\* visitPath calls itself for a path in parentheses, and returns what that does.
visitPath == /\ Calling("verb") /\ IsNested(Arg)
             /\ Do(<<Call("verb", Primary(Arg[2]))>>)
             /\ UNCHANGED <<nameVars, odgVars, activeVars, groupVars, optVars, error>>

visitVerbPath ==
    /\ Calling("verb") /\ ~IsNested(Arg)
    /\ LET node == visitVerb(prefixes, Arg)
       IN  IF Failed(node) THEN Throw(node)
           ELSE /\ active_predicate' = node
                /\ register_var(node)
                /\ Return
                /\ UNCHANGED <<prefixes, projected_variables, odgVars, active_subject,
                               groupVars, optVars, error>>

\* Mutant of AddObject: the object is not registered if it is a variable.
AddObjectNoRegister(node) ==
    /\ UNCHANGED var_to_id
    /\ add_tp(<<active_subject, active_predicate, node>>)

AddObject(node) == /\ register_var(node)
                   /\ add_tp(<<active_subject, active_predicate, node>>)

visitObject ==
    /\ Calling("object")
    /\ LET node == visitVarOrTerm(prefixes, Arg)
       IN  IF Failed(node) THEN Throw(node)
           ELSE /\ AddObject(node)
                /\ Return
                /\ UNCHANGED <<prefixes, projected_variables, connections, activeVars,
                               triples_blocks, optional_blocks, optVars, error>>

-----------------------------------------------------------------------------
(* Groups.                                                                  *)

\* One edge for each variable of the previous operand that the current one
\* has; a variable that the previous one has twice counts twice.
Edges(prev, cur, prev_labels, cur_labels) ==
    LET hits == Within(prev_labels, Range(cur_labels))
    IN  IF hits = <<>> THEN << <<prev, cur, Unlabelled>> >>
        ELSE [i \in DOMAIN hits |-> <<prev, cur, hits[i]>>]

Pairs(s, t) == FlattenSeq([i \in DOMAIN s |-> [j \in DOMAIN t |-> <<s[i], t[j]>>]])

\* Mutant of group_dependencies: the other way round.
group_dependencies_back(prev_group, cur_group) ==
    LET ps == Pairs(prev_group, cur_group)
    IN  FlattenSeq([i \in DOMAIN ps |->
            Edges(ps[i][2], ps[i][1], operands[ps[i][2]], operands[ps[i][1]])])

group_dependencies(prev_group, cur_group) ==
    LET ps == Pairs(prev_group, cur_group)
    IN  FlattenSeq([i \in DOMAIN ps |->
            Edges(ps[i][1], ps[i][2], operands[ps[i][1]], operands[ps[i][2]])])

\* Cartesian connections with the OPTIONAL groups before this one, but not with
\* other branches of this one.
group_connections(cur_group) ==
    LET others == Within(Top(opt_operands),
                         Range(Top(opt_operands)) \ Range(Top(union_operands)))
        ps     == Pairs(cur_group, others)
    IN  FlattenSeq([i \in DOMAIN ps |-> << ps[i], <<ps[i][2], ps[i][1]>> >>])

\* What to do with a conjunction: its triples, then its OPTIONAL groups.
Conjunction(blocks) == Calls("block", blocks) \o <<Call("depend", <<>>)>>

\* Mutant of BranchesOf: the sizes are mixed up.
BranchesMixedUp(gous, tbs, opts) ==
    LET branches == Last(gous).groups
    IN  FlattenSeq([i \in DOMAIN branches |->
            << Call("pattern", [group |-> branches[i], gous |-> Front(gous)]),
               Call("resize", <<opts, tbs>>) >>])

\* Each branch of the last UNION, with the UNIONs before it.
BranchesOf(gous, tbs, opts) ==
    LET branches == Last(gous).groups
    IN  FlattenSeq([i \in DOMAIN branches |->
            << Call("pattern", [group |-> branches[i], gous |-> Front(gous)]),
               Call("resize", <<tbs, opts>>) >>])

IsSubquery(group)    == \E i \in DOMAIN group : group[i].kind = "subselect"
OfKind(group, kind)  == Within(group, {item \in Range(group) : item.kind = kind})
OptionalGroups(group) ==
    LET items == OfKind(group, "optional") IN [i \in DOMAIN items |-> items[i].group]

\* A subquery has no groupGraphPatternSub(), nor has a pattern that is missing.
visitSubquery == /\ Calling("pattern") /\ IsSubquery(Arg.group)
                 /\ Throw(Crashed)

visitWellDesignedPattern ==
    /\ Calling("pattern") /\ ~IsSubquery(Arg.group)
    /\ LET gous == Arg.gous \o OfKind(Arg.group, "union")
       IN  /\ triples_blocks'  = AddTop(triples_blocks, OfKind(Arg.group, "block"))
           /\ optional_blocks' = AddTop(optional_blocks, OptionalGroups(Arg.group))
           /\ Do(IF gous = <<>> THEN Conjunction(Top(triples_blocks'))
                 ELSE BranchesOf(gous, Len(Top(triples_blocks')), Len(Top(optional_blocks'))))
    /\ UNCHANGED <<nameVars, odgVars, activeVars, group_patterns, optVars, error>>

\* After a branch of a UNION: only the blocks from before it are kept.
Resize == /\ Calling("resize")
          /\ triples_blocks'  = SetTop(triples_blocks, SubSeq(Top(triples_blocks), 1, Arg[1]))
          /\ optional_blocks' = SetTop(optional_blocks, SubSeq(Top(optional_blocks), 1, Arg[2]))
          /\ Return
          /\ UNCHANGED <<nameVars, odgVars, activeVars, group_patterns, optVars, error>>

\* In an OPTIONAL group: what depends on the group it is in.
DependOnParent ==
    IF opt_operands = <<>>
    THEN /\ opt_operands'   = << <<>> >>
         /\ union_operands' = << <<>> >>
         /\ UNCHANGED <<dependencies, connections>>
    ELSE LET prev == group_patterns[Len(group_patterns) - 1]
             cur  == Top(group_patterns)
         IN  /\ dependencies'   = dependencies \o group_dependencies(prev, cur)
             /\ connections'    = connections \o group_connections(cur)
             /\ union_operands' = Push(AddTop(union_operands, cur), <<>>)
             /\ opt_operands'   = Push(AddTop(opt_operands, cur), <<>>)

\* The triples of a conjunction have been visited.
VisitOptionals == /\ Calling("depend")
                  /\ DependOnParent
                  /\ Do(Calls("optional", Top(optional_blocks)) \o <<Call("close", <<>>)>>)
                  /\ UNCHANGED <<nameVars, triple_patterns, operands, activeVars, groupVars, error>>

\* And its OPTIONAL groups: prepare for the next union.
CloseConjunction == /\ Calling("close")
                    /\ union_operands' = Pop(union_operands)
                    /\ opt_operands'   = Pop(opt_operands)
                    /\ group_patterns' = SetTop(group_patterns, <<>>)
                    /\ Return
                    /\ UNCHANGED <<nameVars, odgVars, activeVars, triples_blocks, optional_blocks,
                                   error>>

EnterGroup == /\ group_patterns'  = Push(group_patterns, <<>>)
              /\ triples_blocks'  = Push(triples_blocks, <<>>)
              /\ optional_blocks' = Push(optional_blocks, <<>>)
LeaveGroup == /\ optional_blocks' = Pop(optional_blocks)
              /\ triples_blocks'  = Pop(triples_blocks)
              /\ group_patterns'  = Pop(group_patterns)

EnterOptional ==
    /\ Calling("optional")
    /\ EnterGroup
    /\ Do(<<Call("pattern", [group |-> Arg, gous |-> <<>>]), Call("leave", <<>>)>>)
    /\ UNCHANGED <<nameVars, odgVars, activeVars, optVars, error>>

\* Mutant of ClearUnion: union_operands is not cleared.
ClearUnionNot == UNCHANGED union_operands

ClearUnion == union_operands' = SetTop(union_operands, <<>>)

LeaveOptional == /\ Calling("leave")
                 /\ ClearUnion
                 /\ LeaveGroup
                 /\ Return
                 /\ UNCHANGED <<nameVars, odgVars, activeVars, opt_operands, error>>

-----------------------------------------------------------------------------
(* The clauses of a query.                                                  *)

\* A subquery, a pattern that is missing, or no WHERE clause.
visitSubSelect == /\ Calling("where") /\ IsSubquery(Arg)
                  /\ Throw(Thrown)

visitWhereClause ==
    /\ Calling("where") /\ ~IsSubquery(Arg)
    /\ EnterGroup
    /\ Do(<<Call("pattern", [group |-> Arg, gous |-> <<>>]), Call("end", <<>>)>>)
    /\ UNCHANGED <<nameVars, odgVars, activeVars, optVars, error>>

EndWhereClause == /\ Calling("end")
                  /\ LeaveGroup
                  /\ Return
                  /\ UNCHANGED <<nameVars, odgVars, activeVars, optVars, error>>

\* Keeps the first of equal elements.
Firsts(s) ==
    LET indices == Within([i \in DOMAIN s |-> i], {i \in DOMAIN s : \A j \in 1..(i - 1) : s[j] # s[i]})
    IN  [k \in DOMAIN indices |-> s[indices[k]]]

\* A `*' stands for the variables of the triple patterns that are not blank
\* nodes, in the order they are met.
visitAsterisk ==
    /\ Calling("select") /\ Arg = All
    /\ LET mentioned == FlattenSeq([i \in DOMAIN triple_patterns |-> Variables(triple_patterns[i])])
           named     == Within(Firsts(mentioned), {v \in Range(mentioned) : v[1] # "blank"})
       IN  IF named = <<>> THEN Throw(Thrown)
           ELSE /\ projected_variables' = named
                /\ Return
                /\ UNCHANGED <<prefixes, var_to_id, odgVars, activeVars, groupVars, optVars, error>>

visitSelectClause == /\ Calling("select") /\ Arg # All
                     /\ Do(Calls("variable", Arg))
                     /\ UNCHANGED <<nameVars, odgVars, activeVars, groupVars, optVars, error>>

\* A variable that is named is registered; an expression throws.
visitSelectVariable ==
    /\ Calling("variable")
    /\ IF Arg[1] # "var" THEN Throw(Thrown)
       ELSE /\ register_var(Var(Arg[2]))
            /\ projected_variables' = Append(projected_variables, Var(Arg[2]))
            /\ Return
            /\ UNCHANGED <<prefixes, odgVars, activeVars, groupVars, optVars, error>>

\* SPARQLQuery::parse: only SELECT and ASK; an ASK query projects nothing.  The
\* SELECT clause is visited after the WHERE clause.
Parse(text) ==
    IF text.form \notin {"select", "ask"} \/ text.prologue.base
    THEN error' = "thrown" /\ UNCHANGED visits
    ELSE /\ visits' = Calls("prefix", text.prologue.prefixes) \o <<Call("where", text.where)>>
                      \o (IF text.form = "ask" THEN <<>> ELSE <<Call("select", text.select)>>)
         /\ UNCHANGED error

Visit == \/ visitPrologue
         \/ visitTriplesBlock \/ visitTriplesNode \/ visitTriplesSameSubjectPath
         \/ visitPropertyListPath \/ visitPath \/ visitVerbPath \/ visitObject
         \/ visitSubquery \/ visitWellDesignedPattern \/ Resize
         \/ VisitOptionals \/ CloseConjunction \/ EnterOptional \/ LeaveOptional
         \/ visitSubSelect \/ visitWhereClause \/ EndWhereClause
         \/ visitAsterisk \/ visitSelectClause \/ visitSelectVariable
=============================================================================
