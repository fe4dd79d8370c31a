------------------------------ MODULE QueryEngine ------------------------------
(***************************************************************************)
(* From a file and the text of a query to the solutions.  A file may go    *)
(* through one of the tools; load_ttl fills the store with it; then the    *)
(* rdf:Lists of the store are read, or a query is parsed by the visitors   *)
(* and evaluated: the store slices the tensor for every triple pattern and *)
(* hands the slices and the operand dependency graph to the evaluation.    *)
(* The evaluation itself is a library; only queries of one group, for      *)
(* which it is a plain join, are evaluated here.                           *)
(***************************************************************************)
EXTENDS QueryMeaning, TripleStore, RdfTools, FiniteSetsExt

CONSTANTS NoTool, NoList,
          Requests   \* what is considered: records of a file, of how it comes
                     \* into the store, of a list to read and of a query's text

ASSUME RequestAssumption ==
    /\ Requests \subseteq [file : Seq(Statements) \cup {Missing}, limit : Nat, text : Text,
                          tool : {NoTool, "deduplicated-nt", "rdf2ids", "rdf2ids --distinct"},
                          list : {NoList} \cup Nodes]
    /\ \A r \in Requests : r.file = Missing => r.tool = NoTool  \* CannotOpen has that
    /\ \A r \in Requests : r.text.form = "ask" => ~r.text.distinct  \* ASK has no DISTINCT

VARIABLES request,
          stage,          \* how far it has come
          entries, total, \* of eval_select and count
          found           \* of eval_ask

answerVars == <<entries, total, found>>
vars == <<request, toolVars, storeVars, stage, graphVars, answerVars>>

Init == /\ request \in Requests
        /\ source = (IF request.tool = NoTool THEN <<>> ELSE request.file) /\ ToolStart
        /\ distinct_ = (request.tool \in {"deduplicated-nt", "rdf2ids --distinct"}) /\ limit = request.limit
        /\ file = Missing /\ EmptyStore
        /\ stage = "file"
        /\ NothingParsed
        /\ entries = {} /\ total = 0 /\ found = FALSE

-----------------------------------------------------------------------------
(* The file, the tools and the store.                                       *)

Tool == /\ stage = "file" /\ request.tool # NoTool
        /\ ToolNext
        /\ UNCHANGED <<request, storeVars, stage, graphVars, answerVars>>

\* The loader is given what deduplicated-nt has written, or the file itself;
\* rdf2ids does not write RDF.
GiveFile == /\ stage = "file"
            /\ request.tool = NoTool \/ (request.tool = "deduplicated-nt" /\ running = "ended")
            /\ file' = IF request.tool = NoTool THEN request.file ELSE output
            /\ stage' = "loading"
            /\ UNCHANGED <<request, toolVars, loading, pos, bulk, errors, tensor,
                           listVars, graphVars, answerVars>>

Load == /\ stage = "loading"
        /\ load_ttl
        /\ UNCHANGED <<request, toolVars, stage, graphVars, answerVars>>

Loaded == /\ stage = "loading" /\ loading \in {"done", "thrown"}
          /\ stage' = IF loading = "thrown" THEN "failed"
                      ELSE IF request.list = NoList THEN "text" ELSE "list"
          /\ UNCHANGED <<request, toolVars, storeVars, graphVars, answerVars>>

ReadList == /\ stage = "list"
            /\ get_rdf_list({request.list})
            /\ UNCHANGED <<request, toolVars, stage, graphVars, answerVars>>

-----------------------------------------------------------------------------
(* SPARQLQuery::parse.                                                      *)

parse == /\ stage = "text"
         /\ Parse(request.text)
         /\ stage' = "parsing"
         /\ UNCHANGED <<request, toolVars, storeVars, nameVars, odgVars, activeVars, groupVars,
                        optVars, answerVars>>

Parsing == /\ stage = "parsing"
           /\ Visit
           /\ UNCHANGED <<request, toolVars, storeVars, stage, answerVars>>

ParseEnds == /\ stage = "parsing" /\ visits = <<>>
             /\ stage' = CASE error = "none"   -> "parsed"
                           [] error = "thrown" -> "rejected"
                           [] OTHER            -> "crashed"
             /\ UNCHANGED <<request, toolVars, storeVars, graphVars, answerVars>>

-----------------------------------------------------------------------------
(* Evaluation.                                                              *)

get_slice_key(tp) == [i \in 1..3 |-> IF IsVar(tp[i]) THEN Nullopt ELSE tp[i]]

generate_operands == [i \in DOMAIN triple_patterns |-> Slice(get_slice_key(triple_patterns[i]))]

\* The evaluation: all assignments to the variables, by their IDs, for which
\* the entry of every operand is there.
Joins(slices) ==
    LET used == UNION {Range(operands[i]) : i \in DOMAIN operands}
    IN  {a \in [used -> NodesOf(tensor)] :
            \A i \in DOMAIN slices :
                [k \in DOMAIN operands[i] |-> a[operands[i][k]]] \in slices[i]}

OneGroup == LET g == request.text.where
            IN  \A i \in DOMAIN g : g[i].kind \in {"block", "other"}

\* What is projected of an assignment; a variable the group does not have is
\* unbound.
Unbound == <<"unbound">>
Projection(a) ==
    [i \in DOMAIN projected_variables |->
        LET id == IdOf(var_to_id, projected_variables[i])
        IN  IF id \in DOMAIN a THEN a[id] ELSE Unbound]

\* An entry is a projection and how often it comes up, or once if DISTINCT.
eval_select ==
    LET joins == Joins(generate_operands)
    IN  {[key |-> k, value |-> IF request.text.distinct THEN 1
                               ELSE Cardinality({a \in joins : Projection(a) = k})] :
            k \in {Projection(a) : a \in joins}}

eval_ask == Joins(generate_operands) # {}

Sum_(es) == MapThenSumSet(LAMBDA e : e.value, es)

\* Mutant of count: entries, not values.
count_entries == IF Len(triple_patterns) = 1 THEN Cardinality(generate_operands[1])
                 ELSE Cardinality(eval_select)

\* A single triple pattern is counted without an evaluation.
count == IF Len(triple_patterns) = 1 THEN Cardinality(generate_operands[1])
         ELSE Sum_(eval_select)

Evaluate == /\ stage = "parsed" /\ OneGroup /\ triple_patterns # <<>>
            /\ stage' = "evaluated"
            /\ total' = count
            /\ IF request.text.form = "ask"
               THEN found' = eval_ask /\ UNCHANGED entries
               ELSE entries' = eval_select /\ UNCHANGED found
            /\ UNCHANGED <<request, toolVars, storeVars, graphVars>>

Next == \/ Tool \/ GiveFile \/ Load \/ Loaded \/ ReadList
        \/ parse \/ Parsing \/ ParseEnds \/ Evaluate

Spec == Init /\ [][Next]_vars

-----------------------------------------------------------------------------
(* Properties.                                                              *)

Parsed == stage \in {"parsed", "evaluated"}

\* There is a letter for every variable.
EnoughLetters == Len(var_to_id) <= Letters

\* The names in the triple patterns and the IDs in the operands, which the
\* visitor keeps apart, stay in step: operand and slice key of one number belong
\* to one triple pattern, and every variable has an ID, which is its own as long
\* as there are letters (SelectAskQueryVisitor::add_tp, register_var).
OperandsAreAligned ==
    Parsed =>
        LET mentioned == (UNION {Range(Variables(triple_patterns[i])) : i \in DOMAIN triple_patterns})
                         \cup Range(projected_variables) IN
        /\ Len(operands) = Len(triple_patterns)
        /\ \A i \in DOMAIN operands : operands[i] = Ids(var_to_id, triple_patterns[i])
        /\ \A v \in mentioned : IdOf(var_to_id, v) \in 1..Letters
        /\ EnoughLetters => \A v, w \in mentioned :
                               IdOf(var_to_id, v) = IdOf(var_to_id, w) => v = w

\* The dependencies and connections drawn so far are sound: a dependency joins
\* two different operands and has a variable for its label that they share, or
\* none if there is none; one from a later to an earlier operand goes the other
\* way as well; connections go both ways, and not between operands of which one
\* depends on the other.  And they are complete for what is still open: the
\* operands of a group are joined with each other by every variable they share,
\* and those of a group in OPTIONAL, past its triples, with those of the group
\* it is in (SelectAskQueryVisitor::add_tp, group_dependencies,
\* group_connections).
EdgesAreSound ==
    LET deps  == Range(dependencies)
        conns == Range(connections)
        AreJoined(a, b) == \A x \in Labels(operands[a], operands[b]) : <<a, b, x>> \in deps
    IN  /\ \A e \in deps : /\ e[1] # e[2]
                           /\ e[3] \in Labels(operands[e[1]], operands[e[2]])
                           /\ e[2] < e[1] => <<e[2], e[1], e[3]>> \in deps
        /\ conns \cap {<<e[1], e[2]>> : e \in deps} = {}
        /\ \A c \in conns : c[1] # c[2] /\ <<c[2], c[1]>> \in conns
        /\ \A i \in DOMAIN group_patterns :
               \A a, b \in Range(group_patterns[i]) : a # b => AreJoined(a, b)
        /\ \A i \in 2..Len(opt_operands) : i <= Len(group_patterns) =>
               \A a \in Range(group_patterns[i - 1]), b \in Range(group_patterns[i]) : AreJoined(a, b)

\* The visitor never looks at the end of an empty vector, nor takes anything
\* from it, and never makes one longer where it cuts off what a branch of a UNION
\* has left; when a query has been parsed its stacks are empty
\* (SelectAskQueryVisitor's use of back, pop_back and resize).
StacksAreThere ==
    /\ visits # <<>> =>
         LET call == Head(visits).visit IN
         /\ call \in {"object", "pattern", "resize", "depend", "close", "leave", "end"} =>
                group_patterns # <<>> /\ triples_blocks # <<>> /\ optional_blocks # <<>>
         /\ call \in {"close", "leave"} => opt_operands # <<>> /\ union_operands # <<>>
         /\ call = "depend" /\ opt_operands # <<>> => Len(group_patterns) > 1 /\ union_operands # <<>>
         /\ call = "resize" => /\ Arg[1] <= Len(Top(triples_blocks))
                              /\ Arg[2] <= Len(Top(optional_blocks))
    /\ Parsed => groupVars = <<<<>>, <<>>, <<>>>> /\ optVars = <<<<>>, <<>>>>

\* What the loader is given, or what deduplicated-nt was, if it had no reason to
\* leave a triple out.
Data == IF request.tool = NoTool \/ Len(output) = limit \/ ~HashIsPerfect THEN file
        ELSE source

\* Every solution of the triple patterns in the triples of the file, before or
\* after deduplicated-nt, is found, as often as it occurs, as long as there are
\* letters for the variables; a query that asks gets whether there is one
\* (TripleStore::load_ttl, eval_select, eval_ask).
Matches == LET tps   == triple_patterns
               names == UNION {Range(Variables(tps[i])) : i \in DOMAIN tps}
           IN  {m \in [names -> NodesOf(TriplesOf(Data))] :
                   \A i \in DOMAIN tps :
                       [k \in 1..3 |-> IF IsVar(tps[i][k]) THEN m[tps[i][k]]
                                       ELSE tps[i][k]] \in TriplesOf(Data)}
SolutionsAreRight ==
    (stage = "evaluated" /\ EnoughLetters) =>
        IF request.text.form = "ask" THEN found <=> Matches # {}
        ELSE /\ Sum_(entries) = IF request.text.distinct
                                THEN Cardinality({e.key : e \in entries})
                                ELSE Cardinality(Matches)
             /\ {e.key : e \in entries} =
                    {[i \in DOMAIN projected_variables |->
                         LET v == projected_variables[i]
                         IN  IF v \in DOMAIN m THEN m[v] ELSE Unbound] : m \in Matches}

\* /count gives the number of solutions the query has, unless it is DISTINCT or
\* a single triple pattern with a variable in two places: those are counted
\* without regard to either (TripleStore::count).
CountAgrees ==
    (stage = "evaluated" /\ EnoughLetters) =>
        LET tps == triple_patterns
        IN  \/ total = IF request.text.distinct THEN Sum_(entries) ELSE Cardinality(Matches)
            \/ Len(tps) = 1 /\ (request.text.distinct \/ ~IsInjective(Variables(tps[1])))

\* The prefixes of the text.
DeclaredPrefixes == Declared(request.text.prologue.prefixes)

\* What is not supported (subqueries, BASE, expressions, collections, property
\* paths, undeclared prefixes, missing parts) keeps a text from being parsed,
\* wherever in it that stands, and what is supported does not; a path with `*',
\* `+' or `?', which the messages of lines 316 to 339 call unsupported and the
\* code does not look at, may do either.  Of the texts QuerySyntax has, malformed
\* ones among them, the process ends only at a null pointer for a prefix with no
\* name behind it, a missing term or verb, or a nested group that is a subquery or
\* missing; and the visitor's stacks are empty again at the end
\* (SelectAskQueryVisitor).
RejectsRightly ==
    LET text == request.text
        supported == /\ text.form \in {"select", "ask"} /\ ~text.prologue.base
                     /\ Supported(DeclaredPrefixes, text.where)
        projects  == \/ text.form = "ask"
                     \/ text.select # All /\ \A v \in Range(text.select) : v[1] = "var"
                     \/ text.select = All /\ \E tp \in Range(AllTriples(DeclaredPrefixes, text.where)) :
                                                \E i \in 1..3 : tp[i][1] = "var"
    IN  /\ Parsed => supported /\ projects
        /\ stage = "rejected" => ~supported \/ ~projects \/ HasModifiedPath(text.where)
        /\ stage = "crashed" => MayEndProcess(text.where)
        /\ Parsed => {group_patterns, opt_operands, union_operands, triples_blocks,
                      optional_blocks} = {<<>>}

\* The triple patterns are those the text says, with its prefixes, lists of
\* properties and lists of objects, and joins are distributed over UNIONs: each
\* combination of branches has each of its triple patterns once, and so have the
\* OPTIONAL groups (SelectAskQueryVisitor::visitWellDesignedPattern).
TriplesAreDistributed ==
    Parsed => SameBag(triple_patterns, AllTriples(DeclaredPrefixes, request.text.where))

\* The dependencies are those within a branch, both ways, and into OPTIONAL
\* groups, one way, labelled with the variables shared
\* (SelectAskQueryVisitor::group_dependencies, add_tp).
DependenciesAreRight ==
    Parsed => SameBag(BetweenPatterns(dependencies),
                      AllDependencies(DeclaredPrefixes, request.text.where))

\* The connections are those between different OPTIONAL groups of a branch, not
\* between branches of one such group (SelectAskQueryVisitor).
ConnectionsAreRight ==
    Parsed => SameBag(BetweenPatterns(connections),
                      AllConnections(DeclaredPrefixes, request.text.where))

=============================================================================
