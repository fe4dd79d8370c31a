------------------------------ MODULE QuerySyntax ------------------------------
(***************************************************************************)
(* The text of a query, as the parser gives it to the visitors, and what   *)
(* the visitors make of its smallest parts: prefixes, IRIs, literals,      *)
(* blank nodes, variables and property paths.  A visitor returns a node,   *)
(* throws, or follows a null pointer and takes the process with it.        *)
(*                                                                         *)
(* Nothing stops at a syntax error: the visitors are given what ANTLR      *)
(* makes of a malformed text, and find parts missing.                      *)
(***************************************************************************)
EXTENDS Integers, Sequences, SequencesExt

CONSTANTS Path,  \* the property paths, those in parentheses among them
          Group, \* the group graph patterns, those within others among them
          All    \* SELECT *

\* The elements of s that are in S, in their order.
Within(s, S) == FlattenSeq([i \in DOMAIN s |-> IF s[i] \in S THEN <<s[i]>> ELSE <<>>])

-----------------------------------------------------------------------------
(* RDF nodes.  An IRI is a sequence of parts, so that a prefixed name is    *)
(* the parts of its namespace followed by its own.                          *)

Var(name)           == <<"var", name>>
Blank(label)        == <<"blank", label>>     \* an anonymous variable
Iri(parts)          == <<"iri", parts>>
Literal(type, text) == <<"literal", type, text>>

NoNode              == <<"null">>             \* a node that has not been set

Xsd(name) == Iri(<<"xsd:", name>>)
RdfType   == Iri(<<"rdf:", "type">>)

IsVar(node) == node[1] \in {"var", "blank"}

Thrown  == <<"thrown">>
Crashed == <<"crashed">>
Failed(node) == node \in {Thrown, Crashed}

-----------------------------------------------------------------------------
(* The text.  A term is a tuple that begins with its kind, where `ns' is a  *)
(* prefix with nothing behind it, `label' a blank node, `anon' is [], `nil' *)
(* is () and `node' is a collection or [...] with properties; a number has  *)
(* its text and its class.  In a malformed text `missing' is a term or verb *)
(* with nothing in it, and `node' what is not even that, which a missing    *)
(* list of objects comes to as well.                                        *)

IriTerm == ({"iriref"} \X Seq(STRING)) \cup ({"pname"} \X STRING \X Seq(STRING))
           \cup ({"ns"} \X STRING)

Term == IriTerm \cup ({"var", "label", "string", "boolean"} \X STRING)
        \cup ({"lang", "number"} \X STRING \X STRING) \cup ({"typed"} \X STRING \X IriTerm)
        \cup {<<"anon">>, <<"nil">>, <<"node">>, <<"missing">>}

\* A path is a sequence of alternatives, each a sequence of elements; it has none
\* only if the text is malformed.
Element  == [inverse : BOOLEAN, mod : STRING,
             primary : IriTerm \cup {<<"a">>, <<"not">>} \cup ({"path"} \X Path)]
Verb     == ({"var"} \X STRING) \cup ({"path"} \X Path) \cup {<<"missing">>}

\* The triples of one subject: for each verb its objects.
Properties  == [verb : Verb, objects : Seq(Term)]
SameSubject == [subject : Term, properties : Seq(Properties)]

\* A group graph pattern is a sequence of items: a block of the triples of
\* subjects, a UNION of one group or more, an OPTIONAL group, or something the
\* visitor passes over, like a FILTER or a MINUS.  A subquery is an item that is
\* alone in its group, and stands for a WHERE clause or a pattern in braces that
\* is missing too: either has no groupGraphPatternSub().
Item == [kind : {"block"}, tss : Seq(SameSubject)]
        \cup [kind : {"union"}, groups : Seq(Group) \ {<<>>}]
        \cup [kind : {"optional"}, group : Group]
        \cup [kind : {"other", "subselect"}]

ASSUME GrammarAssumption == /\ Group \subseteq Seq(Item)
                            /\ Path \subseteq Seq(Seq(Element) \ {<<>>})

Declaration == [prefix : STRING, namespace : Seq(STRING)]
Selection   == ({"var"} \X STRING) \cup {<<"expression">>}
Text == [form : STRING, prologue : [prefixes : Seq(Declaration), base : BOOLEAN],
         where : Group, select : {All} \cup Seq(Selection), distinct : BOOLEAN]

-----------------------------------------------------------------------------
(* PrologueVisitor: a later declaration of a prefix replaces an earlier     *)
(* one; BASE is not supported.                                              *)

\* Mutant of visitPrefixDecl: the first declaration stays.
visitPrefixDeclOnce(prefixes, decl) ==
    [p \in {decl.prefix} \cup DOMAIN prefixes |->
        IF p \in DOMAIN prefixes THEN prefixes[p] ELSE decl.namespace]

visitPrefixDecl(prefixes, decl) ==
    [p \in {decl.prefix} \cup DOMAIN prefixes |->
        IF p = decl.prefix THEN decl.namespace ELSE prefixes[p]]

NoPrefixes == [p \in {} |-> <<>>]

-----------------------------------------------------------------------------
(* Terms.                                                                   *)

visitIri(prefixes, t) ==
    CASE t[1] = "iriref" -> Iri(t[2])
      [] t[1] = "ns"     -> Crashed          \* PNAME_LN() is null
      [] OTHER           -> IF t[2] \in DOMAIN prefixes
                            THEN Iri(prefixes[t[2]] \o t[3]) ELSE Thrown

visitRdfLiteral(prefixes, t) ==
    CASE t[1] = "string" -> Literal(Xsd("string"), t[2])
      [] t[1] = "lang"   -> Literal(<<"@", t[3]>>, t[2])
      [] OTHER           -> LET type == visitIri(prefixes, t[3])
                            IN  IF Failed(type) THEN type ELSE Literal(type, t[2])

\* With or without a sign, the class of the number is its datatype.
visitNumericLiteral(t) == Literal(Xsd(t[3]), t[2])

visitBooleanLiteral(t) == Literal(Xsd("boolean"), t[2])

visitBlankNode(t) == IF t[1] = "label" THEN Blank(t[2]) ELSE Thrown

visitVarOrTerm(prefixes, t) ==
    CASE t[1] = "var"                        -> Var(t[2])
      [] t[1] \in {"iriref", "pname", "ns"}  -> visitIri(prefixes, t)
      [] t[1] \in {"label", "anon"}          -> visitBlankNode(t)
      [] t[1] \in {"string", "lang", "typed"} -> visitRdfLiteral(prefixes, t)
      [] t[1] = "boolean"                    -> visitBooleanLiteral(t)
      [] t[1] = "number"                     -> visitNumericLiteral(t)
      [] t[1] = "missing"                    -> Crashed      \* graphTerm() is null
      [] OTHER                               -> Thrown

-----------------------------------------------------------------------------
(* Paths.  Alternatives, none at all, sequences, inverses and negations     *)
(* throw; what modifies an element is not looked at.                        *)

Primary(path) == path[1][1].primary

\* Mutant of PathThrows: of a sequence the first element is taken.
PathThrowsLess(path) == Len(path) # 1 \/ path[1][1].inverse

PathThrows(path) == Len(path) # 1 \/ Len(path[1]) > 1 \/ path[1][1].inverse

\* A path in parentheses is visited in place of the verb.
IsNested(verb) == verb[1] = "path" /\ ~PathThrows(verb[2]) /\ Primary(verb[2])[1] = "path"

visitPathElt(prefixes, primary) ==
    CASE primary[1] = "a"   -> RdfType
      [] primary[1] = "not" -> Thrown
      [] OTHER              -> visitIri(prefixes, primary)

visitVerb(prefixes, verb) ==
    CASE verb[1] = "var"     -> Var(verb[2])
      [] verb[1] = "missing" -> Crashed      \* verbSimple() is null
      [] OTHER               -> IF PathThrows(verb[2]) THEN Thrown
                                ELSE visitPathElt(prefixes, Primary(verb[2]))
=============================================================================
