-------------------------------- MODULE RdfFile --------------------------------
(***************************************************************************)
(* An RDF file as the parser's iterator hands it out: statement by         *)
(* statement, each a triple or an error; after an error the parser goes on *)
(* with the next statement.  The parser is a library.                      *)
(***************************************************************************)
EXTENDS Integers, Sequences, FiniteSets, Functions

CONSTANTS Triples,  \* the triples there may be, each a sequence of three nodes
          Bad       \* a statement that is none

NodesOf(triples) == UNION {Range(t) : t \in triples}

ASSUME FileAssumption == Triples \subseteq [1..3 -> NodesOf(Triples)] /\ Bad \notin Triples

Statements == Triples \cup {Bad}

\* The triples among the first n statements of a file.
TriplesUpTo(f, n) == {f[i] : i \in {j \in 1..n : f[j] # Bad}}

TriplesOf(f) == TriplesUpTo(f, Len(f))
=============================================================================
