--------------------------- MODULE TermDictionary ---------------------------
(***************************************************************************)
(* What the node store promises its users: a dictionary of RDF terms.  A   *)
(* term gets its ID once, the ID belongs to no other term of its kind, and *)
(* neither is ever taken back.  Everything the triple store keeps (the     *)
(* hypertrie holds IDs only) rests on this promise.                        *)
(***************************************************************************)
EXTENDS Naturals

CONSTANTS Views,   \* the terms, as their "backend views"
          KindOf   \* the kind of each: blank node, IRI, literal, variable

VARIABLE dict      \* term -> ID, 0 for a term that is not in the dictionary

Taken(v) == {dict[w] : w \in {u \in Views : KindOf[u] = KindOf[v]}}

Init == /\ dict \in [Views -> Nat]
        /\ \A v, w \in Views : /\ v # w
                               /\ KindOf[v] = KindOf[w]
                               /\ dict[v] # 0
                               => dict[v] # dict[w]

Learn(v) == /\ dict[v] = 0
            /\ dict'[v] \in Nat \ (Taken(v) \cup {0})
            /\ dict' = [dict EXCEPT ![v] = dict'[v]]

Next == \E v \in Views : Learn(v)

Spec == Init /\ [][Next]_dict
=============================================================================
