------------------------------ MODULE TripleStore ------------------------------
(***************************************************************************)
(* The triple store: a tensor of triples that load_ttl fills from a file   *)
(* through a bulk inserter, slices of it, and the rdf:Lists in it.  The    *)
(* tensor and the bulk inserter are a library.                             *)
(***************************************************************************)
EXTENDS RdfFile, SequencesExt

CONSTANTS Missing,     \* what there is in place of a file that cannot be opened
          BulkSize,    \* triples per bulk
          First, Rest, Nil, \* rdf:first, rdf:rest, rdf:nil
          MaxItems     \* bound: how far a list is followed

ASSUME StoreAssumption == /\ BulkSize \in Nat \ {0}
                          /\ MaxItems \in Nat
                          /\ Missing \notin Seq(Statements)

VARIABLES file,     \* the statements of the file, or Missing
          loading,  \* load_ttl: "no", "reading", "done" or "thrown"
          pos,      \* the statement it reads next
          bulk,     \* what the bulk inserter holds
          errors,   \* calls of error_callback
          tensor    \* the triples in the hypertrie

loadVars == <<file, loading, pos, bulk, errors, tensor>>

VARIABLES reading,  \* get_rdf_list: "no", "reading", "done" or "thrown"
          list, head, node_vector

listVars  == <<reading, list, head, node_vector>>
storeVars == <<loadVars, listVars>>

\* A store nothing has been loaded into.
EmptyStore == /\ loading = "no" /\ pos = 1 /\ bulk = <<>> /\ errors = 0 /\ tensor = {}
              /\ reading = "no" /\ list = Nil /\ head = Nil /\ node_vector = <<>>

StoreInit == /\ file \in Seq(Statements) \cup {Missing}
             /\ EmptyStore

-----------------------------------------------------------------------------
(* load_ttl.                                                                *)

OpenFile == /\ loading = "no"
            /\ loading' = IF file = Missing THEN "thrown" ELSE "reading"
            /\ UNCHANGED <<file, pos, bulk, errors, tensor, listVars>>

\* Mutant of Add: a full bulk is inserted without the triple that fills it.
AddLosesOne(triple) ==
    IF Len(bulk) + 1 = BulkSize
    THEN /\ tensor' = tensor \cup Range(bulk)
         /\ bulk' = <<>>
    ELSE /\ bulk' = Append(bulk, triple)
         /\ UNCHANGED tensor

\* bulk_inserter.add: a bulk that is full is inserted.
Add(triple) ==
    IF Len(bulk) + 1 = BulkSize
    THEN /\ tensor' = tensor \cup Range(bulk) \cup {triple}
         /\ bulk' = <<>>
    ELSE /\ bulk' = Append(bulk, triple)
         /\ UNCHANGED tensor

ReadTriple == /\ loading = "reading" /\ pos <= Len(file)
              /\ file[pos] # Bad
              /\ Add(file[pos])
              /\ pos' = pos + 1
              /\ UNCHANGED <<file, loading, errors, listVars>>

ReadBad == /\ loading = "reading" /\ pos <= Len(file)
           /\ file[pos] = Bad
           /\ errors' = errors + 1
           /\ pos' = pos + 1
           /\ UNCHANGED <<file, loading, bulk, tensor, listVars>>

\* The bulk inserter is destroyed and inserts what it still holds.
EndOfFile == /\ loading = "reading" /\ pos > Len(file)
             /\ tensor' = tensor \cup Range(bulk)
             /\ bulk' = <<>>
             /\ loading' = "done"
             /\ UNCHANGED <<file, pos, errors, listVars>>

load_ttl == OpenFile \/ ReadTriple \/ ReadBad \/ EndOfFile

-----------------------------------------------------------------------------
(* Slices: the triples that agree with a key, without the places the key    *)
(* fixes; a key that fixes all of them gives {<<>>} or {}.                  *)

Nullopt   == <<"nullopt">>    \* in place of a node
Free(key) == FlattenSeq([i \in 1..3 |-> IF key[i] = Nullopt THEN <<i>> ELSE <<>>])

\* Mutant of Slice: the object is not a fixed position.
SliceNoObject(key) ==
    {[k \in DOMAIN Free(key) |-> t[Free(key)[k]]] :
        t \in {u \in tensor : \A i \in 1..2 : key[i] \in {Nullopt, u[i]}}}

Slice(key) ==
    {[k \in DOMAIN Free(key) |-> t[Free(key)[k]]] :
        t \in {u \in tensor : \A i \in 1..3 : key[i] \in {Nullopt, u[i]}}}

contains(triple) == triple \in tensor
size == Cardinality(tensor)

-----------------------------------------------------------------------------
(* Lists.                                                                   *)

Objects(node, predicate) == {entry[1] : entry \in Slice(<<node, predicate, Nullopt>>)}

is_rdf_list(node) ==
    \/ node = Nil
    \/ /\ Slice(<<node, Nullopt, Nullopt>>) # {}
       /\ Cardinality(Objects(node, First)) = 1
       /\ Cardinality(Objects(node, Rest)) = 1

StartList(node) ==
    /\ loading = "done" /\ reading = "no"
    /\ reading' = "reading" /\ list' = node /\ head' = node
    /\ UNCHANGED <<loadVars, node_vector>>

\* The head is moved to the element, and stays the first or the rest of `list'
\* in every round.
FollowList(element, rest) == head' = IF rest = {} THEN Nil ELSE element

NextItem ==
    /\ reading = "reading" /\ head # Nil /\ Len(node_vector) < MaxItems
    /\ LET elements == Objects(list, First)
           rest     == Objects(list, Rest)
       IN  IF Cardinality(elements) # 1 \/ Cardinality(rest) > 1
           THEN /\ reading' = "thrown"
                /\ UNCHANGED <<node_vector, head>>
           ELSE \E element \in elements :
                    /\ node_vector' = Append(node_vector, element)
                    /\ FollowList(element, rest)
                    /\ UNCHANGED reading
    /\ UNCHANGED <<loadVars, list>>

EndOfList == /\ reading = "reading" /\ head = Nil
             /\ reading' = "done"
             /\ UNCHANGED <<loadVars, list, head, node_vector>>

get_rdf_list(nodes) == (\E node \in nodes : StartList(node)) \/ NextItem \/ EndOfList

\* Any node may be the start of a list.
Nodes == NodesOf(Triples)

StoreNext == load_ttl \/ get_rdf_list(Nodes)

StoreSpec == StoreInit /\ [][StoreNext]_storeVars

-----------------------------------------------------------------------------
(* Properties.                                                              *)

\* Nothing of the file is lost in the bulks, whatever is wrong with its other
\* statements, and nothing is in the tensor that is not in the file: at any
\* time what has been read is what has been inserted and what waits in a bulk
\* that is not full, and at the end all of it is inserted (TripleStore::load_ttl).
LoadsTheFile ==
    /\ file # Missing =>
           /\ tensor \cup Range(bulk) = TriplesUpTo(file, pos - 1)
           /\ Len(bulk) < BulkSize
           /\ loading = "done" => /\ bulk = <<>>
                                  /\ tensor = TriplesOf(file)
    /\ file = Missing => tensor = {}

\* "Returns the items of an rdf:List as vector" (TripleStore.hpp, lines 45-52):
\* what get_rdf_list has collected of a list, all nodes of which are rdf:Lists,
\* are the items of its first nodes, one after the other.  Not so: it reads `list'
\* where it should read `head'.
WellFormed ==
    \A n \in Nodes : (n = list \/ \E m \in Nodes : n \in Objects(m, Rest)) => is_rdf_list(n)
CollectsTheItems ==
    WellFormed =>
        \E node \in [DOMAIN node_vector -> Nodes] :
            \A i \in DOMAIN node_vector :
                /\ node_vector[i] \in Objects(node[i], First)
                /\ IF i = 1 THEN node[i] = list ELSE node[i] \in Objects(node[i - 1], Rest)
=============================================================================
