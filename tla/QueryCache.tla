------------------------------ MODULE QueryCache ------------------------------
(***************************************************************************)
(* The cache of parsed SPARQL queries (SyncedLRUCache.hpp): a list of      *)
(* queries, most recently used first, and a map from the text of a query   *)
(* to its place in the list.  One mutex guards both; a query that is not   *)
(* cached is parsed while the mutex is held.  Parsing may throw, and so    *)
(* may the insertion into the map after the list already has the query:    *)
(* the caller answers 400 and the cache lives on with what was done.       *)
(*                                                                         *)
(* operator[] holds the mutex from its first to its last line, so calls    *)
(* are one after the other whatever threads make them; the variables of    *)
(* the call in progress are those of the thread that holds the mutex.      *)
(***************************************************************************)
EXTENDS Naturals, Sequences, SequencesExt

CONSTANTS Queries,       \* the texts of queries
          Unparsable,    \* those SPARQLQuery::parse rejects
          Nodes,         \* the addresses list nodes are allocated at
          MaxSizes,      \* choices for the constructor's max_size
          Elasticities,  \* choices for the constructor's elasticity
          NoNode, NoQuery

ASSUME CacheAssumption == /\ Unparsable \subseteq Queries
                          /\ MaxSizes \subseteq Nat
                          /\ Elasticities \subseteq Nat
                          /\ NoNode \notin Nodes
                          /\ NoQuery \notin Queries

VARIABLES max_size, elasticity,  \* fixed by the constructor
          lru_list,              \* the nodes of the list, front first
          key,                   \* node -> its query, NoQuery if it is freed
          cache,                 \* query -> its node, NoNode if not cached
          pc,                    \* where operator[] is, "idle": lock_ is free
          want, ref, value,      \* its argument, key_value, its result
          recency,               \* the cacheable queries, last used first
          failed                 \* an insertion into the map has failed

conf    == <<max_size, elasticity>>
content == <<lru_list, key, cache, recency, failed>>
vars    == <<conf, content, pc, want, ref, value>>

Cached == {q \in Queries : cache[q] # NoNode}
Size   == Cardinality(Cached)

max_allowed_size == max_size + elasticity

\* lru_list.splice: the i-th element becomes the first.
Splice(s, i) == [j \in DOMAIN s |-> IF j = 1 THEN s[i]
                                   ELSE IF j <= i THEN s[j - 1] ELSE s[j]]

UsedLast(q) == <<q>> \o RemoveFirst(recency, q)

Init == /\ max_size \in MaxSizes
        /\ elasticity \in Elasticities
        /\ lru_list = <<>>
        /\ key     = [n \in Nodes |-> NoQuery]
        /\ cache   = [q \in Queries |-> NoNode]
        /\ pc      = "idle"
        /\ want    = NoQuery
        /\ ref     = NoNode
        /\ value   = NoQuery
        /\ recency = <<>>
        /\ failed  = FALSE

\* The lock_guard goes out of scope: a value is returned, or nothing when an
\* exception leaves operator[].
Leave(v) == /\ pc' = "idle"
            /\ value' = v
            /\ ref' = NoNode

-----------------------------------------------------------------------------
Call(q) == /\ pc = "idle"
           /\ pc' = "find"
           /\ want' = q
           /\ value' = NoQuery
           /\ UNCHANGED <<conf, content, ref>>

\* Mutant of Hit: a hit does not move the query to the front.
HitNoSplice == /\ pc = "find"
               /\ cache[want] # NoNode
               /\ recency'  = UsedLast(want)
               /\ Leave(key[cache[want]])
               /\ UNCHANGED <<conf, lru_list, key, cache, failed, want>>

Hit == LET n == cache[want] IN
       /\ pc = "find"
       /\ n # NoNode
       /\ \E i \in DOMAIN lru_list : lru_list[i] = n /\ lru_list' = Splice(lru_list, i)
       /\ recency'  = UsedLast(want)
       /\ Leave(key[n])
       /\ UNCHANGED <<conf, key, cache, failed, want>>

FreeNodes == {n \in Nodes : key[n] = NoQuery}

\* emplace_front(key): the node's constructor parses the query.  Which free
\* address the allocator picks is immaterial.
EmplaceFront == LET n == CHOOSE m \in FreeNodes : TRUE IN
                /\ pc = "find"
                /\ want \notin Cached \cup Unparsable
                /\ FreeNodes # {}
                /\ key' = [key EXCEPT ![n] = want]
                /\ lru_list' = <<n>> \o lru_list
                /\ ref' = n
                /\ pc' = "insert"
                /\ UNCHANGED <<conf, cache, recency, failed, want, value>>

\* The parser throws, or the allocator does: the list is as before.
ParseThrows == /\ pc = "find"
               /\ want \notin Cached
               /\ want \in Unparsable \/ FreeNodes = {}
               /\ Leave(NoQuery)
               /\ UNCHANGED <<conf, content, want>>

\* Mutant of Insert: the map gets the last node of the list.
InsertLast == /\ pc = "insert"
              /\ cache' = [cache EXCEPT ![want] = Last(lru_list)]
              /\ recency' = UsedLast(want)
              /\ pc' = "prune"
              /\ UNCHANGED <<conf, lru_list, key, failed, want, ref, value>>

\* cache_[key] = lru_list_.begin()
Insert == /\ pc = "insert"
          /\ cache' = [cache EXCEPT ![want] = Head(lru_list)]
          /\ recency' = UsedLast(want)
          /\ pc' = "prune"
          /\ UNCHANGED <<conf, lru_list, key, failed, want, ref, value>>

\* The map cannot grow: the exception leaves operator[] after emplace_front.
InsertThrows == /\ pc = "insert"
                /\ failed' = TRUE
                /\ Leave(NoQuery)
                /\ UNCHANGED <<conf, lru_list, key, cache, recency, want>>

\* Mutant of NothingToPrune: <= for <.
PruneLater == max_size = 0 \/ Size <= max_allowed_size

NothingToPrune == max_size = 0 \/ Size < max_allowed_size

StartPrune == /\ pc = "prune"
              /\ ~NothingToPrune
              /\ pc' = "evict"
              /\ UNCHANGED <<conf, content, want, ref, value>>

\* Mutants of Evict: the map keeps the key and the loop counts the list; the
\* loop goes on at max_size; it does not advance.
EvictKeepsKey == LET n == Last(lru_list) IN
                 /\ pc = "evict"
                 /\ Len(lru_list) > max_size
                 /\ lru_list' = Front(lru_list)
                 /\ key' = [key EXCEPT ![n] = NoQuery]
                 /\ UNCHANGED <<conf, cache, recency, failed, pc, want, ref, value>>

EvictOneMore == LET n == Last(lru_list) IN
                /\ pc = "evict"
                /\ Size >= max_size
                /\ cache' = [cache EXCEPT ![key[n]] = NoNode]
                /\ lru_list' = Front(lru_list)
                /\ key' = [key EXCEPT ![n] = NoQuery]
                /\ UNCHANGED <<conf, recency, failed, pc, want, ref, value>>

EvictNothing == pc = "evict" /\ Size > max_size /\ UNCHANGED vars

\* The loop of prune(): the map loses the key of the last node, the list the
\* node.
Evict == LET n == Last(lru_list) IN
         /\ pc = "evict"
         /\ Size > max_size
         /\ cache' = [cache EXCEPT ![key[n]] = NoNode]
         /\ lru_list' = Front(lru_list)
         /\ key' = [key EXCEPT ![n] = NoQuery]
         /\ UNCHANGED <<conf, recency, failed, pc, want, ref, value>>

\* return key_value.value, a reference into the list from before prune().
Return == /\ \/ pc = "prune" /\ NothingToPrune
             \/ pc = "evict" /\ Size <= max_size
          /\ Leave(key[ref])
          /\ UNCHANGED <<conf, content, want>>

Step == \/ Hit \/ ParseThrows \/ Insert \/ InsertThrows
        \/ StartPrune \/ Evict \/ Return \/ EmplaceFront

Next == Step \/ \E q \in Queries : Call(q)

Spec == Init /\ [][Next]_vars

\* A thread in operator[] runs on.
FairSpec == Spec /\ WF_vars(Step)

-----------------------------------------------------------------------------
(* Properties.                                                             *)

TypeOK == /\ lru_list \in Seq(Nodes)
          /\ key \in [Nodes -> Queries \cup {NoQuery}]
          /\ cache \in [Queries -> Nodes \cup {NoNode}]
          /\ pc \in {"idle", "find", "insert", "prune", "evict"}
          /\ want \in Queries \cup {NoQuery}
          /\ ref \in Nodes \cup {NoNode}
          /\ value \in Queries \cup {NoQuery}

\* The map never leads to a freed node or to another query's node, not even
\* after an insertion that failed half way left a node without an entry.
NoDangling == \A q \in Cached : /\ cache[q] \in ToSet(lru_list)
                                /\ key[cache[q]] = q

\* Whoever gets a query gets the one it asked for: the reference operator[]
\* returns survives its own prune().
ReturnsWhatWasAsked ==
    value # NoQuery => value = want /\ value \notin Unparsable

\* The comment of the constructor: the cache may grow to max_size + elasticity
\* and is then pruned back to max_size; 0 means no bound.
Bounded == pc = "idle" /\ max_size # 0 =>
               Size < max_allowed_size \/ Size <= max_size

\* Pruning stops at max_size: it never throws away more than the soft limit
\* asks for.
PrunesNoMore == [][Cached' # Cached /\ Cached' \subseteq Cached =>
                      max_size # 0 /\ Cardinality(Cached') >= max_size]_vars

\* What is cached is what was used last, in that order, and the list holds
\* nothing else; as long as every insertion succeeded.
KeepsTheRecent ==
    pc = "idle" /\ ~failed =>
        /\ [i \in 1..Len(lru_list) |-> key[lru_list[i]]] = SubSeq(recency, 1, Len(lru_list))
        /\ Size = Len(lru_list)

\* A thread in operator[] comes out: the loop of prune() ends, with and without
\* nodes that failed insertions left behind.
LockReleased == (pc # "idle") ~> (pc = "idle")
=============================================================================
