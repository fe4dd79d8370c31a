--------------------------- MODULE QueryCacheProofs ---------------------------
(***************************************************************************)
(* The guarantees of QueryCache for any queries, addresses and limits.     *)
(* That no entry of the map dangles needs more than itself: a node is in   *)
(* the list once, so that freeing the last element frees no other, and a   *)
(* node of the list is allocated, so that a new one is not in it already.  *)
(***************************************************************************)
EXTENDS Integers, QueryCache, FiniteSetTheorems, SequenceTheorems, TLAPS

Places == DOMAIN lru_list

ListInv == /\ \A i, j \in Places : lru_list[i] = lru_list[j] => i = j
           /\ \A i \in Places : key[lru_list[i]] # NoQuery

KeyInv == \A n \in Nodes : key[n] \notin Unparsable

\* Between emplace_front and the return, the front node holds the query that
\* was asked for, and key_value refers to it.
FrontInv == pc \in {"insert", "prune", "evict"} =>
                /\ want \in Queries
                /\ Len(lru_list) > 0
                /\ ref = lru_list[1]
                /\ key[ref] = want

CallInv == /\ pc = "find" => want \in Queries
           /\ pc = "evict" => max_size # 0
           /\ max_size \in Nat

IInv == /\ TypeOK
        /\ ListInv
        /\ KeyInv
        /\ NoDangling
        /\ FrontInv
        /\ CallInv
        /\ ReturnsWhatWasAsked

-----------------------------------------------------------------------------
\* The list after splice: the same nodes, none of them twice.
LEMMA SpliceMoves ==
    ASSUME NEW S, NEW s \in Seq(S), NEW i \in DOMAIN s,
           \A j, k \in DOMAIN s : s[j] = s[k] => j = k
    PROVE  /\ Splice(s, i) \in Seq(S)
           /\ DOMAIN Splice(s, i) = DOMAIN s
           /\ \A j, k \in DOMAIN s : Splice(s, i)[j] = Splice(s, i)[k] => j = k
           /\ \A k \in DOMAIN s : \E j \in DOMAIN s : Splice(s, i)[j] = s[k]
           /\ \A j \in DOMAIN s : \E k \in DOMAIN s : Splice(s, i)[j] = s[k]
<1> DEFINE t == Splice(s, i)
           p(j) == IF j = 1 THEN i ELSE IF j <= i THEN j - 1 ELSE j
<1>1. /\ DOMAIN s = 1..Len(s) /\ Len(s) \in Nat
      /\ \A j \in DOMAIN s : s[j] \in S
  OBVIOUS
<1>2. \A j \in DOMAIN s : p(j) \in DOMAIN s
  BY <1>1
<1>3. DOMAIN t = DOMAIN s /\ \A j \in DOMAIN s : t[j] = s[p(j)]
  BY DEF Splice
<1>4. t \in Seq(S)
  <2>1. t = [j \in 1..Len(s) |-> t[j]]
    BY <1>1 DEF Splice
  <2>2. \A j \in 1..Len(s) : t[j] \in S
    BY <1>1, <1>2, <1>3
  <2> HIDE DEF t
  <2> QED BY <1>1, <2>1, <2>2
<1>5. \A j, k \in DOMAIN s : p(j) = p(k) => j = k
  BY <1>1
<1>6. \A j, k \in DOMAIN s : t[j] = t[k] => j = k
  <2> HIDE DEF t, p
  <2> QED BY <1>2, <1>3, <1>5
<1>7. \A k \in DOMAIN s : \E j \in DOMAIN s : p(j) = k
  <2> TAKE k \in DOMAIN s
  <2>1. CASE k = i
    BY <2>1, <1>1
  <2>2. CASE k < i
    <3>1. k + 1 \in DOMAIN s /\ p(k + 1) = k
      BY <2>2, <1>1
    <3> QED BY <3>1
  <2>3. CASE k > i
    <3>1. p(k) = k
      BY <2>3, <1>1
    <3> QED BY <3>1
  <2> QED BY <2>1, <2>2, <2>3, <1>1
<1>8. \A k \in DOMAIN s : \E j \in DOMAIN s : t[j] = s[k]
  <2> HIDE DEF t, p
  <2> QED BY <1>3, <1>7
<1>9. \A j \in DOMAIN s : \E k \in DOMAIN s : t[j] = s[k]
  <2> HIDE DEF t, p
  <2> QED BY <1>2, <1>3
<1> QED BY <1>3, <1>4, <1>6, <1>8, <1>9

\* The list after emplace_front.
LEMMA FrontGrows ==
    ASSUME NEW S, NEW s \in Seq(S), NEW n \in S
    PROVE  /\ <<n>> \o s \in Seq(S)
           /\ Len(<<n>> \o s) = Len(s) + 1
           /\ (<<n>> \o s)[1] = n
           /\ \A j \in 2..(Len(s) + 1) : j - 1 \in DOMAIN s /\ (<<n>> \o s)[j] = s[j - 1]
           /\ \A j \in DOMAIN s : (<<n>> \o s)[j + 1] = s[j]
  OBVIOUS

\* The list after pop_back.
LEMMA BackShrinks ==
    ASSUME NEW S, NEW s \in Seq(S), Len(s) > 0
    PROVE  /\ Front(s) \in Seq(S)
           /\ DOMAIN Front(s) = 1..(Len(s) - 1)
           /\ Len(Front(s)) = Len(s) - 1
           /\ \A j \in 1..(Len(s) - 1) : Front(s)[j] = s[j]
           /\ Last(s) = s[Len(s)]
<1>1. Len(s) \in Nat /\ Len(s) - 1 \in Nat /\ DOMAIN s = 1..Len(s)
  OBVIOUS
<1>2. Front(s) = [j \in 1..(Len(s) - 1) |-> s[j]]
  BY <1>1, SMTT(20) DEF Front
<1>3. \A j \in 1..(Len(s) - 1) : s[j] \in S
  BY <1>1
<1> QED BY <1>1, <1>2, <1>3 DEF Last

\* prune() never comes to the front node: were it the only one, the map would
\* not be above the soft limit.
LEMMA FrontStays ==
    ASSUME TypeOK, NoDangling, CallInv, max_size # 0, Size > max_size
    PROVE  Len(lru_list) # 1
<1> SUFFICES ASSUME Len(lru_list) = 1 PROVE FALSE
  OBVIOUS
<1> DEFINE only == {key[lru_list[1]]}
<1>1. Cached \subseteq only
  <2> SUFFICES ASSUME NEW q \in Cached PROVE q \in only
    OBVIOUS
  <2>1. cache[q] \in ToSet(lru_list) /\ key[cache[q]] = q
    BY DEF NoDangling
  <2>2. DOMAIN lru_list = {1}
    <3>1. DOMAIN lru_list = 1..1
      BY DEF TypeOK
    <3> QED BY <3>1
  <2>3. cache[q] = lru_list[1]
    BY <2>1, <2>2 DEF ToSet
  <2> QED BY <2>1, <2>3
<1>2. IsFiniteSet(only) /\ Cardinality(only) = 1
  BY FS_Singleton
<1>3. Cardinality(Cached) <= 1 /\ IsFiniteSet(Cached)
  BY <1>1, <1>2, FS_Subset
<1>4. Cardinality(Cached) \in Nat
  BY <1>3, FS_CardinalityType
<1> QED BY <1>3, <1>4 DEF Size, CallInv

-----------------------------------------------------------------------------
LEMMA InitEstablishes == Init => IInv
<1> SUFFICES ASSUME Init PROVE IInv
  OBVIOUS
<1>1. lru_list \in Seq(Nodes) /\ Places = {} /\ Len(lru_list) = 0
  BY DEF Init, Places
<1>2. TypeOK
  BY <1>1, CacheAssumption DEF Init, TypeOK
<1>3. ListInv
  BY <1>1 DEF ListInv
<1>4. KeyInv
  BY CacheAssumption DEF Init, KeyInv
<1>5. NoDangling
  BY DEF Init, NoDangling, Cached
<1>6. FrontInv /\ CallInv /\ ReturnsWhatWasAsked
  BY CacheAssumption DEF Init, FrontInv, CallInv, ReturnsWhatWasAsked
<1> QED BY <1>2, <1>3, <1>4, <1>5, <1>6 DEF IInv

\* The steps that leave the list, the nodes and the map alone keep what is
\* said of them.
LEMMA ContentStays ==
    ASSUME ListInv, KeyInv, NoDangling, UNCHANGED <<lru_list, key, cache>>
    PROVE  ListInv' /\ KeyInv' /\ NoDangling'
BY DEF ListInv, KeyInv, NoDangling, Places, Cached, ToSet

LEMMA CallPreserves == ASSUME IInv, NEW q \in Queries, Call(q) PROVE IInv'
<1> USE DEF IInv, Call, conf, content
<1>1. ListInv' /\ KeyInv' /\ NoDangling'
  BY ContentStays
<1>2. TypeOK'
  BY DEF TypeOK
<1>3. FrontInv' /\ CallInv' /\ ReturnsWhatWasAsked'
  BY DEF FrontInv, CallInv, ReturnsWhatWasAsked
<1> QED BY <1>1, <1>2, <1>3

LEMMA HitPreserves == ASSUME IInv, Hit PROVE IInv'
<1> DEFINE n == cache[want]
<1>1. /\ pc = "find" /\ n # NoNode /\ want \in Queries
      /\ n \in ToSet(lru_list) /\ key[n] = want /\ n \in Nodes
      /\ pc' = "idle" /\ value' = want /\ ref' = NoNode
      /\ UNCHANGED <<max_size, key, cache, want>>
  BY DEF Hit, Leave, conf, IInv, TypeOK, CallInv, NoDangling, Cached
<1>2. PICK i \in DOMAIN lru_list : lru_list' = Splice(lru_list, i)
  BY DEF Hit
<1>3. /\ lru_list' \in Seq(Nodes)
      /\ DOMAIN lru_list' = DOMAIN lru_list
      /\ \A j, k \in DOMAIN lru_list : lru_list'[j] = lru_list'[k] => j = k
      /\ \A k \in DOMAIN lru_list : \E j \in DOMAIN lru_list : lru_list'[j] = lru_list[k]
      /\ \A j \in DOMAIN lru_list : \E k \in DOMAIN lru_list : lru_list'[j] = lru_list[k]
  <2>1. lru_list \in Seq(Nodes) /\ \A j, k \in DOMAIN lru_list : lru_list[j] = lru_list[k] => j = k
    BY DEF IInv, TypeOK, ListInv, Places
  <2> DEFINE t == Splice(lru_list, i)
  <2>2. /\ t \in Seq(Nodes)
        /\ DOMAIN t = DOMAIN lru_list
        /\ \A j, k \in DOMAIN lru_list : t[j] = t[k] => j = k
        /\ \A k \in DOMAIN lru_list : \E j \in DOMAIN lru_list : t[j] = lru_list[k]
        /\ \A j \in DOMAIN lru_list : \E k \in DOMAIN lru_list : t[j] = lru_list[k]
    BY ONLY <2>1, i \in DOMAIN lru_list, SpliceMoves, ZenonT(40)
  <2>3. lru_list' = t
    BY <1>2
  <2> HIDE DEF t
  <2> QED BY <2>2, <2>3
<1>4. ASSUME NEW x \in ToSet(lru_list) PROVE x \in ToSet(lru_list)'
  <2>1. PICK k \in DOMAIN lru_list : x = lru_list[k]
    BY DEF ToSet
  <2>2. PICK j \in DOMAIN lru_list : lru_list'[j] = lru_list[k]
    BY <1>3
  <2> QED BY <1>3, <2>1, <2>2 DEF ToSet
<1>5. TypeOK'
  BY <1>1, <1>3 DEF TypeOK, IInv
<1>6. ListInv'
  <2>1. Places' = Places
    BY <1>3 DEF Places
  <2>2. \A j \in Places : key'[lru_list'[j]] # NoQuery
    <3> TAKE j \in Places
    <3>1. PICK k \in Places : lru_list'[j] = lru_list[k]
      BY <1>3 DEF Places
    <3> QED BY <1>1, <3>1 DEF ListInv, IInv
  <2> QED BY <1>3, <2>1, <2>2 DEF ListInv, Places
<1>7. NoDangling'
  BY <1>1, <1>4 DEF NoDangling, IInv, Cached
<1>8. KeyInv'
  BY <1>1 DEF KeyInv, IInv
<1>9. FrontInv' /\ CallInv' /\ ReturnsWhatWasAsked'
  BY <1>1 DEF FrontInv, CallInv, KeyInv, ReturnsWhatWasAsked, IInv
<1> QED BY <1>5, <1>6, <1>7, <1>8, <1>9 DEF IInv

LEMMA EmplaceFrontPreserves == ASSUME IInv, EmplaceFront PROVE IInv'
<1> DEFINE n == CHOOSE m \in FreeNodes : TRUE
<1>1. /\ pc = "find" /\ want \in Queries \ Unparsable /\ cache[want] = NoNode
      /\ n \in Nodes /\ key[n] = NoQuery
      /\ key' = [key EXCEPT ![n] = want] /\ lru_list' = <<n>> \o lru_list
      /\ ref' = n /\ pc' = "insert"
      /\ UNCHANGED <<max_size, cache, want, value>>
  BY DEF EmplaceFront, FreeNodes, Cached, conf, IInv, CallInv
<1> HIDE DEF n
<1>2. lru_list \in Seq(Nodes) /\ key \in [Nodes -> Queries \cup {NoQuery}]
  BY DEF IInv, TypeOK
<1>3. /\ lru_list' \in Seq(Nodes)
      /\ Len(lru_list') = Len(lru_list) + 1
      /\ lru_list'[1] = n
      /\ \A j \in 2..(Len(lru_list) + 1) : j - 1 \in Places /\ lru_list'[j] = lru_list[j - 1]
      /\ \A j \in Places : lru_list'[j + 1] = lru_list[j]
  BY <1>1, <1>2, FrontGrows DEF Places
<1>4. /\ Places = 1..Len(lru_list) /\ Len(lru_list) \in Nat
      /\ Places' = 1..(Len(lru_list) + 1)
      /\ \A j \in Places' : j = 1 \/ j \in 2..(Len(lru_list) + 1)
      /\ \A j \in Places : j + 1 \in Places'
  <2>1. Places = 1..Len(lru_list) /\ Len(lru_list) \in Nat
    BY <1>2 DEF Places
  <2>2. Places' = 1..(Len(lru_list) + 1)
    BY <1>3 DEF Places
  <2> QED BY <2>1, <2>2
\* The new node is not in the list: those of the list are allocated.
<1>5. \A j \in Places : lru_list[j] # n /\ lru_list[j] \in Nodes
  BY <1>1, <1>2 DEF IInv, ListInv, Places
<1>6. \A m \in Nodes : key'[m] = IF m = n THEN want ELSE key[m]
  BY <1>1, <1>2
<1>7. TypeOK'
  BY <1>1, <1>3 DEF TypeOK, IInv
<1>8. ListInv'
  <2>1. \A i, j \in Places' : lru_list'[i] = lru_list'[j] => i = j
    <3> SUFFICES ASSUME NEW i \in Places', NEW j \in Places', lru_list'[i] = lru_list'[j]
                 PROVE  i = j
      OBVIOUS
    <3>0. \A k \in Places' : k # 1 => lru_list'[k] # lru_list'[1]
      <4> SUFFICES ASSUME NEW k \in Places', k # 1 PROVE lru_list'[k] # lru_list'[1]
        OBVIOUS
      <4>1. k - 1 \in Places /\ lru_list'[k] = lru_list[k - 1]
        BY <1>3, <1>4
      <4> QED BY <4>1, <1>3, <1>5
    <3>1. CASE i = 1 \/ j = 1
      BY <3>0, <3>1
    <3>2. CASE i # 1 /\ j # 1
      <4>1. i - 1 \in Places /\ j - 1 \in Places /\ lru_list[i - 1] = lru_list[j - 1]
        BY <3>2, <1>3, <1>4
      <4>2. i - 1 = j - 1
        BY <4>1 DEF IInv, ListInv
      <4> QED BY <4>2, <1>4
    <3> QED BY <3>1, <3>2
  <2>2. \A i \in Places' : key'[lru_list'[i]] # NoQuery
    <3> SUFFICES ASSUME NEW i \in Places' PROVE key'[lru_list'[i]] # NoQuery
      OBVIOUS
    <3>1. CASE i = 1
      BY <3>1, <1>1, <1>3, <1>6, CacheAssumption
    <3>2. CASE i # 1
      <4>1. i - 1 \in Places /\ lru_list'[i] = lru_list[i - 1]
        BY <3>2, <1>3, <1>4
      <4> QED BY <4>1, <1>5, <1>6 DEF IInv, ListInv
    <3> QED BY <3>1, <3>2
  <2> QED BY <2>1, <2>2 DEF ListInv
<1>9. KeyInv'
  BY <1>1, <1>6 DEF KeyInv, IInv
<1>10. NoDangling'
  <2> SUFFICES ASSUME NEW q \in Cached'
               PROVE  cache'[q] \in ToSet(lru_list)' /\ key'[cache'[q]] = q
    BY DEF NoDangling
  <2>1. q \in Queries /\ q \in Cached /\ cache'[q] = cache[q]
    BY <1>1 DEF Cached
  <2>2. cache[q] \in ToSet(lru_list) /\ key[cache[q]] = q
    BY <2>1 DEF IInv, NoDangling
  <2>3. PICK j \in Places : cache[q] = lru_list[j]
    BY <2>2 DEF ToSet, Places
  <2>4. cache[q] = lru_list'[j + 1] /\ j + 1 \in Places'
    BY <2>3, <1>3, <1>4
  <2>5. cache[q] \in ToSet(lru_list)'
    BY <2>4 DEF ToSet, Places
  <2>6. key'[cache[q]] = q
    BY <2>2, <2>3, <1>5, <1>6
  <2> QED BY <2>1, <2>5, <2>6
<1>11. FrontInv' /\ CallInv' /\ ReturnsWhatWasAsked'
  BY <1>1, <1>3, <1>4, <1>6 DEF FrontInv, CallInv, ReturnsWhatWasAsked, IInv
<1> QED BY <1>7, <1>8, <1>9, <1>10, <1>11 DEF IInv

LEMMA InsertPreserves == ASSUME IInv, Insert PROVE IInv'
<1>1. /\ pc = "insert" /\ want \in Queries /\ Len(lru_list) > 0
      /\ ref = lru_list[1] /\ key[ref] = want
      /\ cache' = [cache EXCEPT ![want] = ref] /\ pc' = "prune"
      /\ UNCHANGED <<max_size, lru_list, key, want, ref, value>>
  <2>1. pc = "insert" /\ FrontInv
    BY DEF Insert, IInv
  <2>2. Head(lru_list) = lru_list[1]
    BY <2>1 DEF IInv, TypeOK
  <2> QED BY <2>1, <2>2 DEF Insert, FrontInv, conf
<1>2. /\ lru_list \in Seq(Nodes) /\ 1 \in DOMAIN lru_list /\ ref \in Nodes
      /\ cache \in [Queries -> Nodes \cup {NoNode}]
  BY <1>1 DEF IInv, TypeOK
<1>3. NoDangling'
  <2> SUFFICES ASSUME NEW q \in Cached'
               PROVE  cache'[q] \in ToSet(lru_list)' /\ key'[cache'[q]] = q
    BY DEF NoDangling
  <2>1. CASE q = want
    BY <2>1, <1>1, <1>2 DEF ToSet
  <2>2. CASE q # want
    <3>1. q \in Cached /\ cache'[q] = cache[q]
      BY <2>2, <1>1, <1>2 DEF Cached
    <3> QED BY <3>1, <1>1 DEF IInv, NoDangling, ToSet
  <2> QED BY <2>1, <2>2
<1>4. TypeOK'
  BY <1>1, <1>2 DEF TypeOK, IInv
<1>5. ListInv' /\ KeyInv' /\ FrontInv' /\ CallInv' /\ ReturnsWhatWasAsked'
  BY <1>1 DEF ListInv, Places, KeyInv, FrontInv, CallInv, ReturnsWhatWasAsked, IInv
<1> QED BY <1>3, <1>4, <1>5 DEF IInv

LEMMA ThrowPreserves == ASSUME IInv, ParseThrows \/ InsertThrows PROVE IInv'
<1>1. /\ pc' = "idle" /\ value' = NoQuery /\ ref' = NoNode
      /\ UNCHANGED <<max_size, lru_list, key, cache, want>>
  BY DEF ParseThrows, InsertThrows, Leave, conf, content
<1>2. ListInv' /\ KeyInv' /\ NoDangling'
  BY <1>1, ContentStays DEF IInv
<1>3. TypeOK' /\ FrontInv' /\ CallInv' /\ ReturnsWhatWasAsked'
  BY <1>1 DEF TypeOK, FrontInv, CallInv, ReturnsWhatWasAsked, IInv
<1> QED BY <1>2, <1>3 DEF IInv

LEMMA StartPrunePreserves == ASSUME IInv, StartPrune PROVE IInv'
<1>1. /\ pc = "prune" /\ pc' = "evict" /\ max_size # 0
      /\ UNCHANGED <<max_size, lru_list, key, cache, want, ref, value>>
  BY DEF StartPrune, NothingToPrune, conf, content
<1>2. ListInv' /\ KeyInv' /\ NoDangling'
  BY <1>1, ContentStays DEF IInv
<1>3. TypeOK' /\ FrontInv' /\ CallInv' /\ ReturnsWhatWasAsked'
  BY <1>1 DEF TypeOK, FrontInv, CallInv, ReturnsWhatWasAsked, IInv
<1> QED BY <1>2, <1>3 DEF IInv

\* key_value is still what was put at the front: pruning did not free it.
LEMMA ReturnPreserves == ASSUME IInv, Return PROVE IInv'
<1>1. /\ pc \in {"prune", "evict"} /\ pc' = "idle" /\ ref' = NoNode
      /\ value' = key[ref]
      /\ UNCHANGED <<max_size, lru_list, key, cache, want>>
  BY DEF Return, Leave, conf, content
<1>2. ListInv' /\ KeyInv' /\ NoDangling'
  BY <1>1, ContentStays DEF IInv
<1>3. /\ want \in Queries /\ Len(lru_list) > 0
      /\ ref = lru_list[1] /\ key[ref] = want
  BY <1>1 DEF IInv, FrontInv
<1>4. ref \in Nodes
  BY <1>3 DEF IInv, TypeOK
<1>5. want \notin Unparsable
  BY <1>3, <1>4 DEF IInv, KeyInv
<1>6. TypeOK' /\ FrontInv' /\ CallInv' /\ ReturnsWhatWasAsked'
  BY <1>1, <1>3, <1>5 DEF TypeOK, FrontInv, CallInv, ReturnsWhatWasAsked, IInv
<1> QED BY <1>2, <1>6 DEF IInv

LEMMA EvictPreserves == ASSUME IInv, Evict PROVE IInv'
<1> DEFINE n == Last(lru_list)
           last == Len(lru_list)
<1>1. /\ pc = "evict" /\ Size > max_size /\ max_size # 0
      /\ cache' = [cache EXCEPT ![key[n]] = NoNode]
      /\ lru_list' = Front(lru_list)
      /\ key' = [key EXCEPT ![n] = NoQuery]
      /\ UNCHANGED <<max_size, pc, want, ref, value>>
  BY DEF Evict, conf, IInv, CallInv
<1>2. /\ lru_list \in Seq(Nodes) /\ last > 0 /\ last \in Nat
      /\ key \in [Nodes -> Queries \cup {NoQuery}]
      /\ cache \in [Queries -> Nodes \cup {NoNode}]
      /\ want \in Queries /\ ref = lru_list[1] /\ key[ref] = want
  BY <1>1 DEF IInv, TypeOK, FrontInv
<1>3. last > 1
  <2>1. last # 1
    BY <1>1, FrontStays DEF IInv
  <2>2. last > 0 /\ last \in Nat
    BY <1>2
  <2> HIDE DEF last
  <2> QED BY <2>1, <2>2
<1>4. /\ n = lru_list[last] /\ n \in Nodes
      /\ last \in Places /\ 1 \in Places /\ 1 # last
      /\ Places = 1..last
  BY <1>2, <1>3 DEF Last, Places
<1>5. /\ lru_list' \in Seq(Nodes)
      /\ Places' = 1..(last - 1)
      /\ Len(lru_list') = last - 1
      /\ \A j \in Places' : j \in Places /\ j # last /\ lru_list'[j] = lru_list[j]
  <2>1. /\ Front(lru_list) \in Seq(Nodes)
        /\ DOMAIN Front(lru_list) = 1..(last - 1)
        /\ Len(Front(lru_list)) = last - 1
        /\ \A j \in 1..(last - 1) : Front(lru_list)[j] = lru_list[j]
    BY <1>2, BackShrinks
  <2>2. \A j \in 1..(last - 1) : j \in Places /\ j # last
    BY <1>2, <1>4
  <2> HIDE DEF last
  <2> QED BY <1>1, <2>1, <2>2 DEF Places
<1> HIDE DEF n, last
<1>6. \A j \in Places : lru_list[j] = n => j = last
  BY <1>4 DEF IInv, ListInv
<1>7. \A m \in Nodes : key'[m] = IF m = n THEN NoQuery ELSE key[m]
  BY <1>1, <1>2
<1>8. key[n] \in Queries
  BY <1>2, <1>4 DEF IInv, ListInv
<1>9. TypeOK'
  BY <1>1, <1>2, <1>5, <1>8 DEF TypeOK, IInv
<1>10. ListInv'
  <2>1. \A i, j \in Places' : lru_list'[i] = lru_list'[j] => i = j
    BY <1>5 DEF IInv, ListInv
  <2>2. \A i \in Places' : key'[lru_list'[i]] # NoQuery
    <3> TAKE i \in Places'
    <3>1. i \in Places /\ lru_list'[i] = lru_list[i] /\ lru_list[i] # n
      BY <1>5, <1>6
    <3>2. lru_list[i] \in Nodes
      BY <3>1, <1>2 DEF Places
    <3> QED BY <3>1, <3>2, <1>7 DEF IInv, ListInv
  <2> QED BY <2>1, <2>2 DEF ListInv
<1>11. KeyInv'
  BY <1>7, CacheAssumption DEF KeyInv, IInv
<1>12. NoDangling'
  <2> SUFFICES ASSUME NEW q \in Cached'
               PROVE  cache'[q] \in ToSet(lru_list)' /\ key'[cache'[q]] = q
    BY DEF NoDangling
  <2>1. q \in Queries /\ cache'[q] # NoNode
    BY DEF Cached
  <2>2. q # key[n] /\ cache'[q] = cache[q] /\ q \in Cached
    BY <2>1, <1>1, <1>2, <1>8 DEF Cached
  <2>3. cache[q] \in ToSet(lru_list) /\ key[cache[q]] = q
    BY <2>2 DEF IInv, NoDangling
  <2>4. PICK j \in Places : cache[q] = lru_list[j]
    BY <2>3 DEF ToSet, Places
  <2>5. j # last
    BY <2>2, <2>3, <2>4, <1>4
  <2>6. j \in Places' /\ lru_list'[j] = lru_list[j]
    <3>1. j \in 1..(last - 1)
      BY <2>5, <1>2, <1>4
    <3> QED BY <3>1, <1>5
  <2>7. cache[q] \in ToSet(lru_list)'
    BY <2>4, <2>6 DEF ToSet, Places
  <2>8. cache[q] \in Nodes /\ cache[q] # n
    BY <2>2, <2>3, <1>2, <2>1
  <2> QED BY <2>2, <2>3, <2>7, <2>8, <1>7
<1>13. FrontInv'
  <2>1. 1 \in Places' /\ lru_list'[1] = lru_list[1] /\ Len(lru_list') > 0
    BY <1>2, <1>3, <1>5
  <2>2. lru_list[1] # n /\ lru_list[1] \in Nodes
    BY <1>2, <1>4, <1>6 DEF Places
  <2> QED BY <2>1, <2>2, <1>1, <1>2, <1>7 DEF FrontInv
<1>14. CallInv' /\ ReturnsWhatWasAsked'
  BY <1>1 DEF CallInv, ReturnsWhatWasAsked, IInv
<1> QED BY <1>9, <1>10, <1>11, <1>12, <1>13, <1>14 DEF IInv

LEMMA NextPreserves == IInv /\ [Next]_vars => IInv'
<1> SUFFICES ASSUME IInv, [Next]_vars PROVE IInv'
  OBVIOUS
<1>1. CASE UNCHANGED vars
  <2>1. UNCHANGED <<max_size, lru_list, key, cache, pc, want, ref, value>>
    BY <1>1 DEF vars, conf, content
  <2>2. ListInv' /\ KeyInv' /\ NoDangling'
    BY <2>1, ContentStays DEF IInv
  <2>3. TypeOK' /\ FrontInv' /\ CallInv' /\ ReturnsWhatWasAsked'
    BY <2>1 DEF TypeOK, FrontInv, CallInv, ReturnsWhatWasAsked, IInv
  <2> QED BY <2>2, <2>3 DEF IInv
<1>2. ASSUME NEW q \in Queries, Call(q) PROVE IInv'
  BY <1>2, CallPreserves
<1>3. CASE Hit
  BY <1>3, HitPreserves
<1>4. CASE EmplaceFront
  BY <1>4, EmplaceFrontPreserves
<1>5. CASE ParseThrows \/ InsertThrows
  BY <1>5, ThrowPreserves
<1>6. CASE Insert
  BY <1>6, InsertPreserves
<1>7. CASE StartPrune
  BY <1>7, StartPrunePreserves
<1>8. CASE Evict
  BY <1>8, EvictPreserves
<1>9. CASE Return
  BY <1>9, ReturnPreserves
<1> QED BY <1>1, <1>2, <1>3, <1>4, <1>5, <1>6, <1>7, <1>8, <1>9 DEF Next, Step

-----------------------------------------------------------------------------
\* What the list, the nodes and the map have to do with each other holds
\* between any two calls, and inside one.
THEOREM Invariance == Spec => []IInv
BY InitEstablishes, NextPreserves, PTL DEF Spec

\* The variables have their types: no call puts a null node in the list.
THEOREM TypeCorrect == Spec => []TypeOK
<1>1. IInv => TypeOK
  BY DEF IInv
<1> QED BY <1>1, Invariance, PTL

\* No entry of the map leads to a freed node or to another query, also after
\* insertions that failed and after pruning.
THEOREM NeverDangling == Spec => []NoDangling
<1>1. IInv => NoDangling
  BY DEF IInv
<1> QED BY <1>1, Invariance, PTL

\* The reference operator[] returns is to the query that was asked for,
\* whatever the limits make its prune() throw away.
THEOREM ReturnsRightQuery == Spec => []ReturnsWhatWasAsked
<1>1. IInv => ReturnsWhatWasAsked
  BY DEF IInv
<1> QED BY <1>1, Invariance, PTL
-----------------------------------------------------------------------------
(* The limits.                                                             *)

\* The bound holds from the end of a call to its insertion into the map; the
\* rest of the call makes it hold again.
BoundInv == pc \in {"idle", "find", "insert"} /\ max_size # 0 =>
                Size < max_allowed_size \/ Size <= max_size

LEMMA InitIsBounded == Init => BoundInv
<1> SUFFICES ASSUME Init PROVE Size <= max_size
  BY DEF BoundInv
<1>1. Cached = {}
  BY DEF Init, Cached
<1>2. Size = 0 /\ max_size \in Nat
  BY <1>1, FS_EmptySet, CacheAssumption DEF Init, Size
<1> QED BY <1>2

LEMMA StepIsBounded == BoundInv /\ [Next]_vars => BoundInv'
<1> SUFFICES ASSUME BoundInv, [Next]_vars PROVE BoundInv'
  OBVIOUS
<1>1. CASE UNCHANGED <<cache, conf, pc>>
  BY <1>1 DEF BoundInv, Size, Cached, max_allowed_size, conf
<1>2. ASSUME UNCHANGED <<cache, conf>>, pc \in {"idle", "find", "insert"}
      PROVE  BoundInv'
  BY <1>2 DEF BoundInv, Size, Cached, max_allowed_size, conf
<1>3. ASSUME NEW q \in Queries, Call(q) PROVE BoundInv'
  BY <1>2, <1>3 DEF Call, content
<1>4. CASE Hit
  BY <1>2, <1>4 DEF Hit
<1>5. CASE ParseThrows \/ EmplaceFront \/ InsertThrows
  BY <1>2, <1>5 DEF ParseThrows, EmplaceFront, InsertThrows, content
<1>6. CASE Insert \/ StartPrune \/ Evict
  <2>1. pc' \in {"prune", "evict"}
    BY <1>6 DEF Insert, StartPrune, Evict
  <2> QED BY <2>1 DEF BoundInv
<1>7. CASE Return
  BY <1>7 DEF Return, NothingToPrune, BoundInv, Size, Cached, max_allowed_size, conf, content
<1>8. CASE UNCHANGED vars
  BY <1>1, <1>8 DEF vars, content
<1> QED BY <1>3, <1>4, <1>5, <1>6, <1>7, <1>8 DEF Next, Step

\* Every query in the map is the key of a node in the list, which is finite.
LEMMA CachedIsFinite == ASSUME IInv PROVE IsFiniteSet(Cached)
<1> DEFINE T == {key[lru_list[i]] : i \in Places}
           f == [i \in Places |-> key[lru_list[i]]]
<1>1. IsFiniteSet(Places)
  <2>1. Places = 1..Len(lru_list) /\ Len(lru_list) \in Nat
    BY DEF Places, IInv, TypeOK
  <2> QED BY <2>1, FS_Interval
<1>2. f \in Surjection(Places, T)
  BY DEF Surjection
<1>3. IsFiniteSet(T)
  BY <1>1, <1>2, FS_Surjection
<1>4. Cached \subseteq T
  BY DEF IInv, NoDangling, ToSet, Places
<1> QED BY <1>3, <1>4, FS_Subset

\* Only prune() takes a query from the map, one at a time and above max_size.
LEMMA StepPrunesNoMore ==
    ASSUME IInv, [Next]_vars, Cached' # Cached, Cached' \subseteq Cached
    PROVE  max_size # 0 /\ Cardinality(Cached') >= max_size
<1>1. cache' # cache
  BY DEF Cached
<1>2. ~Insert
  <2> SUFFICES ASSUME Insert PROVE FALSE
    OBVIOUS
  <2>1. /\ cache' = [cache EXCEPT ![want] = Head(lru_list)]
        /\ cache \in [Queries -> Nodes \cup {NoNode}]
        /\ lru_list \in Seq(Nodes) /\ Len(lru_list) > 0
    BY DEF Insert, IInv, FrontInv, TypeOK
  <2>2. Head(lru_list) # NoNode
    BY <2>1, CacheAssumption
  <2>3. Cached \subseteq Cached'
    BY <2>1, <2>2 DEF Cached
  <2> QED BY <2>3
<1>3. Evict
  BY <1>1, <1>2 DEF Next, Step, Call, Hit, ParseThrows, InsertThrows, StartPrune, Return,
                    EmplaceFront, vars, content
<1> DEFINE gone == key[Last(lru_list)]
<1>4. /\ Size > max_size /\ max_size # 0 /\ max_size \in Nat
      /\ cache' = [cache EXCEPT ![gone] = NoNode]
      /\ cache \in [Queries -> Nodes \cup {NoNode}]
  BY <1>3 DEF Evict, IInv, CallInv, TypeOK
<1> HIDE DEF gone
<1>5. Cached' = Cached \ {gone}
  BY <1>4 DEF Cached
<1>6. IsFiniteSet(Cached) /\ Cardinality(Cached) \in Nat
  BY CachedIsFinite, FS_CardinalityType
<1>7. Cardinality(Cached') >= Cardinality(Cached) - 1
  BY <1>5, <1>6, FS_RemoveElement
<1>8. Cardinality(Cached') \in Nat
  BY <1>5, <1>6, FS_RemoveElement, FS_CardinalityType
<1>9. Cardinality(Cached) > max_size
  BY <1>4 DEF Size
<1>10. Cardinality(Cached') >= max_size
  BY <1>4, <1>6, <1>7, <1>8, <1>9
<1> QED BY <1>4, <1>10

\* Between calls the cache is below max_size + elasticity or was pruned to
\* max_size, for any limits and whatever insertions failed.
THEOREM StaysBounded == Spec => []Bounded
<1>1. BoundInv => Bounded
  BY DEF BoundInv, Bounded
<1> QED BY <1>1, InitIsBounded, StepIsBounded, PTL DEF Spec

\* prune() stops at max_size: it throws away no query the soft limit lets the
\* cache keep.
THEOREM PrunesToTheLimit == Spec => PrunesNoMore
<1>1. IInv /\ [Next]_vars => [Cached' # Cached /\ Cached' \subseteq Cached =>
                                 max_size # 0 /\ Cardinality(Cached') >= max_size]_vars
  BY StepPrunesNoMore
<1> QED BY <1>1, Invariance, PTL DEF Spec, PrunesNoMore

-----------------------------------------------------------------------------
(* What is cached is what was used last.                                   *)

\* Between emplace_front and the insertion the list is one node ahead of the
\* map and of recency.
Pending == IF pc = "insert" THEN 1 ELSE 0

RecencyInv == /\ recency \in Seq(Queries)
              /\ \A i, j \in DOMAIN recency : recency[i] = recency[j] => i = j

\* The i-th node of the list has the query used i-th last, and the map knows.
RecentInv ==
    ~failed =>
        /\ pc = "insert" => cache[want] = NoNode
        /\ Len(lru_list) - Pending <= Len(recency)
        /\ \A i \in Places : i > Pending =>
               /\ recency[i - Pending] = key[lru_list[i]]
               /\ cache[key[lru_list[i]]] = lru_list[i]

RInv == IInv /\ RecencyInv /\ RecentInv

LEMMA RemovesTheOne ==
    ASSUME NEW S, NEW s \in Seq(S), NEW k \in DOMAIN s,
           \A i, j \in DOMAIN s : s[i] = s[j] => i = j
    PROVE  <<s[k]>> \o RemoveFirst(s, s[k]) = Splice(s, k)
<1> DEFINE n == Len(s)
           I == {i \in 1..n : s[i] = s[k]}
           a == SubSeq(s, 1, k - 1)
           b == SubSeq(s, k + 1, n)
<1>1. n \in Nat /\ DOMAIN s = 1..n /\ k \in 1..n /\ \A i \in 1..n : s[i] \in S
  OBVIOUS
<1>2. I = {k}
  BY <1>1
<1>3. Min(I) = k
  BY <1>1, <1>2 DEF Min
<1>4. RemoveFirst(s, s[k]) = a \o b
  <2>1. (\E i \in 1..n : s[i] = s[k]) /\ I # {}
    BY <1>1
  <2>2. RemoveFirst(s, s[k]) = RemoveAt(s, Min(I))
    BY <2>1 DEF RemoveFirst, SelectInSeq
  <2> QED BY <2>2, <1>3 DEF RemoveAt
<1>5. /\ a \in Seq(S) /\ Len(a) = k - 1
      /\ \A i \in 1..(k - 1) : a[i] = s[i]
  <2>1. \A i \in 1..(k - 1) : s[i] \in S
    BY <1>1
  <2>2. /\ a \in Seq(S) /\ Len(a) = IF 1 <= k - 1 THEN k - 1 - 1 + 1 ELSE 0
        /\ \A i \in 1..(k - 1 - 1 + 1) : a[i] = s[1 + i - 1]
    BY <1>1, <2>1, SubSeqProperties
  <2> HIDE DEF a
  <2> QED BY <1>1, <2>2
<1>6. /\ b \in Seq(S) /\ Len(b) = n - k
      /\ \A i \in 1..(n - k) : b[i] = s[k + i]
  <2>1. \A i \in (k + 1)..n : s[i] \in S
    BY <1>1
  <2>2. /\ b \in Seq(S) /\ Len(b) = IF k + 1 <= n THEN n - (k + 1) + 1 ELSE 0
        /\ \A i \in 1..(n - (k + 1) + 1) : b[i] = s[k + 1 + i - 1]
    BY <1>1, <2>1, SubSeqProperties
  <2> HIDE DEF b, n
  <2>3. Len(b) = n - k
    BY <1>1, <2>2
  <2>4. ASSUME NEW i \in 1..(n - k) PROVE b[i] = s[k + i]
    <3>1. i \in 1..(n - (k + 1) + 1) /\ k + 1 + i - 1 = k + i
      BY <1>1
    <3> QED BY <3>1, <2>2
  <2> QED BY <2>2, <2>3, <2>4
<1> DEFINE c == a \o b
           t == <<s[k]>> \o c
           u == Splice(s, k)
<1> HIDE DEF a, b, I
<1>7. /\ c \in Seq(S) /\ Len(c) = n - 1
      /\ \A i \in 1..(n - 1) : c[i] = IF i <= k - 1 THEN s[i] ELSE s[i + 1]
  <2>1. /\ c \in Seq(S) /\ Len(c) = Len(a) + Len(b)
        /\ \A i \in 1..(Len(a) + Len(b)) : c[i] = IF i <= Len(a) THEN a[i] ELSE b[i - Len(a)]
    <3>1. a \in Seq(S) /\ b \in Seq(S)
      BY <1>5, <1>6
    <3> QED BY ONLY <3>1, ConcatProperties
  <2> HIDE DEF c, n
  <2>2. Len(c) = n - 1
    BY <1>1, <1>5, <1>6, <2>1
  <2>3. ASSUME NEW i \in 1..(n - 1)
        PROVE  c[i] = IF i <= k - 1 THEN s[i] ELSE s[i + 1]
    <3>1. c[i] = IF i <= k - 1 THEN a[i] ELSE b[i - (k - 1)]
      BY <1>1, <1>5, <1>6, <2>1
    <3>2. CASE i <= k - 1
      <4>1. i \in 1..(k - 1)
        BY <3>2, <1>1
      <4> QED BY <4>1, <3>1, <3>2, <1>5
    <3>3. CASE ~(i <= k - 1)
      <4>1. i - (k - 1) \in 1..(n - k) /\ k + (i - (k - 1)) = i + 1
        BY <3>3, <1>1
      <4>2. b[i - (k - 1)] = s[i + 1]
        BY <4>1, <1>6
      <4> QED BY <4>2, <3>1, <3>3
    <3> QED BY <3>2, <3>3
  <2> QED BY <2>1, <2>2, <2>3
<1> HIDE DEF c
<1>8. /\ t \in Seq(S) /\ Len(t) = n /\ t[1] = s[k]
      /\ \A j \in 2..n : t[j] = c[j - 1]
  <2>1. /\ t \in Seq(S) /\ Len(t) = Len(c) + 1 /\ t[1] = s[k]
        /\ \A j \in 2..(Len(c) + 1) : j - 1 \in DOMAIN c /\ t[j] = c[j - 1]
    <3> DEFINE x == s[k]
    <3>1. c \in Seq(S) /\ x \in S
      BY <1>1, <1>7
    <3> HIDE DEF x
    <3>2. /\ <<x>> \o c \in Seq(S) /\ Len(<<x>> \o c) = Len(c) + 1 /\ (<<x>> \o c)[1] = x
          /\ \A j \in 2..(Len(c) + 1) : j - 1 \in DOMAIN c /\ (<<x>> \o c)[j] = c[j - 1]
      BY ONLY <3>1, FrontGrows
    <3> QED BY <3>2 DEF x
  <2> HIDE DEF t, n
  <2> QED BY <1>1, <1>7, <2>1
<1> HIDE DEF t
<1>9. u \in Seq(S) /\ DOMAIN u = DOMAIN s
  <2>1. u \in Seq(S) /\ DOMAIN u = DOMAIN s
    BY SpliceMoves
  <2> QED BY <2>1
<1>10. Len(u) = n
  <2> HIDE DEF u
  <2> QED BY <1>1, <1>9
<1>11. \A j \in 1..n : u[j] = IF j = 1 THEN s[k] ELSE IF j <= k THEN s[j - 1] ELSE s[j]
  BY <1>1 DEF Splice
<1> HIDE DEF u
<1>12. \A j \in 1..n : t[j] = u[j]
  <2> TAKE j \in 1..n
  <2>1. CASE j = 1
    BY <2>1, <1>8, <1>11
  <2>2. CASE j # 1
    <3>1. j \in 2..n /\ j - 1 \in 1..(n - 1)
      BY <2>2, <1>1
    <3>2. t[j] = c[j - 1]
      BY <3>1, <1>8
    <3>3. c[j - 1] = IF j - 1 <= k - 1 THEN s[j - 1] ELSE s[j - 1 + 1]
      BY <3>1, <1>7
    <3> QED BY <2>2, <3>1, <3>2, <3>3, <1>1, <1>11
  <2> QED BY <2>1, <2>2
<1>13. t = u
  BY <1>8, <1>9, <1>10, <1>12, SeqEqual
<1> QED BY <1>4, <1>13 DEF t, u, c

\* What was used after q moves one down.
KeepsBefore(r, q) ==
    \A m \in 0..Len(recency) :
        (\A j \in 1..m : recency[j] # q) =>
            Len(r) > m /\ \A j \in 1..m : r[j + 1] = recency[j]

\* recency after a use: q comes first, the queries used after q was move one
\* down, the others stay.
LEMMA UseMovesToFront ==
    ASSUME RecencyInv, NEW q \in Queries, NEW r, r = UsedLast(q)
    PROVE  /\ r \in Seq(Queries)
           /\ \A i, j \in DOMAIN r : r[i] = r[j] => i = j
           /\ Len(r) >= Len(recency) /\ Len(r) > 0 /\ r[1] = q
           /\ \A k \in DOMAIN recency : recency[k] = q => r = Splice(recency, k)
           /\ KeepsBefore(r, q)
<1> DEFINE n == Len(recency)
<1>1. /\ recency \in Seq(Queries) /\ n \in Nat /\ DOMAIN recency = 1..n
      /\ \A i, j \in DOMAIN recency : recency[i] = recency[j] => i = j
  BY DEF RecencyInv
<1>2. CASE \E k \in DOMAIN recency : recency[k] = q
  <2>1. PICK k \in DOMAIN recency : recency[k] = q
    BY <1>2
  <2>2. r = Splice(recency, k)
    BY <1>1, <2>1, RemovesTheOne DEF UsedLast
  <2>3. /\ r \in Seq(Queries) /\ DOMAIN r = DOMAIN recency
        /\ \A i, j \in DOMAIN r : r[i] = r[j] => i = j
    <3> DEFINE u == Splice(recency, k)
    <3>1. /\ u \in Seq(Queries) /\ DOMAIN u = DOMAIN recency
          /\ \A i, j \in DOMAIN recency : u[i] = u[j] => i = j
      BY ONLY <1>1, k \in DOMAIN recency, SpliceMoves, ZenonT(40)
    <3>2. r = u
      BY <2>2
    <3> HIDE DEF u
    <3> QED BY <3>1, <3>2
  <2>4. Len(r) = n
    BY <1>1, <2>3
  <2>5. \A j \in 1..n : r[j] = IF j = 1 THEN recency[k]
                               ELSE IF j <= k THEN recency[j - 1] ELSE recency[j]
    BY <1>1, <2>2 DEF Splice
  <2>6. n > 0 /\ k \in 1..n
    BY <1>1, <2>1
  <2>7. r[1] = q
    BY <1>1, <2>1, <2>5, <2>6
  <2>8. \A l \in DOMAIN recency : recency[l] = q => l = k
    BY <1>1, <2>1
  <2>9. ASSUME NEW m \in 0..n, \A j \in 1..m : recency[j] # q
        PROVE  m < n /\ \A j \in 1..m : r[j + 1] = recency[j]
    <3>1. k > m
      BY <2>1, <2>6, <2>9, <1>1
    <3>2. ASSUME NEW j \in 1..m PROVE r[j + 1] = recency[j]
      <4>1. j + 1 \in 1..n /\ j + 1 # 1 /\ j + 1 <= k /\ j + 1 - 1 = j
        BY <3>1, <2>6, <1>1
      <4> QED BY <4>1, <2>5
    <3> QED BY <3>1, <3>2, <2>6, <1>1
  <2> HIDE DEF n
  <2>10. Len(r) >= n /\ Len(r) > 0
    BY <1>1, <2>4, <2>6
  <2>11. \A l \in DOMAIN recency : recency[l] = q => r = Splice(recency, l)
    BY <2>2, <2>8
  <2>12. KeepsBefore(r, q)
    BY <2>4, <2>9 DEF KeepsBefore, n
  <2> QED BY <2>3, <2>7, <2>10, <2>11, <2>12 DEF n
<1>3. CASE \A k \in DOMAIN recency : recency[k] # q
  <2>1. r = <<q>> \o recency
    <3>1. ~ \E i \in 1..Len(recency) : recency[i] = q
      BY <1>1, <1>3
    <3> QED BY <3>1 DEF UsedLast, RemoveFirst
  <2>2. /\ r \in Seq(Queries) /\ Len(r) = n + 1 /\ r[1] = q
        /\ \A j \in 2..(n + 1) : j - 1 \in DOMAIN recency /\ r[j] = recency[j - 1]
        /\ \A j \in DOMAIN recency : r[j + 1] = recency[j]
    BY <1>1, <2>1, FrontGrows
  <2>3. DOMAIN r = 1..(n + 1)
    BY <2>2
  <2> HIDE DEF n
  <2>4. \A i, j \in DOMAIN r : r[i] = r[j] => i = j
    <3> SUFFICES ASSUME NEW i \in DOMAIN r, NEW j \in DOMAIN r, r[i] = r[j] PROVE i = j
      OBVIOUS
    <3>1. ASSUME NEW l \in DOMAIN r, l # 1
          PROVE  l - 1 \in DOMAIN recency /\ r[l] = recency[l - 1] /\ r[l] # r[1] /\ l \in Int
      <4>1. l \in 2..(n + 1)
        BY <1>1, <2>3, <3>1
      <4> QED BY <4>1, <2>2, <1>3
    <3>2. CASE i = 1 \/ j = 1
      BY <3>1, <3>2
    <3>3. CASE i # 1 /\ j # 1
      <4>1. i - 1 = j - 1
        BY <3>1, <3>3, <1>1
      <4> QED BY <4>1, <3>1, <3>3
    <3> QED BY <3>2, <3>3
  <2>5. ASSUME NEW m \in 0..n PROVE Len(r) > m /\ \A j \in 1..m : r[j + 1] = recency[j]
    BY <1>1, <2>2
  <2>6. Len(r) >= n /\ Len(r) > 0
    BY <1>1, <2>2
  <2>7. KeepsBefore(r, q)
    BY <2>5 DEF KeepsBefore, n
  <2> QED BY <1>3, <2>2, <2>4, <2>6, <2>7 DEF n
<1> QED BY <1>2, <1>3

LEMMA InitIsRecent == Init => RecencyInv /\ RecentInv
<1> SUFFICES ASSUME Init PROVE RecencyInv /\ RecentInv
  OBVIOUS
<1>1. /\ recency \in Seq(Queries) /\ DOMAIN recency = {} /\ Len(recency) = 0
      /\ Places = {} /\ Len(lru_list) = 0 /\ Pending = 0 /\ pc # "insert"
  BY DEF Init, Places, Pending
<1> QED BY <1>1 DEF RecencyInv, RecentInv

\* The steps that touch neither the list nor what is kept of the past.
LEMMA RecentStays ==
    ASSUME RInv, UNCHANGED content, (pc # "insert" /\ pc' # "insert") \/ UNCHANGED <<pc, want>>
    PROVE  RecencyInv' /\ RecentInv'
<1>1. UNCHANGED <<lru_list, key, cache, recency, failed>> /\ Places' = Places /\ Pending' = Pending
  BY DEF content, Places, Pending
<1>2. RecencyInv'
  BY <1>1 DEF RInv, RecencyInv
<1>3. pc' = "insert" => pc = "insert" /\ want' = want
  OBVIOUS
<1>4. RecentInv'
  BY <1>1, <1>3 DEF RInv, RecentInv
<1> QED BY <1>2, <1>4

LEMMA HitIsRecent == ASSUME RInv, Hit PROVE RecencyInv' /\ RecentInv'
<1>1. /\ pc = "find" /\ cache[want] # NoNode /\ want \in Queries
      /\ key[cache[want]] = want
      /\ pc' = "idle" /\ recency' = UsedLast(want)
      /\ UNCHANGED <<key, cache, failed>>
  BY DEF Hit, Leave, RInv, IInv, CallInv, NoDangling, Cached
<1>2. PICK i \in DOMAIN lru_list : lru_list[i] = cache[want] /\ lru_list' = Splice(lru_list, i)
  BY DEF Hit
<1>3. /\ recency' \in Seq(Queries)
      /\ \A j, k \in DOMAIN recency' : recency'[j] = recency'[k] => j = k
      /\ \A k \in DOMAIN recency : recency[k] = want => recency' = Splice(recency, k)
  BY <1>1, UseMovesToFront DEF RInv
<1>4. RecencyInv'
  BY <1>3 DEF RecencyInv
<1>5. ASSUME ~failed PROVE RecentInv'
  <2>1. /\ Len(lru_list) \in Nat /\ Len(recency) \in Nat
        /\ DOMAIN lru_list = 1..Len(lru_list) /\ DOMAIN recency = 1..Len(recency)
    BY DEF RInv, IInv, TypeOK, RecencyInv
  <2>2. /\ Len(lru_list) <= Len(recency)
        /\ \A j \in 1..Len(lru_list) : /\ recency[j] = key[lru_list[j]]
                                       /\ cache[key[lru_list[j]]] = lru_list[j]
    BY <1>1, <1>5, <2>1 DEF RInv, RecentInv, Places, Pending
  <2>3. i \in 1..Len(lru_list) /\ i \in DOMAIN recency /\ recency[i] = want
    BY <1>1, <1>2, <2>1, <2>2
  <2>4. recency' = Splice(recency, i)
    BY <1>3, <2>3
  <2>5. /\ DOMAIN lru_list' = DOMAIN lru_list /\ DOMAIN recency' = DOMAIN recency
        /\ \A j \in DOMAIN lru_list :
               lru_list'[j] = IF j = 1 THEN lru_list[i]
                              ELSE IF j <= i THEN lru_list[j - 1] ELSE lru_list[j]
        /\ \A j \in DOMAIN recency :
               recency'[j] = IF j = 1 THEN recency[i]
                             ELSE IF j <= i THEN recency[j - 1] ELSE recency[j]
    BY <1>2, <2>4 DEF Splice
  <2>6. lru_list' \in Seq(Nodes)
    BY HitPreserves DEF RInv, IInv, TypeOK
  <2>7. Len(lru_list') = Len(lru_list) /\ Len(recency') = Len(recency)
    BY <1>3, <2>1, <2>5, <2>6
  <2>8. ASSUME NEW j \in 1..Len(lru_list)
        PROVE  /\ recency'[j] = key[lru_list'[j]]
               /\ cache[key[lru_list'[j]]] = lru_list'[j]
    <3> DEFINE p == IF j = 1 THEN i ELSE IF j <= i THEN j - 1 ELSE j
    <3>1. p \in 1..Len(lru_list)
      BY <2>1, <2>3
    <3>2. j \in DOMAIN lru_list /\ j \in DOMAIN recency
      BY <2>1, <2>2
    <3>3. lru_list'[j] = lru_list[p] /\ recency'[j] = recency[p]
      BY <2>5, <3>2
    <3> HIDE DEF p
    <3> QED BY <2>2, <3>1, <3>3
  <2>9. Pending' = 0 /\ Places' = 1..Len(lru_list)
    BY <1>1, <2>1, <2>5 DEF Pending, Places
  <2>10. ASSUME NEW j \in Places'
         PROVE  recency'[j - 0] = key'[lru_list'[j]] /\ cache'[key'[lru_list'[j]]] = lru_list'[j]
    <3>1. j - 0 = j /\ j \in 1..Len(lru_list)
      BY <2>1, <2>9
    <3> QED BY <3>1, <2>8, <1>1
  <2>11. Len(lru_list') - 0 <= Len(recency')
    BY <2>1, <2>2, <2>7
  <2> QED BY <1>1, <2>9, <2>10, <2>11 DEF RecentInv
<1>6. failed' = failed
  BY <1>1
<1>7. failed' => RecentInv'
  BY DEF RecentInv
<1> QED BY <1>4, <1>5, <1>6, <1>7

\* The nodes of the list keep their queries, and move one down.
LEMMA EmplaceFrontIsRecent == ASSUME RInv, EmplaceFront PROVE RecencyInv' /\ RecentInv'
<1> DEFINE n == CHOOSE m \in FreeNodes : TRUE
<1>1. /\ pc = "find" /\ cache[want] = NoNode
      /\ n \in Nodes /\ key[n] = NoQuery
      /\ key' = [key EXCEPT ![n] = want] /\ lru_list' = <<n>> \o lru_list
      /\ pc' = "insert"
      /\ UNCHANGED <<cache, recency, failed, want>>
  BY DEF EmplaceFront, FreeNodes, Cached, RInv, IInv, CallInv
<1> HIDE DEF n
<1>2. RecencyInv'
  BY <1>1 DEF RInv, RecencyInv
<1>3. /\ lru_list \in Seq(Nodes) /\ key \in [Nodes -> Queries \cup {NoQuery}]
      /\ recency \in Seq(Queries) /\ Len(recency) \in Nat
      /\ Len(lru_list) \in Nat /\ Places = 1..Len(lru_list)
  BY DEF RInv, IInv, TypeOK, RecencyInv, Places
<1>4. /\ Len(lru_list') = Len(lru_list) + 1
      /\ \A j \in 2..(Len(lru_list) + 1) : j - 1 \in Places /\ lru_list'[j] = lru_list[j - 1]
      /\ lru_list' \in Seq(Nodes)
  BY <1>1, <1>3, FrontGrows DEF Places
<1>5. Places' = 1..(Len(lru_list) + 1)
  BY <1>4 DEF Places
<1>6. \A j \in Places : lru_list[j] \in Nodes /\ lru_list[j] # n
  BY <1>1, <1>3 DEF RInv, IInv, ListInv, Places
<1>7. \A j \in Places : key'[lru_list[j]] = key[lru_list[j]]
  BY <1>1, <1>3, <1>6
<1>8. ASSUME ~failed PROVE RecentInv'
  <2>1. /\ Len(lru_list) <= Len(recency)
        /\ \A j \in Places : /\ recency[j] = key[lru_list[j]]
                             /\ cache[key[lru_list[j]]] = lru_list[j]
    <3>1. Pending = 0
      BY <1>1 DEF Pending
    <3>2. \A j \in Places : j > 0 /\ j - 0 = j
      BY <1>3
    <3> QED BY <1>3, <1>8, <3>1, <3>2 DEF RInv, RecentInv
  <2>2. Pending' = 1
    BY <1>1 DEF Pending
  <2>3. ASSUME NEW j \in Places', j > 1
        PROVE  /\ recency'[j - 1] = key'[lru_list'[j]]
               /\ cache'[key'[lru_list'[j]]] = lru_list'[j]
    <3>1. j \in 2..(Len(lru_list) + 1)
      BY <2>3, <1>3, <1>5
    <3>2. j - 1 \in Places /\ lru_list'[j] = lru_list[j - 1]
      BY <3>1, <1>4
    <3> QED BY <3>2, <2>1, <1>7, <1>1
  <2>4. Len(lru_list') - 1 <= Len(recency')
    BY <1>1, <1>3, <1>4, <2>1
  <2> QED BY <1>1, <2>2, <2>3, <2>4 DEF RecentInv
<1>9. failed' = failed
  BY <1>1
<1>10. failed' => RecentInv'
  BY DEF RecentInv
<1> QED BY <1>2, <1>8, <1>9, <1>10

\* The front node enters the map, and its query comes first in recency.
LEMMA InsertIsRecent == ASSUME RInv, Insert PROVE RecencyInv' /\ RecentInv'
<1>1. /\ pc = "insert" /\ want \in Queries /\ pc' = "prune"
      /\ ref = lru_list[1] /\ key[ref] = want /\ Len(lru_list) > 0
      /\ cache' = [cache EXCEPT ![want] = Head(lru_list)] /\ recency' = UsedLast(want)
      /\ UNCHANGED <<lru_list, key, failed>>
  BY DEF Insert, RInv, IInv, FrontInv
<1>2. /\ lru_list \in Seq(Nodes) /\ Len(lru_list) \in Nat /\ Places = 1..Len(lru_list)
      /\ cache \in [Queries -> Nodes \cup {NoNode}]
      /\ key \in [Nodes -> Queries \cup {NoQuery}]
      /\ recency \in Seq(Queries) /\ Len(recency) \in Nat
      /\ DOMAIN recency = 1..Len(recency)
      /\ Head(lru_list) = lru_list[1]
  BY <1>1 DEF RInv, IInv, TypeOK, RecencyInv, Places
<1>3. /\ recency' \in Seq(Queries)
      /\ \A i, j \in DOMAIN recency' : recency'[i] = recency'[j] => i = j
      /\ recency'[1] = want
      /\ KeepsBefore(recency', want)
  BY <1>1, UseMovesToFront DEF RInv
<1>4. RecencyInv'
  BY <1>3 DEF RecencyInv
<1>5. ASSUME ~failed PROVE RecentInv'
  <2> DEFINE m == Len(lru_list) - 1
  <2>1. /\ cache[want] = NoNode /\ m \in 0..Len(recency)
        /\ \A i \in Places : i > 1 => /\ recency[i - 1] = key[lru_list[i]]
                                      /\ cache[key[lru_list[i]]] = lru_list[i]
    BY <1>1, <1>2, <1>5 DEF RInv, RecentInv, Pending
  <2>2. ASSUME NEW i \in Places, i > 1 PROVE key[lru_list[i]] # want
    <3>1. lru_list[i] \in Nodes /\ cache[key[lru_list[i]]] = lru_list[i]
      BY <1>2, <2>1, <2>2
    <3> QED BY <3>1, <2>1, CacheAssumption
  <2>3. ASSUME NEW j \in 1..m
        PROVE  j + 1 \in Places /\ j + 1 > 1 /\ recency[j] = key[lru_list[j + 1]]
    <3>1. j + 1 \in Places /\ j + 1 > 1 /\ j + 1 - 1 = j
      BY <1>2
    <3> QED BY <3>1, <2>1
  <2>4. \A j \in 1..m : recency[j] # want
    BY <2>2, <2>3
  <2>5. Len(recency') > m /\ \A j \in 1..m : recency'[j + 1] = recency[j]
    BY <1>3, <2>1, <2>4 DEF KeepsBefore
  <2>6. ASSUME NEW i \in Places
        PROVE  recency'[i] = key[lru_list[i]] /\ cache'[key[lru_list[i]]] = lru_list[i]
    <3>1. CASE i = 1
      BY <3>1, <1>1, <1>2, <1>3
    <3>2. CASE i # 1
      <4>1. i > 1 /\ i - 1 \in 1..m /\ i - 1 + 1 = i
        BY <3>2, <1>2
      <4>2. recency'[i] = recency[i - 1]
        BY <4>1, <2>5
      <4>3. cache[key[lru_list[i]]] = lru_list[i] /\ key[lru_list[i]] # want
        BY <4>1, <2>1, <2>2
      <4>4. cache'[key[lru_list[i]]] = cache[key[lru_list[i]]]
        <5>1. lru_list[i] \in Nodes /\ key[lru_list[i]] # NoQuery
          BY <1>2 DEF RInv, IInv, ListInv
        <5>2. key[lru_list[i]] \in Queries
          BY <5>1, <1>2
        <5> QED BY <5>2, <4>3, <1>1, <1>2
      <4> QED BY <4>1, <4>2, <4>3, <4>4, <2>1
    <3> QED BY <3>1, <3>2
  <2>7. Pending' = 0 /\ Places' = Places
    BY <1>1 DEF Pending, Places
  <2>8. ASSUME NEW i \in Places'
        PROVE  recency'[i - 0] = key'[lru_list'[i]] /\ cache'[key'[lru_list'[i]]] = lru_list'[i]
    <3>1. i \in Places /\ i - 0 = i
      BY <2>7, <1>2
    <3> QED BY <3>1, <2>6, <1>1
  <2>9. Len(lru_list') - 0 <= Len(recency')
    <3>1. Len(recency') \in Nat
      BY <1>3
    <3> QED BY <3>1, <1>1, <1>2, <2>5
  <2> QED BY <1>1, <2>7, <2>8, <2>9 DEF RecentInv
<1>6. failed' = failed
  BY <1>1
<1>7. failed' => RecentInv'
  BY DEF RecentInv
<1> QED BY <1>4, <1>5, <1>6, <1>7

\* The map and the list lose the query used longest ago of those they have.
LEMMA EvictIsRecent == ASSUME RInv, Evict PROVE RecencyInv' /\ RecentInv'
<1> DEFINE n == Last(lru_list)
           last == Len(lru_list)
<1>1. /\ pc = "evict" /\ pc' = "evict"
      /\ cache' = [cache EXCEPT ![key[n]] = NoNode]
      /\ lru_list' = Front(lru_list)
      /\ key' = [key EXCEPT ![n] = NoQuery]
      /\ UNCHANGED <<recency, failed, want>>
      /\ last > 0
  BY DEF Evict, RInv, IInv, FrontInv
<1>2. /\ lru_list \in Seq(Nodes) /\ last \in Nat /\ Places = 1..last
      /\ key \in [Nodes -> Queries \cup {NoQuery}]
      /\ cache \in [Queries -> Nodes \cup {NoNode}]
      /\ Len(recency) \in Nat
  BY DEF RInv, IInv, TypeOK, RecencyInv, Places
<1>3. RecencyInv'
  BY <1>1 DEF RInv, RecencyInv
<1>4. /\ Front(lru_list) \in Seq(Nodes)
      /\ DOMAIN Front(lru_list) = 1..(last - 1)
      /\ Len(Front(lru_list)) = last - 1
      /\ \A j \in 1..(last - 1) : Front(lru_list)[j] = lru_list[j]
      /\ n = lru_list[last]
  BY <1>1, <1>2, BackShrinks
<1> HIDE DEF n, last
<1>5. /\ Places' = 1..(last - 1) /\ Len(lru_list') = last - 1
      /\ \A j \in Places' : j \in Places /\ j # last /\ lru_list'[j] = lru_list[j]
  <2>1. \A j \in 1..(last - 1) : j \in Places /\ j # last
    BY <1>1, <1>2
  <2> QED BY <1>1, <1>4, <2>1 DEF Places
<1>6. last \in Places
  BY <1>1, <1>2
<1>7. ASSUME ~failed PROVE RecentInv'
  <2>1. Pending = 0 /\ Pending' = 0
    BY <1>1 DEF Pending
  <2>2. /\ last <= Len(recency)
        /\ \A j \in Places : /\ recency[j] = key[lru_list[j]]
                             /\ cache[key[lru_list[j]]] = lru_list[j]
    <3>1. last - 0 <= Len(recency)
      BY <1>7, <2>1 DEF RInv, RecentInv, last
    <3>2. \A j \in Places : j > 0 /\ j - 0 = j
      BY <1>2
    <3>3. last <= Len(recency)
      BY <3>1, <1>2
    <3> QED BY <3>2, <3>3, <1>7, <2>1 DEF RInv, RecentInv
  <2>3. ASSUME NEW j \in Places'
        PROVE  /\ recency'[j - 0] = key'[lru_list'[j]]
               /\ cache'[key'[lru_list'[j]]] = lru_list'[j]
    <3>1. j \in Places /\ j # last /\ lru_list'[j] = lru_list[j] /\ j - 0 = j
      BY <1>2, <1>5
    <3>2. lru_list[j] # n /\ lru_list[j] \in Nodes /\ n \in Nodes
      BY <3>1, <1>2, <1>4, <1>6 DEF RInv, IInv, ListInv, Places
    <3>3. key'[lru_list[j]] = key[lru_list[j]]
      BY <3>2, <1>1, <1>2
    <3>4. cache[key[lru_list[j]]] = lru_list[j] /\ cache[key[n]] = n
      BY <3>1, <2>2, <1>4, <1>6
    <3>5. key[lru_list[j]] # key[n]
      BY <3>2, <3>4
    <3>6. cache'[key[lru_list[j]]] = lru_list[j]
      <4>1. key[lru_list[j]] \in Queries
        BY <3>1, <3>2, <1>2 DEF RInv, IInv, ListInv
      <4> QED BY <4>1, <3>4, <3>5, <1>1, <1>2
    <3> QED BY <3>1, <3>3, <3>6, <2>2, <1>1
  <2>4. Len(lru_list') - 0 <= Len(recency')
    BY <1>1, <1>2, <1>5, <2>2
  <2> QED BY <1>1, <2>1, <2>3, <2>4 DEF RecentInv
<1>8. failed' = failed
  BY <1>1
<1>9. failed' => RecentInv'
  BY DEF RecentInv
<1> QED BY <1>3, <1>7, <1>8, <1>9

LEMMA NextIsRecent == RInv /\ [Next]_vars => RecencyInv' /\ RecentInv'
<1> SUFFICES ASSUME RInv, [Next]_vars PROVE RecencyInv' /\ RecentInv'
  OBVIOUS
<1>1. CASE UNCHANGED vars
  BY <1>1, RecentStays DEF vars
<1>2. ASSUME NEW q \in Queries, Call(q) PROVE RecencyInv' /\ RecentInv'
  BY <1>2, RecentStays DEF Call
<1>3. CASE ParseThrows \/ StartPrune \/ Return
  BY <1>3, RecentStays DEF ParseThrows, StartPrune, Return, Leave
\* A node without an entry in the map stays behind: from here on nothing is
\* said of the order.
<1>4. CASE InsertThrows
  <2>1. failed' = TRUE /\ recency' = recency
    BY <1>4 DEF InsertThrows
  <2>2. RecencyInv'
    BY <2>1 DEF RInv, RecencyInv
  <2> QED BY <2>1, <2>2 DEF RecentInv
<1> QED BY <1>1, <1>2, <1>3, <1>4, HitIsRecent, EmplaceFrontIsRecent, InsertIsRecent,
           EvictIsRecent DEF Next, Step

LEMMA RecentInvariance == Spec => []RInv
<1>1. Init => RInv
  BY InitEstablishes, InitIsRecent DEF RInv
<1>2. RInv /\ [Next]_vars => RInv'
  BY NextPreserves, NextIsRecent DEF RInv
<1> QED BY <1>1, <1>2, PTL DEF Spec

\* The map has an entry for each node and no other.
LEMMA MapHasTheList == ASSUME RInv, pc # "insert", ~failed PROVE Size = Len(lru_list)
<1> DEFINE f == [i \in Places |-> key[lru_list[i]]]
<1>1. /\ lru_list \in Seq(Nodes) /\ Len(lru_list) \in Nat /\ Places = 1..Len(lru_list)
      /\ key \in [Nodes -> Queries \cup {NoQuery}]
  BY DEF RInv, IInv, TypeOK, Places
<1>2. ASSUME NEW i \in Places
      PROVE  /\ lru_list[i] \in Nodes /\ key[lru_list[i]] \in Queries
             /\ cache[key[lru_list[i]]] = lru_list[i]
  <2>1. lru_list[i] \in Nodes /\ key[lru_list[i]] # NoQuery
    BY <1>1 DEF RInv, IInv, ListInv
  <2>2. i > 0 /\ Pending = 0
    BY <1>1 DEF Pending
  <2> QED BY <2>1, <2>2, <1>1 DEF RInv, RecentInv
<1>3. f \in [Places -> Cached]
  BY <1>2, CacheAssumption DEF Cached
<1>4. ASSUME NEW i \in Places, NEW j \in Places, f[i] = f[j] PROVE i = j
  <2>1. lru_list[i] = lru_list[j]
    BY <1>2, <1>4
  <2> QED BY <2>1 DEF RInv, IInv, ListInv
<1>5. ASSUME NEW q \in Cached PROVE \E i \in Places : f[i] = q
  <2>1. cache[q] \in ToSet(lru_list) /\ key[cache[q]] = q
    BY DEF RInv, IInv, NoDangling
  <2>2. PICK i \in Places : lru_list[i] = cache[q]
    BY <2>1 DEF ToSet, Places
  <2> QED BY <2>1, <2>2
<1> HIDE DEF f
<1>6. f \in Bijection(Places, Cached)
  BY <1>3, <1>4, <1>5 DEF Bijection, Injection, Surjection, IsInjective
<1>7. ExistsBijection(Places, Cached)
  BY <1>6 DEF ExistsBijection
<1>8. IsFiniteSet(Places) /\ Cardinality(Places) = Len(lru_list)
  <2>1. IsFiniteSet(1..Len(lru_list))
    BY <1>1, FS_Interval
  <2>2. Cardinality(1..Len(lru_list)) = IF 1 > Len(lru_list) THEN 0 ELSE Len(lru_list) - 1 + 1
    BY <1>1, FS_Interval
  <2> QED BY <1>1, <2>1, <2>2
<1> QED BY <1>7, <1>8, FS_Bijection DEF Size

\* As long as every insertion succeeded, the cache holds what was used last and
\* nothing else, in the order of use, for any limits: a hit is found at the
\* place of its query in recency, and prune() takes from the other end.
THEOREM KeepsTheLastUsed == Spec => []KeepsTheRecent
<1>1. RInv => KeepsTheRecent
  <2> SUFFICES ASSUME RInv, pc = "idle", ~failed
               PROVE  /\ [i \in 1..Len(lru_list) |-> key[lru_list[i]]]
                             = SubSeq(recency, 1, Len(lru_list))
                      /\ Size = Len(lru_list)
    BY DEF KeepsTheRecent
  <2> DEFINE n == Len(lru_list)
             s == [i \in 1..n |-> key[lru_list[i]]]
             t == SubSeq(recency, 1, n)
  <2>1. /\ n \in Nat /\ Places = 1..n
        /\ recency \in Seq(Queries) /\ Len(recency) \in Nat
    BY DEF RInv, IInv, TypeOK, RecencyInv, Places
  <2>2. /\ n <= Len(recency)
        /\ \A i \in 1..n : recency[i] = key[lru_list[i]] /\ recency[i] \in Queries
    <3>1. Pending = 0 /\ \A i \in Places : i > 0 /\ i - 0 = i
      BY <2>1 DEF Pending
    <3>2. n - 0 <= Len(recency) /\ \A i \in Places : recency[i] = key[lru_list[i]]
      BY <3>1 DEF RInv, RecentInv
    <3>3. n <= Len(recency)
      BY <3>2, <2>1
    <3>4. \A i \in 1..n : recency[i] \in Queries
      BY <3>3, <2>1
    <3> QED BY <3>2, <3>3, <3>4, <2>1
  <2>3. s \in Seq(Queries) /\ Len(s) = n /\ \A i \in 1..n : s[i] = recency[i]
    <3>1. \A i \in 1..n : key[lru_list[i]] \in Queries
      BY <2>2
    <3> HIDE DEF n
    <3>2. s \in [1..n -> Queries]
      BY <3>1
    <3>3. Len(s) = n
      BY <2>1
    <3> QED BY <3>2, <3>3, <2>1, <2>2
  <2>4. t \in Seq(Queries) /\ Len(t) = n /\ \A i \in 1..n : t[i] = recency[i]
    <3> HIDE DEF n
    <3>1. /\ t \in Seq(Queries) /\ Len(t) = IF 1 <= n THEN n - 1 + 1 ELSE 0
          /\ \A i \in 1..(n - 1 + 1) : t[i] = recency[1 + i - 1]
      BY <2>1, <2>2, SubSeqProperties
    <3> HIDE DEF t
    <3>2. Len(t) = n
      BY <3>1, <2>1
    <3>3. ASSUME NEW i \in 1..n PROVE t[i] = recency[i]
      <4>1. i \in 1..(n - 1 + 1) /\ 1 + i - 1 = i
        BY <2>1
      <4> QED BY <4>1, <3>1
    <3> QED BY <3>1, <3>2, <3>3
  <2>5. Size = n
    BY MapHasTheList
  <2> HIDE DEF s, t, n
  <2>6. s = t
    BY <2>3, <2>4, SeqEqual
  <2> QED BY <2>5, <2>6 DEF s, t, n
<1> QED BY <1>1, RecentInvariance, PTL

-----------------------------------------------------------------------------
(* A call comes out.                                                       *)

\* How far a call is from its end; between the parse and the insertion the list
\* has grown by the node that the rest of the call may evict.
Phase == CASE pc = "idle"   -> 0
           [] pc = "evict"  -> 1
           [] pc = "prune"  -> 2
           [] pc = "insert" -> 3
           [] pc = "find"   -> 5
Distance == IF pc = "idle" THEN 0 ELSE Phase + Len(lru_list)

LEMMA StepAdvances == ASSUME IInv, Step PROVE Distance \in Nat /\ Distance' < Distance
<1>1. lru_list \in Seq(Nodes) /\ Len(lru_list) \in Nat
  BY DEF IInv, TypeOK
<1>2. CASE Hit \/ ParseThrows \/ InsertThrows \/ Return
  <2>1. pc \in {"find", "insert", "prune", "evict"} /\ pc' = "idle"
    BY <1>2 DEF Hit, ParseThrows, InsertThrows, Return, Leave
  <2> QED BY <2>1, <1>1 DEF Distance, Phase
<1>3. CASE Insert \/ StartPrune
  <2>1. \/ pc = "insert" /\ pc' = "prune"
        \/ pc = "prune" /\ pc' = "evict"
    BY <1>3 DEF Insert, StartPrune
  <2>2. lru_list' = lru_list
    BY <1>3 DEF Insert, StartPrune, content
  <2> QED BY <2>1, <2>2, <1>1 DEF Distance, Phase
<1>4. CASE EmplaceFront
  <2> DEFINE n == CHOOSE m \in FreeNodes : TRUE
  <2>1. pc = "find" /\ pc' = "insert" /\ lru_list' = <<n>> \o lru_list /\ n \in Nodes
    BY <1>4 DEF EmplaceFront, FreeNodes
  <2> HIDE DEF n
  <2>2. Len(lru_list') = Len(lru_list) + 1
    BY <1>1, <2>1, FrontGrows
  <2> QED BY <2>1, <2>2, <1>1 DEF Distance, Phase
<1>5. CASE Evict
  <2>1. pc = "evict" /\ pc' = "evict" /\ lru_list' = Front(lru_list)
    BY <1>5 DEF Evict
  <2>2. Len(lru_list) > 0
    BY <2>1 DEF IInv, FrontInv
  <2>3. Len(lru_list') = Len(lru_list) - 1
    BY <1>1, <2>1, <2>2, BackShrinks
  <2> QED BY <2>1, <2>2, <2>3, <1>1 DEF Distance, Phase
<1> QED BY <1>2, <1>3, <1>4, <1>5 DEF Step

\* What makes operator[] let go of the mutex: each of its steps brings it nearer
\* to the return, the loop of prune() over nodes without an entry in the map
\* included.
THEOREM CallsAdvance == Spec => [][Step => Distance \in Nat /\ Distance' < Distance]_vars
<1>1. IInv /\ [Next]_vars => [Step => Distance \in Nat /\ Distance' < Distance]_vars
  BY StepAdvances
<1> QED BY <1>1, Invariance, PTL DEF Spec

\* prune() takes the last element of a list that has one, and never the one
\* operator[] is about to return.
THEOREM PruneLeavesTheFront ==
    Spec => [][Evict => Len(lru_list) > 1 /\ Last(lru_list) # ref]_vars
<1>1. ASSUME IInv, Evict PROVE Len(lru_list) > 1 /\ Last(lru_list) # ref
  <2>1. /\ lru_list \in Seq(Nodes) /\ Len(lru_list) \in Nat /\ Len(lru_list) > 0
        /\ ref = lru_list[1]
    BY <1>1 DEF IInv, TypeOK, FrontInv, Evict
  <2>2. Len(lru_list) # 1
    BY <1>1, FrontStays DEF IInv, Evict, CallInv
  <2>3. Len(lru_list) > 1
    <3> DEFINE n == Len(lru_list)
    <3>1. n \in Nat /\ n > 0 /\ n # 1
      BY <2>1, <2>2
    <3> HIDE DEF n
    <3>2. n > 1
      BY ONLY <3>1
    <3> QED BY <3>2 DEF n
  <2>4. 1 \in Places /\ Len(lru_list) \in Places /\ Len(lru_list) # 1
    BY <2>1, <2>3 DEF Places
  <2>5. Last(lru_list) = lru_list[Len(lru_list)]
    BY DEF Last
  <2>6. Last(lru_list) # lru_list[1]
    BY <2>4, <2>5, <1>1 DEF IInv, ListInv
  <2> QED BY <2>1, <2>3, <2>6
<1>2. IInv /\ [Next]_vars => [Evict => Len(lru_list) > 1 /\ Last(lru_list) # ref]_vars
  BY <1>1
<1> QED BY <1>2, Invariance, PTL DEF Spec
=============================================================================
