------------------------------ MODULE NodeStore ------------------------------
(***************************************************************************)
(* The persistent node store (libs/node-store): four storages, one for     *)
(* each kind of RDF term, each with a bidirectional mapping between terms  *)
(* and IDs and a shared mutex.  Threads call find_or_make_id, find_id,     *)
(* find_*_backend_view and size() concurrently.                            *)
(*                                                                         *)
(* A thread's call is split at the lock operations: what happens between   *)
(* taking and releasing a lock is one step, and `found->second', which the *)
(* code reads after it has released the lock, is a step of its own.        *)
(***************************************************************************)
EXTENDS Integers, FiniteSets

CONSTANTS Kinds,     \* blank node, IRI, literal, variable
          Views,     \* the terms callers ask for
          KindOf,    \* the kind of each term
          Reserved,  \* the ID a term has from the start, NullId if none
          FirstId,   \* min_bnode_id, min_iri_id, ... of each kind
          Threads,
          NoThread

NullId == 0          \* NodeID{}, the null() of the documentation
Wild   == -1         \* the bits of a bucket that was moved or freed

ASSUME StoreAssumption ==
    /\ IsFiniteSet(Views) /\ IsFiniteSet(Kinds)
    /\ Kinds # {} /\ Views # {}
    /\ KindOf \in [Views -> Kinds]
    /\ FirstId \in [Kinds -> Nat \ {NullId}]
    /\ Reserved \in [Views -> Nat]
    /\ \A v \in Views : Reserved[v] < FirstId[KindOf[v]]
    /\ \A v, w \in Views : v # w /\ KindOf[v] = KindOf[w] /\ Reserved[v] # NullId
                           => Reserved[v] # Reserved[w]
    /\ NoThread \notin Threads

VARIABLES data2id,   \* term -> ID, NullId if the map has no such key
          id2data,   \* kind -> the pairs <<ID, term>> of the map
          next,      \* kind -> next_bnode_id, next_iri_id, ...
          readers,   \* kind -> threads that hold the mutex shared
          writer,    \* kind -> the thread that holds it, or NoThread
          pc,        \* thread -> where it is in its call
          op,        \* thread -> the call
          view,      \* thread -> its argument (of resolve: the term of the ID)
          id,        \* thread -> what was known when the call began
          found,     \* thread -> what the iterator `found' is worth
          todo,      \* thread -> the storages size() has not counted yet
          answer     \* thread -> the value returned

store  == <<data2id, id2data, next>>
locks  == <<readers, writer>>
call   == <<op, view, id>>
vars   == <<store, locks, call, pc, found, todo, answer>>

Kind(t) == KindOf[view[t]]

SharedPcs == {"shared", "resolving"}
Pcs == SharedPcs \cup {"idle", "start", "upgrade", "unique", "deref", "done"}
Ops == {"make", "find", "resolve", "size"}

TermsOf(k) == {v \in Views : KindOf[v] = k}

\* Mutant of StorageSize: what was ever handed out, not what is stored.
HandedOut(k) == next[k] - FirstId[k]

\* lookup_size: the number of entries of the storage of kind k.
StorageSize(k) == Cardinality(id2data[k])

\* The number of terms in the store.
Total == Cardinality({v \in Views : data2id[v] # NullId})

-----------------------------------------------------------------------------
\* The constructor: the reserved datatype IRIs are in both maps.
Init == /\ data2id = Reserved
        /\ id2data = [k \in Kinds |-> {<<Reserved[v], v>> :
                        v \in {w \in TermsOf(k) : Reserved[w] # NullId}}]
        /\ next    = FirstId
        /\ readers = [k \in Kinds |-> {}]
        /\ writer  = [k \in Kinds |-> NoThread]
        /\ pc      = [t \in Threads |-> "idle"]
        /\ op      = [t \in Threads |-> "size"]
        /\ view    = [t \in Threads |-> CHOOSE v \in Views : TRUE]
        /\ id      = [t \in Threads |-> NullId]
        /\ found   = [t \in Threads |-> "none"]
        /\ todo    = [t \in Threads |-> {}]
        /\ answer  = [t \in Threads |-> NullId]

Goto(t, p) == pc' = [pc EXCEPT ![t] = p]

-----------------------------------------------------------------------------
(* The shared mutex of a storage.                                          *)

LockShared(t, k) == /\ writer[k] = NoThread
                    /\ readers' = [readers EXCEPT ![k] = @ \cup {t}]
                    /\ UNCHANGED writer

UnlockShared(t, k) == /\ readers' = [readers EXCEPT ![k] = @ \ {t}]
                      /\ UNCHANGED writer

LockUnique(t, k) == /\ writer[k] = NoThread
                    /\ readers[k] = {}
                    /\ writer' = [writer EXCEPT ![k] = t]
                    /\ UNCHANGED readers

UnlockUnique(t, k) == /\ writer' = [writer EXCEPT ![k] = NoThread]
                      /\ UNCHANGED readers

-----------------------------------------------------------------------------
(* The two maps of a storage.                                              *)

\* data2id.find(view)
Find(t) == found' = [found EXCEPT ![t] = IF data2id[view[t]] = NullId
                                         THEN "end" ELSE "live"]

\* data2id.emplace(mem, n): leaves a present key alone.
EmplaceData(v, n) ==
    data2id' = [data2id EXCEPT ![v] = IF @ = NullId THEN n ELSE @]

\* id2data.emplace(n, ptr): leaves a present key alone.
EmplaceId(v, n) ==
    id2data' = [id2data EXCEPT ![KindOf[v]] =
                    IF \E e \in @ : e[1] = n THEN @ ELSE @ \cup {<<n, v>>}]

\* Mutants of Advance: no increment; a counter of two bits.
AdvanceNot(k)  == UNCHANGED next
AdvanceWrap(k) == next' = [next EXCEPT ![k] = (@ + 1) % 4]

\* The lambdas that count up next_literal_id, next_bnode_id, ...
Advance(k) == next' = [next EXCEPT ![k] = @ + 1]

\* An insertion moves entries of the sparse map: iterators into the map of
\* kind k that other threads still hold are no longer valid.
Invalidate(t, k) ==
    found' = [u \in Threads |->
                IF u = t THEN "none"
                ELSE IF pc[u] = "deref" /\ Kind(u) = k THEN "stale"
                ELSE found[u]]

-----------------------------------------------------------------------------
(* Calls begin.                                                            *)

\* find_or_make_id (o = "make") and find_id (o = "find").
CallLookup(t, o, v) ==
    /\ pc[t] \in {"idle", "done"}
    /\ Goto(t, "start")
    /\ op'     = [op EXCEPT ![t] = o]
    /\ view'   = [view EXCEPT ![t] = v]
    /\ id'     = [id EXCEPT ![t] = data2id[v]]
    /\ answer' = [answer EXCEPT ![t] = NullId]
    /\ found'  = [found EXCEPT ![t] = "none"]
    /\ UNCHANGED <<store, locks, todo>>

\* find_iri_backend_view and its siblings, for the ID of a term or for a
\* number that is no ID.
CallResolve(t, v, n) ==
    /\ pc[t] \in {"idle", "done"}
    /\ n # NullId
    /\ Goto(t, "start")
    /\ op'     = [op EXCEPT ![t] = "resolve"]
    /\ view'   = [view EXCEPT ![t] = v]
    /\ id'     = [id EXCEPT ![t] = n]
    /\ answer' = [answer EXCEPT ![t] = NullId]
    /\ found'  = [found EXCEPT ![t] = "none"]
    /\ UNCHANGED <<store, locks, todo>>

CallSize(t) ==
    /\ pc[t] \in {"idle", "done"}
    /\ Goto(t, "start")
    /\ op'     = [op EXCEPT ![t] = "size"]
    /\ id'     = [id EXCEPT ![t] = Total]
    /\ todo'   = [todo EXCEPT ![t] = Kinds]
    /\ answer' = [answer EXCEPT ![t] = 0]
    /\ found'  = [found EXCEPT ![t] = "none"]
    /\ UNCHANGED <<store, locks, view>>

-----------------------------------------------------------------------------
(* lookup_or_insert_impl.                                                  *)

LookupShared(t) ==
    /\ pc[t] = "start" /\ op[t] \in {"make", "find"}
    /\ LockShared(t, Kind(t))
    /\ Find(t)
    /\ Goto(t, "shared")
    /\ UNCHANGED <<store, call, todo, answer>>

HitUnlock(t) ==
    /\ pc[t] = "shared" /\ found[t] = "live"
    /\ UnlockShared(t, Kind(t))
    /\ Goto(t, "deref")
    /\ UNCHANGED <<store, call, found, todo, answer>>

\* return found->second;
Deref(t) ==
    /\ pc[t] = "deref"
    /\ \E n \in IF found[t] = "live" THEN {data2id[view[t]]}
                ELSE {data2id[v] : v \in TermsOf(Kind(t))} \cup {Wild} :
          answer' = [answer EXCEPT ![t] = n]
    /\ Goto(t, "done")
    /\ UNCHANGED <<store, locks, call, found, todo>>

\* Mutant of FindMiss: create_if_not_present is ignored.
MissAny(t) ==
    /\ pc[t] = "shared" /\ found[t] = "end"
    /\ UnlockShared(t, Kind(t))
    /\ answer' = [answer EXCEPT ![t] = NullId]
    /\ found' = [found EXCEPT ![t] = "none"]
    /\ Goto(t, "done")
    /\ UNCHANGED <<store, call, todo>>

FindMiss(t) ==
    /\ pc[t] = "shared" /\ found[t] = "end" /\ op[t] = "find"
    /\ UnlockShared(t, Kind(t))
    /\ answer' = [answer EXCEPT ![t] = NullId]
    /\ found' = [found EXCEPT ![t] = "none"]
    /\ Goto(t, "done")
    /\ UNCHANGED <<store, call, todo>>

MakeMiss(t) ==
    /\ pc[t] = "shared" /\ found[t] = "end" /\ op[t] = "make"
    /\ UnlockShared(t, Kind(t))
    /\ Goto(t, "upgrade")
    /\ UNCHANGED <<store, call, found, todo, answer>>

\* Mutant of LookupUnique: the second find is left out.
UniqueNoRecheck(t) ==
    /\ pc[t] = "upgrade"
    /\ LockUnique(t, Kind(t))
    /\ Goto(t, "unique")
    /\ UNCHANGED <<store, call, found, todo, answer>>

LookupUnique(t) ==
    /\ pc[t] = "upgrade"
    /\ LockUnique(t, Kind(t))
    /\ Find(t)
    /\ Goto(t, "unique")
    /\ UNCHANGED <<store, call, todo, answer>>

\* Mutant of UniqueHit: the lock is kept.
UniqueHitLocked(t) ==
    /\ pc[t] = "unique" /\ found[t] = "live"
    /\ Goto(t, "deref")
    /\ UNCHANGED <<store, locks, call, found, todo, answer>>

UniqueHit(t) ==
    /\ pc[t] = "unique" /\ found[t] = "live"
    /\ UnlockUnique(t, Kind(t))
    /\ Goto(t, "deref")
    /\ UNCHANGED <<store, call, found, todo, answer>>

Insert(t) ==
    LET v == view[t]
        k == Kind(t)
        n == next[k]
    IN  /\ pc[t] = "unique" /\ found[t] = "end"
        /\ Advance(k)
        /\ EmplaceData(v, n)
        /\ EmplaceId(v, n)
        /\ Invalidate(t, k)
        /\ UnlockUnique(t, k)
        /\ answer' = [answer EXCEPT ![t] = n]
        /\ Goto(t, "done")
        /\ UNCHANGED <<call, todo>>

-----------------------------------------------------------------------------
(* find_backend_view.                                                      *)

ResolveShared(t) ==
    /\ pc[t] = "start" /\ op[t] = "resolve"
    /\ LockShared(t, Kind(t))
    /\ Goto(t, "resolving")
    /\ UNCHANGED <<store, call, found, todo, answer>>

ResolveReturn(t) ==
    /\ pc[t] = "resolving"
    /\ \E e \in id2data[Kind(t)] : /\ e[1] = id[t]
                                   /\ answer' = [answer EXCEPT ![t] = e[2]]
    /\ UnlockShared(t, Kind(t))
    /\ Goto(t, "done")
    /\ UNCHANGED <<store, call, found, todo>>

\* id2data.at(id) throws: the lock is released, the caller gets no view.
ResolveThrows(t) ==
    /\ pc[t] = "resolving"
    /\ \A e \in id2data[Kind(t)] : e[1] # id[t]
    /\ UnlockShared(t, Kind(t))
    /\ Goto(t, "done")
    /\ UNCHANGED <<store, call, found, todo, answer>>

-----------------------------------------------------------------------------
\* size(): the storages are locked one after the other, in an order the
\* language leaves open.
SizeStep(t, k) ==
    /\ pc[t] = "start" /\ op[t] = "size"
    /\ k \in todo[t]
    /\ writer[k] = NoThread
    /\ answer' = [answer EXCEPT ![t] = @ + StorageSize(k)]
    /\ todo' = [todo EXCEPT ![t] = @ \ {k}]
    /\ Goto(t, IF todo[t] = {k} THEN "done" ELSE "start")
    /\ UNCHANGED <<store, locks, call, found>>

-----------------------------------------------------------------------------
Call(t) == \/ \E v \in Views, o \in {"make", "find"} : CallLookup(t, o, v)
           \/ \E v \in Views : \E n \in {data2id[v], Wild} : CallResolve(t, v, n)
           \/ CallSize(t)

Step(t) == \/ LookupShared(t) \/ HitUnlock(t) \/ Deref(t)
           \/ FindMiss(t) \/ MakeMiss(t)
           \/ LookupUnique(t) \/ UniqueHit(t) \/ Insert(t)
           \/ ResolveShared(t) \/ ResolveReturn(t) \/ ResolveThrows(t)
           \/ \E k \in Kinds : SizeStep(t, k)

Next == \E t \in Threads : Call(t) \/ Step(t)

Spec == Init /\ [][Next]_vars

\* A thread inside a call keeps running; nothing makes it call again, and
\* nothing makes a lock prefer it.
FairSpec == Spec /\ \A t \in Threads : WF_vars(Step(t))

-----------------------------------------------------------------------------
(* Properties.                                                             *)

\* Every variable has its type; a counter is never below the first ID.
TypeOK ==
    /\ data2id \in [Views -> Nat]
    /\ id2data \in [Kinds -> SUBSET (Nat \X Views)]
    /\ \A k \in Kinds : IsFiniteSet(id2data[k])
    /\ next \in [Kinds -> Nat \ {NullId}]
    /\ \A k \in Kinds : FirstId[k] <= next[k]
    /\ readers \in [Kinds -> SUBSET Threads]
    /\ writer \in [Kinds -> Threads \cup {NoThread}]
    /\ pc \in [Threads -> Pcs]
    /\ op \in [Threads -> Ops]
    /\ view \in [Threads -> Views]
    /\ id \in [Threads -> Int]
    /\ found \in [Threads -> {"none", "end", "live", "stale"}]
    /\ todo \in [Threads -> SUBSET Kinds]
    /\ answer \in [Threads -> Int \cup Views]
    /\ \A t \in Threads : op[t] = "size" => answer[t] \in Int

\* The two maps of each storage are inverse to each other, no two terms of a
\* kind share an ID and no counter will hand out an ID that is in use: lines
\* 62-68 check again under the unique lock before they insert.
MapsAgree(k) ==
    /\ \A e \in id2data[k] : e[2] \in TermsOf(k) /\ data2id[e[2]] = e[1] /\ e[1] # NullId
    /\ \A v \in TermsOf(k) : data2id[v] # NullId => <<data2id[v], v>> \in id2data[k]
    /\ \A v \in TermsOf(k) : data2id[v] < next[k]
    /\ \A v, w \in TermsOf(k) : v # w /\ data2id[v] # NullId => data2id[v] # data2id[w]

Consistent == \A k \in Kinds : MapsAgree(k)

Lookup(t) == op[t] \in {"make", "find"}

\* What a lookup returns is the ID of the term, and null only when the term
\* was not in the store when find_id was called; except for a call whose
\* iterator another thread's insertion invalidated after the unlock (lines 71
\* and 78), see LookupReturnsId.
LookupSound ==
    \A t \in Threads : pc[t] = "done" /\ Lookup(t) /\ found[t] # "stale" =>
        \/ answer[t] = data2id[view[t]] /\ answer[t] # NullId
        \/ answer[t] = NullId /\ op[t] = "find" /\ id[t] = NullId

\* The documentation of lookup_or_insert_impl (lines 40-49): the lookup is
\* synchronized and the result is the ID of the term.
LookupReturnsId ==
    \A t \in Threads : pc[t] = "done" /\ op[t] = "make" =>
        answer[t] = data2id[view[t]]

\* find_*_backend_view gives back the term an ID was given to, however many
\* insertions happen meanwhile, and throws only for a number that is no ID.
ResolveRight ==
    \A t \in Threads : pc[t] = "done" /\ op[t] = "resolve" =>
        answer[t] = IF id[t] = Wild THEN NullId ELSE view[t]

\* size() locks the storages one by one, so its result is no snapshot; it lies
\* between the number of terms when it began and the number when it ended.
SizeBetween ==
    \A t \in Threads : pc[t] = "done" /\ op[t] = "size" =>
        id[t] <= answer[t] /\ answer[t] <= Total

\* A term keeps its ID for ever and no other term of its kind gets it.
Dictionary == INSTANCE TermDictionary WITH dict <- data2id
DictionarySpec == Dictionary!Spec

\* A call that does not have to insert returns: it waits for writers only, and
\* each of them inserts a term or finds it inserted.
ReadersReturn ==
    \A t \in Threads :
        (pc[t] = "start" /\ (op[t] = "make" => id[t] # NullId)) ~> (pc[t] = "done")
=============================================================================
