--------------------------- MODULE NodeStoreProofs ---------------------------
(***************************************************************************)
(* NodeStore is correct for any number of threads, terms and kinds.  The   *)
(* argument: a mutex that is held uniquely has no other holder (LockInv),  *)
(* hence what a thread has found under a lock stays true while it holds    *)
(* the lock (CallInv), hence a term that is inserted was absent and the ID *)
(* it gets was unused (Consistent).                                        *)
(***************************************************************************)
EXTENDS NodeStore, FiniteSetTheorems, TLAPS

\* Who is inside a critical section holds the lock, and a unique holder is
\* alone.
LockInv ==
    /\ \A t \in Threads : pc[t] \in SharedPcs => t \in readers[Kind(t)]
    /\ \A t \in Threads : pc[t] = "unique" => writer[Kind(t)] = t
    /\ \A k \in Kinds : writer[k] # NoThread => readers[k] = {}

\* What a thread knows at each point of its call.
CallInv ==
    \A t \in Threads :
        /\ pc[t] \in {"shared", "unique"} =>
              found[t] = IF data2id[view[t]] = NullId THEN "end" ELSE "live"
        /\ pc[t] \in {"shared", "deref"} => Lookup(t)
        /\ pc[t] \in {"upgrade", "unique"} => op[t] = "make"
        /\ pc[t] = "deref" => found[t] \in {"live", "stale"} /\ data2id[view[t]] # NullId
        /\ pc[t] = "resolving" => op[t] = "resolve"
        /\ op[t] = "resolve" => /\ id[t] # NullId
                                /\ id[t] = Wild \/ id[t] = data2id[view[t]]
                                /\ pc[t] # "done" => answer[t] = NullId
        /\ Lookup(t) => id[t] = NullId \/ id[t] = data2id[view[t]]

IInv == /\ TypeOK
        /\ LockInv
        /\ CallInv
        /\ Consistent
        /\ LookupSound
        /\ ResolveRight

-----------------------------------------------------------------------------
(* Types.                                                                  *)

LEMMA TotalType == TypeOK => Total \in Nat
  <1> SUFFICES ASSUME TypeOK PROVE Total \in Nat
    OBVIOUS
  <1>1. IsFiniteSet({v \in Views : data2id[v] # NullId})
    BY StoreAssumption, FS_Subset
  <1>2. QED
    BY <1>1, FS_CardinalityType DEF Total

LEMMA StorageSizeType == ASSUME TypeOK, NEW k \in Kinds
                         PROVE  StorageSize(k) \in Nat
  BY FS_CardinalityType DEF TypeOK, StorageSize

LEMMA InitType == Init => TypeOK
  <1> SUFFICES ASSUME Init PROVE TypeOK
    OBVIOUS
  <1> USE StoreAssumption
  <1>1. ASSUME NEW k \in Kinds
        PROVE  /\ IsFiniteSet(id2data[k])
               /\ id2data[k] \in SUBSET (Nat \X Views)
    <2> DEFINE S == {w \in TermsOf(k) : Reserved[w] # NullId}
               f(v) == <<Reserved[v], v>>
    <2>1. IsFiniteSet(S)
      BY FS_Subset DEF TermsOf
    <2>2. id2data[k] = {<<Reserved[v], v>> : v \in S}
      BY DEF Init
    <2>3. IsFiniteSet({<<Reserved[v], v>> : v \in S})
      <3> DEFINE g == [v \in S |-> <<Reserved[v], v>>]
                 T == {<<Reserved[v], v>> : v \in S}
      <3>1. g \in Surjection(S, T)
        BY DEF Surjection
      <3> HIDE DEF g, T
      <3>2. QED
        BY <2>1, <3>1, FS_Surjection DEF T
    <2>4. \A v \in S : <<Reserved[v], v>> \in Nat \X Views
      BY DEF TermsOf
    <2>5. QED
      BY <2>2, <2>3, <2>4
  <1>2. (CHOOSE v \in Views : TRUE) \in Views
    OBVIOUS
  <1>3. id2data \in [Kinds -> SUBSET (Nat \X Views)]
    BY <1>1 DEF Init
  <1>4. QED
    BY <1>1, <1>2, <1>3 DEF Init, TypeOK, Pcs, Ops, SharedPcs, NullId

\* The steps of a thread, one by one: what every proof below goes through.
LEMMA NextCases ==
    ASSUME NEW P,
           NEW t \in Threads,
           Call(t) \/ Step(t),
           ASSUME NEW v \in Views, NEW o \in {"make", "find"}, CallLookup(t, o, v) PROVE P,
           ASSUME NEW v \in Views, NEW n \in {data2id[v], Wild}, CallResolve(t, v, n) PROVE P,
           CallSize(t) => P,
           LookupShared(t) => P,
           HitUnlock(t) => P,
           Deref(t) => P,
           FindMiss(t) => P,
           MakeMiss(t) => P,
           LookupUnique(t) => P,
           UniqueHit(t) => P,
           Insert(t) => P,
           ResolveShared(t) => P,
           ResolveReturn(t) => P,
           ResolveThrows(t) => P,
           ASSUME NEW k \in Kinds, SizeStep(t, k) PROVE P
    PROVE  P
  BY DEF Call, Step

LEMMA NextType == TypeOK /\ CallInv /\ [Next]_vars => TypeOK'
  <1> SUFFICES ASSUME TypeOK, CallInv, [Next]_vars PROVE TypeOK'
    OBVIOUS
  <1> USE StoreAssumption DEF Kind, Goto, LockShared, UnlockShared, LockUnique,
          UnlockUnique, Find, Pcs, SharedPcs, Ops, NullId, Wild, store, locks, call
  <1>1. CASE UNCHANGED vars
    BY <1>1 DEF TypeOK, vars
  <1>2. ASSUME NEW t \in Threads, Call(t) \/ Step(t) PROVE TypeOK'
    <2>1. ASSUME NEW v \in Views, NEW o \in {"make", "find"}, CallLookup(t, o, v)
          PROVE  TypeOK'
      BY <2>1 DEF CallLookup, TypeOK
    <2>2. ASSUME NEW v \in Views, NEW n \in {data2id[v], Wild}, CallResolve(t, v, n)
          PROVE  TypeOK'
      BY <2>2 DEF CallResolve, TypeOK
    <2>3. CallSize(t) => TypeOK'
      BY TotalType DEF CallSize, TypeOK
    <2>4. LookupShared(t) => TypeOK'
      BY DEF LookupShared, TypeOK
    <2>5. HitUnlock(t) => TypeOK'
      BY DEF HitUnlock, TypeOK
    <2>6. Deref(t) => TypeOK'
      BY DEF Deref, TypeOK, TermsOf
    <2>7. FindMiss(t) => TypeOK'
      BY DEF FindMiss, TypeOK
    <2>8. MakeMiss(t) => TypeOK'
      BY DEF MakeMiss, TypeOK
    <2>9. LookupUnique(t) => TypeOK'
      BY DEF LookupUnique, TypeOK
    <2>10. UniqueHit(t) => TypeOK'
      BY DEF UniqueHit, TypeOK
    <2>11. ASSUME Insert(t) PROVE TypeOK'
      <3> DEFINE v == view[t]
                 k == Kind(t)
      <3>1. v \in Views /\ k \in Kinds /\ next[k] \in Nat /\ <<next[k], v>> \in Nat \X Views
        BY DEF TypeOK
      <3>2. /\ data2id' \in [Views -> Nat]
            /\ next' \in [Kinds -> Nat \ {NullId}]
        BY <2>11, <3>1 DEF Insert, EmplaceData, Advance, TypeOK
      <3>10. \A j \in Kinds : FirstId[j] <= next'[j]
        BY <2>11, <3>1 DEF Insert, Advance, TypeOK
      <3>3. \A j \in Kinds : /\ IsFiniteSet(id2data'[j])
                             /\ id2data'[j] \in SUBSET (Nat \X Views)
        <4>1. IsFiniteSet(id2data[k] \cup {<<next[k], v>>})
          BY <3>1, FS_AddElement DEF TypeOK
        <4>2. QED
          BY <2>11, <3>1, <4>1 DEF Insert, EmplaceId, TypeOK
      <3>4. id2data' \in [Kinds -> SUBSET (Nat \X Views)]
        BY <2>11, <3>3 DEF Insert, EmplaceId, TypeOK
      <3>5. found' \in [Threads -> {"none", "end", "live", "stale"}]
        BY <2>11 DEF Insert, Invalidate, TypeOK
      <3>6. /\ readers' \in [Kinds -> SUBSET Threads]
            /\ writer' \in [Kinds -> Threads \cup {NoThread}]
            /\ pc' \in [Threads -> Pcs]
        BY <2>11 DEF Insert, TypeOK
      <3>7. /\ answer' \in [Threads -> Int \cup Views]
            /\ \A u \in Threads : op'[u] = "size" => answer'[u] \in Int
        BY <2>11, <3>1 DEF Insert, TypeOK
      <3>8. UNCHANGED <<op, view, id, todo>>
        BY <2>11 DEF Insert
      <3> HIDE DEF v, k
      <3>9. QED
        BY <3>2, <3>3, <3>4, <3>5, <3>6, <3>7, <3>8, <3>10 DEF TypeOK
    <2>12. ResolveShared(t) => TypeOK'
      BY DEF ResolveShared, TypeOK
    <2>13. ASSUME ResolveReturn(t) PROVE TypeOK'
      <3>1. \A e \in id2data[Kind(t)] : e[2] \in Views
        BY DEF TypeOK
      <3>2. op[t] = "resolve"
        BY <2>13 DEF ResolveReturn, CallInv
      <3>3. QED
        BY <2>13, <3>1, <3>2 DEF ResolveReturn, TypeOK
    <2>14. ResolveThrows(t) => TypeOK'
      BY DEF ResolveThrows, TypeOK
    <2>15. ASSUME NEW k \in Kinds, SizeStep(t, k) PROVE TypeOK'
      <3>1. StorageSize(k) \in Nat
        BY StorageSizeType
      <3>2. QED
        BY <2>15, <3>1 DEF SizeStep, TypeOK
    <2>16. QED
      BY <1>2, <2>1, <2>2, <2>3, <2>4, <2>5, <2>6, <2>7, <2>8, <2>9, <2>10,
         <2>11, <2>12, <2>13, <2>14, <2>15, NextCases
  <1>3. QED
    BY <1>1, <1>2 DEF Next

-----------------------------------------------------------------------------
(* The inductive step, one conjunct of IInv at a time.                    *)

\* What an insertion does: the term was absent, nobody else is inside the
\* storage, and the two maps get the one new entry.
LEMMA InsertFacts ==
    ASSUME IInv, NEW t \in Threads, Insert(t)
    PROVE  /\ data2id[view[t]] = NullId
           /\ next[Kind(t)] \in Nat \ {NullId}
           /\ data2id' = [data2id EXCEPT ![view[t]] = next[Kind(t)]]
           /\ id2data' = [id2data EXCEPT ![Kind(t)] =
                              @ \cup {<<next[Kind(t)], view[t]>>}]
           /\ next' = [next EXCEPT ![Kind(t)] = @ + 1]
           /\ UNCHANGED <<op, view, id>>
           /\ \A u \in Threads : u # t /\ Kind(u) = Kind(t) =>
                 pc[u] \notin {"shared", "resolving", "unique"}
           /\ \A u \in Threads : u # t =>
                 /\ pc'[u] = pc[u] /\ answer'[u] = answer[u]
                 /\ found'[u] = IF pc[u] = "deref" /\ Kind(u) = Kind(t)
                                THEN "stale" ELSE found[u]
  <1> USE StoreAssumption DEF IInv, TypeOK, Kind, NullId
  <1>1. view[t] \in Views /\ Kind(t) \in Kinds
    OBVIOUS
  <1>2. data2id[view[t]] = NullId /\ next[Kind(t)] \in Nat \ {NullId}
    BY <1>1 DEF Insert, CallInv
  <1>3. data2id' = [data2id EXCEPT ![view[t]] = next[Kind(t)]]
    BY <1>1, <1>2 DEF Insert, EmplaceData
  <1>4. \A e \in id2data[Kind(t)] : e[1] # next[Kind(t)]
    <2> SUFFICES ASSUME NEW e \in id2data[Kind(t)] PROVE e[1] # next[Kind(t)]
      OBVIOUS
    <2>1. e[2] \in TermsOf(Kind(t)) /\ data2id[e[2]] = e[1]
      BY <1>1 DEF Consistent, MapsAgree
    <2>2. data2id[e[2]] < next[Kind(t)]
      BY <1>1, <2>1 DEF Consistent, MapsAgree
    <2>3. QED
      BY <1>1, <2>1, <2>2 DEF TermsOf
  <1>5. id2data' = [id2data EXCEPT ![Kind(t)] = @ \cup {<<next[Kind(t)], view[t]>>}]
    BY <1>1, <1>4 DEF Insert, EmplaceId
  <1>6. next' = [next EXCEPT ![Kind(t)] = @ + 1]
    BY DEF Insert, Advance
  <1>7. \A u \in Threads : u # t /\ Kind(u) = Kind(t) =>
            pc[u] \notin {"shared", "resolving", "unique"}
    BY <1>1 DEF Insert, LockInv, SharedPcs
  <1>8. UNCHANGED <<op, view, id>>
    BY DEF Insert, call
  <1>9. ASSUME NEW u \in Threads, u # t
        PROVE  /\ pc'[u] = pc[u] /\ answer'[u] = answer[u]
               /\ found'[u] = IF pc[u] = "deref" /\ Kind(u) = Kind(t)
                              THEN "stale" ELSE found[u]
    BY <1>9 DEF Insert, Invalidate, Goto
  <1>10. QED
    BY <1>2, <1>3, <1>5, <1>6, <1>7, <1>8, <1>9

LEMMA NextLock == IInv /\ [Next]_vars => LockInv'
  <1> SUFFICES ASSUME IInv, [Next]_vars PROVE LockInv'
    OBVIOUS
  <1>1. CASE UNCHANGED vars
    BY <1>1 DEF vars, store, locks, call, IInv, Kind, Lookup, LockInv, CallInv
  <1>2. ASSUME NEW t \in Threads, Call(t) \/ Step(t) PROVE LockInv'
    <2> USE StoreAssumption DEF IInv, TypeOK, Kind, Goto, Lookup, SharedPcs, NullId,
            Wild, LockShared, UnlockShared, LockUnique, UnlockUnique, Find, store, locks, call
    <2>1. ASSUME NEW v \in Views, NEW o \in {"make", "find"}, CallLookup(t, o, v)
          PROVE  LockInv'
      BY <2>1 DEF CallLookup, LockInv, CallInv
    <2>2. ASSUME NEW v \in Views, NEW n \in {data2id[v], Wild}, CallResolve(t, v, n)
          PROVE  LockInv'
      BY <2>2 DEF CallResolve, LockInv, CallInv
    <2>3. CallSize(t) => LockInv'
      BY DEF CallSize, LockInv, CallInv
    <2>4. LookupShared(t) => LockInv'
      BY DEF LookupShared, LockInv, CallInv
    <2>5. HitUnlock(t) => LockInv'
      BY DEF HitUnlock, LockInv, CallInv
    <2>6. Deref(t) => LockInv'
      BY DEF Deref, LockInv, CallInv
    <2>7. FindMiss(t) => LockInv'
      BY DEF FindMiss, LockInv, CallInv
    <2>8. MakeMiss(t) => LockInv'
      BY DEF MakeMiss, LockInv, CallInv
    <2>9. LookupUnique(t) => LockInv'
      BY DEF LookupUnique, LockInv, CallInv
    <2>10. UniqueHit(t) => LockInv'
      BY DEF UniqueHit, LockInv, CallInv
    <2>11. Insert(t) => LockInv'
      BY DEF Insert, LockInv, CallInv
    <2>12. ResolveShared(t) => LockInv'
      BY DEF ResolveShared, LockInv, CallInv
    <2>13. ResolveReturn(t) => LockInv'
      BY DEF ResolveReturn, LockInv, CallInv
    <2>14. ResolveThrows(t) => LockInv'
      BY DEF ResolveThrows, LockInv, CallInv
    <2>15. ASSUME NEW k \in Kinds, SizeStep(t, k)
          PROVE  LockInv'
      BY <2>15 DEF SizeStep, LockInv, CallInv
    <2> HIDE DEF IInv, TypeOK, Kind, Goto, Lookup, SharedPcs, NullId, Wild, LockShared,
            UnlockShared, LockUnique, UnlockUnique, Find, store, locks, call
    <2>16. QED
      BY <1>2, <2>1, <2>2, <2>3, <2>4, <2>5, <2>6, <2>7, <2>8, 
         <2>9, <2>10, <2>11, <2>12, <2>13, <2>14, <2>15, NextCases
  <1>3. QED
    BY <1>1, <1>2 DEF Next

LEMMA NextCall == IInv /\ [Next]_vars => CallInv'
  <1> SUFFICES ASSUME IInv, [Next]_vars PROVE CallInv'
    OBVIOUS
  <1>1. CASE UNCHANGED vars
    BY <1>1 DEF vars, store, locks, call, IInv, Kind, Lookup, LockInv, CallInv
  <1>2. ASSUME NEW t \in Threads, Call(t) \/ Step(t) PROVE CallInv'
    <2> USE StoreAssumption DEF IInv, TypeOK, Kind, Goto, Lookup, SharedPcs, NullId,
            Wild, LockShared, UnlockShared, LockUnique, UnlockUnique, Find, store, locks, call
    <2>1. ASSUME NEW v \in Views, NEW o \in {"make", "find"}, CallLookup(t, o, v)
          PROVE  CallInv'
      BY <2>1 DEF CallLookup, LockInv, CallInv
    <2>2. ASSUME NEW v \in Views, NEW n \in {data2id[v], Wild}, CallResolve(t, v, n)
          PROVE  CallInv'
      BY <2>2 DEF CallResolve, LockInv, CallInv
    <2>3. CallSize(t) => CallInv'
      BY DEF CallSize, LockInv, CallInv
    <2>4. LookupShared(t) => CallInv'
      BY DEF LookupShared, LockInv, CallInv
    <2>5. HitUnlock(t) => CallInv'
      BY DEF HitUnlock, LockInv, CallInv
    <2>6. Deref(t) => CallInv'
      BY DEF Deref, LockInv, CallInv
    <2>7. FindMiss(t) => CallInv'
      BY DEF FindMiss, LockInv, CallInv
    <2>8. MakeMiss(t) => CallInv'
      BY DEF MakeMiss, LockInv, CallInv
    <2>9. LookupUnique(t) => CallInv'
      BY DEF LookupUnique, LockInv, CallInv
    <2>10. UniqueHit(t) => CallInv'
      BY DEF UniqueHit, LockInv, CallInv
    <2>11. ASSUME Insert(t) PROVE CallInv'
      <3>1. ASSUME NEW u \in Threads
            PROVE  data2id'[view[u]] = IF view[u] = view[t] THEN next[Kind(t)]
                                       ELSE data2id[view[u]]
        BY <2>11, InsertFacts
      <3>2. view' = view /\ op' = op /\ id' = id
        BY <2>11, InsertFacts
      <3>3. /\ pc'[t] = "done" /\ op'[t] = "make"
            /\ id'[t] = NullId
        BY <2>11, InsertFacts DEF Insert, CallInv
      <3>4. QED
        BY <2>11, <3>1, <3>2, <3>3, InsertFacts DEF CallInv
    <2>12. ResolveShared(t) => CallInv'
      BY DEF ResolveShared, LockInv, CallInv
    <2>13. ResolveReturn(t) => CallInv'
      BY DEF ResolveReturn, LockInv, CallInv
    <2>14. ResolveThrows(t) => CallInv'
      BY DEF ResolveThrows, LockInv, CallInv
    <2>15. ASSUME NEW k \in Kinds, SizeStep(t, k)
          PROVE  CallInv'
      BY <2>15 DEF SizeStep, LockInv, CallInv
    <2> HIDE DEF IInv, TypeOK, Kind, Goto, Lookup, SharedPcs, NullId, Wild, LockShared,
            UnlockShared, LockUnique, UnlockUnique, Find, store, locks, call
    <2>16. QED
      BY <1>2, <2>1, <2>2, <2>3, <2>4, <2>5, <2>6, <2>7, <2>8, 
         <2>9, <2>10, <2>11, <2>12, <2>13, <2>14, <2>15, NextCases
  <1>3. QED
    BY <1>1, <1>2 DEF Next

LEMMA NextLookup == IInv /\ [Next]_vars => LookupSound'
  <1> SUFFICES ASSUME IInv, [Next]_vars PROVE LookupSound'
    OBVIOUS
  <1>1. CASE UNCHANGED vars
    BY <1>1 DEF vars, store, locks, call, IInv, Kind, Lookup, LockInv, CallInv, LookupSound
  <1>2. ASSUME NEW t \in Threads, Call(t) \/ Step(t) PROVE LookupSound'
    <2> USE StoreAssumption DEF IInv, TypeOK, Kind, Goto, Lookup, SharedPcs, NullId,
            Wild, LockShared, UnlockShared, LockUnique, UnlockUnique, Find, store, locks, call
    <2>1. ASSUME NEW v \in Views, NEW o \in {"make", "find"}, CallLookup(t, o, v)
          PROVE  LookupSound'
      BY <2>1 DEF CallLookup, LockInv, CallInv, LookupSound
    <2>2. ASSUME NEW v \in Views, NEW n \in {data2id[v], Wild}, CallResolve(t, v, n)
          PROVE  LookupSound'
      BY <2>2 DEF CallResolve, LockInv, CallInv, LookupSound
    <2>3. CallSize(t) => LookupSound'
      BY DEF CallSize, LockInv, CallInv, LookupSound
    <2>4. LookupShared(t) => LookupSound'
      BY DEF LookupShared, LockInv, CallInv, LookupSound
    <2>5. HitUnlock(t) => LookupSound'
      BY DEF HitUnlock, LockInv, CallInv, LookupSound
    <2>6. Deref(t) => LookupSound'
      BY DEF Deref, LockInv, CallInv, LookupSound
    <2>7. FindMiss(t) => LookupSound'
      BY DEF FindMiss, LockInv, CallInv, LookupSound
    <2>8. MakeMiss(t) => LookupSound'
      BY DEF MakeMiss, LockInv, CallInv, LookupSound
    <2>9. LookupUnique(t) => LookupSound'
      BY DEF LookupUnique, LockInv, CallInv, LookupSound
    <2>10. UniqueHit(t) => LookupSound'
      BY DEF UniqueHit, LockInv, CallInv, LookupSound
    <2>11. ASSUME Insert(t) PROVE LookupSound'
      <3>1. ASSUME NEW u \in Threads
            PROVE  data2id'[view[u]] = IF view[u] = view[t] THEN next[Kind(t)]
                                       ELSE data2id[view[u]]
        BY <2>11, InsertFacts
      <3>2. view' = view /\ op' = op /\ id' = id
        BY <2>11, InsertFacts
      <3>3. answer'[t] = next[Kind(t)]
        BY <2>11 DEF Insert
      <3>4. next[Kind(t)] # NullId /\ data2id[view[t]] = NullId
        BY <2>11, InsertFacts
      <3>5. ASSUME NEW u \in Threads, u # t, pc'[u] = "done", Lookup(u)', found'[u] # "stale"
            PROVE  \/ answer'[u] = data2id'[view'[u]] /\ answer'[u] # NullId
                   \/ answer'[u] = NullId /\ op'[u] = "find" /\ id'[u] = NullId
        <4>1. pc[u] = "done" /\ answer'[u] = answer[u] /\ found'[u] = found[u]
          BY <2>11, <3>5, InsertFacts
        <4>2. QED
          BY <3>1, <3>2, <3>4, <3>5, <4>1 DEF LookupSound, Lookup
      <3>6. answer'[t] = data2id'[view'[t]] /\ answer'[t] # NullId
        BY <3>1, <3>2, <3>3, <3>4
      <3>7. QED
        BY <3>5, <3>6 DEF LookupSound
    <2>12. ResolveShared(t) => LookupSound'
      BY DEF ResolveShared, LockInv, CallInv, LookupSound
    <2>13. ResolveReturn(t) => LookupSound'
      BY DEF ResolveReturn, LockInv, CallInv, LookupSound
    <2>14. ResolveThrows(t) => LookupSound'
      BY DEF ResolveThrows, LockInv, CallInv, LookupSound
    <2>15. ASSUME NEW k \in Kinds, SizeStep(t, k)
          PROVE  LookupSound'
      BY <2>15 DEF SizeStep, LockInv, CallInv, LookupSound
    <2> HIDE DEF IInv, TypeOK, Kind, Goto, Lookup, SharedPcs, NullId, Wild, LockShared,
            UnlockShared, LockUnique, UnlockUnique, Find, store, locks, call
    <2>16. QED
      BY <1>2, <2>1, <2>2, <2>3, <2>4, <2>5, <2>6, <2>7, <2>8, 
         <2>9, <2>10, <2>11, <2>12, <2>13, <2>14, <2>15, NextCases
  <1>3. QED
    BY <1>1, <1>2 DEF Next

LEMMA NextResolve == IInv /\ [Next]_vars => ResolveRight'
  <1> SUFFICES ASSUME IInv, [Next]_vars PROVE ResolveRight'
    OBVIOUS
  <1>1. CASE UNCHANGED vars
    BY <1>1 DEF vars, store, locks, call, IInv, Kind, Lookup, LockInv, CallInv, ResolveRight
  <1>2. ASSUME NEW t \in Threads, Call(t) \/ Step(t) PROVE ResolveRight'
    <2> USE StoreAssumption DEF IInv, TypeOK, Kind, Goto, Lookup, SharedPcs, NullId,
            Wild, LockShared, UnlockShared, LockUnique, UnlockUnique, Find, store, locks, call
    <2>1. ASSUME NEW v \in Views, NEW o \in {"make", "find"}, CallLookup(t, o, v)
          PROVE  ResolveRight'
      BY <2>1 DEF CallLookup, LockInv, CallInv, ResolveRight
    <2>2. ASSUME NEW v \in Views, NEW n \in {data2id[v], Wild}, CallResolve(t, v, n)
          PROVE  ResolveRight'
      BY <2>2 DEF CallResolve, LockInv, CallInv, ResolveRight
    <2>3. CallSize(t) => ResolveRight'
      BY DEF CallSize, LockInv, CallInv, ResolveRight
    <2>4. LookupShared(t) => ResolveRight'
      BY DEF LookupShared, LockInv, CallInv, ResolveRight
    <2>5. HitUnlock(t) => ResolveRight'
      BY DEF HitUnlock, LockInv, CallInv, ResolveRight
    <2>6. Deref(t) => ResolveRight'
      BY DEF Deref, LockInv, CallInv, ResolveRight
    <2>7. FindMiss(t) => ResolveRight'
      BY DEF FindMiss, LockInv, CallInv, ResolveRight
    <2>8. MakeMiss(t) => ResolveRight'
      BY DEF MakeMiss, LockInv, CallInv, ResolveRight
    <2>9. LookupUnique(t) => ResolveRight'
      BY DEF LookupUnique, LockInv, CallInv, ResolveRight
    <2>10. UniqueHit(t) => ResolveRight'
      BY DEF UniqueHit, LockInv, CallInv, ResolveRight
    <2>11. Insert(t) => ResolveRight'
      BY DEF Insert, LockInv, CallInv, ResolveRight
    <2>12. ResolveShared(t) => ResolveRight'
      BY DEF ResolveShared, LockInv, CallInv, ResolveRight
    <2>13. ASSUME ResolveReturn(t) PROVE ResolveRight'
      <3>1. PICK e \in id2data[Kind(t)] : /\ e[1] = id[t]
                                          /\ answer' = [answer EXCEPT ![t] = e[2]]
        BY <2>13 DEF ResolveReturn
      <3>2. e[2] \in Views /\ KindOf[e[2]] = Kind(t) /\ data2id[e[2]] = id[t] /\ id[t] # NullId
        BY <3>1 DEF Consistent, MapsAgree, TermsOf
      <3>3. id[t] # Wild /\ id[t] = data2id[view[t]]
        BY <2>13, <3>2 DEF ResolveReturn, CallInv
      <3>4. e[2] = view[t]
        BY <3>2, <3>3 DEF Consistent, MapsAgree, TermsOf
      <3>5. QED
        BY <2>13, <3>1, <3>3, <3>4 DEF ResolveReturn, ResolveRight
    <2>14. ASSUME ResolveThrows(t) PROVE ResolveRight'
      <3>1. op[t] = "resolve" /\ answer[t] = NullId
        BY <2>14 DEF ResolveThrows, CallInv
      <3>2. id[t] = Wild
        <4> SUFFICES ASSUME id[t] = data2id[view[t]], id[t] # NullId PROVE FALSE
          BY <2>14, <3>1 DEF ResolveThrows, CallInv
        <4>1. <<data2id[view[t]], view[t]>> \in id2data[Kind(t)]
          BY DEF Consistent, MapsAgree, TermsOf
        <4>2. QED
          BY <2>14, <4>1 DEF ResolveThrows
      <3>3. QED
        BY <2>14, <3>1, <3>2 DEF ResolveThrows, ResolveRight
    <2>15. ASSUME NEW k \in Kinds, SizeStep(t, k)
          PROVE  ResolveRight'
      BY <2>15 DEF SizeStep, LockInv, CallInv, ResolveRight
    <2> HIDE DEF IInv, TypeOK, Kind, Goto, Lookup, SharedPcs, NullId, Wild, LockShared,
            UnlockShared, LockUnique, UnlockUnique, Find, store, locks, call
    <2>16. QED
      BY <1>2, <2>1, <2>2, <2>3, <2>4, <2>5, <2>6, <2>7, <2>8, 
         <2>9, <2>10, <2>11, <2>12, <2>13, <2>14, <2>15, NextCases
  <1>3. QED
    BY <1>1, <1>2 DEF Next

LEMMA NextConsistent == IInv /\ [Next]_vars => Consistent'
  <1> SUFFICES ASSUME IInv, [Next]_vars PROVE Consistent'
    OBVIOUS
  <1>1. CASE UNCHANGED vars
    BY <1>1 DEF vars, store, locks, call, IInv, Kind, Lookup, LockInv, CallInv, Consistent, MapsAgree, TermsOf
  <1>2. ASSUME NEW t \in Threads, Call(t) \/ Step(t) PROVE Consistent'
    <2> USE StoreAssumption DEF IInv, TypeOK, Kind, Goto, Lookup, SharedPcs, NullId,
            Wild, LockShared, UnlockShared, LockUnique, UnlockUnique, Find, store, locks, call
    <2>1. ASSUME NEW v \in Views, NEW o \in {"make", "find"}, CallLookup(t, o, v)
          PROVE  Consistent'
      BY <2>1 DEF CallLookup, LockInv, CallInv, Consistent, MapsAgree, TermsOf
    <2>2. ASSUME NEW v \in Views, NEW n \in {data2id[v], Wild}, CallResolve(t, v, n)
          PROVE  Consistent'
      BY <2>2 DEF CallResolve, LockInv, CallInv, Consistent, MapsAgree, TermsOf
    <2>3. CallSize(t) => Consistent'
      BY DEF CallSize, LockInv, CallInv, Consistent, MapsAgree, TermsOf
    <2>4. LookupShared(t) => Consistent'
      BY DEF LookupShared, LockInv, CallInv, Consistent, MapsAgree, TermsOf
    <2>5. HitUnlock(t) => Consistent'
      BY DEF HitUnlock, LockInv, CallInv, Consistent, MapsAgree, TermsOf
    <2>6. Deref(t) => Consistent'
      BY DEF Deref, LockInv, CallInv, Consistent, MapsAgree, TermsOf
    <2>7. FindMiss(t) => Consistent'
      BY DEF FindMiss, LockInv, CallInv, Consistent, MapsAgree, TermsOf
    <2>8. MakeMiss(t) => Consistent'
      BY DEF MakeMiss, LockInv, CallInv, Consistent, MapsAgree, TermsOf
    <2>9. LookupUnique(t) => Consistent'
      BY DEF LookupUnique, LockInv, CallInv, Consistent, MapsAgree, TermsOf
    <2>10. UniqueHit(t) => Consistent'
      BY DEF UniqueHit, LockInv, CallInv, Consistent, MapsAgree, TermsOf
    <2>11. ASSUME Insert(t) PROVE Consistent'
      <3> SUFFICES ASSUME NEW k \in Kinds PROVE MapsAgree(k)'
        BY DEF Consistent
      <3>1. CASE k # Kind(t)
        <4>1. id2data'[k] = id2data[k] /\ next'[k] = next[k]
          BY <2>11, <3>1, InsertFacts
        <4>2. \A w \in TermsOf(k) : data2id'[w] = data2id[w]
          BY <2>11, <3>1, InsertFacts DEF TermsOf
        <4>3. QED
          BY <4>1, <4>2 DEF Consistent, MapsAgree, TermsOf
      <3>2. CASE k = Kind(t)
        <4> DEFINE v == view[t]
                   n == next[k]
        <4>1. /\ v \in TermsOf(k) /\ n \in Nat
              /\ \A w \in TermsOf(k) : data2id[w] < n
          BY <3>2 DEF Consistent, MapsAgree, TermsOf
        <4>2. /\ id2data'[k] = id2data[k] \cup {<<n, v>>}
              /\ next'[k] = n + 1
              /\ data2id[v] = NullId /\ n # NullId
              /\ \A w \in Views : data2id'[w] = IF w = v THEN n ELSE data2id[w]
          BY <2>11, <3>2, <4>1, InsertFacts
        <4>3. \A e \in id2data'[k] : e[2] \in TermsOf(k) /\ data2id'[e[2]] = e[1] /\ e[1] # NullId
          BY <4>1, <4>2 DEF Consistent, MapsAgree, TermsOf
        <4>4. \A w \in TermsOf(k) : data2id'[w] # NullId => <<data2id'[w], w>> \in id2data'[k]
          BY <4>1, <4>2 DEF Consistent, MapsAgree, TermsOf
        <4>5. \A w \in TermsOf(k) : data2id'[w] < next'[k]
          BY <4>1, <4>2 DEF TermsOf
        <4>6. \A w, x \in TermsOf(k) : w # x /\ data2id'[w] # NullId => data2id'[w] # data2id'[x]
          BY <4>1, <4>2 DEF Consistent, MapsAgree, TermsOf
        <4>7. QED
          BY <4>3, <4>4, <4>5, <4>6 DEF MapsAgree, TermsOf
      <3>3. QED
        BY <3>1, <3>2
    <2>12. ResolveShared(t) => Consistent'
      BY DEF ResolveShared, LockInv, CallInv, Consistent, MapsAgree, TermsOf
    <2>13. ResolveReturn(t) => Consistent'
      BY DEF ResolveReturn, LockInv, CallInv, Consistent, MapsAgree, TermsOf
    <2>14. ResolveThrows(t) => Consistent'
      BY DEF ResolveThrows, LockInv, CallInv, Consistent, MapsAgree, TermsOf
    <2>15. ASSUME NEW k \in Kinds, SizeStep(t, k)
          PROVE  Consistent'
      BY <2>15 DEF SizeStep, LockInv, CallInv, Consistent, MapsAgree, TermsOf
    <2> HIDE DEF IInv, TypeOK, Kind, Goto, Lookup, SharedPcs, NullId, Wild, LockShared,
            UnlockShared, LockUnique, UnlockUnique, Find, store, locks, call
    <2>16. QED
      BY <1>2, <2>1, <2>2, <2>3, <2>4, <2>5, <2>6, <2>7, <2>8, 
         <2>9, <2>10, <2>11, <2>12, <2>13, <2>14, <2>15, NextCases
  <1>3. QED
    BY <1>1, <1>2 DEF Next

-----------------------------------------------------------------------------
LEMMA InitInv == Init => IInv
  <1> SUFFICES ASSUME Init PROVE IInv
    OBVIOUS
  <1>1. TypeOK
    BY InitType
  <1>2. LockInv /\ CallInv /\ LookupSound /\ ResolveRight
    BY DEF Init, LockInv, CallInv, LookupSound, ResolveRight, Lookup, SharedPcs
  <1>3. Consistent
    BY StoreAssumption DEF Init, Consistent, MapsAgree, TermsOf, NullId
  <1>4. QED
    BY <1>1, <1>2, <1>3 DEF IInv

LEMMA NextInv == IInv /\ [Next]_vars => IInv'
  BY NextType, NextLock, NextCall, NextConsistent, NextLookup, NextResolve DEF IInv

\* The strengthening holds in every state: two maps, counters, locks and the
\* threads' knowledge fit together however the calls interleave.
THEOREM Invariance == Spec => []IInv
  <1>1. Init => IInv
    BY InitInv
  <1>2. IInv /\ [Next]_vars => IInv'
    BY NextInv
  <1>3. QED
    BY <1>1, <1>2, PTL DEF Spec

\* Every variable keeps its type.
THEOREM TypeCorrect == Spec => []TypeOK
  BY Invariance, PTL DEF IInv

\* data2id and id2data stay inverse bijections and the counters stay ahead of
\* every ID, for any number of concurrent find_or_make_id.
THEOREM MapsStayConsistent == Spec => []Consistent
  BY Invariance, PTL DEF IInv

\* A lookup whose iterator no insertion invalidated returns the term's ID, and
\* null only for a term that was absent.
THEOREM LookupsAreSound == Spec => []LookupSound
  BY Invariance, PTL DEF IInv

\* Resolving an ID gives back its term and nothing else.
THEOREM ResolvesAreRight == Spec => []ResolveRight
  BY Invariance, PTL DEF IInv

-----------------------------------------------------------------------------
(* The node store implements the abstract dictionary.                      *)

LEMMA OnlyInsertLearns ==
    ASSUME NEW t \in Threads, Call(t) \/ Step(t), ~Insert(t)
    PROVE  UNCHANGED data2id
  BY DEF Call, Step, CallLookup, CallResolve, CallSize, LookupShared, HitUnlock, Deref,
         FindMiss, MakeMiss, LookupUnique, UniqueHit, ResolveShared, ResolveReturn,
         ResolveThrows, SizeStep, store

LEMMA InsertLearns ==
    ASSUME IInv, NEW t \in Threads, Insert(t)
    PROVE  Dictionary!Learn(view[t])
  <1> DEFINE v == view[t]
             n == next[Kind(t)]
  <1>1. v \in Views /\ Kind(t) \in Kinds /\ KindOf[v] = Kind(t)
    BY StoreAssumption DEF IInv, TypeOK, Kind
  <1>2. /\ data2id[v] = 0
        /\ n \in Nat \ {0}
        /\ data2id' = [data2id EXCEPT ![v] = n]
        /\ data2id'[v] = n
    BY <1>1, InsertFacts DEF IInv, TypeOK, NullId
  <1>3. n \notin Dictionary!Taken(v)
    <2> SUFFICES ASSUME NEW w \in Views, KindOf[w] = KindOf[v], data2id[w] = n
                 PROVE  FALSE
      BY DEF Dictionary!Taken
    <2>1. data2id[w] < n
      BY <1>1 DEF IInv, Consistent, MapsAgree, TermsOf
    <2>2. QED
      BY <1>2, <2>1
  <1>4. QED
    BY <1>2, <1>3 DEF Dictionary!Learn

\* A term keeps its ID and no other term of its kind gets it: the node store
\* is a TermDictionary.
THEOREM ImplementsDictionary == Spec => DictionarySpec
  <1>1. Init => Dictionary!Init
    BY StoreAssumption DEF Init, Dictionary!Init, NullId
  <1>2. IInv /\ [Next]_vars => [Dictionary!Next]_data2id
    <2> SUFFICES ASSUME IInv, [Next]_vars PROVE [Dictionary!Next]_data2id
      OBVIOUS
    <2>1. CASE UNCHANGED vars
      BY <2>1 DEF vars, store
    <2>2. ASSUME NEW t \in Threads, Call(t) \/ Step(t), ~Insert(t)
          PROVE  UNCHANGED data2id
      BY <2>2, OnlyInsertLearns
    <2>3. ASSUME NEW t \in Threads, Insert(t)
          PROVE  Dictionary!Next
      <3>1. view[t] \in Views
        BY DEF IInv, TypeOK
      <3>2. QED
        BY <2>3, <3>1, InsertLearns DEF Dictionary!Next
    <2>4. QED
      BY <2>1, <2>2, <2>3 DEF Next
  <1>3. QED
    BY <1>1, <1>2, Invariance, PTL DEF Spec, DictionarySpec, Dictionary!Spec
-----------------------------------------------------------------------------
(* size().  What it has counted and what is stored, of the kinds it has not *)
(* counted yet, together is never less than there was in the beginning and  *)
(* never more than there is.                                                *)

\* The terms of the kinds K in the map d, and their number.
Stored(d, K) == {v \in Views : KindOf[v] \in K /\ d[v] # NullId}
Number(d, K) == Cardinality(Stored(d, K))

SizeInv ==
    \A t \in Threads : op[t] = "size" /\ pc[t] \in {"start", "done"} =>
        /\ id[t] <= answer[t] + Number(data2id, todo[t])
        /\ answer[t] + Number(data2id, todo[t]) <= Total
        /\ pc[t] = "done" => todo[t] = {}

LEMMA StoredFinite ==
    ASSUME NEW d, NEW K
    PROVE  IsFiniteSet(Stored(d, K)) /\ Number(d, K) \in Nat
  <1>1. IsFiniteSet(Stored(d, K))
    BY StoreAssumption, FS_Subset DEF Stored
  <1>2. QED
    BY <1>1, FS_CardinalityType DEF Number

LEMMA TotalIsStored == /\ Total = Number(data2id, Kinds)
                       /\ Total' = Number(data2id', Kinds)
  <1>1. /\ {v \in Views : data2id[v] # NullId} = Stored(data2id, Kinds)
        /\ {v \in Views : data2id'[v] # NullId} = Stored(data2id', Kinds)
    BY StoreAssumption DEF Stored
  <1>2. QED
    BY <1>1 DEF Total, Number

\* A storage counts its terms.
LEMMA SizeIsStored ==
    ASSUME IInv, NEW k \in Kinds
    PROVE  StorageSize(k) = Number(data2id, {k})
  <1> DEFINE S == Stored(data2id, {k})
             f == [v \in S |-> <<data2id[v], v>>]
  <1>1. S = {v \in TermsOf(k) : data2id[v] # NullId}
    BY DEF Stored, TermsOf
  <1>2. \A v \in S : <<data2id[v], v>> \in id2data[k]
    BY <1>1 DEF IInv, Consistent, MapsAgree
  <1>3. \A e \in id2data[k] : e[2] \in S /\ e = <<data2id[e[2]], e[2]>>
    <2> SUFFICES ASSUME NEW e \in id2data[k]
                 PROVE  e[2] \in S /\ e = <<data2id[e[2]], e[2]>>
      OBVIOUS
    <2>1. e[2] \in TermsOf(k) /\ data2id[e[2]] = e[1] /\ e[1] # NullId
      BY DEF IInv, Consistent, MapsAgree
    <2>2. e \in Nat \X Views
      BY DEF IInv, TypeOK
    <2>3. QED
      BY <1>1, <2>1, <2>2
  <1>4. f \in Surjection(S, id2data[k])
    <2> HIDE DEF S
    <2>1. QED
      BY <1>2, <1>3 DEF Surjection
  <1>5. \A v, w \in S : f[v] = f[w] => v = w
    <2> HIDE DEF S
    <2>1. QED
      OBVIOUS
  <1>6. f \in Injection(S, id2data[k])
    <2> HIDE DEF S, f
    <2>1. QED
      BY <1>4, <1>5 DEF Injection, IsInjective, Surjection
  <1>7. QED
    <2> HIDE DEF f
    <2>1. QED
      BY <1>4, <1>6, StoredFinite, FS_Surjection DEF StorageSize, Number

\* The storages that are counted and those that are not.
LEMMA SplitStored ==
    ASSUME NEW d, NEW K, NEW k \in K
    PROVE  Number(d, K) = Number(d, K \ {k}) + Number(d, {k})
  <1>1. Stored(d, K) = Stored(d, K \ {k}) \cup Stored(d, {k})
    BY DEF Stored
  <1>2. Stored(d, K \ {k}) \cap Stored(d, {k}) = {}
    BY DEF Stored
  <1> DEFINE A == Stored(d, K \ {k})
             B == Stored(d, {k})
  <1>3. IsFiniteSet(A) /\ IsFiniteSet(B) /\ Cardinality(A) \in Nat /\ Cardinality(B) \in Nat
    BY StoredFinite DEF Number
  <1> HIDE DEF A, B
  <1>4. Cardinality(A \cup B) = Cardinality(A) + Cardinality(B) - Cardinality(A \cap B)
    BY <1>3, FS_Union
  <1>5. Cardinality(A \cap B) = 0
    BY <1>2, FS_EmptySet DEF A, B
  <1>6. Cardinality(A \cup B) = Cardinality(A) + Cardinality(B)
    BY <1>3, <1>4, <1>5
  <1>7. QED
    BY <1>1, <1>6 DEF A, B, Number

\* One term more.
LEMMA InsertStores ==
    ASSUME IInv, NEW t \in Threads, Insert(t), NEW K
    PROVE  Number(data2id', K) = IF Kind(t) \in K THEN Number(data2id, K) + 1
                                                  ELSE Number(data2id, K)
  <1> DEFINE v == view[t]
  <1>1. /\ v \in Views /\ KindOf[v] = Kind(t) /\ data2id[v] = NullId
        /\ v \notin Stored(data2id, K)
    BY InsertFacts DEF IInv, TypeOK, Kind, Stored
  <1>2. \A w \in Views : data2id'[w] # NullId <=> data2id[w] # NullId \/ w = v
    BY <1>1, InsertFacts DEF IInv, TypeOK
  <1>3. Stored(data2id', K) = IF Kind(t) \in K THEN Stored(data2id, K) \cup {v}
                                               ELSE Stored(data2id, K)
    BY <1>1, <1>2 DEF Stored
  <1>4. QED
    BY <1>1, <1>3, StoredFinite, FS_AddElement DEF Number

\* What other threads' steps do not touch.
LEMMA OthersStay ==
    ASSUME NEW t \in Threads, Call(t) \/ Step(t), NEW u \in Threads, u # t
    PROVE  /\ TypeOK => pc'[u] = pc[u] /\ op'[u] = op[u] /\ id'[u] = id[u]
                        /\ todo'[u] = todo[u] /\ answer'[u] = answer[u]
  <1> SUFFICES ASSUME TypeOK
               PROVE  pc'[u] = pc[u] /\ op'[u] = op[u] /\ id'[u] = id[u]
                      /\ todo'[u] = todo[u] /\ answer'[u] = answer[u]
    OBVIOUS
  <1>1. QED
    BY DEF Call, Step, CallLookup, CallResolve, CallSize, LookupShared, HitUnlock, Deref,
           FindMiss, MakeMiss, LookupUnique, UniqueHit, Insert, ResolveShared, ResolveReturn,
           ResolveThrows, SizeStep, call, Goto, TypeOK

\* Only size() itself comes to these points of a call of size().
LEMMA OwnStep ==
    ASSUME IInv, NEW t \in Threads, Call(t) \/ Step(t),
           op'[t] = "size", pc'[t] \in {"start", "done"}
    PROVE  CallSize(t) \/ \E k \in Kinds : SizeStep(t, k)
  BY DEF Call, Step, CallLookup, CallResolve, CallSize, LookupShared, HitUnlock, Deref,
         FindMiss, MakeMiss, LookupUnique, UniqueHit, Insert, ResolveShared, ResolveReturn,
         ResolveThrows, call, Goto, IInv, TypeOK, CallInv, Lookup

LEMMA NextSize == IInv /\ SizeInv /\ [Next]_vars => SizeInv'
  <1> SUFFICES ASSUME IInv, SizeInv, [Next]_vars PROVE SizeInv'
    OBVIOUS
  <1> USE DEF NullId
  <1>1. CASE UNCHANGED vars
    BY <1>1, TotalIsStored DEF vars, store, call, SizeInv
  <1>2. ASSUME NEW t \in Threads, Call(t) \/ Step(t) PROVE SizeInv'
    <2> SUFFICES ASSUME NEW u \in Threads, op'[u] = "size", pc'[u] \in {"start", "done"}
                 PROVE  /\ id'[u] <= answer'[u] + Number(data2id', todo'[u])
                        /\ answer'[u] + Number(data2id', todo'[u]) <= Total'
                        /\ pc'[u] = "done" => todo'[u] = {}
      BY DEF SizeInv, Number, Stored
    <2>1. CASE u # t
      <3>1. /\ pc'[u] = pc[u] /\ op'[u] = op[u] /\ id'[u] = id[u]
            /\ todo'[u] = todo[u] /\ answer'[u] = answer[u]
        BY <1>2, <2>1, OthersStay DEF IInv
      <3>2. /\ id[u] <= answer[u] + Number(data2id, todo[u])
            /\ answer[u] + Number(data2id, todo[u]) <= Total
            /\ pc[u] = "done" => todo[u] = {}
        BY <3>1 DEF SizeInv
      <3>3. id[u] \in Int /\ answer[u] \in Int /\ Number(data2id, todo[u]) \in Nat /\ Total \in Nat
        BY <3>1, StoredFinite, TotalType DEF IInv, TypeOK
      <3>4. CASE ~Insert(t)
        <4>1. data2id' = data2id
          BY <1>2, <3>4, OnlyInsertLearns
        <4>2. Total' = Total
          BY <4>1, TotalIsStored
        <4>3. QED
          BY <3>1, <3>2, <4>1, <4>2
      <3>5. CASE Insert(t)
        <4>1. Total' = Total + 1
          <5>1. Kind(t) \in Kinds
            BY StoreAssumption DEF IInv, TypeOK, Kind
          <5>2. Number(data2id', Kinds) = Number(data2id, Kinds) + 1
            BY <3>5, <5>1, InsertStores
          <5>3. QED
            BY <5>2, TotalIsStored
        <4>2. \/ Number(data2id', todo[u]) = Number(data2id, todo[u])
              \/ Number(data2id', todo[u]) = Number(data2id, todo[u]) + 1
          BY <3>5, InsertStores
        <4>3. QED
          BY <3>1, <3>2, <3>3, <4>1, <4>2
      <3>6. QED
        BY <3>4, <3>5
    <2>2. CASE u = t /\ CallSize(t)
      <3>1. id'[u] = Total /\ answer'[u] = 0 /\ todo'[u] = Kinds /\ data2id' = data2id
            /\ pc'[u] = "start"
        BY <2>2 DEF CallSize, store, Goto, IInv, TypeOK
      <3>2. Number(data2id', todo'[u]) = Total /\ Total' = Total
        BY <3>1, TotalIsStored
      <3>3. QED
        BY <3>1, <3>2, TotalType DEF IInv
    <2>3. CASE u = t /\ \E k \in Kinds : SizeStep(t, k)
      <3>1. PICK k \in Kinds : SizeStep(t, k)
        BY <2>3
      <3>2. /\ k \in todo[t] /\ data2id' = data2id /\ id' = id
            /\ todo'[t] = todo[t] \ {k} /\ answer'[t] = answer[t] + StorageSize(k)
            /\ pc'[t] = IF todo[t] = {k} THEN "done" ELSE "start"
            /\ pc[t] = "start" /\ op[t] = "size"
        BY <3>1 DEF SizeStep, store, call, Goto, IInv, TypeOK
      <3>3. /\ id[t] <= answer[t] + Number(data2id, todo[t])
            /\ answer[t] + Number(data2id, todo[t]) <= Total
        BY <3>2 DEF SizeInv
      <3>4. Number(data2id, todo[t]) = Number(data2id, todo'[t]) + StorageSize(k)
        <4>1. Number(data2id, todo[t]) = Number(data2id, todo[t] \ {k}) + Number(data2id, {k})
          BY <3>2, SplitStored
        <4>2. StorageSize(k) = Number(data2id, {k})
          BY SizeIsStored
        <4>3. QED
          BY <3>2, <4>1, <4>2
      <3>5. Total' = Total
        BY <3>2, TotalIsStored
      <3>6. /\ id[t] \in Int /\ answer[t] \in Int /\ Total \in Nat /\ StorageSize(k) \in Nat
            /\ Number(data2id, todo'[t]) \in Nat
        BY <3>2, StoredFinite, TotalType, StorageSizeType DEF IInv, TypeOK
      <3>7. pc'[t] = "done" => todo'[t] = {}
        BY <3>2
      <3>8. QED
        BY <2>3, <3>2, <3>3, <3>4, <3>5, <3>6, <3>7
    <2>4. QED
      BY <1>2, <2>1, <2>2, <2>3, OwnStep
  <1>3. QED
    BY <1>1, <1>2 DEF Next

\* size() returns no less than the number of terms when it was called and no
\* more than their number when it returns, whatever is inserted in between.
THEOREM SizesAreBetween == Spec => []SizeBetween
  <1>1. Init => SizeInv
    BY DEF Init, SizeInv
  <1>2. IInv /\ SizeInv => SizeBetween
    <2> SUFFICES ASSUME IInv, SizeInv, NEW t \in Threads, pc[t] = "done", op[t] = "size"
                 PROVE  id[t] <= answer[t] /\ answer[t] <= Total
      BY DEF SizeBetween
    <2>1. /\ todo[t] = {}
          /\ id[t] <= answer[t] + Number(data2id, todo[t])
          /\ answer[t] + Number(data2id, todo[t]) <= Total
      BY DEF SizeInv
    <2>2. Number(data2id, todo[t]) = 0
      <3>1. Stored(data2id, {}) = {}
        BY DEF Stored
      <3>2. QED
        BY <2>1, <3>1, FS_EmptySet DEF Number
    <2>3. id[t] \in Int /\ answer[t] \in Int
      BY DEF IInv, TypeOK
    <2>4. QED
      BY <2>1, <2>2, <2>3
  <1>3. QED
    BY <1>1, <1>2, NextSize, Invariance, PTL DEF Spec

-----------------------------------------------------------------------------
(* A call comes out.                                                       *)

\* Who holds a lock is inside the critical section of that storage, and not
\* where a thread waits for a lock.
HoldersWork ==
    \A t \in Threads, k \in Kinds :
        /\ t \in readers[k] => pc[t] \in SharedPcs /\ Kind(t) = k
        /\ writer[k] = t => pc[t] = "unique" /\ Kind(t) = k

LEMMA NextHolders == IInv /\ HoldersWork /\ [Next]_vars => HoldersWork'
  <1> SUFFICES ASSUME IInv, HoldersWork, [Next]_vars PROVE HoldersWork'
    OBVIOUS
  <1>1. CASE UNCHANGED vars
    BY <1>1 DEF vars, locks, call, Kind, HoldersWork
  <1>2. ASSUME NEW t \in Threads, Call(t) \/ Step(t) PROVE HoldersWork'
    <2> USE StoreAssumption DEF IInv, TypeOK, Kind, Goto, SharedPcs, LockShared,
            UnlockShared, LockUnique, UnlockUnique, store, locks, call
    <2>1. ASSUME NEW v \in Views, NEW o \in {"make", "find"}, CallLookup(t, o, v)
          PROVE  HoldersWork'
      BY <2>1 DEF CallLookup, HoldersWork
    <2>2. ASSUME NEW v \in Views, NEW n \in {data2id[v], Wild}, CallResolve(t, v, n)
          PROVE  HoldersWork'
      BY <2>2 DEF CallResolve, HoldersWork
    <2>3. CallSize(t) => HoldersWork'
      BY DEF CallSize, HoldersWork
    <2>4. LookupShared(t) => HoldersWork'
      BY DEF LookupShared, HoldersWork
    <2>5. HitUnlock(t) => HoldersWork'
      BY DEF HitUnlock, HoldersWork
    <2>6. Deref(t) => HoldersWork'
      BY DEF Deref, HoldersWork
    <2>7. FindMiss(t) => HoldersWork'
      BY DEF FindMiss, HoldersWork
    <2>8. MakeMiss(t) => HoldersWork'
      BY DEF MakeMiss, HoldersWork
    <2>9. LookupUnique(t) => HoldersWork'
      BY DEF LookupUnique, HoldersWork
    <2>10. UniqueHit(t) => HoldersWork'
      BY DEF UniqueHit, HoldersWork
    <2>11. Insert(t) => HoldersWork'
      BY DEF Insert, HoldersWork
    <2>12. ResolveShared(t) => HoldersWork'
      BY DEF ResolveShared, HoldersWork
    <2>13. ResolveReturn(t) => HoldersWork'
      BY DEF ResolveReturn, HoldersWork
    <2>14. ResolveThrows(t) => HoldersWork'
      BY DEF ResolveThrows, HoldersWork
    <2>15. ASSUME NEW k \in Kinds, SizeStep(t, k) PROVE HoldersWork'
      BY <2>15 DEF SizeStep, HoldersWork
    <2> HIDE DEF IInv, TypeOK, Kind, Goto, SharedPcs, LockShared, UnlockShared, LockUnique,
            UnlockUnique, store, locks, call
    <2> QED
      BY <1>2, <2>1, <2>2, <2>3, <2>4, <2>5, <2>6, <2>7, <2>8, <2>9, <2>10, <2>11,
         <2>12, <2>13, <2>14, <2>15, NextCases
  <1> QED
    BY <1>1, <1>2 DEF Next

\* No circle of threads that wait for each other: whoever keeps a lock from
\* another has all it needs to go on and release it.
THEOREM HoldersDoNotWait == Spec => []HoldersWork
  <1>1. Init => HoldersWork
    BY StoreAssumption DEF Init, HoldersWork
  <1> QED
    BY <1>1, NextHolders, Invariance, PTL DEF Spec

\* How far a call is from its end.
Phase(t) == CASE pc[t] = "start"     -> 6
              [] pc[t] = "shared"    -> 5
              [] pc[t] = "upgrade"   -> 4
              [] pc[t] = "unique"    -> 3
              [] pc[t] = "resolving" -> 2
              [] pc[t] = "deref"     -> 1
              [] OTHER               -> 0
Distance(t) == IF Phase(t) = 0 THEN 0 ELSE Phase(t) + Cardinality(todo[t])

LEMMA TodoType == ASSUME TypeOK, NEW t \in Threads
                  PROVE  IsFiniteSet(todo[t]) /\ Cardinality(todo[t]) \in Nat
  <1>1. todo[t] \subseteq Kinds /\ IsFiniteSet(Kinds)
    BY StoreAssumption DEF TypeOK
  <1> QED
    BY <1>1, FS_Subset, FS_CardinalityType

LEMMA OwnDistance ==
    ASSUME TypeOK, NEW t \in Threads, Step(t) PROVE Distance(t) \in Nat /\ Distance(t)' < Distance(t)
  <1>1. Cardinality(todo[t]) \in Nat /\ IsFiniteSet(todo[t])
    BY TodoType
  <1>2. CASE \E k \in Kinds : SizeStep(t, k)
    <2>1. PICK k \in Kinds : SizeStep(t, k)
      BY <1>2
    <2>2. /\ pc[t] = "start" /\ pc'[t] = IF todo[t] = {k} THEN "done" ELSE "start"
          /\ k \in todo[t] /\ todo'[t] = todo[t] \ {k}
      BY <2>1 DEF SizeStep, Goto, TypeOK
    <2>3. Cardinality(todo[t] \ {k}) = Cardinality(todo[t]) - 1
      BY <1>1, <2>2, FS_RemoveElement
    <2> QED
      BY <1>1, <2>2, <2>3 DEF Distance, Phase
  <1>3. CASE ~ \E k \in Kinds : SizeStep(t, k)
    <2>1. /\ todo' = todo
          /\ \/ pc[t] = "start" /\ pc'[t] \in {"shared", "resolving"}
             \/ pc[t] = "shared" /\ pc'[t] \in {"deref", "done", "upgrade"}
             \/ pc[t] = "upgrade" /\ pc'[t] = "unique"
             \/ pc[t] = "unique" /\ pc'[t] \in {"deref", "done"}
             \/ pc[t] = "deref" /\ pc'[t] = "done"
             \/ pc[t] = "resolving" /\ pc'[t] = "done"
      BY <1>3 DEF Step, LookupShared, HitUnlock, Deref, FindMiss, MakeMiss, LookupUnique,
                  UniqueHit, Insert, ResolveShared, ResolveReturn, ResolveThrows, Goto, TypeOK
    <2>2. Phase(t) \in Nat /\ Phase(t)' \in Nat /\ Phase(t)' < Phase(t)
      BY <2>1 DEF Phase
    <2> QED
      BY <1>1, <2>1, <2>2 DEF Distance
  <1> QED
    BY <1>2, <1>3

LEMMA OthersDistance ==
    ASSUME TypeOK, NEW t \in Threads, Step(t), NEW u \in Threads, u # t
    PROVE  Distance(u)' = Distance(u)
  <1>1. pc'[u] = pc[u] /\ todo'[u] = todo[u]
    BY DEF Step, LookupShared, HitUnlock, Deref, FindMiss, MakeMiss, LookupUnique,
           UniqueHit, Insert, ResolveShared, ResolveReturn, ResolveThrows, SizeStep, Goto, TypeOK
  <1> QED
    BY <1>1 DEF Distance, Phase

\* A call never goes back: a thread that finds the term inserted meanwhile, or
\* has to count another storage, is nearer to its return, and what it does
\* takes no other thread further from its own.
THEOREM CallsAdvance ==
    Spec => [][\A t \in Threads : Step(t) =>
                   /\ Distance(t) \in Nat /\ Distance(t)' < Distance(t)
                   /\ \A u \in Threads \ {t} : Distance(u)' = Distance(u)]_vars
  <1>1. TypeOK /\ [Next]_vars =>
            [\A t \in Threads : Step(t) =>
                   /\ Distance(t) \in Nat /\ Distance(t)' < Distance(t)
                   /\ \A u \in Threads \ {t} : Distance(u)' = Distance(u)]_vars
    BY OwnDistance, OthersDistance
  <1> QED
    BY <1>1, TypeCorrect, PTL DEF Spec
=============================================================================
