----------------------- MODULE StorageLifecycleProofs -----------------------
(***************************************************************************)
(* The guarantees of StorageLifecycle for any number of servers and bulks. *)
(* As long as no two programs have used one directory at once, whoever has *)
(* a directory open for writing is its only user, and the contents of the  *)
(* directories follow from what that process is doing (DataInv, SnapInv).  *)
(***************************************************************************)
EXTENDS StorageLifecycle, TLAPS

\* Loaders do the loader's steps and servers do the servers'.
RoleInv == /\ pc[Loader] \in {"off"} \cup LoaderPcs
           /\ \A s \in Servers : pc[s] \in {"off"} \cup ServerPcs

\* The state of the index while a process works on it; a marked index is
\* empty or whole.
DataInv ==
    /\ Consistent(data) => data.content \in {NoTensor, Batches}
    /\ pc[Loader] = "creating" => data.content = NoTensor /\ ~data.marked
    /\ pc[Loader] = "loading" => data.content \in 0..Batches /\ ~data.marked
    /\ pc[Loader] \in {"loaded", "copying"} => data.content # NoTensor
    /\ pc[Loader] = "copying" => Consistent(data)
    /\ \A s \in Servers :
         /\ pc[s] = "opened" => /\ data.content \in {NoTensor, Batches}
                              /\ ~data.marked /\ data.there
         /\ pc[s] = "serving" => /\ data.content = Batches
                               /\ ~data.marked /\ data.there
         /\ pc[s] = "restoring" => ~data.marked /\ data.content = Torn /\ data.there

\* The state of the snapshot; a process that rebuilds the index from it has
\* opened a whole one.
SnapInv ==
    /\ Consistent(snap) => snap.content = Batches
    /\ pc[Loader] = "copying" => ~snap.marked
    /\ \A s \in Servers : pc[s] = "restoring" => /\ snap.content = Batches
                                                 /\ snap.there /\ ~snap.marked

\* The loader does not run while its snapshot counts as taken: it refuses a
\* path that exists.
TakenInv == /\ taken => pc[Loader] = "off" /\ data.there
            /\ pc[Loader] # "off" => data.there

\* What the loader is working on is new, and so is what it has finished with.
OldInv == /\ pc[Loader] # "off" => ~data.old
          /\ taken => ~data.old /\ ~snap.old

CleanInv == /\ ~Conflict
            /\ DataInv
            /\ SnapInv
            /\ OldInv
            /\ Recoverable

IInv == /\ TypeOK
        /\ RoleInv
        /\ TakenInv
        /\ ~contended => CleanInv

-----------------------------------------------------------------------------
\* The steps of all processes, one by one.
LEMMA NextCases ==
    ASSUME NEW P, Next,
           LoaderCreates => P,
           LoaderCloses => P,
           LoaderOpens => P,
           LoadsBatch => P,
           LoaderDone => P,
           LoaderCopies => P,
           LoaderFinishes => P,
           CopyFails => P,
           ASSUME NEW s \in Servers, ChecksIndex(s) PROVE P,
           ASSUME NEW s \in Servers, FindsSnapshot(s) PROVE P,
           ASSUME NEW s \in Servers, NoSnapshot(s) PROVE P,
           ASSUME NEW s \in Servers, Restores(s) PROVE P,
           ASSUME NEW s \in Servers, Restored(s) PROVE P,
           ASSUME NEW s \in Servers, RestoreFails(s) PROVE P,
           ASSUME NEW s \in Servers, Opens(s) PROVE P,
           ASSUME NEW s \in Servers, Serves(s) PROVE P,
           ASSUME NEW s \in Servers, ShutsDown(s) PROVE P,
           ASSUME NEW p \in Procs, Dies(p) PROVE P,
           OperatorRemoves => P
    PROVE  P
  BY DEF Next, LoaderStep, ServerStep

LEMMA NextType == TypeOK /\ [Next]_vars => TypeOK'
  <1> SUFFICES ASSUME TypeOK, [Next]_vars PROVE TypeOK'
    OBVIOUS
  <1>1. CASE UNCHANGED vars
    BY <1>1 DEF vars, TypeOK, Dirs, Procs, NoTensor, Torn, LoaderPcs, ServerPcs, Nowhere, Fresh, Mark, Unmark,
            BeginCopy, EndCopy
  <1>2. CASE Next
    <2> USE LifecycleAssumption DEF Move, TypeOK, Dirs, Procs, NoTensor, Torn, LoaderPcs, ServerPcs, Nowhere, Fresh, Mark, Unmark,
            BeginCopy, EndCopy
    <2>1. LoaderCreates => TypeOK'
      BY DEF LoaderCreates
    <2>2. LoaderCloses => TypeOK'
      <3> SUFFICES ASSUME LoaderCloses PROVE TypeOK'
        OBVIOUS
      <3>1. data' \in Dirs
        BY DEF LoaderCloses, Dirs
      <3>2. QED
        BY <3>1 DEF LoaderCloses
    <2>3. LoaderOpens => TypeOK'
      <3> SUFFICES ASSUME LoaderOpens PROVE TypeOK'
        OBVIOUS
      <3>1. data.there \in BOOLEAN /\ data.old \in BOOLEAN /\ data.content \in {Torn, NoTensor} \cup 0..Batches
        BY DEF TypeOK, Dirs
      <3>2. data' = [there |-> data.there, marked |-> FALSE, old |-> data.old,
                     content |-> IF data.content = NoTensor THEN 0 ELSE data.content]
        BY DEF LoaderOpens, Unmark, TypeOK, Dirs
      <3>3. 0 \in 0..Batches
        BY LifecycleAssumption
      <3>4. data' \in Dirs
        BY <3>1, <3>2, <3>3 DEF Dirs
      <3>5. QED
        BY <3>4 DEF LoaderOpens, Move, TypeOK, LoaderPcs
    <2>4. LoadsBatch => TypeOK'
      BY DEF LoadsBatch
    <2>5. LoaderDone => TypeOK'
      <3> SUFFICES ASSUME LoaderDone PROVE TypeOK'
        OBVIOUS
      <3>1. data' \in Dirs
        BY DEF LoaderDone, Dirs
      <3>2. pc' \in [Procs -> {"off"} \cup LoaderPcs \cup ServerPcs] /\ contended' \in BOOLEAN
        BY DEF LoaderDone
      <3>3. UNCHANGED <<snap, taken, interrupted>>
        BY DEF LoaderDone
      <3>4. QED
        BY ONLY TypeOK, <3>1, <3>2, <3>3 DEF TypeOK
    <2>6. LoaderCopies => TypeOK'
      BY DEF LoaderCopies
    <2>7. LoaderFinishes => TypeOK'
      BY DEF LoaderFinishes
    <2>8. CopyFails => TypeOK'
      <3> SUFFICES ASSUME CopyFails PROVE TypeOK'
        OBVIOUS
      <3>1. Nowhere \in Dirs /\ snap \in Dirs
        BY DEF TypeOK, Nowhere, Dirs
      <3>2. snap' \in Dirs
        BY <3>1 DEF CopyFails
      <3>3. pc' \in [Procs -> {"off"} \cup LoaderPcs \cup ServerPcs] /\ contended' \in BOOLEAN
        BY DEF CopyFails
      <3>4. UNCHANGED <<data, taken, interrupted>>
        BY DEF CopyFails
      <3>5. QED
        BY ONLY TypeOK, <3>2, <3>3, <3>4 DEF TypeOK
    <2>9. ASSUME NEW s \in Servers, ChecksIndex(s) PROVE TypeOK'
      <3>1. UNCHANGED <<data, snap, taken, interrupted>>
        BY <2>9 DEF ChecksIndex
      <3>2. pc' \in [Procs -> {"off"} \cup LoaderPcs \cup ServerPcs] /\ contended' \in BOOLEAN
        <4>1. CASE Consistent(data) /\ Move(s, "off", "opening")
          BY <4>1
        <4>2. CASE ~Consistent(data) /\ Move(s, "off", "checking")
          BY <4>2
        <4>3. QED
          BY <2>9, <4>1, <4>2 DEF ChecksIndex
      <3>3. QED
        BY ONLY TypeOK, <3>1, <3>2 DEF TypeOK
    <2>10. ASSUME NEW s \in Servers, FindsSnapshot(s) PROVE TypeOK'
      BY <2>10 DEF FindsSnapshot
    <2>11. ASSUME NEW s \in Servers, NoSnapshot(s) PROVE TypeOK'
      BY <2>11 DEF NoSnapshot
    <2>12. ASSUME NEW s \in Servers, Restores(s) PROVE TypeOK'
      BY <2>12 DEF Restores
    <2>13. ASSUME NEW s \in Servers, Restored(s) PROVE TypeOK'
      BY <2>13 DEF Restored
    <2>14. ASSUME NEW s \in Servers, RestoreFails(s) PROVE TypeOK'
      BY <2>14 DEF RestoreFails
    <2>15. ASSUME NEW s \in Servers, Opens(s) PROVE TypeOK'
      BY <2>15 DEF Opens
    <2>16. ASSUME NEW s \in Servers, Serves(s) PROVE TypeOK'
      BY <2>16 DEF Serves
    <2>17. ASSUME NEW s \in Servers, ShutsDown(s) PROVE TypeOK'
      BY <2>17 DEF ShutsDown
    <2>18. ASSUME NEW p \in Procs, Dies(p) PROVE TypeOK'
      BY <2>18 DEF Dies
    <2>19. OperatorRemoves => TypeOK'
      <3> SUFFICES ASSUME OperatorRemoves PROVE TypeOK'
        OBVIOUS
      <3>1. data' \in Dirs
        BY DEF OperatorRemoves, Dirs
      <3>2. snap' \in Dirs
        BY DEF OperatorRemoves, Dirs
      <3>3. QED
        BY <3>1, <3>2 DEF OperatorRemoves, TypeOK
    <2> HIDE DEF Move, TypeOK, Dirs, Procs, NoTensor, Torn, LoaderPcs, ServerPcs, Nowhere, Fresh, Mark, Unmark,
            BeginCopy, EndCopy
    <2>20. QED
      BY <1>2, <2>1, <2>2, <2>3, <2>4, <2>5, <2>6, <2>7, <2>8, <2>9, <2>10,
         <2>11, <2>12, <2>13, <2>14, <2>15, <2>16, <2>17, <2>18, <2>19, NextCases
  <1>3. QED
    BY <1>1, <1>2

LEMMA NextRole == TypeOK /\ RoleInv /\ [Next]_vars => RoleInv'
  <1> SUFFICES ASSUME TypeOK /\ RoleInv, [Next]_vars PROVE RoleInv'
    OBVIOUS
  <1>1. CASE UNCHANGED vars
    BY <1>1 DEF vars, RoleInv, TypeOK, Dirs, Procs, NoTensor, Torn, LoaderPcs, ServerPcs, Nowhere, Fresh, Mark, Unmark,
            BeginCopy, EndCopy
  <1>2. CASE Next
    <2> USE LifecycleAssumption DEF Move, RoleInv, TypeOK, Dirs, Procs, NoTensor, Torn, LoaderPcs, ServerPcs, Nowhere, Fresh, Mark, Unmark,
            BeginCopy, EndCopy
    <2>1. LoaderCreates => RoleInv'
      BY DEF LoaderCreates
    <2>2. LoaderCloses => RoleInv'
      BY DEF LoaderCloses
    <2>3. LoaderOpens => RoleInv'
      BY DEF LoaderOpens
    <2>4. LoadsBatch => RoleInv'
      BY DEF LoadsBatch
    <2>5. LoaderDone => RoleInv'
      BY DEF LoaderDone
    <2>6. LoaderCopies => RoleInv'
      BY DEF LoaderCopies
    <2>7. LoaderFinishes => RoleInv'
      BY DEF LoaderFinishes
    <2>8. CopyFails => RoleInv'
      BY DEF CopyFails
    <2>9. ASSUME NEW s \in Servers, ChecksIndex(s) PROVE RoleInv'
      BY <2>9 DEF ChecksIndex
    <2>10. ASSUME NEW s \in Servers, FindsSnapshot(s) PROVE RoleInv'
      BY <2>10 DEF FindsSnapshot
    <2>11. ASSUME NEW s \in Servers, NoSnapshot(s) PROVE RoleInv'
      BY <2>11 DEF NoSnapshot
    <2>12. ASSUME NEW s \in Servers, Restores(s) PROVE RoleInv'
      BY <2>12 DEF Restores
    <2>13. ASSUME NEW s \in Servers, Restored(s) PROVE RoleInv'
      BY <2>13 DEF Restored
    <2>14. ASSUME NEW s \in Servers, RestoreFails(s) PROVE RoleInv'
      BY <2>14 DEF RestoreFails
    <2>15. ASSUME NEW s \in Servers, Opens(s) PROVE RoleInv'
      BY <2>15 DEF Opens
    <2>16. ASSUME NEW s \in Servers, Serves(s) PROVE RoleInv'
      BY <2>16 DEF Serves
    <2>17. ASSUME NEW s \in Servers, ShutsDown(s) PROVE RoleInv'
      BY <2>17 DEF ShutsDown
    <2>18. ASSUME NEW p \in Procs, Dies(p) PROVE RoleInv'
      BY <2>18 DEF Dies
    <2>19. OperatorRemoves => RoleInv'
      BY DEF OperatorRemoves
    <2> HIDE DEF Move, RoleInv, TypeOK, Dirs, Procs, NoTensor, Torn, LoaderPcs, ServerPcs, Nowhere, Fresh, Mark, Unmark,
            BeginCopy, EndCopy
    <2>20. QED
      BY <1>2, <2>1, <2>2, <2>3, <2>4, <2>5, <2>6, <2>7, <2>8, <2>9, <2>10,
         <2>11, <2>12, <2>13, <2>14, <2>15, <2>16, <2>17, <2>18, <2>19, NextCases
  <1>3. QED
    BY <1>1, <1>2

LEMMA NextTaken == TypeOK /\ RoleInv /\ TakenInv /\ [Next]_vars => TakenInv'
  <1> SUFFICES ASSUME TypeOK /\ RoleInv /\ TakenInv, [Next]_vars PROVE TakenInv'
    OBVIOUS
  <1>1. CASE UNCHANGED vars
    BY <1>1 DEF vars, TakenInv, RoleInv, TypeOK, Dirs, Procs, NoTensor, Torn, LoaderPcs, ServerPcs, Nowhere, Fresh, Mark, Unmark,
            BeginCopy, EndCopy, Consistent
  <1>2. CASE Next
    <2> USE LifecycleAssumption DEF Move, TakenInv, RoleInv, TypeOK, Dirs, Procs, NoTensor, Torn, LoaderPcs, ServerPcs, Nowhere, Fresh, Mark, Unmark,
            BeginCopy, EndCopy, Consistent
    <2>1. LoaderCreates => TakenInv'
      BY DEF LoaderCreates
    <2>2. LoaderCloses => TakenInv'
      BY DEF LoaderCloses
    <2>3. LoaderOpens => TakenInv'
      BY DEF LoaderOpens
    <2>4. LoadsBatch => TakenInv'
      BY DEF LoadsBatch
    <2>5. LoaderDone => TakenInv'
      BY DEF LoaderDone
    <2>6. LoaderCopies => TakenInv'
      BY DEF LoaderCopies
    <2>7. LoaderFinishes => TakenInv'
      BY DEF LoaderFinishes
    <2>8. CopyFails => TakenInv'
      BY DEF CopyFails
    <2>9. ASSUME NEW s \in Servers, ChecksIndex(s) PROVE TakenInv'
      BY <2>9 DEF ChecksIndex
    <2>10. ASSUME NEW s \in Servers, FindsSnapshot(s) PROVE TakenInv'
      BY <2>10 DEF FindsSnapshot
    <2>11. ASSUME NEW s \in Servers, NoSnapshot(s) PROVE TakenInv'
      BY <2>11 DEF NoSnapshot
    <2>12. ASSUME NEW s \in Servers, Restores(s) PROVE TakenInv'
      BY <2>12 DEF Restores
    <2>13. ASSUME NEW s \in Servers, Restored(s) PROVE TakenInv'
      BY <2>13 DEF Restored
    <2>14. ASSUME NEW s \in Servers, RestoreFails(s) PROVE TakenInv'
      BY <2>14 DEF RestoreFails
    <2>15. ASSUME NEW s \in Servers, Opens(s) PROVE TakenInv'
      BY <2>15 DEF Opens
    <2>16. ASSUME NEW s \in Servers, Serves(s) PROVE TakenInv'
      BY <2>16 DEF Serves
    <2>17. ASSUME NEW s \in Servers, ShutsDown(s) PROVE TakenInv'
      BY <2>17 DEF ShutsDown
    <2>18. ASSUME NEW p \in Procs, Dies(p) PROVE TakenInv'
      BY <2>18 DEF Dies
    <2>19. OperatorRemoves => TakenInv'
      BY DEF OperatorRemoves
    <2> HIDE DEF Move, TakenInv, RoleInv, TypeOK, Dirs, Procs, NoTensor, Torn, LoaderPcs, ServerPcs, Nowhere, Fresh, Mark, Unmark,
            BeginCopy, EndCopy, Consistent
    <2>20. QED
      BY <1>2, <2>1, <2>2, <2>3, <2>4, <2>5, <2>6, <2>7, <2>8, <2>9, <2>10,
         <2>11, <2>12, <2>13, <2>14, <2>15, <2>16, <2>17, <2>18, <2>19, NextCases
  <1>3. QED
    BY <1>1, <1>2

LEMMA NextData == TypeOK /\ RoleInv /\ TakenInv /\ CleanInv /\ ~contended' /\ [Next]_vars => DataInv'
  <1> SUFFICES ASSUME TypeOK /\ RoleInv /\ TakenInv /\ CleanInv /\ ~contended', [Next]_vars PROVE DataInv'
    OBVIOUS
  <1>1. CASE UNCHANGED vars
    BY <1>1 DEF vars, CleanInv, DataInv, SnapInv, RoleInv, TakenInv,
            Conflict, DataWriters, DataUsers, SnapUsers, TypeOK, Dirs, Procs, NoTensor, Torn, LoaderPcs, ServerPcs, Nowhere, Fresh, Mark, Unmark,
            BeginCopy, EndCopy, Consistent
  <1>2. CASE Next
    <2> USE LifecycleAssumption DEF Move, CleanInv, DataInv, SnapInv, RoleInv, TakenInv,
            Conflict, DataWriters, DataUsers, SnapUsers, TypeOK, Dirs, Procs, NoTensor, Torn, LoaderPcs, ServerPcs, Nowhere, Fresh, Mark, Unmark,
            BeginCopy, EndCopy, Consistent
    <2>1. LoaderCreates => DataInv'
      BY DEF LoaderCreates
    <2>2. LoaderCloses => DataInv'
      BY DEF LoaderCloses
    <2>3. LoaderOpens => DataInv'
      BY DEF LoaderOpens
    <2>4. LoadsBatch => DataInv'
      BY DEF LoadsBatch
    <2>5. LoaderDone => DataInv'
      BY DEF LoaderDone
    <2>6. LoaderCopies => DataInv'
      BY DEF LoaderCopies
    <2>7. LoaderFinishes => DataInv'
      BY DEF LoaderFinishes
    <2>8. CopyFails => DataInv'
      BY DEF CopyFails
    <2>9. ASSUME NEW s \in Servers, ChecksIndex(s) PROVE DataInv'
      BY <2>9 DEF ChecksIndex
    <2>10. ASSUME NEW s \in Servers, FindsSnapshot(s) PROVE DataInv'
      BY <2>10 DEF FindsSnapshot
    <2>11. ASSUME NEW s \in Servers, NoSnapshot(s) PROVE DataInv'
      BY <2>11 DEF NoSnapshot
    <2>12. ASSUME NEW s \in Servers, Restores(s) PROVE DataInv'
      BY <2>12 DEF Restores
    <2>13. ASSUME NEW s \in Servers, Restored(s) PROVE DataInv'
      BY <2>13 DEF Restored
    <2>14. ASSUME NEW s \in Servers, RestoreFails(s) PROVE DataInv'
      BY <2>14 DEF RestoreFails
    <2>15. ASSUME NEW s \in Servers, Opens(s) PROVE DataInv'
      BY <2>15 DEF Opens
    <2>16. ASSUME NEW s \in Servers, Serves(s) PROVE DataInv'
      BY <2>16 DEF Serves
    <2>17. ASSUME NEW s \in Servers, ShutsDown(s) PROVE DataInv'
      BY <2>17 DEF ShutsDown
    <2>18. ASSUME NEW p \in Procs, Dies(p) PROVE DataInv'
      <3>1. CASE p \notin DataWriters
        <4>1. data' = data
          BY <2>18, <3>1 DEF Dies
        <4>2. \A q \in Procs : pc'[q] \in {pc[q], "off"}
          BY <2>18 DEF Dies
        <4>3. QED
          BY <4>1, <4>2
      <3>2. CASE p \in DataWriters
        <4>1. \A q \in Procs : q # p => q \notin DataUsers
          BY <3>2
        <4>2. \A q \in Procs : pc'[q] = IF q = p THEN "off" ELSE pc[q]
          BY <2>18 DEF Dies
        <4>3. data' = [data EXCEPT !.content = Torn] /\ ~data.marked
          BY <2>18, <3>2 DEF Dies
        <4>4. pc'[Loader] \notin {"creating", "loading", "copying"}
          BY <4>1, <4>2
        <4>5. \A s \in Servers : pc'[s] \notin {"opened", "serving", "restoring"}
          BY <4>1, <4>2
        <4>6. QED
          BY <4>3, <4>4, <4>5
      <3>3. QED
        BY <3>1, <3>2
    <2>19. OperatorRemoves => DataInv'
      BY DEF OperatorRemoves
    <2> HIDE DEF Move, CleanInv, DataInv, SnapInv, RoleInv, TakenInv,
            Conflict, DataWriters, DataUsers, SnapUsers, TypeOK, Dirs, Procs, NoTensor, Torn, LoaderPcs, ServerPcs, Nowhere, Fresh, Mark, Unmark,
            BeginCopy, EndCopy, Consistent
    <2>20. QED
      BY <1>2, <2>1, <2>2, <2>3, <2>4, <2>5, <2>6, <2>7, <2>8, <2>9, <2>10,
         <2>11, <2>12, <2>13, <2>14, <2>15, <2>16, <2>17, <2>18, <2>19, NextCases
  <1>3. QED
    BY <1>1, <1>2

LEMMA NextSnap == TypeOK /\ RoleInv /\ TakenInv /\ CleanInv /\ ~contended' /\ [Next]_vars => SnapInv'
  <1> SUFFICES ASSUME TypeOK /\ RoleInv /\ TakenInv /\ CleanInv /\ ~contended', [Next]_vars PROVE SnapInv'
    OBVIOUS
  <1>1. CASE UNCHANGED vars
    BY <1>1 DEF vars, CleanInv, DataInv, SnapInv, RoleInv, Conflict,
            DataWriters, DataUsers, SnapUsers, TypeOK, Dirs, Procs, NoTensor, Torn, LoaderPcs, ServerPcs, Nowhere, Fresh, Mark, Unmark,
            BeginCopy, EndCopy, Consistent
  <1>2. CASE Next
    <2> USE LifecycleAssumption DEF Move, CleanInv, DataInv, SnapInv, RoleInv, Conflict,
            DataWriters, DataUsers, SnapUsers, TypeOK, Dirs, Procs, NoTensor, Torn, LoaderPcs, ServerPcs, Nowhere, Fresh, Mark, Unmark,
            BeginCopy, EndCopy, Consistent
    <2>1. LoaderCreates => SnapInv'
      BY DEF LoaderCreates
    <2>2. LoaderCloses => SnapInv'
      BY DEF LoaderCloses
    <2>3. LoaderOpens => SnapInv'
      BY DEF LoaderOpens
    <2>4. LoadsBatch => SnapInv'
      BY DEF LoadsBatch
    <2>5. LoaderDone => SnapInv'
      BY DEF LoaderDone
    <2>6. LoaderCopies => SnapInv'
      BY DEF LoaderCopies
    <2>7. LoaderFinishes => SnapInv'
      BY DEF LoaderFinishes
    <2>8. CopyFails => SnapInv'
      BY DEF CopyFails
    <2>9. ASSUME NEW s \in Servers, ChecksIndex(s) PROVE SnapInv'
      BY <2>9 DEF ChecksIndex
    <2>10. ASSUME NEW s \in Servers, FindsSnapshot(s) PROVE SnapInv'
      BY <2>10 DEF FindsSnapshot
    <2>11. ASSUME NEW s \in Servers, NoSnapshot(s) PROVE SnapInv'
      BY <2>11 DEF NoSnapshot
    <2>12. ASSUME NEW s \in Servers, Restores(s) PROVE SnapInv'
      BY <2>12 DEF Restores
    <2>13. ASSUME NEW s \in Servers, Restored(s) PROVE SnapInv'
      BY <2>13 DEF Restored
    <2>14. ASSUME NEW s \in Servers, RestoreFails(s) PROVE SnapInv'
      BY <2>14 DEF RestoreFails
    <2>15. ASSUME NEW s \in Servers, Opens(s) PROVE SnapInv'
      BY <2>15 DEF Opens
    <2>16. ASSUME NEW s \in Servers, Serves(s) PROVE SnapInv'
      BY <2>16 DEF Serves
    <2>17. ASSUME NEW s \in Servers, ShutsDown(s) PROVE SnapInv'
      BY <2>17 DEF ShutsDown
    <2>18. ASSUME NEW p \in Procs, Dies(p) PROVE SnapInv'
      BY <2>18 DEF Dies
    <2>19. OperatorRemoves => SnapInv'
      BY DEF OperatorRemoves
    <2> HIDE DEF Move, CleanInv, DataInv, SnapInv, RoleInv, Conflict,
            DataWriters, DataUsers, SnapUsers, TypeOK, Dirs, Procs, NoTensor, Torn, LoaderPcs, ServerPcs, Nowhere, Fresh, Mark, Unmark,
            BeginCopy, EndCopy, Consistent
    <2>20. QED
      BY <1>2, <2>1, <2>2, <2>3, <2>4, <2>5, <2>6, <2>7, <2>8, <2>9, <2>10,
         <2>11, <2>12, <2>13, <2>14, <2>15, <2>16, <2>17, <2>18, <2>19, NextCases
  <1>3. QED
    BY <1>1, <1>2

LEMMA NextOld == TypeOK /\ RoleInv /\ TakenInv /\ CleanInv /\ ~contended' /\ [Next]_vars => OldInv'
  <1> SUFFICES ASSUME TypeOK /\ RoleInv /\ TakenInv /\ CleanInv /\ ~contended', [Next]_vars PROVE OldInv'
    OBVIOUS
  <1>1. CASE UNCHANGED vars
    BY <1>1 DEF vars, CleanInv, DataInv, SnapInv, OldInv, RoleInv, TakenInv, Conflict,
            DataWriters, DataUsers, SnapUsers, TypeOK, Dirs, Procs, NoTensor, Torn, LoaderPcs, ServerPcs, Nowhere, Fresh, Mark, Unmark,
            BeginCopy, EndCopy, Consistent
  <1>2. CASE Next
    <2> USE LifecycleAssumption DEF Move, CleanInv, DataInv, SnapInv, OldInv, RoleInv, TakenInv, Conflict,
            DataWriters, DataUsers, SnapUsers, TypeOK, Dirs, Procs, NoTensor, Torn, LoaderPcs, ServerPcs, Nowhere, Fresh, Mark, Unmark,
            BeginCopy, EndCopy, Consistent
    <2>1. LoaderCreates => OldInv'
      BY DEF LoaderCreates
    <2>2. LoaderCloses => OldInv'
      BY DEF LoaderCloses
    <2>3. LoaderOpens => OldInv'
      BY DEF LoaderOpens
    <2>4. LoadsBatch => OldInv'
      BY DEF LoadsBatch
    <2>5. LoaderDone => OldInv'
      BY DEF LoaderDone
    <2>6. LoaderCopies => OldInv'
      BY DEF LoaderCopies
    <2>7. LoaderFinishes => OldInv'
      BY DEF LoaderFinishes
    <2>8. CopyFails => OldInv'
      BY DEF CopyFails
    <2>9. ASSUME NEW s \in Servers, ChecksIndex(s) PROVE OldInv'
      BY <2>9 DEF ChecksIndex
    <2>10. ASSUME NEW s \in Servers, FindsSnapshot(s) PROVE OldInv'
      BY <2>10 DEF FindsSnapshot
    <2>11. ASSUME NEW s \in Servers, NoSnapshot(s) PROVE OldInv'
      BY <2>11 DEF NoSnapshot
    <2>12. ASSUME NEW s \in Servers, Restores(s) PROVE OldInv'
      BY <2>12 DEF Restores
    <2>13. ASSUME NEW s \in Servers, Restored(s) PROVE OldInv'
      BY <2>13 DEF Restored
    <2>14. ASSUME NEW s \in Servers, RestoreFails(s) PROVE OldInv'
      BY <2>14 DEF RestoreFails
    <2>15. ASSUME NEW s \in Servers, Opens(s) PROVE OldInv'
      BY <2>15 DEF Opens
    <2>16. ASSUME NEW s \in Servers, Serves(s) PROVE OldInv'
      BY <2>16 DEF Serves
    <2>17. ASSUME NEW s \in Servers, ShutsDown(s) PROVE OldInv'
      BY <2>17 DEF ShutsDown
    <2>18. ASSUME NEW p \in Procs, Dies(p) PROVE OldInv'
      BY <2>18 DEF Dies
    <2>19. OperatorRemoves => OldInv'
      BY DEF OperatorRemoves
    <2> HIDE DEF Move, CleanInv, DataInv, SnapInv, OldInv, RoleInv, TakenInv, Conflict,
            DataWriters, DataUsers, SnapUsers, TypeOK, Dirs, Procs, NoTensor, Torn, LoaderPcs, ServerPcs, Nowhere, Fresh, Mark, Unmark,
            BeginCopy, EndCopy, Consistent
    <2>20. QED
      BY <1>2, <2>1, <2>2, <2>3, <2>4, <2>5, <2>6, <2>7, <2>8, <2>9, <2>10,
         <2>11, <2>12, <2>13, <2>14, <2>15, <2>16, <2>17, <2>18, <2>19, NextCases
  <1>3. QED
    BY <1>1, <1>2

LEMMA NextRecoverable == TypeOK /\ RoleInv /\ TakenInv /\ CleanInv /\ ~contended' /\ [Next]_vars => Recoverable'
  <1> SUFFICES ASSUME TypeOK /\ RoleInv /\ TakenInv /\ CleanInv /\ ~contended', [Next]_vars PROVE Recoverable'
    OBVIOUS
  <1>1. CASE UNCHANGED vars
    BY <1>1 DEF vars, CleanInv, SnapInv, RoleInv, TakenInv, Recoverable, Conflict,
            DataWriters, DataUsers, SnapUsers, TypeOK, Dirs, Procs, NoTensor, Torn, LoaderPcs, ServerPcs, Nowhere, Fresh, Mark, Unmark,
            BeginCopy, EndCopy, Consistent
  <1>2. CASE Next
    <2> USE LifecycleAssumption DEF Move, CleanInv, SnapInv, RoleInv, TakenInv, Recoverable, Conflict,
            DataWriters, DataUsers, SnapUsers, TypeOK, Dirs, Procs, NoTensor, Torn, LoaderPcs, ServerPcs, Nowhere, Fresh, Mark, Unmark,
            BeginCopy, EndCopy, Consistent
    <2>1. LoaderCreates => Recoverable'
      BY DEF LoaderCreates
    <2>2. LoaderCloses => Recoverable'
      BY DEF LoaderCloses
    <2>3. LoaderOpens => Recoverable'
      BY DEF LoaderOpens
    <2>4. LoadsBatch => Recoverable'
      BY DEF LoadsBatch
    <2>5. LoaderDone => Recoverable'
      BY DEF LoaderDone
    <2>6. LoaderCopies => Recoverable'
      BY DEF LoaderCopies
    <2>7. LoaderFinishes => Recoverable'
      BY DEF LoaderFinishes
    <2>8. CopyFails => Recoverable'
      BY DEF CopyFails
    <2>9. ASSUME NEW s \in Servers, ChecksIndex(s) PROVE Recoverable'
      BY <2>9 DEF ChecksIndex
    <2>10. ASSUME NEW s \in Servers, FindsSnapshot(s) PROVE Recoverable'
      BY <2>10 DEF FindsSnapshot
    <2>11. ASSUME NEW s \in Servers, NoSnapshot(s) PROVE Recoverable'
      BY <2>11 DEF NoSnapshot
    <2>12. ASSUME NEW s \in Servers, Restores(s) PROVE Recoverable'
      BY <2>12 DEF Restores
    <2>13. ASSUME NEW s \in Servers, Restored(s) PROVE Recoverable'
      BY <2>13 DEF Restored
    <2>14. ASSUME NEW s \in Servers, RestoreFails(s) PROVE Recoverable'
      BY <2>14 DEF RestoreFails
    <2>15. ASSUME NEW s \in Servers, Opens(s) PROVE Recoverable'
      BY <2>15 DEF Opens
    <2>16. ASSUME NEW s \in Servers, Serves(s) PROVE Recoverable'
      BY <2>16 DEF Serves
    <2>17. ASSUME NEW s \in Servers, ShutsDown(s) PROVE Recoverable'
      BY <2>17 DEF ShutsDown
    <2>18. ASSUME NEW p \in Procs, Dies(p) PROVE Recoverable'
      BY <2>18 DEF Dies
    <2>19. OperatorRemoves => Recoverable'
      BY DEF OperatorRemoves
    <2> HIDE DEF Move, CleanInv, SnapInv, RoleInv, TakenInv, Recoverable, Conflict,
            DataWriters, DataUsers, SnapUsers, TypeOK, Dirs, Procs, NoTensor, Torn, LoaderPcs, ServerPcs, Nowhere, Fresh, Mark, Unmark,
            BeginCopy, EndCopy, Consistent
    <2>20. QED
      BY <1>2, <2>1, <2>2, <2>3, <2>4, <2>5, <2>6, <2>7, <2>8, <2>9, <2>10,
         <2>11, <2>12, <2>13, <2>14, <2>15, <2>16, <2>17, <2>18, <2>19, NextCases
  <1>3. QED
    BY <1>1, <1>2

LEMMA NextConflict == TypeOK /\ [Next]_vars /\ ~contended' => ~Conflict' \/ UNCHANGED vars
  <1> SUFFICES ASSUME TypeOK, [Next]_vars, ~contended' PROVE ~Conflict' \/ UNCHANGED vars
    OBVIOUS
  <1>1. ASSUME NEW p, NEW f, NEW t, Move(p, f, t) PROVE ~Conflict'
    BY <1>1 DEF Move
  <1>2. CASE OperatorRemoves
    BY <1>2 DEF OperatorRemoves, Conflict, DataWriters, DataUsers, SnapUsers, Procs
  <1>3. QED
    BY <1>1, <1>2 DEF Next, LoaderStep, ServerStep, Dies,
       LoaderCreates, LoaderCloses, LoaderOpens, LoadsBatch, LoaderDone, LoaderCopies,
       LoaderFinishes, CopyFails, ChecksIndex, FindsSnapshot, NoSnapshot, Restores,
       Restored, RestoreFails, Opens, Serves, ShutsDown

\* contended is never taken back.
LEMMA ContendedStays == TypeOK /\ [Next]_vars /\ contended => contended'
  <1> SUFFICES ASSUME TypeOK, [Next]_vars, contended PROVE contended'
    OBVIOUS
  <1>1. ASSUME NEW p, NEW f, NEW t, Move(p, f, t) PROVE contended'
    BY <1>1 DEF Move
  <1>2. QED
    BY <1>1 DEF vars, Next, LoaderStep, ServerStep, Dies, OperatorRemoves,
       LoaderCreates, LoaderCloses, LoaderOpens, LoadsBatch, LoaderDone, LoaderCopies,
       LoaderFinishes, CopyFails, ChecksIndex, FindsSnapshot, NoSnapshot, Restores,
       Restored, RestoreFails, Opens, Serves, ShutsDown

LEMMA InitInv == Init => IInv
  <1> SUFFICES ASSUME Init PROVE IInv
    OBVIOUS
  <1>1. \A p \in Procs : pc[p] = "off"
    BY DEF Init
  <1>2. Loader \in Procs /\ Servers \subseteq Procs
    BY DEF Procs
  <1>3. data \in Dirs /\ ~Consistent(data) /\ snap = data
    BY DEF Init, Nowhere, Dirs, Consistent, NoTensor
  <1>4. TypeOK
    BY <1>3 DEF Init, TypeOK
  <1>5. RoleInv /\ TakenInv
    BY <1>1, <1>2 DEF Init, RoleInv, TakenInv
  <1>6. ~Conflict
    BY <1>1, <1>2 DEF Conflict, DataWriters, DataUsers, SnapUsers
  <1>7. DataInv /\ SnapInv /\ OldInv /\ Recoverable
    BY <1>1, <1>2, <1>3 DEF Init, DataInv, SnapInv, OldInv, Recoverable
  <1>8. QED
    BY <1>4, <1>5, <1>6, <1>7 DEF IInv, CleanInv

LEMMA NextInv == IInv /\ [Next]_vars => IInv'
  <1> SUFFICES ASSUME IInv, [Next]_vars PROVE IInv'
    OBVIOUS
  <1>1. TypeOK' /\ RoleInv' /\ TakenInv'
    BY NextType, NextRole, NextTaken DEF IInv
  <1>2. ASSUME ~contended' PROVE CleanInv'
    <2>1. ~contended /\ CleanInv
      BY <1>2, ContendedStays DEF IInv
    <2>2. DataInv' /\ SnapInv' /\ OldInv' /\ Recoverable'
      BY <1>2, <2>1, NextData, NextSnap, NextOld, NextRecoverable DEF IInv
    <2>3. ~Conflict'
      BY <1>2, <2>1, NextConflict
         DEF IInv, CleanInv, vars, Conflict, DataWriters, DataUsers, SnapUsers
    <2>4. QED
      BY <2>2, <2>3 DEF CleanInv
  <1>3. QED
    BY <1>1, <1>2 DEF IInv

\* The strengthening holds however the programs overlap and die.
THEOREM Invariance == Spec => []IInv
  <1>1. QED
    BY InitInv, NextInv, PTL DEF Spec

\* Every variable keeps its type.
THEOREM TypeCorrect == Spec => []TypeOK
  BY Invariance, PTL DEF IInv

\* A server serves whole indexes only.
THEOREM OnlyWholeIndexesAreServed == Spec => []ServesWhole
  <1>1. IInv => ServesWhole
    BY DEF IInv, CleanInv, DataInv, ServesWhole
  <1>2. QED
    BY <1>1, Invariance, PTL

\* Snapshots that carry the mark are whole.
THEOREM SnapshotsAreWhole == Spec => []SnapshotWhole
  <1>1. IInv => SnapshotWhole
    BY DEF IInv, CleanInv, SnapInv, SnapshotWhole
  <1>2. QED
    BY <1>1, Invariance, PTL

\* There is always something to recover from, but for an interrupted
\* reconstruction.
THEOREM AlwaysRecoverable == Spec => []Recoverable
  <1>1. IInv => Recoverable
    BY DEF IInv, CleanInv, Recoverable
  <1>2. QED
    BY <1>1, Invariance, PTL

\* An index built from an older file is not served once the loader has finished
\* with a new one.
THEOREM OldIndexesAreNotServed == Spec => []ServesCurrent
  <1>1. IInv => ServesCurrent
    BY DEF IInv, CleanInv, OldInv, ServesCurrent
  <1>2. QED
    BY <1>1, Invariance, PTL
=============================================================================
