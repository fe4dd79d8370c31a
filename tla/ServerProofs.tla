----------------------------- MODULE ServerProofs -----------------------------
(***************************************************************************)
(* The guarantees of Server for any number of connections, workers and I/O *)
(* threads.  The bound on the tasks is not inductive by itself: a handler  *)
(* that has passed the check will submit a task, so it counts as one, and  *)
(* there are no more handlers at work than I/O threads.                    *)
(***************************************************************************)
EXTENDS Server, FiniteSetTheorems, TLAPS

Admitted == {c \in Conns : conn[c] = "checked"}

CountInv == num_topologies = Cardinality(Live)

PoolInv == Cardinality(Handling) <= PoolSize

AdmissionInv == num_topologies + Cardinality(Admitted) <= Workers - 1 + PoolSize

\* The shutdown: after wait_for_all() all tasks are late ones, after join no
\* handler runs that could submit another.
MainInv == /\ waited <=> main \in {"join", "destroyed", "closed"}
           /\ waited => Live \subseteq late
           /\ main \in {"destroyed", "closed"} => Handling = {}
           /\ main = "closed" => Live = {}

IInv == /\ TypeOK
        /\ CountInv
        /\ PoolInv
        /\ AdmissionInv
        /\ OneTaskPerConnection
        /\ MainInv

-----------------------------------------------------------------------------
\* The steps of the server, one by one.
LEMMA NextCases ==
    ASSUME NEW P, Next,
           \A c \in Conns : Connect(c) => P,
           \A c \in Conns : Disconnect(c) => P,
           \A c \in Conns : Request(c) => P,
           \A c \in Conns : RequestTimeout(c) => P,
           \A c \in Conns : NotFound(c) => P,
           \A c \in Conns : CheckAdmits(c) => P,
           \A c \in Conns : Reject(c) => P,
           \A c \in Conns, i \in Tasks : Submit(c, i) => P,
           \A i \in Tasks : Start(i) => P,
           \A i \in Tasks : Respond(i) => P,
           \A i \in Tasks : TimeoutThrows(i) => P,
           \A i \in Tasks : Finish(i) => P,
           (SignalEarly) => P,
           (Signal) => P,
           (InstallHandlers) => P,
           (SeesNoSignal) => P,
           (Pause) => P,
           (Stop) => P,
           (Cleanup) => P,
           (Join) => P,
           (Close) => P
    PROVE  P
BY DEF Next, HttpStep, TaskStep, MainStep

\* The sets the invariants count are finite.
LEMMA Finite == /\ IsFiniteSet(Live)
                /\ Cardinality(Live) \in Nat
                /\ IsFiniteSet(Handling)
                /\ Cardinality(Handling) \in Nat
                /\ IsFiniteSet(Admitted)
                /\ Cardinality(Admitted) \in Nat
                /\ Cardinality(Admitted) <= Cardinality(Handling)
<1>1. IsFiniteSet(Conns) /\ IsFiniteSet(Tasks)
  BY ServerAssumption
<1>2. IsFiniteSet(Live)
  BY <1>1, FS_Subset, Live \in SUBSET Tasks DEF Live
<1>3. IsFiniteSet(Handling)
  BY <1>1, FS_Subset, Handling \in SUBSET Conns DEF Handling
<1>4. Admitted \in SUBSET Handling
  BY DEF Admitted, Handling
<1>5. IsFiniteSet(Admitted) /\ Cardinality(Admitted) <= Cardinality(Handling)
  BY <1>3, <1>4, FS_Subset
<1> QED
  BY <1>2, <1>3, <1>5, FS_CardinalityType

\* Every step keeps the types.
LEMMA TypeStep == TypeOK /\ CountInv /\ Next => TypeOK'
<1> SUFFICES ASSUME TypeOK, CountInv, Next
             PROVE  TypeOK'
  OBVIOUS
<1>1. ASSUME NEW c \in Conns, Connect(c)
      PROVE  TypeOK'
  BY <1>1 DEF Connect, TypeOK, ConnStates, TaskStates, MainStates, SetConn, SetTask, http, exec, ctrl
<1>2. ASSUME NEW c \in Conns, Disconnect(c)
      PROVE  TypeOK'
  BY <1>2 DEF Disconnect, TypeOK, ConnStates, TaskStates, MainStates, SetConn, SetTask, http, exec, ctrl
<1>3. ASSUME NEW c \in Conns, Request(c)
      PROVE  TypeOK'
  BY <1>3 DEF Request, TypeOK, ConnStates, TaskStates, MainStates, SetConn, SetTask, http, exec, ctrl
<1>4. ASSUME NEW c \in Conns, RequestTimeout(c)
      PROVE  TypeOK'
  BY <1>4 DEF RequestTimeout, TypeOK, ConnStates, TaskStates, MainStates, SetConn, SetTask, http, exec, ctrl
<1>5. ASSUME NEW c \in Conns, NotFound(c)
      PROVE  TypeOK'
  BY <1>5 DEF NotFound, TypeOK, ConnStates, TaskStates, MainStates, SetConn, SetTask, http, exec, ctrl
<1>6. ASSUME NEW c \in Conns, CheckAdmits(c)
      PROVE  TypeOK'
  BY <1>6 DEF CheckAdmits, TypeOK, ConnStates, TaskStates, MainStates, SetConn, SetTask, http, exec, ctrl
<1>7. ASSUME NEW c \in Conns, Reject(c)
      PROVE  TypeOK'
  BY <1>7 DEF Reject, TypeOK, ConnStates, TaskStates, MainStates, SetConn, SetTask, http, exec, ctrl
<1>8. ASSUME NEW c \in Conns, NEW i \in Tasks, Submit(c, i)
      PROVE  TypeOK'
  BY <1>8 DEF Submit, TypeOK, ConnStates, TaskStates, MainStates, SetConn, SetTask, http, exec, ctrl
<1>9. ASSUME NEW i \in Tasks, Start(i)
      PROVE  TypeOK'
  BY <1>9 DEF Start, TypeOK, ConnStates, TaskStates, MainStates, SetConn, SetTask, http, exec, ctrl
<1>10. ASSUME NEW i \in Tasks, Respond(i)
      PROVE  TypeOK'
  BY <1>10 DEF Respond, TypeOK, ConnStates, TaskStates, MainStates, SetConn, SetTask, http, exec, ctrl
<1>11. ASSUME NEW i \in Tasks, TimeoutThrows(i)
      PROVE  TypeOK'
  BY <1>11 DEF TimeoutThrows, TypeOK, ConnStates, TaskStates, MainStates, SetConn, SetTask, http, exec, ctrl
<1>12. ASSUME NEW i \in Tasks, Finish(i)
      PROVE  TypeOK'
  <2>1. i \in Live
    BY <1>12 DEF Finish, Live
  <2>2. Cardinality(Live) # 0
    BY <2>1, Finite, FS_EmptySet
  <2>3. num_topologies - 1 \in Nat
    BY <2>2, Finite DEF CountInv
  <2> QED
    BY <1>12, <2>3 DEF Finish, TypeOK, TaskStates, SetTask, http, ctrl
<1>13. ASSUME SignalEarly
      PROVE  TypeOK'
  BY <1>13 DEF SignalEarly, TypeOK, ConnStates, TaskStates, MainStates, SetConn, SetTask, http, exec, ctrl
<1>14. ASSUME Signal
      PROVE  TypeOK'
  BY <1>14 DEF Signal, TypeOK, ConnStates, TaskStates, MainStates, SetConn, SetTask, http, exec, ctrl
<1>15. ASSUME InstallHandlers
      PROVE  TypeOK'
  BY <1>15 DEF InstallHandlers, TypeOK, ConnStates, TaskStates, MainStates, SetConn, SetTask, http, exec, ctrl
<1>16. ASSUME SeesNoSignal
      PROVE  TypeOK'
  BY <1>16 DEF SeesNoSignal, TypeOK, ConnStates, TaskStates, MainStates, SetConn, SetTask, http, exec, ctrl
<1>17. ASSUME Pause
      PROVE  TypeOK'
  BY <1>17 DEF Pause, TypeOK, ConnStates, TaskStates, MainStates, SetConn, SetTask, http, exec, ctrl
<1>18. ASSUME Stop
      PROVE  TypeOK'
  BY <1>18 DEF Stop, TypeOK, ConnStates, TaskStates, MainStates, SetConn, SetTask, http, exec, ctrl
<1>19. ASSUME Cleanup
      PROVE  TypeOK'
  BY <1>19 DEF Cleanup, TypeOK, ConnStates, TaskStates, MainStates, SetConn, SetTask, http, exec, ctrl
<1>20. ASSUME Join
      PROVE  TypeOK'
  BY <1>20 DEF Join, TypeOK, ConnStates, TaskStates, MainStates, SetConn, SetTask, http, exec, ctrl
<1>21. ASSUME Close
      PROVE  TypeOK'
  BY <1>21 DEF Close, TypeOK, ConnStates, TaskStates, MainStates, SetConn, SetTask, http, exec, ctrl
<1> QED
  BY <1>1, <1>2, <1>3, <1>4, <1>5, <1>6, <1>7, <1>8, <1>9, <1>10, <1>11, <1>12, <1>13, <1>14, <1>15, <1>16, <1>17, <1>18, <1>19, <1>20, <1>21, NextCases

\* The executor's count is the number of tasks.
LEMMA CountStep == TypeOK /\ CountInv /\ Next => CountInv'
<1> SUFFICES ASSUME TypeOK, CountInv, Next
             PROVE  CountInv'
  OBVIOUS
<1>1. ASSUME NEW c \in Conns, Connect(c)
      PROVE  CountInv'
  BY <1>1 DEF Connect, CountInv, TypeOK, Live, SetTask, exec, http, ctrl
<1>2. ASSUME NEW c \in Conns, Disconnect(c)
      PROVE  CountInv'
  BY <1>2 DEF Disconnect, CountInv, TypeOK, Live, SetTask, exec, http, ctrl
<1>3. ASSUME NEW c \in Conns, Request(c)
      PROVE  CountInv'
  BY <1>3 DEF Request, CountInv, TypeOK, Live, SetTask, exec, http, ctrl
<1>4. ASSUME NEW c \in Conns, RequestTimeout(c)
      PROVE  CountInv'
  BY <1>4 DEF RequestTimeout, CountInv, TypeOK, Live, SetTask, exec, http, ctrl
<1>5. ASSUME NEW c \in Conns, NotFound(c)
      PROVE  CountInv'
  BY <1>5 DEF NotFound, CountInv, TypeOK, Live, SetTask, exec, http, ctrl
<1>6. ASSUME NEW c \in Conns, CheckAdmits(c)
      PROVE  CountInv'
  BY <1>6 DEF CheckAdmits, CountInv, TypeOK, Live, SetTask, exec, http, ctrl
<1>7. ASSUME NEW c \in Conns, Reject(c)
      PROVE  CountInv'
  BY <1>7 DEF Reject, CountInv, TypeOK, Live, SetTask, exec, http, ctrl
<1>8. ASSUME NEW c \in Conns, NEW i \in Tasks, Submit(c, i)
      PROVE  CountInv'
  <2>1. i \notin Live
    BY <1>8 DEF Submit, Live
  <2>2. Live' = Live \cup {i}
    BY <1>8 DEF Submit, SetTask, Live, TypeOK
  <2>3. Cardinality(Live') = Cardinality(Live) + 1
    BY <2>1, <2>2, Finite, FS_AddElement
  <2> QED
    BY <1>8, <2>3 DEF Submit, CountInv
<1>9. ASSUME NEW i \in Tasks, Start(i)
      PROVE  CountInv'
  <2>1. Live' = Live
    BY <1>9 DEF Start, SetTask, Live, TypeOK
  <2> QED
    BY <1>9, <2>1 DEF Start, CountInv
<1>10. ASSUME NEW i \in Tasks, Respond(i)
      PROVE  CountInv'
  <2>1. Live' = Live
    BY <1>10 DEF Respond, SetTask, Live, TypeOK
  <2> QED
    BY <1>10, <2>1 DEF Respond, CountInv
<1>11. ASSUME NEW i \in Tasks, TimeoutThrows(i)
      PROVE  CountInv'
  BY <1>11 DEF TimeoutThrows, CountInv, TypeOK, Live, SetTask, exec, http, ctrl
<1>12. ASSUME NEW i \in Tasks, Finish(i)
      PROVE  CountInv'
  <2>1. i \in Live
    BY <1>12 DEF Finish, Live
  <2>2. Live' = Live \ {i}
    BY <1>12 DEF Finish, SetTask, Live, TypeOK
  <2>3. Cardinality(Live') = Cardinality(Live) - 1
    BY <2>1, <2>2, Finite, FS_RemoveElement
  <2> QED
    BY <1>12, <2>3 DEF Finish, CountInv
<1>13. ASSUME SignalEarly
      PROVE  CountInv'
  BY <1>13 DEF SignalEarly, CountInv, TypeOK, Live, SetTask, exec, http, ctrl
<1>14. ASSUME Signal
      PROVE  CountInv'
  BY <1>14 DEF Signal, CountInv, TypeOK, Live, SetTask, exec, http, ctrl
<1>15. ASSUME InstallHandlers
      PROVE  CountInv'
  BY <1>15 DEF InstallHandlers, CountInv, TypeOK, Live, SetTask, exec, http, ctrl
<1>16. ASSUME SeesNoSignal
      PROVE  CountInv'
  BY <1>16 DEF SeesNoSignal, CountInv, TypeOK, Live, SetTask, exec, http, ctrl
<1>17. ASSUME Pause
      PROVE  CountInv'
  BY <1>17 DEF Pause, CountInv, TypeOK, Live, SetTask, exec, http, ctrl
<1>18. ASSUME Stop
      PROVE  CountInv'
  BY <1>18 DEF Stop, CountInv, TypeOK, Live, SetTask, exec, http, ctrl
<1>19. ASSUME Cleanup
      PROVE  CountInv'
  BY <1>19 DEF Cleanup, CountInv, TypeOK, Live, SetTask, exec, http, ctrl
<1>20. ASSUME Join
      PROVE  CountInv'
  BY <1>20 DEF Join, CountInv, TypeOK, Live, SetTask, exec, http, ctrl
<1>21. ASSUME Close
      PROVE  CountInv'
  BY <1>21 DEF Close, CountInv, TypeOK, Live, SetTask, exec, http, ctrl
<1> QED
  BY <1>1, <1>2, <1>3, <1>4, <1>5, <1>6, <1>7, <1>8, <1>9, <1>10, <1>11, <1>12, <1>13, <1>14, <1>15, <1>16, <1>17, <1>18, <1>19, <1>20, <1>21, NextCases

\* The number of handlers at work is a number in the next state as well.
LEMMA HandlingNat == Cardinality(Handling)' \in Nat /\ IsFiniteSet(Handling')
<1>1. IsFiniteSet(Handling')
  BY ServerAssumption, FS_Subset, Handling' \in SUBSET Conns DEF Handling
<1> QED
  BY <1>1, FS_CardinalityType

LEMMA PoolNat == PoolSize \in Nat /\ Workers \in Nat /\ PoolSize >= 1 /\ Workers >= 1
BY ServerAssumption

\* There are no more handlers at work than I/O threads.
LEMMA PoolStep == TypeOK /\ PoolInv /\ Next => PoolInv'
<1> SUFFICES ASSUME TypeOK, PoolInv, Next
             PROVE  PoolInv'
  OBVIOUS
<1>1. ASSUME NEW c \in Conns, Connect(c)
      PROVE  PoolInv'
  <2>1. Handling' \subseteq Handling
    BY <1>1 DEF Connect, Handling, SetConn, TypeOK, http, ctrl
  <2>2. Cardinality(Handling') <= Cardinality(Handling)
    BY <2>1, Finite, FS_Subset
  <2> QED
    BY <2>2, Finite, PoolNat, HandlingNat DEF PoolInv
<1>2. ASSUME NEW c \in Conns, Disconnect(c)
      PROVE  PoolInv'
  <2>1. Handling' \subseteq Handling
    BY <1>2 DEF Disconnect, Handling, SetConn, TypeOK, http, ctrl
  <2>2. Cardinality(Handling') <= Cardinality(Handling)
    BY <2>1, Finite, FS_Subset
  <2> QED
    BY <2>2, Finite, PoolNat, HandlingNat DEF PoolInv
<1>3. ASSUME NEW c \in Conns, Request(c)
      PROVE  PoolInv'
  <2>1. Handling' = Handling \cup {c}
    BY <1>3 DEF Request, Handling, SetConn, TypeOK
  <2>2. Cardinality(Handling') = Cardinality(Handling) \/ Cardinality(Handling') = Cardinality(Handling) + 1
    BY <2>1, Finite, FS_AddElement
  <2>3. Cardinality(Handling) < PoolSize
    BY <1>3 DEF Request
  <2> QED
    BY <2>2, <2>3, Finite, HandlingNat, PoolNat DEF PoolInv
<1>4. ASSUME NEW c \in Conns, RequestTimeout(c)
      PROVE  PoolInv'
  <2>1. Handling' \subseteq Handling
    BY <1>4 DEF RequestTimeout, Handling, SetConn, TypeOK, http, ctrl
  <2>2. Cardinality(Handling') <= Cardinality(Handling)
    BY <2>1, Finite, FS_Subset
  <2> QED
    BY <2>2, Finite, PoolNat, HandlingNat DEF PoolInv
<1>5. ASSUME NEW c \in Conns, NotFound(c)
      PROVE  PoolInv'
  <2>1. Handling' \subseteq Handling
    BY <1>5 DEF NotFound, Handling, SetConn, TypeOK, http, ctrl
  <2>2. Cardinality(Handling') <= Cardinality(Handling)
    BY <2>1, Finite, FS_Subset
  <2> QED
    BY <2>2, Finite, PoolNat, HandlingNat DEF PoolInv
<1>6. ASSUME NEW c \in Conns, CheckAdmits(c)
      PROVE  PoolInv'
  <2>1. Handling' \subseteq Handling
    BY <1>6 DEF CheckAdmits, Handling, SetConn, TypeOK, http, ctrl
  <2>2. Cardinality(Handling') <= Cardinality(Handling)
    BY <2>1, Finite, FS_Subset
  <2> QED
    BY <2>2, Finite, PoolNat, HandlingNat DEF PoolInv
<1>7. ASSUME NEW c \in Conns, Reject(c)
      PROVE  PoolInv'
  <2>1. Handling' \subseteq Handling
    BY <1>7 DEF Reject, Handling, SetConn, TypeOK, http, ctrl
  <2>2. Cardinality(Handling') <= Cardinality(Handling)
    BY <2>1, Finite, FS_Subset
  <2> QED
    BY <2>2, Finite, PoolNat, HandlingNat DEF PoolInv
<1>8. ASSUME NEW c \in Conns, NEW i \in Tasks, Submit(c, i)
      PROVE  PoolInv'
  <2>1. Handling' \subseteq Handling
    BY <1>8 DEF Submit, Handling, SetConn, TypeOK, http, ctrl
  <2>2. Cardinality(Handling') <= Cardinality(Handling)
    BY <2>1, Finite, FS_Subset
  <2> QED
    BY <2>2, Finite, PoolNat, HandlingNat DEF PoolInv
<1>9. ASSUME NEW i \in Tasks, Start(i)
      PROVE  PoolInv'
  BY <1>9 DEF Start, PoolInv, Handling, http, exec, ctrl
<1>10. ASSUME NEW i \in Tasks, Respond(i)
      PROVE  PoolInv'
  <2>1. Handling' \subseteq Handling
    BY <1>10 DEF Respond, Handling, SetConn, TypeOK, http, ctrl
  <2>2. Cardinality(Handling') <= Cardinality(Handling)
    BY <2>1, Finite, FS_Subset
  <2> QED
    BY <2>2, Finite, PoolNat, HandlingNat DEF PoolInv
<1>11. ASSUME NEW i \in Tasks, TimeoutThrows(i)
      PROVE  PoolInv'
  BY <1>11 DEF TimeoutThrows, PoolInv, Handling, http, exec, ctrl
<1>12. ASSUME NEW i \in Tasks, Finish(i)
      PROVE  PoolInv'
  BY <1>12 DEF Finish, PoolInv, Handling, http, exec, ctrl
<1>13. ASSUME SignalEarly
      PROVE  PoolInv'
  BY <1>13 DEF SignalEarly, PoolInv, Handling, http, exec, ctrl
<1>14. ASSUME Signal
      PROVE  PoolInv'
  BY <1>14 DEF Signal, PoolInv, Handling, http, exec, ctrl
<1>15. ASSUME InstallHandlers
      PROVE  PoolInv'
  BY <1>15 DEF InstallHandlers, PoolInv, Handling, http, exec, ctrl
<1>16. ASSUME SeesNoSignal
      PROVE  PoolInv'
  BY <1>16 DEF SeesNoSignal, PoolInv, Handling, http, exec, ctrl
<1>17. ASSUME Pause
      PROVE  PoolInv'
  BY <1>17 DEF Pause, PoolInv, Handling, http, exec, ctrl
<1>18. ASSUME Stop
      PROVE  PoolInv'
  BY <1>18 DEF Stop, PoolInv, Handling, http, exec, ctrl
<1>19. ASSUME Cleanup
      PROVE  PoolInv'
  <2>1. Handling' \subseteq Handling
    BY <1>19 DEF Cleanup, Handling, SetConn, TypeOK, http, ctrl
  <2>2. Cardinality(Handling') <= Cardinality(Handling)
    BY <2>1, Finite, FS_Subset
  <2> QED
    BY <2>2, Finite, PoolNat, HandlingNat DEF PoolInv
<1>20. ASSUME Join
      PROVE  PoolInv'
  BY <1>20 DEF Join, PoolInv, Handling, http, exec, ctrl
<1>21. ASSUME Close
      PROVE  PoolInv'
  BY <1>21 DEF Close, PoolInv, Handling, http, exec, ctrl
<1> QED
  BY <1>1, <1>2, <1>3, <1>4, <1>5, <1>6, <1>7, <1>8, <1>9, <1>10, <1>11, <1>12, <1>13, <1>14, <1>15, <1>16, <1>17, <1>18, <1>19, <1>20, <1>21, NextCases

\* So is the number of those that have passed the check.
LEMMA AdmittedNat == Cardinality(Admitted)' \in Nat
<1>1. IsFiniteSet(Admitted')
  BY ServerAssumption, FS_Subset, Admitted' \in SUBSET Conns DEF Admitted
<1> QED
  BY <1>1, FS_CardinalityType

\* The tasks and the handlers about to submit one, counted together.
LEMMA AdmissionStep == TypeOK /\ PoolInv /\ PoolInv' /\ AdmissionInv /\ Next => AdmissionInv'
<1> SUFFICES ASSUME TypeOK, PoolInv, PoolInv', AdmissionInv, Next
             PROVE  AdmissionInv'
  OBVIOUS
<1>1. ASSUME NEW c \in Conns, Connect(c)
      PROVE  AdmissionInv'
  <2>1. Admitted' \subseteq Admitted
    BY <1>1 DEF Connect, Admitted, SetConn, TypeOK, http, ctrl
  <2>2. Cardinality(Admitted') <= Cardinality(Admitted)
    BY <2>1, Finite, FS_Subset
  <2>3. num_topologies' = num_topologies
    BY <1>1 DEF Connect, exec, http, ctrl
  <2> QED
    BY <2>2, <2>3, Finite, AdmittedNat, PoolNat DEF AdmissionInv, TypeOK
<1>2. ASSUME NEW c \in Conns, Disconnect(c)
      PROVE  AdmissionInv'
  <2>1. Admitted' \subseteq Admitted
    BY <1>2 DEF Disconnect, Admitted, SetConn, TypeOK, http, ctrl
  <2>2. Cardinality(Admitted') <= Cardinality(Admitted)
    BY <2>1, Finite, FS_Subset
  <2>3. num_topologies' = num_topologies
    BY <1>2 DEF Disconnect, exec, http, ctrl
  <2> QED
    BY <2>2, <2>3, Finite, AdmittedNat, PoolNat DEF AdmissionInv, TypeOK
<1>3. ASSUME NEW c \in Conns, Request(c)
      PROVE  AdmissionInv'
  <2>1. Admitted' \subseteq Admitted
    BY <1>3 DEF Request, Admitted, SetConn, TypeOK, http, ctrl
  <2>2. Cardinality(Admitted') <= Cardinality(Admitted)
    BY <2>1, Finite, FS_Subset
  <2>3. num_topologies' = num_topologies
    BY <1>3 DEF Request, exec, http, ctrl
  <2> QED
    BY <2>2, <2>3, Finite, AdmittedNat, PoolNat DEF AdmissionInv, TypeOK
<1>4. ASSUME NEW c \in Conns, RequestTimeout(c)
      PROVE  AdmissionInv'
  <2>1. Admitted' \subseteq Admitted
    BY <1>4 DEF RequestTimeout, Admitted, SetConn, TypeOK, http, ctrl
  <2>2. Cardinality(Admitted') <= Cardinality(Admitted)
    BY <2>1, Finite, FS_Subset
  <2>3. num_topologies' = num_topologies
    BY <1>4 DEF RequestTimeout, exec, http, ctrl
  <2> QED
    BY <2>2, <2>3, Finite, AdmittedNat, PoolNat DEF AdmissionInv, TypeOK
<1>5. ASSUME NEW c \in Conns, NotFound(c)
      PROVE  AdmissionInv'
  <2>1. Admitted' \subseteq Admitted
    BY <1>5 DEF NotFound, Admitted, SetConn, TypeOK, http, ctrl
  <2>2. Cardinality(Admitted') <= Cardinality(Admitted)
    BY <2>1, Finite, FS_Subset
  <2>3. num_topologies' = num_topologies
    BY <1>5 DEF NotFound, exec, http, ctrl
  <2> QED
    BY <2>2, <2>3, Finite, AdmittedNat, PoolNat DEF AdmissionInv, TypeOK
<1>6. ASSUME NEW c \in Conns, CheckAdmits(c)
      PROVE  AdmissionInv'
  <2>1. Admitted' \subseteq Handling'
    BY DEF Admitted, Handling
  <2>2. Cardinality(Admitted') <= Cardinality(Handling')
    BY <2>1, HandlingNat, FS_Subset
  <2>3. num_topologies' = num_topologies /\ num_topologies < Workers
    BY <1>6 DEF CheckAdmits, exec
  <2> QED
    BY <2>2, <2>3, HandlingNat, AdmittedNat, PoolNat DEF AdmissionInv, PoolInv, TypeOK
<1>7. ASSUME NEW c \in Conns, Reject(c)
      PROVE  AdmissionInv'
  <2>1. Admitted' \subseteq Admitted
    BY <1>7 DEF Reject, Admitted, SetConn, TypeOK, http, ctrl
  <2>2. Cardinality(Admitted') <= Cardinality(Admitted)
    BY <2>1, Finite, FS_Subset
  <2>3. num_topologies' = num_topologies
    BY <1>7 DEF Reject, exec, http, ctrl
  <2> QED
    BY <2>2, <2>3, Finite, AdmittedNat, PoolNat DEF AdmissionInv, TypeOK
<1>8. ASSUME NEW c \in Conns, NEW i \in Tasks, Submit(c, i)
      PROVE  AdmissionInv'
  <2>1. Admitted' = Admitted \ {c} /\ c \in Admitted
    BY <1>8 DEF Submit, Admitted, SetConn, TypeOK
  <2>2. Cardinality(Admitted') = Cardinality(Admitted) - 1
    BY <2>1, Finite, FS_RemoveElement
  <2>3. num_topologies' = num_topologies + 1
    BY <1>8 DEF Submit
  <2> QED
    BY <2>2, <2>3, Finite, AdmittedNat, PoolNat DEF AdmissionInv, TypeOK
<1>9. ASSUME NEW i \in Tasks, Start(i)
      PROVE  AdmissionInv'
  BY <1>9 DEF Start, AdmissionInv, Admitted, http, exec, ctrl
<1>10. ASSUME NEW i \in Tasks, Respond(i)
      PROVE  AdmissionInv'
  <2>1. Admitted' \subseteq Admitted
    BY <1>10 DEF Respond, Admitted, SetConn, TypeOK, http, ctrl
  <2>2. Cardinality(Admitted') <= Cardinality(Admitted)
    BY <2>1, Finite, FS_Subset
  <2>3. num_topologies' = num_topologies
    BY <1>10 DEF Respond, exec, http, ctrl
  <2> QED
    BY <2>2, <2>3, Finite, AdmittedNat, PoolNat DEF AdmissionInv, TypeOK
<1>11. ASSUME NEW i \in Tasks, TimeoutThrows(i)
      PROVE  AdmissionInv'
  BY <1>11 DEF TimeoutThrows, AdmissionInv, Admitted, http, exec, ctrl
<1>12. ASSUME NEW i \in Tasks, Finish(i)
      PROVE  AdmissionInv'
  <2>1. Admitted' \subseteq Admitted
    BY <1>12 DEF Finish, Admitted, SetConn, TypeOK, http, ctrl
  <2>2. Cardinality(Admitted') <= Cardinality(Admitted)
    BY <2>1, Finite, FS_Subset
  <2>3. num_topologies' = num_topologies - 1
    BY <1>12 DEF Finish, exec, http, ctrl
  <2> QED
    BY <2>2, <2>3, Finite, AdmittedNat, PoolNat DEF AdmissionInv, TypeOK
<1>13. ASSUME SignalEarly
      PROVE  AdmissionInv'
  BY <1>13 DEF SignalEarly, AdmissionInv, Admitted, http, exec, ctrl
<1>14. ASSUME Signal
      PROVE  AdmissionInv'
  BY <1>14 DEF Signal, AdmissionInv, Admitted, http, exec, ctrl
<1>15. ASSUME InstallHandlers
      PROVE  AdmissionInv'
  BY <1>15 DEF InstallHandlers, AdmissionInv, Admitted, http, exec, ctrl
<1>16. ASSUME SeesNoSignal
      PROVE  AdmissionInv'
  BY <1>16 DEF SeesNoSignal, AdmissionInv, Admitted, http, exec, ctrl
<1>17. ASSUME Pause
      PROVE  AdmissionInv'
  BY <1>17 DEF Pause, AdmissionInv, Admitted, http, exec, ctrl
<1>18. ASSUME Stop
      PROVE  AdmissionInv'
  BY <1>18 DEF Stop, AdmissionInv, Admitted, http, exec, ctrl
<1>19. ASSUME Cleanup
      PROVE  AdmissionInv'
  <2>1. Admitted' \subseteq Admitted
    BY <1>19 DEF Cleanup, Admitted, SetConn, TypeOK, http, ctrl
  <2>2. Cardinality(Admitted') <= Cardinality(Admitted)
    BY <2>1, Finite, FS_Subset
  <2>3. num_topologies' = num_topologies
    BY <1>19 DEF Cleanup, exec, http, ctrl
  <2> QED
    BY <2>2, <2>3, Finite, AdmittedNat, PoolNat DEF AdmissionInv, TypeOK
<1>20. ASSUME Join
      PROVE  AdmissionInv'
  BY <1>20 DEF Join, AdmissionInv, Admitted, http, exec, ctrl
<1>21. ASSUME Close
      PROVE  AdmissionInv'
  BY <1>21 DEF Close, AdmissionInv, Admitted, http, exec, ctrl
<1> QED
  BY <1>1, <1>2, <1>3, <1>4, <1>5, <1>6, <1>7, <1>8, <1>9, <1>10, <1>11, <1>12, <1>13, <1>14, <1>15, <1>16, <1>17, <1>18, <1>19, <1>20, <1>21, NextCases

\* Who waits, waits for one task that will answer.
LEMMA OwnerStep == TypeOK /\ OneTaskPerConnection /\ Next => OneTaskPerConnection'
<1> SUFFICES ASSUME TypeOK, OneTaskPerConnection, Next
             PROVE  OneTaskPerConnection'
  OBVIOUS
<1>1. ASSUME NEW c \in Conns, Connect(c)
      PROVE  OneTaskPerConnection'
  BY <1>1, ServerAssumption DEF Connect, OneTaskPerConnection, TypeOK, Handling, SetConn, SetTask, http, exec, ctrl
<1>2. ASSUME NEW c \in Conns, Disconnect(c)
      PROVE  OneTaskPerConnection'
  BY <1>2, ServerAssumption DEF Disconnect, OneTaskPerConnection, TypeOK, Handling, SetConn, SetTask, http, exec, ctrl
<1>3. ASSUME NEW c \in Conns, Request(c)
      PROVE  OneTaskPerConnection'
  BY <1>3, ServerAssumption DEF Request, OneTaskPerConnection, TypeOK, Handling, SetConn, SetTask, http, exec, ctrl
<1>4. ASSUME NEW c \in Conns, RequestTimeout(c)
      PROVE  OneTaskPerConnection'
  BY <1>4, ServerAssumption DEF RequestTimeout, OneTaskPerConnection, TypeOK, Handling, SetConn, SetTask, http, exec, ctrl
<1>5. ASSUME NEW c \in Conns, NotFound(c)
      PROVE  OneTaskPerConnection'
  BY <1>5, ServerAssumption DEF NotFound, OneTaskPerConnection, TypeOK, Handling, SetConn, SetTask, http, exec, ctrl
<1>6. ASSUME NEW c \in Conns, CheckAdmits(c)
      PROVE  OneTaskPerConnection'
  BY <1>6, ServerAssumption DEF CheckAdmits, OneTaskPerConnection, TypeOK, Handling, SetConn, SetTask, http, exec, ctrl
<1>7. ASSUME NEW c \in Conns, Reject(c)
      PROVE  OneTaskPerConnection'
  BY <1>7, ServerAssumption DEF Reject, OneTaskPerConnection, TypeOK, Handling, SetConn, SetTask, http, exec, ctrl
<1>8. ASSUME NEW c \in Conns, NEW i \in Tasks, Submit(c, i)
      PROVE  OneTaskPerConnection'
  <2>1. \A j \in Tasks : owner[j] # c
    <3>1. c # NoConn /\ conn[c] = "checked"
      BY <1>8, ServerAssumption DEF Submit
    <3> QED
      BY <3>1 DEF OneTaskPerConnection
  <2>2. owner[i] = NoConn
    BY <1>8 DEF Submit, OneTaskPerConnection, TypeOK
  <2>3. CASE IoRunning
    BY <1>8, <2>1, <2>2, <2>3, ServerAssumption DEF Submit, OneTaskPerConnection, TypeOK, SetConn, SetTask
  <2>4. CASE ~IoRunning
    BY <1>8, <2>1, <2>2, <2>4, ServerAssumption DEF Submit, OneTaskPerConnection, TypeOK, SetConn, SetTask
  <2> QED
    BY <2>3, <2>4
<1>9. ASSUME NEW i \in Tasks, Start(i)
      PROVE  OneTaskPerConnection'
  BY <1>9, ServerAssumption DEF Start, OneTaskPerConnection, TypeOK, Handling, SetConn, SetTask, http, exec, ctrl
<1>10. ASSUME NEW i \in Tasks, Respond(i)
      PROVE  OneTaskPerConnection'
  BY <1>10, ServerAssumption DEF Respond, OneTaskPerConnection, TypeOK, Handling, SetConn, SetTask, http, exec, ctrl
<1>11. ASSUME NEW i \in Tasks, TimeoutThrows(i)
      PROVE  OneTaskPerConnection'
  BY <1>11, ServerAssumption DEF TimeoutThrows, OneTaskPerConnection, TypeOK, Handling, SetConn, SetTask, http, exec, ctrl
<1>12. ASSUME NEW i \in Tasks, Finish(i)
      PROVE  OneTaskPerConnection'
  BY <1>12, ServerAssumption DEF Finish, OneTaskPerConnection, TypeOK, Handling, SetConn, SetTask, http, exec, ctrl
<1>13. ASSUME SignalEarly
      PROVE  OneTaskPerConnection'
  BY <1>13, ServerAssumption DEF SignalEarly, OneTaskPerConnection, TypeOK, Handling, SetConn, SetTask, http, exec, ctrl
<1>14. ASSUME Signal
      PROVE  OneTaskPerConnection'
  BY <1>14, ServerAssumption DEF Signal, OneTaskPerConnection, TypeOK, Handling, SetConn, SetTask, http, exec, ctrl
<1>15. ASSUME InstallHandlers
      PROVE  OneTaskPerConnection'
  BY <1>15, ServerAssumption DEF InstallHandlers, OneTaskPerConnection, TypeOK, Handling, SetConn, SetTask, http, exec, ctrl
<1>16. ASSUME SeesNoSignal
      PROVE  OneTaskPerConnection'
  BY <1>16, ServerAssumption DEF SeesNoSignal, OneTaskPerConnection, TypeOK, Handling, SetConn, SetTask, http, exec, ctrl
<1>17. ASSUME Pause
      PROVE  OneTaskPerConnection'
  BY <1>17, ServerAssumption DEF Pause, OneTaskPerConnection, TypeOK, Handling, SetConn, SetTask, http, exec, ctrl
<1>18. ASSUME Stop
      PROVE  OneTaskPerConnection'
  BY <1>18, ServerAssumption DEF Stop, OneTaskPerConnection, TypeOK, Handling, SetConn, SetTask, http, exec, ctrl
<1>19. ASSUME Cleanup
      PROVE  OneTaskPerConnection'
  BY <1>19, ServerAssumption DEF Cleanup, OneTaskPerConnection, TypeOK, Handling, SetConn, SetTask, http, exec, ctrl
<1>20. ASSUME Join
      PROVE  OneTaskPerConnection'
  BY <1>20, ServerAssumption DEF Join, OneTaskPerConnection, TypeOK, Handling, SetConn, SetTask, http, exec, ctrl
<1>21. ASSUME Close
      PROVE  OneTaskPerConnection'
  BY <1>21, ServerAssumption DEF Close, OneTaskPerConnection, TypeOK, Handling, SetConn, SetTask, http, exec, ctrl
<1> QED
  BY <1>1, <1>2, <1>3, <1>4, <1>5, <1>6, <1>7, <1>8, <1>9, <1>10, <1>11, <1>12, <1>13, <1>14, <1>15, <1>16, <1>17, <1>18, <1>19, <1>20, <1>21, NextCases

\* The order of the shutdown.
LEMMA MainStepInv == TypeOK /\ CountInv /\ MainInv /\ Next => MainInv'
<1> SUFFICES ASSUME TypeOK, CountInv, MainInv, Next
             PROVE  MainInv'
  OBVIOUS
<1>1. ASSUME NEW c \in Conns, Connect(c)
      PROVE  MainInv'
  BY <1>1 DEF Connect, MainInv, TypeOK, Live, Handling, Listening, IoRunning, SetConn, SetTask, http, exec, ctrl
<1>2. ASSUME NEW c \in Conns, Disconnect(c)
      PROVE  MainInv'
  BY <1>2 DEF Disconnect, MainInv, TypeOK, Live, Handling, Listening, IoRunning, SetConn, SetTask, http, exec, ctrl
<1>3. ASSUME NEW c \in Conns, Request(c)
      PROVE  MainInv'
  BY <1>3 DEF Request, MainInv, TypeOK, Live, Handling, Listening, IoRunning, SetConn, SetTask, http, exec, ctrl
<1>4. ASSUME NEW c \in Conns, RequestTimeout(c)
      PROVE  MainInv'
  BY <1>4 DEF RequestTimeout, MainInv, TypeOK, Live, Handling, Listening, IoRunning, SetConn, SetTask, http, exec, ctrl
<1>5. ASSUME NEW c \in Conns, NotFound(c)
      PROVE  MainInv'
  BY <1>5 DEF NotFound, MainInv, TypeOK, Live, Handling, Listening, IoRunning, SetConn, SetTask, http, exec, ctrl
<1>6. ASSUME NEW c \in Conns, CheckAdmits(c)
      PROVE  MainInv'
  BY <1>6 DEF CheckAdmits, MainInv, TypeOK, Live, Handling, Listening, IoRunning, SetConn, SetTask, http, exec, ctrl
<1>7. ASSUME NEW c \in Conns, Reject(c)
      PROVE  MainInv'
  BY <1>7 DEF Reject, MainInv, TypeOK, Live, Handling, Listening, IoRunning, SetConn, SetTask, http, exec, ctrl
<1>8. ASSUME NEW c \in Conns, NEW i \in Tasks, Submit(c, i)
      PROVE  MainInv'
  BY <1>8 DEF Submit, MainInv, TypeOK, Live, Handling, Listening, IoRunning, SetConn, SetTask, http, exec, ctrl
<1>9. ASSUME NEW i \in Tasks, Start(i)
      PROVE  MainInv'
  BY <1>9 DEF Start, MainInv, TypeOK, Live, Handling, Listening, IoRunning, SetConn, SetTask, http, exec, ctrl
<1>10. ASSUME NEW i \in Tasks, Respond(i)
      PROVE  MainInv'
  BY <1>10 DEF Respond, MainInv, TypeOK, Live, Handling, Listening, IoRunning, SetConn, SetTask, http, exec, ctrl
<1>11. ASSUME NEW i \in Tasks, TimeoutThrows(i)
      PROVE  MainInv'
  BY <1>11 DEF TimeoutThrows, MainInv, TypeOK, Live, Handling, Listening, IoRunning, SetConn, SetTask, http, exec, ctrl
<1>12. ASSUME NEW i \in Tasks, Finish(i)
      PROVE  MainInv'
  BY <1>12 DEF Finish, MainInv, TypeOK, Live, Handling, Listening, IoRunning, SetConn, SetTask, http, exec, ctrl
<1>13. ASSUME SignalEarly
      PROVE  MainInv'
  BY <1>13 DEF SignalEarly, MainInv, TypeOK, Live, Handling, Listening, IoRunning, SetConn, SetTask, http, exec, ctrl
<1>14. ASSUME Signal
      PROVE  MainInv'
  BY <1>14 DEF Signal, MainInv, TypeOK, Live, Handling, Listening, IoRunning, SetConn, SetTask, http, exec, ctrl
<1>15. ASSUME InstallHandlers
      PROVE  MainInv'
  BY <1>15 DEF InstallHandlers, MainInv, TypeOK, Live, Handling, Listening, IoRunning, SetConn, SetTask, http, exec, ctrl
<1>16. ASSUME SeesNoSignal
      PROVE  MainInv'
  BY <1>16 DEF SeesNoSignal, MainInv, TypeOK, Live, Handling, Listening, IoRunning, SetConn, SetTask, http, exec, ctrl
<1>17. ASSUME Pause
      PROVE  MainInv'
  BY <1>17 DEF Pause, MainInv, TypeOK, Live, Handling, Listening, IoRunning, SetConn, SetTask, http, exec, ctrl
<1>18. ASSUME Stop
      PROVE  MainInv'
  BY <1>18 DEF Stop, MainInv, TypeOK, Live, Handling, Listening, IoRunning, SetConn, SetTask, http, exec, ctrl
<1>19. ASSUME Cleanup
      PROVE  MainInv'
  <2>1. Live = {}
    BY <1>19, Finite, FS_EmptySet DEF Cleanup, CountInv
  <2>2. Live' = {}
    BY <1>19, <2>1 DEF Cleanup, Live, exec
  <2> QED
    BY <1>19, <2>2 DEF Cleanup, MainInv
<1>20. ASSUME Join
      PROVE  MainInv'
  BY <1>20 DEF Join, MainInv, TypeOK, Live, Handling, Listening, IoRunning, SetConn, SetTask, http, exec, ctrl
<1>21. ASSUME Close
      PROVE  MainInv'
  <2>1. Live = {}
    BY <1>21, Finite, FS_EmptySet DEF Close, CountInv
  <2>2. Live' = {} /\ Handling' = Handling
    BY <1>21, <2>1 DEF Close, Live, Handling, http, exec
  <2> QED
    BY <1>21, <2>2 DEF Close, MainInv
<1> QED
  BY <1>1, <1>2, <1>3, <1>4, <1>5, <1>6, <1>7, <1>8, <1>9, <1>10, <1>11, <1>12, <1>13, <1>14, <1>15, <1>16, <1>17, <1>18, <1>19, <1>20, <1>21, NextCases

-----------------------------------------------------------------------------
\* At the start there is nothing to count.
LEMMA InitInv == Init => IInv
<1> SUFFICES ASSUME Init PROVE IInv
  OBVIOUS
<1>1. Live = {} /\ Handling = {} /\ Admitted = {}
  BY DEF Init, Live, Handling, Admitted
<1>2. TypeOK
  BY DEF Init, TypeOK, ConnStates, TaskStates, MainStates
<1>3. CountInv /\ PoolInv /\ AdmissionInv
  BY <1>1, FS_EmptySet, PoolNat DEF Init, CountInv, PoolInv, AdmissionInv
<1>4. OneTaskPerConnection /\ MainInv
  BY <1>1 DEF Init, OneTaskPerConnection, MainInv
<1> QED
  BY <1>2, <1>3, <1>4 DEF IInv

\* A step that changes nothing changes none of it.
LEMMA Stutter == IInv /\ UNCHANGED vars => IInv'
BY DEF IInv, TypeOK, CountInv, PoolInv, AdmissionInv, OneTaskPerConnection, MainInv,
       Live, Handling, Admitted, vars, http, exec, ctrl

\* The invariant holds throughout.
THEOREM Invariance == Spec => []IInv
<1>1. IInv /\ Next => IInv'
  <2> SUFFICES ASSUME IInv, Next PROVE IInv'
    OBVIOUS
  <2> USE DEF IInv
  <2>1. TypeOK'
    BY TypeStep
  <2>2. CountInv'
    BY CountStep
  <2>3. PoolInv'
    BY PoolStep
  <2>4. AdmissionInv'
    BY <2>3, AdmissionStep
  <2>5. OneTaskPerConnection'
    BY OwnerStep
  <2>6. MainInv'
    BY MainStepInv
  <2> QED
    BY <2>1, <2>2, <2>3, <2>4, <2>5, <2>6
<1> QED
  BY <1>1, InitInv, Stutter, PTL DEF Spec

\* Type correctness.
THEOREM TypeCorrect == Spec => []TypeOK
BY Invariance, PTL DEF IInv

\* However many handlers race past the check of Endpoint.cpp:20, there are never
\* more tasks than workers, less one, plus I/O threads.
THEOREM TasksAreBounded == Spec => []AdmissionBound
<1>1. IInv => AdmissionBound
  BY Finite, PoolNat DEF IInv, TypeOK, CountInv, AdmissionInv, AdmissionBound
<1> QED
  BY <1>1, Invariance, PTL

\* Every waiting connection has its own task, and only it.
THEOREM AnswersGoHome == Spec => []OneTaskPerConnection
BY Invariance, PTL DEF IInv

\* Only tasks submitted after wait_for_all() outlive HTTPServer, and none the
\* executor.
THEOREM ShutdownOrder == Spec => []OnlyLateTasksOutlive
<1>1. IInv => OnlyLateTasksOutlive
  BY DEF IInv, MainInv, OnlyLateTasksOutlive
<1> QED
  BY <1>1, Invariance, PTL

\* Were every task waited for by a connection other than the one that asks,
\* there would be fewer tasks than workers.
LEMMA FewOwned ==
    ASSUME IInv, NEW c \in Conns, conn[c] = "handling",
           \A i \in Live : owner[i] # NoConn
    PROVE  Cardinality(Live) < Workers
<1> DEFINE Others == Conns \ {c}
           f == [i \in Live |-> owner[i]]
<1>1. IsFiniteSet(Others) /\ Cardinality(Others) = Workers - 1
  BY ServerAssumption, FS_RemoveElement
<1>2. \A i \in Live : owner[i] \in Others
  BY DEF IInv, OneTaskPerConnection, TypeOK, Live
<1>3. f \in [Live -> Others]
  BY <1>2
<1>4. ~(\E i, j \in Live : i # j /\ f[i] = f[j])
  BY DEF IInv, OneTaskPerConnection, TypeOK, Live
<1>5. ~(Cardinality(Others) < Cardinality(Live))
  <2> HIDE DEF f, Others
  <2> QED
    BY <1>1, <1>3, <1>4, Finite, FS_PigeonHole
<1> QED
  BY <1>1, <1>5, Finite, PoolNat

\* A request is rejected only because of a task that nobody waits for.
THEOREM RejectionsHaveOrphans == Spec => RejectedForAnOrphan
<1>1. IInv => (\A c \in Conns : Reject(c) => \E i \in Live : owner[i] = NoConn)
  <2> SUFFICES ASSUME IInv, NEW c \in Conns, Reject(c),
                      \A i \in Live : owner[i] # NoConn
               PROVE  FALSE
    OBVIOUS
  <2>1. conn[c] = "handling" /\ num_topologies >= Workers
    BY DEF Reject
  <2>2. Cardinality(Live) < Workers
    BY <2>1, FewOwned
  <2> QED
    BY <2>1, <2>2, Finite, PoolNat DEF IInv, CountInv
<1> QED
  BY <1>1, Invariance, PTL DEF RejectedForAnOrphan
-----------------------------------------------------------------------------
(* The server implements RequestService.  A task that is waited for belongs *)
(* to one client that has a request executed, so that executions and        *)
(* orphans are no more than tasks (Room); a client that is answered, goes   *)
(* away or is timed out leaves its task behind as an orphan (Leaves).       *)

\* What a client waits for if its connection is in state s.
Sees(s) == CASE s \in {"handling", "checked"} -> "asked"
             [] s = "waiting"                 -> "executed"
             [] OTHER                         -> "idle"

LEMMA SameCardinality == \A S : Service!Cardinality(S) = Cardinality(S)
BY DEF Service!Cardinality, Cardinality

LEMMA ClientBecomes ==
    ASSUME TypeOK, NEW c \in Conns, NEW s, conn' = [conn EXCEPT ![c] = s]
    PROVE  Client' = [Client EXCEPT ![c] = Sees(s)]
<1>1. Client = [d \in Conns |-> Sees(conn[d])]
  BY DEF Client, ClientOf, Sees
<1>2. Client' = [d \in Conns |-> Sees(conn'[d])]
  BY DEF Client, ClientOf, Sees
<1>3. \A d \in Conns : conn'[d] = IF d = c THEN s ELSE conn[d]
  BY DEF TypeOK
<1> QED
  BY <1>1, <1>2, <1>3

LEMMA ClientStays == ASSUME \A c \in Conns : ClientOf(c)' = ClientOf(c) PROVE Client' = Client
BY DEF Client

\* What a connection in each state is to its client.
LEMMA ClientIs ==
    ASSUME NEW c \in Conns
    PROVE  /\ Client[c] = ClientOf(c)
           /\ conn[c] \in {"open", "closed"} => Client[c] = "idle"
           /\ conn[c] \in {"handling", "checked"} => Client[c] = "asked"
           /\ conn[c] = "waiting" => Client[c] = "executed"
BY DEF Client, ClientOf

LEMMA OrphansFinite == IsFiniteSet(Orphans) /\ Cardinality(Orphans) \in Nat
<1>1. IsFiniteSet(Orphans)
  BY Finite, FS_Subset, Orphans \in SUBSET Live DEF Orphans
<1> QED
  BY <1>1, FS_CardinalityType

\* A handler that has passed the check has room for its task.
LEMMA Room ==
    ASSUME IInv, NEW c \in Conns, conn[c] = "checked"
    PROVE  Cardinality(Service!Executed) + Cardinality(Orphans) < Workers - 1 + PoolSize
<1> DEFINE E == Service!Executed
           Owned == Live \ Orphans
           f == [i \in Owned |-> owner[i]]
<1>1. \A d \in E : d \in Conns /\ conn[d] = "waiting"
  <2>1. \A d \in Conns : Client[d] = "executed" => conn[d] = "waiting"
    BY DEF Client, ClientOf
  <2> QED
    BY <2>1 DEF Service!Executed
<1>2. \A d \in E : \E i \in Owned : owner[i] = d
  <2> SUFFICES ASSUME NEW d \in E PROVE \E i \in Owned : owner[i] = d
    OBVIOUS
  <2>1. PICK i \in Tasks : owner[i] = d
    BY <1>1 DEF IInv, OneTaskPerConnection
  <2>2. owner[i] # NoConn
    BY <1>1, <2>1, ServerAssumption
  <2>3. i \in Live
    BY <2>2 DEF IInv, OneTaskPerConnection, Live
  <2> QED
    BY <2>1, <2>2, <2>3 DEF Orphans
<1>3. \A i \in Owned : owner[i] \in E
  <2> SUFFICES ASSUME NEW i \in Owned PROVE owner[i] \in E
    OBVIOUS
  <2>1. i \in Tasks /\ owner[i] # NoConn
    BY DEF Orphans, Live
  <2>2. owner[i] \in Conns /\ conn[owner[i]] = "waiting"
    BY <2>1 DEF IInv, OneTaskPerConnection, TypeOK
  <2> QED
    BY <2>2, ClientIs DEF Service!Executed
<1>4. f \in Surjection(Owned, E)
  <2> HIDE DEF E, Owned
  <2> QED
    BY <1>2, <1>3 DEF Surjection
<1>5. IsFiniteSet(Owned) /\ Cardinality(Owned) = Cardinality(Live) - Cardinality(Orphans)
  <2>1. Live \cap Orphans = Orphans
    BY DEF Orphans
  <2> QED
    BY <2>1, Finite, FS_Difference
<1>6. Cardinality(E) <= Cardinality(Owned) /\ Cardinality(E) \in Nat
  <2> HIDE DEF E, Owned, f
  <2> QED
    BY <1>4, <1>5, FS_Surjection, FS_CardinalityType
<1>7. Cardinality(Admitted) >= 1
  <2>1. c \in Admitted
    BY DEF Admitted
  <2>2. Cardinality(Admitted) # 0
    BY <2>1, Finite, FS_EmptySet
  <2> QED
    BY <2>2, Finite
<1>8. Cardinality(Live) + Cardinality(Admitted) <= Workers - 1 + PoolSize
  BY DEF IInv, CountInv, AdmissionInv
<1> HIDE DEF E, Owned
<1>9. Cardinality(E) + Cardinality(Orphans) < Workers - 1 + PoolSize
  BY <1>5, <1>6, <1>7, <1>8, Finite, OrphansFinite, PoolNat
<1> QED
  BY <1>9 DEF E

\* The task of a client that leaves becomes an orphan.
LEMMA Leaves ==
    ASSUME IInv, NEW c \in Conns, conn[c] = "waiting", alive, alive' = alive,
           NEW s \in {"open", "closed"}, conn' = [conn EXCEPT ![c] = s],
           Live' = Live,
           owner' = [i \in Tasks |-> IF owner[i] = c THEN NoConn ELSE owner[i]]
    PROVE  Service!Leave(c)
<1>1. PICK i \in Tasks : owner[i] = c
  BY DEF IInv, OneTaskPerConnection
<1>2. c # NoConn
  BY ServerAssumption
<1>3. i \in Live /\ i \notin Orphans
  BY <1>1, <1>2 DEF IInv, OneTaskPerConnection, Live, Orphans
<1>4. \A j \in Tasks : owner[j] = c => j = i
  BY <1>1, <1>2 DEF IInv, OneTaskPerConnection
<1>5. Orphans' = Orphans \cup {i}
  <2>1. \A j \in Tasks : owner'[j] = NoConn <=> owner[j] = NoConn \/ j = i
    BY <1>1, <1>4
  <2>2. Live \subseteq Tasks
    BY DEF Live
  <2> QED
    BY <1>3, <2>1, <2>2 DEF Orphans
<1>6. Cardinality(Orphans)' = Cardinality(Orphans) + 1
  BY <1>3, <1>5, OrphansFinite, FS_AddElement
<1>7. Client' = [Client EXCEPT ![c] = "idle"]
  BY ClientBecomes DEF IInv, Sees
<1>8. Client[c] = "executed"
  BY ClientIs
<1> QED
  BY <1>6, <1>7, <1>8 DEF Service!Leave, Service!Become

\* A step that no client sees.
Unseen == Client' = Client /\ Orphans' = Orphans /\ alive' = alive

\* Every step of the server is one of the service, or unseen.
LEMMA ServiceStep == IInv /\ Next => Service!Next \/ Unseen
<1> DEFINE Goal == Service!Next \/ Unseen
<1> SUFFICES ASSUME IInv, Next PROVE Goal
  OBVIOUS
<1> USE DEF IInv
<1>0. ASSUME conn' = conn, task' = task, owner' = owner, alive' = alive PROVE Goal
  BY <1>0 DEF Unseen, Client, ClientOf, Orphans, Live
<1>1. ASSUME NEW c \in Conns, Connect(c) PROVE Goal
  <2>1. Client' = [Client EXCEPT ![c] = "idle"] /\ Client[c] = "idle"
    BY <1>1, ClientBecomes, ClientIs DEF Connect, SetConn, Sees
  <2>2. Client' = Client
    BY <2>1 DEF Client
  <2> QED
    BY <1>1, <2>2 DEF Connect, exec, Unseen, Orphans, Live
<1>2. ASSUME NEW c \in Conns, Disconnect(c) PROVE Goal
  <2>1. CASE conn[c] = "waiting"
    <3>1. Service!Leave(c)
      BY <1>2, <2>1, Leaves DEF Disconnect, SetConn, exec, Live
    <3> QED
      BY <3>1 DEF Service!Next
  <2>2. CASE conn[c] = "open"
    <3>1. \A i \in Tasks : owner[i] # c
      BY <2>2, ServerAssumption DEF OneTaskPerConnection
    <3>2. owner' = owner
      BY <1>2, <3>1 DEF Disconnect, TypeOK
    <3>3. Client' = [Client EXCEPT ![c] = "idle"] /\ Client[c] = "idle"
      BY <1>2, <2>2, ClientBecomes, ClientIs DEF Disconnect, SetConn, Sees
    <3>4. Client' = Client
      BY <3>3 DEF Client
    <3> QED
      BY <1>2, <3>2, <3>4 DEF Disconnect, exec, Unseen, Orphans, Live
  <2> QED
    BY <1>2, <2>1, <2>2 DEF Disconnect
<1>3. ASSUME NEW c \in Conns, Request(c) PROVE Goal
  <2>1. Client' = [Client EXCEPT ![c] = "asked"] /\ Client[c] = "idle"
    BY <1>3, ClientBecomes, ClientIs DEF Request, SetConn, Sees
  <2>2. Orphans' = Orphans
    BY <1>3 DEF Request, exec, Orphans, Live
  <2>3. Service!Ask(c)
    BY <1>3, <2>1, <2>2 DEF Request, Service!Ask, Service!Become
  <2> QED
    BY <2>3 DEF Service!Next
<1>4. ASSUME NEW c \in Conns, RequestTimeout(c) PROVE Goal
  <2>1. Service!Leave(c)
    BY <1>4, Leaves DEF RequestTimeout, SetConn, exec, Live
  <2> QED
    BY <2>1 DEF Service!Next
<1>5. ASSUME NEW c \in Conns, NotFound(c) \/ Reject(c) PROVE Goal
  <2>1. Client' = [Client EXCEPT ![c] = "idle"] /\ Client[c] = "asked"
    BY <1>5, ClientBecomes, ClientIs DEF NotFound, Reject, SetConn, Sees
  <2>2. Orphans' = Orphans
    BY <1>5 DEF NotFound, Reject, exec, Orphans, Live
  <2>3. Service!TurnAway(c)
    BY <1>5, <2>1, <2>2 DEF NotFound, Reject, Service!TurnAway, Service!Become
  <2> QED
    BY <2>3 DEF Service!Next
<1>6. ASSUME NEW c \in Conns, CheckAdmits(c) PROVE Goal
  <2>1. Client' = [Client EXCEPT ![c] = "asked"] /\ Client[c] = "asked"
    BY <1>6, ClientBecomes, ClientIs DEF CheckAdmits, SetConn, Sees
  <2>2. Client' = Client
    BY <2>1 DEF Client
  <2> QED
    BY <1>6, <2>2 DEF CheckAdmits, exec, Unseen, Orphans, Live
<1>7. ASSUME NEW c \in Conns, NEW i \in Tasks, Submit(c, i) PROVE Goal
  <2>1. i \notin Live /\ Live' = Live \cup {i} /\ i \notin Orphans
    BY <1>7 DEF Submit, SetTask, Live, Orphans, TypeOK
  <2>2. Client[c] = "asked" /\ alive /\ alive' = alive
    BY <1>7, ClientIs DEF Submit
  <2>3. Cardinality(Service!Executed) + Cardinality(Orphans) < Workers - 1 + PoolSize
    BY <1>7, Room DEF Submit
  <2>4. CASE IoRunning
    <3>0. conn' = [conn EXCEPT ![c] = "waiting"]
      BY <1>7, <2>4 DEF Submit, SetConn
    <3>1. Client' = [Client EXCEPT ![c] = "executed"]
      BY <3>0, ClientBecomes DEF Sees
    <3>2. Orphans' = Orphans
      BY <1>7, <2>1, <2>4, ServerAssumption DEF Submit, Orphans, Live, TypeOK
    <3>3. Service!Become(c, "executed")
      BY <3>1 DEF Service!Become
    <3>4. UNCHANGED <<Cardinality(Orphans), alive>>
      BY <2>2, <3>2
    <3>5. Service!Take(c)
      BY <2>2, <2>3, <3>3, <3>4, SameCardinality, Zenon DEF Service!Take
    <3> QED
      BY <3>5 DEF Service!Next
  <2>5. CASE ~IoRunning
    <3>0. conn' = [conn EXCEPT ![c] = "closed"]
      BY <1>7, <2>5 DEF Submit, SetConn
    <3>1. Client' = [Client EXCEPT ![c] = "idle"]
      <4>1. Client' = [Client EXCEPT ![c] = Sees("closed")]
        BY <3>0, ClientBecomes
      <4>2. Sees("closed") = "idle"
        BY DEF Sees
      <4> QED
        BY <4>1, <4>2
    <3>2. Orphans' = Orphans \cup {i}
      BY <1>7, <2>1, <2>5 DEF Submit, Orphans, Live, TypeOK
    <3>3. Cardinality(Orphans)' = Cardinality(Orphans) + 1
      BY <2>1, <3>2, OrphansFinite, FS_AddElement
    <3>4. Service!Become(c, "idle")
      BY <3>1 DEF Service!Become
    <3>5. Service!TakeUnheard(c)
      BY <2>2, <2>3, <3>3, <3>4, SameCardinality, Zenon DEF Service!TakeUnheard
    <3> QED
      BY <3>5 DEF Service!Next
  <2> QED
    BY <2>4, <2>5
<1>8. ASSUME NEW i \in Tasks, Start(i) PROVE Goal
  <2>1. Live' = Live
    BY <1>8 DEF Start, SetTask, Live, TypeOK
  <2> QED
    BY <1>8, <2>1 DEF Start, http, Unseen, Client, ClientOf, Orphans
<1>9. ASSUME NEW i \in Tasks, Respond(i) PROVE Goal
  <2>1. Live' = Live
    BY <1>9 DEF Respond, SetTask, Live, TypeOK
  <2>2. CASE owner[i] = NoConn
    <3>1. conn' = conn /\ owner' = owner
      BY <1>9, <2>2, ServerAssumption DEF Respond, TypeOK
    <3> QED
      BY <1>9, <2>1, <3>1 DEF Respond, Unseen, Client, ClientOf, Orphans
  <2>3. CASE owner[i] # NoConn
    <3> DEFINE c == owner[i]
    <3>1. c \in Conns /\ conn[c] = "waiting"
      BY <2>3 DEF OneTaskPerConnection, TypeOK
    <3>2. conn' = [conn EXCEPT ![c] = "open"]
      BY <1>9, <3>1 DEF Respond, TypeOK
    <3>3. owner' = [j \in Tasks |-> IF owner[j] = c THEN NoConn ELSE owner[j]]
      BY <1>9, <2>3 DEF Respond, TypeOK, OneTaskPerConnection
    <3>4. alive /\ alive' = alive
      BY <1>9 DEF Respond
    <3> HIDE DEF c
    <3>5. Service!Leave(c)
      BY <2>1, <3>1, <3>2, <3>3, <3>4, Leaves
    <3> QED
      BY <3>1, <3>5 DEF Service!Next
  <2> QED
    BY <2>2, <2>3
<1>10. ASSUME NEW i \in Tasks, Finish(i) PROVE Goal
  <2>1. i \in Live /\ owner[i] = NoConn /\ Live' = Live \ {i}
    BY <1>10 DEF Finish, SetTask, Live, TypeOK, OneTaskPerConnection
  <2>2. i \in Orphans /\ Orphans' = Orphans \ {i}
    BY <1>10, <2>1 DEF Finish, http, Orphans
  <2>3. Cardinality(Orphans)' = Cardinality(Orphans) - 1 /\ Cardinality(Orphans) # 0
    BY <2>2, OrphansFinite, FS_RemoveElement, FS_EmptySet
  <2>4. Client' = Client
    BY <1>10 DEF Finish, http, Client, ClientOf
  <2>5. Service!End
    BY <1>10, <2>3, <2>4, OrphansFinite DEF Finish, Service!End
  <2> QED
    BY <2>5 DEF Service!Next
<1>11. ASSUME SignalEarly \/ \E i \in Tasks : TimeoutThrows(i) PROVE Goal
  <2>1. Service!Die
    BY <1>11 DEF SignalEarly, TimeoutThrows, http, exec, Service!Die, Client, ClientOf, Orphans, Live
  <2> QED
    BY <2>1 DEF Service!Next
<1>12. ASSUME Cleanup PROVE Goal
  <2>1. Live = {} /\ Live' = {}
    BY <1>12, Finite, FS_EmptySet DEF Cleanup, CountInv, exec, Live
  <2>2. Orphans' = Orphans
    BY <2>1 DEF Orphans
  <2>3. \A i \in Tasks : owner[i] = NoConn
    BY <2>1 DEF Live, OneTaskPerConnection
  <2>4. \A c \in Conns : conn[c] # "waiting"
    BY <2>3, ServerAssumption DEF OneTaskPerConnection
  <2>5. \A c \in Conns : ClientOf(c)' = ClientOf(c)
    BY <1>12, <2>4 DEF Cleanup, Handling, ClientOf, TypeOK, ConnStates
  <2> QED
    BY <1>12, <2>2, <2>5, ClientStays DEF Cleanup, Unseen
<1>13. ASSUME Signal \/ InstallHandlers \/ SeesNoSignal \/ Pause \/ Stop \/ Join \/ Close
       PROVE  Goal
  BY <1>0, <1>13 DEF Signal, InstallHandlers, SeesNoSignal, Pause, Stop, Join, Close, http, exec
<1> HIDE DEF Goal
<1> QED
  BY <1>1, <1>2, <1>3, <1>4, <1>5, <1>6, <1>7, <1>8, <1>9, <1>10, <1>11, <1>12, <1>13, NextCases

\* To its clients the server is a RequestService: what is taken on is executed
\* once, answered to the client that asked or to nobody, and bounded.
THEOREM ServesItsClients == Spec => ServiceSpec
<1>1. Init => Service!Init
  <2> SUFFICES ASSUME Init PROVE Service!Init
    OBVIOUS
  <2>1. Client = [c \in Conns |-> "idle"]
    BY DEF Init, Client, ClientOf
  <2>2. Orphans = {} /\ alive = TRUE
    BY DEF Init, Orphans, Live
  <2> QED
    BY <2>1, <2>2, FS_EmptySet DEF Service!Init
<1>2. IInv /\ [Next]_vars => [Service!Next]_Service!vars
  <2>1. CASE UNCHANGED vars
    <3>1. UNCHANGED vars => UNCHANGED Service!vars
      BY DEF vars, http, exec, Service!vars, Client, ClientOf, Orphans, Live
    <3> QED
      BY <2>1, <3>1
  <2>2. CASE Next
    <3>1. Unseen => UNCHANGED Service!vars
      BY DEF Unseen, Service!vars
    <3> QED
      BY <2>2, <3>1, ServiceStep
  <2> QED
    BY <2>1, <2>2
<1> QED
  BY <1>1, <1>2, Invariance, PTL DEF Spec, ServiceSpec, Service!Spec
=============================================================================
