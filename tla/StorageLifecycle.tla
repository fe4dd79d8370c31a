-------------------------- MODULE StorageLifecycle --------------------------
(***************************************************************************)
(* The life of an index on disk: tentris_loader builds it and takes a      *)
(* snapshot, tentris_server serves it and, when the index was not closed   *)
(* properly, rebuilds it from the snapshot.  Either program may be killed  *)
(* at any point, and nothing but the "properly closed" mark that Metall    *)
(* keeps in a storage directory tells the next program what happened.      *)
(*                                                                         *)
(* Programs may overlap.  Two programs that use one directory at once, one *)
(* of them writing, are outside Metall's contract; the flag `contended'    *)
(* records that this has happened.                                         *)
(***************************************************************************)
EXTENDS Integers

CONSTANTS Servers,  \* the server processes that may be started
          Loader,   \* the loader process
          Batches   \* the number of bulks the RDF file is loaded in

ASSUME LifecycleAssumption == /\ Loader \notin Servers
                              /\ Batches \in Nat \ {0}

NoTensor == -1      \* no object "rdf-tensor" in the storage
Torn     == -2      \* the contents are not those of any closed storage

VARIABLES data,        \* the directory tentris_data
          snap,        \* the directory tentris_data_snapshot
          pc,          \* what each process is doing
          taken,       \* the loader has completed the snapshot of this index
          interrupted, \* a process died while it rebuilt this index
          contended

vars == <<data, snap, pc, taken, interrupted, contended>>

Procs == Servers \cup {Loader}
\* A directory is old if its contents are those of a file before the one that the
\* operator has had loaded last.
Dirs  == [there : BOOLEAN, marked : BOOLEAN, old : BOOLEAN,
          content : {Torn, NoTensor} \cup 0..Batches]

LoaderPcs == {"creating", "created", "loading", "loaded", "copying"}
ServerPcs == {"checking", "found", "restoring", "opening", "opened", "serving"}

\* The processes that write to, or have opened, the two directories.  The loader
\* closes its directory twice on the way, and a server may not rebuild it then.
DataWriters == {p \in Procs : pc[p] \in {"creating", "loading", "restoring", "opened", "serving"}}
DataUsers   == DataWriters \cup {p \in Procs : pc[p] = "copying"}
SnapUsers   == {p \in Procs : pc[p] \in {"copying", "restoring"}}

Conflict == \/ \E p \in DataWriters, q \in DataUsers : p # q
            \/ \E p, q \in SnapUsers : p # q
            \/ pc[Loader] # "off" /\ \E s \in Servers : pc[s] = "restoring"

-----------------------------------------------------------------------------
(* Metall, as the programs use it.                                         *)

\* metall_manager::consistent
Consistent(d) == d.there /\ d.marked

Nowhere == [there |-> FALSE, marked |-> FALSE, old |-> FALSE, content |-> NoTensor]
Fresh   == [there |-> TRUE, marked |-> FALSE, old |-> FALSE, content |-> NoTensor]
Mark(d) == [d EXCEPT !.marked = TRUE]

\* open_only takes the mark away, closing puts it back.
Unmark(d) == [d EXCEPT !.marked = FALSE]

\* snapshot(): the copy is there from the start and marked at the end.
BeginCopy == [there |-> TRUE, marked |-> FALSE, old |-> FALSE, content |-> Torn]
EndCopy(d) == [there |-> TRUE, marked |-> TRUE, old |-> d.old, content |-> d.content]

Init == /\ data = Nowhere
        /\ snap = Nowhere
        /\ pc = [p \in Procs |-> "off"]
        /\ taken = FALSE
        /\ interrupted = FALSE
        /\ contended = FALSE

Move(p, from, to) == /\ pc[p] = from
                     /\ pc' = [pc EXCEPT ![p] = to]
                     /\ contended' = (contended \/ Conflict')

-----------------------------------------------------------------------------
(* tentris_loader.                                                         *)

\* The loader refuses a path that exists; otherwise create_only.
LoaderCreates == /\ Move(Loader, "off", "creating")
                 /\ ~data.there
                 /\ data' = Fresh
                 /\ UNCHANGED <<snap, taken, interrupted>>

\* The temporary manager of line 93 is destroyed: the storage is closed.
LoaderCloses == /\ Move(Loader, "creating", "created")
                /\ data' = Mark(data)
                /\ UNCHANGED <<snap, taken, interrupted>>

\* find_or_construct makes an empty rdf-tensor unless there is one.
LoaderOpens == /\ Move(Loader, "created", "loading")
               /\ Consistent(data)
               /\ data' = [Unmark(data) EXCEPT !.content = IF @ = NoTensor THEN 0 ELSE @]
               /\ UNCHANGED <<snap, taken, interrupted>>

\* Mutant of LoadsBatch: a snapshot after every bulk.
LoadsAndCopies == /\ Move(Loader, "loading", "loading")
                  /\ data.content \in 0..(Batches - 1)
                  /\ data' = [data EXCEPT !.content = @ + 1]
                  /\ snap' = EndCopy(data')
                  /\ UNCHANGED <<taken, interrupted>>

LoadsBatch == /\ Move(Loader, "loading", "loading")
              /\ data.content \in 0..(Batches - 1)
              /\ data' = [data EXCEPT !.content = @ + 1]
              /\ UNCHANGED <<snap, taken, interrupted>>

\* Mutant of LoaderDone: an error in the file ends the loading, not the loader.
LoaderGivesUp == /\ Move(Loader, "loading", "loaded")
                 /\ data' = Mark(data)
                 /\ UNCHANGED <<snap, taken, interrupted>>

LoaderDone == /\ Move(Loader, "loading", "loaded")
              /\ data.content = Batches
              /\ data' = Mark(data)
              /\ UNCHANGED <<snap, taken, interrupted>>

\* Mutant of LoaderCopies: a snapshot that is there is taken for the new one.
LoaderKeepsCopy == /\ Move(Loader, "loaded", IF snap.there THEN "off" ELSE "copying")
                   /\ Consistent(data)
                   /\ snap' = IF snap.there THEN snap ELSE BeginCopy
                   /\ taken' = snap.there
                   /\ UNCHANGED <<data, interrupted>>

\* open_read_only leaves the mark of the index alone.
LoaderCopies == /\ Move(Loader, "loaded", "copying")
                /\ Consistent(data)
                /\ snap' = BeginCopy
                /\ UNCHANGED <<data, taken, interrupted>>

LoaderFinishes == /\ Move(Loader, "copying", "off")
                  /\ snap' = EndCopy(data)
                  /\ taken' = TRUE
                  /\ UNCHANGED <<data, interrupted>>

\* snapshot() returns false; line 153 does not look at the result.  It leaves a
\* torn copy or none at all; if it leaves the old one, it has not begun to copy,
\* and the loader has ended before (Dies).
CopyFails == /\ Move(Loader, "copying", "off")
             /\ snap' \in {snap, Nowhere}
             /\ UNCHANGED <<data, taken, interrupted>>

-----------------------------------------------------------------------------
(* tentris_server.                                                         *)

ChecksIndex(s) == /\ \/ Consistent(data) /\ Move(s, "off", "opening")
                     \/ ~Consistent(data) /\ Move(s, "off", "checking")
                  /\ UNCHANGED <<data, snap, taken, interrupted>>

FindsSnapshot(s) == /\ Move(s, "checking", "found")
                    /\ Consistent(snap)
                    /\ UNCHANGED <<data, snap, taken, interrupted>>

\* "No snapshot found. Please create a new index using tentris_loader."
NoSnapshot(s) == /\ Move(s, "checking", "off")
                 /\ ~Consistent(snap)
                 /\ UNCHANGED <<data, snap, taken, interrupted>>

Restores(s) == /\ Move(s, "found", "restoring")
               /\ Consistent(snap)
               /\ snap' = Unmark(snap)
               /\ data' = BeginCopy
               /\ UNCHANGED <<taken, interrupted>>

\* Mutant of Restored: the snapshot is not closed.
KeepsSnapshot(s) == /\ Move(s, "restoring", "opening")
                    /\ data' = EndCopy(snap)
                    /\ UNCHANGED <<snap, taken, interrupted>>

Restored(s) == /\ Move(s, "restoring", "opening")
               /\ data' = EndCopy(snap)
               /\ snap' = Mark(snap)
               /\ UNCHANGED <<taken, interrupted>>

\* snapshot() returns false; line 115 does not look at the result.  Whatever is
\* left at the index's path has no mark and is not opened.
RestoreFails(s) == /\ Move(s, "restoring", "opening")
                   /\ snap' = Mark(snap)
                   /\ UNCHANGED <<data, taken, interrupted>>

Opens(s) == /\ Move(s, "opening", "opened")
            /\ Consistent(data)
            /\ data' = Unmark(data)
            /\ UNCHANGED <<snap, taken, interrupted>>

Serves(s) == /\ Move(s, "opened", "serving")
             /\ data.content # NoTensor
             /\ UNCHANGED <<data, snap, taken, interrupted>>

\* SIGINT: the managers go out of scope after the last request was answered.
ShutsDown(s) == /\ Move(s, "serving", "off")
                /\ data' = Mark(data)
                /\ UNCHANGED <<snap, taken, interrupted>>

-----------------------------------------------------------------------------
(* A process ends without closing what it has opened: it is killed; open   *)
(* fails; the RDF file is missing (TripleStore.cpp:16); there is no        *)
(* rdf-tensor and exit(0) runs no destructor (TentrisServer.cpp:141); the  *)
(* timeout is 0 and value() throws (TentrisServer.cpp:155).                *)
Dies(p) == /\ pc[p] # "off"
           /\ Move(p, pc[p], "off")
           /\ data' = IF p \in DataWriters THEN [data EXCEPT !.content = Torn] ELSE data
           /\ interrupted' = (interrupted \/ pc[p] = "restoring")
           /\ UNCHANGED <<snap, taken>>

\* The operator makes room for the index of another file, the only way to run the
\* loader again on a path it refuses.  The snapshot stays.
OperatorRemoves == /\ data.there
                   /\ \A p \in Procs : pc[p] = "off"
                   /\ data' = Nowhere
                   /\ snap' = [snap EXCEPT !.old = TRUE]
                   /\ taken' = FALSE
                   /\ interrupted' = FALSE
                   /\ UNCHANGED <<pc, contended>>

LoaderStep == \/ LoaderCreates \/ LoaderCloses \/ LoaderOpens \/ LoadsBatch
              \/ LoaderDone \/ LoaderCopies \/ LoaderFinishes \/ CopyFails

ServerStep(s) == \/ ChecksIndex(s) \/ FindsSnapshot(s) \/ NoSnapshot(s)
                 \/ Restores(s) \/ Restored(s) \/ RestoreFails(s)
                 \/ Opens(s) \/ Serves(s) \/ ShutsDown(s)

Next == \/ LoaderStep
        \/ \E s \in Servers : ServerStep(s)
        \/ \E p \in Procs : Dies(p)
        \/ OperatorRemoves

Spec == Init /\ [][Next]_vars

-----------------------------------------------------------------------------
(* Properties.                                                             *)

TypeOK == /\ data \in Dirs
          /\ snap \in Dirs
          /\ pc \in [Procs -> {"off"} \cup LoaderPcs \cup ServerPcs]
          /\ taken \in BOOLEAN /\ interrupted \in BOOLEAN /\ contended \in BOOLEAN

\* What a server serves is the whole of a file the loader has loaded, whatever
\* was killed when and whatever failed half way: the mark alone is enough to
\* tell a whole index from a torn one.
ServesWhole ==
    ~contended => \A s \in Servers : pc[s] = "serving" => data.content = Batches

\* A snapshot that can be opened is whole.
SnapshotWhole == ~contended /\ Consistent(snap) => snap.content = Batches

\* Once the loader has finished, there is always a snapshot to rebuild the
\* index from, whatever is killed; unless it is killed in the middle of a
\* reconstruction.
Recoverable ==
    taken /\ ~interrupted /\ ~contended =>
        Consistent(snap) \/ \E s \in Servers : pc[s] = "restoring"

\* Once the loader has finished with a file, no server serves an older one,
\* whatever is killed and rebuilt.  Until then it may: a loader that is killed in
\* the middle of a new file leaves the snapshot of the last one, and the server
\* rebuilds the index from it without a word (TentrisServer.cpp, lines 108-117).
ServesCurrent ==
    taken /\ ~contended => \A s \in Servers : pc[s] = "serving" => ~data.old

\* "No snapshot found" (TentrisServer.cpp:119) is said when no snapshot is
\* there: not when the loader has completed one.
SaysNoSnapshotTruly == [][\A s \in Servers : NoSnapshot(s) => ~taken]_vars
=============================================================================
