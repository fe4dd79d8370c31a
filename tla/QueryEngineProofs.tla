--------------------------- MODULE QueryEngineProofs ---------------------------
(***************************************************************************)
(* The guarantees of TripleStore, RdfTools and QueryEngine, for every file *)
(* and every query.  LoadInv follows load_ttl through the file; WrittenInv *)
(* and SeenInv account for what a tool has read.  EngineInv puts them      *)
(* together with what QueryGraphProofs says of the visitor: its stacks,    *)
(* the names and IDs, and the graph.  TriplesInv and RejectInv follow the  *)
(* calls that are still to be done to the triple patterns and to whether   *)
(* the text is supported.  AnswerInv says that what has been evaluated are *)
(* the solutions.                                                          *)
(***************************************************************************)
EXTENDS QueryEngine, QueryGraphProofs

-----------------------------------------------------------------------------
(* TripleStore.                                                             *)

StoreType == /\ file \in Seq(Statements) \cup {Missing}
             /\ loading \in {"no", "reading", "done", "thrown"}
             /\ pos \in Nat \ {0}
             /\ bulk \in Seq(Triples)
             /\ errors \in Nat
             /\ tensor \in SUBSET Triples
             /\ IsFiniteSet(tensor)
             /\ reading \in {"no", "reading", "done", "thrown"}

\* What has been read of the file is in the tensor or waits in the bulk.
LoadInv == /\ Len(bulk) < BulkSize
           /\ file = Missing => /\ loading \in {"no", "thrown"}
                                /\ bulk = <<>> /\ tensor = {}
           /\ file # Missing => /\ pos <= Len(file) + 1
                                /\ tensor \cup Range(bulk) = TriplesUpTo(file, pos - 1)
           /\ loading = "done" => /\ file # Missing /\ bulk = <<>>
                                  /\ pos = Len(file) + 1

StoreInv == StoreType /\ LoadInv

-----------------------------------------------------------------------------
(* Lemmas.                                                                  *)

\* One statement more of a file.
LEMMA TriplesUpToNext ==
    ASSUME NEW f, NEW n \in Nat
    PROVE  TriplesUpTo(f, n + 1) = TriplesUpTo(f, n) \cup (IF f[n + 1] = Bad THEN {} ELSE {f[n + 1]})
  <1>1. 1..(n + 1) = 1..n \cup {n + 1}
    OBVIOUS
  <1>2. QED
    BY <1>1 DEF TriplesUpTo

LEMMA TriplesUpToNone == ASSUME NEW f PROVE TriplesUpTo(f, 0) = {}
  BY DEF TriplesUpTo

\* What the store returns for a key is finite.
LEMMA ObjectsFinite ==
    ASSUME IsFiniteSet(tensor), NEW n, NEW p
    PROVE  IsFiniteSet(Objects(n, p))
  <1> DEFINE key == <<n, p, Nullopt>>
             entry(t) == [k \in DOMAIN Free(key) |-> t[Free(key)[k]]]
             M == {u \in tensor : \A i \in 1..3 : key[i] \in {Nullopt, u[i]}}
             f == [t \in M |-> entry(t)[1]]
             T == {f[t] : t \in M}
  <1>1. IsFiniteSet(M)
    BY FS_Subset
  <1>2. f \in Surjection(M, T)
    BY DEF Surjection
  <1>3. IsFiniteSet(T)
    BY <1>1, <1>2, FS_Surjection
  <1>4. Objects(n, p) = {entry(t)[1] : t \in M}
    BY DEF Objects, Slice
  <1>5. \A t \in M : f[t] = entry(t)[1]
    OBVIOUS
  <1>6. Objects(n, p) = T
    <2> HIDE DEF entry, M
    <2>1. QED
      BY <1>4
  <1>7. QED
    BY <1>3, <1>6
-----------------------------------------------------------------------------
(* load_ttl.                                                                *)

\* The steps of load_ttl keep the types.
LEMMA LoadType == StoreType /\ LoadInv /\ load_ttl => StoreType'
  <1> SUFFICES ASSUME StoreType, LoadInv, load_ttl PROVE StoreType'
    OBVIOUS
  <1>1. CASE OpenFile
    BY <1>1 DEF OpenFile, StoreType, listVars
  <1>2. CASE ReadTriple
    <2>1. file \in Seq(Statements) /\ pos \in 1..Len(file)
      BY <1>2, StoreAssumption DEF ReadTriple, StoreType, LoadInv
    <2>2. file[pos] \in Triples
      BY <1>2, <2>1, ElementOfSeq DEF ReadTriple, Statements
    <2>3. Range(bulk) \in SUBSET Triples /\ IsFiniteSet(Range(bulk))
      BY RangeOfSeq, RangeFinite DEF StoreType
    <2>4. bulk' \in Seq(Triples)
      <3>1. Append(bulk, file[pos]) \in Seq(Triples) /\ <<>> \in Seq(Triples)
        BY <2>2, AppendProperties, EmptySeq DEF StoreType
      <3>2. QED
        BY <1>2, <3>1 DEF ReadTriple, Add
    <2>5. tensor' \in SUBSET Triples
      BY <1>2, <2>2, <2>3 DEF ReadTriple, Add, StoreType
    <2>6. IsFiniteSet(tensor')
      <3>1. IsFiniteSet(tensor \cup Range(bulk))
        BY <2>3, FS_Union DEF StoreType
      <3>2. IsFiniteSet((tensor \cup Range(bulk)) \cup {file[pos]})
        BY <3>1, FS_AddElement
      <3>3. QED
        BY <1>2, <3>2 DEF ReadTriple, Add, StoreType
    <2>7. QED
      BY <1>2, <2>4, <2>5, <2>6 DEF ReadTriple, StoreType, listVars
  <1>3. CASE ReadBad
    BY <1>3 DEF ReadBad, StoreType, listVars
  <1>4. CASE EndOfFile
    <2>1. Range(bulk) \in SUBSET Triples /\ IsFiniteSet(Range(bulk))
      BY RangeOfSeq, RangeFinite DEF StoreType
    <2>2. IsFiniteSet(tensor \cup Range(bulk))
      BY <2>1, FS_Union DEF StoreType
    <2>3. QED
      BY <1>4, <2>1, <2>2, EmptySeq DEF EndOfFile, StoreType, listVars
  <1>5. QED
    BY <1>1, <1>2, <1>3, <1>4 DEF load_ttl

\* They lose nothing.
LEMMA LoadKeeps == StoreType /\ LoadInv /\ load_ttl => LoadInv'
  <1> SUFFICES ASSUME StoreType, LoadInv, load_ttl PROVE LoadInv'
    OBVIOUS
  <1> USE StoreAssumption
  <1>1. CASE OpenFile
    BY <1>1 DEF OpenFile, LoadInv, StoreType
  <1>2. CASE ReadTriple
    <2>1. /\ file # Missing /\ file \in Seq(Statements) /\ pos \in 1..Len(file)
          /\ file[pos] # Bad /\ file[pos] \in Triples
      <3>1. file # Missing /\ file \in Seq(Statements)
        BY <1>2 DEF ReadTriple, StoreType, LoadInv
      <3>2. pos \in 1..Len(file)
        BY <1>2, <3>1 DEF ReadTriple, StoreType
      <3>3. QED
        BY <1>2, <3>1, <3>2, ElementOfSeq DEF ReadTriple, Statements
    <2>2. TriplesUpTo(file, pos) = TriplesUpTo(file, pos - 1) \cup {file[pos]}
      <3>1. pos - 1 \in Nat /\ (pos - 1) + 1 = pos
        BY DEF StoreType
      <3>2. QED
        BY <2>1, <3>1, TriplesUpToNext
    <2>3. tensor' \cup Range(bulk') = tensor \cup Range(bulk) \cup {file[pos]}
      <3>1. CASE Len(bulk) + 1 = BulkSize
        BY <1>2, <3>1, RangeEmpty DEF ReadTriple, Add
      <3>2. CASE Len(bulk) + 1 # BulkSize
        <4>1. bulk' = Append(bulk, file[pos]) /\ tensor' = tensor
          BY <1>2, <3>2 DEF ReadTriple, Add
        <4>2. Range(bulk') = Range(bulk) \cup {file[pos]}
          BY <2>1, <4>1, RangeAppend DEF StoreType
        <4>3. QED
          BY <4>1, <4>2
      <3>3. QED
        BY <3>1, <3>2
    <2>4. Len(bulk') < BulkSize
      <3>1. CASE Len(bulk) + 1 = BulkSize
        BY <1>2, <3>1, EmptySeq DEF ReadTriple, Add
      <3>2. CASE Len(bulk) + 1 # BulkSize
        <4>1. bulk' = Append(bulk, file[pos])
          BY <1>2, <3>2 DEF ReadTriple, Add
        <4>2. Len(bulk') = Len(bulk) + 1 /\ Len(bulk) \in Nat
          BY <4>1, <2>1, AppendProperties, LenProperties DEF StoreType
        <4>3. QED
          BY <4>2, <3>2 DEF LoadInv
      <3>3. QED
        BY <3>1, <3>2
    <2>5. tensor' \cup Range(bulk') = TriplesUpTo(file, pos)
      BY <2>1, <2>2, <2>3 DEF LoadInv
    <2>6. file' = file /\ pos' = pos + 1 /\ loading' = "reading"
      BY <1>2 DEF ReadTriple
    <2>7. pos' <= Len(file) + 1 /\ pos' - 1 = pos
      BY <2>1, <2>6, LenProperties DEF StoreType
    <2>8. QED
      BY <2>1, <2>4, <2>5, <2>6, <2>7 DEF LoadInv
  <1>3. CASE ReadBad
    <2>1. /\ file # Missing /\ file \in Seq(Statements) /\ pos \in 1..Len(file)
          /\ file[pos] = Bad
      BY <1>3 DEF ReadBad, StoreType, LoadInv
    <2>2. TriplesUpTo(file, pos) = TriplesUpTo(file, pos - 1)
      <3>1. pos - 1 \in Nat /\ (pos - 1) + 1 = pos
        BY DEF StoreType
      <3>2. TriplesUpTo(file, pos) = TriplesUpTo(file, pos - 1) \cup {}
        BY <2>1, <3>1, TriplesUpToNext
      <3>3. QED
        BY <3>2
    <2>3. /\ UNCHANGED <<file, loading, bulk, tensor>> /\ loading = "reading"
          /\ pos' = pos + 1
      BY <1>3 DEF ReadBad
    <2>4. pos' <= Len(file) + 1 /\ pos' - 1 = pos
      BY <2>1, <2>3, LenProperties DEF StoreType
    <2>5. QED
      BY <2>1, <2>2, <2>3, <2>4 DEF LoadInv
  <1>4. CASE EndOfFile
    <2>1. file # Missing /\ pos = Len(file) + 1
      <3>1. file # Missing /\ file \in Seq(Statements)
        BY <1>4 DEF EndOfFile, StoreType, LoadInv
      <3>2. QED
        BY <1>4, <3>1, LenProperties DEF EndOfFile, StoreType, LoadInv
    <2>2. tensor' \cup Range(bulk') = tensor \cup Range(bulk)
      BY <1>4, RangeEmpty DEF EndOfFile
    <2>3. QED
      BY <1>4, <2>1, <2>2, EmptySeq DEF EndOfFile, LoadInv
  <1>5. QED
    BY <1>1, <1>2, <1>3, <1>4 DEF load_ttl

LEMMA StoreBegins == StoreInit => StoreInv
  <1> SUFFICES ASSUME StoreInit PROVE StoreInv
    OBVIOUS
  <1>1. IsFiniteSet({}) /\ <<>> \in Seq(Triples) /\ <<>> \in Seq(Objects(list, First)) /\ Len(<<>>) = 0
    BY FS_EmptySet, EmptySeq
  <1>2. StoreType
    BY <1>1 DEF StoreInit, EmptyStore, StoreType
  <1>3. file # Missing => pos <= Len(file) + 1
    BY LenProperties DEF StoreInit, EmptyStore
  <1>4. tensor \cup Range(bulk) = TriplesUpTo(file, pos - 1)
    BY RangeEmpty, TriplesUpToNone DEF StoreInit, EmptyStore
  <1>5. LoadInv
    BY <1>1, <1>3, <1>4, StoreAssumption DEF StoreInit, EmptyStore, LoadInv
  <1>7. QED
    BY <1>2, <1>5 DEF StoreInv

LEMMA StoreGoesOn == StoreInv /\ [StoreNext]_storeVars => StoreInv'
  <1> SUFFICES ASSUME StoreInv, [StoreNext]_storeVars PROVE StoreInv'
    OBVIOUS
  <1> USE DEF StoreInv
  <1>1. CASE load_ttl
    BY <1>1, LoadType, LoadKeeps
  <1>2. CASE get_rdf_list(Nodes)
    BY <1>2 DEF get_rdf_list, StartList, NextItem, EndOfList, loadVars, StoreType, LoadInv
  <1>3. CASE UNCHANGED storeVars
    <2>1. UNCHANGED <<file, loading, pos, bulk, errors, tensor, reading, list, head, node_vector>>
      BY <1>3 DEF storeVars, loadVars, listVars
    <2>2. QED
      BY <2>1 DEF StoreType, LoadInv
  <1>4. QED
    BY <1>1, <1>2, <1>3 DEF StoreNext

-----------------------------------------------------------------------------

\* What load_ttl has read is in the tensor or in a bulk that is not full.
THEOREM StoreInvariance == StoreSpec => []StoreInv
  <1>1. QED
    BY StoreBegins, StoreGoesOn, PTL DEF StoreSpec

\* The variables keep their types, and the tensor is finite.
THEOREM StoreTypeCorrect == StoreSpec => []StoreType
  BY StoreInvariance, PTL DEF StoreInv

LEMMA StoreInvLoads == StoreInv => LoadsTheFile
  <1> SUFFICES ASSUME StoreInv PROVE LoadsTheFile
    OBVIOUS
  <1>1. file # Missing /\ loading = "done" => tensor = TriplesOf(file)
    <2> SUFFICES ASSUME file # Missing, loading = "done" PROVE tensor = TriplesOf(file)
      OBVIOUS
    <2>1. bulk = <<>> /\ tensor \cup Range(bulk) = TriplesUpTo(file, pos - 1)
      BY DEF StoreInv, LoadInv
    <2>2. pos - 1 = Len(file)
      BY LenProperties DEF StoreInv, LoadInv, StoreType
    <2>3. QED
      BY <2>1, <2>2, RangeEmpty DEF TriplesOf
  <1>2. QED
    BY <1>1 DEF StoreInv, LoadInv, LoadsTheFile

\* load_ttl loses nothing of a file, whatever the size of the bulks and wherever
\* the statements that are none are.
THEOREM FileIsLoaded == StoreSpec => []LoadsTheFile
  BY StoreInvLoads, StoreInvariance, PTL

-----------------------------------------------------------------------------
(* RdfTools.                                                                *)

ToolType == /\ source \in Seq(Statements)
            /\ distinct_ \in BOOLEAN
            /\ limit \in Nat
            /\ running \in {"no", "reading", "ended", "thrown"}
            /\ next_ \in Nat \ {0}
            /\ count_ \in Nat
            /\ output \in Seq(Triples)

\* The statements read so far that are triples.
Read(n) == {i \in 1..n : source[i] # Bad}

CountInv == /\ next_ <= Len(source) + 1
            /\ Len(output) <= limit
            /\ running # "ended" => count_ = Len(output)
            /\ running = "ended" => next_ = Len(source) + 1 \/ Len(output) = limit

WrittenInv ==
    /\ Range(output) \subseteq TriplesUpTo(source, next_ - 1)
    /\ distinct_ => \A t \in TriplesUpTo(source, next_ - 1) : Hash[t] \in deduplication
    /\ ~distinct_ => /\ Range(output) = TriplesUpTo(source, next_ - 1)
                     /\ Len(output) = Cardinality(Read(next_ - 1))

SeenInv ==
    distinct_ => /\ deduplication = {Hash[t] : t \in Range(output)}
                 /\ \A i, j \in 1..Len(output) : Hash[output[i]] = Hash[output[j]] => i = j

ToolInv == ToolType /\ CountInv /\ WrittenInv /\ SeenInv

-----------------------------------------------------------------------------

LEMMA ReadNext ==
    ASSUME NEW n \in Nat
    PROVE  /\ IsFiniteSet(Read(n))
           /\ source[n + 1] = Bad => Read(n + 1) = Read(n)
           /\ source[n + 1] # Bad => Cardinality(Read(n + 1)) = Cardinality(Read(n)) + 1
  <1>1. IsFiniteSet(1..n)
    BY FS_Interval
  <1>2. IsFiniteSet(Read(n))
    BY <1>1, FS_Subset DEF Read
  <1>3. 1..(n + 1) = 1..n \cup {n + 1} /\ n + 1 \notin 1..n
    OBVIOUS
  <1>4. source[n + 1] = Bad => Read(n + 1) = Read(n)
    BY <1>3 DEF Read
  <1>5. source[n + 1] # Bad => Read(n + 1) = Read(n) \cup {n + 1} /\ n + 1 \notin Read(n)
    BY <1>3 DEF Read
  <1>6. QED
    BY <1>2, <1>4, <1>5, FS_AddElement

\* The statement to be read next.
LEMMA AtNext ==
    ASSUME ToolType, next_ <= Len(source)
    PROVE  /\ source[next_] \in Statements
           /\ next_ - 1 \in Nat /\ (next_ - 1) + 1 = next_ /\ (next_ + 1) - 1 = next_
           /\ next_ + 1 <= Len(source) + 1 /\ next_ + 1 \in Nat \ {0}
           /\ TriplesUpTo(source, next_) = TriplesUpTo(source, next_ - 1)
                  \cup (IF source[next_] = Bad THEN {} ELSE {source[next_]})
           /\ source[next_] = Bad => Read(next_) = Read(next_ - 1)
           /\ source[next_] # Bad => Cardinality(Read(next_)) = Cardinality(Read(next_ - 1)) + 1
  <1>1. /\ next_ - 1 \in Nat /\ (next_ - 1) + 1 = next_ /\ (next_ + 1) - 1 = next_
        /\ next_ + 1 \in Nat \ {0} /\ Len(source) \in Nat /\ next_ \in 1..Len(source)
    BY LenProperties DEF ToolType
  <1>2. QED
    BY <1>1, ElementOfSeq, TriplesUpToNext, ReadNext DEF ToolType

LEMMA SkipKeeps == ToolInv /\ SkipStatement => ToolInv'
  <1> SUFFICES ASSUME ToolInv, SkipStatement PROVE ToolInv'
    OBVIOUS
  <1> USE DEF ToolInv
  <1>1. /\ running = "reading" /\ next_ <= Len(source) /\ next_' = next_ + 1
        /\ UNCHANGED <<source, distinct_, limit, running, count_, deduplication, output>>
    BY DEF SkipStatement, Reads
  <1>2. ToolType'
    BY <1>1, AtNext DEF ToolType
  <1>3. CountInv'
    BY <1>1, AtNext DEF CountInv
  <1>4. SeenInv'
    BY <1>1 DEF SeenInv
  <1>5. next_' - 1 = next_
    BY <1>1, AtNext
  <1>6. Range(output) \subseteq TriplesUpTo(source, next_)
    BY <1>1, AtNext DEF WrittenInv
  <1>7. ASSUME distinct_, NEW t \in TriplesUpTo(source, next_)
        PROVE  Hash[t] \in deduplication
    <2>1. CASE t \in TriplesUpTo(source, next_ - 1)
      BY <1>7, <2>1 DEF WrittenInv
    <2>2. CASE source[next_] # Bad /\ t = source[next_]
      BY <2>2 DEF SkipStatement, Skips
    <2>3. QED
      BY <1>1, <2>1, <2>2, AtNext
  <1>8. ASSUME ~distinct_
        PROVE  /\ Range(output) = TriplesUpTo(source, next_)
               /\ Len(output) = Cardinality(Read(next_))
    <2>1. source[next_] = Bad
      BY <1>8 DEF SkipStatement, Skips
    <2>2. QED
      BY <1>1, <1>8, <2>1, AtNext DEF WrittenInv
  <1>9. WrittenInv'
    <2>1. Read(next_ - 1)' = Read(next_)
      BY <1>1, <1>5 DEF Read
    <2>2. QED
      BY <1>1, <1>5, <1>6, <1>7, <1>8, <2>1 DEF WrittenInv
  <1>10. QED
    BY <1>2, <1>3, <1>4, <1>9

LEMMA WriteKeeps == ToolInv /\ WriteTriple => ToolInv'
  <1> SUFFICES ASSUME ToolInv, WriteTriple PROVE ToolInv'
    OBVIOUS
  <1> USE DEF ToolInv
  <1> DEFINE t == source[next_]
  <1>1. /\ running = "reading" /\ next_ <= Len(source) /\ next_' = next_ + 1
        /\ UNCHANGED <<source, distinct_, limit, running>>
        /\ count_' = count_ + 1 /\ ~(count_ + 1 > limit)
        /\ t # Bad /\ (distinct_ => Hash[t] \notin deduplication)
        /\ output' = Append(output, t)
        /\ deduplication' = IF distinct_ THEN deduplication \cup {Hash[t]} ELSE deduplication
    BY DEF WriteTriple, Reads, Skips, TerminatesAtLimit
  <1>2. t \in Triples
    BY <1>1, AtNext DEF Statements
  <1>3. /\ output' \in Seq(Triples) /\ Len(output) \in Nat /\ Len(output') = Len(output) + 1
        /\ \A i \in 1..Len(output) : output'[i] = output[i]
        /\ output'[Len(output) + 1] = t
        /\ Range(output') = Range(output) \cup {t}
        /\ \A i \in 1..Len(output) : output[i] \in Range(output)
    <2>1. output \in Seq(Triples)
      BY DEF ToolType
    <2>2. output' = Append(output, t)
      BY <1>1
    <2> HIDE DEF t
    <2>3. Range(output') = Range(output) \cup {t}
      BY <1>2, <2>1, <2>2, RangeAppend
    <2>4. \A i \in 1..Len(output) : output[i] \in Range(output)
      BY <2>1, LenProperties DEF Range
    <2>5. QED
      BY <1>2, <2>1, <2>2, <2>3, <2>4, AppendProperties, LenProperties
  <1>4. next_' - 1 = next_
    BY <1>1, AtNext
  <1>5. TriplesUpTo(source, next_) = TriplesUpTo(source, next_ - 1) \cup {t}
    BY <1>1, AtNext
  <1>6. Cardinality(Read(next_)) = Cardinality(Read(next_ - 1)) + 1
    BY <1>1, AtNext
  <1> HIDE DEF t
  <1>7. ToolType'
    BY <1>1, <1>3, AtNext DEF ToolType
  <1>8. CountInv'
    BY <1>1, <1>3, AtNext DEF CountInv, ToolType
  <1>9. WrittenInv'
    <2>1. Read(next_ - 1)' = Read(next_)
      BY <1>1, <1>4 DEF Read
    <2>2. Range(output') \subseteq TriplesUpTo(source, next_)
      BY <1>3, <1>5 DEF WrittenInv
    <2>3. distinct_ => \A u \in TriplesUpTo(source, next_) : Hash[u] \in deduplication'
      BY <1>1, <1>5 DEF WrittenInv
    <2>4. ~distinct_ => /\ Range(output') = TriplesUpTo(source, next_)
                        /\ Len(output') = Cardinality(Read(next_))
      BY <1>3, <1>5, <1>6 DEF WrittenInv
    <2>5. QED
      BY <1>1, <1>4, <2>1, <2>2, <2>3, <2>4 DEF WrittenInv
  <1>10. SeenInv'
    <2> SUFFICES ASSUME distinct_
                 PROVE  /\ deduplication' = {Hash[u] : u \in Range(output')}
                        /\ \A i, j \in 1..Len(output') : Hash[output'[i]] = Hash[output'[j]] => i = j
      BY <1>1 DEF SeenInv
    <2>1. deduplication = {Hash[u] : u \in Range(output)} /\ Hash[t] \notin deduplication
      BY <1>1 DEF SeenInv
    <2>2. deduplication' = {Hash[u] : u \in Range(output')}
      BY <1>1, <1>3, <2>1
    <2>3. 1..Len(output') = 1..Len(output) \cup {Len(output) + 1}
      BY <1>3
    <2>4. \A i \in 1..Len(output) : Hash[output[i]] # Hash[t]
      BY <1>3, <2>1
    <2>5. \A i, j \in 1..Len(output) : Hash[output[i]] = Hash[output[j]] => i = j
      BY DEF SeenInv
    <2>6. \A i, j \in 1..Len(output') : Hash[output'[i]] = Hash[output'[j]] => i = j
      BY <1>3, <2>3, <2>4, <2>5
    <2>7. QED
      BY <2>2, <2>6
  <1>11. QED
    BY <1>7, <1>8, <1>9, <1>10

LEMMA ToolBegins == ToolInit => ToolInv
  <1> SUFFICES ASSUME ToolInit PROVE ToolInv
    OBVIOUS
  <1>1. ToolType
    BY EmptySeq DEF ToolInit, ToolStart, ToolType
  <1>2. CountInv
    BY EmptySeq, LenProperties DEF ToolInit, ToolStart, CountInv
  <1>3. Read(0) = {}
    BY DEF Read
  <1>4. WrittenInv
    <2>1. next_ - 1 = 0 /\ output = <<>>
      BY DEF ToolInit, ToolStart
    <2>2. TriplesUpTo(source, next_ - 1) = {} /\ Range(output) = {} /\ Read(next_ - 1) = {}
      BY <1>3, <2>1, RangeEmpty, TriplesUpToNone
    <2>3. Len(output) = 0 /\ Cardinality({}) = 0
      BY <2>1, EmptySeq, FS_EmptySet
    <2>4. QED
      BY <2>2, <2>3 DEF WrittenInv
  <1>5. SeenInv
    BY RangeEmpty, EmptySeq DEF ToolInit, ToolStart, SeenInv
  <1>6. QED
    BY <1>1, <1>2, <1>4, <1>5 DEF ToolInv

LEMMA ToolGoesOn == ToolInv /\ [ToolNext]_toolVars => ToolInv'
  <1> SUFFICES ASSUME ToolInv, [ToolNext]_toolVars PROVE ToolInv'
    OBVIOUS
  <1> USE DEF ToolInv, ToolType, CountInv, WrittenInv, SeenInv, Read
  <1>1. CASE OpenSource
    BY <1>1 DEF OpenSource
  <1>5. CASE CannotOpen
    BY <1>5 DEF CannotOpen
  <1>2. CASE QuitAtLimit
    <2>1. Len(output) \in Nat
      BY LenProperties
    <2>2. Len(output) = limit
      BY <1>2, <2>1 DEF QuitAtLimit, TerminatesAtLimit, Reads
    <2>3. QED
      BY <1>2, <2>2 DEF QuitAtLimit, TerminatesAtLimit, Reads
  <1>3. CASE EndOfSource
    <2>1. Len(source) \in Nat
      BY LenProperties
    <2>2. next_ = Len(source) + 1
      BY <1>3, <2>1 DEF EndOfSource
    <2>3. QED
      BY <1>3, <2>2 DEF EndOfSource
  <1>4. CASE UNCHANGED toolVars
    BY <1>4 DEF toolVars
  <1> HIDE DEF ToolInv
  <1>6. QED
    BY <1>1, <1>2, <1>3, <1>4, <1>5, SkipKeeps, WriteKeeps DEF ToolNext

-----------------------------------------------------------------------------

\* What has been read is accounted for: written, or its hash is among those
\* seen; and the count is that of the lines written.
THEOREM ToolInvariance == ToolSpec => []ToolInv
  <1>1. QED
    BY ToolBegins, ToolGoesOn, PTL DEF ToolSpec

LEMMA ToolInvWrites == ToolInv => WritesWhatItReads
  <1> SUFFICES ASSUME ToolInv PROVE WritesWhatItReads
    OBVIOUS
  <1> USE DEF ToolInv
  <1>1. /\ Len(source) \in Nat /\ DOMAIN source = 1..Len(source)
        /\ Len(output) \in Nat /\ DOMAIN output = 1..Len(output)
    BY LenProperties DEF ToolType
  <1>2. TriplesUpTo(source, next_ - 1) \subseteq TriplesOf(source)
    <2>1. next_ \in Nat /\ next_ <= Len(source) + 1
      BY DEF ToolType, CountInv
    <2>2. 1..(next_ - 1) \subseteq 1..Len(source)
      BY <1>1, <2>1
    <2>3. QED
      BY <2>2 DEF TriplesUpTo, TriplesOf
  <1>3. ASSUME running = "ended", Len(output) < limit
        PROVE  next_ - 1 = Len(source)
    <2>1. next_ = Len(source) + 1
      <3>1. Len(output) \in Nat /\ limit \in Nat
        BY LenProperties DEF ToolType
      <3>2. \A m, n \in Nat : m < n => m # n
        OBVIOUS
      <3>3. Len(output) # limit
        BY <1>3, <3>1, <3>2
      <3>4. QED
        BY <1>3, <3>3 DEF CountInv
    <2>2. QED
      BY <1>1, <2>1
  <1>4. ASSUME running = "ended", Len(output) < limit, HashIsPerfect, distinct_
        PROVE  Range(output) = TriplesOf(source)
    <2>1. \A t \in TriplesOf(source) : Hash[t] \in {Hash[u] : u \in Range(output)}
      BY <1>3, <1>4 DEF WrittenInv, SeenInv, TriplesOf
    <2>2. \A t \in TriplesOf(source) : t \in Range(output)
      BY <1>2, <1>4, <2>1 DEF WrittenInv, HashIsPerfect
    <2>3. QED
      BY <1>2, <2>2 DEF WrittenInv
  <1>5. ASSUME running = "ended", Len(output) < limit, ~distinct_
        PROVE  /\ Range(output) = TriplesOf(source)
               /\ Len(output) = Cardinality({i \in DOMAIN source : source[i] # Bad})
    BY <1>1, <1>3, <1>5 DEF WrittenInv, TriplesOf, Read
  <1>6. Len(output) <= limit /\ Range(output) \subseteq TriplesOf(source)
    BY <1>2 DEF CountInv, WrittenInv
  <1>7. distinct_ => \A i, j \in DOMAIN output : Hash[output[i]] = Hash[output[j]] => i = j
    BY <1>1 DEF SeenInv
  <1>8. QED
    BY <1>4, <1>5, <1>6, <1>7 DEF WritesWhatItReads, ToolType

\* The tools write what they read and no more than the limit: once when
\* deduplicating, and then all of it if the hash tells the triples of the file
\* apart; as often as it is there otherwise.
THEOREM ToolsWriteWhatTheyRead == ToolSpec => []WritesWhatItReads
  BY ToolInvWrites, ToolInvariance, PTL

\* One call for each argument.
OneEach(f, T) == [x \in T |-> <<Call(f, x)>>]

LEMMA CallsAre ==
    ASSUME NEW f, NEW T, NEW C, NEW s \in Seq(T), \A x \in T : Call(f, x) \in C
    PROVE  Calls(f, s) = Flat(OneEach(f, T), s) /\ Maps(OneEach(f, T), T, Seq(C))
<1> DEFINE h == OneEach(f, T)
           k == [x \in T |-> Call(f, x)]
<1>1. Maps(h, T, Seq(C)) /\ Maps(k, T, C) /\ \A x \in T : h[x] = <<k[x]>>
    BY DEF OneEach, Maps
<1>2. \A u \in Seq(T) : Calls(f, u) = Mapped(k, u)
    <2> SUFFICES ASSUME NEW u \in Seq(T) PROVE Calls(f, u) = Mapped(k, u)
        OBVIOUS
    <2>1. \A i \in DOMAIN u : u[i] \in T
        BY LenProperties, ElementOfSeq
    <2> QED BY <2>1 DEF Calls, Mapped
<1> HIDE DEF h, k
<1>3. \A u \in Seq(T), x \in T : /\ Mapped(k, Append(u, x)) = Append(Mapped(k, u), k[x])
                                 /\ Flat(h, Append(u, x)) = Flat(h, u) \o h[x]
                                 /\ Mapped(k, u) \in Seq(C)
    BY <1>1, MappedAppend, MappedType, FlatAppend
<1>31. \A u \in Seq(C), x \in C : Append(u, x) = u \o <<x>>
    BY AppendIsConcat
<1> DEFINE P == {u \in Seq(T) : Mapped(k, u) = Flat(h, u)}
<1>4. <<>> \in P
    BY MappedEmpty, FlatEmpty
<1>5. ASSUME NEW u \in Seq(T), NEW x \in T, u \in P PROVE Append(u, x) \in P
    <2>1. k[x] \in C
        BY <1>1 DEF Maps
    <2>2. Mapped(k, Append(u, x)) = Mapped(k, u) \o <<k[x]>>
        BY <1>3, <1>31, <2>1
    <2>3. Mapped(k, Append(u, x)) = Flat(h, Append(u, x))
        BY <1>1, <1>3, <1>5, <2>2
    <2> QED BY <2>3, AppendProperties
<1>6. Seq(T) \subseteq P
    <2> HIDE DEF P
    <2> QED BY <1>4, <1>5, SeqInduction
<1>7. Calls(f, s) = Flat(h, s)
    BY <1>2, <1>6
<1> QED BY <1>1, <1>7 DEF h

-----------------------------------------------------------------------------
(* What is known when a call is made, and how many triple patterns there    *)
(* are, by their weights.                                                   *)

\* The stacks, of which the last blocks and OPTIONAL groups are only the first
\* ones there are if they are not exact; the prefixes; and whether the subject,
\* or the predicate too, has been seen.
Context == [tb : Seq(Seq(Blocks)), ob : Seq(Seq(Group)), exact : BOOLEAN,
            decl : PrefixMaps, seen : 0..2, subject : Visited, predicate : Visited]
Counted == Context \X Nat

Kept(s, t) == /\ Len(s) = Len(t)
              /\ \A i \in 1..Len(s) : IF i = Len(s) THEN IsPrefix(s[i], t[i]) ELSE s[i] = t[i]

\* Less is known in b than in a.
Weaker(b, a) ==
    /\ b.decl = a.decl
    /\ b.seen <= a.seen
    /\ b.seen >= 1 => b.subject = a.subject
    /\ b.seen = 2 => b.predicate = a.predicate
    /\ b.exact => a.exact /\ b.tb = a.tb /\ b.ob = a.ob
    /\ ~b.exact => Kept(b.tb, a.tb) /\ Kept(b.ob, a.ob)

Weakens(y, x) == y[2] = x[2] /\ Weaker(y[1], x[1])

LEMMA KeptFacts ==
    ASSUME NEW S
    PROVE  /\ \A s \in Seq(Seq(S)) : Kept(s, s)
           /\ \A s, t, u \in Seq(Seq(S)) : Kept(s, t) /\ Kept(t, u) => Kept(s, u)
<1>1. ASSUME NEW s \in Seq(Seq(S)) PROVE Kept(s, s)
    <2>1. \A i \in 1..Len(s) : IsPrefix(s[i], s[i])
        BY ElementOfSeq, PrefixOfItself
    <2> QED BY <2>1 DEF Kept
<1>2. ASSUME NEW s \in Seq(Seq(S)), NEW t \in Seq(Seq(S)), NEW u \in Seq(Seq(S)), Kept(s, t), Kept(t, u)
      PROVE  Kept(s, u)
    <2>1. Len(s) = Len(t) /\ Len(s) = Len(u)
        BY <1>2 DEF Kept
    <2>2. ASSUME NEW i \in 1..Len(s) PROVE IF i = Len(s) THEN IsPrefix(s[i], u[i]) ELSE s[i] = u[i]
        <3>1. s[i] \in Seq(S) /\ t[i] \in Seq(S) /\ u[i] \in Seq(S)
            BY <2>1, ElementOfSeq
        <3>2. CASE i = Len(s)
            <4>1. IsPrefix(s[i], t[i]) /\ IsPrefix(t[i], u[i])
                BY <1>2, <2>1, <3>2 DEF Kept
            <4> QED BY <3>1, <3>2, <4>1, PrefixTransitive
        <3>3. CASE i # Len(s)
            BY <1>2, <2>1, <3>3 DEF Kept
        <3> QED BY <3>2, <3>3
    <2> QED BY <2>1, <2>2 DEF Kept
<1> QED BY <1>1, <1>2

LEMMA ContextType ==
    ASSUME NEW c \in Context
    PROVE  /\ c.tb \in Seq(Seq(Blocks)) /\ c.ob \in Seq(Seq(Group)) /\ c.exact \in BOOLEAN
           /\ c.decl \in PrefixMaps /\ c.seen \in 0..2 /\ c.subject \in Visited /\ c.predicate \in Visited
BY DEF Context

LEMMA WeakerFacts ==
    /\ \A a \in Context : Weaker(a, a)
    /\ \A a, b, c \in Context : Weaker(c, b) /\ Weaker(b, a) => Weaker(c, a)
<1>1. ASSUME NEW a \in Context PROVE Weaker(a, a)
    <2>1. Kept(a.tb, a.tb) /\ Kept(a.ob, a.ob)
        BY ContextType, KeptFacts
    <2>2. a.seen <= a.seen
        BY ContextType
    <2> QED BY <2>1, <2>2 DEF Weaker
<1>2. ASSUME NEW a \in Context, NEW b \in Context, NEW c \in Context, Weaker(c, b), Weaker(b, a)
      PROVE  Weaker(c, a)
    <2>1. c.seen \in 0..2 /\ b.seen \in 0..2 /\ a.seen \in 0..2 /\ c.seen <= b.seen /\ b.seen <= a.seen
        BY <1>2, ContextType DEF Weaker
    <2>2. c.decl = a.decl /\ c.seen <= a.seen /\ (c.seen >= 1 => c.subject = a.subject)
          /\ (c.seen = 2 => c.predicate = a.predicate)
        <3>1. c.seen <= a.seen /\ (c.seen >= 1 => b.seen >= 1) /\ (c.seen = 2 => b.seen = 2)
            BY <2>1
        <3> QED BY <1>2, <3>1 DEF Weaker
    <2>3. c.exact => a.exact /\ c.tb = a.tb /\ c.ob = a.ob
        BY <1>2 DEF Weaker
    <2>4. ASSUME ~c.exact PROVE Kept(c.tb, a.tb) /\ Kept(c.ob, a.ob)
        <3>0. /\ a.tb \in Seq(Seq(Blocks)) /\ b.tb \in Seq(Seq(Blocks)) /\ c.tb \in Seq(Seq(Blocks))
              /\ a.ob \in Seq(Seq(Group)) /\ b.ob \in Seq(Seq(Group)) /\ c.ob \in Seq(Seq(Group))
            BY ContextType
        <3>1. Kept(c.tb, b.tb) /\ Kept(c.ob, b.ob)
            BY <1>2, <2>4 DEF Weaker
        <3>2. Kept(b.tb, a.tb) /\ Kept(b.ob, a.ob)
            BY <1>2, <3>0, KeptFacts DEF Weaker
        <3>3. Kept(c.tb, a.tb)
            BY <3>0, <3>1, <3>2, KeptFacts
        <3>4. Kept(c.ob, a.ob)
            BY <3>0, <3>1, <3>2, KeptFacts
        <3> QED BY <3>3, <3>4
    <2> QED BY <2>2, <2>3, <2>4 DEF Weaker
<1> QED BY <1>1, <1>2

LEMMA WeakensFacts ==
    /\ \A x \in Counted : Weakens(x, x)
    /\ \A x, y, z \in Counted : Weakens(z, y) /\ Weakens(y, x) => Weakens(z, x)
<1>1. \A x \in Counted : x[1] \in Context
    BY DEF Counted
<1> QED BY <1>1, WeakerFacts DEF Weakens

-----------------------------------------------------------------------------
(* What calls do.                                                           *)

SubjectSeen(a, x)   == [tb |-> a.tb, ob |-> a.ob, exact |-> a.exact, decl |-> a.decl,
                        seen |-> 1, subject |-> x, predicate |-> a.predicate]
PredicateSeen(a, x) == [tb |-> a.tb, ob |-> a.ob, exact |-> a.exact, decl |-> a.decl,
                        seen |-> 2, subject |-> a.subject, predicate |-> x]

Declaring(a, d)     == [tb |-> a.tb, ob |-> a.ob, exact |-> a.exact, decl |-> visitPrefixDecl(a.decl, d),
                        seen |-> a.seen, subject |-> a.subject, predicate |-> a.predicate]
Stacked(a, tb, ob, exact) == [tb |-> tb, ob |-> ob, exact |-> exact, decl |-> a.decl,
                              seen |-> a.seen, subject |-> a.subject, predicate |-> a.predicate]
Exactly(a, exact)   == Stacked(a, a.tb, a.ob, exact)
Popped(a)           == Stacked(a, Pop(a.tb), Pop(a.ob), TRUE)

\* From a context a, of which the calls within blocks know more each time, and
\* a number, to another.
Leads(W, D, c, a, m, b, n) ==
    \/ /\ c.visit = "prefix" /\ a.seen = 0
       /\ b = Declaring(a, c.arg) /\ n = m
    \/ /\ c.visit \in {"where", "optional"} /\ a.seen = 0 /\ a.decl = D /\ a.exact
       /\ b = a /\ n = m + GroupWeight(W, D)[c.arg]
    \/ /\ c.visit \in {"select", "variable", "close"} /\ a.seen = 0
       /\ b = a /\ n = m
    \/ /\ c.visit = "pattern" /\ a.seen = 0 /\ a.decl = D /\ a.exact /\ a.tb # <<>> /\ a.ob # <<>>
       /\ b = Exactly(a, FALSE)
       /\ n = m + Value(Shift(FullWeight(W, D), Base(Top(a.tb), Top(a.ob))), c.arg.group, c.arg.gous)
    \/ /\ c.visit = "resize" /\ a.seen = 0 /\ a.tb # <<>> /\ a.ob # <<>>
       /\ c.arg = <<Len(Top(a.tb)), Len(Top(a.ob))>>
       /\ b = Exactly(a, TRUE) /\ n = m
    \/ /\ c.visit = "depend" /\ a.seen = 0 /\ a.decl = D /\ a.exact /\ a.ob # <<>>
       /\ b = a /\ n = m + Sum(GroupWeight(W, D), Top(a.ob))
    \/ /\ c.visit \in {"leave", "end"} /\ a.seen = 0 /\ a.tb # <<>> /\ a.ob # <<>>
       /\ b = Popped(a) /\ n = m
    \/ /\ c.visit = "block" /\ a.seen = 0 /\ a.decl = D
       /\ b = a /\ n = m + BlockWeight(W, D)[c.arg]
    \/ /\ c.visit = "subject" /\ a.seen = 0 /\ a.decl = D
       /\ b = a /\ n = m + SubjectWeight(W, D)[c.arg]
    \/ /\ c.visit = "property" /\ a.seen = 1 /\ a.decl = D
       /\ b = a /\ n = m + PropertiesWeight(W, D, a.subject)[c.arg]
    \/ /\ c.visit = "verb" /\ a.seen = 1 /\ a.decl = D
       /\ b = PredicateSeen(a, VerbNode(D, c.arg)) /\ n = m
    \/ /\ c.visit = "object" /\ a.seen = 2 /\ a.decl = D
       /\ b = a /\ n = m + TermWeight(W, D, a.subject, a.predicate)[c.arg]

Does(W, D) == {m \in Frame \X Counted \X Counted :
                   \E z \in Counted : /\ Leads(W, D, m[1], m[2][1], m[2][2], z[1], z[2])
                                      /\ Weakens(m[3], z)}

\* What is known now, at best.
Here == [tb |-> triples_blocks, ob |-> optional_blocks, exact |-> TRUE, decl |-> prefixes,
         seen |-> 2, subject |-> active_subject, predicate |-> active_predicate]
Now(W) == <<Here, Sum(W, triple_patterns)>>

\* The calls that are still to be done lead to y.
LeadsTo(W, D, y) ==
    \E x \in Counted : Weakens(x, Now(W)) /\ Runs(Does(W, D), Counted, visits, x, y)

LEMMA NowType ==
    ASSUME NEW W \in Weights, GraphType
    PROVE  Here \in Context /\ Sum(W, triple_patterns) \in Nat /\ Now(W) \in Counted
<1>1. Node \subseteq Visited /\ Seq(Node \X Node \X Node) \subseteq Seq(Triple)
    <2>1. Node \subseteq Visited
        BY DEF Visited
    <2>2. Node \X Node \X Node \subseteq Triple
        BY <2>1 DEF Triple
    <2> QED BY <2>1, <2>2, SeqMonotonic
<1>2. triple_patterns \in Seq(Triple) /\ W \in [Triple -> Nat]
    BY <1>1 DEF GraphType, OdgType, Weights
<1>3. Sum(W, triple_patterns) \in Nat
    BY <1>2, SumType
<1>4. Here \in Context
    <2>1. triples_blocks \in Seq(Seq(Blocks)) /\ optional_blocks \in Seq(Seq(Group)) /\ prefixes \in PrefixMaps
        BY DEF GraphType, NamesType, StacksType
    <2>2. active_subject \in Visited /\ active_predicate \in Visited
        BY <1>1 DEF GraphType, NamesType
    <2>3. TRUE \in BOOLEAN /\ 2 \in 0..2
        OBVIOUS
    <2> QED BY <2>1, <2>2, <2>3 DEF Context, Here
<1>5. <<Here, Sum(W, triple_patterns)>> \in Context \X Nat
    BY <1>3, <1>4
<1> QED BY <1>3, <1>4, <1>5 DEF Now, Counted

\* The last of some calls may leave less known.
LEMMA RunWeakens ==
    ASSUME NEW W, NEW D, NEW s \in Seq(Frame), NEW x \in Counted, NEW z \in Counted, NEW y \in Counted,
           Runs(Does(W, D), Counted, s, x, z), Weakens(y, z)
    PROVE  \E v \in Counted : Weakens(v, x) /\ Runs(Does(W, D), Counted, s, v, y)
<1> DEFINE R == Does(W, D)
<1>1. CASE s = <<>>
    <2>1. x = z
        BY <1>1, RunNone
    <2>2. Runs(R, Counted, s, y, y)
        BY <1>1, RunNone
    <2> QED BY <2>1, <2>2
<1>2. CASE s # <<>>
    <2> DEFINE n == Len(s)
    <2>1. PICK G \in [1..(n + 1) -> Counted] : RunsAlong(R, s, x, z, G)
        BY DEF Runs
    <2>2. n \in Nat \ {0}
        BY <1>2, EmptySeq
    <2> DEFINE H == [i \in 1..(n + 1) |-> IF i = n + 1 THEN y ELSE G[i]]
    <2>3. H \in [1..(n + 1) -> Counted] /\ H[n + 1] = y /\ \A i \in 1..n : H[i] = G[i]
        BY <2>2
    <2> HIDE DEF H
    <2>4. G[1] = x /\ G[n + 1] = z /\ \A i \in 1..n : <<s[i], G[i], G[i + 1]>> \in R
        BY <2>1 DEF RunsAlong
    <2>5. H[1] = x
        BY <2>2, <2>3, <2>4
    <2>6. <<s[n], G[n], y>> \in R
        <3>1. n \in 1..n /\ n \in 1..(n + 1) /\ n + 1 \in 1..(n + 1)
            BY <2>2
        <3>2. <<s[n], G[n], z>> \in R
            BY <3>1, <2>4
        <3> DEFINE c == s[n]
                   g == G[n]
        <3>3. c \in Frame /\ g \in Counted
            BY <3>1, ElementOfSeq
        <3> HIDE DEF c, g
        <3>4. PICK w \in Counted : Leads(W, D, c, g[1], g[2], w[1], w[2]) /\ Weakens(z, w)
            BY <3>2 DEF Does, c, g
        <3>5. Weakens(y, w)
            BY <3>4, WeakensFacts
        <3>6. <<c, g, y>> \in R
            BY <3>3, <3>4, <3>5 DEF Does
        <3> QED BY <3>6 DEF c, g
    <2> HIDE DEF R
    <2>7. ASSUME NEW i \in 1..n PROVE <<s[i], H[i], H[i + 1]>> \in R
        <3>1. CASE i = n
            BY <3>1, <2>2, <2>3, <2>6
        <3>2. CASE i # n
            <4>1. i + 1 \in 1..n
                BY <3>2, <2>2
            <4> QED BY <4>1, <2>3, <2>4
        <3> QED BY <3>1, <3>2
    <2>8. RunsAlong(R, s, x, y, H)
        BY <2>3, <2>5, <2>7 DEF RunsAlong
    <2>9. Runs(R, Counted, s, x, y)
        BY <2>3, <2>8 DEF Runs
    <2> QED BY <2>9, WeakensFacts DEF R
<1> QED BY <1>1, <1>2

-----------------------------------------------------------------------------
(* What a step leaves to be done.                                           *)

LEMMA NowTypes == GraphType => Here \in Context /\ \A W \in Weights : Sum(W, triple_patterns) \in Nat
<1> DEFINE Z == [t \in Triple |-> 0]
<1>1. Z \in Weights
    BY DEF Weights
<1> HIDE DEF Z
<1> QED BY <1>1, NowType

LEMMA NowTypeNext == (GraphType => Here \in Context /\ \A W \in Weights : Sum(W, triple_patterns) \in Nat)'
BY NowTypes, PTL

\* A step replaces a call by others that together do what it does.
LEMMA StepLeads ==
    ASSUME NEW W \in Weights, NEW D \in PrefixMaps, NEW y \in Counted,
           Shape, Shape', LeadsTo(W, D, y), visits # <<>>,
           NEW calls \in Seq(Frame), Do(calls),
           \A a, b \in Context, n \in Nat :
               Weaker(a, Here) /\ Leads(W, D, Head(visits), a, Sum(W, triple_patterns), b, n)
               => \E c, d \in Context : /\ Weaker(c, Here') /\ Weaker(b, d)
                                        /\ Runs(Does(W, D), Counted, calls,
                                                <<c, Sum(W, triple_patterns')>>, <<d, n>>)
    PROVE  LeadsTo(W, D, y)'
<1> DEFINE m == Sum(W, triple_patterns)
           k == Sum(W, triple_patterns')
           R == Does(W, D)
           t == Tail(visits)
           f == Head(visits)
<1>1. Here \in Context /\ m \in Nat /\ Here' \in Context /\ k \in Nat
    <2>1. Here' \in Context /\ k \in Nat
        BY NowTypeNext DEF Shape
    <2> QED BY <2>1, NowType DEF Shape
<1>2. visits \in Seq(Frame) /\ t \in Seq(Frame) /\ f \in Frame
    BY HeadTailProperties DEF Shape, GraphType, CallsType
<1>3. PICK x \in Counted : Weakens(x, Now(W)) /\ Runs(R, Counted, visits, x, y)
    BY DEF LeadsTo
<1>4. PICK z \in Counted : <<f, x, z>> \in R /\ Runs(R, Counted, t, z, y)
    <2> HIDE DEF R
    <2> QED BY <1>2, <1>3, RunFirst
<1>5. PICK u \in Counted : Leads(W, D, f, x[1], x[2], u[1], u[2]) /\ Weakens(z, u)
    BY <1>2, <1>4 DEF Does
<1>6. /\ x[1] \in Context /\ u[1] \in Context /\ u[2] \in Nat /\ u = <<u[1], u[2]>>
      /\ Weaker(x[1], Here) /\ x[2] = m
    BY <1>3 DEF Counted, Weakens, Now
<1> HIDE DEF m, k
<1>7. PICK c, d \in Context : /\ Weaker(c, Here') /\ Weaker(u[1], d)
                             /\ Runs(R, Counted, calls, <<c, k>>, <<d, u[2]>>)
    BY <1>5, <1>6 DEF m, k
<1> DEFINE w == <<c, k>>
<1>8. w \in Counted
    BY <1>1 DEF Counted
<1> HIDE DEF w
<1>9. PICK v \in Counted : Weakens(v, w) /\ Runs(R, Counted, calls, v, z)
    <2> DEFINE e == <<d, u[2]>>
    <2>1. Runs(R, Counted, calls, w, e)
        BY <1>7 DEF w
    <2>2. e \in Counted /\ Weakens(u, e)
        BY <1>6, <1>7 DEF Counted, Weakens
    <2> HIDE DEF e, R
    <2>3. Weakens(z, e)
        BY <1>5, <2>2, WeakensFacts
    <2> QED BY <1>8, <2>1, <2>2, <2>3, RunWeakens DEF R
<1>10. Runs(R, Counted, calls \o t, v, y)
    <2> HIDE DEF R, t
    <2> QED BY <1>2, <1>4, <1>9, RunOn
<1>11. Weakens(v, Now(W)')
    <2>1. Now(W)' = <<Here', k>> /\ Now(W)' \in Counted
        BY <1>1 DEF Now, k, Counted
    <2>2. Weakens(w, Now(W)')
        BY <1>7, <2>1 DEF w, Weakens
    <2> QED BY <1>8, <1>9, <2>1, <2>2, WeakensFacts
<1>12. visits' = calls \o t
    BY DEF Do
<1> QED BY <1>10, <1>11, <1>12 DEF LeadsTo

\* There is something that the call in progress leads to.
LEMMA LeadsSome ==
    ASSUME NEW W \in Weights, NEW D \in PrefixMaps, NEW y \in Counted,
           Shape, LeadsTo(W, D, y), visits # <<>>
    PROVE  \E a, b \in Context, n \in Nat :
               Weaker(a, Here) /\ Leads(W, D, Head(visits), a, Sum(W, triple_patterns), b, n)
<1> DEFINE R == Does(W, D)
           f == Head(visits)
<1>1. visits \in Seq(Frame) /\ f \in Frame
    BY HeadTailProperties DEF Shape, GraphType, CallsType
<1>2. PICK x \in Counted : Weakens(x, Now(W)) /\ Runs(R, Counted, visits, x, y)
    BY DEF LeadsTo
<1>3. PICK z \in Counted : <<f, x, z>> \in R
    <2> HIDE DEF R
    <2> QED BY <1>1, <1>2, RunFirst
<1>4. PICK u \in Counted : Leads(W, D, f, x[1], x[2], u[1], u[2])
    BY <1>1, <1>3 DEF Does
<1> QED BY <1>2, <1>4 DEF Counted, Weakens, Now

\* A step that only ends a call.
LEMMA ReturnLeads ==
    ASSUME NEW W \in Weights, NEW D \in PrefixMaps, NEW y \in Counted,
           Shape, Shape', LeadsTo(W, D, y), visits # <<>>, Return,
           \A a, b \in Context, n \in Nat :
               Weaker(a, Here) /\ Leads(W, D, Head(visits), a, Sum(W, triple_patterns), b, n)
               => Weaker(b, Here') /\ n = Sum(W, triple_patterns')
    PROVE  LeadsTo(W, D, y)'
<1>1. <<>> \in Seq(Frame) /\ Tail(visits) \in Seq(Frame)
    BY EmptySeq, HeadTailProperties DEF Shape, GraphType, CallsType
<1>2. Do(<<>>)
    BY <1>1, ConcatEmptySeq DEF Do, Return
<1>3. ASSUME NEW a \in Context, NEW b \in Context, NEW n \in Nat,
             Weaker(a, Here), Leads(W, D, Head(visits), a, Sum(W, triple_patterns), b, n)
      PROVE  \E c, d \in Context :
                 /\ Weaker(c, Here') /\ Weaker(b, d)
                 /\ Runs(Does(W, D), Counted, <<>>, <<c, Sum(W, triple_patterns')>>, <<d, n>>)
    <2>1. Weaker(b, Here') /\ n = Sum(W, triple_patterns')
        BY <1>3
    <2>2. <<b, n>> \in Counted
        BY DEF Counted
    <2>3. Runs(Does(W, D), Counted, <<>>, <<b, n>>, <<b, n>>)
        BY <2>2, RunNone
    <2>4. Weaker(b, b)
        BY WeakerFacts
    <2> QED BY <2>1, <2>3, <2>4
<1> QED BY <1>1, <1>2, <1>3, StepLeads
\* A call by itself.
LEMMA OneLeads ==
    ASSUME NEW W, NEW D, NEW c \in Frame, NEW a \in Context, NEW b \in Context, NEW m \in Nat, NEW n \in Nat,
           Leads(W, D, c, a, m, b, n)
    PROVE  Runs(Does(W, D), Counted, <<c>>, <<a, m>>, <<b, n>>) /\ <<c>> \in Seq(Frame)
<1> DEFINE x == <<a, m>>
           y == <<b, n>>
<1>1. x \in Counted /\ y \in Counted /\ x[1] = a /\ x[2] = m /\ y[1] = b /\ y[2] = n
    BY DEF Counted
<1> HIDE DEF x, y
<1>2. Weakens(y, y)
    BY <1>1, WeakensFacts
<1>3. <<c, x, y>> \in Does(W, D)
    BY <1>1, <1>2 DEF Does
<1>4. Runs(Does(W, D), Counted, <<c>>, x, y)
    BY <1>1, <1>3, RunOne
<1> QED BY <1>4 DEF x, y

\* F is what each of these calls adds, and that is all they do.
AddEach(W, D, f, T, F, a) ==
    /\ F \in [T -> Nat]
    /\ \A x \in T : Call(f, x) \in Frame
    /\ \A x \in T, k \in Nat : Leads(W, D, Call(f, x), a, k, a, k + F[x])

LEMMA EachAdds ==
    ASSUME NEW W, NEW D, NEW f, NEW T, NEW F, NEW a \in Context, AddEach(W, D, f, T, F, a),
           NEW s \in Seq(T), NEW m \in Nat
    PROVE  /\ Runs(Does(W, D), Counted, Calls(f, s), <<a, m>>, <<a, m + Sum(F, s)>>)
           /\ Calls(f, s) \in Seq(Frame)
<1> DEFINE h == OneEach(f, T)
           R == Does(W, D)
<1>1. F \in [T -> Nat] /\ \A x \in T : Call(f, x) \in Frame
    BY DEF AddEach
<1>2. Calls(f, s) = Flat(h, s) /\ Maps(h, T, Seq(Frame))
    BY <1>1, CallsAre
<1>3. \A n \in Nat : <<a, n>> \in Counted
    BY DEF Counted
<1>4. ASSUME NEW x \in T, NEW n \in Nat
      PROVE  Runs(R, Counted, h[x], <<a, n>>, <<a, n + F[x]>>)
    <2>1. h[x] = <<Call(f, x)>>
        BY DEF OneEach
    <2>2. Leads(W, D, Call(f, x), a, n, a, n + F[x]) /\ n + F[x] \in Nat
        BY <1>1 DEF AddEach
    <2> HIDE DEF h
    <2> QED BY <1>1, <2>1, <2>2, OneLeads
<1> HIDE DEF h, R
<1>5. AddsUp(R, Counted, Frame, T, h, F, a)
    BY <1>1, <1>2, <1>3, <1>4 DEF AddsUp
<1>6. Runs(R, Counted, Flat(h, s), <<a, m>>, <<a, m + Sum(F, s)>>)
    BY <1>5, RunSum
<1>7. Flat(h, s) \in Seq(Frame)
    BY <1>2, FlatType
<1> QED BY <1>2, <1>6, <1>7 DEF R

LEMMA WeakerHere ==
    \A a \in Context :
        Weaker(a, Here) <=>
            /\ a.decl = prefixes
            /\ a.seen >= 1 => a.subject = active_subject
            /\ a.seen = 2 => a.predicate = active_predicate
            /\ a.exact => a.tb = triples_blocks /\ a.ob = optional_blocks
            /\ ~a.exact => Kept(a.tb, triples_blocks) /\ Kept(a.ob, optional_blocks)
<1> SUFFICES ASSUME NEW a \in Context
             PROVE  Weaker(a, Here) <=>
                        /\ a.decl = prefixes
                        /\ a.seen >= 1 => a.subject = active_subject
                        /\ a.seen = 2 => a.predicate = active_predicate
                        /\ a.exact => a.tb = triples_blocks /\ a.ob = optional_blocks
                        /\ ~a.exact => Kept(a.tb, triples_blocks) /\ Kept(a.ob, optional_blocks)
    OBVIOUS
<1> DEFINE h == Here
<1>1. /\ h.decl = prefixes /\ h.seen = 2 /\ h.subject = active_subject /\ h.predicate = active_predicate
      /\ h.exact = TRUE /\ h.tb = triples_blocks /\ h.ob = optional_blocks
    BY DEF Here
<1>2. a.seen \in 0..2
    BY ContextType
<1> HIDE DEF h
<1>3. Weaker(a, h) <=>
                        /\ a.decl = prefixes
                        /\ a.seen >= 1 => a.subject = active_subject
                        /\ a.seen = 2 => a.predicate = active_predicate
                        /\ a.exact => a.tb = triples_blocks /\ a.ob = optional_blocks
                        /\ ~a.exact => Kept(a.tb, triples_blocks) /\ Kept(a.ob, optional_blocks)
    BY <1>1, <1>2 DEF Weaker
<1> QED BY <1>3 DEF h

LEMMA WeakerNext ==
    (\A a \in Context :
        Weaker(a, Here) <=>
            /\ a.decl = prefixes
            /\ a.seen >= 1 => a.subject = active_subject
            /\ a.seen = 2 => a.predicate = active_predicate
            /\ a.exact => a.tb = triples_blocks /\ a.ob = optional_blocks
            /\ ~a.exact => Kept(a.tb, triples_blocks) /\ Kept(a.ob, optional_blocks))'
BY WeakerHere, PTL

\* As long as nothing else is known than what stays the same.
LEMMA StaysWeaker ==
    ASSUME NEW a \in Context, Weaker(a, Here), UNCHANGED <<prefixes, triples_blocks, optional_blocks>>,
           a.seen >= 1 => active_subject' = active_subject,
           a.seen = 2 => active_predicate' = active_predicate
    PROVE  Weaker(a, Here')
BY WeakerHere, WeakerNext

LEMMA ContextIs ==
    ASSUME NEW tb \in Seq(Seq(Blocks)), NEW ob \in Seq(Seq(Group)), NEW exact \in BOOLEAN,
           NEW decl \in PrefixMaps, NEW seen \in 0..2, NEW subject \in Visited, NEW predicate \in Visited
    PROVE  [tb |-> tb, ob |-> ob, exact |-> exact, decl |-> decl, seen |-> seen, subject |-> subject,
            predicate |-> predicate] \in Context
BY DEF Context

\* A context in which the subject or the predicate has been seen as well.
LEMMA SeenContext ==
    ASSUME NEW a \in Context, NEW x \in Visited
    PROVE  /\ LET c == SubjectSeen(a, x)
              IN  /\ c \in Context /\ c.seen = 1 /\ c.subject = x /\ c.decl = a.decl
                  /\ c.exact = a.exact /\ c.tb = a.tb /\ c.ob = a.ob
           /\ LET c == PredicateSeen(a, x)
              IN  /\ c \in Context /\ c.seen = 2 /\ c.subject = a.subject /\ c.predicate = x
                  /\ c.decl = a.decl /\ c.exact = a.exact /\ c.tb = a.tb /\ c.ob = a.ob
<1>1. /\ a.tb \in Seq(Seq(Blocks)) /\ a.ob \in Seq(Seq(Group)) /\ a.exact \in BOOLEAN
      /\ a.decl \in PrefixMaps /\ a.subject \in Visited /\ a.predicate \in Visited
    BY ContextType
<1>2. SubjectSeen(a, x) \in Context
    <2>1. 1 \in 0..2
        OBVIOUS
    <2> QED BY <1>1, <2>1, ContextIs DEF SubjectSeen
<1>3. PredicateSeen(a, x) \in Context
    <2>1. 2 \in 0..2
        OBVIOUS
    <2> QED BY <1>1, <2>1, ContextIs DEF PredicateSeen
<1> QED BY <1>2, <1>3 DEF SubjectSeen, PredicateSeen

LEMMA PrologueLeads ==
    ASSUME NEW W \in Weights, NEW D \in PrefixMaps, NEW y \in Counted,
           Shape, LeadsTo(W, D, y), visitPrologue
    PROVE  LeadsTo(W, D, y)'
<1> DEFINE f == Head(visits)
<1>1. f.visit = "prefix" /\ f.arg = Arg /\ visits # <<>> /\ Return
    BY DEF visitPrologue, Calling, Arg
<1>2. /\ prefixes' = visitPrefixDecl(prefixes, Arg)
      /\ UNCHANGED <<triple_patterns, active_subject, active_predicate, triples_blocks, optional_blocks>>
    BY DEF visitPrologue, odgVars, activeVars, groupVars
<1> HIDE DEF f
<1>3. ASSUME NEW a \in Context, NEW b \in Context, NEW n \in Nat,
             Weaker(a, Here), Leads(W, D, f, a, Sum(W, triple_patterns), b, n)
      PROVE  Weaker(b, Here') /\ n = Sum(W, triple_patterns')
    <2>1. /\ a.seen = 0 /\ n = Sum(W, triple_patterns)
          /\ b = Declaring(a, Arg)
        BY <1>1, <1>3 DEF Leads
    <2>2. /\ b.decl = visitPrefixDecl(a.decl, Arg) /\ b.seen = 0 /\ b.exact = a.exact
          /\ b.tb = a.tb /\ b.ob = a.ob
        BY <2>1 DEF Declaring
    <2>3. a.decl = prefixes
        BY <1>3, WeakerHere
    <2>4. Weaker(b, Here')
        BY <1>2, <1>3, <2>2, <2>3, WeakerHere, WeakerNext
    <2> QED BY <1>2, <2>1, <2>4
<1>4. Shape'
    BY PrologueShape
<1> QED BY <1>1, <1>3, <1>4, ReturnLeads DEF f

LEMMA TriplesNodeLeads ==
    ASSUME NEW W \in Weights, NEW D \in PrefixMaps, NEW y \in Counted,
           Shape, LeadsTo(W, D, y), visitTriplesNode
    PROVE  LeadsTo(W, D, y)'
<1> DEFINE f == Head(visits)
<1>1. f.visit = "subject" /\ f.arg = Arg /\ visits # <<>> /\ Return /\ Arg.subject[1] = "node"
    BY DEF visitTriplesNode, Calling, Arg
<1>2. UNCHANGED <<prefixes, triple_patterns, active_subject, active_predicate, triples_blocks, optional_blocks>>
    BY DEF visitTriplesNode, nameVars, odgVars, activeVars, groupVars
<1>3. Arg \in SameSubject
    BY <1>1, ArgType DEF visitTriplesNode
<1> HIDE DEF f
<1>4. ASSUME NEW a \in Context, NEW b \in Context, NEW n \in Nat,
             Weaker(a, Here), Leads(W, D, f, a, Sum(W, triple_patterns), b, n)
      PROVE  Weaker(b, Here') /\ n = Sum(W, triple_patterns')
    <2>1. b = a /\ n = Sum(W, triple_patterns) + SubjectWeight(W, D)[Arg]
        BY <1>1, <1>4 DEF Leads
    <2>2. SubjectWeight(W, D)[Arg] = 0
        BY <1>1, <1>3, SubjectWeightIs
    <2>3. Sum(W, triple_patterns) \in Nat
        BY NowType DEF Shape
    <2>4. n = Sum(W, triple_patterns)
        BY <2>1, <2>2, <2>3
    <2> QED BY <1>2, <1>4, <2>1, <2>4, StaysWeaker
<1>5. Shape'
    BY TriplesNodeShape
<1> QED BY <1>1, <1>4, <1>5, ReturnLeads DEF f

LEMMA VerbLeads ==
    ASSUME NEW W \in Weights, NEW D \in PrefixMaps, NEW y \in Counted,
           Shape, LeadsTo(W, D, y), visitVerbPath, error' = "none"
    PROVE  LeadsTo(W, D, y)'
<1> DEFINE f == Head(visits)
           node == visitVerb(prefixes, Arg)
<1>1. f.visit = "verb" /\ f.arg = Arg /\ visits # <<>> /\ ~IsNested(Arg)
    BY DEF visitVerbPath, Calling, Arg
<1>2. Arg \in Verb
    BY <1>1, ArgType DEF visitVerbPath
<1>3. /\ active_predicate' = node /\ Return
      /\ UNCHANGED <<prefixes, triple_patterns, active_subject, triples_blocks, optional_blocks>>
    <2>1. ~Failed(node)
        <3>1. ASSUME Failed(node) PROVE FALSE
            <4>1. error' = node[1] /\ node[1] \in {"thrown", "crashed"}
                BY <3>1 DEF visitVerbPath, Throw, Failed, Thrown, Crashed
            <4> QED BY <4>1
        <3> QED BY <3>1
    <2> QED BY <2>1 DEF visitVerbPath, odgVars, groupVars
<1> HIDE DEF f
<1>4. ASSUME NEW a \in Context, NEW b \in Context, NEW n \in Nat,
             Weaker(a, Here), Leads(W, D, f, a, Sum(W, triple_patterns), b, n)
      PROVE  Weaker(b, Here') /\ n = Sum(W, triple_patterns')
    <2>1. /\ b = PredicateSeen(a, VerbNode(D, Arg)) /\ n = Sum(W, triple_patterns)
          /\ a.seen = 1 /\ a.decl = D
        BY <1>1, <1>4 DEF Leads
    <2>2. /\ b.decl = a.decl /\ b.seen = 2 /\ b.exact = a.exact /\ b.tb = a.tb /\ b.ob = a.ob
          /\ b.subject = a.subject /\ b.predicate = VerbNode(D, Arg)
        BY <2>1 DEF PredicateSeen
    <2>3. a.decl = prefixes /\ a.subject = active_subject
        BY <1>4, <2>1, WeakerHere
    <2>4. VerbNode(D, Arg) = node
        BY <1>1, <1>2, <2>1, <2>3, VerbNodeIs
    <2> HIDE DEF node
    <2>5. Weaker(b, Here')
        BY <1>3, <1>4, <2>2, <2>3, <2>4, WeakerHere, WeakerNext
    <2> QED BY <1>3, <2>1, <2>5
<1>5. Shape'
    BY VerbShape
<1> QED BY <1>1, <1>3, <1>4, <1>5, ReturnLeads DEF f

LEMMA BlockLeads ==
    ASSUME NEW W \in Weights, NEW D \in PrefixMaps, NEW y \in Counted,
           Shape, LeadsTo(W, D, y), visitTriplesBlock
    PROVE  LeadsTo(W, D, y)'
<1> DEFINE f == Head(visits)
           m == Sum(W, triple_patterns)
           F == SubjectWeight(W, D)
           calls == Calls("subject", Arg.tss)
<1>1. f.visit = "block" /\ f.arg = Arg /\ visits # <<>> /\ Do(calls)
    BY DEF visitTriplesBlock, Calling, Arg
<1>2. UNCHANGED <<prefixes, triple_patterns, active_subject, active_predicate, triples_blocks, optional_blocks>>
    BY DEF visitTriplesBlock, nameVars, odgVars, activeVars, groupVars
<1>3. Arg \in Blocks /\ Arg.tss \in Seq(SameSubject)
    BY <1>1, ArgType DEF visitTriplesBlock, Blocks
<1>4. m \in Nat /\ F \in [SameSubject -> Nat]
    BY NowType, SubjectWeightIs DEF Shape
<1>5. \A x \in SameSubject : Call("subject", x) \in Frame
    BY DEF Call, Frame
<1> HIDE DEF f, m, F, calls
<1>6. ASSUME NEW a \in Context, a.seen = 0, a.decl = D
      PROVE  AddEach(W, D, "subject", SameSubject, F, a)
    <2>1. ASSUME NEW x \in SameSubject, NEW k \in Nat PROVE Leads(W, D, Call("subject", x), a, k, a, k + F[x])
        BY <1>6 DEF Leads, Call, F
    <2> QED BY <1>4, <1>5, <2>1 DEF AddEach
<1>7. calls \in Seq(Frame)
    BY <1>3, <1>5, CallsAreFrames DEF calls
<1>8. ASSUME NEW a \in Context, NEW b \in Context, NEW n \in Nat,
             Weaker(a, Here), Leads(W, D, f, a, m, b, n)
      PROVE  \E c, d \in Context : /\ Weaker(c, Here') /\ Weaker(b, d)
                                   /\ Runs(Does(W, D), Counted, calls, <<c, Sum(W, triple_patterns')>>, <<d, n>>)
    <2>1. b = a /\ n = m + BlockWeight(W, D)[Arg] /\ a.seen = 0 /\ a.decl = D
        BY <1>1, <1>8 DEF Leads
    <2>2. n = m + Sum(F, Arg.tss)
        BY <1>3, <2>1 DEF BlockWeight, F
    <2>3. Runs(Does(W, D), Counted, calls, <<a, m>>, <<a, n>>)
        BY <1>3, <1>4, <1>6, <2>1, <2>2, EachAdds DEF calls
    <2>4. Weaker(a, Here') /\ Weaker(b, a)
        BY <1>2, <1>8, <2>1, StaysWeaker, WeakerFacts
    <2> QED BY <1>2, <2>3, <2>4 DEF m
<1>9. Shape'
    BY TriplesBlockShape
<1> QED BY <1>1, <1>7, <1>8, <1>9, StepLeads DEF f, m

LEMMA SubjectLeads ==
    ASSUME NEW W \in Weights, NEW D \in PrefixMaps, NEW y \in Counted,
           Shape, LeadsTo(W, D, y), visitTriplesSameSubjectPath, error' = "none"
    PROVE  LeadsTo(W, D, y)'
<1> DEFINE f == Head(visits)
           m == Sum(W, triple_patterns)
           node == visitVarOrTerm(prefixes, Arg.subject)
           calls == Calls("property", Arg.properties)
<1>1. f.visit = "subject" /\ f.arg = Arg /\ visits # <<>> /\ Arg.subject[1] # "node"
    BY DEF visitTriplesSameSubjectPath, Calling, Arg
<1>2. Arg \in SameSubject /\ Arg.properties \in Seq(Properties) /\ Arg.subject \in Term
    BY <1>1, ArgType DEF visitTriplesSameSubjectPath, SameSubject
<1>3. /\ active_subject' = node /\ Do(calls)
      /\ UNCHANGED <<prefixes, triple_patterns, active_predicate, triples_blocks, optional_blocks>>
    <2>1. ~Failed(node)
        <3>1. ASSUME Failed(node) PROVE FALSE
            <4>1. error' = node[1] /\ node[1] \in {"thrown", "crashed"}
                BY <3>1 DEF visitTriplesSameSubjectPath, Throw, Failed, Thrown, Crashed
            <4> QED BY <4>1
        <3> QED BY <3>1
    <2> QED BY <2>1 DEF visitTriplesSameSubjectPath, odgVars, groupVars
<1>4. m \in Nat /\ node \in Visited
    BY <1>2, NowType, TermType DEF Shape, GraphType, NamesType
<1>5. \A x \in Properties : Call("property", x) \in Frame
    BY DEF Call, Frame
<1> DEFINE F == PropertiesWeight(W, D, node)
<1>6. F \in [Properties -> Nat]
    BY <1>4, PropertiesWeightIs
<1>7. calls \in Seq(Frame)
    BY <1>2, <1>5, CallsAreFrames
<1> HIDE DEF f, m, F, calls
<1>8. ASSUME NEW a \in Context, NEW b \in Context, NEW n \in Nat,
             Weaker(a, Here), Leads(W, D, f, a, m, b, n)
      PROVE  \E c, d \in Context : /\ Weaker(c, Here') /\ Weaker(b, d)
                                   /\ Runs(Does(W, D), Counted, calls, <<c, Sum(W, triple_patterns')>>, <<d, n>>)
    <2>1. b = a /\ n = m + SubjectWeight(W, D)[Arg] /\ a.seen = 0 /\ a.decl = D
        BY <1>1, <1>8 DEF Leads
    <2>2. a.decl = prefixes
        BY <1>8, WeakerHere
    <2>3. n = m + Sum(F, Arg.properties)
        <3>1. SubjectWeight(W, D)[Arg] = Sum(PropertiesWeight(W, D, visitVarOrTerm(D, Arg.subject)), Arg.properties)
            BY <1>1, <1>2, SubjectWeightIs
        <3> QED BY <2>1, <2>2, <3>1 DEF F
    <2> HIDE DEF node
    <2> DEFINE c == SubjectSeen(a, node)
    <2>4. /\ c \in Context /\ c.seen = 1 /\ c.subject = node /\ c.decl = a.decl /\ c.exact = a.exact
          /\ c.tb = a.tb /\ c.ob = a.ob
        BY <1>4, SeenContext
    <2> HIDE DEF c
    <2>5. AddEach(W, D, "property", Properties, F, c)
        <3>1. ASSUME NEW x \in Properties, NEW k \in Nat PROVE Leads(W, D, Call("property", x), c, k, c, k + F[x])
            BY <2>1, <2>4 DEF Leads, Call, F
        <3> QED BY <1>5, <1>6, <3>1 DEF AddEach
    <2>6. Runs(Does(W, D), Counted, calls, <<c, m>>, <<c, n>>)
        BY <1>2, <1>4, <2>3, <2>4, <2>5, EachAdds DEF calls
    <2>7. Weaker(c, Here')
        BY <1>3, <1>8, <2>4, WeakerHere, WeakerNext
    <2>8. Weaker(b, c)
        <3>1. Kept(a.tb, c.tb) /\ Kept(a.ob, c.ob)
            BY <2>4, ContextType, KeptFacts
        <3> QED BY <2>1, <2>4, <3>1 DEF Weaker
    <2> QED BY <1>3, <2>4, <2>6, <2>7, <2>8 DEF m
<1>9. Shape'
    BY SubjectShape
<1> QED BY <1>1, <1>3, <1>7, <1>8, <1>9, StepLeads DEF f, m

LEMMA PropertyLeads ==
    ASSUME NEW W \in Weights, NEW D \in PrefixMaps, NEW y \in Counted,
           Shape, LeadsTo(W, D, y), visitPropertyListPath
    PROVE  LeadsTo(W, D, y)'
<1> DEFINE f == Head(visits)
           m == Sum(W, triple_patterns)
           R == Does(W, D)
           c1 == Call("verb", Arg.verb)
           objects == Calls("object", Arg.objects)
<1>1. f.visit = "property" /\ f.arg = Arg /\ visits # <<>> /\ Do(<<c1>> \o objects)
    BY DEF visitPropertyListPath, Calling, Arg
<1>2. UNCHANGED <<prefixes, triple_patterns, active_subject, active_predicate, triples_blocks, optional_blocks>>
    BY DEF visitPropertyListPath, nameVars, odgVars, activeVars, groupVars
<1>3. Arg \in Properties /\ Arg.verb \in Verb /\ Arg.objects \in Seq(Term)
    BY <1>1, ArgType DEF visitPropertyListPath, Properties
<1>4. m \in Nat
    BY NowType DEF Shape
<1>5. /\ \A x \in Term : Call("object", x) \in Frame
      /\ c1 \in Frame
    BY <1>3 DEF Call, Frame
<1>6. objects \in Seq(Frame) /\ <<c1>> \in Seq(Frame) /\ <<c1>> \o objects \in Seq(Frame)
    <2>1. objects \in Seq(Frame)
        BY <1>3, <1>5, CallsAreFrames
    <2>2. <<c1>> \in Seq(Frame)
        BY <1>5
    <2> HIDE DEF objects, c1
    <2> QED BY <2>1, <2>2, ConcatProperties
<1> DEFINE v == VerbNode(D, Arg.verb)
<1>7. v \in Visited
    BY <1>3, VerbNodeType
<1>8. c1.visit = "verb" /\ c1.arg = Arg.verb
    BY DEF Call
<1> HIDE DEF f, m, objects, R, c1, v
<1>9. ASSUME NEW a \in Context, NEW b \in Context, NEW n \in Nat,
             Weaker(a, Here), Leads(W, D, f, a, m, b, n)
      PROVE  \E c, d \in Context : /\ Weaker(c, Here') /\ Weaker(b, d)
                                   /\ Runs(R, Counted, <<c1>> \o objects, <<c, Sum(W, triple_patterns')>>, <<d, n>>)
    <2>1. b = a /\ n = m + PropertiesWeight(W, D, a.subject)[Arg] /\ a.seen = 1 /\ a.decl = D
        BY <1>1, <1>9 DEF Leads
    <2>2. a.decl = prefixes /\ a.subject = active_subject /\ a.subject \in Visited
        BY <1>9, <2>1, WeakerHere, ContextType
    <2> DEFINE F == TermWeight(W, D, a.subject, v)
               c == PredicateSeen(a, v)
    <2>3. n = m + Sum(F, Arg.objects)
        BY <1>3, <2>1 DEF PropertiesWeight, v
    <2>4. F \in [Term -> Nat]
        BY <1>7, <2>2, TermWeightType
    <2>5. /\ c \in Context /\ c.seen = 2 /\ c.subject = a.subject /\ c.predicate = v
          /\ c.decl = a.decl /\ c.exact = a.exact /\ c.tb = a.tb /\ c.ob = a.ob
        BY <1>7, SeenContext
    <2>6. Runs(R, Counted, <<c1>>, <<a, m>>, <<c, m>>)
        <3>1. Leads(W, D, c1, a, m, c, m)
            BY <1>8, <2>1 DEF Leads, v
        <3> HIDE DEF c
        <3> QED BY <1>4, <1>5, <2>5, <3>1, OneLeads DEF R
    <2> HIDE DEF c, F
    <2>7. AddEach(W, D, "object", Term, F, c)
        <3>1. ASSUME NEW x \in Term, NEW k \in Nat PROVE Leads(W, D, Call("object", x), c, k, c, k + F[x])
            BY <2>1, <2>5 DEF Leads, Call, F
        <3> QED BY <1>5, <2>4, <3>1 DEF AddEach
    <2>8. Runs(R, Counted, objects, <<c, m>>, <<c, n>>)
        BY <1>3, <1>4, <2>3, <2>5, <2>7, EachAdds DEF objects, R
    <2>9. Runs(R, Counted, <<c1>> \o objects, <<a, m>>, <<c, n>>)
        BY <1>6, <2>6, <2>8, RunOn
    <2>10. Weaker(a, Here')
        BY <1>2, <1>9, StaysWeaker
    <2>11. Weaker(b, c)
        <3>1. Kept(a.tb, c.tb) /\ Kept(a.ob, c.ob)
            BY <2>5, ContextType, KeptFacts
        <3> QED BY <2>1, <2>5, <3>1 DEF Weaker
    <2> QED BY <1>2, <2>5, <2>9, <2>10, <2>11 DEF m
<1>10. Shape'
    BY PropertyListShape
<1> QED BY <1>1, <1>6, <1>9, <1>10, StepLeads DEF f, m, R

LEMMA PathLeads ==
    ASSUME NEW W \in Weights, NEW D \in PrefixMaps, NEW y \in Counted,
           Shape, LeadsTo(W, D, y), visitPath
    PROVE  LeadsTo(W, D, y)'
<1> DEFINE f == Head(visits)
           m == Sum(W, triple_patterns)
           c1 == Call("verb", Primary(Arg[2]))
<1>1. f.visit = "verb" /\ f.arg = Arg /\ visits # <<>> /\ Do(<<c1>>) /\ IsNested(Arg)
    BY DEF visitPath, Calling, Arg
<1>2. UNCHANGED <<prefixes, triple_patterns, active_subject, active_predicate, triples_blocks, optional_blocks>>
    BY DEF visitPath, nameVars, odgVars, activeVars, groupVars
<1>3. Arg \in Verb
    BY <1>1, ArgType DEF visitPath
<1>4. m \in Nat
    BY NowType DEF Shape
<1>5. c1.visit = "verb" /\ c1.arg = Primary(Arg[2])
    BY DEF Call
<1>6. c1 \in Frame
    <2>1. Primary(Arg[2]) \in Verb
        BY <1>1, <1>3, VerbType
    <2> QED BY <2>1 DEF Call, Frame
<1>61. <<c1>> \in Seq(Frame)
    BY <1>6
<1>7. VerbNode(D, Arg) = VerbNode(D, Primary(Arg[2]))
    BY <1>1, <1>3, VerbNodeIs
<1> HIDE DEF f, m, c1
<1>8. ASSUME NEW a \in Context, NEW b \in Context, NEW n \in Nat,
             Weaker(a, Here), Leads(W, D, f, a, m, b, n)
      PROVE  \E c, d \in Context : /\ Weaker(c, Here') /\ Weaker(b, d)
                                   /\ Runs(Does(W, D), Counted, <<c1>>, <<c, Sum(W, triple_patterns')>>, <<d, n>>)
    <2>1. Leads(W, D, c1, a, m, b, n)
        BY <1>1, <1>5, <1>7, <1>8 DEF Leads
    <2>2. Runs(Does(W, D), Counted, <<c1>>, <<a, m>>, <<b, n>>)
        BY <1>4, <1>6, <2>1, OneLeads
    <2>3. Weaker(a, Here') /\ Weaker(b, b)
        BY <1>2, <1>8, StaysWeaker, WeakerFacts
    <2> QED BY <1>2, <2>2, <2>3 DEF m
<1>9. Shape'
    BY PathShape
<1> QED BY <1>1, <1>61, <1>8, <1>9, StepLeads DEF f, m

LEMMA ObjectLeads ==
    ASSUME NEW W \in Weights, NEW D \in PrefixMaps, NEW y \in Counted,
           Shape, LeadsTo(W, D, y), visitObject, error' = "none"
    PROVE  LeadsTo(W, D, y)'
<1> DEFINE f == Head(visits)
           m == Sum(W, triple_patterns)
           node == visitVarOrTerm(prefixes, Arg)
           tp == <<active_subject, active_predicate, node>>
<1>1. f.visit = "object" /\ f.arg = Arg /\ visits # <<>>
    BY DEF visitObject, Calling, Arg
<1>2. Arg \in Term
    BY <1>1, ArgType DEF visitObject
<1>3. /\ triple_patterns' = Append(triple_patterns, tp) /\ Return
      /\ UNCHANGED <<prefixes, active_subject, active_predicate, triples_blocks, optional_blocks>>
    <2>1. ~Failed(node)
        <3>1. ASSUME Failed(node) PROVE FALSE
            <4>1. error' = node[1] /\ node[1] \in {"thrown", "crashed"}
                BY <3>1 DEF visitObject, Throw, Failed, Thrown, Crashed
            <4> QED BY <4>1
        <3> QED BY <3>1
    <2> QED BY <2>1 DEF visitObject, AddObject, add_tp, activeVars
<1>4. Sum(W, triple_patterns') = m + W[tp]
    <2>1. Node \subseteq Visited
        BY DEF Visited
    <2>2. Node \X Node \X Node \subseteq Triple
        BY <2>1 DEF Triple
    <2>3. triple_patterns \in Seq(Triple)
        BY <2>2, SeqMonotonic DEF Shape, GraphType, OdgType
    <2>4. node \in Visited /\ active_subject \in Visited /\ active_predicate \in Visited
        BY <1>2, <2>1, TermType DEF Shape, GraphType, NamesType
    <2>5. tp \in Triple /\ W \in [Triple -> Nat]
        BY <2>4 DEF Triple, Weights
    <2> HIDE DEF tp
    <2> QED BY <1>3, <2>3, <2>5, SumAppend
<1> HIDE DEF f, m
<1>8. ASSUME NEW a \in Context, NEW b \in Context, NEW n \in Nat,
             Weaker(a, Here), Leads(W, D, f, a, m, b, n)
      PROVE  Weaker(b, Here') /\ n = Sum(W, triple_patterns')
    <2>1. b = a /\ n = m + TermWeight(W, D, a.subject, a.predicate)[Arg] /\ a.seen = 2 /\ a.decl = D
        BY <1>1, <1>8 DEF Leads
    <2>2. a.decl = prefixes /\ a.subject = active_subject /\ a.predicate = active_predicate
        BY <1>8, <2>1, WeakerHere
    <2>3. n = m + W[tp]
        BY <1>2, <2>1, <2>2 DEF TermWeight
    <2> QED BY <1>3, <1>4, <1>8, <2>1, <2>3, StaysWeaker
<1>9. Shape'
    BY ObjectShape
<1> QED BY <1>1, <1>3, <1>8, <1>9, ReturnLeads DEF f, m

-----------------------------------------------------------------------------
(* Stacks.                                                                  *)

LEMMA PrefixIsFront ==
    ASSUME NEW S, NEW s \in Seq(S), NEW t \in Seq(S), IsPrefix(s, t)
    PROVE  SubSeq(t, 1, Len(s)) = s
<1> DEFINE k == Len(s)
           u == SubSeq(t, 1, k)
<1>1. k \in Nat /\ k <= Len(t) /\ \A i \in 1..k : s[i] = t[i]
    BY LenProperties, PrefixElements
<1>2. \A i \in 1..k : t[i] \in S
    BY <1>1, LenProperties, ElementOfSeq
<1>3. u \in Seq(S) /\ Len(u) = (IF 1 <= k THEN k - 1 + 1 ELSE 0) /\ \A i \in 1..Len(u) : u[i] = t[1 + i - 1]
    BY <1>2, SubSeqProperties
<1> HIDE DEF u
<1>4. Len(u) = k
    BY <1>1, <1>3
<1>5. \A i \in 1..k : u[i] = s[i]
    BY <1>1, <1>3, <1>4
<1>6. u = s
    BY <1>3, <1>4, <1>5, SeqEqual
<1> QED BY <1>6 DEF u

LEMMA KeptTop ==
    ASSUME NEW S, NEW s \in Seq(Seq(S)), NEW t \in Seq(Seq(S)), s # <<>>, Kept(s, t)
    PROVE  /\ t # <<>> /\ Pop(t) = Pop(s)
           /\ SetTop(t, SubSeq(Top(t), 1, Len(Top(s)))) = s
<1> DEFINE T == Seq(S)
           n == Len(s)
<1>1. s \in Seq(T) /\ t \in Seq(T) /\ n \in Nat \ {0} /\ Len(t) = n
    BY EmptySeq DEF Kept
<1>2. t # <<>>
    BY <1>1, EmptySeq
<1>3. /\ s[n] \in T /\ t[n] \in T /\ Top(s) = s[n] /\ Top(t) = t[n]
      /\ IsPrefix(s[n], t[n]) /\ \A i \in 1..(n - 1) : s[i] = t[i]
    BY <1>1, ElementOfSeq DEF Kept, Top
<1> HIDE DEF T
<1>4. /\ Pop(s) \in Seq(T) /\ Len(Pop(s)) = n - 1 /\ \A i \in 1..(n - 1) : Pop(s)[i] = s[i]
      /\ Pop(t) \in Seq(T) /\ Len(Pop(t)) = n - 1 /\ \A i \in 1..(n - 1) : Pop(t)[i] = t[i]
    BY <1>1, <1>2, PopProperties
<1>5. Pop(t) = Pop(s)
    <2>1. \A i \in 1..(n - 1) : Pop(t)[i] = Pop(s)[i]
        BY <1>3, <1>4
    <2> QED BY <1>4, <2>1, SeqEqual
<1>6. SubSeq(t[n], 1, Len(s[n])) = s[n]
    BY <1>3, PrefixIsFront DEF T
<1>7. SetTop(t, s[n]) = s
    <2> DEFINE v == s[n]
               u == SetTop(t, v)
    <2>1. u \in Seq(T) /\ Len(u) = n /\ u[n] = s[n] /\ \A i \in 1..(n - 1) : u[i] = t[i]
        <3>1. t \in Seq(T) /\ t # <<>> /\ v \in T
            BY <1>1, <1>2, <1>3
        <3> HIDE DEF v
        <3>2. /\ u \in Seq(T) /\ Len(u) = Len(t) /\ u[Len(t)] = v
              /\ \A i \in 1..(Len(t) - 1) : u[i] = t[i]
            BY <3>1, SetTopProperties
        <3> USE DEF v
        <3> HIDE DEF u
        <3> QED BY <1>1, <3>2
    <2> HIDE DEF u
    <2>2. \A i \in 1..n : u[i] = s[i]
        <3>1. \A i \in 1..(n - 1) : u[i] = s[i]
            BY <1>3, <2>1
        <3>2. \A i \in 1..n : i = n \/ i \in 1..(n - 1)
            BY <1>1
        <3> QED BY <2>1, <3>1, <3>2
    <2>3. u = s
        BY <1>1, <2>1, <2>2, SeqEqual
    <2> QED BY <2>3 DEF u
<1> QED BY <1>2, <1>3, <1>5, <1>6, <1>7

LEMMA KeptAddTop ==
    ASSUME NEW S, NEW s \in Seq(Seq(S)), s # <<>>, NEW x \in Seq(S)
    PROVE  /\ AddTop(s, x) \in Seq(Seq(S)) /\ AddTop(s, x) # <<>>
           /\ Top(AddTop(s, x)) = Top(s) \o x /\ Kept(s, AddTop(s, x))
<1> DEFINE T == Seq(S)
           n == Len(s)
           u == Top(s) \o x
           a == AddTop(s, x)
<1>1. s \in Seq(T) /\ n \in Nat \ {0} /\ Top(s) \in Seq(S) /\ Top(s) = s[n]
    BY TopProperties, EmptySeq
<1>2. u \in T /\ IsPrefix(s[n], u)
    BY <1>1, ConcatProperties, PrefixOfConcat
<1>3. a = SetTop(s, u)
    BY DEF AddTop
<1> HIDE DEF T, u, a
<1>4. a \in Seq(T) /\ a # <<>> /\ Len(a) = n /\ a[n] = u /\ \A i \in 1..(n - 1) : a[i] = s[i]
    <2>1. s \in Seq(T) /\ u \in T
        BY <1>1, <1>2
    <2>2. /\ SetTop(s, u) \in Seq(T) /\ SetTop(s, u) # <<>> /\ Len(SetTop(s, u)) = Len(s)
          /\ SetTop(s, u)[Len(s)] = u /\ \A i \in 1..(Len(s) - 1) : SetTop(s, u)[i] = s[i]
        BY <2>1, SetTopProperties
    <2> QED BY <1>3, <2>2
<1>5. Kept(s, a)
    BY <1>1, <1>2, <1>4 DEF Kept
<1>6. Top(a) = u
    BY <1>4 DEF Top
<1> QED BY <1>4, <1>5, <1>6 DEF T, u, a

LEMMA StackedContext ==
    ASSUME NEW a \in Context, NEW tb \in Seq(Seq(Blocks)), NEW ob \in Seq(Seq(Group)), NEW e \in BOOLEAN
    PROVE  LET c == Stacked(a, tb, ob, e)
           IN  /\ c \in Context /\ c.tb = tb /\ c.ob = ob /\ c.exact = e /\ c.decl = a.decl
               /\ c.seen = a.seen /\ c.subject = a.subject /\ c.predicate = a.predicate
<1>1. /\ a.decl \in PrefixMaps /\ a.seen \in 0..2 /\ a.subject \in Visited /\ a.predicate \in Visited
    BY ContextType
<1>2. Stacked(a, tb, ob, e) \in Context
    BY <1>1, ContextIs DEF Stacked
<1> QED BY <1>2 DEF Stacked

LEMMA ResizeLeads ==
    ASSUME NEW W \in Weights, NEW D \in PrefixMaps, NEW y \in Counted,
           Shape, LeadsTo(W, D, y), Resize
    PROVE  LeadsTo(W, D, y)'
<1> DEFINE f == Head(visits)
<1>1. f.visit = "resize" /\ f.arg = Arg /\ visits # <<>> /\ Return
    BY DEF Resize, Calling, Arg
<1>2. /\ UNCHANGED <<prefixes, triple_patterns, active_subject, active_predicate>>
      /\ triples_blocks' = SetTop(triples_blocks, SubSeq(Top(triples_blocks), 1, Arg[1]))
      /\ optional_blocks' = SetTop(optional_blocks, SubSeq(Top(optional_blocks), 1, Arg[2]))
    BY DEF Resize, nameVars, odgVars, activeVars
<1>3. triples_blocks \in Seq(Seq(Blocks)) /\ optional_blocks \in Seq(Seq(Group))
    BY DEF Shape, GraphType, StacksType
<1> HIDE DEF f
<1>4. ASSUME NEW a \in Context, NEW b \in Context, NEW n \in Nat,
             Weaker(a, Here), Leads(W, D, f, a, Sum(W, triple_patterns), b, n)
      PROVE  Weaker(b, Here') /\ n = Sum(W, triple_patterns')
    <2>1. /\ a.seen = 0 /\ n = Sum(W, triple_patterns) /\ a.tb # <<>> /\ a.ob # <<>>
          /\ b = Exactly(a, TRUE) /\ Arg = <<Len(Top(a.tb)), Len(Top(a.ob))>>
        BY <1>1, <1>4 DEF Leads
    <2>2. /\ b.decl = a.decl /\ b.seen = 0 /\ b.exact = TRUE /\ b.tb = a.tb /\ b.ob = a.ob
        BY <2>1 DEF Exactly, Stacked
    <2>3. a.tb \in Seq(Seq(Blocks)) /\ a.ob \in Seq(Seq(Group)) /\ a.exact \in BOOLEAN
        BY ContextType
    <2>4. Kept(a.tb, triples_blocks) /\ Kept(a.ob, optional_blocks)
        <3>1. CASE a.exact
            BY <1>3, <1>4, <3>1, WeakerHere, KeptFacts
        <3>2. CASE ~a.exact
            BY <1>4, <3>2, WeakerHere
        <3> QED BY <3>1, <3>2
    <2>5. triples_blocks' = a.tb
        <3>1. SetTop(triples_blocks, SubSeq(Top(triples_blocks), 1, Len(Top(a.tb)))) = a.tb
            BY <1>3, <2>1, <2>3, <2>4, KeptTop
        <3> QED BY <1>2, <2>1, <3>1
    <2>6. optional_blocks' = a.ob
        <3>1. SetTop(optional_blocks, SubSeq(Top(optional_blocks), 1, Len(Top(a.ob)))) = a.ob
            BY <1>3, <2>1, <2>3, <2>4, KeptTop
        <3> QED BY <1>2, <2>1, <3>1
    <2>7. a.decl = prefixes
        BY <1>4, WeakerHere
    <2>8. Weaker(b, Here')
        BY <1>2, <2>2, <2>5, <2>6, <2>7, WeakerNext
    <2> QED BY <1>2, <2>1, <2>8
<1>5. Shape'
    BY ResizeShape
<1> QED BY <1>1, <1>4, <1>5, ReturnLeads DEF f

-----------------------------------------------------------------------------
(* Groups.                                                                  *)

\* What a group adds to the stacks.
LEMMA PatternStacks ==
    ASSUME NEW g \in Group, NEW tb \in Seq(Seq(Blocks)), NEW ob \in Seq(Seq(Group)), tb # <<>>, ob # <<>>
    PROVE  LET T == AddTop(tb, OfKind(g, "block"))
               O == AddTop(ob, OptionalGroups(g))
           IN  /\ T \in Seq(Seq(Blocks)) /\ O \in Seq(Seq(Group)) /\ T # <<>> /\ O # <<>>
               /\ Kept(tb, T) /\ Kept(ob, O) /\ Top(T) \in Seq(Blocks) /\ Top(O) \in Seq(Group)
               /\ Base(Top(tb), Top(ob)) \in Branch /\ OwnPart(g) \in Branch
               /\ Base(Top(T), Top(O)) = Join(Base(Top(tb), Top(ob)), OwnPart(g))
<1> DEFINE bs == OfKind(g, "block")
           os == OptionalGroups(g)
           T == AddTop(tb, bs)
           O == AddTop(ob, os)
<1>1. bs \in Seq(Blocks) /\ os \in Seq(Group)
    BY KindTypes
<1>2. OwnPart(g) = Base(bs, os)
    BY DEF OwnPart
<1> HIDE DEF bs, os
<1>3. T \in Seq(Seq(Blocks)) /\ T # <<>> /\ Top(T) = Top(tb) \o bs /\ Kept(tb, T)
    BY <1>1, KeptAddTop
<1>4. O \in Seq(Seq(Group)) /\ O # <<>> /\ Top(O) = Top(ob) \o os /\ Kept(ob, O)
    BY <1>1, KeptAddTop
<1> HIDE DEF T, O
<1>5. Top(T) \in Seq(Blocks) /\ Top(tb) \in Seq(Blocks)
    BY <1>3, TopProperties
<1>6. Top(O) \in Seq(Group) /\ Top(ob) \in Seq(Group)
    BY <1>4, TopProperties
<1>7. Base(Top(tb), Top(ob)) \in Branch /\ Base(bs, os) \in Branch
    BY <1>1, <1>5, <1>6, BaseType
<1>8. Base(Top(T), Top(O)) = Join(Base(Top(tb), Top(ob)), Base(bs, os))
    BY <1>1, <1>3, <1>4, <1>5, <1>6, BaseConcat
<1> QED BY <1>2, <1>3, <1>4, <1>5, <1>6, <1>7, <1>8 DEF T, O, bs, os

\* A group of which no UNION is left: its triples, then its OPTIONAL groups.
LEMMA ConjunctionRuns ==
    ASSUME NEW W \in Weights, NEW D \in PrefixMaps, NEW c \in Context, NEW m \in Nat,
           c.seen = 0, c.decl = D, c.exact, c.tb # <<>>, c.ob # <<>>
    PROVE  /\ Conjunction(Top(c.tb)) \in Seq(Frame)
           /\ Runs(Does(W, D), Counted, Conjunction(Top(c.tb)), <<c, m>>,
                   <<c, m + FullWeight(W, D)[Base(Top(c.tb), Top(c.ob))]>>)
<1> DEFINE bs == Top(c.tb)
           os == Top(c.ob)
           F == BlockWeight(W, D)
           G == GroupWeight(W, D)
           R == Does(W, D)
           s == Calls("block", bs)
           d == Call("depend", <<>>)
           n == m + Sum(F, bs)
           k == n + Sum(G, os)
<1>1. bs \in Seq(Blocks) /\ os \in Seq(Group)
    BY ContextType, TopProperties
<1>2. F \in [Blocks -> Nat] /\ FullWeight(W, D)[Base(bs, os)] = Sum(F, bs) + Sum(G, os)
    BY <1>1, BaseWeight
<1>3. Sum(F, bs) \in Nat /\ Sum(G, os) \in Nat
    BY <1>1, <1>2, SumType, GroupWeightType
<1>4. n \in Nat /\ k \in Nat /\ k = m + FullWeight(W, D)[Base(bs, os)]
    BY <1>2, <1>3
<1>5. Runs(R, Counted, s, <<c, m>>, <<c, n>>) /\ s \in Seq(Frame)
    <2>1. \A x \in Blocks : Call("block", x) \in Frame
        BY DEF Call, Frame
    <2>2. ASSUME NEW x \in Blocks, NEW j \in Nat PROVE Leads(W, D, Call("block", x), c, j, c, j + F[x])
        BY DEF Leads, Call
    <2> HIDE DEF F, bs
    <2>3. AddEach(W, D, "block", Blocks, F, c)
        BY <1>2, <2>1, <2>2 DEF AddEach
    <2> QED BY <1>1, <2>3, EachAdds
<1>6. d \in Frame
    BY DEF Call, Frame
<1>7. Leads(W, D, d, c, n, c, k)
    <2>1. d.visit = "depend"
        BY DEF Call
    <2> HIDE DEF d, n
    <2> QED BY <2>1 DEF Leads
<1> HIDE DEF n, k, d, s, R
<1>8. Runs(R, Counted, <<d>>, <<c, n>>, <<c, k>>) /\ <<d>> \in Seq(Frame)
    BY <1>4, <1>6, <1>7, OneLeads DEF R
<1>9. Runs(R, Counted, s \o <<d>>, <<c, m>>, <<c, k>>) /\ s \o <<d>> \in Seq(Frame)
    BY <1>5, <1>8, RunOn, ConcatProperties
<1> QED BY <1>4, <1>9 DEF Conjunction, d, s, R

LEMMA PairIsConcat == \A a, b : <<a, b>> = <<a>> \o <<b>>
<1> SUFFICES ASSUME NEW a, NEW b PROVE <<a, b>> = <<a>> \o <<b>>
    OBVIOUS
<1> DEFINE S == {a, b}
           u == <<a>>
<1>1. u \in Seq(S) /\ b \in S
    OBVIOUS
<1>2. <<a, b>> = Append(u, b)
    OBVIOUS
<1> HIDE DEF S, u
<1>3. Append(u, b) = u \o <<b>>
    BY <1>1, AppendIsConcat
<1> QED BY <1>2, <1>3 DEF u

\* One with a UNION: its branches, one after the other.
LEMMA BranchesRun ==
    ASSUME NEW W \in Weights, NEW D \in PrefixMaps, NEW c \in Context, NEW m \in Nat,
           c.seen = 0, c.decl = D, c.exact, c.tb # <<>>, c.ob # <<>>,
           NEW us \in Seq(Unions), us # <<>>, Front(us) \in Seq(Unions), Last(us) \in Unions
    PROVE  LET calls == BranchesOf(us, Len(Top(c.tb)), Len(Top(c.ob)))
               F == Shift(FullWeight(W, D), Base(Top(c.tb), Top(c.ob)))
               H == [h \in Group |-> Value(F, h, Front(us))]
           IN  /\ calls \in Seq(Frame)
               /\ Runs(Does(W, D), Counted, calls, <<c, m>>, <<c, m + Sum(H, Last(us).groups)>>)
<1> DEFINE p == Len(Top(c.tb))
           q == Len(Top(c.ob))
           R == Does(W, D)
           F == Shift(FullWeight(W, D), Base(Top(c.tb), Top(c.ob)))
           H == [h \in Group |-> Value(F, h, Front(us))]
           gs == Last(us).groups
           first(h) == Call("pattern", [group |-> h, gous |-> Front(us)])
           resize == Call("resize", <<p, q>>)
           K == [h \in Group |-> <<first(h), resize>>]
<1>1. Top(c.tb) \in Seq(Blocks) /\ Top(c.ob) \in Seq(Group) /\ p \in Nat /\ q \in Nat /\ gs \in Seq(Group)
    BY ContextType, TopProperties, LenProperties DEF Unions
<1>2. F \in Measures
    BY <1>1, BaseType, FullWeightMeasure, ShiftMeasure
<1>3. H \in [Group -> Nat]
    <2>1. Unions \subseteq Item
        BY DEF Unions, Item
    <2>2. Front(us) \in Seq(Item)
        BY <2>1, SeqMonotonic
    <2> HIDE DEF F
    <2> QED BY <1>2, <2>2, ValueType
<1>4. \A h \in Group : first(h) \in Frame /\ resize \in Frame
    BY <1>1 DEF Call, Frame
<1>5. Maps(K, Group, Seq(Frame))
    <2> HIDE DEF first, resize
    <2>1. \A h \in Group : <<first(h), resize>> \in Seq(Frame)
        BY <1>4, PairIsSeq
    <2> QED BY <2>1 DEF Maps
<1>6. BranchesOf(us, p, q) = Flat(K, gs)
    <2> DEFINE f == [i \in DOMAIN gs |-> <<first(gs[i]), resize>>]
    <2>1. BranchesOf(us, p, q) = FlattenSeq(f)
        BY DEF BranchesOf
    <2>2. \A i \in DOMAIN gs : gs[i] \in Group
        BY <1>1, LenProperties, ElementOfSeq
    <2> HIDE DEF gs, first, resize
    <2>3. f = Mapped(K, gs)
        BY <2>2 DEF Mapped
    <2> QED BY <2>1, <2>3 DEF Flat
<1> DEFINE e == Exactly(c, FALSE)
<1>7. /\ e \in Context /\ e.seen = 0 /\ e.tb = c.tb /\ e.ob = c.ob /\ e.exact = FALSE
      /\ Exactly(e, TRUE) = c
    <2>1. e \in Context /\ e.seen = 0 /\ e.tb = c.tb /\ e.ob = c.ob /\ e.exact = FALSE
        <3>1. FALSE \in BOOLEAN /\ c.tb \in Seq(Seq(Blocks)) /\ c.ob \in Seq(Seq(Group))
            BY ContextType
        <3>2. e = Stacked(c, c.tb, c.ob, FALSE)
            BY DEF Exactly
        <3>3. Stacked(c, c.tb, c.ob, FALSE) \in Context
            BY <3>1, StackedContext
        <3>4. Stacked(c, c.tb, c.ob, FALSE).exact = FALSE
            BY DEF Stacked
        <3>5. /\ Stacked(c, c.tb, c.ob, FALSE).seen = 0
              /\ Stacked(c, c.tb, c.ob, FALSE).tb = c.tb /\ Stacked(c, c.tb, c.ob, FALSE).ob = c.ob
            BY DEF Stacked
        <3> HIDE DEF e
        <3> QED BY <3>2, <3>3, <3>4, <3>5
    <2>2. e.decl = c.decl /\ e.subject = c.subject /\ e.predicate = c.predicate
        BY DEF Exactly, Stacked
    <2> HIDE DEF e
    <2>3. Exactly(e, TRUE) = [tb |-> c.tb, ob |-> c.ob, exact |-> TRUE, decl |-> c.decl, seen |-> c.seen,
                              subject |-> c.subject, predicate |-> c.predicate]
        BY <2>1, <2>2 DEF Exactly, Stacked
    <2>4. c = [tb |-> c.tb, ob |-> c.ob, exact |-> TRUE, decl |-> c.decl, seen |-> c.seen,
               subject |-> c.subject, predicate |-> c.predicate]
        BY DEF Context
    <2> QED BY <2>1, <2>3, <2>4
<1>8. ASSUME NEW h \in Group, NEW k \in Nat
      PROVE  Runs(R, Counted, K[h], <<c, k>>, <<c, k + H[h]>>)
    <2> DEFINE n == k + H[h]
    <2>1. n \in Nat
        BY <1>3
    <2>2. Leads(W, D, first(h), c, k, e, n)
        BY DEF Leads, Call
    <2>3. Leads(W, D, resize, e, n, c, n)
        <3>1. resize.visit = "resize" /\ resize.arg = <<Len(Top(e.tb)), Len(Top(e.ob))>>
            BY <1>7 DEF Call
        <3> HIDE DEF resize, e, n
        <3> QED BY <1>7, <3>1 DEF Leads
    <2> HIDE DEF first, resize, e, n, R, H
    <2>4. Runs(R, Counted, <<first(h)>>, <<c, k>>, <<e, n>>) /\ <<first(h)>> \in Seq(Frame)
        BY <1>4, <1>7, <2>1, <2>2, OneLeads DEF R
    <2>5. Runs(R, Counted, <<resize>>, <<e, n>>, <<c, n>>) /\ <<resize>> \in Seq(Frame)
        BY <1>4, <1>7, <2>1, <2>3, OneLeads DEF R
    <2>6. Runs(R, Counted, <<first(h)>> \o <<resize>>, <<c, k>>, <<c, n>>)
        BY <2>4, <2>5, RunOn
    <2>7. K[h] = <<first(h)>> \o <<resize>>
        BY PairIsConcat
    <2> QED BY <2>6, <2>7 DEF n
<1>9. \A k \in Nat : <<c, k>> \in Counted
    BY DEF Counted
<1> HIDE DEF K, H, F, R, e
<1>10. AddsUp(R, Counted, Frame, Group, K, H, c)
    BY <1>3, <1>5, <1>8, <1>9 DEF AddsUp
<1>11. Runs(R, Counted, Flat(K, gs), <<c, m>>, <<c, m + Sum(H, gs)>>)
    BY <1>1, <1>10, RunSum
<1>12. Flat(K, gs) \in Seq(Frame)
    BY <1>1, <1>5, FlatType
<1> QED BY <1>6, <1>11, <1>12 DEF H, F, R

LEMMA PatternLeads ==
    ASSUME NEW W \in Weights, NEW D \in PrefixMaps, NEW y \in Counted,
           Shape, LeadsTo(W, D, y), visitWellDesignedPattern
    PROVE  LeadsTo(W, D, y)'
<1> DEFINE f == Head(visits)
           m == Sum(W, triple_patterns)
           R == Does(W, D)
           g == Arg.group
           us == Arg.gous \o OfKind(g, "union")
           T == AddTop(triples_blocks, OfKind(g, "block"))
           O == AddTop(optional_blocks, OptionalGroups(g))
           calls == IF us = <<>> THEN Conjunction(Top(T)) ELSE BranchesOf(us, Len(Top(T)), Len(Top(O)))
           B == Base(Top(triples_blocks), Top(optional_blocks))
           F == Shift(FullWeight(W, D), B)
<1>1. f.visit = "pattern" /\ f.arg = Arg /\ visits # <<>> /\ Do(calls)
    BY DEF visitWellDesignedPattern, Calling, Arg
<1>2. /\ UNCHANGED <<prefixes, triple_patterns, active_subject, active_predicate>>
      /\ triples_blocks' = T /\ optional_blocks' = O
    BY DEF visitWellDesignedPattern, nameVars, odgVars, activeVars
<1>3. g \in Group /\ Arg.gous \in Seq(Unions) /\ us \in Seq(Unions)
    <2>1. g \in Group /\ Arg.gous \in Seq(Unions)
        BY <1>1, ArgType DEF visitWellDesignedPattern
    <2> QED BY <2>1, KindTypes, ConcatProperties
<1>4. m \in Nat /\ triples_blocks \in Seq(Seq(Blocks)) /\ optional_blocks \in Seq(Seq(Group))
    BY NowType DEF Shape, GraphType, StacksType
<1> HIDE DEF f, m, R
<1>5. ASSUME NEW c \in Context, c.seen = 0, c.decl = D, c.exact, c.tb = T, c.ob = O, T # <<>>, O # <<>>,
             B \in Branch, OwnPart(g) \in Branch, Base(Top(T), Top(O)) = Join(B, OwnPart(g))
      PROVE  /\ calls \in Seq(Frame)
             /\ Runs(R, Counted, calls, <<c, m>>, <<c, m + Value(F, g, Arg.gous)>>)
    <2>1. FullWeight(W, D) \in Measures /\ FullWeight(W, D) \in [Branch -> Nat] /\ F \in Measures
          /\ F \in [Branch -> Nat]
        BY <1>5, FullWeightMeasure, GroupWeightType, ShiftMeasure, MeasureType
    <2>2. Shift(F, OwnPart(g)) = Shift(FullWeight(W, D), Base(Top(T), Top(O)))
        BY <1>5, <2>1, ShiftTwice
    <2>3. F[OwnPart(g)] = FullWeight(W, D)[Base(Top(T), Top(O))]
        <3>1. \A x \in Branch : F[x] = FullWeight(W, D)[Join(B, x)]
            BY <1>5, <2>1, ShiftType
        <3> HIDE DEF F, B, T, O
        <3> QED BY <1>5, <3>1
    <2>4. Arg.gous \in Seq(Item)
        <3>1. Unions \subseteq Item
            BY DEF Unions, Item
        <3> QED BY <1>3, <3>1, SeqMonotonic
    <2> HIDE DEF T, O, B, F, g
    <2>5. CASE us = <<>>
        <3>1. Value(F, g, Arg.gous) = F[OwnPart(g)]
            BY <1>3, <2>1, <2>4, <2>5, DistributeNone
        <3>2. /\ Conjunction(Top(T)) \in Seq(Frame)
              /\ Runs(R, Counted, Conjunction(Top(T)), <<c, m>>, <<c, m + FullWeight(W, D)[Base(Top(T), Top(O))]>>)
            BY <1>4, <1>5, ConjunctionRuns DEF R
        <3> QED BY <2>3, <2>5, <3>1, <3>2
    <2>6. CASE us # <<>>
        <3> DEFINE H == [h \in Group |-> Value(Shift(F, OwnPart(g)), h, Front(us))]
                   b == BranchesOf(us, Len(Top(T)), Len(Top(O)))
        <3>1. /\ Front(us) \in Seq(Unions) /\ Last(us) \in Unions
              /\ Value(F, g, Arg.gous) = Sum(H, Last(us).groups)
            BY <1>3, <2>1, <2>6, DistributeLast
        <3>2. b \in Seq(Frame) /\ Runs(R, Counted, b, <<c, m>>, <<c, m + Sum(H, Last(us).groups)>>)
            <4> HIDE DEF us
            <4>1. /\ b \in Seq(Frame)
                  /\ Runs(R, Counted, b, <<c, m>>,
                          <<c, m + Sum([h \in Group |-> Value(Shift(FullWeight(W, D), Base(Top(T), Top(O))), h, Front(us))],
                                       Last(us).groups)>>)
                BY <1>3, <1>4, <1>5, <2>6, <3>1, BranchesRun DEF R
            <4> QED BY <2>2, <4>1
        <3> HIDE DEF H, b, us
        <3>3. calls = b
            BY <2>6 DEF b
        <3> QED BY <3>1, <3>2, <3>3
    <2> QED BY <2>5, <2>6
<1>6. ASSUME NEW a \in Context, NEW b \in Context, NEW n \in Nat,
             Weaker(a, Here), Leads(W, D, f, a, m, b, n)
      PROVE  /\ calls \in Seq(Frame)
             /\ \E c, d \in Context : /\ Weaker(c, Here') /\ Weaker(b, d)
                                      /\ Runs(R, Counted, calls, <<c, Sum(W, triple_patterns')>>, <<d, n>>)
    <2> HIDE DEF calls
    <2>1. /\ a.seen = 0 /\ a.decl = D /\ a.exact /\ a.tb # <<>> /\ a.ob # <<>> /\ b = Exactly(a, FALSE)
          /\ n = m + Value(Shift(FullWeight(W, D), Base(Top(a.tb), Top(a.ob))), Arg.group, Arg.gous)
        BY <1>1, <1>6 DEF Leads
    <2>2. a.tb = triples_blocks /\ a.ob = optional_blocks /\ a.decl = prefixes
        BY <1>6, <2>1, WeakerHere
    <2>3. /\ T \in Seq(Seq(Blocks)) /\ O \in Seq(Seq(Group)) /\ T # <<>> /\ O # <<>>
          /\ Kept(triples_blocks, T) /\ Kept(optional_blocks, O)
          /\ B \in Branch /\ OwnPart(g) \in Branch
          /\ Base(Top(T), Top(O)) = Join(B, OwnPart(g))
        BY <1>3, <1>4, <2>1, <2>2, PatternStacks
    <2>4. n = m + Value(F, g, Arg.gous)
        BY <2>1, <2>2
    <2> HIDE DEF T, O, B, F, g
    <2> DEFINE c == Stacked(a, T, O, TRUE)
    <2>5. /\ c \in Context /\ c.seen = 0 /\ c.decl = D /\ c.exact = TRUE /\ c.tb = T /\ c.ob = O
        <3>1. c \in Context
            BY <2>3, StackedContext
        <3> QED BY <2>1, <3>1 DEF Stacked
    <2> HIDE DEF c
    <2>6. calls \in Seq(Frame) /\ Runs(R, Counted, calls, <<c, m>>, <<c, n>>)
        BY <1>5, <2>3, <2>4, <2>5
    <2>7. Weaker(c, Here')
        BY <1>2, <2>1, <2>2, <2>5, WeakerNext
    <2>8. Weaker(b, c)
        <3>1. b.decl = D /\ b.seen = 0 /\ b.exact = FALSE /\ b.tb = a.tb /\ b.ob = a.ob
            BY <2>1 DEF Exactly, Stacked
        <3> QED BY <2>2, <2>3, <2>5, <3>1 DEF Weaker
    <2> QED BY <1>2, <2>5, <2>6, <2>7, <2>8 DEF m
<1>7. PICK a \in Context, b \in Context, n \in Nat : Weaker(a, Here) /\ Leads(W, D, f, a, m, b, n)
    BY <1>1, LeadsSome DEF f, m
<1>8. calls \in Seq(Frame)
    BY <1>6, <1>7
<1>9. Shape'
    BY PatternShape
<1> HIDE DEF calls
<1> QED BY <1>1, <1>6, <1>8, <1>9, StepLeads DEF f, m, R

\* What a group comes to before anything else has been collected.
LEMMA GroupValue ==
    ASSUME NEW W \in Weights, NEW D \in PrefixMaps, NEW g \in Group
    PROVE  Value(Shift(FullWeight(W, D), Base(<<>>, <<>>)), g, <<>>) = GroupWeight(W, D)[g]
<1> DEFINE F == FullWeight(W, D)
           bs == Branches[g]
<1>1. F \in [Branch -> Nat]
    BY GroupWeightType
<1>2. GroupWeight(W, D)[g] = Sum(F, bs)
    BY GroupWeightIs
<1>3. bs \in Seq(Branch)
    BY BranchesType
<1> HIDE DEF F, bs
<1>4. Shift(F, Base(<<>>, <<>>)) = F
    BY <1>1, BaseEmpty, ShiftNothing
<1>5. Nothing \in Branch
    BY BranchFacts
<1>51. With(F, bs) \in [Branch -> Nat] /\ With(F, bs)[Nothing] = Sum(Shift(F, Nothing), bs)
    BY <1>1, <1>3, <1>5, WithType
<1>52. With(F, bs)[Nothing] = Sum(F, bs)
    BY <1>1, <1>51, ShiftNothing
<1>6. Sum(With(F, bs), <<Nothing>>) = With(F, bs)[Nothing]
    BY <1>5, <1>51, SumOne
<1>7. Sum(F, JoinBranches(<<Nothing>>, bs)) = Sum(With(F, bs), <<Nothing>>)
    <2>1. <<Nothing>> \in Seq(Branch)
        BY <1>5
    <2> QED BY <1>1, <1>3, <2>1, SumJoinBranches
<1>8. Value(F, g, <<>>) = Sum(F, JoinBranches(<<Nothing>>, bs))
    BY AllOfEmpty DEF Value, bs
<1> QED BY <1>2, <1>4, <1>52, <1>6, <1>7, <1>8 DEF F

LEMMA PushedFacts ==
    ASSUME NEW S, NEW s \in Seq(Seq(S))
    PROVE  /\ Push(s, <<>>) \in Seq(Seq(S)) /\ Push(s, <<>>) # <<>>
           /\ Top(Push(s, <<>>)) = <<>> /\ Pop(Push(s, <<>>)) = s
<1> DEFINE T == Seq(S)
           u == Push(s, <<>>)
<1>1. s \in Seq(T) /\ <<>> \in T
    BY EmptySeq
<1> HIDE DEF T
<1>2. /\ u \in Seq(T) /\ u # <<>> /\ Len(u) = Len(s) + 1
      /\ (\A i \in 1..Len(s) : u[i] = s[i]) /\ u[Len(s) + 1] = <<>>
    BY <1>1, AppendFacts
<1> HIDE DEF u
<1>3. Len(s) \in Nat
    BY LenProperties
<1>4. Pop(u) \in Seq(T) /\ Len(Pop(u)) = Len(u) - 1 /\ \A i \in 1..(Len(u) - 1) : Pop(u)[i] = u[i]
    BY <1>2, PopProperties
<1>5. Len(Pop(u)) = Len(s) /\ \A i \in 1..Len(s) : Pop(u)[i] = s[i]
    BY <1>2, <1>3, <1>4
<1>6. Pop(u) = s
    BY <1>1, <1>4, <1>5, SeqEqual
<1>7. Top(u) = <<>>
    BY <1>2 DEF Top
<1> QED BY <1>2, <1>6, <1>7 DEF u, T

\* A group from where it is entered to where it is left.
LEMMA GroupRuns ==
    ASSUME NEW W \in Weights, NEW D \in PrefixMaps, NEW a \in Context, NEW m \in Nat, NEW g \in Group,
           a.seen = 0, a.decl = D, a.exact, NEW f \in {"leave", "end"}
    PROVE  LET c == Stacked(a, Push(a.tb, <<>>), Push(a.ob, <<>>), TRUE)
               calls == <<Call("pattern", [group |-> g, gous |-> <<>>]), Call(f, <<>>)>>
           IN  /\ calls \in Seq(Frame)
               /\ c \in Context
               /\ Runs(Does(W, D), Counted, calls, <<c, m>>, <<a, m + GroupWeight(W, D)[g]>>)
<1> DEFINE R == Does(W, D)
           T == Push(a.tb, <<>>)
           O == Push(a.ob, <<>>)
           c == Stacked(a, T, O, TRUE)
           e == Exactly(c, FALSE)
           p == Call("pattern", [group |-> g, gous |-> <<>>])
           l == Call(f, <<>>)
           n == m + GroupWeight(W, D)[g]
<1>1. p \in Frame /\ l \in Frame /\ n \in Nat
    <2>1. <<>> \in Seq(Unions)
        BY EmptySeq
    <2>2. p \in Frame /\ l \in Frame
        BY <2>1 DEF Call, Frame
    <2> QED BY <2>2, GroupWeightType
<1>2. /\ T \in Seq(Seq(Blocks)) /\ T # <<>> /\ Top(T) = <<>> /\ Pop(T) = a.tb
      /\ O \in Seq(Seq(Group)) /\ O # <<>> /\ Top(O) = <<>> /\ Pop(O) = a.ob
    <2>1. a.tb \in Seq(Seq(Blocks)) /\ a.ob \in Seq(Seq(Group))
        BY ContextType
    <2> QED BY <2>1, PushedFacts
<1> HIDE DEF T, O
<1>3. /\ c \in Context /\ c.seen = 0 /\ c.decl = D /\ c.exact = TRUE /\ c.tb = T /\ c.ob = O
      /\ c.subject = a.subject /\ c.predicate = a.predicate
    <2>1. c \in Context
        BY <1>2, StackedContext
    <2> QED BY <2>1 DEF Stacked
<1>4. e \in Context /\ e.seen = 0 /\ e.tb = T /\ e.ob = O /\ Popped(e) = a
    <2>1. FALSE \in BOOLEAN
        OBVIOUS
    <2>2. Stacked(c, T, O, FALSE) \in Context
        BY <1>2, <1>3, <2>1, StackedContext
    <2>3. e = Stacked(c, T, O, FALSE)
        BY <1>3 DEF Exactly
    <2>4. e.seen = 0 /\ e.tb = T /\ e.ob = O /\ e.decl = a.decl /\ e.subject = a.subject /\ e.predicate = a.predicate
        <3> HIDE DEF c, e
        <3> QED BY <1>3, <2>3 DEF Stacked
    <2> HIDE DEF e
    <2>5. Popped(e) = [tb |-> a.tb, ob |-> a.ob, exact |-> TRUE, decl |-> a.decl, seen |-> a.seen,
                       subject |-> a.subject, predicate |-> a.predicate]
        BY <1>2, <2>4 DEF Popped, Stacked
    <2>6. a = [tb |-> a.tb, ob |-> a.ob, exact |-> TRUE, decl |-> a.decl, seen |-> a.seen,
               subject |-> a.subject, predicate |-> a.predicate]
        BY DEF Context
    <2> QED BY <2>2, <2>3, <2>4, <2>5, <2>6
<1> HIDE DEF c
<1>5. Leads(W, D, p, c, m, e, n)
    <2>1. p.visit = "pattern" /\ p.arg.group = g /\ p.arg.gous = <<>>
        BY DEF Call
    <2>2. n = m + Value(Shift(FullWeight(W, D), Base(Top(c.tb), Top(c.ob))), p.arg.group, p.arg.gous)
        BY <1>2, <1>3, <2>1, GroupValue
    <2> HIDE DEF p, n
    <2> QED BY <1>2, <1>3, <2>1, <2>2 DEF Leads
<1>6. Leads(W, D, l, e, n, a, n)
    <2>1. l.visit \in {"leave", "end"}
        BY DEF Call
    <2> HIDE DEF l, n, e
    <2> QED BY <1>2, <1>4, <2>1 DEF Leads
<1> HIDE DEF e, p, l, n, R
<1>7. Runs(R, Counted, <<p>>, <<c, m>>, <<e, n>>) /\ <<p>> \in Seq(Frame)
    BY <1>1, <1>3, <1>4, <1>5, OneLeads DEF R
<1>8. Runs(R, Counted, <<l>>, <<e, n>>, <<a, n>>) /\ <<l>> \in Seq(Frame)
    BY <1>1, <1>4, <1>6, OneLeads DEF R
<1>9. Runs(R, Counted, <<p>> \o <<l>>, <<c, m>>, <<a, n>>) /\ <<p>> \o <<l>> \in Seq(Frame)
    BY <1>7, <1>8, RunOn, ConcatProperties
<1>10. <<p, l>> = <<p>> \o <<l>>
    BY PairIsConcat
<1>11. <<p, l>> \in Seq(Frame) /\ c \in Context /\ Runs(R, Counted, <<p, l>>, <<c, m>>, <<a, n>>)
    BY <1>3, <1>9, <1>10
<1> QED BY <1>11 DEF c, T, O, p, l, n, R

LEMMA EnterLeads ==
    ASSUME NEW W \in Weights, NEW D \in PrefixMaps, NEW y \in Counted,
           Shape, LeadsTo(W, D, y), EnterOptional \/ visitWhereClause
    PROVE  LeadsTo(W, D, y)'
<1> DEFINE f == Head(visits)
           m == Sum(W, triple_patterns)
           R == Does(W, D)
           s(l) == <<Call("pattern", [group |-> Arg, gous |-> <<>>]), Call(l, <<>>)>>
<1>1. PICK l \in {"leave", "end"} : Do(s(l))
    BY DEF EnterOptional, visitWhereClause
<1> DEFINE calls == s(l)
<1>2. f.visit \in {"where", "optional"} /\ f.arg = Arg /\ visits # <<>> /\ Do(calls)
    BY <1>1 DEF EnterOptional, visitWhereClause, Calling, Arg
<1>3. /\ UNCHANGED <<prefixes, triple_patterns, active_subject, active_predicate>>
      /\ triples_blocks' = Push(triples_blocks, <<>>) /\ optional_blocks' = Push(optional_blocks, <<>>)
    BY DEF EnterOptional, visitWhereClause, EnterGroup, nameVars, odgVars, activeVars
<1>4. Arg \in Group /\ m \in Nat
    <2>1. Arg \in Group
        BY ArgType DEF EnterOptional, visitWhereClause
    <2> QED BY <2>1, NowType DEF Shape
<1> HIDE DEF f, m, R
<1>5. ASSUME NEW a \in Context, NEW b \in Context, NEW n \in Nat,
             Weaker(a, Here), Leads(W, D, f, a, m, b, n)
      PROVE  /\ calls \in Seq(Frame)
             /\ \E c, d \in Context : /\ Weaker(c, Here') /\ Weaker(b, d)
                                      /\ Runs(R, Counted, calls, <<c, Sum(W, triple_patterns')>>, <<d, n>>)
    <2>1. a.seen = 0 /\ a.decl = D /\ a.exact /\ b = a /\ n = m + GroupWeight(W, D)[Arg]
        BY <1>2, <1>5 DEF Leads
    <2>2. a.tb = triples_blocks /\ a.ob = optional_blocks /\ a.decl = prefixes
        BY <1>5, <2>1, WeakerHere
    <2> DEFINE c == Stacked(a, Push(a.tb, <<>>), Push(a.ob, <<>>), TRUE)
    <2>3. calls \in Seq(Frame) /\ c \in Context /\ Runs(R, Counted, calls, <<c, m>>, <<a, n>>)
        BY <1>4, <2>1, GroupRuns DEF R
    <2>4. /\ c.decl = a.decl /\ c.seen = 0 /\ c.exact = TRUE
          /\ c.tb = Push(a.tb, <<>>) /\ c.ob = Push(a.ob, <<>>)
        BY <2>1 DEF Stacked
    <2> HIDE DEF c, calls
    <2>5. Weaker(c, Here')
        BY <1>3, <2>2, <2>3, <2>4, WeakerNext
    <2>6. Weaker(b, a)
        BY <2>1, WeakerFacts
    <2> QED BY <1>3, <2>3, <2>5, <2>6 DEF m
<1>6. PICK a \in Context, b \in Context, n \in Nat : Weaker(a, Here) /\ Leads(W, D, f, a, m, b, n)
    BY <1>2, LeadsSome DEF f, m
<1>7. calls \in Seq(Frame)
    BY <1>5, <1>6
<1>8. Shape'
    BY EnterShape, WhereShape
<1> HIDE DEF calls
<1> QED BY <1>2, <1>5, <1>7, <1>8, StepLeads DEF f, m, R

LEMMA LeaveLeads ==
    ASSUME NEW W \in Weights, NEW D \in PrefixMaps, NEW y \in Counted,
           Shape, LeadsTo(W, D, y), LeaveOptional \/ EndWhereClause
    PROVE  LeadsTo(W, D, y)'
<1> DEFINE f == Head(visits)
<1>1. f.visit \in {"leave", "end"} /\ f.arg = Arg /\ visits # <<>> /\ Return
    BY DEF LeaveOptional, EndWhereClause, Calling, Arg
<1>2. /\ UNCHANGED <<prefixes, triple_patterns, active_subject, active_predicate>>
      /\ triples_blocks' = Pop(triples_blocks) /\ optional_blocks' = Pop(optional_blocks)
    BY DEF LeaveOptional, EndWhereClause, LeaveGroup, nameVars, odgVars, activeVars
<1>3. triples_blocks \in Seq(Seq(Blocks)) /\ optional_blocks \in Seq(Seq(Group))
    BY DEF Shape, GraphType, StacksType
<1> HIDE DEF f
<1>4. ASSUME NEW a \in Context, NEW b \in Context, NEW n \in Nat,
             Weaker(a, Here), Leads(W, D, f, a, Sum(W, triple_patterns), b, n)
      PROVE  Weaker(b, Here') /\ n = Sum(W, triple_patterns')
    <2>1. /\ a.seen = 0 /\ n = Sum(W, triple_patterns) /\ a.tb # <<>> /\ a.ob # <<>> /\ b = Popped(a)
        BY <1>1, <1>4 DEF Leads
    <2>2. /\ b.decl = a.decl /\ b.seen = 0 /\ b.exact = TRUE /\ b.tb = Pop(a.tb) /\ b.ob = Pop(a.ob)
        BY <2>1 DEF Popped, Stacked
    <2>3. a.tb \in Seq(Seq(Blocks)) /\ a.ob \in Seq(Seq(Group)) /\ a.exact \in BOOLEAN
        BY ContextType
    <2>4. Kept(a.tb, triples_blocks) /\ Kept(a.ob, optional_blocks)
        <3>1. CASE a.exact
            BY <1>3, <1>4, <3>1, WeakerHere, KeptFacts
        <3>2. CASE ~a.exact
            BY <1>4, <3>2, WeakerHere
        <3> QED BY <3>1, <3>2
    <2>5. Pop(triples_blocks) = Pop(a.tb)
        BY <1>3, <2>1, <2>3, <2>4, KeptTop
    <2>6. Pop(optional_blocks) = Pop(a.ob)
        BY <1>3, <2>1, <2>3, <2>4, KeptTop
    <2>7. a.decl = prefixes
        BY <1>4, WeakerHere
    <2>8. Weaker(b, Here')
        BY <1>2, <2>2, <2>5, <2>6, <2>7, WeakerNext
    <2> QED BY <1>2, <2>1, <2>8
<1>5. Shape'
    BY LeaveShape, EndShape
<1> QED BY <1>1, <1>4, <1>5, ReturnLeads DEF f

LEMMA OptionalsLeads ==
    ASSUME NEW W \in Weights, NEW D \in PrefixMaps, NEW y \in Counted,
           Shape, LeadsTo(W, D, y), VisitOptionals
    PROVE  LeadsTo(W, D, y)'
<1> DEFINE f == Head(visits)
           m == Sum(W, triple_patterns)
           R == Does(W, D)
           G == GroupWeight(W, D)
           os == Top(optional_blocks)
           s == Calls("optional", os)
           l == Call("close", <<>>)
<1>1. f.visit = "depend" /\ f.arg = Arg /\ visits # <<>> /\ Do(s \o <<l>>)
    BY DEF VisitOptionals, Calling, Arg
<1>2. UNCHANGED <<prefixes, triple_patterns, active_subject, active_predicate, triples_blocks, optional_blocks>>
    BY DEF VisitOptionals, nameVars, activeVars, groupVars
<1>3. m \in Nat /\ G \in [Group -> Nat] /\ optional_blocks \in Seq(Seq(Group))
    BY NowType, GroupWeightType DEF Shape, GraphType, StacksType
<1>4. l \in Frame /\ l.visit = "close" /\ \A x \in Group : Call("optional", x) \in Frame
    BY DEF Call, Frame
<1>5. <<l>> \in Seq(Frame)
    BY <1>4
<1> HIDE DEF f, m, R, G, l
<1>6. ASSUME NEW a \in Context, NEW b \in Context, NEW n \in Nat,
             Weaker(a, Here), Leads(W, D, f, a, m, b, n)
      PROVE  /\ s \o <<l>> \in Seq(Frame)
             /\ \E c, d \in Context : /\ Weaker(c, Here') /\ Weaker(b, d)
                                      /\ Runs(R, Counted, s \o <<l>>, <<c, Sum(W, triple_patterns')>>, <<d, n>>)
    <2>1. a.seen = 0 /\ a.decl = D /\ a.exact /\ a.ob # <<>> /\ b = a /\ n = m + Sum(G, Top(a.ob))
        BY <1>1, <1>6 DEF Leads, G
    <2>2. a.ob = optional_blocks
        BY <1>6, <2>1, WeakerHere
    <2>3. os \in Seq(Group)
        BY <1>3, <2>1, <2>2, TopProperties
    <2>4. AddEach(W, D, "optional", Group, G, a)
        <3>1. ASSUME NEW x \in Group, NEW k \in Nat PROVE Leads(W, D, Call("optional", x), a, k, a, k + G[x])
            BY <2>1 DEF Leads, Call, G
        <3> QED BY <1>3, <1>4, <3>1 DEF AddEach
    <2>5. n = m + Sum(G, os)
        BY <2>1, <2>2
    <2> HIDE DEF os
    <2>6. Runs(R, Counted, s, <<a, m>>, <<a, n>>) /\ s \in Seq(Frame)
        BY <1>3, <2>3, <2>4, <2>5, EachAdds DEF R
    <2>7. Runs(R, Counted, <<l>>, <<a, n>>, <<a, n>>)
        <3>1. Leads(W, D, l, a, n, a, n)
            BY <1>4, <2>1 DEF Leads
        <3> QED BY <1>4, <3>1, OneLeads DEF R
    <2> HIDE DEF s
    <2>8. Runs(R, Counted, s \o <<l>>, <<a, m>>, <<a, n>>) /\ s \o <<l>> \in Seq(Frame)
        BY <1>5, <2>6, <2>7, RunOn, ConcatProperties
    <2>9. Weaker(a, Here') /\ Weaker(b, a)
        BY <1>2, <1>6, <2>1, StaysWeaker, WeakerFacts
    <2> QED BY <1>2, <2>8, <2>9 DEF m
<1>7. PICK a \in Context, b \in Context, n \in Nat : Weaker(a, Here) /\ Leads(W, D, f, a, m, b, n)
    BY <1>1, LeadsSome DEF f, m
<1>8. s \o <<l>> \in Seq(Frame)
    BY <1>6, <1>7
<1>9. Shape'
    BY OptionalsShape
<1> HIDE DEF s
<1> QED BY <1>1, <1>6, <1>8, <1>9, StepLeads DEF f, m, R

\* Nothing that is counted changes.
LEMMA PassLeads ==
    ASSUME NEW W \in Weights, NEW D \in PrefixMaps, NEW y \in Counted,
           Shape, Shape', LeadsTo(W, D, y), visits # <<>>, Return,
           Head(visits).visit \in {"select", "variable", "close"},
           UNCHANGED <<prefixes, triple_patterns, active_subject, active_predicate, triples_blocks, optional_blocks>>
    PROVE  LeadsTo(W, D, y)'
<1> DEFINE f == Head(visits)
<1>1. f.visit \in {"select", "variable", "close"}
    OBVIOUS
<1> HIDE DEF f
<1>2. ASSUME NEW a \in Context, NEW b \in Context, NEW n \in Nat,
             Weaker(a, Here), Leads(W, D, f, a, Sum(W, triple_patterns), b, n)
      PROVE  Weaker(b, Here') /\ n = Sum(W, triple_patterns')
    <2>1. b = a /\ n = Sum(W, triple_patterns)
        BY <1>1, <1>2 DEF Leads
    <2>2. Weaker(b, Here')
        BY <1>2, <2>1, StaysWeaker
    <2> QED BY <2>1, <2>2
<1> QED BY <1>2, ReturnLeads DEF f

LEMMA CloseLeads ==
    ASSUME NEW W \in Weights, NEW D \in PrefixMaps, NEW y \in Counted,
           Shape, LeadsTo(W, D, y), CloseConjunction
    PROVE  LeadsTo(W, D, y)'
<1>1. Head(visits).visit = "close" /\ visits # <<>> /\ Return
    BY DEF CloseConjunction, Calling
<1>2. UNCHANGED <<prefixes, triple_patterns, active_subject, active_predicate, triples_blocks, optional_blocks>>
    BY DEF CloseConjunction, nameVars, odgVars, activeVars
<1> QED BY <1>1, <1>2, CloseShape, PassLeads

LEMMA AsteriskLeads ==
    ASSUME NEW W \in Weights, NEW D \in PrefixMaps, NEW y \in Counted,
           Shape, LeadsTo(W, D, y), visitAsterisk, error' = "none"
    PROVE  LeadsTo(W, D, y)'
<1>1. Head(visits).visit = "select" /\ visits # <<>>
    BY DEF visitAsterisk, Calling
<1>2. ~Throw(Thrown)
    BY DEF Throw, Thrown
<1>3. /\ Return
      /\ UNCHANGED <<prefixes, triple_patterns, active_subject, active_predicate, triples_blocks, optional_blocks>>
    BY <1>2 DEF visitAsterisk, odgVars, activeVars, groupVars
<1> QED BY <1>1, <1>3, AsteriskShape, PassLeads

LEMMA SelectVariableLeads ==
    ASSUME NEW W \in Weights, NEW D \in PrefixMaps, NEW y \in Counted,
           Shape, LeadsTo(W, D, y), visitSelectVariable, error' = "none"
    PROVE  LeadsTo(W, D, y)'
<1>1. Head(visits).visit = "variable" /\ visits # <<>>
    BY DEF visitSelectVariable, Calling
<1>2. ~Throw(Thrown)
    BY DEF Throw, Thrown
<1>3. /\ Return
      /\ UNCHANGED <<prefixes, triple_patterns, active_subject, active_predicate, triples_blocks, optional_blocks>>
    BY <1>2 DEF visitSelectVariable, odgVars, activeVars, groupVars
<1> QED BY <1>1, <1>3, SelectVariableShape, PassLeads

LEMMA SelectLeads ==
    ASSUME NEW W \in Weights, NEW D \in PrefixMaps, NEW y \in Counted,
           Shape, LeadsTo(W, D, y), visitSelectClause
    PROVE  LeadsTo(W, D, y)'
<1> DEFINE f == Head(visits)
           m == Sum(W, triple_patterns)
           calls == Calls("variable", Arg)
           Z == [x \in Selection |-> 0]
<1>1. f.visit = "select" /\ visits # <<>> /\ Do(calls) /\ Arg # All
    BY DEF visitSelectClause, Calling
<1>2. UNCHANGED <<prefixes, triple_patterns, active_subject, active_predicate, triples_blocks, optional_blocks>>
    BY DEF visitSelectClause, nameVars, odgVars, activeVars, groupVars
<1>3. Arg \in Seq(Selection) /\ m \in Nat
    <2>1. Arg \in {All} \cup Seq(Selection)
        BY ArgType DEF visitSelectClause
    <2> QED BY <1>1, <2>1, NowType DEF Shape
<1>4. \A x \in Selection : Call("variable", x) \in Frame
    BY DEF Call, Frame
<1>5. Z \in [Selection -> Nat] /\ \A x \in Selection : Z[x] = 0
    OBVIOUS
<1> HIDE DEF f, m, Z
<1>6. Sum(Z, Arg) = 0
    BY <1>3, <1>5, SumZero
<1>7. calls \in Seq(Frame)
    BY <1>3, <1>4, CallsAreFrames
<1>8. ASSUME NEW a \in Context, NEW b \in Context, NEW n \in Nat,
             Weaker(a, Here), Leads(W, D, f, a, m, b, n)
      PROVE  \E c, d \in Context : /\ Weaker(c, Here') /\ Weaker(b, d)
                                   /\ Runs(Does(W, D), Counted, calls, <<c, Sum(W, triple_patterns')>>, <<d, n>>)
    <2>1. b = a /\ n = m /\ a.seen = 0
        BY <1>1, <1>8 DEF Leads
    <2>2. AddEach(W, D, "variable", Selection, Z, a)
        <3>1. ASSUME NEW x \in Selection, NEW k \in Nat PROVE Leads(W, D, Call("variable", x), a, k, a, k + Z[x])
            <4>1. k + Z[x] = k
                BY <1>5
            <4> QED BY <2>1, <4>1 DEF Leads, Call
        <3> QED BY <1>4, <1>5, <3>1 DEF AddEach
    <2>3. m + Sum(Z, Arg) = n
        BY <1>3, <1>6, <2>1
    <2>4. Runs(Does(W, D), Counted, calls, <<a, m>>, <<a, n>>)
        BY <1>3, <2>2, <2>3, EachAdds
    <2>5. Weaker(a, Here') /\ Weaker(b, a)
        BY <1>2, <1>8, <2>1, StaysWeaker, WeakerFacts
    <2> QED BY <1>2, <2>4, <2>5 DEF m
<1>9. Shape'
    BY SelectShape
<1> HIDE DEF calls
<1> QED BY <1>1, <1>7, <1>8, <1>9, StepLeads DEF f, m

\* Every step leaves to be done what is still missing.
LEMMA VisitLeads ==
    ASSUME NEW W \in Weights, NEW D \in PrefixMaps, NEW y \in Counted,
           Shape, LeadsTo(W, D, y), Visit, error' = "none"
    PROVE  LeadsTo(W, D, y)'
<1>1. ~visitSubquery /\ ~visitSubSelect
    BY DEF visitSubquery, visitSubSelect, Throw, Thrown, Crashed
<1>2. CASE visitPrologue
    BY <1>2, PrologueLeads
<1>3. CASE visitTriplesBlock \/ visitTriplesNode \/ visitTriplesSameSubjectPath
    BY <1>3, BlockLeads, TriplesNodeLeads, SubjectLeads
<1>4. CASE visitPropertyListPath \/ visitPath \/ visitVerbPath \/ visitObject
    BY <1>4, PropertyLeads, PathLeads, VerbLeads, ObjectLeads
<1>5. CASE visitWellDesignedPattern \/ Resize
    BY <1>5, PatternLeads, ResizeLeads
<1>6. CASE VisitOptionals \/ CloseConjunction \/ EnterOptional \/ LeaveOptional
    BY <1>6, OptionalsLeads, CloseLeads, EnterLeads, LeaveLeads
<1>7. CASE visitWhereClause \/ EndWhereClause
    BY <1>7, EnterLeads, LeaveLeads
<1>8. CASE visitAsterisk \/ visitSelectClause \/ visitSelectVariable
    BY <1>8, AsteriskLeads, SelectLeads, SelectVariableLeads
<1> QED BY <1>1, <1>2, <1>3, <1>4, <1>5, <1>6, <1>7, <1>8 DEF Visit

-----------------------------------------------------------------------------
(* The declarations of prefixes.                                            *)

\* The places where p is declared, and the last of them.
Places(s, p) == {i \in DOMAIN s : s[i].prefix = p}
IsLastOf(S, i)  == i \in S /\ \A j \in S : j <= i
LastPlace(s, p) == CHOOSE i \in Places(s, p) : \A j \in Places(s, p) : j <= i

DeclaredIn(s) == {s[i].prefix : i \in DOMAIN s}

LEMMA DeclaredIs ==
    ASSUME NEW s
    PROVE  Declared(s) = [p \in DeclaredIn(s) |-> s[LastPlace(s, p)].namespace]
BY DEF Declared, DeclaredIn, LastPlace, Places

LEMMA LastIs ==
    ASSUME NEW s, NEW p, NEW i, Places(s, p) \subseteq Nat, IsLastOf(Places(s, p), i)
    PROVE  LastPlace(s, p) = i
<1>1. \A k \in Places(s, p) : (\A j \in Places(s, p) : j <= k) => k = i
    <2> SUFFICES ASSUME NEW k \in Places(s, p), \A j \in Places(s, p) : j <= k PROVE k = i
        OBVIOUS
    <2>1. k <= i /\ i <= k /\ i \in Nat /\ k \in Nat
        BY DEF IsLastOf
    <2> QED BY <2>1
<1>2. \E k \in Places(s, p) : \A j \in Places(s, p) : j <= k
    BY DEF IsLastOf
<1> QED BY <1>1, <1>2 DEF LastPlace

\* There is one of every prefix that is declared.
AllDeclared(s) == \A p \in DeclaredIn(s) : \E i \in Nat : IsLastOf(Places(s, p), i)

LEMMA DeclaredAppend ==
    ASSUME NEW s \in Seq(Declaration), NEW x \in Declaration, AllDeclared(s)
    PROVE  /\ AllDeclared(Append(s, x))
           /\ Declared(Append(s, x)) = visitPrefixDecl(Declared(s), x)
<1> DEFINE t == Append(s, x)
           n == Len(s)
<1>1. /\ n \in Nat /\ DOMAIN s = 1..n /\ DOMAIN t = 1..(n + 1) /\ t[n + 1] = x
      /\ \A i \in 1..n : t[i] = s[i]
    <2>1. t \in Seq(Declaration) /\ Len(t) = n + 1 /\ n \in Nat
        BY AppendProperties, LenProperties
    <2>2. DOMAIN t = 1..(n + 1) /\ DOMAIN s = 1..n
        BY <2>1, LenProperties
    <2> QED BY <2>1, <2>2, AppendProperties
<1> HIDE DEF t, n
<1>2. DeclaredIn(t) = {x.prefix} \cup DeclaredIn(s)
    <2>1. ASSUME NEW p \in DeclaredIn(t) PROVE p \in {x.prefix} \cup DeclaredIn(s)
        <3>1. PICK i \in 1..(n + 1) : p = t[i].prefix
            BY <1>1 DEF DeclaredIn
        <3>2. CASE i = n + 1
            BY <1>1, <3>1, <3>2
        <3>3. CASE i # n + 1
            <4>1. i \in 1..n
                BY <1>1, <3>3
            <4> QED BY <1>1, <3>1, <4>1 DEF DeclaredIn
        <3> QED BY <3>2, <3>3
    <2>2. ASSUME NEW p \in {x.prefix} \cup DeclaredIn(s) PROVE p \in DeclaredIn(t)
        <3>1. CASE p = x.prefix
            <4>1. n + 1 \in 1..(n + 1)
                BY <1>1
            <4> QED BY <1>1, <3>1, <4>1 DEF DeclaredIn
        <3>2. CASE p \in DeclaredIn(s)
            <4>1. PICK i \in 1..n : p = s[i].prefix
                BY <1>1, <3>2 DEF DeclaredIn
            <4>2. i \in 1..(n + 1)
                BY <1>1
            <4> QED BY <1>1, <4>1, <4>2 DEF DeclaredIn
        <3> QED BY <3>1, <3>2
    <2> QED BY <2>1, <2>2
<1>3. \A p : Places(t, p) \subseteq Nat /\ Places(s, p) \subseteq Nat
    BY <1>1 DEF Places
<1>4. IsLastOf(Places(t, x.prefix), n + 1)
    <2>1. n + 1 \in 1..(n + 1) /\ \A j \in 1..(n + 1) : j <= n + 1
        BY <1>1
    <2> QED BY <1>1, <2>1 DEF IsLastOf, Places
<1>5. ASSUME NEW p, p # x.prefix PROVE Places(t, p) = Places(s, p)
    <2>1. ASSUME NEW i \in 1..(n + 1), t[i].prefix = p PROVE i \in 1..n /\ s[i].prefix = p
        <3>1. i # n + 1
            BY <1>1, <1>5, <2>1
        <3>2. i \in 1..n
            BY <1>1, <3>1
        <3> QED BY <1>1, <2>1, <3>2
    <2>2. \A i \in 1..n : i \in 1..(n + 1)
        BY <1>1
    <2> QED BY <1>1, <2>1, <2>2 DEF Places
<1>6. AllDeclared(t)
    <2>1. n + 1 \in Nat
        BY <1>1
    <2> QED BY <1>2, <1>4, <1>5, <2>1 DEF AllDeclared
<1>7. ASSUME NEW p \in DeclaredIn(t)
      PROVE  t[LastPlace(t, p)].namespace = IF p = x.prefix THEN x.namespace ELSE Declared(s)[p]
    <2>1. CASE p = x.prefix
        <3>1. LastPlace(t, p) = n + 1
            BY <1>3, <1>4, <2>1, LastIs
        <3> QED BY <1>1, <2>1, <3>1
    <2>2. CASE p # x.prefix
        <3>1. p \in DeclaredIn(s)
            BY <1>2, <2>2
        <3>2. PICK i \in Nat : IsLastOf(Places(s, p), i)
            BY <3>1 DEF AllDeclared
        <3>3. LastPlace(s, p) = i
            BY <1>3, <3>2, LastIs
        <3>4. LastPlace(t, p) = i
            BY <1>3, <1>5, <2>2, <3>2, LastIs
        <3>5. t[i] = s[i]
            BY <1>1, <3>2 DEF IsLastOf, Places
        <3>6. Declared(s)[p] = s[i].namespace
            BY <3>1, <3>3, DeclaredIs
        <3> QED BY <2>2, <3>4, <3>5, <3>6
    <2> QED BY <2>1, <2>2
<1>8. DOMAIN Declared(s) = DeclaredIn(s)
    BY DeclaredIs
<1>9. Declared(t) = [p \in DeclaredIn(t) |-> t[LastPlace(t, p)].namespace]
    BY DeclaredIs
<1>10. Declared(t) = visitPrefixDecl(Declared(s), x)
    BY <1>2, <1>7, <1>8, <1>9 DEF visitPrefixDecl
<1> QED BY <1>6, <1>10 DEF t

LEMMA DeclaredEmpty == Declared(<<>>) = NoPrefixes /\ AllDeclared(<<>>) /\ NoPrefixes \in PrefixMaps
<1>1. DOMAIN <<>> = {}
    OBVIOUS
<1>2. DeclaredIn(<<>>) = {}
    BY <1>1 DEF DeclaredIn
<1>3. Declared(<<>>) = NoPrefixes
    BY <1>2, DeclaredIs DEF NoPrefixes
<1>4. NoPrefixes \in [{} -> Seq(STRING)] /\ {} \in SUBSET STRING
    BY DEF NoPrefixes
<1> QED BY <1>2, <1>3, <1>4 DEF AllDeclared, PrefixMaps

LEMMA VisitPrefixType ==
    ASSUME NEW ps \in PrefixMaps, NEW x \in Declaration
    PROVE  visitPrefixDecl(ps, x) \in PrefixMaps
<1>1. PICK S \in SUBSET STRING : ps \in [S -> Seq(STRING)]
    BY DEF PrefixMaps
<1>2. x.prefix \in STRING /\ x.namespace \in Seq(STRING)
    BY DEF Declaration
<1>3. visitPrefixDecl(ps, x) \in [({x.prefix} \cup S) -> Seq(STRING)]
    BY <1>1, <1>2 DEF visitPrefixDecl
<1>4. {x.prefix} \cup S \in SUBSET STRING
    BY <1>2
<1> QED BY <1>3, <1>4 DEF PrefixMaps

\* Nothing has been seen yet, but the prefixes.
Start(ps) == [tb |-> <<>>, ob |-> <<>>, exact |-> TRUE, decl |-> ps,
              seen |-> 0, subject |-> NoNode, predicate |-> NoNode]

LEMMA StartType == ASSUME NEW ps \in PrefixMaps PROVE Start(ps) \in Context /\ <<Start(ps), 0>> \in Counted
<1>1. NoNode \in Visited
    BY DEF Visited, Node, NoNode
<1>2. <<>> \in Seq(Seq(Blocks)) /\ <<>> \in Seq(Seq(Group)) /\ TRUE \in BOOLEAN /\ 0 \in 0..2 /\ 0 \in Nat
    OBVIOUS
<1>3. Start(ps) \in Context
    BY <1>1, <1>2 DEF Start, Context
<1> QED BY <1>2, <1>3 DEF Counted

\* One prefix after the other.
LEMMA PrefixesRun ==
    ASSUME NEW W, NEW D, NEW s \in Seq(Declaration)
    PROVE  /\ Declared(s) \in PrefixMaps
           /\ Runs(Does(W, D), Counted, Calls("prefix", s), <<Start(NoPrefixes), 0>>, <<Start(Declared(s)), 0>>)
<1> DEFINE R == Does(W, D)
           h == OneEach("prefix", Declaration)
           P == {u \in Seq(Declaration) :
                     /\ AllDeclared(u) /\ Declared(u) \in PrefixMaps
                     /\ Runs(R, Counted, Flat(h, u), <<Start(NoPrefixes), 0>>, <<Start(Declared(u)), 0>>)}
<1>0. \A x \in Declaration : Call("prefix", x) \in Frame
    BY DEF Call, Frame
<1>1. Maps(h, Declaration, Seq(Frame)) /\ \A u \in Seq(Declaration) : Calls("prefix", u) = Flat(h, u)
    BY <1>0, CallsAre
<1>2. <<>> \in P
    <2>1. Flat(h, <<>>) = <<>> /\ <<>> \in Seq(Declaration)
        BY FlatEmpty
    <2>2. <<Start(NoPrefixes), 0>> \in Counted
        BY StartType, DeclaredEmpty
    <2> QED BY <2>1, <2>2, RunNone, DeclaredEmpty
<1>3. ASSUME NEW u \in Seq(Declaration), NEW x \in Declaration, u \in P PROVE Append(u, x) \in P
    <2> DEFINE t == Append(u, x)
               d == Declared(u)
               e == Declared(t)
    <2>1. AllDeclared(t) /\ e = visitPrefixDecl(d, x) /\ d \in PrefixMaps
        BY <1>3, DeclaredAppend
    <2>2. e \in PrefixMaps
        BY <2>1, VisitPrefixType
    <2>31. h[x] = <<Call("prefix", x)>>
        BY DEF OneEach
    <2>32. Maps(h, Declaration, Seq(Frame))
        BY <1>1
    <2> HIDE DEF h
    <2>33. Flat(h, t) = Flat(h, u) \o h[x] /\ Flat(h, u) \in Seq(Frame)
        BY <2>32, FlatAppend
    <2>3. Flat(h, t) = Flat(h, u) \o h[x] /\ Flat(h, u) \in Seq(Frame) /\ h[x] = <<Call("prefix", x)>>
        BY <2>31, <2>33
    <2>4. Runs(R, Counted, Flat(h, u), <<Start(NoPrefixes), 0>>, <<Start(d), 0>>)
        BY <1>3
    <2>5. t \in Seq(Declaration)
        BY AppendProperties
    <2> HIDE DEF d, e, t, h, P
    <2>6. Leads(W, D, Call("prefix", x), Start(d), 0, Start(e), 0)
        <3>1. Start(d).seen = 0 /\ Start(d).decl = d
            BY DEF Start
        <3>2. Start(e) = Declaring(Start(d), x)
            BY <2>1 DEF Start, Declaring
        <3> QED BY <3>1, <3>2 DEF Leads, Call
    <2>7. <<Call("prefix", x), <<Start(d), 0>>, <<Start(e), 0>>>> \in R
        <3> DEFINE v == <<Start(d), 0>>
                   w == <<Start(e), 0>>
        <3>1. v \in Counted /\ w \in Counted /\ v[1] = Start(d) /\ v[2] = 0 /\ w[1] = Start(e) /\ w[2] = 0
            BY <2>1, <2>2, StartType
        <3> HIDE DEF v, w
        <3>2. Weakens(w, w)
            BY <3>1, WeakensFacts
        <3>3. <<Call("prefix", x), v, w>> \in R
            BY <1>0, <2>6, <3>1, <3>2 DEF Does
        <3> QED BY <3>3 DEF v, w
    <2> HIDE DEF R
    <2>8. Runs(R, Counted, <<Call("prefix", x)>>, <<Start(d), 0>>, <<Start(e), 0>>)
        <3>1. <<Start(d), 0>> \in Counted /\ <<Start(e), 0>> \in Counted
            BY <2>1, <2>2, StartType
        <3> QED BY <2>7, <3>1, RunOne
    <2>9. <<Call("prefix", x)>> \in Seq(Frame)
        BY <1>0, OneCall
    <2>10. Runs(R, Counted, Flat(h, u) \o <<Call("prefix", x)>>, <<Start(NoPrefixes), 0>>, <<Start(e), 0>>)
        BY <2>3, <2>4, <2>8, <2>9, RunOn
    <2>11. Runs(R, Counted, Flat(h, t), <<Start(NoPrefixes), 0>>, <<Start(e), 0>>)
        BY <2>3, <2>10
    <2> QED BY <2>1, <2>2, <2>5, <2>11 DEF e, P, t
<1>4. Seq(Declaration) \subseteq P
    <2> HIDE DEF P
    <2> QED BY <1>2, <1>3, SeqInduction
<1>5. s \in P
    BY <1>4
<1> QED BY <1>1, <1>5

\* When a text is parsed the calls to be done lead to its triple patterns.
LEMMA ParseLeads ==
    ASSUME NothingParsed, NEW text \in Text, Parse(text), error' = "none",
           UNCHANGED <<nameVars, odgVars, activeVars, groupVars, optVars>>,
           NEW W \in Weights
    PROVE  LET D == Declared(text.prologue.prefixes)
           IN  /\ D \in PrefixMaps
               /\ \E y \in Counted : y[2] = GroupWeight(W, D)[text.where] /\ LeadsTo(W, D, y)'
<1> DEFINE p == text.prologue.prefixes
           D == Declared(p)
           R == Does(W, D)
           s == Calls("prefix", p)
           t == <<Call("where", text.where)>>
           u == IF text.form = "ask" THEN <<>> ELSE <<Call("select", text.select)>>
           k == GroupWeight(W, D)[text.where]
<1>1. visits' = s \o t \o u
    BY DEF Parse
<1>2. p \in Seq(Declaration) /\ text.where \in Group /\ text.select \in {All} \cup Seq(Selection)
    BY DEF Text
<1>3. /\ D \in PrefixMaps
      /\ Runs(R, Counted, s, <<Start(NoPrefixes), 0>>, <<Start(D), 0>>)
    BY <1>2, PrefixesRun
<1>4. k \in Nat
    BY <1>2, <1>3, GroupWeightType
<1>5. /\ Call("where", text.where) \in Frame /\ Call("select", text.select) \in Frame
      /\ \A x \in Declaration : Call("prefix", x) \in Frame
    BY <1>2 DEF Call, Frame
<1>6. s \in Seq(Frame) /\ t \in Seq(Frame) /\ u \in Seq(Frame)
    BY <1>2, <1>5, CallsAreFrames, OneCall
<1> DEFINE a == Start(D)
           y == <<a, k>>
<1>7. a \in Context /\ <<a, 0>> \in Counted /\ y \in Counted
    BY <1>3, <1>4, StartType DEF Counted
<1>8. a.seen = 0 /\ a.decl = D /\ a.exact
    BY DEF Start
<1>9. \A n \in Nat : <<a, n>> \in Counted
    BY <1>7 DEF Counted
<1>10. \A n, m \in Nat, c \in Frame : Leads(W, D, c, a, n, a, m) => <<c, <<a, n>>, <<a, m>>>> \in R
    <2> SUFFICES ASSUME NEW n \in Nat, NEW m \in Nat, NEW c \in Frame, Leads(W, D, c, a, n, a, m)
                 PROVE  <<c, <<a, n>>, <<a, m>>>> \in R
        OBVIOUS
    <2> DEFINE v == <<a, n>>
               w == <<a, m>>
    <2>1. v \in Counted /\ w \in Counted /\ v[1] = a /\ v[2] = n /\ w[1] = a /\ w[2] = m
        BY <1>9
    <2>2. Leads(W, D, c, a, n, a, m)
        OBVIOUS
    <2> HIDE DEF v, w, a
    <2>3. Weakens(w, w)
        BY <2>1, WeakensFacts
    <2>4. <<c, v, w>> \in R
        BY <2>1, <2>2, <2>3 DEF Does
    <2> QED BY <2>4 DEF v, w
<1> HIDE DEF s, a, R, k, D
<1>11. Runs(R, Counted, t, <<a, 0>>, <<a, k>>)
    <2>1. Leads(W, D, Call("where", text.where), a, 0, a, k)
        <3>1. k = 0 + GroupWeight(W, D)[text.where]
            BY <1>4 DEF k
        <3> QED BY <1>8, <3>1 DEF Leads, Call
    <2>2. 0 \in Nat
        OBVIOUS
    <2>3. <<Call("where", text.where), <<a, 0>>, <<a, k>>>> \in R
        BY <1>4, <1>5, <1>10, <2>1, <2>2
    <2> QED BY <1>7, <2>3, RunOne
<1>12. Runs(R, Counted, u, <<a, k>>, <<a, k>>)
    <2>1. CASE text.form = "ask"
        BY <1>7, <2>1, RunNone
    <2>2. CASE text.form # "ask"
        <3>1. Leads(W, D, Call("select", text.select), a, k, a, k)
            BY <1>8 DEF Leads, Call
        <3>2. <<Call("select", text.select), <<a, k>>, <<a, k>>>> \in R
            BY <1>4, <1>5, <1>10, <3>1
        <3>3. Runs(R, Counted, <<Call("select", text.select)>>, <<a, k>>, <<a, k>>)
            BY <1>7, <3>2, RunOne
        <3> QED BY <2>2, <3>3
    <2> QED BY <2>1, <2>2
<1> HIDE DEF t, u
<1> DEFINE x == <<Start(NoPrefixes), 0>>
<1>13. Runs(R, Counted, s \o t \o u, x, y)
    <2>1. Runs(R, Counted, s \o t, x, y)
        BY <1>3, <1>6, <1>11, RunOn DEF a
    <2>2. s \o t \in Seq(Frame)
        BY <1>6, ConcatProperties
    <2> QED BY <1>6, <1>12, <2>1, <2>2, RunOn
<1>14. x \in Counted /\ NoPrefixes \in PrefixMaps
    BY StartType, DeclaredEmpty
<1>15. Weakens(x, Now(W)')
    <2>1. /\ triples_blocks' = <<>> /\ optional_blocks' = <<>> /\ prefixes' = NoPrefixes
          /\ active_subject' = NoNode /\ active_predicate' = NoNode /\ triple_patterns' = <<>>
        BY DEF NothingParsed, nameVars, odgVars, activeVars, groupVars
    <2> DEFINE b == [tb |-> <<>>, ob |-> <<>>, exact |-> TRUE, decl |-> NoPrefixes,
                     seen |-> 2, subject |-> NoNode, predicate |-> NoNode]
    <2>2. Here' = b
        BY <2>1 DEF Here
    <2>3. Sum(W, triple_patterns') = 0
        BY <2>1, SumEmpty
    <2>4. Now(W)' = <<b, 0>>
        BY <2>2, <2>3 DEF Now
    <2>5. Weaker(Start(NoPrefixes), b)
        <3>1. /\ b.decl = Start(NoPrefixes).decl /\ b.tb = Start(NoPrefixes).tb /\ b.ob = Start(NoPrefixes).ob
              /\ Start(NoPrefixes).seen = 0 /\ b.seen = 2
            BY DEF Start
        <3>2. b.exact = TRUE
            OBVIOUS
        <3>3. Start(NoPrefixes).exact = TRUE
            BY DEF Start
        <3> HIDE DEF b
        <3> QED BY <3>1, <3>2, <3>3 DEF Weaker
    <2> HIDE DEF b
    <2> QED BY <2>4, <2>5 DEF Weakens
<1>16. LeadsTo(W, D, y)'
    <2>1. Runs(R, Counted, visits', x, y)
        BY <1>1, <1>13 DEF s, t, u
    <2> HIDE DEF x, y
    <2> QED BY <1>14, <1>15, <2>1 DEF LeadsTo, R
<1>17. y[2] = k
    OBVIOUS
<1> QED BY <1>3, <1>7, <1>16, <1>17 DEF k, D

-----------------------------------------------------------------------------
(* What the visitors reject.                                                *)

LEMMA IriJudged ==
    ASSUME NEW D, NEW t \in IriTerm
    PROVE  /\ t[1] = "iriref" => visitIri(D, t) = Iri(t[2])
           /\ t[1] = "ns" => visitIri(D, t) = Crashed
           /\ t[1] = "pname" => visitIri(D, t) = IF t[2] \in DOMAIN D THEN Iri(D[t[2]] \o t[3]) ELSE Thrown
           /\ t[1] \in {"iriref", "ns", "pname"}
BY DEF visitIri, IriTerm

\* No node is a failure.
LEMMA NodesAreNot ==
    /\ \A x, y : ~Failed(Literal(x, y)) /\ Literal(x, y) # Crashed
    /\ \A x : ~Failed(Var(x)) /\ ~Failed(Iri(x)) /\ ~Failed(Blank(x))
    /\ \A x : Var(x) # Crashed /\ Iri(x) # Crashed /\ Blank(x) # Crashed
    /\ Failed(Thrown) /\ Failed(Crashed) /\ Thrown # Crashed
<1>1. \A x, y : Literal(x, y)[1] = "literal" /\ Var(x)[1] = "var" /\ Iri(x)[1] = "iri" /\ Blank(x)[1] = "blank"
    BY DEF Literal, Var, Iri, Blank
<1>2. Thrown[1] = "thrown" /\ Crashed[1] = "crashed"
    BY DEF Thrown, Crashed
<1> QED BY <1>1, <1>2 DEF Failed

LEMMA IriFails ==
    ASSUME NEW D, NEW t \in IriTerm
    PROVE  /\ Failed(visitIri(D, t)) <=> t[1] = "ns" \/ (t[1] = "pname" /\ t[2] \notin DOMAIN D)
           /\ visitIri(D, t) = Crashed <=> t[1] = "ns"
BY IriJudged, NodesAreNot

LEMMA TermJudged ==
    ASSUME NEW D, NEW t \in Term
    PROVE  /\ Failed(visitVarOrTerm(D, t)) <=> ~TermSupported(D, t)
           /\ visitVarOrTerm(D, t) = Crashed <=> TermEndsProcess(t)
<1>1. CASE t \in IriTerm
    <2>1. visitVarOrTerm(D, t) = visitIri(D, t) /\ t[1] \in {"iriref", "ns", "pname"}
        BY <1>1, IriJudged DEF visitVarOrTerm
    <2> QED BY <1>1, <2>1, IriFails DEF TermSupported, TermEndsProcess
<1>2. CASE t[1] \in {"var", "label", "boolean", "number"}
    BY <1>2, NodesAreNot
       DEF visitVarOrTerm, visitBlankNode, visitBooleanLiteral, visitNumericLiteral, TermSupported, TermEndsProcess
<1>3. CASE t[1] \in {"string", "lang"}
    BY <1>3, NodesAreNot DEF visitVarOrTerm, visitRdfLiteral, TermSupported, TermEndsProcess
<1>4. CASE t[1] = "typed"
    <2>1. t[3] \in IriTerm
        BY <1>4 DEF Term, IriTerm
    <2> DEFINE node == visitIri(D, t[3])
    <2>2. visitVarOrTerm(D, t) = IF Failed(node) THEN node ELSE Literal(node, t[2])
        BY <1>4 DEF visitVarOrTerm, visitRdfLiteral
    <2>3. /\ Failed(node) <=> t[3][1] = "ns" \/ (t[3][1] = "pname" /\ t[3][2] \notin DOMAIN D)
          /\ node = Crashed <=> t[3][1] = "ns"
        BY <2>1, IriFails
    <2> HIDE DEF node
    <2>4. /\ Failed(visitVarOrTerm(D, t)) <=> Failed(node)
          /\ visitVarOrTerm(D, t) = Crashed <=> node = Crashed
        BY <2>2, NodesAreNot
    <2> QED BY <1>4, <2>3, <2>4 DEF TermSupported, TermEndsProcess
<1>5. CASE t[1] \in {"anon", "nil", "node", "missing"}
    BY <1>5, NodesAreNot DEF visitVarOrTerm, visitBlankNode, TermSupported, TermEndsProcess
<1> QED BY <1>1, <1>2, <1>3, <1>4, <1>5 DEF Term

\* Of a verb that is not a path in parentheses.
LEMMA VerbJudged ==
    ASSUME NEW D, NEW v \in Verb
    PROVE  /\ ~IsNested(v) => /\ Failed(visitVerb(D, v)) <=> ~VerbSupported(D, v)
                              /\ visitVerb(D, v) = Crashed <=> VerbEndsProcess(v)
           /\ IsNested(v) => /\ VerbSupported(D, v) <=> VerbSupported(D, Primary(v[2]))
                             /\ VerbEndsProcess(v) <=> VerbEndsProcess(Primary(v[2]))
<1>1. CASE v[1] = "var"
    BY <1>1, NodesAreNot DEF IsNested, visitVerb, VerbSupported, VerbEndsProcess
<1>3. CASE v[1] = "missing"
    BY <1>3 DEF IsNested, visitVerb, VerbSupported, VerbEndsProcess, Failed
<1>2. CASE v[1] = "path"
    <2> DEFINE path == v[2]
               p == Primary(path)
    <2>1. path \in Path
        BY <1>2 DEF Verb
    <2>2. PathIsPlain[path] <=> ~PathThrows(path) /\ (p[1] = "path" => PathIsPlain[p[2]])
        BY <2>1, PathIsPlainOf
    <2>0. ~PathThrows(path) => path # <<>>
        BY EmptySeq DEF PathThrows
    <2>3. ~PathThrows(path) => Innermost[path] = IF p[1] = "path" THEN Innermost[p[2]] ELSE p
        BY <2>0, <2>1, InnermostOf
    <2>4. ~PathThrows(path) /\ p[1] # "path" => p \in Plainest
        BY <2>0, <2>1, PathInside
    <2>5. visitVerb(D, v) = IF PathThrows(path) THEN Thrown ELSE visitPathElt(D, p)
        BY <1>2 DEF visitVerb
    <2>6. IsNested(v) <=> ~PathThrows(path) /\ p[1] = "path"
        BY <1>2 DEF IsNested
    <2>7. VerbSupported(D, v) <=> /\ PathIsPlain[path]
                                  /\ Innermost[path][1] # "not"
                                  /\ TermSupported(D, Innermost[path])
        BY <1>2 DEF VerbSupported
    <2>8. VerbEndsProcess(v) <=> PathIsPlain[path] /\ TermEndsProcess(Innermost[path])
        BY <1>2 DEF VerbEndsProcess
    <2>9. Primary(v[2]) = p
        OBVIOUS
    <2> HIDE DEF path, p
    <2>10. ASSUME IsNested(v)
           PROVE  /\ VerbSupported(D, v) <=> VerbSupported(D, p)
                  /\ VerbEndsProcess(v) <=> VerbEndsProcess(p)
        <3>1. /\ VerbSupported(D, p) <=> /\ PathIsPlain[p[2]]
                                         /\ Innermost[p[2]][1] # "not"
                                         /\ TermSupported(D, Innermost[p[2]])
              /\ VerbEndsProcess(p) <=> PathIsPlain[p[2]] /\ TermEndsProcess(Innermost[p[2]])
            BY <2>6, <2>10 DEF VerbSupported, VerbEndsProcess
        <3>2. (PathIsPlain[path] <=> PathIsPlain[p[2]]) /\ Innermost[path] = Innermost[p[2]]
            BY <2>2, <2>3, <2>6, <2>10
        <3> QED BY <2>7, <2>8, <3>1, <3>2
    <2>11. ASSUME ~IsNested(v)
           PROVE  /\ Failed(visitVerb(D, v)) <=> ~VerbSupported(D, v)
                  /\ visitVerb(D, v) = Crashed <=> VerbEndsProcess(v)
        <3>1. CASE PathThrows(path)
            BY <2>2, <2>5, <2>7, <2>8, <3>1, NodesAreNot
        <3>2. CASE ~PathThrows(path)
            <4>1. p \in Plainest /\ Innermost[path] = p /\ PathIsPlain[path] /\ visitVerb(D, v) = visitPathElt(D, p)
                BY <2>2, <2>3, <2>4, <2>5, <2>6, <2>11, <3>2
            <4>2. CASE p \in IriTerm
                <5>1. p[1] \in {"iriref", "ns", "pname"}
                    BY <4>2, IriJudged
                <5>2. visitPathElt(D, p) = visitIri(D, p)
                    BY <5>1 DEF visitPathElt
                <5> QED BY <2>7, <2>8, <4>1, <4>2, <5>1, <5>2, IriFails DEF TermSupported, TermEndsProcess
            <4>3. CASE p = <<"a">>
                BY <2>7, <2>8, <4>1, <4>3, NodesAreNot DEF visitPathElt, RdfType, TermSupported, TermEndsProcess
            <4>4. CASE p = <<"not">>
                BY <2>7, <2>8, <4>1, <4>4, NodesAreNot DEF visitPathElt, TermEndsProcess
            <4> QED BY <4>1, <4>2, <4>3, <4>4 DEF Plainest
        <3> QED BY <3>1, <3>2
    <2> QED BY <2>9, <2>10, <2>11
<1> QED BY <1>1, <1>2, <1>3 DEF Verb

\* What is supported, and what does not end the process.
SupportedTerms(D) == {t \in Term : TermSupported(D, t)}
SupportedVerbs(D) == {v \in Verb : VerbSupported(D, v)}
SafeTerms         == {t \in Term : ~TermEndsProcess(t)}
SafeVerbs         == {v \in Verb : ~VerbEndsProcess(v)}

LEMMA TwoJudges ==
    ASSUME NEW D
    PROVE  Judges(D, SupportedTerms(D), SupportedVerbs(D)) /\ Judges(D, SafeTerms, SafeVerbs)
<1>1. \A v \in Verb : IsNested(v) => Primary(v[2]) \in Verb
    <2> SUFFICES ASSUME NEW v \in Verb, IsNested(v) PROVE Primary(v[2]) \in Verb
        OBVIOUS
    <2>1. v[2] \in Path /\ v[2] # <<>> /\ Primary(v[2])[1] = "path"
        BY EmptySeq DEF IsNested, PathThrows, Verb
    <2> DEFINE p == Primary(v[2])
    <2>2. p \in IriTerm \cup {<<"a">>, <<"not">>} \cup ({"path"} \X Path) /\ p[1] = "path"
        BY <2>1, PrimaryType
    <2> HIDE DEF p
    <2>3. p \in Verb
        BY <2>2 DEF IriTerm, Verb
    <2> QED BY <2>3 DEF p
<1>2. \A t \in Term : ~Failed(visitVarOrTerm(D, t)) => t \in SupportedTerms(D) /\ t \in SafeTerms
    <2>1. \A t \in Term : /\ Failed(visitVarOrTerm(D, t)) <=> ~TermSupported(D, t)
                          /\ visitVarOrTerm(D, t) = Crashed <=> TermEndsProcess(t)
        BY TermJudged
    <2> QED BY <2>1, NodesAreNot DEF SupportedTerms, SafeTerms
<1>3. \A v \in Verb : /\ ~IsNested(v) => /\ Failed(visitVerb(D, v)) <=> ~VerbSupported(D, v)
                                         /\ visitVerb(D, v) = Crashed <=> VerbEndsProcess(v)
                      /\ IsNested(v) => /\ VerbSupported(D, v) <=> VerbSupported(D, Primary(v[2]))
                                        /\ VerbEndsProcess(v) <=> VerbEndsProcess(Primary(v[2]))
    BY VerbJudged
<1>4. \A v \in Verb : ~IsNested(v) /\ ~Failed(visitVerb(D, v)) => v \in SupportedVerbs(D) /\ v \in SafeVerbs
    BY <1>3, NodesAreNot DEF SupportedVerbs, SafeVerbs
<1>5. \A v \in Verb : IsNested(v) => /\ v \in SupportedVerbs(D) <=> Primary(v[2]) \in SupportedVerbs(D)
                                     /\ v \in SafeVerbs <=> Primary(v[2]) \in SafeVerbs
    BY <1>1, <1>3 DEF SupportedVerbs, SafeVerbs
<1> QED BY <1>2, <1>4, <1>5 DEF Judges

LEMMA PartsOfTriples ==
    ASSUME NEW ts \in SameSubject
    PROVE  TermsOf(ts) \subseteq Term /\ VerbsOf(ts) \subseteq Verb
<1> DEFINE ps == ts.properties
<1>1. ts.subject \in Term /\ ps \in Seq(Properties)
    BY DEF SameSubject
<1>2. \A i \in DOMAIN ps : ps[i] \in Properties
    BY <1>1, LenProperties, ElementOfSeq
<1> HIDE DEF ps
<1>3. \A i \in DOMAIN ps : ps[i].verb \in Verb /\ ps[i].objects \in Seq(Term)
    BY <1>2 DEF Properties
<1>4. \A i \in DOMAIN ps : Range(ps[i].objects) \subseteq Term
    BY <1>3, RangeIs
<1> QED BY <1>1, <1>3, <1>4 DEF TermsOf, VerbsOf, ps

\* The triples of a query, group by group.
LEMMA VisitedAre ==
    ASSUME NEW g \in Group
    PROVE  /\ \A h \in Groups[g] : \A b \in Range(OfKind(h, "block")) : \A ts \in Range(b.tss) :
                  ts.subject[1] # "node" => ts \in VisitedTriples(g)
           /\ \A ts \in VisitedTriples(g) :
                  /\ ts.subject[1] # "node"
                  /\ \E h \in Groups[g] : \E b \in Range(OfKind(h, "block")) : ts \in Range(b.tss)
<1> DEFINE B(h) == {j \in DOMAIN h : h[j].kind = "block"}
<1>1. VisitedTriples(g) = {ts \in UNION {UNION {Range(h[i].tss) : i \in B(h)} : h \in Groups[g]} :
                               ts.subject[1] # "node"}
    BY DEF VisitedTriples
<1>2. \A h \in Groups[g] : h \in Group
    BY GroupsOfGroup
<1>3. \A h \in Groups[g] : Range(OfKind(h, "block")) = {h[i] : i \in B(h)}
    BY <1>2, KindRange
<1> HIDE DEF B
<1>4. ASSUME NEW h \in Groups[g], NEW b \in Range(OfKind(h, "block")), NEW ts \in Range(b.tss), ts.subject[1] # "node"
      PROVE  ts \in VisitedTriples(g)
    <2>1. PICK i \in B(h) : b = h[i]
        BY <1>3
    <2>2. ts \in UNION {Range(h[k].tss) : k \in B(h)}
        BY <2>1
    <2> QED BY <1>1, <1>4, <2>2
<1>5. ASSUME NEW ts \in VisitedTriples(g)
      PROVE  /\ ts.subject[1] # "node"
             /\ \E h \in Groups[g] : \E b \in Range(OfKind(h, "block")) : ts \in Range(b.tss)
    <2>1. PICK h \in Groups[g] : ts \in UNION {Range(h[k].tss) : k \in B(h)}
        BY <1>1
    <2>2. PICK k \in B(h) : ts \in Range(h[k].tss)
        BY <2>1
    <2>3. h[k] \in Range(OfKind(h, "block"))
        BY <1>3
    <2> QED BY <1>1, <2>2, <2>3
<1> QED BY <1>4, <1>5

\* A group is fine if and only if its triples are and there are no subqueries.
LEMMA FineIs ==
    ASSUME NEW T, NEW V, NEW g \in Group
    PROVE  g \in FineGroups(T, V) <=>
               /\ \A h \in Groups[g] : ~IsSubquery(h)
               /\ \A ts \in VisitedTriples(g) : TermsOf(ts) \subseteq T /\ VerbsOf(ts) \subseteq V
<1> DEFINE Good(ts) == TermsOf(ts) \subseteq T /\ VerbsOf(ts) \subseteq V
<1>1. \A h \in Groups[g] : h \in Group
    BY GroupsOfGroup
<1>2. \A h \in Groups[g] : Range(OfKind(h, "block")) \subseteq Blocks
    BY <1>1, KindTypes, RangeIs
<1>3. \A b \in Blocks : Range(b.tss) \subseteq SameSubject
    BY RangeIs DEF Blocks
<1>4. \A b \in Blocks : b \in FineBlocks(T, V) <=> \A ts \in Range(b.tss) : ts.subject[1] = "node" \/ Good(ts)
    BY <1>3 DEF FineBlocks, FineTriples
<1>5. g \in FineGroups(T, V) <=> \A h \in Groups[g] : ~IsSubquery(h) /\ Range(OfKind(h, "block")) \subseteq FineBlocks(T, V)
    BY <1>1 DEF FineGroups, FineAlone
<1> HIDE DEF Good
<1>6. ASSUME NEW h \in Groups[g]
      PROVE  Range(OfKind(h, "block")) \subseteq FineBlocks(T, V) <=>
                 \A b \in Range(OfKind(h, "block")) : \A ts \in Range(b.tss) : ts.subject[1] = "node" \/ Good(ts)
    BY <1>2, <1>4
<1>7. (\A h \in Groups[g] : \A b \in Range(OfKind(h, "block")) : \A ts \in Range(b.tss) : ts.subject[1] = "node" \/ Good(ts))
          <=> \A ts \in VisitedTriples(g) : Good(ts)
    BY VisitedAre
<1> QED BY <1>5, <1>6, <1>7 DEF Good

LEMMA SupportedIs ==
    ASSUME NEW D, NEW g \in Group
    PROVE  g \in FineGroups(SupportedTerms(D), SupportedVerbs(D)) <=> Supported(D, g)
<1>1. \A ts \in VisitedTriples(g) : ts \in SameSubject
    <2> SUFFICES ASSUME NEW ts \in VisitedTriples(g) PROVE ts \in SameSubject
        OBVIOUS
    <2>1. PICK h \in Groups[g] : \E b \in Range(OfKind(h, "block")) : ts \in Range(b.tss)
        BY VisitedAre
    <2>2. PICK b \in Range(OfKind(h, "block")) : ts \in Range(b.tss)
        BY <2>1
    <2>3. b \in Blocks
        BY GroupsOfGroup, KindTypes, RangeIs
    <2> QED BY <2>2, <2>3, RangeIs DEF Blocks
<1>2. \A ts \in VisitedTriples(g) : TermsOf(ts) \subseteq Term /\ VerbsOf(ts) \subseteq Verb
    BY <1>1, PartsOfTriples
<1>3. \A ts \in VisitedTriples(g) :
          (TermsOf(ts) \subseteq SupportedTerms(D) /\ VerbsOf(ts) \subseteq SupportedVerbs(D))
              <=> /\ \A t \in TermsOf(ts) : TermSupported(D, t)
                  /\ \A v \in VerbsOf(ts) : VerbSupported(D, v)
    BY <1>2 DEF SupportedTerms, SupportedVerbs
<1> QED BY <1>3, FineIs DEF Supported

LEMMA UnsafeIs ==
    ASSUME NEW g \in Group, ~IsSubquery(g), g \notin FineGroups(SafeTerms, SafeVerbs)
    PROVE  MayEndProcess(g)
<1>1. CASE \E h \in Groups[g] : IsSubquery(h)
    BY <1>1 DEF MayEndProcess
<1>2. CASE ~ \E h \in Groups[g] : IsSubquery(h)
    <2>1. PICK ts \in VisitedTriples(g) : ~(TermsOf(ts) \subseteq SafeTerms /\ VerbsOf(ts) \subseteq SafeVerbs)
        BY <1>2, FineIs
    <2>2. PICK h \in Groups[g] : \E b \in Range(OfKind(h, "block")) : ts \in Range(b.tss)
        BY VisitedAre
    <2>3. PICK b \in Range(OfKind(h, "block")) : ts \in Range(b.tss)
        BY <2>2
    <2>4. b \in Blocks
        BY GroupsOfGroup, KindTypes, RangeIs
    <2>5. ts \in SameSubject
        BY <2>3, <2>4, RangeIs DEF Blocks
    <2>6. TermsOf(ts) \subseteq Term /\ VerbsOf(ts) \subseteq Verb
        BY <2>5, PartsOfTriples
    <2> QED BY <2>1, <2>6 DEF SafeTerms, SafeVerbs, MayEndProcess
<1> QED BY <1>1, <1>2

-----------------------------------------------------------------------------
(* The calls that visits make, and the clauses of the text.                 *)

\* What a call may do: only the SELECT clause visits variables, and only the
\* parser the clauses; a subquery is not entered.
Makes(s) == /\ s \in Seq(Frame) /\ Do(s)
            /\ \A i \in 1..Len(s) : s[i].visit \notin {"prefix", "where", "select"}
            /\ \A i \in 1..Len(s) : s[i].visit = "variable" =>
                   Calling("select") /\ Arg # All /\ s[i].arg \in Range(Arg)
            /\ Calling("select") /\ Arg # All => s = Calls("variable", Arg)
            /\ Calling("prefix") \/ Calling("variable") \/ (Calling("select") /\ Arg = All) => s = <<>>
            /\ Calling("where") => ~IsSubquery(Arg)
            /\ Calling("variable") => Arg[1] = "var"

LEMMA NamesOfCalls == \A f, h : Calling(f) /\ Calling(h) => f = h
BY DEF Calling

LEMMA MakesNothing ==
    ASSUME Shape, NEW f, Calling(f), Return, f = "select" => Arg = All, f # "where", f = "variable" => Arg[1] = "var"
    PROVE  \E s : Makes(s)
<1> DEFINE s == <<>>
<1>1. s \in Seq(Frame) /\ Do(s) /\ s = <<>> /\ \A i \in 1..Len(s) : FALSE
    BY ReturnDoes, EmptySeq
<1> HIDE DEF s
<1>2. Makes(s)
    BY <1>1, NamesOfCalls DEF Makes
<1> QED BY <1>2

LEMMA MakesOthers ==
    ASSUME Shape, NEW f, Calling(f), NEW s \in Seq(Frame), Do(s), f \notin {"prefix", "select", "variable"},
           f = "where" => ~IsSubquery(Arg), \A i \in 1..Len(s) : s[i].visit \notin Outside
    PROVE  \E t : Makes(t)
<1>1. Makes(s)
    BY NamesOfCalls DEF Makes, Outside
<1> QED BY <1>1

LEMMA MakesIn ==
    ASSUME Shape, Visit, error' = "none"
    PROVE  \E s : Makes(s)
<1>1. CASE visitPrologue \/ visitSelectVariable \/ visitAsterisk
    <2>1. PICK f \in {"prefix", "variable", "select"} : /\ Calling(f) /\ Return /\ (f = "select" => Arg = All)
                                                        /\ (f = "variable" => Arg[1] = "var")
        BY <1>1 DEF visitPrologue, visitSelectVariable, visitAsterisk, Throw, Thrown
    <2> QED BY <2>1, MakesNothing
<1>2. CASE visitSelectClause
    <2> DEFINE s == Calls("variable", Arg)
    <2>1. Calling("select") /\ Arg # All /\ Do(s)
        BY <1>2 DEF visitSelectClause
    <2>2. Arg \in Seq(Selection)
        BY <2>1, ArgType
    <2>3. \A x \in Selection : Call("variable", x) \in Frame
        BY DEF Call, Frame
    <2>4. s \in Seq(Frame) /\ \A i \in 1..Len(s) : s[i].visit = "variable"
        BY <2>2, <2>3, CallsAreFrames
    <2>5. \A i \in 1..Len(s) : s[i].arg \in Range(Arg)
        <3>1. DOMAIN s = DOMAIN Arg /\ \A i \in DOMAIN Arg : s[i].arg = Arg[i]
            BY DEF Calls, Call
        <3>2. DOMAIN s = 1..Len(s)
            BY <2>4, LenProperties
        <3> QED BY <3>1, <3>2 DEF Range
    <2> HIDE DEF s
    <2>6. Makes(s)
        BY <2>1, <2>4, <2>5, NamesOfCalls DEF Makes, s
    <2> QED BY <2>6
<1>3. CASE visitTriplesBlock
    <2>1. Calling("block") /\ Do(Calls("subject", Arg.tss)) /\ Arg.tss \in Seq(SameSubject)
        BY <1>3, ArgType DEF visitTriplesBlock, Blocks
    <2>2. \A x \in SameSubject : Call("subject", x) \in Frame
        BY DEF Call, Frame
    <2> QED BY <2>1, <2>2, CallsAreFrames, MakesOthers DEF Outside
<1>4. CASE visitTriplesNode
    BY <1>4, MakesNothing DEF visitTriplesNode
<1>5. CASE visitTriplesSameSubjectPath
    <2>1. Calling("subject") /\ Do(Calls("property", Arg.properties)) /\ Arg.properties \in Seq(Properties)
        <3>1. ~Throw(visitVarOrTerm(prefixes, Arg.subject)) \/ ~Failed(visitVarOrTerm(prefixes, Arg.subject))
            BY DEF Throw, Failed, Thrown, Crashed
        <3> QED BY <1>5, <3>1, ArgType DEF visitTriplesSameSubjectPath, SameSubject
    <2>2. \A x \in Properties : Call("property", x) \in Frame
        BY DEF Call, Frame
    <2> QED BY <2>1, <2>2, CallsAreFrames, MakesOthers DEF Outside
<1>6. CASE visitPropertyListPath
    <2> DEFINE a == <<Call("verb", Arg.verb)>>
               b == Calls("object", Arg.objects)
               s == a \o b
    <2>1. Calling("property") /\ Do(s) /\ Arg.verb \in Verb /\ Arg.objects \in Seq(Term)
        BY <1>6, ArgType DEF visitPropertyListPath, Properties
    <2>2. /\ Call("verb", Arg.verb) \in Frame /\ Call("verb", Arg.verb).visit = "verb"
          /\ \A x \in Term : Call("object", x) \in Frame
        BY <2>1 DEF Call, Frame
    <2>3. a \in Seq(Frame) /\ Len(a) = 1 /\ a[1].visit = "verb"
        BY <2>2, OneCall
    <2>4. b \in Seq(Frame) /\ \A i \in 1..Len(b) : b[i].visit = "object"
        BY <2>1, <2>2, CallsAreFrames
    <2> HIDE DEF a, b
    <2>5. s \in Seq(Frame) /\ \A i \in 1..Len(s) : s[i].visit \in {"verb", "object"}
        <3>1. /\ s \in Seq(Frame) /\ Len(s) = Len(a) + Len(b) /\ Len(a) \in Nat /\ Len(b) \in Nat
              /\ \A i \in 1..(Len(a) + Len(b)) : s[i] = IF i <= Len(a) THEN a[i] ELSE b[i - Len(a)]
            BY <2>3, <2>4, LenProperties, ConcatProperties
        <3> HIDE DEF s
        <3>2. ASSUME NEW i \in 1..Len(s) PROVE s[i].visit \in {"verb", "object"}
            <4>1. CASE i <= Len(a)
                BY <2>3, <3>1, <4>1
            <4>2. CASE ~(i <= Len(a))
                <5>1. i - Len(a) \in 1..Len(b) /\ s[i] = b[i - Len(a)]
                    BY <3>1, <4>2
                <5> QED BY <2>4, <5>1
            <4> QED BY <4>1, <4>2
        <3> QED BY <3>1, <3>2
    <2> HIDE DEF s
    <2> QED BY <2>1, <2>5, MakesOthers DEF Outside
<1>7. CASE visitPath
    <2> DEFINE s == <<Call("verb", Primary(Arg[2]))>>
    <2>1. Calling("verb") /\ IsNested(Arg) /\ Do(s) /\ Arg \in Verb /\ prefixes \in PrefixMaps
        BY <1>7, ArgType DEF visitPath, Shape, GraphType, NamesType
    <2>2. Primary(Arg[2]) \in Verb
        BY <2>1, VerbType
    <2>3. Call("verb", Primary(Arg[2])) \in Frame
        BY <2>2 DEF Call, Frame
    <2>4. s \in Seq(Frame) /\ Len(s) = 1 /\ s[1].visit = "verb"
        BY <2>3, OneCall
    <2> HIDE DEF s
    <2>5. \A i \in 1..Len(s) : s[i].visit \notin Outside
        BY <2>4 DEF Outside
    <2> QED BY <2>1, <2>4, <2>5, MakesOthers
<1>8. CASE visitVerbPath \/ visitObject
    <2>1. \A node : Failed(node) => ~Throw(node)
        BY DEF Failed, Throw, Thrown, Crashed
    <2>2. CASE visitVerbPath
        <3>1. Calling("verb") /\ Return
            BY <2>1, <2>2 DEF visitVerbPath
        <3> QED BY <3>1, MakesNothing
    <2>3. CASE visitObject
        <3>1. Calling("object") /\ Return
            BY <2>1, <2>3 DEF visitObject
        <3> QED BY <3>1, MakesNothing
    <2> QED BY <1>8, <2>2, <2>3
<1>9. CASE visitWellDesignedPattern
    <2> DEFINE us == Arg.gous \o OfKind(Arg.group, "union")
               s == IF us = <<>> THEN Conjunction(Top(triples_blocks'))
                    ELSE BranchesOf(us, Len(Top(triples_blocks')), Len(Top(optional_blocks')))
    <2>1. /\ Calling("pattern") /\ Do(s)
          /\ triples_blocks' = AddTop(triples_blocks, OfKind(Arg.group, "block"))
          /\ optional_blocks' = AddTop(optional_blocks, OptionalGroups(Arg.group))
        BY <1>9 DEF visitWellDesignedPattern
    <2>2. Arg.group \in Group /\ Arg.gous \in Seq(Unions)
        BY <2>1, ArgType
    <2>3. /\ OfKind(Arg.group, "block") \in Seq(Blocks) /\ OptionalGroups(Arg.group) \in Seq(Group)
          /\ us \in Seq(Unions)
        BY <2>2, KindTypes, ConcatProperties
    <2>4. /\ triples_blocks \in Seq(Seq(Blocks)) /\ triples_blocks # <<>>
          /\ optional_blocks \in Seq(Seq(Group)) /\ optional_blocks # <<>>
        <3>1. "pattern" \in Inside
            BY DEF Inside
        <3> QED BY <2>1, <3>1, GroupIsOpen, StackTypes DEF Shape
    <2>5. Top(triples_blocks') \in Seq(Blocks) /\ Top(optional_blocks') \in Seq(Group)
        <3>1. triples_blocks' \in Seq(Seq(Blocks)) /\ triples_blocks' # <<>>
            BY <2>1, <2>3, <2>4, AddTopProperties
        <3>2. optional_blocks' \in Seq(Seq(Group)) /\ optional_blocks' # <<>>
            BY <2>1, <2>3, <2>4, AddTopProperties
        <3> QED BY <3>1, <3>2, TopProperties
    <2>6. Len(Top(triples_blocks')) \in Nat /\ Len(Top(optional_blocks')) \in Nat
        BY <2>5, LenProperties
    <2> HIDE DEF us
    <2>7. s \in Seq(Frame) /\ \A i \in 1..Len(s) : s[i].visit \in {"block", "depend", "pattern", "resize"}
        <3>1. CASE us = <<>>
            <4>1. s = Conjunction(Top(triples_blocks'))
                BY <3>1
            <4> HIDE DEF s
            <4> QED BY <2>5, <4>1, ConjunctionCalls
        <3>2. CASE us # <<>>
            <4>1. s = BranchesOf(us, Len(Top(triples_blocks')), Len(Top(optional_blocks')))
                BY <3>2
            <4> HIDE DEF s
            <4> QED BY <2>3, <2>6, <3>2, <4>1, BranchCalls DEF BranchCall
        <3> QED BY <3>1, <3>2
    <2> HIDE DEF s
    <2> QED BY <2>1, <2>7, MakesOthers DEF Outside
<1>10. CASE Resize \/ CloseConjunction \/ LeaveOptional \/ EndWhereClause
    <2>1. PICK f \in {"resize", "close", "leave", "end"} : Calling(f) /\ Return
        BY <1>10 DEF Resize, CloseConjunction, LeaveOptional, EndWhereClause
    <2> QED BY <2>1, MakesNothing
<1>11. CASE VisitOptionals
    <2> DEFINE a == Calls("optional", Top(optional_blocks))
               b == <<Call("close", <<>>)>>
               s == a \o b
    <2>1. Calling("depend") /\ Do(s)
        BY <1>11 DEF VisitOptionals
    <2>2. Top(optional_blocks) \in Seq(Group)
        <3>1. "depend" \in Inside
            BY DEF Inside
        <3>2. optional_blocks \in Seq(Seq(Group)) /\ optional_blocks # <<>>
            BY <2>1, <3>1, GroupIsOpen, StackTypes DEF Shape
        <3> QED BY <3>2, TopProperties
    <2>3. /\ Call("close", <<>>) \in Frame /\ Call("close", <<>>).visit = "close"
          /\ \A x \in Group : Call("optional", x) \in Frame
        BY DEF Call, Frame
    <2>4. a \in Seq(Frame) /\ \A i \in 1..Len(a) : a[i].visit = "optional"
        BY <2>2, <2>3, CallsAreFrames
    <2>5. b \in Seq(Frame) /\ Len(b) = 1 /\ b[1].visit = "close"
        BY <2>3, OneCall
    <2> HIDE DEF a, b
    <2>6. s \in Seq(Frame) /\ \A i \in 1..Len(s) : s[i].visit \in {"optional", "close"}
        BY <2>4, <2>5, ConcatProperties
    <2> HIDE DEF s
    <2> QED BY <2>1, <2>6, MakesOthers DEF Outside
<1>12. CASE EnterOptional \/ visitWhereClause
    <2>1. PICK f \in {"where", "optional"}, e \in {"end", "leave"} :
              /\ Calling(f)
              /\ f = "where" => ~IsSubquery(Arg)
              /\ Do(<<Call("pattern", [group |-> Arg, gous |-> <<>>]), Call(e, <<>>)>>)
        BY <1>12 DEF visitWhereClause, EnterOptional
    <2> DEFINE c == Call("pattern", [group |-> Arg, gous |-> <<>>])
               d == Call(e, <<>>)
               s == <<c, d>>
    <2>2. Arg \in Group
        BY <2>1, ArgType
    <2>3. c \in Frame /\ c.visit = "pattern" /\ d \in Frame /\ d.visit = e
        BY <2>2, EmptySeq DEF Call, Frame
    <2>4. Calling(f) /\ Do(s) /\ (f = "where" => ~IsSubquery(Arg))
        BY <2>1
    <2> HIDE DEF c, d
    <2>5. s \in Seq(Frame) /\ Len(s) = 2 /\ s[1] = c /\ s[2] = d
        BY <2>3, PairIsSeq
    <2> HIDE DEF s
    <2>6. \A i \in 1..Len(s) : s[i].visit \notin Outside
        BY <2>3, <2>5 DEF Outside
    <2> QED BY <2>4, <2>5, <2>6, MakesOthers
<1>13. CASE visitSubquery \/ visitSubSelect
    BY <1>13 DEF visitSubquery, visitSubSelect, Throw, Thrown, Crashed
<1> QED BY <1>1, <1>2, <1>3, <1>4, <1>5, <1>6, <1>7, <1>8, <1>9, <1>10, <1>11, <1>12, <1>13 DEF Visit

-----------------------------------------------------------------------------
(* What `*' stands for.                                                     *)

LEMMA FirstsRange ==
    ASSUME NEW S, NEW s \in Seq(S)
    PROVE  Range(Firsts(s)) = Range(s)
<1> DEFINE n == Len(s)
           is == [i \in DOMAIN s |-> i]
           T == {i \in DOMAIN s : \A j \in 1..(i - 1) : s[j] # s[i]}
           w == Within(is, T)
           f == [k \in DOMAIN w |-> s[w[k]]]
<1>1. n \in Nat /\ DOMAIN s = 1..n /\ Range(s) = {s[i] : i \in 1..n}
    BY LenProperties DEF Range
<1>2. is \in [1..n -> 1..n] /\ Range(is) = 1..n
    BY <1>1 DEF Range
<1>3. T = {i \in 1..n : \A j \in 1..(i - 1) : s[j] # s[i]}
    BY <1>1
<1>4. Firsts(s) = f
    BY DEF Firsts
<1> HIDE DEF is, n, T
<1>5. is \in Seq(1..n)
    BY <1>1, <1>2, FunctionIsSeq
<1>6. Range(w) = T
    <2>1. Range(Within(is, T)) = Range(is) \cap T
        BY <1>5, WithinProperties
    <2>2. T \subseteq 1..n
        BY <1>3
    <2> QED BY <1>2, <2>1, <2>2 DEF w
<1> HIDE DEF w
<1>7. Range(f) = {s[i] : i \in T}
    BY <1>6 DEF Range
<1> DEFINE P == {m \in Nat : \A i \in 1..n : i <= m => \E j \in T : s[j] = s[i]}
<1>8. 0 \in P
    BY <1>1
<1>9. ASSUME NEW m \in Nat, m \in P PROVE m + 1 \in P
    <2> SUFFICES ASSUME NEW i \in 1..n, i <= m + 1 PROVE \E j \in T : s[j] = s[i]
        OBVIOUS
    <2>1. CASE i \in T
        BY <2>1
    <2>2. CASE i \notin T
        <3>1. PICK j \in 1..(i - 1) : s[j] = s[i]
            BY <1>3, <2>2
        <3>2. j \in 1..n /\ j <= m
            BY <1>1
        <3>3. \E k \in T : s[k] = s[j]
            BY <1>9, <3>2
        <3> QED BY <3>1, <3>3
    <2> QED BY <2>1, <2>2
<1>10. Nat \subseteq P
    <2> HIDE DEF P
    <2> QED BY <1>8, <1>9, SetInduction
<1>11. \A i \in 1..n : \E j \in T : s[j] = s[i]
    <2>1. n \in P
        BY <1>1, <1>10
    <2> QED BY <1>1, <2>1
<1>12. T \subseteq 1..n
    BY <1>3
<1> HIDE DEF P, f
<1> QED BY <1>1, <1>4, <1>7, <1>11, <1>12

\* There is a named variable in some triple pattern.
HasNamed(tps) == \E tp \in Range(tps) : \E i \in 1..3 : tp[i][1] = "var"

LEMMA AsteriskNames ==
    ASSUME Shape, visitAsterisk
    PROVE  error' = "none" <=> HasNamed(triple_patterns)
<1> DEFINE tps == triple_patterns
           mentioned == FlattenSeq([i \in DOMAIN triple_patterns |-> Variables(triple_patterns[i])])
           T == {v \in Range(mentioned) : v[1] # "blank"}
           named == Within(Firsts(mentioned), T)
<1>1. /\ mentioned \in Seq(Node)
      /\ \A v : v \in Range(mentioned) <=>
                \E i \in 1..Len(triple_patterns) : v \in Range(Variables(triple_patterns[i]))
    BY MentionedRange DEF Shape, GraphType
<1>2. error = "none"
    BY CallOf DEF visitAsterisk
<1>3. error' = "none" <=> named # <<>>
    BY <1>2 DEF visitAsterisk, Throw, Thrown
<1>4. tps \in Seq(TriplePattern)
    BY DEF Shape, GraphType, OdgType, TriplePattern
<1>5. Range(tps) = {tps[i] : i \in 1..Len(tps)} /\ \A i \in 1..Len(tps) : tps[i] \in TriplePattern
    BY <1>4, RangeIs, ElementOfSeq
<1>6. \A i \in 1..Len(tps) : \A v : v \in Range(Variables(tps[i])) <=>
                                      \E k \in 1..3 : v = tps[i][k] /\ IsVar(tps[i][k])
    BY <1>5, VariablesRange
<1> HIDE DEF mentioned, T
<1>7. Range(named) = T
    <2>1. Firsts(mentioned) \in Seq(Node) /\ Range(Firsts(mentioned)) = Range(mentioned)
        BY <1>1, FirstsProperties, FirstsRange
    <2>2. T \subseteq Range(mentioned)
        BY DEF T
    <2>3. Range(Within(Firsts(mentioned), T)) = Range(Firsts(mentioned)) \cap T
        BY <2>1, WithinProperties
    <2> QED BY <2>1, <2>2, <2>3
<1>8. named # <<>> <=> T # {}
    <2>1. named \in Seq(Node \cap T)
        BY <1>1, FirstsProperties, WithinProperties
    <2> HIDE DEF named
    <2>2. named # <<>> => Len(named) \in Nat \ {0}
        BY <2>1, EmptySeq
    <2>3. named # <<>> => named[1] \in Range(named)
        BY <2>1, <2>2, RangeIs
    <2>4. named = <<>> => Range(named) = {}
        BY RangeEmpty
    <2> QED BY <1>7, <2>3, <2>4
<1>9. T # {} <=> HasNamed(tps)
    <2>1. T # {} <=> \E i \in 1..Len(tps) : \E v \in Range(Variables(tps[i])) : v[1] # "blank"
        BY <1>1 DEF T
    <2>2. ASSUME NEW i \in 1..Len(tps)
          PROVE  (\E v \in Range(Variables(tps[i])) : v[1] # "blank") <=> \E k \in 1..3 : tps[i][k][1] = "var"
        <3>1. (\E v \in Range(Variables(tps[i])) : v[1] # "blank")
                  <=> \E k \in 1..3 : IsVar(tps[i][k]) /\ tps[i][k][1] # "blank"
            <4> DEFINE R == Range(Variables(tps[i]))
            <4>1. \A v : v \in R <=> \E k \in 1..3 : v = tps[i][k] /\ IsVar(tps[i][k])
                BY <1>6
            <4> HIDE DEF R, tps
            <4>2. (\E v \in R : v[1] # "blank") => \E k \in 1..3 : IsVar(tps[i][k]) /\ tps[i][k][1] # "blank"
                BY <4>1
            <4>3. ASSUME NEW k \in 1..3, IsVar(tps[i][k]), tps[i][k][1] # "blank" PROVE \E v \in R : v[1] # "blank"
                <5>1. tps[i][k] \in R
                    BY <4>1, <4>3
                <5> QED BY <4>3, <5>1
            <4> QED BY <4>2, <4>3 DEF R
        <3> QED BY <3>1 DEF IsVar
    <2>3. HasNamed(tps) <=> \E i \in 1..Len(tps) : \E k \in 1..3 : tps[i][k][1] = "var"
        BY <1>5 DEF HasNamed
    <2> QED BY <2>1, <2>2, <2>3
<1> QED BY <1>3, <1>8, <1>9

-----------------------------------------------------------------------------
(* The clauses of the text.                                                 *)

\* The calls for a text, and those that do not reject what is selected.
AskedCalls(text) ==
    {c \in Frame : /\ c.visit = "where" => c.arg = text.where
                   /\ c.visit = "select" => text.form = "select" /\ c.arg = text.select
                   /\ c.visit = "variable" => /\ text.form = "select" /\ text.select # All
                                              /\ c.arg \in Range(text.select)
                   /\ c.visit \notin Outside => ~IsSubquery(text.where)}
OnlyNames(text) == \A v \in Range(text.select) : v[1] = "var"
NamedCalls(text) ==
    {c \in Frame : /\ c.visit = "variable" => c.arg[1] = "var"
                   /\ c.visit = "select" => OnlyNames(text)}

SelectIsLast == \A i \in 1..Len(visits) : visits[i].visit = "select" => i = Len(visits)

Clauses(text) ==
    /\ Range(visits) \subseteq AskedCalls(text)
    /\ SelectIsLast
    /\ text.select # All /\ text.form = "select" =>
           (Range(visits) \subseteq NamedCalls(text) => OnlyNames(text))
    /\ text.select = All /\ text.form = "select" =>
           \/ \E i \in 1..Len(visits) : visits[i].visit = "select"
           \/ visits = <<>> /\ HasNamed(triple_patterns)

LEMMA VisitCalls == Visit => visits # <<>>
BY DEF Visit, Calling, visitPrologue, visitTriplesBlock, visitTriplesNode,
       visitTriplesSameSubjectPath, visitPropertyListPath, visitPath, visitVerbPath, visitObject,
       visitSubquery, visitWellDesignedPattern, Resize, VisitOptionals, CloseConjunction,
       EnterOptional, LeaveOptional, visitSubSelect, visitWhereClause, EndWhereClause,
       visitAsterisk, visitSelectClause, visitSelectVariable

LEMMA OnlyAsterisk == Visit /\ Calling("select") /\ Arg = All => visitAsterisk
<1> SUFFICES ASSUME Visit, Calling("select"), Arg = All PROVE visitAsterisk
    OBVIOUS
<1>1. \A f : Calling(f) => f = "select"
    BY NamesOfCalls
<1> QED BY <1>1
        DEF Visit, visitPrologue, visitTriplesBlock, visitTriplesNode,
            visitTriplesSameSubjectPath, visitPropertyListPath, visitPath, visitVerbPath, visitObject,
            visitSubquery, visitWellDesignedPattern, Resize, VisitOptionals, CloseConjunction,
            EnterOptional, LeaveOptional, visitSubSelect, visitWhereClause, EndWhereClause,
            visitSelectClause, visitSelectVariable

LEMMA VisitClauses ==
    ASSUME Shape, NEW CONSTANT text, Clauses(text), Visit, error' = "none"
    PROVE  Clauses(text)'
<1> DEFINE h == Head(visits)
           t == Tail(visits)
           n == Len(t)
<1>1. PICK s : Makes(s)
    BY MakesIn
<1>2. /\ visits # <<>> /\ visits \in Seq(Frame) /\ s \in Seq(Frame) /\ visits' = s \o t
      /\ \A i \in 1..Len(s) : s[i].visit \notin {"prefix", "where", "select"}
    BY <1>1, VisitCalls DEF Makes, Do, Shape, GraphType, CallsType
<1>3. /\ h \in Frame /\ t \in Seq(Frame) /\ n \in Nat /\ Len(visits) = n + 1 /\ h = visits[1] /\ Arg = h.arg
      /\ \A i \in 1..n : t[i] = visits[i + 1]
    BY <1>2, EmptySeq, HeadTailProperties, LenProperties DEF Arg
<1>4. Range(visits) = {h} \cup Range(t) /\ Range(visits') = Range(s) \cup Range(t)
    <2>1. Range(visits) = {h} \cup Range(t)
        BY <1>2, RangeHead
    <2>2. Range(s \o t) = Range(s) \cup Range(t)
        <3> HIDE DEF t
        <3> QED BY <1>2, <1>3, RangeConcat
    <2> QED BY <1>2, <2>1, <2>2
<1>5. \A f : Calling(f) <=> h.visit = f
    BY <1>2 DEF Calling
<1>6. /\ Range(visits) \subseteq AskedCalls(text) /\ SelectIsLast
      /\ text.select # All /\ text.form = "select" =>
             (Range(visits) \subseteq NamedCalls(text) => OnlyNames(text))
      /\ text.select = All /\ text.form = "select" =>
             \/ \E i \in 1..Len(visits) : visits[i].visit = "select"
             \/ visits = <<>> /\ HasNamed(triple_patterns)
    BY DEF Clauses
<1>7. /\ h.visit = "where" => h.arg = text.where
      /\ h.visit = "select" => text.form = "select" /\ h.arg = text.select
      /\ h.visit \notin Outside => ~IsSubquery(text.where)
    BY <1>4, <1>6 DEF AskedCalls
<1> HIDE DEF h, t, n
<1>8. Range(s) = {s[i] : i \in 1..Len(s)} /\ Range(s) \subseteq Frame
    BY <1>2, RangeIs
<1>9. Range(visits') \subseteq AskedCalls(text)
    <2>1. ASSUME NEW i \in 1..Len(s) PROVE s[i] \in AskedCalls(text)
        <3>1. s[i].visit \notin {"where", "select"} /\ s[i] \in Frame
            BY <1>2, <1>8
        <3>2. s[i].visit = "variable" => /\ text.form = "select" /\ text.select # All
                                         /\ s[i].arg \in Range(text.select)
            BY <1>1, <1>3, <1>5, <1>7 DEF Makes
        <3>3. s[i].visit \notin Outside => ~IsSubquery(text.where)
            <4> SUFFICES ASSUME s[i].visit \notin Outside, h.visit \in Outside PROVE ~IsSubquery(text.where)
                BY <1>7
            <4>1. s # <<>>
                BY EmptySeq
            <4>2. h.visit = "where" \/ (h.visit = "select" /\ h.arg # All)
                BY <1>1, <1>3, <1>5, <4>1 DEF Makes, Outside
            <4>3. CASE h.visit = "where"
                BY <1>1, <1>3, <1>5, <1>7, <4>3 DEF Makes
            <4>4. CASE h.visit = "select" /\ h.arg # All
                <5>1. s = Calls("variable", Arg)
                    BY <1>1, <1>3, <1>5, <4>4 DEF Makes
                <5>2. i \in DOMAIN s
                    BY <1>2, LenProperties
                <5>3. s[i].visit = "variable"
                    BY <5>1, <5>2 DEF Calls, Call
                <5> QED BY <5>3 DEF Outside
            <4> QED BY <4>2, <4>3, <4>4
        <3> QED BY <3>1, <3>2, <3>3 DEF AskedCalls
    <2> QED BY <1>4, <1>6, <1>8, <2>1
<1>10. /\ Len(s) \in Nat /\ Len(visits') = Len(s) + n
       /\ \A i \in 1..(Len(s) + n) : visits'[i] = IF i <= Len(s) THEN s[i] ELSE t[i - Len(s)]
    BY <1>2, <1>3, ConcatProperties, LenProperties DEF n
<1>11. SelectIsLast'
    <2> SUFFICES ASSUME NEW i \in 1..Len(visits'), visits'[i].visit = "select" PROVE i = Len(visits')
        BY DEF SelectIsLast
    <2>1. ~(i <= Len(s))
        BY <1>2, <1>10
    <2> DEFINE k == i - Len(s)
    <2>2. k \in 1..n /\ visits'[i] = t[k] /\ i = Len(s) + k
        BY <1>3, <1>10, <2>1
    <2> HIDE DEF k
    <2>3. visits[k + 1].visit = "select" /\ k + 1 \in 1..Len(visits)
        BY <1>3, <2>2
    <2>4. k + 1 = n + 1
        BY <1>3, <1>6, <2>3 DEF SelectIsLast
    <2> QED BY <1>3, <1>10, <2>2, <2>4
<1>12. ASSUME text.select # All, text.form = "select", Range(visits') \subseteq NamedCalls(text) PROVE OnlyNames(text)
    <2>1. h.visit = "variable" => h.arg[1] = "var"
        BY <1>1, <1>3, <1>5 DEF Makes
    <2>2. ASSUME h.visit = "select" PROVE OnlyNames(text)
        <3>1. s = Calls("variable", text.select) /\ h.arg = text.select
            BY <1>1, <1>3, <1>5, <1>7, <1>12, <2>2 DEF Makes
        <3>2. text.select \in Seq(Selection)
            BY <1>3, <1>5, <1>12, <2>2, <3>1, ArgType
        <3>3. Range(s) = {Call("variable", x) : x \in Range(text.select)}
            BY <3>1, <3>2, RangeCalls
        <3>4. \A x \in Range(text.select) : Call("variable", x) \in NamedCalls(text)
            BY <1>4, <1>12, <3>3
        <3> QED BY <3>4 DEF NamedCalls, Call, OnlyNames
    <2>3. h \in NamedCalls(text)
        BY <1>3, <2>1, <2>2 DEF NamedCalls
    <2> QED BY <1>4, <1>6, <1>12, <2>3
<1>13. ASSUME text.select = All, text.form = "select"
       PROVE  \/ \E i \in 1..Len(visits') : visits'[i].visit = "select"
              \/ visits' = <<>> /\ HasNamed(triple_patterns')
    <2>1. PICK i \in 1..Len(visits) : visits[i].visit = "select"
        BY <1>2, <1>6, <1>13
    <2>2. i = n + 1
        BY <1>3, <1>6, <2>1 DEF SelectIsLast
    <2>3. CASE n = 0
        <3>1. h.visit = "select" /\ Arg = All
            BY <1>3, <1>7, <1>13, <2>1, <2>2, <2>3
        <3>2. visitAsterisk /\ s = <<>>
            BY <1>1, <1>5, <3>1, OnlyAsterisk DEF Makes
        <3>3. HasNamed(triple_patterns)
            BY <3>2, AsteriskNames
        <3>4. triple_patterns' = triple_patterns
            BY <3>2, AsteriskStep DEF odgVars
        <3>5. Len(visits') = 0
            BY <1>10, <2>3, <3>2, EmptySeq
        <3>6. visits' = <<>>
            <4>1. visits' \in Seq(Frame)
                BY <1>2, <1>3, ConcatProperties
            <4> QED BY <3>5, <4>1, EmptySeq
        <3> QED BY <3>3, <3>4, <3>6
    <2>4. CASE n # 0
        <3>1. n \in 1..n /\ t[n].visit = "select"
            BY <1>3, <2>1, <2>2, <2>4
        <3> DEFINE j == Len(s) + n
        <3>2. j \in 1..Len(visits') /\ ~(j <= Len(s)) /\ j - Len(s) = n
            BY <1>3, <1>10, <2>4
        <3>3. visits'[j] = t[n]
            BY <1>10, <3>2
        <3> QED BY <3>1, <3>2, <3>3
    <2> QED BY <2>3, <2>4
<1> QED BY <1>9, <1>11, <1>12, <1>13 DEF Clauses, AskedCalls, NamedCalls

-----------------------------------------------------------------------------
(* From the parser to the end.                                              *)

\* The calls of the parser.
Clause(text) == IF text.form = "ask" THEN <<>> ELSE <<Call("select", text.select)>>
ParsedCalls(text) == Calls("prefix", text.prologue.prefixes) \o <<Call("where", text.where)>> \o Clause(text)

LEMMA ClauseIs ==
    ASSUME NEW text \in Text, text.form \in {"select", "ask"}
    PROVE  /\ Clause(text) \in Seq(Frame) /\ Len(Clause(text)) <= 1
           /\ text.form = "ask" => Range(Clause(text)) = {} /\ Len(Clause(text)) = 0
           /\ text.form = "select" => /\ Range(Clause(text)) = {Call("select", text.select)}
                                      /\ Len(Clause(text)) = 1
                                      /\ Clause(text)[1] = Call("select", text.select)
<1>1. CASE text.form = "ask"
    BY <1>1, EmptySeq, RangeEmpty DEF Clause
<1>2. CASE text.form = "select"
    <2> DEFINE c == Call("select", text.select)
               u == <<c>>
    <2>1. c \in Frame
        BY DEF Call, Frame, Text
    <2>2. Clause(text) = u
        BY <1>2 DEF Clause
    <2> HIDE DEF c
    <2>3. u \in Seq(Frame) /\ Len(u) = 1 /\ u[1] = c /\ Range(u) = {c}
        BY <2>1, RangeOne
    <2> HIDE DEF u
    <2> QED BY <1>2, <2>2, <2>3 DEF c
<1> QED BY <1>1, <1>2

LEMMA ParsedCallsAre ==
    ASSUME NEW text \in Text, text.form \in {"select", "ask"}
    PROVE  /\ ParsedCalls(text) \in Seq(Frame)
           /\ \A c \in Range(ParsedCalls(text)) :
                  \/ c.visit = "prefix"
                  \/ c = Call("where", text.where)
                  \/ text.form = "select" /\ c = Call("select", text.select)
           /\ Call("where", text.where) \in Range(ParsedCalls(text))
           /\ text.form = "select" => Call("select", text.select) \in Range(ParsedCalls(text))
           /\ \A i \in 1..Len(ParsedCalls(text)) :
                  ParsedCalls(text)[i].visit = "select" => i = Len(ParsedCalls(text))
<1> DEFINE s == Calls("prefix", text.prologue.prefixes)
           w == Call("where", text.where)
           t == <<w>>
           u == Clause(text)
           p == s \o t
           v == p \o u
<1>1. s \in Seq(Frame) /\ \A i \in 1..Len(s) : s[i].visit = "prefix"
    <2>1. \A x \in Declaration : Call("prefix", x) \in Frame
        BY DEF Call, Frame
    <2>2. text.prologue.prefixes \in Seq(Declaration)
        BY DEF Text
    <2> QED BY <2>1, <2>2, CallsAreFrames
<1>2. w \in Frame /\ w.visit = "where"
    BY DEF Call, Frame, Text
<1>3. ParsedCalls(text) = v
    BY DEF ParsedCalls
<1> HIDE DEF w, s
<1>4. t \in Seq(Frame) /\ Len(t) = 1 /\ t[1] = w /\ Range(t) = {w}
    BY <1>2, RangeOne
<1> HIDE DEF t, u
<1>5. u \in Seq(Frame) /\ Len(u) \in Nat /\ Len(u) <= 1
      /\ (text.form = "ask" => Range(u) = {})
      /\ (text.form = "select" => Range(u) = {Call("select", text.select)})
    BY ClauseIs, LenProperties DEF u
<1>6. Range(s) = {s[i] : i \in 1..Len(s)} /\ Len(s) \in Nat
    BY <1>1, RangeIs, LenProperties
<1>7. p \in Seq(Frame) /\ Len(p) = Len(s) + 1 /\ Range(p) = Range(s) \cup {w}
      /\ \A i \in 1..(Len(s) + 1) : p[i] = IF i <= Len(s) THEN s[i] ELSE t[i - Len(s)]
    BY <1>1, <1>4, <1>6, ConcatProperties, RangeConcat
<1>8. \A i \in 1..Len(p) : p[i].visit \in {"prefix", "where"}
    <2> SUFFICES ASSUME NEW i \in 1..Len(p) PROVE p[i].visit \in {"prefix", "where"}
        OBVIOUS
    <2>1. CASE i <= Len(s)
        BY <1>1, <1>6, <1>7, <2>1
    <2>2. CASE ~(i <= Len(s))
        <3>1. i - Len(s) = 1 /\ i \in 1..(Len(s) + 1)
            BY <1>6, <1>7, <2>2
        <3>2. p[i] = t[1]
            BY <1>7, <2>2, <3>1
        <3> QED BY <1>2, <1>4, <3>2
    <2> QED BY <2>1, <2>2
<1> HIDE DEF p
<1>9. /\ v \in Seq(Frame) /\ Len(p) \in Nat /\ Len(v) = Len(p) + Len(u) /\ Range(v) = Range(p) \cup Range(u)
      /\ \A i \in 1..(Len(p) + Len(u)) : v[i] = IF i <= Len(p) THEN p[i] ELSE u[i - Len(p)]
    BY <1>5, <1>7, ConcatProperties, RangeConcat, LenProperties
<1> HIDE DEF v
<1>10. \A i \in 1..Len(v) : v[i].visit = "select" => i = Len(v)
    <2> SUFFICES ASSUME NEW i \in 1..Len(v), v[i].visit = "select" PROVE i = Len(v)
        OBVIOUS
    <2>1. ~(i <= Len(p))
        BY <1>8, <1>9
    <2> QED BY <1>5, <1>9, <2>1
<1>11. \A c \in Range(v) : c.visit = "prefix" \/ c = w \/ (text.form = "select" /\ c = Call("select", text.select))
    <2>1. \A c \in Range(s) : c.visit = "prefix"
        BY <1>1, <1>6
    <2> QED BY <1>5, <1>7, <1>9, <2>1
<1> QED BY <1>3, <1>5, <1>7, <1>9, <1>10, <1>11 DEF w

LEMMA ParseIs ==
    ASSUME NothingParsed, NEW text, Parse(text), error' = "none"
    PROVE  /\ text.form \in {"select", "ask"} /\ ~text.prologue.base
           /\ visits' = ParsedCalls(text)
<1>1. error = "none"
    BY DEF NothingParsed
<1>2. CASE text.form \notin {"select", "ask"} \/ text.prologue.base
    BY <1>2 DEF Parse
<1>3. CASE ~(text.form \notin {"select", "ask"} \/ text.prologue.base)
    BY <1>3 DEF Parse, ParsedCalls, Clause
<1> QED BY <1>2, <1>3

LEMMA ParseCourse ==
    ASSUME NothingParsed, NEW CONSTANT text \in Text, Parse(text), error' = "none", Shape',
           UNCHANGED <<nameVars, odgVars, activeVars, groupVars, optVars>>,
           NEW CONSTANT T, NEW CONSTANT V
    PROVE  Course(T, V, text.where)'
<1> DEFINE v == ParsedCalls(text)
           g == text.where
<1>1. text.form \in {"select", "ask"} /\ visits' = v
    BY ParseIs
<1>2. /\ v \in Seq(Frame)
      /\ \A c \in Range(v) : c.visit = "prefix" \/ c = Call("where", g) \/ c.visit = "select"
      /\ Call("where", g) \in Range(v)
    <2>1. Call("select", text.select).visit = "select"
        BY DEF Call
    <2> QED BY <1>1, <2>1, ParsedCallsAre
<1> HIDE DEF v
<1>3. Range(v) = {v[i] : i \in 1..Len(v)} /\ Range(v) \subseteq Frame
    BY <1>2, RangeIs
<1>4. \A c \in Range(v) : c.visit \notin Inward
    BY <1>2 DEF Inward, Call
<1>5. Follows(v)
    BY <1>3, <1>4, FollowsNone
<1>6. Call("where", g) \in FineCalls(T, V) <=> g \in FineGroups(T, V)
    <2>1. Call("where", g) \in Frame
        BY <1>2, <1>3
    <2> QED BY <2>1 DEF FineCalls, FineCall, Call
<1>7. Range(v) \subseteq FineCalls(T, V) <=> g \in FineGroups(T, V)
    <2>1. \A c \in Range(v) : c.visit \in {"prefix", "select"} => c \in FineCalls(T, V)
        BY <1>3, FineOthers
    <2> QED BY <1>2, <1>6, <2>1
<1>8. triples_blocks' = <<>> /\ optional_blocks' = <<>>
    BY DEF NothingParsed, groupVars
<1>9. FineLevels(T, V)'
    <2>1. EachIn(triples_blocks', FineBlocks(T, V)) /\ EachIn(optional_blocks', FineGroups(T, V))
        BY <1>8, EachInEmpty
    <2> QED BY <2>1 DEF FineLevels, FineBlocks, FineGroups, FineAlone
<1>10. AllFine(T, V)' <=> g \in FineGroups(T, V)
    BY <1>1, <1>7 DEF AllFine, FineCalls, FineCall
<1> HIDE DEF g
<1>11. GraphType'
    BY DEF Shape
<1>12. (AllFine(T, V) => FineLevels(T, V) /\ g \in FineGroups(T, V))'
    BY <1>9, <1>10 DEF FineGroups, FineAlone, g
<1>13. (g \in FineGroups(T, V) => AllFine(T, V) /\ FineLevels(T, V))'
    BY <1>9, <1>10 DEF FineGroups, FineAlone, g
<1>14. Toward(T, V, g)'
    BY <1>11, <1>12, <1>13, SettledIs, PTL
<1>15. Follows(visits')
    BY <1>1, <1>5
<1> QED BY <1>14, <1>15 DEF Course, Follows, g

LEMMA ParseClauses ==
    ASSUME NothingParsed, NEW CONSTANT text \in Text, Parse(text), error' = "none"
    PROVE  Clauses(text)'
<1> DEFINE v == ParsedCalls(text)
<1>1. text.form \in {"select", "ask"} /\ visits' = v
    BY ParseIs
<1>2. /\ v \in Seq(Frame)
      /\ \A c \in Range(v) : \/ c.visit = "prefix"
                             \/ c = Call("where", text.where)
                             \/ text.form = "select" /\ c = Call("select", text.select)
      /\ text.form = "select" => Call("select", text.select) \in Range(v)
      /\ \A i \in 1..Len(v) : v[i].visit = "select" => i = Len(v)
    BY <1>1, ParsedCallsAre
<1> HIDE DEF v
<1>3. Range(v) = {v[i] : i \in 1..Len(v)} /\ Range(v) \subseteq Frame
    BY <1>2, RangeIs
<1>4. Range(v) \subseteq AskedCalls(text)
    BY <1>2, <1>3 DEF AskedCalls, Call, Outside
<1>5. SelectIsLast'
    BY <1>1, <1>2 DEF SelectIsLast
<1>6. ASSUME text.form = "select", Range(v) \subseteq NamedCalls(text) PROVE OnlyNames(text)
    <2>1. Call("select", text.select) \in NamedCalls(text)
        BY <1>2, <1>6
    <2> QED BY <2>1 DEF NamedCalls, Call
<1>7. ASSUME text.form = "select" PROVE \E i \in 1..Len(v) : v[i].visit = "select"
    <2>1. PICK i \in 1..Len(v) : v[i] = Call("select", text.select)
        BY <1>2, <1>3, <1>7
    <2> QED BY <2>1 DEF Call
<1> QED BY <1>1, <1>4, <1>5, <1>6, <1>7 DEF Clauses, AskedCalls, NamedCalls

-----------------------------------------------------------------------------
(* What a visit rejects.                                                   *)

\* If the call is not fine, the query is not.
LEMMA NotFine ==
    ASSUME Shape, NEW f, Calling(f), NEW T, NEW V, NEW g, Course(T, V, g), Head(visits) \notin FineCalls(T, V)
    PROVE  g \notin FineGroups(T, V)
<1>1. ~AllFine(T, V)
    BY AllFineIs
<1> QED BY <1>1 DEF Course, Toward

LEMMA ThrowIs ==
    ASSUME NEW node \in {Thrown, Crashed}, Throw(node)
    PROVE  /\ error' \in {"thrown", "crashed"}
           /\ error' = "crashed" <=> node = Crashed
BY DEF Throw, Thrown, Crashed

\* A term or a verb that is not supported.
LEMMA PartThrows ==
    ASSUME Shape, visitTriplesSameSubjectPath \/ visitVerbPath \/ visitObject, error' # "none"
    PROVE  /\ Head(visits).visit \in Inward /\ Calling(Head(visits).visit)
           /\ error' \in {"thrown", "crashed"}
           /\ Head(visits) \notin FineCalls(SupportedTerms(prefixes), SupportedVerbs(prefixes))
           /\ error' = "crashed" => Head(visits) \notin FineCalls(SafeTerms, SafeVerbs)
<1> DEFINE ST == SupportedTerms(prefixes)
           SV == SupportedVerbs(prefixes)
<1>0. Calling("subject") \/ Calling("verb") \/ Calling("object")
    BY DEF visitTriplesSameSubjectPath, visitVerbPath, visitObject
<1>1. /\ Head(visits).visit \in Inward /\ Calling(Head(visits).visit) /\ error = "none"
    BY <1>0, CallOf DEF Inward
<1>2. \A t \in Term : Failed(visitVarOrTerm(prefixes, t)) =>
          t \notin ST /\ (visitVarOrTerm(prefixes, t) = Crashed => t \notin SafeTerms)
    BY TermJudged DEF SupportedTerms, SafeTerms
<1>3. \A v \in Verb : ~IsNested(v) /\ Failed(visitVerb(prefixes, v)) =>
          v \notin SV /\ (visitVerb(prefixes, v) = Crashed => v \notin SafeVerbs)
    BY VerbJudged DEF SupportedVerbs, SafeVerbs
<1> HIDE DEF ST, SV
<1>4. CASE visitTriplesSameSubjectPath
    <2> DEFINE node == visitVarOrTerm(prefixes, Arg.subject)
    <2>1. Calling("subject") /\ Arg \in SameSubject /\ Arg.subject \in Term /\ Arg.subject[1] # "node"
        BY <1>4, ArgType DEF visitTriplesSameSubjectPath, SameSubject
    <2>2. Failed(node) /\ Throw(node)
        BY <1>1, <1>4 DEF visitTriplesSameSubjectPath
    <2>3. node \in {Thrown, Crashed}
        BY <2>2 DEF Failed
    <2>4. error' \in {"thrown", "crashed"} /\ (error' = "crashed" => node = Crashed)
        BY <2>2, <2>3, ThrowIs
    <2>5. \A T, V : Arg.subject \notin T => Arg \notin FineTriples(T, V)
        BY <2>1 DEF FineTriples, TermsOf
    <2>6. \A T, V : Arg.subject \notin T => Head(visits) \notin FineCalls(T, V)
        BY <2>1, <2>5, HeadFine
    <2> HIDE DEF node
    <2>7. Arg.subject \notin ST /\ (node = Crashed => Arg.subject \notin SafeTerms)
        BY <1>2, <2>1, <2>2 DEF node
    <2> QED BY <1>1, <2>4, <2>6, <2>7 DEF ST, SV
<1>5. CASE visitVerbPath
    <2> DEFINE node == visitVerb(prefixes, Arg)
    <2>1. Calling("verb") /\ Arg \in Verb /\ ~IsNested(Arg)
        BY <1>5, ArgType DEF visitVerbPath
    <2>2. Failed(node) /\ Throw(node)
        BY <1>1, <1>5 DEF visitVerbPath
    <2>3. node \in {Thrown, Crashed}
        BY <2>2 DEF Failed
    <2>4. error' \in {"thrown", "crashed"} /\ (error' = "crashed" => node = Crashed)
        BY <2>2, <2>3, ThrowIs
    <2>5. \A T, V : Arg \notin V => Head(visits) \notin FineCalls(T, V)
        BY <2>1, HeadFine
    <2> HIDE DEF node
    <2>6. Arg \notin SV /\ (node = Crashed => Arg \notin SafeVerbs)
        BY <1>3, <2>1, <2>2 DEF node
    <2> QED BY <1>1, <2>4, <2>5, <2>6 DEF ST, SV
<1>6. CASE visitObject
    <2> DEFINE node == visitVarOrTerm(prefixes, Arg)
    <2>1. Calling("object") /\ Arg \in Term
        BY <1>6, ArgType DEF visitObject
    <2>2. Failed(node) /\ Throw(node)
        BY <1>1, <1>6 DEF visitObject
    <2>3. node \in {Thrown, Crashed}
        BY <2>2 DEF Failed
    <2>4. error' \in {"thrown", "crashed"} /\ (error' = "crashed" => node = Crashed)
        BY <2>2, <2>3, ThrowIs
    <2>5. \A T, V : Arg \notin T => Head(visits) \notin FineCalls(T, V)
        BY <2>1, HeadFine
    <2> HIDE DEF node
    <2>6. Arg \notin ST /\ (node = Crashed => Arg \notin SafeTerms)
        BY <1>2, <2>1, <2>2 DEF node
    <2> QED BY <1>1, <2>4, <2>5, <2>6 DEF ST, SV
<1> QED BY <1>4, <1>5, <1>6

\* A group that is a subquery is never fine.
LEMMA SubqueryIsNot ==
    ASSUME NEW T, NEW V, NEW g \in Group, IsSubquery(g)
    PROVE  g \notin FineGroups(T, V)
<1>1. g \in Groups[g]
    BY GroupsOfGroup
<1> QED BY <1>1, FineIs

\* What else is rejected.
LEMMA OtherThrows ==
    ASSUME Shape, NEW text, Clauses(text), text.where \in Group, Visit, error' # "none"
    PROVE  \/ visitTriplesSameSubjectPath \/ visitVerbPath \/ visitObject
           \/ /\ visitSubquery /\ error' = "crashed" /\ Calling("pattern") /\ ~IsSubquery(text.where)
              /\ \A T, V : Head(visits) \notin FineCalls(T, V)
           \/ error' = "thrown" /\ IsSubquery(text.where)
           \/ /\ error' = "thrown" /\ visitAsterisk /\ Tail(visits) = <<>>
              /\ text.form = "select" /\ text.select = All /\ ~HasNamed(triple_patterns)
           \/ /\ error' = "thrown" /\ text.form = "select" /\ text.select # All
              /\ \E v \in Range(text.select) : v[1] # "var"
<1> DEFINE h == Head(visits)
<1>1. /\ visits # <<>> /\ visits \in Seq(Frame) /\ error = "none" /\ h \in Frame /\ Calling(h.visit) /\ Arg = h.arg
      /\ h \in Range(visits)
    <2>1. visits # <<>> /\ visits \in Seq(Frame)
        BY VisitCalls DEF Shape, GraphType, CallsType
    <2>2. h \in Frame /\ error = "none" /\ Calling(h.visit)
        BY <2>1, HeadTailProperties DEF Calling, Shape, Fits
    <2>3. h \in Range(visits)
        BY <2>1, RangeHead
    <2> QED BY <2>1, <2>2, <2>3 DEF Arg
<1>2. \A f : Calling(f) => h.visit = f
    BY DEF Calling
<1>3. h \in AskedCalls(text)
    BY <1>1 DEF Clauses
<1>4. /\ h.visit = "where" => h.arg = text.where
      /\ h.visit = "select" => text.form = "select" /\ h.arg = text.select
      /\ h.visit = "variable" => text.form = "select" /\ text.select # All /\ h.arg \in Range(text.select)
      /\ h.visit \notin Outside => ~IsSubquery(text.where)
    BY <1>3 DEF AskedCalls
<1> HIDE DEF h
<1>5. CASE visitTriplesSameSubjectPath \/ visitVerbPath \/ visitObject
    BY <1>5
<1>6. CASE visitSubquery
    <2>1. Calling("pattern") /\ IsSubquery(Arg.group) /\ error' = "crashed"
        BY <1>6 DEF visitSubquery, Throw, Crashed
    <2>2. Arg.group \in Group
        BY <2>1, ArgType
    <2>3. \A T, V : Arg.group \notin FineGroups(T, V)
        BY <2>1, <2>2, SubqueryIsNot
    <2>4. \A T, V : h \notin FineCalls(T, V)
        BY <2>1, <2>3, HeadFine DEF h
    <2>5. ~IsSubquery(text.where)
        BY <1>2, <1>4, <2>1 DEF Outside
    <2> QED BY <1>6, <2>1, <2>4, <2>5 DEF h
<1>7. CASE visitSubSelect
    <2>1. Calling("where") /\ IsSubquery(Arg) /\ error' = "thrown"
        BY <1>7 DEF visitSubSelect, Throw, Thrown
    <2> QED BY <1>1, <1>2, <1>4, <2>1
<1>8. CASE visitAsterisk
    <2>1. Calling("select") /\ Arg = All /\ error' \in {"none", "thrown"}
        BY <1>1, <1>8 DEF visitAsterisk, Throw, Thrown
    <2>2. ~HasNamed(triple_patterns)
        BY <1>8, AsteriskNames
    <2>3. text.form = "select" /\ text.select = All
        BY <1>1, <1>2, <1>4, <2>1
    <2>4. Tail(visits) = <<>>
        <3>1. h = visits[1] /\ Len(visits) \in Nat \ {0}
            BY <1>1, HeadTailProperties, EmptySeq DEF h
        <3>2. Len(visits) = 1
            BY <1>2, <2>1, <3>1 DEF Clauses, SelectIsLast
        <3>3. Tail(visits) \in Seq(Frame) /\ Len(Tail(visits)) = 0
            BY <1>1, <3>2, HeadTailProperties
        <3> QED BY <3>3, EmptySeq
    <2> QED BY <1>8, <2>1, <2>2, <2>3, <2>4
<1>9. CASE visitSelectVariable
    <2>1. Calling("variable") /\ Arg[1] # "var" /\ error' = "thrown"
        BY <1>1, <1>9 DEF visitSelectVariable, Throw, Thrown
    <2> QED BY <1>1, <1>2, <1>4, <2>1
<1>10. CASE visitPrologue
    BY <1>1, <1>10 DEF visitPrologue
<1>11. CASE visitTriplesBlock \/ visitTriplesNode \/ visitPropertyListPath \/ visitPath
    BY <1>1, <1>11 DEF visitTriplesBlock, visitTriplesNode, visitPropertyListPath, visitPath
<1>12. CASE visitWellDesignedPattern \/ Resize \/ VisitOptionals \/ CloseConjunction
    BY <1>1, <1>12 DEF visitWellDesignedPattern, Resize, VisitOptionals, CloseConjunction
<1>13. CASE EnterOptional \/ LeaveOptional \/ visitWhereClause \/ EndWhereClause \/ visitSelectClause
    BY <1>1, <1>13 DEF EnterOptional, LeaveOptional, visitWhereClause, EndWhereClause, visitSelectClause
<1> QED BY <1>5, <1>6, <1>7, <1>8, <1>9, <1>10, <1>11, <1>12, <1>13 DEF Visit

-----------------------------------------------------------------------------
(* Bags by sums.                                                            *)

\* One for e, or for every element.
OneFor(S, e) == [x \in S |-> IF x = e THEN 1 ELSE 0]
Ones(S)      == [x \in S |-> 1]

LEMMA OneIsWeight ==
    ASSUME NEW S, NEW e
    PROVE  OneFor(S, e) \in [S -> Nat] /\ Ones(S) \in [S -> Nat]
BY DEF OneFor, Ones

LEMMA CountAppend ==
    ASSUME NEW S, NEW s \in Seq(S), NEW x \in S, NEW e, IsFiniteSet({i \in DOMAIN s : s[i] = e})
    PROVE  /\ IsFiniteSet({i \in DOMAIN Append(s, x) : Append(s, x)[i] = e})
           /\ Count(Append(s, x), e) = Count(s, e) + (IF x = e THEN 1 ELSE 0)
<1> DEFINE t == Append(s, x)
           n == Len(s)
           A == {i \in DOMAIN s : s[i] = e}
           B == {i \in DOMAIN t : t[i] = e}
<1>1. /\ n \in Nat /\ DOMAIN s = 1..n /\ DOMAIN t = 1..(n + 1) /\ t[n + 1] = x
      /\ \A i \in 1..n : t[i] = s[i]
    <2>1. t \in Seq(S) /\ Len(t) = n + 1 /\ n \in Nat
        BY AppendProperties, LenProperties
    <2>2. DOMAIN t = 1..(n + 1) /\ DOMAIN s = 1..n
        BY <2>1, LenProperties
    <2> QED BY <2>1, <2>2, AppendProperties
<1> HIDE DEF t, n
<1>2. n + 1 \notin A /\ IsFiniteSet(A)
    BY <1>1
<1>3. Cardinality(A) \in Nat
    BY <1>2, FS_CardinalityType
<1>4. CASE x = e
    <2>1. B = A \cup {n + 1}
        <3>1. ASSUME NEW i \in B PROVE i \in A \cup {n + 1}
            BY <1>1
        <3>2. ASSUME NEW i \in A \cup {n + 1} PROVE i \in B
            BY <1>1, <1>4
        <3> QED BY <3>1, <3>2
    <2> HIDE DEF A, B
    <2>2. IsFiniteSet(B) /\ Cardinality(B) = Cardinality(A) + 1
        BY <1>2, <2>1, FS_AddElement
    <2> QED BY <1>4, <2>2 DEF Count, A, B, t
<1>5. CASE x # e
    <2>1. B = A
        <3>1. ASSUME NEW i \in B PROVE i \in A
            <4>1. i # n + 1
                BY <1>1, <1>5
            <4> QED BY <1>1, <4>1
        <3>2. ASSUME NEW i \in A PROVE i \in B
            BY <1>1
        <3> QED BY <3>1, <3>2
    <2> HIDE DEF A, B
    <2>2. IsFiniteSet(B) /\ Cardinality(B) = Cardinality(A) + 0
        BY <1>2, <1>3, <2>1
    <2> QED BY <1>5, <2>2 DEF Count, A, B, t
<1> QED BY <1>4, <1>5

LEMMA SumCounts ==
    ASSUME NEW S, NEW s \in Seq(S), NEW e
    PROVE  Sum(OneFor(S, e), s) = Count(s, e) /\ Sum(Ones(S), s) = Len(s)
<1> DEFINE F == OneFor(S, e)
           G == Ones(S)
           P == {u \in Seq(S) : /\ IsFiniteSet({i \in DOMAIN u : u[i] = e})
                                /\ Sum(F, u) = Count(u, e) /\ Sum(G, u) = Len(u)}
<1>1. F \in [S -> Nat] /\ G \in [S -> Nat]
    BY OneIsWeight
<1>2. \A x \in S : F[x] = (IF x = e THEN 1 ELSE 0) /\ G[x] = 1
    BY DEF OneFor, Ones
<1> HIDE DEF F, G
<1>3. <<>> \in P
    <2>1. {i \in DOMAIN <<>> : <<>>[i] = e} = {}
        OBVIOUS
    <2>2. IsFiniteSet({i \in DOMAIN <<>> : <<>>[i] = e}) /\ Count(<<>>, e) = 0
        BY <2>1, FS_EmptySet DEF Count
    <2>3. <<>> \in Seq(S) /\ Len(<<>>) = 0
        OBVIOUS
    <2>4. Sum(F, <<>>) = 0 /\ Sum(G, <<>>) = 0
        BY SumEmpty
    <2> QED BY <2>2, <2>3, <2>4
<1>4. ASSUME NEW u \in Seq(S), NEW x \in S, u \in P PROVE Append(u, x) \in P
    <2>1. /\ IsFiniteSet({i \in DOMAIN u : u[i] = e}) /\ Sum(F, u) = Count(u, e) /\ Sum(G, u) = Len(u)
        BY <1>4
    <2>2. /\ IsFiniteSet({i \in DOMAIN Append(u, x) : Append(u, x)[i] = e})
          /\ Count(Append(u, x), e) = Count(u, e) + (IF x = e THEN 1 ELSE 0)
        BY <2>1, CountAppend
    <2>3. Sum(F, Append(u, x)) = Sum(F, u) + F[x]
        BY <1>1, SumAppend
    <2>4. Sum(G, Append(u, x)) = Sum(G, u) + G[x]
        BY <1>1, SumAppend
    <2>5. Append(u, x) \in Seq(S) /\ Len(Append(u, x)) = Len(u) + 1
        BY AppendProperties
    <2> QED BY <1>2, <2>1, <2>2, <2>3, <2>4, <2>5
<1>5. s \in P
    <2>1. Seq(S) \subseteq P
        <3> HIDE DEF P
        <3> QED BY <1>3, <1>4, SeqInduction
    <2> QED BY <2>1
<1> QED BY <1>5 DEF F, G

\* What has the same sums has the same elements, each as often.
LEMMA SameSums ==
    ASSUME NEW S, NEW s \in Seq(S), NEW t \in Seq(S), \A F \in [S -> Nat] : Sum(F, s) = Sum(F, t)
    PROVE  SameBag(s, t)
<1>1. Len(s) = Len(t)
    <2>1. Sum(Ones(S), s) = Sum(Ones(S), t)
        BY OneIsWeight
    <2> QED BY <2>1, SumCounts
<1>2. ASSUME NEW e PROVE Count(s, e) = Count(t, e)
    <2>1. Sum(OneFor(S, e), s) = Sum(OneFor(S, e), t)
        BY OneIsWeight
    <2> QED BY <2>1, SumCounts
<1> QED BY <1>1, <1>2 DEF SameBag

-----------------------------------------------------------------------------
(* The triple patterns.                                                     *)

\* However triple patterns are weighed, the calls to be done lead to those of a
\* group.
LeadsToAll(D, g) == \A W \in Weights : \E y \in Counted : y[2] = GroupWeight(W, D)[g] /\ LeadsTo(W, D, y)

LEMMA ParseLeadsToAll ==
    ASSUME NothingParsed, NEW text \in Text, Parse(text), error' = "none",
           UNCHANGED <<nameVars, odgVars, activeVars, groupVars, optVars>>
    PROVE  /\ Declared(text.prologue.prefixes) \in PrefixMaps
           /\ LeadsToAll(Declared(text.prologue.prefixes), text.where)'
<1> DEFINE D == Declared(text.prologue.prefixes)
<1>1. \A W \in Weights : /\ D \in PrefixMaps
                         /\ \E y \in Counted : y[2] = GroupWeight(W, D)[text.where] /\ LeadsTo(W, D, y)'
    BY ParseLeads
<1>2. D \in PrefixMaps
    <2>1. text.prologue.prefixes \in Seq(Declaration)
        BY DEF Text
    <2> QED BY <2>1, PrefixesRun
<1> HIDE DEF D
<1> QED BY <1>1, <1>2 DEF LeadsToAll, D

LEMMA VisitLeadsToAll ==
    ASSUME Shape, NEW D \in PrefixMaps, NEW g \in Group, LeadsToAll(D, g), Visit, error' = "none"
    PROVE  LeadsToAll(D, g)'
<1> SUFFICES ASSUME NEW W \in Weights
             PROVE  \E y \in Counted : y[2] = GroupWeight(W, D)[g] /\ LeadsTo(W, D, y)'
    BY DEF LeadsToAll
<1>1. PICK y \in Counted : y[2] = GroupWeight(W, D)[g] /\ LeadsTo(W, D, y)
    BY DEF LeadsToAll
<1> QED BY <1>1, VisitLeads

LEMMA SameLeadsToAll ==
    ASSUME NEW D, NEW g, LeadsToAll(D, g), UNCHANGED graphVars
    PROVE  LeadsToAll(D, g)'
<1>1. /\ triples_blocks' = triples_blocks /\ optional_blocks' = optional_blocks /\ prefixes' = prefixes
      /\ active_subject' = active_subject /\ active_predicate' = active_predicate
      /\ triple_patterns' = triple_patterns /\ visits' = visits
    BY DEF graphVars, nameVars, odgVars, activeVars, groupVars
<1>2. ASSUME NEW W PROVE Now(W)' = Now(W)
    BY <1>1 DEF Now, Here
<1>3. \A W, y : LeadsTo(W, D, y) => LeadsTo(W, D, y)'
    BY <1>1, <1>2 DEF LeadsTo
<1> QED BY <1>3 DEF LeadsToAll

\* Whatever looks at prefixes finds those of the text.
LEMMA PrefixesAre ==
    ASSUME Shape, NEW D \in PrefixMaps, NEW g \in Group, LeadsToAll(D, g),
           visits # <<>>, Head(visits).visit \in Inward
    PROVE  prefixes = D
<1> DEFINE W == [x \in Triple |-> 0]
           c == Head(visits)
<1>1. W \in Weights
    BY DEF Weights
<1> HIDE DEF W
<1>2. PICK y \in Counted : LeadsTo(W, D, y)
    BY <1>1 DEF LeadsToAll
<1>3. PICK a \in Context, b \in Context, n \in Nat :
          Weaker(a, Here) /\ Leads(W, D, c, a, Sum(W, triple_patterns), b, n)
    BY <1>1, <1>2, LeadsSome
<1>4. a.decl = prefixes
    BY <1>3, WeakerHere
<1>5. a.decl = D
    BY <1>3 DEF Leads, Inward
<1> QED BY <1>4, <1>5

\* Where only the SELECT clause is left, the triple patterns are there.
LEMMA LeadsToSums ==
    ASSUME GraphType, NEW D \in PrefixMaps, NEW g \in Group, LeadsToAll(D, g),
           visits # <<>> => Head(visits).visit = "select" /\ Tail(visits) = <<>>
    PROVE  /\ triple_patterns \in Seq(Triple) /\ AllTriples(D, g) \in Seq(Triple)
           /\ \A W \in Weights : Sum(W, triple_patterns) = Sum(W, AllTriples(D, g))
<1>1. triple_patterns \in Seq(Triple) /\ AllTriples(D, g) \in Seq(Triple)
    <2>1. Node \X Node \X Node \subseteq Triple
        BY DEF Triple, Visited
    <2>2. triple_patterns \in Seq(Node \X Node \X Node)
        BY DEF GraphType, OdgType
    <2>3. [x \in Triple |-> 0] \in Weights
        BY DEF Weights
    <2> QED BY <2>1, <2>2, <2>3, SeqMonotonic, AllTriplesWeight
<1>2. ASSUME NEW W \in Weights PROVE Sum(W, triple_patterns) = Sum(W, AllTriples(D, g))
    <2> DEFINE R == Does(W, D)
               c == Head(visits)
    <2>1. PICK y \in Counted : y[2] = GroupWeight(W, D)[g] /\ LeadsTo(W, D, y)
        BY DEF LeadsToAll
    <2>2. PICK x \in Counted : Weakens(x, Now(W)) /\ Runs(R, Counted, visits, x, y)
        BY <2>1 DEF LeadsTo
    <2>3. x[2] = Sum(W, triple_patterns)
        BY <2>2 DEF Weakens, Now
    <2>4. x[2] = y[2]
        <3>1. CASE visits = <<>>
            BY <2>2, <3>1, RunNone
        <3>2. CASE visits # <<>>
            <4>1. visits \in Seq(Frame)
                BY DEF GraphType, CallsType
            <4> HIDE DEF R
            <4>2. PICK z \in Counted : <<c, x, z>> \in R /\ Runs(R, Counted, Tail(visits), z, y)
                BY <2>2, <3>2, <4>1, RunFirst
            <4>3. z = y
                <5>1. Runs(R, Counted, <<>>, z, y)
                    BY <3>2, <4>2
                <5> QED BY <5>1, RunNone
            <4>4. PICK u \in Counted : Leads(W, D, c, x[1], x[2], u[1], u[2]) /\ Weakens(z, u)
                BY <4>2 DEF R, Does
            <4>5. u[2] = x[2]
                BY <3>2, <4>4 DEF Leads
            <4> QED BY <4>3, <4>4, <4>5 DEF Weakens
        <3> QED BY <3>1, <3>2
    <2> QED BY <2>1, <2>3, <2>4, AllTriplesWeight
<1> QED BY <1>1, <1>2

LEMMA LeadsToTriples ==
    ASSUME GraphType, NEW D \in PrefixMaps, NEW g \in Group, LeadsToAll(D, g), visits = <<>>
    PROVE  SameBag(triple_patterns, AllTriples(D, g))
<1> DEFINE s == triple_patterns
           t == AllTriples(D, g)
<1>1. s \in Seq(Triple) /\ t \in Seq(Triple) /\ \A W \in [Triple -> Nat] : Sum(W, s) = Sum(W, t)
    BY LeadsToSums DEF Weights
<1> HIDE DEF s, t
<1>2. SameBag(s, t)
    BY <1>1, SameSums
<1> QED BY <1>2 DEF s, t

\* What is in one of two bags is in the other.
LEMMA BagRange ==
    ASSUME NEW S, NEW s \in Seq(S), NEW t \in Seq(S), SameBag(s, t)
    PROVE  Range(s) \subseteq Range(t)
<1> SUFFICES ASSUME NEW x \in Range(s), x \notin Range(t) PROVE FALSE
    OBVIOUS
<1> DEFINE A == {i \in DOMAIN s : s[i] = x}
           B == {i \in DOMAIN t : t[i] = x}
<1>1. A # {} /\ B = {}
    BY DEF Range
<1>2. IsFiniteSet(A)
    <2>1. Len(s) \in Nat /\ DOMAIN s = 1..Len(s)
        BY LenProperties
    <2>2. IsFiniteSet(1..Len(s))
        BY <2>1, FS_Interval
    <2> QED BY <2>1, <2>2, FS_Subset
<1>3. Cardinality(A) = Cardinality(B)
    BY DEF SameBag, Count
<1> HIDE DEF A, B
<1> QED BY <1>1, <1>2, <1>3, FS_EmptySet

LEMMA NamedAre ==
    ASSUME GraphType, NEW D \in PrefixMaps, NEW g \in Group, LeadsToAll(D, g),
           visits # <<>> => Head(visits).visit = "select" /\ Tail(visits) = <<>>
    PROVE  HasNamed(triple_patterns) <=> HasNamed(AllTriples(D, g))
<1> DEFINE s == triple_patterns
           t == AllTriples(D, g)
<1>1. s \in Seq(Triple) /\ t \in Seq(Triple) /\ \A W \in [Triple -> Nat] : Sum(W, s) = Sum(W, t)
    BY LeadsToSums DEF Weights
<1> HIDE DEF s, t
<1>2. SameBag(s, t) /\ SameBag(t, s)
    BY <1>1, SameSums
<1>3. Range(s) = Range(t)
    <2>1. Range(s) \subseteq Range(t)
        BY <1>1, <1>2, BagRange
    <2>2. Range(t) \subseteq Range(s)
        BY <1>1, <1>2, BagRange
    <2> QED BY <2>1, <2>2
<1> QED BY <1>3 DEF HasNamed, s, t

-----------------------------------------------------------------------------
(* QueryEngine.                                                             *)

Stages == {"file", "loading", "failed", "list", "text", "parsing", "parsed", "rejected", "crashed",
           "evaluated"}

IsLoaded == stage \notin {"file", "loading", "failed"}

\* What the stage tells about the store, the tool and the visitor.
StageInv == /\ stage \in Stages
            /\ stage = "file" => file = Missing /\ EmptyStore
            /\ stage # "file" /\ request.tool # NoTool => file = output /\ running = "ended"
            /\ IsLoaded => loading = "done"
            /\ stage = "list" => request.list # NoList
            /\ stage \in {"file", "loading", "failed", "list", "text"} => NothingParsed
            /\ Parsed => visits = <<>> /\ error = "none"

VisitorInv == Shape /\ Aligned /\ GraphInv

EngineInv == request \in Requests /\ StageInv /\ StoreInv /\ ToolInv /\ VisitorInv

LEMMA RequestType ==
    ASSUME request \in Requests
    PROVE  /\ request.file \in Seq(Statements) \cup {Missing} /\ request.limit \in Nat
           /\ request.text \in Text /\ request.list \in {NoList} \cup Nodes
           /\ request.tool # NoTool => request.file \in Seq(Statements)
<1> DEFINE r == request
<1>1. r \in [file : Seq(Statements) \cup {Missing}, limit : Nat, text : Text,
             tool : {NoTool, "deduplicated-nt", "rdf2ids", "rdf2ids --distinct"},
             list : {NoList} \cup Nodes]
    BY RequestAssumption
<1>2. r.file = Missing => r.tool = NoTool
    BY RequestAssumption
<1> HIDE DEF r
<1>3. r.file \in Seq(Statements) \cup {Missing} /\ r.limit \in Nat /\ r.text \in Text
      /\ r.list \in {NoList} \cup Nodes
    BY <1>1
<1> QED BY <1>2, <1>3 DEF r

\* Where the visitor does nothing.
LEMMA SameVisitor ==
    ASSUME VisitorInv, UNCHANGED graphVars
    PROVE  VisitorInv' /\ (NothingParsed => NothingParsed')
<1>1. /\ UNCHANGED <<prefixes, projected_variables, var_to_id>>
      /\ UNCHANGED <<triple_patterns, operands, dependencies, connections>>
      /\ UNCHANGED <<active_subject, active_predicate>>
      /\ UNCHANGED <<group_patterns, triples_blocks, optional_blocks, opt_operands, union_operands>>
      /\ UNCHANGED <<visits, error>>
    BY DEF graphVars, nameVars, odgVars, activeVars, groupVars, optVars
<1>2. NamesType' /\ OdgType' /\ operands' = operands
    BY <1>1, SameData DEF VisitorInv, nameVars, odgVars, activeVars
<1>3. StacksType' /\ StacksFit' /\ \A x : Covers(x) => Covers(x)'
    BY <1>1, <1>2, SameStacks DEF VisitorInv, groupVars, optVars
<1>4. CallsType' /\ Fits'
    BY <1>1, <1>3 DEF VisitorInv, Shape, GraphType, CallsType, Fits
<1>5. Shape'
    BY <1>2, <1>3, <1>4 DEF Shape, GraphType
<1>6. Aligned'
    BY <1>1, SameAligned DEF VisitorInv, alignVars
<1>7. GraphInv'
    BY <1>1, SameGraph DEF VisitorInv, theGraph
<1>8. NothingParsed => NothingParsed'
    BY <1>1 DEF NothingParsed
<1> QED BY <1>5, <1>6, <1>7, <1>8 DEF VisitorInv

LEMMA EngineBegins == Init => EngineInv
<1> SUFFICES ASSUME Init PROVE EngineInv
    OBVIOUS
<1>1. StoreInv
    <2>1. StoreInit
        BY DEF Init, StoreInit
    <2> QED BY <2>1, StoreBegins
<1>2. ToolInv
    <2>1. source \in Seq(Statements)
        BY RequestType, EmptySeq DEF Init
    <2>2. distinct_ = (request.tool \in {"deduplicated-nt", "rdf2ids --distinct"})
        BY DEF Init
    <2>3. distinct_ \in BOOLEAN
        <3>1. ASSUME NEW S, NEW x PROVE (x \in S) \in BOOLEAN
            OBVIOUS
        <3> QED BY <2>2, <3>1
    <2>4. limit \in Nat
        BY RequestType DEF Init
    <2>5. ToolInit
        BY <2>1, <2>3, <2>4 DEF Init, ToolInit
    <2> QED BY <2>5, ToolBegins
<1>3. VisitorInv
    BY NothingShape, NothingAligned, NothingGraph DEF Init, VisitorInv
<1>4. StageInv
    BY DEF Init, StageInv, Stages, Parsed, IsLoaded
<1> QED BY <1>1, <1>2, <1>3, <1>4 DEF Init, EngineInv

LEMMA GiveFileKeeps == ASSUME EngineInv, GiveFile PROVE EngineInv'
<1>1. /\ stage = "file" /\ stage' = "loading" /\ UNCHANGED <<request, toolVars, graphVars>>
      /\ UNCHANGED <<loading, pos, bulk, errors, tensor, listVars>>
      /\ file' = IF request.tool = NoTool THEN request.file ELSE output
    BY DEF GiveFile
<1>2. StoreInv'
    <2>1. EmptyStore /\ EmptyStore'
        BY <1>1 DEF EngineInv, StageInv, EmptyStore, listVars
    <2>2. file' \in Seq(Statements) \cup {Missing}
        <3>1. output \in Seq(Triples) /\ Triples \subseteq Statements
            BY DEF EngineInv, ToolInv, ToolType, Statements
        <3>2. output \in Seq(Statements)
            BY <3>1, SeqMonotonic
        <3> QED BY <1>1, <3>2, RequestType DEF EngineInv
    <2>3. StoreInit'
        BY <2>1, <2>2 DEF StoreInit
    <2> QED BY <2>3, StoreBegins, PTL
<1>3. ToolInv'
    BY <1>1, ToolGoesOn DEF EngineInv
<1>4. VisitorInv' /\ NothingParsed'
    BY <1>1, SameVisitor DEF EngineInv, StageInv
<1>5. StageInv'
    <2>1. request.tool # NoTool => file' = output' /\ running' = "ended"
        BY DEF GiveFile, toolVars
    <2> QED BY <1>1, <1>4, <2>1 DEF StageInv, Stages, Parsed, IsLoaded
<1> QED BY <1>1, <1>2, <1>3, <1>4, <1>5 DEF EngineInv

\* Where the store and the visitor do nothing but the stage may change.
LEMMA StageKeeps ==
    ASSUME EngineInv, UNCHANGED <<request, storeVars, graphVars>>, [ToolNext]_toolVars,
           stage' = stage \/ (stage # "file" /\ stage' # "file"), stage' \in Stages,
           stage # "file" => UNCHANGED toolVars, IsLoaded' => IsLoaded \/ loading = "done",
           stage' = "list" => stage = "list" \/ request.list # NoList,
           stage' \in {"file", "loading", "failed", "list", "text"} =>
               stage \in {"file", "loading", "failed", "list", "text"},
           stage' \in {"parsed", "evaluated"} => Parsed \/ (visits = <<>> /\ error = "none")
    PROVE  EngineInv'
<1>1. StoreInv' /\ ToolInv'
    BY StoreGoesOn, ToolGoesOn DEF EngineInv
<1>2. VisitorInv' /\ (NothingParsed => NothingParsed')
    BY SameVisitor DEF EngineInv
<1>3. UNCHANGED <<file, loading, pos, bulk, errors, tensor, reading, list, head, node_vector, visits, error>>
    BY DEF storeVars, loadVars, listVars, graphVars
<1>4. StageInv'
    BY <1>2, <1>3 DEF EngineInv, StageInv, EmptyStore, Parsed, IsLoaded, toolVars
<1> QED BY <1>1, <1>2, <1>4 DEF EngineInv

LEMMA StoreKeeps ==
    ASSUME EngineInv, StoreNext, stage \in {"loading", "list"}, UNCHANGED <<request, toolVars, stage, graphVars>>,
           UNCHANGED file, stage = "list" => UNCHANGED loading
    PROVE  EngineInv'
<1>1. StoreInv' /\ ToolInv'
    BY StoreGoesOn, ToolGoesOn DEF EngineInv
<1>2. VisitorInv' /\ NothingParsed'
    BY SameVisitor DEF EngineInv, StageInv
<1>3. StageInv'
    BY <1>2 DEF EngineInv, StageInv, Parsed, IsLoaded, toolVars
<1> QED BY <1>1, <1>2, <1>3 DEF EngineInv

LEMMA parseKeeps == ASSUME EngineInv, parse PROVE EngineInv'
<1>1. /\ stage = "text" /\ stage' = "parsing" /\ NothingParsed /\ Parse(request.text) /\ request.text \in Text
      /\ UNCHANGED <<nameVars, odgVars, activeVars, groupVars, optVars>>
      /\ UNCHANGED <<request, toolVars, storeVars>>
    BY RequestType DEF parse, EngineInv, StageInv
<1>2. StoreInv' /\ ToolInv'
    BY <1>1, StoreGoesOn, ToolGoesOn DEF EngineInv
<1>3. Shape'
    BY <1>1, ParseShape
<1>4. Aligned'
    BY <1>1, SameAligned DEF EngineInv, VisitorInv, alignVars, nameVars, odgVars, activeVars
<1>5. GraphInv'
    BY <1>1, SameGraph DEF EngineInv, VisitorInv, theGraph, odgVars, groupVars, optVars
<1>6. StageInv'
    BY <1>1 DEF EngineInv, StageInv, Stages, Parsed, IsLoaded, toolVars, storeVars, loadVars
<1> QED BY <1>1, <1>2, <1>3, <1>4, <1>5, <1>6 DEF EngineInv, VisitorInv

LEMMA ParsingKeeps == ASSUME EngineInv, Parsing PROVE EngineInv'
<1>1. stage = "parsing" /\ Visit /\ UNCHANGED <<request, toolVars, storeVars, stage>>
    BY DEF Parsing
<1>2. StoreInv' /\ ToolInv'
    BY <1>1, StoreGoesOn, ToolGoesOn DEF EngineInv
<1>3. VisitorInv'
    BY <1>1, VisitShape, VisitAligned, VisitGraph DEF EngineInv, VisitorInv
<1>4. StageInv'
    BY <1>1 DEF EngineInv, StageInv, Stages, Parsed, IsLoaded, toolVars, storeVars, loadVars
<1> QED BY <1>1, <1>2, <1>3, <1>4 DEF EngineInv

LEMMA EngineGoesOn == EngineInv /\ [Next]_vars => EngineInv'
<1> SUFFICES ASSUME EngineInv, [Next]_vars PROVE EngineInv'
    OBVIOUS
<1>1. CASE Tool
    BY <1>1, StageKeeps DEF Tool, EngineInv, StageInv, Parsed, IsLoaded
<1>2. CASE GiveFile
    BY <1>2, GiveFileKeeps
<1>3. CASE Load
    <2>1. load_ttl /\ stage = "loading" /\ UNCHANGED <<request, toolVars, stage, graphVars>>
        BY <1>3 DEF Load
    <2>2. UNCHANGED file
        BY <2>1 DEF load_ttl, OpenFile, ReadTriple, ReadBad, EndOfFile
    <2> QED BY <2>1, <2>2, StoreKeeps DEF StoreNext
<1>4. CASE Loaded
    BY <1>4, StageKeeps DEF Loaded, Stages, IsLoaded, EngineInv, StageInv, Parsed
<1>5. CASE ReadList
    <2>1. stage = "list" /\ get_rdf_list({request.list}) /\ request.list \in Nodes
        BY <1>5, RequestType DEF ReadList, EngineInv, StageInv
    <2>2. get_rdf_list(Nodes)
        BY <2>1 DEF get_rdf_list
    <2>3. UNCHANGED file /\ UNCHANGED loading
        BY <2>2 DEF get_rdf_list, StartList, NextItem, EndOfList, loadVars
    <2> QED BY <1>5, <2>2, <2>3, StoreKeeps DEF ReadList, StoreNext
<1>6. CASE parse
    BY <1>6, parseKeeps
<1>7. CASE Parsing
    BY <1>7, ParsingKeeps
<1>8. CASE ParseEnds
    <2>1. /\ stage = "parsing" /\ visits = <<>>
          /\ stage' = CASE error = "none" -> "parsed" [] error = "thrown" -> "rejected" [] OTHER -> "crashed"
          /\ UNCHANGED <<request, toolVars, storeVars, graphVars>>
        BY <1>8 DEF ParseEnds
    <2>2. stage' \in {"parsed", "rejected", "crashed"} /\ (stage' = "parsed" => error = "none")
        <3>1. CASE error = "none"
            BY <2>1, <3>1
        <3>2. CASE error = "thrown"
            BY <2>1, <3>2
        <3>3. CASE error # "none" /\ error # "thrown"
            BY <2>1, <3>3
        <3> QED BY <3>1, <3>2, <3>3
    <2> QED BY <2>1, <2>2, StageKeeps DEF Stages, IsLoaded
<1>9. CASE Evaluate
    BY <1>9, StageKeeps DEF Evaluate, Stages, Parsed, IsLoaded
<1>10. CASE UNCHANGED vars
    BY <1>10, StageKeeps DEF vars, EngineInv, StageInv, Parsed, IsLoaded
<1> QED BY <1>1, <1>2, <1>3, <1>4, <1>5, <1>6, <1>7, <1>8, <1>9, <1>10 DEF Next

-----------------------------------------------------------------------------

\* From the file to the solutions: the store and the tool account for what they
\* have read, the calls still to be done fit the stacks, names and IDs stay in
\* step, and the graph has the edges it should have.
THEOREM EngineInvariance == Spec => []EngineInv
<1> QED BY EngineBegins, EngineGoesOn, PTL DEF Spec

\* Operands and triple patterns of every query stay in step, however the visitor
\* gets through it, and as long as there are letters no two variables have one ID.
THEOREM NamesAndIds == Spec => []OperandsAreAligned
<1>1. EngineInv => OperandsAreAligned
    BY AlignedIds DEF EngineInv, VisitorInv, Shape, GraphType, OperandsAreAligned, EnoughLetters
<1> QED BY <1>1, EngineInvariance, PTL

\* The dependencies and connections of every query are sound at any time, and
\* complete for the groups that are open.
THEOREM GraphIsSound == Spec => []EdgesAreSound
<1>1. EngineInv => EdgesAreSound
    <2> SUFFICES ASSUME EngineInv PROVE EdgesAreSound
        OBVIOUS
    <2>1. OdgType /\ StacksType /\ DepsSound /\ ConnsSound /\ Joined
        BY DEF EngineInv, VisitorInv, GraphInv, Shape, GraphType
    <2>2. Deps \subseteq Edge /\ Conns \subseteq Vertex \X Vertex
        BY <2>1, GraphTypes
    <2>3. ASSUME NEW e \in Deps
          PROVE  /\ e[1] # e[2] /\ e[3] \in Labels(operands[e[1]], operands[e[2]])
                 /\ e[2] < e[1] => <<e[2], e[1], e[3]>> \in Deps
        <3>1. PICK a \in Vertex, b \in Vertex, x \in Label : e = <<a, b, x>>
            BY <2>2, <2>3 DEF Edge
        <3> QED BY <2>1, <2>3, <3>1 DEF DepsSound, LabelsOf
    <2>4. ASSUME NEW c \in Conns PROVE c[1] # c[2] /\ <<c[2], c[1]>> \in Conns
        <3>1. PICK a \in Vertex, b \in Vertex : c = <<a, b>>
            BY <2>2, <2>4
        <3> QED BY <2>1, <2>4, <3>1 DEF ConnsSound
    <2>5. ASSUME NEW e \in Deps PROVE <<e[1], e[2]>> \notin Conns
        <3>1. PICK a \in Vertex, b \in Vertex, x \in Label : e = <<a, b, x>>
            BY <2>2, <2>5 DEF Edge
        <3> QED BY <2>1, <2>5, <3>1 DEF ConnsSound
    <2>6. ASSUME NEW i \in DOMAIN group_patterns, NEW a \in Range(group_patterns[i]),
                 NEW b \in Range(group_patterns[i]), a # b, NEW x \in Labels(operands[a], operands[b])
          PROVE  <<a, b, x>> \in Deps
        <3>1. i \in 1..Len(group_patterns)
            BY <2>1, LenProperties DEF StacksType
        <3> QED BY <2>1, <2>6, <3>1 DEF Joined, Together, LabelsOf, Pattern
    <2>7. ASSUME NEW i \in 2..Len(opt_operands), i <= Len(group_patterns),
                 NEW a \in Range(group_patterns[i - 1]), NEW b \in Range(group_patterns[i]),
                 NEW x \in Labels(operands[a], operands[b])
          PROVE  <<a, b, x>> \in Deps
        BY <2>1, <2>7 DEF Joined, Together, LabelsOf, Pattern
    <2> QED BY <2>3, <2>4, <2>5, <2>6, <2>7 DEF EdgesAreSound, Deps, Conns
<1> QED BY <1>1, EngineInvariance, PTL

\* The visitor finds what it takes from its stacks, and leaves them empty.
THEOREM StacksAreSound == Spec => []StacksAreThere
<1>1. EngineInv => StacksAreThere
    BY StacksAreFound, EndedStacks
       DEF EngineInv, VisitorInv, StageInv, StacksAreThere, groupVars, optVars
<1> QED BY <1>1, EngineInvariance, PTL

\* From when the text is parsed on, as long as nothing is thrown, the calls that
\* are still to be done lead to the triple patterns the text has.
TriplesInv == (stage \in {"parsing", "parsed", "evaluated"} /\ error = "none") =>
                  LeadsToAll(DeclaredPrefixes, request.text.where)

LEMMA TextType ==
    ASSUME request \in Requests
    PROVE  request.text.where \in Group /\ DeclaredPrefixes \in PrefixMaps
<1>1. request.text \in Text
    BY RequestType
<1>2. request.text.where \in Group /\ request.text.prologue.prefixes \in Seq(Declaration)
    BY <1>1 DEF Text
<1> QED BY <1>2, PrefixesRun DEF DeclaredPrefixes

LEMMA TriplesBegin == Init => TriplesInv
BY DEF Init, TriplesInv

LEMMA TriplesGoOn == EngineInv /\ TriplesInv /\ [Next]_vars => TriplesInv'
<1> SUFFICES ASSUME EngineInv, TriplesInv, [Next]_vars,
                    stage' \in {"parsing", "parsed", "evaluated"}, error' = "none"
             PROVE  LeadsToAll(DeclaredPrefixes, request.text.where)'
    BY DEF TriplesInv
<1>0. request' = request
    BY DEF vars, Next, Tool, GiveFile, Load, Loaded, ReadList, parse, Parsing, ParseEnds, Evaluate
<1> DEFINE D == DeclaredPrefixes
           g == request.text.where
<1>1. D' = D /\ g' = g /\ D \in PrefixMaps /\ g \in Group
    BY <1>0, TextType DEF DeclaredPrefixes, EngineInv
<1> HIDE DEF D, g
<1>2. TriplesInv => (stage \in {"parsing", "parsed", "evaluated"} /\ error = "none" => LeadsToAll(D, g))
    BY DEF TriplesInv, D, g
<1>3. CASE parse
    <2>1. PICK text \in Text : text = request.text
        BY RequestType DEF EngineInv
    <2>2. /\ NothingParsed /\ Parse(text)
          /\ UNCHANGED <<nameVars, odgVars, activeVars, groupVars, optVars>>
        BY <1>3, <2>1 DEF parse, EngineInv, StageInv
    <2>3. D = Declared(text.prologue.prefixes) /\ g = text.where
        BY <2>1 DEF D, g, DeclaredPrefixes
    <2>4. LeadsToAll(Declared(text.prologue.prefixes), text.where)'
        BY <2>2, ParseLeadsToAll
    <2>5. LeadsToAll(D, g)'
        BY <1>1, <2>3, <2>4
    <2> QED BY <2>5 DEF D, g
<1>4. CASE Parsing
    <2>1. stage = "parsing" /\ Visit /\ Shape
        BY <1>4 DEF Parsing, EngineInv, VisitorInv
    <2>2. error = "none"
        BY <2>1, VisitCalls DEF Shape, Fits
    <2>3. LeadsToAll(D, g)'
        BY <1>1, <1>2, <2>1, <2>2, VisitLeadsToAll
    <2> QED BY <2>3 DEF D, g
<1>5. CASE UNCHANGED graphVars /\ stage \in {"parsing", "parsed", "evaluated"}
    <2>1. error = "none"
        BY <1>5 DEF graphVars
    <2>2. LeadsToAll(D, g)
        BY <1>2, <1>5, <2>1
    <2>3. LeadsToAll(D, g)'
        BY <1>1, <1>5, <2>2, SameLeadsToAll
    <2> QED BY <2>3 DEF D, g
<1>6. CASE Tool \/ GiveFile \/ Load \/ Loaded \/ ReadList
    BY <1>6 DEF Tool, GiveFile, Load, Loaded, ReadList
<1>7. CASE ParseEnds \/ Evaluate \/ UNCHANGED vars
    BY <1>5, <1>7 DEF ParseEnds, Evaluate, vars
<1> QED BY <1>3, <1>4, <1>6, <1>7 DEF Next

\* Every query has the triple patterns its text says, whatever lists, prefixes,
\* UNIONs and OPTIONAL groups it is made of and however deep they are: each is
\* there as often as there are combinations of branches it belongs to.
THEOREM TriplesAreRight == Spec => []TriplesAreDistributed
<1>1. EngineInv /\ TriplesInv => TriplesAreDistributed
    <2> SUFFICES ASSUME EngineInv, TriplesInv, Parsed PROVE TriplesAreDistributed
        BY DEF TriplesAreDistributed
    <2>1. visits = <<>> /\ error = "none" /\ stage \in {"parsing", "parsed", "evaluated"} /\ GraphType
        BY DEF EngineInv, StageInv, VisitorInv, Shape, Parsed
    <2>2. LeadsToAll(DeclaredPrefixes, request.text.where)
        BY <2>1 DEF TriplesInv
    <2>3. request.text.where \in Group /\ DeclaredPrefixes \in PrefixMaps
        BY TextType DEF EngineInv
    <2>4. SameBag(triple_patterns, AllTriples(DeclaredPrefixes, request.text.where))
        BY <2>1, <2>2, <2>3, LeadsToTriples
    <2> QED BY <2>4 DEF TriplesAreDistributed
<1> QED BY <1>1, TriplesBegin, TriplesGoOn, EngineInvariance, PTL DEF Spec

-----------------------------------------------------------------------------
(* What is rejected.                                                        *)

\* What is asked of a text.
Answerable(D, text) == /\ text.form \in {"select", "ask"} /\ ~text.prologue.base
                       /\ Supported(D, text.where)
Projects(D, text) == \/ text.form = "ask"
                     \/ text.select # All /\ OnlyNames(text)
                     \/ text.select = All /\ HasNamed(AllTriples(D, text.where))

OnCourse(D, text) == /\ Course(SupportedTerms(D), SupportedVerbs(D), text.where)
                     /\ Course(SafeTerms, SafeVerbs, text.where)
                     /\ Clauses(text)
                     /\ text.form \in {"select", "ask"} /\ ~text.prologue.base

LEMMA BeginsOnCourse ==
    ASSUME NothingParsed, NEW CONSTANT text \in Text, Parse(text), Shape', error' = "none",
           UNCHANGED <<nameVars, odgVars, activeVars, groupVars, optVars>>, NEW CONSTANT D
    PROVE  OnCourse(D, text)'
<1>1. Clauses(text)' /\ text.form \in {"select", "ask"} /\ ~text.prologue.base
    BY ParseIs, ParseClauses
<1> DEFINE ST == SupportedTerms(D)
           SV == SupportedVerbs(D)
           FT == SafeTerms
           FV == SafeVerbs
<1> HIDE DEF ST, SV, FT, FV
<1>3. Course(ST, SV, text.where)'
    BY ParseCourse
<1>4. Course(FT, FV, text.where)'
    BY ParseCourse
<1> QED BY <1>1, <1>3, <1>4 DEF OnCourse, ST, SV, FT, FV

LEMMA StaysOnCourse ==
    ASSUME Shape, GraphType', NEW CONSTANT text \in Text, NEW CONSTANT D \in PrefixMaps, LeadsToAll(D, text.where),
           OnCourse(D, text), Visit, error' = "none"
    PROVE  OnCourse(D, text)'
<1> DEFINE ST == SupportedTerms(D)
           SV == SupportedVerbs(D)
           FT == SafeTerms
           FV == SafeVerbs
           g  == text.where
<1>1. g \in Group
    BY DEF Text
<1>2. Course(ST, SV, g) /\ Course(FT, FV, g) /\ Clauses(text) /\ text.form \in {"select", "ask"} /\ ~text.prologue.base
    BY DEF OnCourse
<1>3. Judges(D, ST, SV) /\ Judges(D, FT, FV)
    BY TwoJudges
<1> HIDE DEF ST, SV, FT, FV, g
<1>4. visits # <<>> /\ Head(visits).visit \in Inward => prefixes = D
    BY <1>1, PrefixesAre DEF g
<1>5. /\ visits # <<>> /\ Head(visits).visit \in Inward => Judges(prefixes, ST, SV)
      /\ visits # <<>> /\ Head(visits).visit \in Inward => Judges(prefixes, FT, FV)
    BY <1>3, <1>4
<1>6. Course(ST, SV, g)'
    BY <1>2, <1>5, VisitCourse
<1>7. Course(FT, FV, g)'
    BY <1>2, <1>5, VisitCourse
<1>8. Clauses(text)'
    BY <1>2, VisitClauses
<1> QED BY <1>2, <1>6, <1>7, <1>8 DEF OnCourse, ST, SV, FT, FV, g

\* What a visit rejects.
LEMMA RejectsOnCourse ==
    ASSUME Shape, NEW text \in Text, NEW D \in PrefixMaps, LeadsToAll(D, text.where),
           OnCourse(D, text), Visit, error' # "none"
    PROVE  /\ error' \in {"thrown", "crashed"}
           /\ error' = "thrown" => ~Answerable(D, text) \/ ~Projects(D, text)
           /\ error' = "crashed" => MayEndProcess(text.where)
<1> DEFINE ST == SupportedTerms(D)
           SV == SupportedVerbs(D)
           g  == text.where
           h  == Head(visits)
<1>1. g \in Group
    BY DEF Text
<1>2. Course(ST, SV, g) /\ Course(SafeTerms, SafeVerbs, g) /\ Clauses(text)
    BY DEF OnCourse
<1>3. visits # <<>>
    BY VisitCalls
<1>4. CASE visitTriplesSameSubjectPath \/ visitVerbPath \/ visitObject
    <2>1. /\ h.visit \in Inward /\ Calling(h.visit) /\ error' \in {"thrown", "crashed"}
          /\ h \notin FineCalls(SupportedTerms(prefixes), SupportedVerbs(prefixes))
          /\ error' = "crashed" => h \notin FineCalls(SafeTerms, SafeVerbs)
        BY <1>4, PartThrows
    <2>2. prefixes = D
        BY <1>1, <1>3, <2>1, PrefixesAre
    <2>3. h \notin FineCalls(ST, SV)
        BY <2>1, <2>2
    <2>4. g \notin FineGroups(ST, SV)
        BY <1>2, <2>1, <2>3, NotFine
    <2>5. ~Supported(D, g)
        BY <1>1, <2>4, SupportedIs
    <2>6. ASSUME error' = "crashed" PROVE MayEndProcess(g)
        <3>1. g \notin FineGroups(SafeTerms, SafeVerbs)
            BY <1>2, <2>1, <2>6, NotFine
        <3>2. h.visit \notin Outside
            BY <2>1 DEF Outside, Inward
        <3>3. h \in Range(visits)
            BY <1>3, RangeHead DEF Shape, GraphType, CallsType
        <3>4. ~IsSubquery(g)
            BY <1>2, <3>2, <3>3 DEF Clauses, AskedCalls
        <3> QED BY <1>1, <3>1, <3>4, UnsafeIs
    <2> QED BY <2>1, <2>5, <2>6 DEF Answerable
<1>5. CASE /\ visitSubquery /\ error' = "crashed" /\ Calling("pattern") /\ ~IsSubquery(text.where)
           /\ \A T, V : h \notin FineCalls(T, V)
    <2>1. g \notin FineGroups(SafeTerms, SafeVerbs)
        BY <1>2, <1>5, NotFine
    <2>2. MayEndProcess(g)
        BY <1>1, <1>5, <2>1, UnsafeIs
    <2> QED BY <1>5, <2>2
<1>6. CASE error' = "thrown" /\ IsSubquery(text.where)
    <2>1. g \in Groups[g]
        BY <1>1, GroupsOfGroup
    <2>2. ~Supported(D, g)
        BY <1>6, <2>1 DEF Supported
    <2> QED BY <1>6, <2>2 DEF Answerable
<1>7. CASE /\ error' = "thrown" /\ visitAsterisk /\ Tail(visits) = <<>>
           /\ text.form = "select" /\ text.select = All /\ ~HasNamed(triple_patterns)
    <2>1. h.visit = "select"
        BY <1>7 DEF visitAsterisk, Calling
    <2>2. GraphType
        BY DEF Shape
    <2>3. ~HasNamed(AllTriples(D, g))
        BY <1>1, <1>7, <2>1, <2>2, NamedAre
    <2> QED BY <1>7, <2>3 DEF Projects
<1>8. CASE /\ error' = "thrown" /\ text.form = "select" /\ text.select # All
           /\ \E v \in Range(text.select) : v[1] # "var"
    BY <1>8 DEF Projects, OnlyNames
<1> QED BY <1>1, <1>2, <1>4, <1>5, <1>6, <1>7, <1>8, OtherThrows

\* And what is parsed to the end.
LEMMA EndsOnCourse ==
    ASSUME Shape, NEW text \in Text, NEW D \in PrefixMaps, LeadsToAll(D, text.where),
           OnCourse(D, text), visits = <<>>, error = "none"
    PROVE  Answerable(D, text) /\ Projects(D, text)
<1> DEFINE ST == SupportedTerms(D)
           SV == SupportedVerbs(D)
           g  == text.where
<1>1. g \in Group /\ GraphType
    BY DEF Text, Shape
<1>2. /\ Course(ST, SV, g) /\ Clauses(text)
      /\ text.form \in {"select", "ask"} /\ ~text.prologue.base
    BY DEF OnCourse
<1>3. Range(visits) = {} /\ triples_blocks = <<>> /\ optional_blocks = <<>>
    BY RangeEmpty, EndedStacks
<1>4. g \in FineGroups(ST, SV)
    <2>1. AllFine(ST, SV)
        BY <1>3 DEF AllFine
    <2>2. FineTop(ST, SV)
        BY <1>3, EachInEmpty DEF FineTop
    <2> QED BY <1>2, <2>1, <2>2 DEF Course, Toward
<1>5. Supported(D, g)
    BY <1>1, <1>4, SupportedIs
<1>6. HasNamed(triple_patterns) <=> HasNamed(AllTriples(D, g))
    BY <1>1, NamedAre
<1>7. text.form = "select" /\ text.select # All => OnlyNames(text)
    BY <1>2, <1>3 DEF Clauses
<1>8. text.form = "select" /\ text.select = All => HasNamed(triple_patterns)
    <2>1. 1..Len(visits) = {}
        BY EmptySeq
    <2> QED BY <1>2, <2>1 DEF Clauses
<1> QED BY <1>2, <1>5, <1>6, <1>7, <1>8 DEF Answerable, Projects

-----------------------------------------------------------------------------

\* As long as nothing is thrown, the calls still to be done tell what the text is;
\* if something has been thrown, there was reason.
RejectInv ==
    LET text == request.text
        D    == DeclaredPrefixes
    IN  /\ stage \in {"parsing", "parsed", "evaluated"} /\ error = "none" => OnCourse(D, text)
        /\ stage = "rejected" => error = "thrown"
        /\ stage = "crashed" => error = "crashed"
        /\ error = "thrown" => ~Answerable(D, text) \/ ~Projects(D, text)
        /\ error = "crashed" => MayEndProcess(text.where)
        /\ error \in {"none", "thrown", "crashed"}

LEMMA RejectBegins == Init => RejectInv
BY DEF Init, NothingParsed, RejectInv

LEMMA parseRejects ==
    ASSUME EngineInv, RejectInv, parse
    PROVE  RejectInv'
<1>1. PICK text \in Text : text = request.text
    BY RequestType DEF EngineInv
<1> DEFINE D == Declared(text.prologue.prefixes)
<1>2. /\ NothingParsed /\ Parse(text) /\ request' = request /\ stage' = "parsing"
      /\ UNCHANGED <<nameVars, odgVars, activeVars, groupVars, optVars>>
    BY <1>1 DEF parse, EngineInv, StageInv
<1>3. Shape'
    BY <1>2, ParseShape
<1>4. request.text' = text /\ DeclaredPrefixes' = D
    BY <1>1, <1>2 DEF DeclaredPrefixes
<1> HIDE DEF D
<1>5. CASE error' = "none"
    <2>1. OnCourse(D, text)'
        BY <1>2, <1>3, <1>5, BeginsOnCourse
    <2> QED BY <1>2, <1>4, <1>5, <2>1 DEF RejectInv
<1>6. CASE error' # "none"
    <2>1. error' = "thrown" /\ (text.form \notin {"select", "ask"} \/ text.prologue.base)
        BY <1>2, <1>6 DEF Parse, NothingParsed
    <2>2. ~Answerable(D, text)
        BY <2>1 DEF Answerable
    <2> QED BY <1>2, <1>4, <2>1, <2>2 DEF RejectInv, Answerable, Projects
<1> QED BY <1>5, <1>6

LEMMA ParsingRejects ==
    ASSUME EngineInv, EngineInv', TriplesInv, RejectInv, Parsing
    PROVE  RejectInv'
<1>1. PICK text \in Text : text = request.text
    BY RequestType DEF EngineInv
<1> DEFINE D == Declared(text.prologue.prefixes)
<1>2. /\ stage = "parsing" /\ Visit /\ Shape /\ GraphType' /\ request' = request /\ stage' = "parsing"
    BY DEF Parsing, EngineInv, VisitorInv, Shape
<1>3. error = "none"
    BY <1>2, VisitCalls DEF Shape, Fits
<1>4. /\ request.text' = text /\ DeclaredPrefixes' = D /\ DeclaredPrefixes = D /\ D \in PrefixMaps
    BY <1>1, <1>2, TextType DEF DeclaredPrefixes, EngineInv
<1> HIDE DEF D
<1>5. LeadsToAll(D, text.where) /\ OnCourse(D, text)
    BY <1>1, <1>2, <1>3, <1>4 DEF TriplesInv, RejectInv
<1>6. CASE error' = "none"
    <2>1. OnCourse(D, text)'
        BY <1>2, <1>4, <1>5, <1>6, StaysOnCourse
    <2> QED BY <1>2, <1>4, <1>6, <2>1 DEF RejectInv
<1>7. CASE error' # "none"
    <2>1. /\ error' \in {"thrown", "crashed"}
          /\ error' = "thrown" => ~Answerable(D, text) \/ ~Projects(D, text)
          /\ error' = "crashed" => MayEndProcess(text.where)
        BY <1>2, <1>4, <1>5, <1>7, RejectsOnCourse
    <2>2. Answerable(D, text)' = Answerable(D, text) /\ Projects(D, text)' = Projects(D, text)
        BY DEF Answerable, Projects
    <2> QED BY <1>2, <1>4, <1>7, <2>1, <2>2 DEF RejectInv
<1> QED BY <1>6, <1>7

\* Where the visitor does nothing.
LEMMA SameCourse ==
    ASSUME UNCHANGED graphVars, NEW CONSTANT text, NEW CONSTANT D, OnCourse(D, text)
    PROVE  OnCourse(D, text)'
<1>1. visits' = visits /\ triples_blocks' = triples_blocks /\ optional_blocks' = optional_blocks
      /\ triple_patterns' = triple_patterns
    BY DEF graphVars, odgVars, groupVars
<1> USE <1>1 DEF OnCourse, Course
<1>2. ASSUME NEW CONSTANT T, NEW CONSTANT V, Course(T, V, text.where)
      PROVE  Course(T, V, text.where)'
    <2>1. Follows(visits)'
        BY <1>2 DEF Follows
    <2>2. (AllFine(T, V)' <=> AllFine(T, V)) /\ (FineLevels(T, V)' <=> FineLevels(T, V))
          /\ (FineTop(T, V)' <=> FineTop(T, V))
          /\ (TopIn(triples_blocks, FineBlocks(T, V))' <=> TopIn(triples_blocks, FineBlocks(T, V)))
        BY DEF AllFine, FineLevels, FineTop
    <2> QED BY <1>2, <2>1, <2>2 DEF Toward
<1>3. Clauses(text)'
    BY DEF Clauses, SelectIsLast
<1> QED BY <1>2, <1>3

LEMMA RejectGoesOn == EngineInv /\ EngineInv' /\ TriplesInv /\ RejectInv /\ [Next]_vars => RejectInv'
<1> SUFFICES ASSUME EngineInv, EngineInv', TriplesInv, RejectInv, [Next]_vars PROVE RejectInv'
    OBVIOUS
<1>1. PICK text \in Text : text = request.text
    BY RequestType DEF EngineInv
<1> DEFINE D == Declared(text.prologue.prefixes)
<1>2. request' = request
    BY DEF vars, Next, Tool, GiveFile, Load, Loaded, ReadList, parse, Parsing, ParseEnds, Evaluate
<1>3. request.text' = text /\ DeclaredPrefixes' = D /\ DeclaredPrefixes = D
    BY <1>1, <1>2 DEF DeclaredPrefixes
<1> HIDE DEF D
<1>4. CASE ~parse /\ ~Parsing
    <2>0. UNCHANGED graphVars
        BY <1>4 DEF Next, vars, Tool, GiveFile, Load, Loaded, ReadList, ParseEnds, Evaluate
    <2>1. error' = error
        BY <2>0 DEF graphVars
    <2>2. OnCourse(D, text) => OnCourse(D, text)'
        BY <2>0, SameCourse
    <2>3. Answerable(D, text)' = Answerable(D, text) /\ Projects(D, text)' = Projects(D, text)
        BY DEF Answerable, Projects
    <2>4. /\ stage' \in {"parsing", "parsed", "evaluated"} /\ error' = "none" => OnCourse(D, text)
          /\ stage' = "rejected" => error = "thrown"
          /\ stage' = "crashed" => error = "crashed"
        <3>1. CASE ParseEnds
            <4>1. /\ stage = "parsing"
                  /\ stage' = CASE error = "none" -> "parsed" [] error = "thrown" -> "rejected" [] OTHER -> "crashed"
                BY <3>1 DEF ParseEnds
            <4>2. error \in {"none", "thrown", "crashed"} /\ (error = "none" => OnCourse(D, text))
                BY <1>1, <1>3, <4>1 DEF RejectInv
            <4>3. stage' = IF error = "none" THEN "parsed" ELSE IF error = "thrown" THEN "rejected" ELSE "crashed"
                BY <4>1, <4>2
            <4> QED BY <2>1, <4>2, <4>3
        <3>2. CASE Evaluate
            BY <1>1, <1>3, <2>1, <3>2 DEF Evaluate, RejectInv
        <3>3. CASE Tool \/ GiveFile \/ Load \/ Loaded \/ ReadList
            BY <3>3 DEF Tool, GiveFile, Load, Loaded, ReadList
        <3>4. CASE UNCHANGED vars
            BY <1>1, <1>3, <2>1, <3>4 DEF vars, RejectInv
        <3> QED BY <1>4, <3>1, <3>2, <3>3, <3>4 DEF Next
    <2> QED BY <1>1, <1>2, <1>3, <2>1, <2>2, <2>3, <2>4 DEF RejectInv
<1>5. CASE parse
    BY <1>5, parseRejects
<1>6. CASE Parsing
    BY <1>6, ParsingRejects
<1> QED BY <1>4, <1>5, <1>6

\* A text is parsed to the end only if it is supported and there is something to
\* project, with empty stacks; it is rejected only if it is not, and the process
\* ends only where the grammar leaves a null pointer (SelectAskQueryVisitor).
THEOREM RejectionsAreRight == Spec => []RejectsRightly
<1>1. EngineInv /\ TriplesInv /\ RejectInv => RejectsRightly
    <2> SUFFICES ASSUME EngineInv, TriplesInv, RejectInv PROVE RejectsRightly
        OBVIOUS
    <2>1. PICK text \in Text : text = request.text
        BY RequestType DEF EngineInv
    <2> DEFINE D == Declared(text.prologue.prefixes)
    <2>2. D \in PrefixMaps /\ DeclaredPrefixes = D
        BY <2>1, TextType DEF DeclaredPrefixes, EngineInv
    <2> HIDE DEF D
    <2>3. ASSUME Parsed
          PROVE  /\ Answerable(D, text) /\ Projects(D, text)
                 /\ {group_patterns, opt_operands, union_operands, triples_blocks, optional_blocks} = {<<>>}
        <3>1. visits = <<>> /\ error = "none" /\ stage \in {"parsing", "parsed", "evaluated"} /\ Shape
            BY <2>3 DEF EngineInv, StageInv, VisitorInv, Parsed
        <3>2. LeadsToAll(D, text.where) /\ OnCourse(D, text)
            BY <2>1, <2>2, <3>1 DEF TriplesInv, RejectInv
        <3>3. Answerable(D, text) /\ Projects(D, text)
            BY <2>2, <3>1, <3>2, EndsOnCourse
        <3>4. /\ group_patterns = <<>> /\ triples_blocks = <<>> /\ optional_blocks = <<>>
              /\ opt_operands = <<>> /\ union_operands = <<>>
            BY <3>1, EndedStacks
        <3> QED BY <3>3, <3>4
    <2>4. /\ stage = "rejected" => ~Answerable(D, text) \/ ~Projects(D, text)
          /\ stage = "crashed" => MayEndProcess(text.where)
        BY <2>1, <2>2 DEF RejectInv
    <2> QED BY <2>1, <2>2, <2>3, <2>4 DEF RejectsRightly, Answerable, Projects, OnlyNames, HasNamed
<1> QED BY <1>1, TriplesBegin, TriplesGoOn, RejectBegins, RejectGoesOn, EngineInvariance, PTL DEF Spec

\* And of the store and the tools, in their place among the rest.
THEOREM EngineLoadsAndReads == Spec => [](LoadsTheFile /\ WritesWhatItReads)
<1>1. EngineInv => LoadsTheFile /\ WritesWhatItReads
    BY StoreInvLoads, ToolInvWrites DEF EngineInv
<1> QED BY <1>1, EngineInvariance, PTL
-----------------------------------------------------------------------------
(* Solutions.                                                               *)

\* What a triple pattern becomes when its variables stand for nodes.
Instance(tp, m) == [k \in 1..3 |-> IF IsVar(tp[k]) THEN m[tp[k]] ELSE tp[k]]

\* The places a key leaves open are those of the variables.
LEMMA FreePlaces ==
    ASSUME NEW tp \in TriplePattern
    PROVE  /\ Free(get_slice_key(tp)) = VarPlaces(tp)
           /\ \A i \in 1..3 : get_slice_key(tp)[i] = Nullopt <=> IsVar(tp[i])
           /\ \A i \in 1..3 : ~IsVar(tp[i]) => get_slice_key(tp)[i] = tp[i]
<1> DEFINE key == get_slice_key(tp)
           T == {i \in 1..3 : IsVar(tp[i])}
           s == <<1, 2, 3>>
<1>1. \A i \in 1..3 : key[i] = IF IsVar(tp[i]) THEN Nullopt ELSE tp[i]
    BY DEF get_slice_key
<1>2. \A i \in 1..3 : tp[i] \in Node
    BY DEF TriplePattern
<1>3. Nullopt \notin Node
    BY DEF Nullopt, Node, NoNode
<1>4. \A i \in 1..3 : key[i] = Nullopt <=> IsVar(tp[i])
    BY <1>1, <1>2, <1>3
<1> HIDE DEF key
<1>5. DOMAIN s = 1..3 /\ \A i \in 1..3 : s[i] = i
    OBVIOUS
<1> HIDE DEF s
<1>6. \A i \in 1..3 : i \in T <=> key[i] = Nullopt
    BY <1>4
<1> HIDE DEF T
<1>7. [i \in 1..3 |-> IF key[i] = Nullopt THEN <<i>> ELSE <<>>]
      = [i \in DOMAIN s |-> IF s[i] \in T THEN <<s[i]>> ELSE <<>>]
    BY <1>5, <1>6
<1>8. Free(key) = Within(s, T)
    BY <1>7 DEF Free, Within
<1> QED BY <1>1, <1>4, <1>8 DEF VarPlaces, T, key, s

\* The places of the variables.
LEMMA PlacesRange ==
    ASSUME NEW tp \in TriplePattern
    PROVE  /\ VarPlaces(tp) \in Seq(1..3)
           /\ \A i \in 1..3 : IsVar(tp[i]) <=> \E k \in DOMAIN VarPlaces(tp) : i = VarPlaces(tp)[k]
           /\ DOMAIN Variables(tp) = DOMAIN VarPlaces(tp)
           /\ \A k \in DOMAIN VarPlaces(tp) : /\ VarPlaces(tp)[k] \in 1..3
                                              /\ Variables(tp)[k] = tp[VarPlaces(tp)[k]]
<1> DEFINE s == <<1, 2, 3>>
           T == {i \in 1..3 : IsVar(tp[i])}
           w == VarPlaces(tp)
<1>1. s \in Seq(1..3) /\ Range(s) = 1..3
    <2>1. s \in Seq(1..3)
        OBVIOUS
    <2>2. Range(s) = {s[1], s[2], s[3]}
        BY DEF Range
    <2> QED BY <2>1, <2>2
<1>2. w = Within(s, T)
    BY DEF VarPlaces
<1> HIDE DEF s, w
<1>3. w \in Seq(1..3 \cap T) /\ Range(w) = 1..3 \cap T
    BY <1>1, <1>2, WithinProperties
<1>4. /\ DOMAIN w = 1..Len(w) /\ \A k \in DOMAIN w : w[k] \in T
      /\ Range(w) = {w[k] : k \in DOMAIN w}
    BY <1>3, LenProperties, RangeEquality
<1>5. w \in Seq(1..3)
    BY <1>3, SeqMonotonic
<1> QED BY <1>3, <1>4, <1>5 DEF Variables, w

\* A triple is what it has in its three places.
LEMMA TripleIs ==
    ASSUME NEW t \in Triples
    PROVE  t = [i \in 1..3 |-> t[i]]
BY FileAssumption

\* A slice has the entry for nodes in place of the variables exactly if the triple
\* is in the tensor.
LEMMA SliceEntry ==
    ASSUME tensor \subseteq Triples, NEW tp \in TriplePattern, NEW m
    PROVE  [k \in DOMAIN Variables(tp) |-> m[Variables(tp)[k]]] \in Slice(get_slice_key(tp))
               <=> Instance(tp, m) \in tensor
<1> DEFINE key == get_slice_key(tp)
           w == VarPlaces(tp)
           e == [k \in DOMAIN w |-> m[tp[w[k]]]]
           r == Instance(tp, m)
           entry(t) == [k \in DOMAIN w |-> t[w[k]]]
<1>1. [k \in DOMAIN Variables(tp) |-> m[Variables(tp)[k]]] = e
    BY PlacesRange
<1>2. Slice(key) = {entry(t) : t \in {u \in tensor : \A i \in 1..3 : key[i] \in {Nullopt, u[i]}}}
    BY FreePlaces DEF Slice
<1>3. r = [i \in 1..3 |-> r[i]] /\ \A i \in 1..3 : r[i] = IF IsVar(tp[i]) THEN m[tp[i]] ELSE tp[i]
    BY DEF Instance
<1>4. /\ \A i \in 1..3 : key[i] = Nullopt <=> IsVar(tp[i])
      /\ \A i \in 1..3 : ~IsVar(tp[i]) => key[i] = tp[i]
    BY FreePlaces
<1>5. /\ \A i \in 1..3 : IsVar(tp[i]) <=> \E k \in DOMAIN w : i = w[k]
      /\ \A k \in DOMAIN w : w[k] \in 1..3
    BY PlacesRange
<1> HIDE DEF key, w, r
<1>6. ASSUME r \in tensor PROVE e \in Slice(key)
    <2>1. \A i \in 1..3 : key[i] \in {Nullopt, r[i]}
        BY <1>3, <1>4
    <2>2. entry(r) = e
        BY <1>3, <1>5
    <2> QED BY <1>2, <1>6, <2>1, <2>2
<1>7. ASSUME e \in Slice(key) PROVE r \in tensor
    <2>1. PICK t \in tensor : (\A i \in 1..3 : key[i] \in {Nullopt, t[i]}) /\ e = entry(t)
        BY <1>2, <1>7
    <2>2. \A k \in DOMAIN w : m[tp[w[k]]] = t[w[k]]
        <3> SUFFICES ASSUME NEW k \in DOMAIN w PROVE m[tp[w[k]]] = t[w[k]]
            OBVIOUS
        <3>1. e[k] = entry(t)[k]
            BY <2>1
        <3> QED BY <3>1
    <2>3. \A i \in 1..3 : r[i] = t[i]
        <3> SUFFICES ASSUME NEW i \in 1..3 PROVE r[i] = t[i]
            OBVIOUS
        <3>1. CASE IsVar(tp[i])
            BY <1>3, <1>5, <2>2, <3>1
        <3>2. CASE ~IsVar(tp[i])
            BY <1>3, <1>4, <2>1, <3>2
        <3> QED BY <3>1, <3>2
    <2>4. r = t
        BY <1>3, <2>3, TripleIs
    <2> QED BY <2>4
<1> QED BY <1>1, <1>6, <1>7 DEF key, r

Id(v)  == IdOf(var_to_id, v)
Names  == UNION {Range(Variables(triple_patterns[i])) : i \in DOMAIN triple_patterns}
Used   == UNION {Range(operands[i]) : i \in DOMAIN operands}

\* The nodes for variables that make triples of the tensor of all triple patterns.
Solutions == {m \in [Names -> NodesOf(tensor)] :
                  \A i \in DOMAIN triple_patterns : Instance(triple_patterns[i], m) \in tensor}

\* What the evaluation finds, by IDs, and what it stands for.
Found    == Joins(generate_operands)
Named(a) == [v \in Names |-> a[Id(v)]]

\* A query with operands in step with its triple patterns, and letters enough.
Lettered == /\ triple_patterns \in Seq(TriplePattern)
            /\ DOMAIN operands = DOMAIN triple_patterns
            /\ \A i \in DOMAIN operands : operands[i] = Ids(var_to_id, triple_patterns[i])
            /\ \A v, w \in Names \cup Range(projected_variables) : Id(v) = Id(w) => v = w
            /\ tensor \subseteq Triples

LEMMA PatternAt ==
    ASSUME Lettered, NEW i \in DOMAIN triple_patterns
    PROVE  /\ triple_patterns[i] \in TriplePattern
           /\ DOMAIN operands[i] = DOMAIN Variables(triple_patterns[i])
           /\ \A k \in DOMAIN operands[i] : /\ Variables(triple_patterns[i])[k] \in Names
                                            /\ operands[i][k] = Id(Variables(triple_patterns[i])[k])
                                            /\ operands[i][k] \in Used
           /\ Range(operands[i]) = {Id(v) : v \in Range(Variables(triple_patterns[i]))}
<1> DEFINE tp == triple_patterns[i]
           vs == Variables(tp)
<1>1. tp \in TriplePattern
    BY ElementOfSeq, LenProperties DEF Lettered
<1>2. operands[i] = [k \in DOMAIN vs |-> Id(vs[k])]
    BY DEF Lettered, Ids, Id
<1>3. \A v \in Range(vs) : v \in Names
    BY DEF Names
<1>4. \A x \in Range(operands[i]) : x \in Used
    BY DEF Used, Lettered
<1> HIDE DEF tp
<1> HIDE DEF vs
<1>5. \A k \in DOMAIN vs : vs[k] \in Range(vs)
    BY DEF Range
<1>6. DOMAIN operands[i] = DOMAIN vs /\ \A k \in DOMAIN vs : operands[i][k] = Id(vs[k])
    BY <1>2
<1>7. Range(operands[i]) = {operands[i][k] : k \in DOMAIN vs} /\ Range(vs) = {vs[k] : k \in DOMAIN vs}
    BY <1>6 DEF Range
<1>8. \A k \in DOMAIN vs : operands[i][k] \in Range(operands[i])
    BY <1>7
<1>9. Range(operands[i]) = {Id(v) : v \in Range(vs)}
    BY <1>6, <1>7
<1> QED BY <1>1, <1>3, <1>4, <1>5, <1>6, <1>8, <1>9 DEF tp, vs

\* The IDs in use are those of the names.
LEMMA UsedAre == ASSUME Lettered PROVE Used = {Id(v) : v \in Names}
<1> DEFINE D == DOMAIN triple_patterns
           F(i) == Range(Variables(triple_patterns[i]))
           G(i) == Range(operands[i])
<1>1. \A i \in D : G(i) = {Id(v) : v \in F(i)}
    BY PatternAt
<1>2. Used = UNION {G(i) : i \in D} /\ Names = UNION {F(i) : i \in D}
    BY DEF Used, Names, Lettered
<1> HIDE DEF D, F, G
<1>3. ASSUME NEW u PROVE u \in UNION {G(i) : i \in D} <=> \E i \in D : \E v \in F(i) : u = Id(v)
    BY <1>1
<1>4. ASSUME NEW u PROVE u \in {Id(v) : v \in UNION {F(i) : i \in D}} <=> \E i \in D : \E v \in F(i) : u = Id(v)
    OBVIOUS
<1>5. UNION {G(i) : i \in D} = {Id(v) : v \in UNION {F(i) : i \in D}}
    BY <1>3, <1>4
<1> QED BY <1>2, <1>5

\* The evaluation finds an assignment to the IDs exactly if it is a solution by
\* names.
LEMMA FoundIsSolution ==
    ASSUME Lettered, NEW a \in [Used -> NodesOf(tensor)]
    PROVE  Named(a) \in [Names -> NodesOf(tensor)] /\ (a \in Found <=> Named(a) \in Solutions)
<1> DEFINE m == Named(a)
<1>1. /\ m = [v \in Names |-> a[Id(v)]]
      /\ \A v \in Names : m[v] = a[Id(v)]
    BY DEF Named
<1>2. m \in [Names -> NodesOf(tensor)]
    BY <1>1, UsedAre
<1> HIDE DEF m
<1>3. DOMAIN generate_operands = DOMAIN triple_patterns
    BY DEF generate_operands
<1>4. ASSUME NEW i \in DOMAIN triple_patterns
      PROVE  [k \in DOMAIN operands[i] |-> a[operands[i][k]]] \in generate_operands[i]
                 <=> Instance(triple_patterns[i], m) \in tensor
    <2> DEFINE tp == triple_patterns[i]
               vs == Variables(tp)
    <2>1. tp \in TriplePattern /\ tensor \subseteq Triples
        BY PatternAt DEF Lettered
    <2>2. [k \in DOMAIN operands[i] |-> a[operands[i][k]]] = [k \in DOMAIN vs |-> m[vs[k]]]
        BY <1>1, PatternAt
    <2>3. generate_operands[i] = Slice(get_slice_key(tp))
        BY DEF generate_operands
    <2> HIDE DEF tp
    <2>4. [k \in DOMAIN vs |-> m[vs[k]]] \in Slice(get_slice_key(tp)) <=> Instance(tp, m) \in tensor
        BY <2>1, SliceEntry
    <2> QED BY <2>2, <2>3, <2>4 DEF tp
<1>5. a \in Found <=> \A i \in DOMAIN triple_patterns :
                          [k \in DOMAIN operands[i] |-> a[operands[i][k]]] \in generate_operands[i]
    BY <1>3 DEF Found, Joins, Used
<1>6. m \in Solutions <=> \A i \in DOMAIN triple_patterns : Instance(triple_patterns[i], m) \in tensor
    BY <1>2 DEF Solutions
<1> QED BY <1>2, <1>4, <1>5, <1>6 DEF m

\* So they are the same but for the names.
LEMMA FoundAndSolutions ==
    ASSUME Lettered
    PROVE  [a \in Found |-> Named(a)] \in Bijection(Found, Solutions)
<1> DEFINE f == [a \in Found |-> Named(a)]
<1>1. Found \subseteq [Used -> NodesOf(tensor)]
    BY DEF Found, Joins, Used
<1>2. \A a \in Found : Named(a) \in Solutions
    BY <1>1, FoundIsSolution
<1>3. ASSUME NEW a \in Found, NEW b \in Found, Named(a) = Named(b) PROVE a = b
    <2>1. \A v \in Names : a[Id(v)] = b[Id(v)]
        <3> SUFFICES ASSUME NEW v \in Names PROVE a[Id(v)] = b[Id(v)]
            OBVIOUS
        <3>1. Named(a)[v] = a[Id(v)] /\ Named(b)[v] = b[Id(v)]
            BY DEF Named
        <3> QED BY <1>3, <3>1
    <2>2. \A u \in Used : a[u] = b[u]
        BY <2>1, UsedAre
    <2>3. a \in [Used -> NodesOf(tensor)] /\ b \in [Used -> NodesOf(tensor)]
        BY <1>1
    <2> QED BY <2>2, <2>3
<1>4. ASSUME NEW m \in Solutions PROVE \E a \in Found : Named(a) = m
    <2> DEFINE name(u) == CHOOSE v \in Names : Id(v) = u
               a == [u \in Used |-> m[name(u)]]
    <2>1. m \in [Names -> NodesOf(tensor)]
        BY DEF Solutions
    <2>2. \A v \in Names : Id(v) \in Used /\ name(Id(v)) = v
        BY UsedAre DEF Lettered
    <2>3. \A u \in Used : name(u) \in Names
        BY UsedAre
    <2> HIDE DEF name
    <2>4. a \in [Used -> NodesOf(tensor)]
        BY <2>1, <2>3
    <2>5. \A v \in Names : a[Id(v)] = m[v]
        BY <2>2
    <2> HIDE DEF a
    <2>6. Named(a) = m
        BY <2>1, <2>5 DEF Named
    <2> QED BY <2>4, <2>6, FoundIsSolution
<1>5. \A a \in Found : f[a] = Named(a)
    OBVIOUS
<1>6. f \in [Found -> Solutions]
    BY <1>2
<1> HIDE DEF f
<1>7. f \in Injection(Found, Solutions)
    BY <1>3, <1>5, <1>6 DEF Injection, IsInjective
<1>8. f \in Surjection(Found, Solutions)
    BY <1>4, <1>5, <1>6 DEF Surjection
<1> QED BY <1>7, <1>8 DEF Bijection, f

\* The function that MapThenSumSet reads the sum from.
Adds(f, S) ==
    f = [s \in SUBSET S |-> IF s = {} THEN 0
                            ELSE LET x == CHOOSE y \in s : TRUE IN x.value + f[s \ {x}]]

LEMMA SumIs == ASSUME NEW S PROVE Sum_(S) = (CHOOSE f : Adds(f, S))[S]
BY DEF Sum_, MapThenSumSet, MapThenFoldSet, Adds

\* A measure of sets that grows by the value of what is added is that sum.
LEMMA SumIsMeasure ==
    ASSUME NEW S, IsFiniteSet(S), NEW M \in [SUBSET S -> Int], M[{}] = 0,
           \A s \in SUBSET S : \A x \in s : M[s] = x.value + M[s \ {x}]
    PROVE  Sum_(S) = M[S]
<1>1. Adds(M, S)
    <2>1. ASSUME NEW s \in SUBSET S
          PROVE  M[s] = IF s = {} THEN 0
                        ELSE LET x == CHOOSE y \in s : TRUE IN x.value + M[s \ {x}]
        OBVIOUS
    <2> QED BY <2>1 DEF Adds
<1> DEFINE f == CHOOSE g : Adds(g, S)
           P == {n \in Nat : \A s \in SUBSET S : Cardinality(s) = n => f[s] = M[s]}
<1>2. Adds(f, S)
    BY <1>1
<1>3. \A s \in SUBSET S : f[s] = IF s = {} THEN 0
                                 ELSE LET x == CHOOSE y \in s : TRUE IN x.value + f[s \ {x}]
    <2> HIDE DEF f
    <2> QED BY <1>2 DEF Adds
<1> HIDE DEF f
<1>4. \A s \in SUBSET S : IsFiniteSet(s)
    BY FS_Subset
<1>5. 0 \in P
    BY <1>3, <1>4, FS_EmptySet
<1>6. ASSUME NEW n \in Nat, n \in P PROVE n + 1 \in P
    <2> SUFFICES ASSUME NEW s \in SUBSET S, Cardinality(s) = n + 1 PROVE f[s] = M[s]
        OBVIOUS
    <2> DEFINE x == CHOOSE y \in s : TRUE
    <2>0. IsFiniteSet(s)
        BY <1>4
    <2>1. s # {}
        <3>1. Cardinality(s) # 0
            OBVIOUS
        <3> QED BY <3>1, FS_EmptySet
    <2>2. x \in s
        BY <2>1
    <2> HIDE DEF x
    <2>3. Cardinality(s \ {x}) = n
        <3>1. Cardinality(s \ {x}) = Cardinality(s) - 1
            BY <2>0, <2>2, FS_RemoveElement
        <3> QED BY <3>1
    <2>4. f[s \ {x}] = M[s \ {x}] /\ M[s] = x.value + M[s \ {x}]
        BY <2>2, <2>3, <1>6
    <2>5. f[s] = x.value + f[s \ {x}]
        BY <2>1, <1>3 DEF x
    <2> QED BY <2>4, <2>5
<1>7. Nat \subseteq P
    <2> HIDE DEF P
    <2> QED BY <1>5, <1>6, SetInduction
<1>8. Cardinality(S) \in Nat
    BY FS_CardinalityType
<1>9. f[S] = M[S]
    BY <1>7, <1>8
<1> QED BY <1>9, SumIs DEF f

\* There are finitely many functions between finite sets.
LEMMA FunctionsFinite ==
    ASSUME NEW S, NEW T, IsFiniteSet(S), IsFiniteSet(T)
    PROVE  IsFiniteSet([S -> T])
<1> DEFINE graph == [f \in [S -> T] |-> {<<x, f[x]>> : x \in S}]
<1>1. IsFiniteSet(SUBSET (S \X T))
    BY FS_Product, FS_SUBSET
<1>2. graph \in [[S -> T] -> SUBSET (S \X T)]
    OBVIOUS
<1>3. ASSUME NEW f \in [S -> T], NEW g \in [S -> T], graph[f] = graph[g] PROVE f = g
    <2>1. ASSUME NEW x \in S PROVE f[x] = g[x]
        <3>1. <<x, f[x]>> \in graph[g]
            BY <1>3
        <3> QED BY <3>1
    <2> QED BY <2>1
<1> HIDE DEF graph
<1>4. graph \in Injection([S -> T], SUBSET (S \X T))
    BY <1>2, <1>3 DEF Injection, IsInjective
<1> QED BY <1>1, <1>4, FS_Injection


LEMMA FoundFinite ==
    ASSUME Lettered, IsFiniteSet(tensor)
    PROVE  IsFiniteSet(Found) /\ IsFiniteSet(Solutions) /\ Cardinality(Found) = Cardinality(Solutions)
<1> DEFINE N == NodesOf(tensor)
<1>1. IsFiniteSet(N)
    <2> DEFINE nodes == [t \in tensor |-> Range(t)]
               S == {Range(t) : t \in tensor}
    <2>1. nodes \in Surjection(tensor, S)
        BY DEF Surjection
    <2>2. IsFiniteSet(S)
        BY <2>1, FS_Surjection
    <2>3. ASSUME NEW t \in tensor PROVE IsFiniteSet(Range(t))
        <3>1. t = [i \in 1..3 |-> t[i]]
            BY TripleIs DEF Lettered
        <3>2. t \in Surjection(1..3, Range(t))
            BY <3>1 DEF Surjection, Range
        <3>3. IsFiniteSet(1..3)
            <4>1. 1 \in Int /\ 3 \in Int
                OBVIOUS
            <4> QED BY ONLY <4>1, FS_Interval
        <3> QED BY <3>2, <3>3, FS_Surjection
    <2> QED BY <2>2, <2>3, FS_UNION DEF NodesOf
<1> HIDE DEF N
<1>2. IsFiniteSet(Used)
    <2> DEFINE ids == [i \in DOMAIN operands |-> Range(operands[i])]
               S == {Range(operands[i]) : i \in DOMAIN operands}
    <2>1. IsFiniteSet(DOMAIN operands)
        <3>1. DOMAIN operands = 1..Len(triple_patterns) /\ Len(triple_patterns) \in Nat
            BY LenProperties DEF Lettered
        <3> QED BY <3>1, FS_Interval
    <2>2. ids \in Surjection(DOMAIN operands, S)
        BY DEF Surjection
    <2>3. IsFiniteSet(S)
        BY <2>1, <2>2, FS_Surjection
    <2>4. ASSUME NEW i \in DOMAIN operands PROVE IsFiniteSet(Range(operands[i]))
        <3>1. triple_patterns[i] \in TriplePattern /\ operands[i] = Ids(var_to_id, triple_patterns[i])
            BY PatternAt DEF Lettered
        <3>2. operands[i] = [k \in DOMAIN Variables(triple_patterns[i]) |-> operands[i][k]]
            BY <3>1 DEF Ids
        <3>3. DOMAIN Variables(triple_patterns[i]) = 1..Len(Variables(triple_patterns[i]))
              /\ Len(Variables(triple_patterns[i])) \in Nat
            BY <3>1, VariablesRange, LenProperties
        <3>4. operands[i] \in Surjection(DOMAIN Variables(triple_patterns[i]), Range(operands[i]))
            BY <3>2 DEF Surjection, Range
        <3> QED BY <3>3, <3>4, FS_Interval, FS_Surjection
    <2> QED BY <2>3, <2>4, FS_UNION DEF Used
<1>3. IsFiniteSet([Used -> N])
    BY <1>1, <1>2, FunctionsFinite
<1>4. Found \subseteq [Used -> N]
    BY DEF Found, Joins, Used, N
<1>5. IsFiniteSet(Found)
    BY <1>3, <1>4, FS_Subset
<1>6. ExistsBijection(Found, Solutions)
    BY FoundAndSolutions DEF ExistsBijection
<1> QED BY <1>5, <1>6, FS_Bijection

\* What is projected of a solution.
Projected(m) == [i \in DOMAIN projected_variables |->
                    IF projected_variables[i] \in DOMAIN m THEN m[projected_variables[i]] ELSE Unbound]

LEMMA SameProjection ==
    ASSUME Lettered, NEW a \in Found
    PROVE  Projection(a) = Projected(Named(a))
<1>1. DOMAIN a = Used /\ Used = {Id(v) : v \in Names}
    BY UsedAre DEF Found, Joins, Used
<1>2. DOMAIN Named(a) = Names /\ \A v \in Names : Named(a)[v] = a[Id(v)]
    BY DEF Named
<1>3. ASSUME NEW i \in DOMAIN projected_variables
      PROVE  /\ projected_variables[i] \in Names <=> Id(projected_variables[i]) \in Used
    <2>1. projected_variables[i] \in Range(projected_variables)
        BY DEF Range
    <2> QED BY <1>1, <2>1 DEF Lettered
<1> QED BY <1>1, <1>2, <1>3 DEF Projection, Projected, Id

Keys == {Projection(a) : a \in Found}

\* The assignments of one projection, and the entry for them.
Fibre(k) == {a \in Found : Projection(a) = k}
Entry(k) == [key |-> k, value |-> IF request.text.distinct THEN 1 ELSE Cardinality(Fibre(k))]

LEMMA SelectEntries ==
    /\ eval_select = {Entry(k) : k \in Keys}
    /\ \A k : Entry(k).key = k
    /\ {e.key : e \in eval_select} = Keys
<1>1. eval_select = {Entry(k) : k \in Keys}
    BY DEF eval_select, Found, Keys, Entry, Fibre
<1>2. \A k : Entry(k).key = k
    BY DEF Entry
<1> QED BY <1>1, <1>2

\* What is projected of all solutions.
LEMMA SelectedKeys ==
    ASSUME Lettered
    PROVE  /\ {e.key : e \in eval_select} = {Projection(a) : a \in Found}
           /\ {Projection(a) : a \in Found} = {Projected(m) : m \in Solutions}
<1>1. {e.key : e \in eval_select} = {Projection(a) : a \in Found}
    BY SelectEntries DEF Keys
<1> DEFINE f == [a \in Found |-> Named(a)]
<1>2. f \in Bijection(Found, Solutions)
    BY FoundAndSolutions
<1>3. /\ \A a \in Found : f[a] = Named(a) /\ f[a] \in Solutions
      /\ \A m \in Solutions : \E a \in Found : f[a] = m
    BY <1>2 DEF Bijection, Injection, Surjection
<1>4. \A a \in Found : Projection(a) = Projected(Named(a))
    BY SameProjection
<1>5. {Projection(a) : a \in Found} = {Projected(m) : m \in Solutions}
    BY <1>3, <1>4
<1> QED BY <1>1, <1>5

LEMMA SelectFinite ==
    ASSUME IsFiniteSet(Found)
    PROVE  IsFiniteSet(eval_select) /\ Cardinality(eval_select) = Cardinality({e.key : e \in eval_select})
<1> DEFINE p == [a \in Found |-> Projection(a)]
           f == [k \in Keys |-> Entry(k)]
<1>1. p \in Surjection(Found, Keys)
    BY DEF Surjection, Keys
<1>2. IsFiniteSet(Keys)
    BY <1>1, FS_Surjection
<1>3. f \in Bijection(Keys, eval_select)
    <2>1. f \in [Keys -> eval_select]
        BY SelectEntries
    <2>2. \A k \in Keys : f[k] = Entry(k) /\ f[k].key = k
        BY SelectEntries
    <2>3. \A e \in eval_select : \E k \in Keys : f[k] = e
        BY SelectEntries
    <2> HIDE DEF f
    <2> QED BY <2>1, <2>2, <2>3 DEF Bijection, Injection, Surjection, IsInjective
<1>4. ExistsBijection(Keys, eval_select)
    BY <1>3 DEF ExistsBijection
<1> QED BY <1>2, <1>4, SelectEntries, FS_Bijection

\* The values of the entries add up to the number of assignments, or with
\* DISTINCT to that of the keys.
LEMMA SelectTotal ==
    ASSUME IsFiniteSet(Found)
    PROVE  Sum_(eval_select) = IF request.text.distinct THEN Cardinality({e.key : e \in eval_select})
                               ELSE Cardinality(Found)
<1> DEFINE S == eval_select
<1>1. IsFiniteSet(S) /\ \A s \in SUBSET S : IsFiniteSet(s)
    BY SelectFinite, FS_Subset
<1>2. ASSUME NEW x \in S PROVE \E k \in Keys : x = Entry(k)
    BY SelectEntries
<1>3. CASE request.text.distinct
    <2> DEFINE M == [s \in SUBSET S |-> Cardinality(s)]
    <2>1. M \in [SUBSET S -> Int] /\ M[{}] = 0
        BY <1>1, FS_CardinalityType, FS_EmptySet
    <2>2. ASSUME NEW s \in SUBSET S, NEW x \in s PROVE M[s] = x.value + M[s \ {x}]
        <3>1. x.value = 1
            BY <1>2, <1>3 DEF Entry
        <3>2. IsFiniteSet(s)
            BY <1>1
        <3>3. Cardinality(s \ {x}) = Cardinality(s) - 1 /\ Cardinality(s) \in Nat
            BY <3>2, FS_RemoveElement, FS_CardinalityType
        <3>4. M[s] = Cardinality(s) /\ M[s \ {x}] = Cardinality(s \ {x})
            OBVIOUS
        <3> QED BY <3>1, <3>3, <3>4
    <2>3. M[S] = Cardinality(S)
        OBVIOUS
    <2> HIDE DEF M, S
    <2>4. Sum_(S) = M[S]
        BY <1>1, <2>1, <2>2, SumIsMeasure
    <2> QED BY <1>3, <2>3, <2>4, SelectFinite DEF S
<1>4. CASE ~request.text.distinct
    <2> DEFINE C(s) == {a \in Found : Entry(Projection(a)) \in s}
               M == [s \in SUBSET S |-> Cardinality(C(s))]
    <2>1. \A s : IsFiniteSet(C(s)) /\ Cardinality(C(s)) \in Nat
        BY FS_Subset, FS_CardinalityType
    <2>2. M \in [SUBSET S -> Int] /\ M[{}] = 0
        <3>1. C({}) = {}
            OBVIOUS
        <3>2. \A s \in SUBSET S : M[s] = Cardinality(C(s))
            OBVIOUS
        <3>3. Cardinality(C({})) = 0
            BY <3>1, FS_EmptySet
        <3> HIDE DEF C, S
        <3> QED BY <2>1, <3>2, <3>3
    <2>3. ASSUME NEW s \in SUBSET S, NEW x \in s PROVE M[s] = x.value + M[s \ {x}]
        <3>1. PICK k \in Keys : x = Entry(k)
            BY <1>2
        <3>2. x.value = Cardinality(Fibre(k))
            BY <1>4, <3>1 DEF Entry
        <3>3. \A a \in Found : Entry(Projection(a)) = x <=> Projection(a) = k
            BY <3>1, SelectEntries
        <3>4. Fibre(k) \cup C(s \ {x}) = C(s) /\ Fibre(k) \cap C(s \ {x}) = {}
            BY <3>3 DEF Fibre
        <3>5. IsFiniteSet(Fibre(k)) /\ Cardinality(Fibre(k)) \in Nat
            BY FS_Subset, FS_CardinalityType DEF Fibre
        <3>6. M[s] = Cardinality(C(s)) /\ M[s \ {x}] = Cardinality(C(s \ {x}))
            OBVIOUS
        <3>7. Cardinality({}) = 0
            BY FS_EmptySet
        <3> HIDE DEF C, M, S
        <3>8. Cardinality(C(s)) = Cardinality(Fibre(k)) + Cardinality(C(s \ {x}))
            <4> DEFINE A == Fibre(k)
                       B == C(s \ {x})
            <4>1. IsFiniteSet(A) /\ IsFiniteSet(B) /\ A \cap B = {} /\ Cardinality(A) \in Nat /\ Cardinality(B) \in Nat
                BY <2>1, <3>4, <3>5
            <4>2. C(s) = A \cup B
                BY <3>4
            <4> HIDE DEF A, B
            <4>3. Cardinality(A \cup B) = Cardinality(A) + Cardinality(B) - Cardinality(A \cap B)
                BY <4>1, FS_Union
            <4>4. Cardinality(A \cap B) = 0
                BY <3>7, <4>1
            <4>5. \A i, j \in Nat : i + j - 0 = i + j
                OBVIOUS
            <4> QED BY <4>1, <4>2, <4>3, <4>4, <4>5 DEF A, B
        <3> QED BY <3>2, <3>6, <3>8
    <2>4. M[S] = Cardinality(Found)
        <3>1. C(S) = Found
            BY SelectEntries DEF Keys
        <3> QED BY <3>1
    <2> HIDE DEF M, S, C
    <2>5. Sum_(S) = M[S]
        BY <1>1, <2>2, <2>3, SumIsMeasure
    <2> QED BY <1>4, <2>4, <2>5 DEF S
<1> QED BY <1>3, <1>4

LEMMA SliceType ==
    ASSUME tensor \subseteq Triples, NEW tp \in TriplePattern, NEW e \in Slice(get_slice_key(tp))
    PROVE  e \in [DOMAIN Variables(tp) -> NodesOf(tensor)]
<1> DEFINE w == VarPlaces(tp)
<1>1. PICK t \in tensor : e = [k \in DOMAIN w |-> t[w[k]]]
    BY FreePlaces DEF Slice
<1>2. DOMAIN Variables(tp) = DOMAIN w /\ \A k \in DOMAIN w : w[k] \in 1..3
    BY PlacesRange
<1> HIDE DEF w
<1>3. DOMAIN t = 1..3
    BY TripleIs
<1>4. \A i \in 1..3 : t[i] \in NodesOf(tensor)
    BY <1>3 DEF NodesOf, Range
<1> QED BY <1>1, <1>2, <1>4

\* A triple pattern that has no variable twice has a solution for every entry of
\* its slice.
LEMMA SingleTotal ==
    ASSUME Lettered, IsFiniteSet(tensor), DOMAIN triple_patterns = {1},
           IsInjective(Variables(triple_patterns[1]))
    PROVE  Cardinality(generate_operands[1]) = Cardinality(Solutions)
<1> DEFINE tp == triple_patterns[1]
           vs == Variables(tp)
           slice == Slice(get_slice_key(tp))
           f == [m \in Solutions |-> [k \in DOMAIN vs |-> m[vs[k]]]]
<1>1. tp \in TriplePattern /\ tensor \subseteq Triples
    BY PatternAt DEF Lettered
<1>2. generate_operands[1] = slice
    BY DEF generate_operands
<1>3. Names = Range(vs) /\ Range(vs) = {vs[k] : k \in DOMAIN vs}
    BY DEF Names, Range
<1>4. \A m : m \in Solutions <=> m \in [Names -> NodesOf(tensor)] /\ Instance(tp, m) \in tensor
    BY DEF Solutions
<1>5. \A k, l \in DOMAIN vs : vs[k] = vs[l] => k = l
    BY DEF IsInjective
<1> HIDE DEF tp
<1>6. \A m : [k \in DOMAIN vs |-> m[vs[k]]] \in slice <=> Instance(tp, m) \in tensor
    BY <1>1, SliceEntry
<1>7. \A e \in slice : e \in [DOMAIN vs -> NodesOf(tensor)]
    BY <1>1, SliceType
<1> HIDE DEF vs, slice
<1>8. ASSUME NEW m \in Solutions, NEW n \in Solutions, f[m] = f[n] PROVE m = n
    <2>1. ASSUME NEW k \in DOMAIN vs PROVE m[vs[k]] = n[vs[k]]
        <3>1. f[m][k] = m[vs[k]] /\ f[n][k] = n[vs[k]]
            OBVIOUS
        <3> QED BY <1>8, <3>1
    <2>2. m \in [Names -> NodesOf(tensor)] /\ n \in [Names -> NodesOf(tensor)]
        BY <1>4
    <2>3. \A v \in Names : m[v] = n[v]
        BY <1>3, <2>1
    <2> QED BY <2>2, <2>3
<1>9. ASSUME NEW e \in slice PROVE \E m \in Solutions : f[m] = e
    <2> DEFINE place(v) == CHOOSE k \in DOMAIN vs : vs[k] = v
               m == [v \in Names |-> e[place(v)]]
    <2>1. \A v \in Names : place(v) \in DOMAIN vs
        BY <1>3
    <2>2. \A k \in DOMAIN vs : vs[k] \in Names /\ place(vs[k]) = k
        BY <1>3, <1>5
    <2>3. e \in [DOMAIN vs -> NodesOf(tensor)]
        BY <1>7
    <2> HIDE DEF place
    <2>4. m \in [Names -> NodesOf(tensor)]
        BY <2>1, <2>3
    <2>5. \A k \in DOMAIN vs : m[vs[k]] = e[k]
        BY <2>2
    <2> HIDE DEF m
    <2>6. [k \in DOMAIN vs |-> m[vs[k]]] = e
        BY <2>3, <2>5
    <2>7. m \in Solutions
        BY <1>4, <1>6, <2>4, <2>6
    <2> QED BY <2>6, <2>7
<1>10. \A m \in Solutions : f[m] \in slice
    BY <1>4, <1>6
<1>11. f \in [Solutions -> slice]
    BY <1>10
<1> HIDE DEF f
<1>12. f \in Bijection(Solutions, slice)
    BY <1>8, <1>9, <1>11 DEF Bijection, Injection, Surjection, IsInjective
<1>13. ExistsBijection(Solutions, slice) /\ IsFiniteSet(Solutions)
    BY <1>12, FoundFinite DEF ExistsBijection
<1> QED BY <1>2, <1>13, FS_Bijection

\* Where the tensor has the triples of the data its solutions are those of the
\* file.
LEMMA SolutionsAreMatches ==
    ASSUME tensor = TriplesOf(Data)
    PROVE  Solutions = Matches
BY DEF Solutions, Matches, Instance, Names

LEMMA EvaluationIsRight ==
    ASSUME Lettered, IsFiniteSet(tensor), tensor = TriplesOf(Data)
    PROVE  /\ eval_ask <=> Matches # {}
           /\ Sum_(eval_select) = IF request.text.distinct THEN Cardinality({e.key : e \in eval_select})
                                  ELSE Cardinality(Matches)
           /\ {e.key : e \in eval_select} =
                  {[i \in DOMAIN projected_variables |->
                       LET v == projected_variables[i]
                       IN  IF v \in DOMAIN m THEN m[v] ELSE Unbound] : m \in Matches}
<1>1. Solutions = Matches
    BY SolutionsAreMatches
<1>2. IsFiniteSet(Found) /\ IsFiniteSet(Solutions) /\ Cardinality(Found) = Cardinality(Solutions)
    BY FoundFinite
<1>3. eval_ask <=> Matches # {}
    <2>1. [a \in Found |-> Named(a)] \in Bijection(Found, Solutions)
        BY FoundAndSolutions
    <2>2. Found # {} <=> Solutions # {}
        BY <2>1 DEF Bijection, Injection, Surjection
    <2> QED BY <1>1, <2>2 DEF eval_ask, Found
<1>4. Sum_(eval_select) = IF request.text.distinct THEN Cardinality({e.key : e \in eval_select})
                          ELSE Cardinality(Found)
    BY <1>2, SelectTotal
<1>5. {e.key : e \in eval_select} = {Projected(m) : m \in Solutions}
    BY SelectedKeys
<1>6. {Projected(m) : m \in Matches} =
          {[i \in DOMAIN projected_variables |->
               LET v == projected_variables[i]
               IN  IF v \in DOMAIN m THEN m[v] ELSE Unbound] : m \in Matches}
    BY DEF Projected
<1> QED BY <1>1, <1>2, <1>3, <1>4, <1>5, <1>6

-----------------------------------------------------------------------------
(* The answers.                                                             *)

\* The answers are those of the evaluation.
AnswerInv == stage = "evaluated" =>
                 /\ total = count
                 /\ IF request.text.form = "ask" THEN found = eval_ask ELSE entries = eval_select

\* The evaluation depends on what has been parsed and loaded.
LEMMA SameEvaluation ==
    ASSUME UNCHANGED <<request, tensor, projected_variables, var_to_id, triple_patterns, operands>>
    PROVE  count' = count /\ eval_ask' = eval_ask /\ eval_select' = eval_select
<1>1. generate_operands' = generate_operands
    BY DEF generate_operands, Slice, get_slice_key
<1>2. Joins(generate_operands)' = Joins(generate_operands)
    BY <1>1 DEF Joins
<1>3. \A a : Projection(a)' = Projection(a)
    BY DEF Projection
<1>4. eval_ask' = eval_ask /\ eval_select' = eval_select
    BY <1>2, <1>3 DEF eval_ask, eval_select
<1> QED BY <1>1, <1>4 DEF count

LEMMA AnswerGoesOn == EngineInv /\ AnswerInv /\ [Next]_vars => AnswerInv'
<1> SUFFICES ASSUME EngineInv, AnswerInv, [Next]_vars, stage' = "evaluated" PROVE AnswerInv'
    BY DEF AnswerInv
<1>1. CASE Evaluate
    <2>1. UNCHANGED <<request, tensor, projected_variables, var_to_id, triple_patterns, operands>>
        BY <1>1 DEF Evaluate, storeVars, loadVars, graphVars, nameVars, odgVars
    <2>2. total' = count /\ IF request.text.form = "ask" THEN found' = eval_ask ELSE entries' = eval_select
        BY <1>1 DEF Evaluate
    <2> QED BY <2>1, <2>2, SameEvaluation DEF AnswerInv
<1>2. CASE UNCHANGED vars
    <2>1. UNCHANGED <<request, tensor, projected_variables, var_to_id, triple_patterns, operands>>
        BY <1>2 DEF vars, storeVars, loadVars, graphVars, nameVars, odgVars
    <2>2. UNCHANGED <<stage, total, found, entries>>
        BY <1>2 DEF vars, answerVars
    <2> QED BY <2>1, <2>2, SameEvaluation DEF AnswerInv
<1>3. ASSUME Tool \/ GiveFile \/ Load \/ Loaded \/ ReadList \/ parse \/ Parsing \/ ParseEnds
      PROVE  stage' # "evaluated"
    BY <1>3 DEF Tool, GiveFile, Load, Loaded, ReadList, parse, Parsing, ParseEnds
<1> QED BY <1>1, <1>2, <1>3 DEF Next

\* What there is when a query has been evaluated.
LEMMA Evaluated ==
    ASSUME EngineInv, stage = "evaluated", EnoughLetters
    PROVE  Lettered /\ IsFiniteSet(tensor) /\ tensor = TriplesOf(Data)
<1>1. Lettered
    <2>1. triple_patterns \in Seq(TriplePattern) /\ NamesType /\ OdgType /\ Aligned /\ tensor \subseteq Triples
        BY DEF EngineInv, VisitorInv, Shape, GraphType, OdgType, TriplePattern, StoreInv, StoreType
    <2>2. DOMAIN operands = DOMAIN triple_patterns
        BY <2>1, LenProperties DEF Aligned, OdgType
    <2> QED BY <2>1, <2>2, AlignedIds DEF Lettered, Names, Id, EnoughLetters
<1>2. loading = "done" /\ file # Missing /\ LoadsTheFile /\ WritesWhatItReads
    BY StoreInvLoads, ToolInvWrites DEF EngineInv, StageInv, IsLoaded, StoreInv, LoadInv
<1>3. tensor = TriplesOf(file)
    BY <1>2 DEF LoadsTheFile
<1>4. CASE request.tool # NoTool /\ Len(output) # limit /\ HashIsPerfect
    <2>1. file = output /\ running = "ended"
        BY <1>4 DEF EngineInv, StageInv
    <2>2. output \in Seq(Triples) /\ limit \in Nat
        BY DEF EngineInv, ToolInv, ToolType
    <2>3. Len(output) \in Nat /\ DOMAIN output = 1..Len(output) /\ \A i \in 1..Len(output) : output[i] \in Triples
        BY <2>2, LenProperties
    <2>4. Len(output) < limit
        <3>1. Len(output) <= limit
            BY <1>2 DEF WritesWhatItReads
        <3>2. \A m, n \in Nat : m <= n /\ m # n => m < n
            OBVIOUS
        <3> QED BY <1>4, <2>2, <2>3, <3>1, <3>2
    <2>5. Range(output) = TriplesOf(source)
        BY <1>2, <1>4, <2>1, <2>4 DEF WritesWhatItReads
    <2>6. TriplesOf(output) = Range(output)
        BY <2>3, FileAssumption DEF TriplesOf, TriplesUpTo, Range
    <2> QED BY <1>1, <1>3, <1>4, <2>1, <2>5, <2>6 DEF Data, EngineInv, StoreInv, StoreType
<1>5. CASE ~(request.tool # NoTool /\ Len(output) # limit /\ HashIsPerfect)
    BY <1>1, <1>3, <1>5 DEF Data, EngineInv, StoreInv, StoreType
<1> QED BY <1>4, <1>5

LEMMA AnswersAreRight == EngineInv /\ AnswerInv => SolutionsAreRight /\ CountAgrees
<1> SUFFICES ASSUME EngineInv, AnswerInv, stage = "evaluated", EnoughLetters
             PROVE  SolutionsAreRight /\ CountAgrees
    BY DEF SolutionsAreRight, CountAgrees
<1>1. Lettered /\ IsFiniteSet(tensor) /\ tensor = TriplesOf(Data)
    BY Evaluated
<1>2. total = count /\ IF request.text.form = "ask" THEN found = eval_ask ELSE entries = eval_select
    BY DEF AnswerInv
<1>3. SolutionsAreRight
    BY <1>1, <1>2, EvaluationIsRight DEF SolutionsAreRight
<1>4. CASE Len(triple_patterns) = 1 /\ (request.text.distinct \/ ~IsInjective(Variables(triple_patterns[1])))
    BY <1>3, <1>4 DEF CountAgrees
<1>5. CASE Len(triple_patterns) = 1 /\ ~request.text.distinct /\ IsInjective(Variables(triple_patterns[1]))
    <2>1. DOMAIN triple_patterns = {1}
        BY <1>1, <1>5, LenProperties DEF Lettered
    <2>2. total = Cardinality(Matches)
        BY <1>1, <1>2, <1>5, <2>1, SingleTotal, SolutionsAreMatches DEF count
    <2> QED BY <1>3, <1>5, <2>2 DEF CountAgrees
<1>6. CASE Len(triple_patterns) # 1
    <2>1. total = Sum_(eval_select)
        BY <1>2, <1>6 DEF count
    <2>2. request.text.distinct => entries = eval_select
        BY <1>2, RequestAssumption DEF EngineInv
    <2>3. ~request.text.distinct => Sum_(eval_select) = Cardinality(Matches)
        BY <1>1, EvaluationIsRight
    <2>4. total = IF request.text.distinct THEN Sum_(entries) ELSE Cardinality(Matches)
        BY <2>1, <2>2, <2>3
    <2> QED BY <1>3, <2>4 DEF CountAgrees
<1> QED BY <1>4, <1>5, <1>6

LEMMA AnswerInvariance == Spec => [](EngineInv /\ AnswerInv)
<1>1. Init => AnswerInv
    BY DEF Init, AnswerInv
<1> QED BY <1>1, EngineBegins, EngineGoesOn, AnswerGoesOn, PTL DEF Spec

\* Whatever the file and however it comes into the store, a query of one group
\* with letters enough gets every solution there is in the file, as often as it
\* occurs, and no other.
THEOREM AnswersAreSolutions == Spec => []SolutionsAreRight
<1> QED BY AnswersAreRight, AnswerInvariance, PTL

\* And as many are counted, where the count is not that of a slice.
THEOREM CountsAreRight == Spec => []CountAgrees
<1> QED BY AnswersAreRight, AnswerInvariance, PTL
=============================================================================
