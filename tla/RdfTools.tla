------------------------------- MODULE RdfTools -------------------------------
(***************************************************************************)
(* The tools deduplicated-nt and rdf2ids.  Both read a file statement by   *)
(* statement and write its triples, one as N-Triples, the other as IDs;    *)
(* the first, and the second with --distinct, leave a triple out when they *)
(* have seen its hash before; both quit at the limit.                      *)
(***************************************************************************)
EXTENDS RdfFile

CONSTANT Hash   \* dice_hash of a triple

ASSUME ToolAssumption == DOMAIN Hash = Triples

VARIABLES source,       \* the statements of the file
          distinct_,    \* deduplicated-nt, or rdf2ids --distinct
          limit,
          running,      \* "no", "reading", "ended" or "thrown"
          next_,        \* the statement to be read next
          count_,       \* calls of terminate_at_limit
          deduplication,\* the hashes seen
          output        \* the triples written

toolVars == <<source, distinct_, limit, running, next_, count_, deduplication, output>>

ToolStart == running = "no" /\ next_ = 1 /\ count_ = 0 /\ deduplication = {} /\ output = <<>>

ToolInit == /\ source \in Seq(Statements)
            /\ distinct_ \in BOOLEAN
            /\ limit \in Nat
            /\ ToolStart

-----------------------------------------------------------------------------

OpenSource == /\ running = "no"
              /\ running' = "reading"
              /\ UNCHANGED <<source, distinct_, limit, next_, count_, deduplication, output>>

\* The exception leaves main.
CannotOpen == /\ running = "no"
              /\ running' = "thrown"
              /\ UNCHANGED <<source, distinct_, limit, next_, count_, deduplication, output>>

Reads == running = "reading" /\ next_ <= Len(source)

\* An error is written to the log, a triple seen before is not written.
Skips(triple) == triple # Bad => distinct_ /\ Hash[triple] \in deduplication

SkipStatement == /\ Reads
                 /\ Skips(source[next_])
                 /\ next_' = next_ + 1
                 /\ UNCHANGED <<source, distinct_, limit, running, count_, deduplication, output>>

\* Mutant of TerminatesAtLimit: the limit is tested before the triple counts.
TerminatesLate == count_ > limit

\* ++count > limit
TerminatesAtLimit == count_ + 1 > limit

WriteTriple == /\ Reads
               /\ ~Skips(source[next_])
               /\ ~TerminatesAtLimit
               /\ output' = Append(output, source[next_])
               /\ deduplication' = IF distinct_ THEN deduplication \cup {Hash[source[next_]]}
                                   ELSE deduplication
               /\ count_' = count_ + 1
               /\ next_' = next_ + 1
               /\ UNCHANGED <<source, distinct_, limit, running>>

\* exit() before the triple is written.
QuitAtLimit == /\ Reads
               /\ ~Skips(source[next_])
               /\ TerminatesAtLimit
               /\ count_' = count_ + 1
               /\ running' = "ended"
               /\ UNCHANGED <<source, distinct_, limit, next_, deduplication, output>>

EndOfSource == /\ running = "reading" /\ next_ > Len(source)
               /\ running' = "ended"
               /\ UNCHANGED <<source, distinct_, limit, next_, count_, deduplication, output>>

ToolNext == \/ OpenSource \/ CannotOpen \/ SkipStatement \/ WriteTriple
            \/ QuitAtLimit \/ EndOfSource

ToolSpec == ToolInit /\ [][ToolNext]_toolVars

-----------------------------------------------------------------------------
(* Properties.                                                              *)

\* Distinguishes the triples of the file.
HashIsPerfect == \A s, t \in TriplesOf(source) : Hash[s] = Hash[t] => s = t

\* The tools write nothing that is not in the file and no more than the limit;
\* below the limit nothing is left out, unless two triples of the file have one
\* hash, and with deduplication no triple is written twice.
WritesWhatItReads ==
    /\ Len(output) <= limit
    /\ Range(output) \subseteq TriplesOf(source)
    /\ distinct_ => \A i, j \in DOMAIN output : Hash[output[i]] = Hash[output[j]] => i = j
    /\ running = "ended" /\ Len(output) < limit =>
           /\ HashIsPerfect \/ ~distinct_ => Range(output) = TriplesOf(source)
           /\ ~distinct_ => Len(output) = Cardinality({i \in DOMAIN source : source[i] # Bad})
=============================================================================
