-------------------------------- MODULE Answer --------------------------------
(***************************************************************************)
(* How a task answers one request: handle_query of the endpoints /sparql,  *)
(* /stream and /count.  The evaluation of the query yields entries one by  *)
(* one, an entry stands for as many equal solutions as its value says, and *)
(* a writer turns them into a JSON document: a head, the solutions, a tail.*)
(* /sparql sends the document when it is whole, /stream in chunks.  Chunks *)
(* are posted to an I/O thread, which writes them while the task goes on   *)
(* and reports back by a callback into the task's stack frame.             *)
(***************************************************************************)
EXTENDS Integers, Sequences, SequencesExt

CONSTANTS MaxEntries,  \* bound on the entries a query has
          MaxValue,    \* bound on the value of an entry
          BufferSize   \* of the writer, in parts of the document

ASSUME AnswerAssumption == {MaxEntries, MaxValue, BufferSize} \subseteq Nat \ {0}

VARIABLES endpoint, asks, entries,  \* the request; asks: it is an ASK query
          ask_,               \* of the parsed query
          pc, at,             \* the task, and how many entries it has seen
          buffer, count,      \* of the writer, of /count
          asio_write_failed,  \* in the frame of handle_query
          outbox,             \* what is posted to the I/O thread
          connected, client,  \* the connection, what the client has received
          status, done,       \* of the response; done: it is complete
          expired, cut,       \* the deadline is past; it ended the evaluation
          dangling            \* a callback has found the frame gone

request == <<endpoint, asks, entries>>
writer  == <<at, buffer, count>>
net     == <<connected, client>>
answer  == <<status, done>>
clock   == <<expired, cut>>
vars    == <<request, ask_, pc, writer, asio_write_failed, outbox, net, answer,
             clock, dangling>>

Endpoints == {"sparql", "stream", "count"}

\* The parts of a document.
Opening    == <<0, 0>>
Closing    == <<MaxEntries + 1, 0>>
Yes        == <<-1, 1>>
No         == <<-1, 0>>

\* The writer's add(): one solution after the other.
Solutions(n) == [j \in 1..entries[n] |-> <<n, j>>]
Add(b, n)    == b \o Solutions(n)
\* The document for the first n entries.
Document(n)  == <<Opening>> \o FlattenSeq([i \in 1..n |-> Solutions(i)]) \o <<Closing>>

Full(b)      == Len(b) > BufferSize

Running == pc \notin {"returned", "thrown"}

Init == /\ endpoint \in Endpoints
        /\ asks \in BOOLEAN
        /\ \E n \in 0..MaxEntries : entries \in [1..n -> 1..MaxValue]
        /\ ask_ = FALSE
        /\ pc = "start" /\ at = 0
        /\ buffer = <<>> /\ count = 0
        /\ asio_write_failed = FALSE
        /\ outbox = <<>>
        /\ connected = TRUE /\ client = <<>>
        /\ status = "none" /\ done = FALSE
        /\ expired = FALSE /\ cut = FALSE
        /\ dangling = FALSE

Post(chunk, called_back) ==
    outbox' = Append(outbox, [chunk |-> chunk, called_back |-> called_back])

-----------------------------------------------------------------------------
(* The task.                                                                *)

\* parse_sparql_query_param answers 400 itself.
ParseFails == /\ pc = "start"
              /\ pc' = "returned"
              /\ status' = "400" /\ done' = TRUE
              /\ Post(<<>>, FALSE)
              /\ UNCHANGED <<request, ask_, writer, asio_write_failed, net, clock, dangling>>

\* SPARQLQuery::parse has a visitor for ASK queries, which does not set ask_.
Parsed == /\ pc = "start"
          /\ pc' = "begin"
          /\ ask_' = FALSE
          /\ UNCHANGED <<request, writer, asio_write_failed, outbox, net, answer,
                         clock, dangling>>

\* Where the endpoints part: /sparql evaluates an ASK query at once, the writer
\* begins its document, /count has no writer.
Begin == /\ pc = "begin"
         /\ IF endpoint = "sparql" /\ ask_
            THEN /\ pc' = "returned"
                 /\ status' = "200" /\ done' = TRUE
                 /\ Post(<<IF entries # <<>> THEN Yes ELSE No>>, FALSE)
                 /\ UNCHANGED buffer
            ELSE /\ pc' = "eval"
                 /\ buffer' = IF endpoint = "count" THEN <<>> ELSE <<Opening>>
                 /\ UNCHANGED <<answer, outbox>>
         /\ UNCHANGED <<request, ask_, at, count, asio_write_failed, net, clock, dangling>>

\* Mutant of NextEntry: /count counts entries, not solutions.
NextEntryCountsOne ==
    /\ pc = "eval" /\ at < Len(entries)
    /\ at' = at + 1
    /\ IF endpoint = "count"
       THEN count' = count + 1 /\ UNCHANGED <<buffer, pc>>
       ELSE /\ buffer' = Add(buffer, at')
            /\ pc' = IF endpoint = "stream" /\ Full(buffer') THEN "full" ELSE "eval"
            /\ UNCHANGED count
    /\ UNCHANGED <<request, ask_, asio_write_failed, outbox, net, answer, clock, dangling>>

\* The loop over eval_select takes another entry.
NextEntry ==
    /\ pc = "eval" /\ at < Len(entries)
    /\ at' = at + 1
    /\ IF endpoint = "count"
       THEN count' = count + entries[at'] /\ UNCHANGED <<buffer, pc>>
       ELSE /\ buffer' = Add(buffer, at')
            /\ pc' = IF endpoint = "stream" /\ Full(buffer') THEN "full" ELSE "eval"
            /\ UNCHANGED count
    /\ UNCHANGED <<request, ask_, asio_write_failed, outbox, net, answer, clock, dangling>>

\* The generator has no more entries, or it stops because of the deadline.
EvalEnds == /\ pc = "eval"
            /\ at = Len(entries) \/ expired
            /\ cut' = (at < Len(entries))
            /\ pc' = "close"
            /\ UNCHANGED <<request, ask_, writer, asio_write_failed, outbox, net, answer,
                           expired, dangling>>

\* The evaluation or the writer throws; Endpoint::operator() has the handler.
EvalThrows == /\ pc = "eval"
              /\ pc' = "thrown"
              /\ UNCHANGED <<request, ask_, writer, asio_write_failed, outbox, net,
                             answer, clock, dangling>>

\* /stream: append_chunk and flush, with a callback for the result.
FlushChunk == /\ pc = "full"
              /\ pc' = "check"
              /\ Post(buffer, TRUE)
              /\ status' = "200"
              /\ UNCHANGED <<request, ask_, writer, asio_write_failed, net, done, clock,
                             dangling>>

\* Mutants of CheckWrite: the buffer is not cleared; a failed write is repeated.
CheckNoClear == /\ pc = "check"
                /\ pc' = IF asio_write_failed THEN "returned" ELSE "eval"
                /\ UNCHANGED <<request, ask_, writer, asio_write_failed, outbox, net,
                               answer, clock, dangling>>
CheckRetries == /\ pc = "check"
                /\ pc' = IF asio_write_failed THEN "check" ELSE "eval"
                /\ buffer' = IF asio_write_failed THEN buffer ELSE <<>>
                /\ UNCHANGED <<request, ask_, at, count, asio_write_failed, outbox, net,
                               answer, clock, dangling>>

\* asio_write_failed is read right after flush(), whether or not the write has
\* been made.
CheckWrite == /\ pc = "check"
              /\ pc' = IF asio_write_failed THEN "returned" ELSE "eval"
              /\ buffer' = IF asio_write_failed THEN buffer ELSE <<>>
              /\ UNCHANGED <<request, ask_, at, count, asio_write_failed, outbox, net,
                             answer, clock, dangling>>

\* Mutants of Close: /sparql without check_timeout; /stream without the last
\* chunk.
CloseUnchecked ==
    /\ pc = "close"
    /\ buffer' = IF endpoint = "count" THEN buffer ELSE Append(buffer, Closing)
    /\ pc' = "returned" /\ status' = "200" /\ done' = TRUE
    /\ Post(buffer', FALSE)
    /\ UNCHANGED <<request, ask_, at, count, asio_write_failed, net, clock, dangling>>
CloseNoChunk ==
    /\ pc = "close"
    /\ buffer' = IF endpoint = "count" THEN buffer ELSE Append(buffer, Closing)
    /\ IF endpoint = "sparql" /\ expired
       THEN pc' = "thrown" /\ UNCHANGED <<answer, outbox>>
       ELSE /\ pc' = "returned" /\ status' = "200" /\ done' = TRUE
            /\ Post(IF endpoint = "stream" THEN <<>> ELSE buffer', FALSE)
    /\ UNCHANGED <<request, ask_, at, count, asio_write_failed, net, clock, dangling>>

\* close(), then done().  Only /sparql looks at the clock before it answers.
Close ==
    /\ pc = "close"
    /\ buffer' = IF endpoint = "count" THEN buffer ELSE Append(buffer, Closing)
    /\ IF endpoint = "sparql" /\ expired
       THEN pc' = "thrown" /\ UNCHANGED <<answer, outbox>>
       ELSE /\ pc' = "returned" /\ status' = "200" /\ done' = TRUE
            /\ Post(buffer', FALSE)
    /\ UNCHANGED <<request, ask_, at, count, asio_write_failed, net, clock, dangling>>

-----------------------------------------------------------------------------
(* The I/O thread and the clock.                                            *)

\* A callback assigns to asio_write_failed, or to what is there by now.
CallBack(failed) ==
    IF outbox[1].called_back
    THEN IF Running THEN asio_write_failed' = failed /\ UNCHANGED dangling
                    ELSE dangling' = TRUE /\ UNCHANGED asio_write_failed
    ELSE UNCHANGED <<asio_write_failed, dangling>>

WriteSucceeds == /\ outbox # <<>> /\ connected
                 /\ client' = client \o outbox[1].chunk
                 /\ outbox' = Tail(outbox)
                 /\ CallBack(FALSE)
                 /\ UNCHANGED <<request, ask_, pc, writer, connected, answer, clock>>

\* The client is gone or too slow; restinio closes the connection.
WriteFails == /\ outbox # <<>>
              /\ connected' = FALSE
              /\ outbox' = Tail(outbox)
              /\ CallBack(TRUE)
              /\ UNCHANGED <<request, ask_, pc, writer, client, answer, clock>>

Expire == /\ Running /\ ~expired
          /\ expired' = TRUE
          /\ UNCHANGED <<request, ask_, pc, writer, asio_write_failed, outbox, net,
                         answer, cut, dangling>>

-----------------------------------------------------------------------------
TaskStep == \/ ParseFails \/ Parsed \/ Begin \/ NextEntry \/ EvalEnds \/ EvalThrows
            \/ FlushChunk \/ CheckWrite \/ Close
IoStep   == WriteSucceeds \/ WriteFails

Next == TaskStep \/ IoStep \/ Expire

Spec == Init /\ [][Next]_vars

\* Both threads run; that a query has finitely many entries is MaxEntries.
FairSpec == Spec /\ WF_vars(TaskStep) /\ WF_vars(IoStep)

-----------------------------------------------------------------------------
(* Properties.                                                              *)

\* /sparql never passes a cut result off as the answer: the evaluation may end
\* early without saying so, but then check_timeout throws.  Of SELECT queries; an
\* ASK query gets a document of solutions as well, since ask_ is never set, where
\* SPARQLQuery.cpp:22 and TripleStore.hpp:80 promise an answer.
SparqlAnswerIsWhole ==
    endpoint = "sparql" /\ ~asks /\ status = "200" => ~cut /\ buffer = Document(Len(entries))

\* What /stream has sent, is sending and has buffered is the document up to the
\* entries seen, in order, nothing twice and nothing left out, unless a write
\* has failed; what the client has is the beginning of it anyway.
Posted == FlattenSeq([i \in 1..Len(outbox) |-> outbox[i].chunk])
StreamIsInOrder ==
    endpoint = "stream" /\ status # "400" =>
        /\ IsPrefix(client, Document(at))
        /\ done /\ connected => client \o Posted = Document(at)
        /\ pc = "eval" /\ connected => client \o Posted \o buffer \o <<Closing>> = Document(at)

\* A stream that completes in time has all solutions.  One that does not looks
\* just as complete: see `cut'.
StreamInTimeIsWhole ==
    endpoint = "stream" /\ done /\ status = "200" /\ connected /\ outbox = <<>> /\ ~expired
        => client = Document(Len(entries))

\* /count counts every solution of the entries it has seen.
CountIsRight ==
    endpoint = "count" => count + 2 = Len(Document(at))

\* The task ends, whatever happens to the connection.
TaskEnds == <>~Running

\* The message of SparqlStreamingEndpoint.cpp:38 says a failed write is noticed.
\* Not so if handle_query has returned: the callback writes to its former frame.
CallbacksFindTheFrame == ~dangling
=============================================================================
