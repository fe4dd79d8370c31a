# Tentris in TLA+

Tentris is an RDF triple store: `tentris_loader` turns an N-Triples or Turtle
file into an index on disk, `tentris_server` answers SPARQL queries over it by
HTTP. This directory holds TLA+ modules of its parts, TLC configurations that
check them on small instances, and proofs, checked by TLAPS, of what matters
most for every instance. Paths below are relative to the repository.

## The system

```
 tentris_loader ---- creates, loads, copies ----> tentris_data, tentris_data_snapshot
                                                        ^  checks, restores, opens
 client -- HTTP --> restinio I/O threads            tentris_server (main thread)
                      | Endpoint::operator()            | signals, shutdown
                      v admission check                 v
                    taskflow workers: handle_query of /sparql, /stream, /count
                      |            |                |
                      v            v                v
                 query cache   TripleStore      JSON writer -> chunks -> I/O thread
                      |            |
                      v            v
              SPARQL visitor   hypertrie (IDs) <-> node store (ID <-> term)
```

| Component | State | Operations | Interacts with | What makes it correct |
|---|---|---|---|---|
| node store, `libs/node-store` | four storages (blank nodes, IRIs, literals, variables), each two maps, a counter and a `shared_mutex` | `find_or_make_id`, `find_id`, `find_*_backend_view`, `size` | called by every thread that names or prints a term | maps stay inverse, one ID per term for ever, lookups return it |
| query cache, `SyncedLRUCache` | list of queries, map into it, mutex | `operator[]`, `prune` | called by tasks, calls the parser under the mutex | bounded, least recently used goes first, no dangling iterator after a failure |
| server, `HTTPServer`, `Endpoint` | connections, tasks and the executor's count, signal flag | dispatch, admission, time-outs, shutdown | restinio, taskflow, the endpoints | bounded load, answers reach their requests, orderly shutdown |
| endpoints, `Sparql*Endpoint`, `CountEndpoint`, `SparqlJsonResultSAXWriter` | one response: buffer, flags, deadline | `handle_query` | triple store, cache, I/O thread by callbacks | an answer is whole or not given |
| storage, `TentrisLoader.cpp`, `TentrisServer.cpp` | two directories with Metall's mark "properly closed" | create, load, copy, check, restore, open, serve, close | the file system; crashes | only whole indexes are served; the snapshot can be relied on |
| SPARQL visitors, `libs/sparql2tensor` | prefixes, five stacks, variables and their numbers, operand dependency graph | the visit functions | parser, triple store | the graph means the text, or the text is rejected |
| triple store, `libs/triple-store` | reference to the hypertrie | `load_ttl`, `eval_select`, `eval_ask`, `count`, `contains`, `size`, rdf:Lists | evaluation library, bulk inserter | the tensor is the file, the solutions are the query's |
| tools `deduplicated-nt`, `rdf2ids` | hashes seen, a counter | one pass over a file | the files the loader reads | nothing lost, nothing twice, the limit kept |
| rdf-tensor | none (type aliases) | | hypertrie, query libraries | |
| error listener, persistent terms | none; bytes of terms | | | |

What is hard about it: lookups race with insertions behind a lock that is given
up and taken again; I/O threads, workers, the main thread and a signal handler
share the server; two clocks run for one request; a chunk is written after the
code that sent it has gone on; either program can be killed at any step and
only a mark per directory is left to tell; the visitor keeps its place in
nested patterns by pushing, resizing and clearing five stacks, and numbers what
it finds in types that are narrow; bulks, errors and limits cut a file anywhere. `PROJECT.json`
lists these hazards one by one, each at its line, with the properties that
would notice it going wrong.

## Modules

| Module | Models | Checked by |
|---|---|---|
| `TermDictionary` | what the node store promises: a dictionary that only grows | `DictionarySpec` of `NodeStore` |
| `NodeStore` | the node store, one action per stretch between lock operations | `MCNodeStore` |
| `QueryCache` | `SyncedLRUCache` with the queries' parser under its lock | `MCQueryCache` |
| `Server` | `HTTPServer`, `Endpoint::operator()`, executor, connections, main thread | `MCServer` |
| `Answer` | `handle_query` of the three endpoints, JSON writer, callbacks, deadline | `MCAnswer` |
| `StorageLifecycle` | `main` of the loader and of the server up to serving, two directories | `MCStorageLifecycle` |
| `RequestService` | what the server promises its clients: a request is executed once and answered, or turned away | `ServiceSpec` of `Server` |
| `QuerySyntax` | the text of a query; prologue, terms, literals, paths: `PrologueVisitor` and the leaves of `SelectAskQueryVisitor` | `MCQueryEngine` |
| `QueryGraph` | `SelectAskQueryVisitor`: WHERE clause to operand dependency graph, call by call (extends `QuerySyntax`) | `MCQueryEngine` |
| `RdfFile` | a file as the parser's iterator gives it, statements and errors | by the next three |
| `TripleStore` | `load_ttl`, slices, rdf:Lists | `MCQueryEngine` |
| `RdfTools` | `main` of the two tools | `MCQueryEngine` |
| `QueryMeaning` | what the text of a query means, by recursion on paths and groups (extends `QueryGraph`) | `MCQueryEngine` |
| `QueryEngine` | a file through a tool and the loader into the store, a text through the visitors, evaluation, and the properties that compare the visitor's graph with what the text means (extends `QueryMeaning`, `TripleStore`, `RdfTools`) | `MCQueryEngine` |
| `NodeStoreProofs`, `ServerProofs`, `StorageLifecycleProofs`, `QueryCacheProofs`, `AnswerProofs` | theorems | TLAPS |
| `QueryGraphProofs` | lemmas on the visitor, what each of its actions keeps, and on what texts mean | TLAPS |
| `QueryEngineProofs` | theorems on `TripleStore`, `RdfTools` and `QueryEngine`, and lemmas on what the visitor rejects | TLAPS |
| `SequenceFacts` | lemmas on sequences and sums over them, for the last three of these | TLAPS |

The modules meet at these points. `Server`'s `Respond` and `TimeoutThrows` are
what a whole behaviour of `Answer` comes to for the executor (`returned` and
`thrown`). `Answer`'s `Parsed` and `ParseFails` are `QueryCache`'s return with
a value and without one; `QueryCache`'s `Unparsable` are the texts
`QueryEngine` rejects, and those that end the process are `Server`'s
`TimeoutThrows` again. `StorageLifecycle`'s `LoadsBatch` is a bulk of
`TripleStore`'s `Add`. The IDs and terms of `QueryEngine` are those of
`NodeStore`. `StorageLifecycle`'s `ShutsDown` is the step after `Server`'s
`Close`.

### NodeStore

`data2id`, `id2data` and `next` are the maps and the counter of
`MetallNodeTypeStorage`; the pointer to a persistent term is the term.
`readers` and `writer` are the `shared_mutex`. A call of
`lookup_or_insert_impl` is the actions `LookupShared`, then `HitUnlock` and
`Deref` (lines 77-79), or `FindMiss` (75), or `MakeMiss`, `LookupUnique` and
either `Insert` (62-69) or `UniqueHit` and `Deref` (71-72). Taking a lock and
the `find` after it are one step, and so are the insertion and the release:
nothing another thread does can be told apart in between. `Deref` is a step of
its own because the code reads `found->second` after it has released the lock.
If an insertion of that kind has come in between (`Invalidate`), the value is
any ID of the kind or garbage (`Wild`). `id` remembers what was known when the
call began; it is a history variable for the properties.

### QueryCache

The mutex is held for the whole of `operator[]`, so one call is in progress at
a time and the thread is immaterial. The call is split where an exception can
leave it: parsing (`ParseThrows`), and the insertion into the map after the
list already has the query (`InsertThrows`). Nodes have addresses, which the
list's allocator uses again, so that a dangling iterator would be seen.
`recency` and `failed` are history variables.

### Server

A connection is `closed`, `open`, in a handler before (`handling`) or after
(`checked`) the admission check of `Endpoint.cpp:20`, or `waiting` for a task.
A task is queued, running, or `ending`: it has answered and is not yet off
`num_topologies`. The main thread goes `starting`, `check`, `pausing`, `pause`
(lines 114-115), `stop` (acceptor closed, `cleanup_func` waits), `join`
(`wait()`), `destroyed` (the executor's destructor waits), `closed`. restinio
and taskflow are external and modelled by what the code asks of them: a limit on
connections, no pipelining, a request time-out that closes the connection and
leaves the task alone, `wait_for_all()` that returns when no task is counted. A signal that is
sent to the process is delivered to the main thread, as Linux does when that
thread can take it, so it ends `pause()`.

`RequestService` is what is left of this for a client: it has asked, its
request is executed, or it is idle; an execution without a client is an orphan.
`Client` and `Orphans` are the refinement mapping. An answer that reached a
connection that had not asked, two answers to one request, or a task that
answered a later request of its connection would each be a step the service
does not have.

### Answer

A document is a sequence of parts: the head, one part for each solution, the
tail. The task and the I/O thread run concurrently; `outbox` is what has been
posted and not yet written. The evaluation may stop at the deadline without a
word (`EvalEnds` with `cut`), as the generator of the evaluation library does,
or throw.

### StorageLifecycle

A directory is there or not, marked or not, and holds a number of bulks, no
tensor, or a torn mixture; `old` says that its file is not the one the operator
has had loaded last. What Metall does is external: `open_only` takes the
mark away, the destructor puts it back, `snapshot` marks its copy at the end,
`open_read_only` leaves the mark alone; a `snapshot` that fails leaves a torn
copy or nothing (`CopyFails`, `RestoreFails`). `Dies` covers kills, failing opens, the
throw of `load_ttl`, `exit(0)` with an open storage (`TentrisServer.cpp:141`)
and the exception of `-t 0` (line 155). The programs take no lock on a
directory; two of them in one directory at once is outside Metall's contract,
`contended` records it, and the properties are about all other behaviours.

### QueryGraph and QueryEngine

A text is what the grammar makes of it: a prologue, a form, a SELECT clause and
a group of items; an item is a block of subjects with their properties, verbs
and objects, a UNION, an OPTIONAL, a subquery, or something that is passed
over. Nothing stops at a syntax error: `SPARQLQuery::parse` installs neither an
error listener nor an error strategy, so the visitors are given the trees that
ANTLR makes of malformed texts too. What they find missing there is in the
grammar of the model: a WHERE clause or a pattern in braces (lines 14, 22, 83,
and 94 where it is nested), a list of objects (204, 216), a verb (198, 210), a
term, a path (312). `QuerySyntax` has the visit functions for what is in a
triple: a visitor returns a node, or throws, or follows a null pointer
(`Crashed`: a prefix with no name behind it, line 248, a term with no
`graphTerm()`, a verb with no `verbSimple()`, or a nested group that is a
subquery or has nothing in it, line 94). An IRI is a
sequence of parts, so a prefixed name is the parts of its namespace followed by
its own, and its equality with a written IRI is seen.

`QueryGraph` has the visitor's members and its five stacks as variables. The
visit functions call each other recursively; `visits` holds the calls that are
still to be done, the one in progress first, so the recursion is a machine with
a stack. An action is what a visit function does before it calls others, and
puts their calls in place of its own; what it does after they have returned is
a call of its own (`Resize`, `VisitOptionals`, `CloseConjunction`,
`LeaveOptional`, `EndWhereClause`). A throw drops all calls (`Throw`).

`QueryMeaning` defines triples, dependencies and connections by recursion on
branches and knows neither stacks nor calls; `QueryEngine`'s properties compare
the two as bags, because the code's graph may hold an edge twice. The recursive
definitions are functions on `Path` and `Group`. The parser's trees are finite,
which `DepthAssumption` says: `PathDepth` and `GroupDepth` are less for what is
inside of a path or a group.
Variables are numbered by `Letters` letters, after which the first comes again.

### RdfFile, TripleStore, RdfTools and QueryEngine

`QueryEngine` takes a request from its beginning. A file is given to a tool or
to the loader; `load_ttl` reads it statement by statement, errors among them,
and the bulk inserter puts full bulks, and in its destructor the last one, into
the tensor. Then a list is read, or a text is parsed and its query evaluated.
A slice is what the tensor gives for a key; the evaluation is a library that is
not in the repository, and for queries of one group, where it is a plain join,
`Joins` says what it computes. `get_rdf_list` is followed for `MaxItems` rounds,
because it does not end by itself (finding 5). The tools write the triple where
the code prints it; `Hash` may collide.

## Runs

| Run | Question | Bounds |
|---|---|---|
| `node_store` | Do the maps agree, do lookups and resolutions answer rightly, is the store a dictionary, do calls without insertion return? | 2 threads; 3 IRIs, one reserved, and 1 literal |
| `query_cache` | Is the cache bounded, in order, and free of dangling iterators after failures; does `prune` end? | 3 queries and 1 that does not parse; 9 shapes; 4 nodes |
| `server` | Is the server a `RequestService`, who is admitted or turned away, do requests and the shutdown end? | 2 connections, workers, I/O threads; 4 tasks |
| `storage` | Is what is served whole and current; is the snapshot whole and kept? | 2 servers, 2 bulks, any number of files one after the other |
| `answer` | Is each answer whole, in order, right? | 4 entries of 1 or 2 solutions; buffer of 2 |
| `query_engine` | Does the graph mean the text, are its edges sound and the stacks there at every step, and are the right texts rejected; is the file in the store; are solutions and counts right; do the tools keep what they should? | nesting to depth 3; every kind of term and verb, missing ones among them; `Letters` = 4 for up to 5 variables; bulks of 2; files of up to 4 statements; `MaxItems` = 3 |
| `node_store_race` | Does `find_or_make_id` return its term's ID? It does not: finding 1. | as `node_store` |
| `server_timeout` | Does the server survive a time-out? It does not: finding 2. | 1 connection, 1 worker |
| `storage_recovery` | Is "No snapshot found" true? Not always: finding 3. | 1 server, 1 bulk |
| `answer_callback` | Do callbacks find the frame they write to? No: finding 4. | 1 entry |
| `query_lists` | Does `get_rdf_list` collect the items of a list? It does not: finding 5. | as `query_engine` |
| `server_signal` | Does every SIGINT stop the server? Not one between the test and `pause()`: finding 6. | 1 connection, 1 worker |

Why the bounds are enough. The race on a node store needs one thread that
looks up and one that inserts a second term of the same kind; the reserved IRI
makes a counter that starts too low collide. Two threads can wait for one
writer. Three queries overfill a cache of soft limit 1 or 2, and a fourth node
leaves room for one that a failed insertion left behind. The server has as many
tasks as its limit allows (workers less one, plus I/O threads) and one more.
Two servers are enough for one to find what the other left, and for both to be
in each other's way. Four entries fill the buffer twice, so that a failed write
can come before, between and after chunks. A file of four statements fills two
bulks or leaves one half full, with an error in the middle; two of the triples
have one hash. One item and a rest are all it takes to see that a list is not followed.
Five variables are one more than there are letters. Depth 3 puts UNION in OPTIONAL in
UNION and OPTIONAL in OPTIONAL, with branches before and after.

Deadlock is checked where the system cannot stop: the node store, the cache and
the storage. A server that was shut down or has crashed, a request that was
answered and a query that was evaluated may stop.

Fairness. `NodeStore`: a thread inside a call keeps running (weak fairness of
its steps), and no lock prefers it, so only calls that need no insertion are
shown to return. `QueryCache`: the thread that holds the mutex runs on.
`Server`: threads that can run do run; a queued task is in the end taken by a
worker although others come and go (strong fairness of `Start`: taskflow's
queues are not overtaken for ever); clients, timers and signals promise
nothing. `StopCompletes` is about the signals that the main thread's test sees or
that end its `pause()`, `SigintStops` about all of them; both
assume that the clients fall silent: as long as they
send requests over the connections they have, `wait_for_all()` may wait on.
`Answer`: the task and the I/O thread run, and a write ends.

### Findings

1. `PersistentNodeStorageBackendImpl.cpp:72,79` reads an iterator after its lock
   is released.
2. `Endpoint.cpp:28` answers by a request handle that line 23 has moved from, so
   a time-out ends the process.
3. `TentrisServer.cpp:114` opens the snapshot for writing; a crash during the
   reconstruction makes the next server deny it.
4. `SparqlStreamingEndpoint.cpp:36`: the callback outlives what it captures.
5. `TripleStore.cpp:65,72,76`: `get_rdf_list`, which nothing calls, reads `list`
   where it should read `head`, and moves on to the item instead of the rest. It
   collects the first item again and again, and returns only of lists that are
   empty, have no rest, or begin with rdf:nil; a list with no rest at all, which
   is malformed, it accepts (line 79).
6. `HTTPServer.cpp:114-115`: a SIGINT between the test of the flag and `pause()`
   sets the flag and wakes nobody; the server stays up until the next one.

Two more disagreements between code and documents have no run, since the model
takes the code's side in a single definition and there is nothing to explore:
no code sets `SPARQLQuery::ask_` (`SPARQLQuery.hpp:28`), so `/sparql` answers an
ASK query with a document of solutions instead of true or false
(`TripleStore.hpp:80-83`; `SparqlAnswerIsWhole` is about SELECT); and
`visitPathElt` (`SelectAskQueryVisitor.cpp:332`) does not look at what modifies
an element of a path, so `p*`, `p+` and `p?` are answered like `p`, where every
other property path is rejected with "Property paths are not supported yet"
(lines 316-339). `RejectsRightly` lets such a path go either way.

`LookupSound` and `Recoverable` say what still holds beside findings 1 and 3.
More that the models show and no property forbids: `/stream` and `/count`
pass a result the deadline has cut off as complete (only `/sparql` calls
`check_timeout`), and a task submitted after `wait_for_all()` returned runs on
an endpoint that is being destroyed (`OnlyLateTasksOutlive` shows that no other
task does). A nested subquery, a prefix with no name behind it, or a term, a
verb or a nested pattern that is missing ends the process (`RejectsRightly` says
that of the texts in the model nothing else does). `/count` of a DISTINCT query,
or of a single triple pattern with a variable twice, is not the number of
solutions (`CountAgrees` is about all others). A loader that is killed over a new file
leaves a server that answers from the last one's snapshot (`ServesCurrent` says
until when).

## Proofs

TLC shows the properties on the instances above; the theorems show them for all
values of the constants, from the assumptions of the modules
(`StoreAssumption`, `ServerAssumption`, `LifecycleAssumption`,
`CacheAssumption`, `AnswerAssumption`, `FileAssumption`, `ToolAssumption`,
`GrammarAssumption`, `DepthAssumption`, `LettersAssumption`, `RequestAssumption`).
Each component's proofs have an invariant (`IInv`, or `StoreInv`, `ToolInv` and
`EngineInv` where they share a module), which was first
checked by TLC, a lemma that `Init` implies it, one lemma per action that
preserves it, and the theorems.

`NodeStoreProofs`. `Consistent` alone is not inductive: that an insertion finds
its term absent follows from who holds the lock. `IInv` therefore says that a
writer excludes readers and other writers, which thread is where while it holds
a lock, and that what a thread has found is still so while its lock lasts.
From it follow `TypeOK` (no counter is below the first ID of its kind, so none hands
out a reserved one), `Consistent`, `LookupSound`, `ResolveRight`, and that
the store implements `TermDictionary` (`ImplementsDictionary`): `Insert` maps
to `Learn`, every other step stutters. `SizesAreBetween` needs more, because
`size()` reads the storages at different moments: no storage shrinks, each part
of the sum was that storage's size at some moment of the call, and the parts
not yet read are at least what they were when it began. `HoldersDoNotWait` rules
out a deadlock: a thread that holds a lock is never at a line that takes one.

`StorageLifecycleProofs`. `IInv` ties the marks to the contents: without
contention a marked index is either empty and the loader still at it, or whole;
a marked snapshot is whole; a program that has an index open knows what is in
it. `OnlyWholeIndexesAreServed`, `SnapshotsAreWhole` and `AlwaysRecoverable`
follow. `OldIndexesAreNotServed` adds that once the loader is done neither
directory is old, and nothing makes one old but the operator.

`ServerProofs`. `ServesItsClients` shows that the server implements
`RequestService`, one lemma for each of its steps: which client changes, and by
how much the number of orphans, a cardinality of a set the step adds one task
to or takes one from. The service's capacity is the bound below, and that a
waiting connection has one task of its own (`AnswersGoHome`) is what keeps an
answer from two clients. `AdmissionBound` needs the count of the requests that have
passed the check and not submitted: tasks and those requests together stay
within workers less one plus I/O threads, since each of them occupies an I/O
thread. `RejectionsHaveOrphans` is a counting argument: if every task had a
waiting connection of its own, the connection of the request being rejected
would be one too many, for there are as many connections as workers.

`QueryCacheProofs`. `NoDangling` and `ReturnsWhatWasAsked` for any number of
queries, nodes and any limits: the nodes of the list are allocated, no node is
in it twice, and each entry of the map leads to its own node. That
`prune()` keeps the node `operator[]` returns a reference to rests on the map
having more entries than the soft limit, all of them in the list, so that the
front node is not the last. `StaysBounded` needs that the bound holds through a
call until its insertion, and again from the end of `prune()`;
`PrunesToTheLimit` that only an eviction shrinks the map, by one, above the
limit, and that the map is finite, its queries being keys of nodes in the list.
`KeepsTheLastUsed` is an argument on sequences: the i-th node of the list has the
i-th of the queries in `recency`, and the map leads to it (`RecencyInv`). A
splice to the front does the same to both (`UseMovesToFront`), and `pop_back`
takes the query used longest ago, the only one the map loses. Between
`emplace_front` and the insertion the list is one node ahead (`Pending`), and a
failed insertion leaves that node behind without an entry, so the agreement is
claimed until then (`failed`). Since the list's places and the map's entries are
then in bijection (`MapHasTheList`), the cache holds the queries used last.

`AnswerProofs`. The invariant of `/stream` says that what the client has, the
outbox and the buffer, one after the other, are the document of the entries seen
so far, as long as no write has failed; after one, the client has a beginning of
that document. From it follow `StreamKeepsTheOrder` and
`StreamInTimeSendsTheWhole`. `/sparql` has one buffer, which is sent only after
`check_timeout` (`SparqlSendsTheWhole`); `/count` has the number of solutions of
the entries seen so far (`CountCountsSolutions`).

`QueryGraphProofs`. The visitor is a machine with a stack of calls, and the text
may be of any size, so what is claimed of it has to say something of the calls
that are still to be done. `Shape` does: a state of the stacks is how many groups
are open, how many blocks and OPTIONALs each of them has, and how many
conjunctions are begun; every call is a move from such a state to another
(`Moves`), and the calls still to be done are a way from a state that the stacks
reach to the one where all are empty (`MoveAll`, `Fits`). An action replaces its
call by others, whose moves one after the other make the one it stands for.
So no call finds a stack empty that it takes from, a branch of a UNION leaves
at least the blocks it found, and at the end the stacks are empty
(`StacksAreSound`). The calls of `visitWellDesignedPattern` are the hard case:
its blocks grow the top of two stacks, its branches each come with the resize
that cuts them back, and only the last one may leave less than it has found.
`Aligned` (`NamesAndIds`) says that every variable of the triple patterns, of the
projection, and of the subject and verb that have been read is registered, once,
so that a registration changes no operand that is there. For the graph
(`GraphIsSound`) soundness alone is not inductive: that no connection is also a
dependency needs that an operand of a conjunction that is not at its end has no
connections, and dependencies only within its group (`Fresh`); that an edge
drawn backwards has its forward one needs that what is within an OPTIONAL
comes after what is around it (`Ordered`); and that the pairs `group_connections`
draws are not joined already needs both.

`QueryEngineProofs`. `EngineInv` adds where the request is: nothing is parsed
before the store has been filled, and what has been parsed has no calls left.
`EngineInvariance` takes the invariants of store, tools and visitor through
its steps. What follows is about the store and the tools.
`FileIsLoaded`: what has been read so far is what is in the
tensor together with the bulk, which is never full. `ToolsWriteWhatTheyRead`: the hashes seen are those of what is
written, each once; everything read has its hash among them; the count is the
number of lines, except at the limit.

That the answers are right takes the whole of it. A slice has an entry for a key
exactly if the tensor has the triple that the key makes of the triple pattern
(`SliceEntry`). Because names and IDs are in step, and different while the
letters last, an assignment to IDs that the join finds and an assignment to
names that solves the query are the same but for the renaming, and there is one
for the other (`FoundAndSolutions`). The values of the entries are counted fibre
by fibre: a sum over a finite set is any function that starts at 0 and grows by
an element's value (`SumIsMeasure`), and the number of solutions whose
projection is among the keys seen is one (`SelectTotal`). A single triple
pattern, which `/count` takes the size of, has one solution for each entry of
its slice unless a variable is in it twice (`SingleTotal`). That the tensor holds
the triples of the file comes from the invariants of store and tools, and
`AnswerInv` says that what is evaluated stays what it was. Hence
`AnswersAreSolutions` and `CountsAreRight`.

That the triple patterns are those of the text (`TriplesAreRight`) compares a
machine with a recursive definition, as bags. Two sequences are the same bag if
for every weight on their elements, a function into the naturals, they weigh the same: for
the weight that is 1 at one element and 0 elsewhere they then have it equally
often. Over all branches the text's triples weigh a sum, and what
each pending call adds to it can be told from its argument and a context: the
blocks and OPTIONAL groups at the top of the stacks, the prefixes, the subject
and the verb. So a call leads from a context and a number to another context and
number, and `LeadsTo` says that the calls still to be done lead from where the
visitor is to the sum of the text. Every action keeps this, since what it puts in
place of its call leads to the same (`VisitLeadsToAll`). The hard step is again
`visitWellDesignedPattern`. What is on the stacks there, of the groups around, is
in every branch, so what a pattern leads to is a sum over the joined branches of
its own UNIONs and of those it has been given; distributing a join over the last UNION,
and each branch's groups over those, is an equation of sums. It is proved by
induction on `GroupDepth`; that a recursive definition on trees has the function
it says is a lemma of its own (`Recursion`).

That rejections are right (`RejectionsAreRight`), for all trees the model has,
malformed ones among them, needs the same kind of account,
in both directions: what is rejected has to be unsupported, and what is parsed
to the end has to be supported, so no part of the text may get lost. Call a
group fine, for a set of terms and one of verbs, if nothing in it is a subquery
and all triples that are visited are made of these (`FineGroups`). `Course`
says that a query is fine if and only if the calls still to be done are, with
the blocks and OPTIONAL groups that wait on the stacks. The two ways differ in
what they say of the stacks: within a conjunction the blocks at the top have
calls of their own already and may be forgotten, between the branches of a UNION
they are kept for the next one, and that a UNION has a branch at all is what
keeps those before it from being dropped unseen (the grammar has no empty UNION,
which `Item` says). The argument runs twice, for what is supported and for what
does not end the process, since whether a visitor throws and whether it follows
a null pointer are such sets of terms and verbs (`TermJudged`,
`VerbJudged`, which follows paths in parentheses inward, `TwoJudges`). The prefixes a
visitor looks at are those of the text because its call comes behind the
prologue, which the account of the triple patterns already knows
(`PrefixesAre`). For `*` the SELECT clause is the last call (`Clauses`), so all triple
patterns are there, and they name a variable if and only if those of the text do
(`NamedAre`).

`SequenceFacts` has what these proofs need of `FlattenSeq`, `Reverse`, of
prefixes, and of sums over sequences and over pairs of them. It has an induction over finite sets that is stated for a set of sets
instead of a predicate (`SetInduction`), from the well-foundedness of inclusion,
so that no operator need be instantiated.

Only model-checked: the liveness properties (`ReadersReturn`, `LockReleased`,
`RequestsEnd`, `StopCompletes`, `TaskEnds`), which are out of the prover's
reach; and what compares the visitor's edges with `QueryMeaning`
(`DependenciesAreRight`, `ConnectionsAreRight`): what a call adds to the edges depends on the operands on four stacks, for which no
context as small as that of the triple patterns has been found.
Of what liveness rests on, the part that is not about fairness
or enabled actions is proved: each step of a call of the node store or the cache,
and of a task of an endpoint, brings it nearer to its end by a measure in the
naturals (`CallsAdvance`, `TasksAdvance`), so that none of their loops (the second
lookup, `prune()`, the chunks after a failed write) can go on for ever.
`OneTaskPerConnection` and the `TypeOK` of cache, server and storage are only
proved.

## Not modelled

`rdf-tensor`, the hypertrie and the evaluation of queries with OPTIONAL or UNION
(a library, whose source is not here; the graph that it is given is modelled);
the layout of persistent terms; the characters of IRIs and literals, so also
that the escapes of a string are kept as written (`visitString`); which tree ANTLR's
recovery makes of a malformed text, and of what may be missing in one all but the
parts named above (a group in a WHERE clause, a SELECT clause, a subject, an
element of a path, parts of the prologue); the width of
operand numbers, which repeat after 256 triple patterns, more than a run can
build; the error listener, which nothing installs; the cache's `clear` and
`empty`, which nothing calls; options, logging, build and packaging; two programs
in one directory, which Metall excludes and nothing prevents.

## Plan

Done: the modules above, in the order node store, storage, cache, server,
answers, query graph, query engine, because everything in an index depends on
the dictionary, and on the index being whole; then the text of queries, the
triple store, the tools and the abstract server.

Done, proofs: every safety property and action property of the components below
the queries, the refinements of both abstract specifications, the measures, and
of the queries the visitor's stacks, names, triple patterns, rejections and the soundness of
the graph, the store, the tools, and the solutions and their number.

Next, models: `Server`, `QueryCache` and `Answer` composed, with the deadline
and the time-out of the connection on one clock; an abstract cache that
`QueryCache` implements. Next, proofs: the
dependencies and connections of a text, by the argument of its triple patterns
with a context that has the operands of the stacks.
