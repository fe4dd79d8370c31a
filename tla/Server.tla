-------------------------------- MODULE Server --------------------------------
(***************************************************************************)
(* The HTTP server of tentris_server: restinio's I/O threads hand requests *)
(* to the worker threads of a taskflow executor, requests run into two     *)
(* time limits, and SIGINT makes the main thread shut everything down.     *)
(*                                                                         *)
(* A connection carries one request at a time.  A request that is accepted *)
(* becomes a task, which may outlive its connection: when the connection   *)
(* is closed after 0.95 of the timeout, the task runs on.                  *)
(***************************************************************************)
EXTENDS Integers, FiniteSets

CONSTANTS Conns,    \* the connections restinio keeps open in parallel
          Tasks,    \* identities of tasks; a bound on tasks at a time
          Workers,  \* cfg_.threads: workers, and the limit on connections
          PoolSize, \* the number of I/O threads
          NoConn

ASSUME ServerAssumption == /\ Workers \in Nat \ {0}
                           /\ PoolSize \in Nat \ {0}
                           /\ IsFiniteSet(Conns) /\ Cardinality(Conns) = Workers
                           /\ IsFiniteSet(Tasks)
                           /\ NoConn \notin Conns

VARIABLES conn,           \* connection -> its state
          task,           \* task -> its state, "none" if there is no such task
          owner,          \* task -> the connection that waits for its answer
          num_topologies, \* of the executor
          signalReceived,
          main,           \* where the main thread is
          waited,         \* cleanup_func's wait_for_all() has returned
          late,           \* tasks submitted after that
          alive           \* the process has not been killed by an error

http  == <<conn, owner>>
exec  == <<task, num_topologies, late>>
ctrl  == <<signalReceived, main, waited>>
vars  == <<http, exec, ctrl, alive>>

ConnStates == {"closed", "open", "handling", "checked", "waiting"}
TaskStates == {"none", "queued", "running", "ending"}
MainStates == {"starting", "check", "pausing", "pause", "stop", "join",
               "destroyed", "closed"}

Handling == {c \in Conns : conn[c] \in {"handling", "checked"}}
Live     == {i \in Tasks : task[i] # "none"}
Busy     == {i \in Tasks : task[i] \in {"running", "ending"}}

Listening  == main \in {"starting", "check", "pausing", "pause"}
IoRunning  == Listening \/ main = "stop"

Init == /\ conn = [c \in Conns |-> "closed"]
        /\ task = [i \in Tasks |-> "none"]
        /\ owner = [i \in Tasks |-> NoConn]
        /\ num_topologies = 0
        /\ signalReceived = FALSE
        /\ main = "starting"
        /\ waited = FALSE
        /\ late = {}
        /\ alive = TRUE

SetConn(c, s) == conn' = [conn EXCEPT ![c] = s]
SetTask(i, s) == task' = [task EXCEPT ![i] = s]

-----------------------------------------------------------------------------
(* Connections, as restinio is configured to treat them.                   *)

Connect(c) == /\ alive /\ Listening
              /\ conn[c] = "closed"
              /\ SetConn(c, "open")
              /\ UNCHANGED <<owner, exec, ctrl, alive>>

\* The client goes away; a task that works for it is not told.
Disconnect(c) == /\ alive
                 /\ conn[c] \in {"open", "waiting"}
                 /\ SetConn(c, "closed")
                 /\ owner' = [i \in Tasks |-> IF owner[i] = c THEN NoConn ELSE owner[i]]
                 /\ UNCHANGED <<exec, ctrl, alive>>

\* An I/O thread has read a request and calls the handler.  Stopping the
\* server closes the acceptor; the I/O threads run until cleanup_func is done.
Request(c) == /\ alive /\ IoRunning
              /\ conn[c] = "open"
              /\ Cardinality(Handling) < PoolSize
              /\ SetConn(c, "handling")
              /\ UNCHANGED <<owner, exec, ctrl, alive>>

\* Mutant of RequestTimeout: the task still knows the connection.
TimeoutKeepsOwner(c) == /\ alive
                        /\ conn[c] = "waiting"
                        /\ SetConn(c, "closed")
                        /\ UNCHANGED <<owner, exec, ctrl, alive>>

\* handle_request_timeout: the connection is closed, the task goes on.
RequestTimeout(c) == /\ alive
                     /\ conn[c] = "waiting"
                     /\ SetConn(c, "closed")
                     /\ owner' = [i \in Tasks |-> IF owner[i] = c THEN NoConn ELSE owner[i]]
                     /\ UNCHANGED <<exec, ctrl, alive>>

-----------------------------------------------------------------------------
(* The handlers: Endpoint::operator() and the one for unmatched requests.   *)

NotFound(c) == /\ alive
               /\ conn[c] = "handling"
               /\ SetConn(c, "closed")
               /\ UNCHANGED <<owner, exec, ctrl, alive>>

\* Mutant of CheckAdmits: <= for <.
AdmitsOneMore(c) == /\ alive
                    /\ conn[c] = "handling"
                    /\ num_topologies <= Workers
                    /\ SetConn(c, "checked")
                    /\ UNCHANGED <<owner, exec, ctrl, alive>>

\* The check of line 20 passes.
CheckAdmits(c) == /\ alive
                  /\ conn[c] = "handling"
                  /\ num_topologies < Workers
                  /\ SetConn(c, "checked")
                  /\ UNCHANGED <<owner, exec, ctrl, alive>>

\* Mutant of Reject: one too early.
RejectEarly(c) == /\ alive
                  /\ conn[c] = "handling"
                  /\ num_topologies + 1 >= Workers
                  /\ SetConn(c, "closed")
                  /\ UNCHANGED <<owner, exec, ctrl, alive>>

\* request_rejected(): restinio answers and closes the connection.
Reject(c) == /\ alive
             /\ conn[c] = "handling"
             /\ num_topologies >= Workers
             /\ SetConn(c, "closed")
             /\ UNCHANGED <<owner, exec, ctrl, alive>>

\* silent_async; once the I/O threads are told to end, nobody waits for the
\* answer.
Submit(c, i) == /\ alive
                /\ conn[c] = "checked"
                /\ task[i] = "none"
                /\ SetTask(i, "queued")
                /\ num_topologies' = num_topologies + 1
                /\ late' = IF waited THEN late \cup {i} ELSE late
                /\ SetConn(c, IF IoRunning THEN "waiting" ELSE "closed")
                /\ owner' = [owner EXCEPT ![i] = IF IoRunning THEN c ELSE NoConn]
                /\ UNCHANGED <<ctrl, alive>>

-----------------------------------------------------------------------------
(* The task: handle_query of an endpoint, run by a worker.                 *)

Start(i) == /\ alive
            /\ task[i] = "queued"
            /\ Cardinality(Busy) < Workers
            /\ SetTask(i, "running")
            /\ UNCHANGED <<http, num_topologies, late, ctrl, alive>>

\* Mutant of Respond: handle_query returns without an answer.
RespondNothing(i) == /\ alive
                     /\ task[i] = "running"
                     /\ SetTask(i, "ending")
                     /\ owner' = [owner EXCEPT ![i] = NoConn]
                     /\ UNCHANGED <<conn, num_topologies, late, ctrl, alive>>

\* done() of a response, 200 or 400: it reaches the connection if that is
\* still there.
Respond(i) == /\ alive
              /\ task[i] = "running"
              /\ SetTask(i, "ending")
              /\ conn' = [c \in Conns |-> IF c = owner[i] THEN "open" ELSE conn[c]]
              /\ owner' = [owner EXCEPT ![i] = NoConn]
              /\ UNCHANGED <<num_topologies, late, ctrl, alive>>

\* Mutant of TimeoutThrows: the query is tried once more.
TimeoutRetries(i) == /\ alive
                     /\ task[i] = "running"
                     /\ SetTask(i, "queued")
                     /\ UNCHANGED <<http, num_topologies, late, ctrl, alive>>

\* handle_query throws: the handler of line 24 dereferences `req', which line
\* 23 has moved from.
TimeoutThrows(i) == /\ alive
                    /\ task[i] = "running"
                    /\ alive' = FALSE
                    /\ UNCHANGED <<http, exec, ctrl>>

\* The executor takes the finished task off its count.
Finish(i) == /\ alive
             /\ task[i] = "ending"
             /\ SetTask(i, "none")
             /\ num_topologies' = num_topologies - 1
             /\ late' = late \ {i}
             /\ UNCHANGED <<http, ctrl, alive>>

-----------------------------------------------------------------------------
(* The main thread, HTTPServer::operator() from line 81 on and what follows.*)

\* SIGINT before the handler is installed kills the process.
SignalEarly == /\ alive /\ main = "starting"
               /\ alive' = FALSE
               /\ UNCHANGED <<http, exec, ctrl>>

\* The handler sets the flag; pause() returns if the main thread is in it.
Signal == /\ alive /\ main # "starting"
          /\ signalReceived' = TRUE
          /\ main' = IF main = "pause" THEN "check" ELSE main
          /\ UNCHANGED <<http, exec, waited, alive>>

InstallHandlers == /\ alive /\ main = "starting"
                   /\ main' = "check"
                   /\ UNCHANGED <<http, exec, signalReceived, waited, alive>>

\* The test of line 114 and the call of line 115 are two steps.
SeesNoSignal == /\ alive /\ main = "check"
                /\ ~signalReceived
                /\ main' = "pausing"
                /\ UNCHANGED <<http, exec, signalReceived, waited, alive>>

Pause == /\ alive /\ main = "pausing"
         /\ main' = "pause"
         /\ UNCHANGED <<http, exec, signalReceived, waited, alive>>

Stop == /\ alive /\ main = "check"
        /\ signalReceived
        /\ main' = "stop"
        /\ UNCHANGED <<http, exec, signalReceived, waited, alive>>

\* Mutant of Cleanup: without wait_for_all().
CleanupAtOnce == /\ alive /\ main = "stop"
                 /\ waited' = TRUE
                 /\ main' = "join"
                 /\ conn' = [c \in Conns |-> IF c \in Handling THEN conn[c] ELSE "closed"]
                 /\ owner' = [i \in Tasks |-> NoConn]
                 /\ UNCHANGED <<exec, signalReceived, alive>>

\* cleanup_func: wait_for_all() returns, and the I/O threads are told to end,
\* which they do when the handler they are in returns.
Cleanup == /\ alive /\ main = "stop"
           /\ num_topologies = 0
           /\ waited' = TRUE
           /\ main' = "join"
           /\ conn' = [c \in Conns |-> IF c \in Handling THEN conn[c] ELSE "closed"]
           /\ owner' = [i \in Tasks |-> NoConn]
           /\ UNCHANGED <<exec, signalReceived, alive>>

\* wait(): the I/O threads are joined, then HTTPServer is destroyed and with it
\* the endpoints and the query cache.
Join == /\ alive /\ main = "join"
        /\ Handling = {}
        /\ main' = "destroyed"
        /\ UNCHANGED <<http, exec, signalReceived, waited, alive>>

\* The executor's destructor waits for its tasks; then the storage is closed.
Close == /\ alive /\ main = "destroyed"
         /\ num_topologies = 0
         /\ main' = "closed"
         /\ UNCHANGED <<http, exec, signalReceived, waited, alive>>

-----------------------------------------------------------------------------
HttpStep(c) == NotFound(c) \/ CheckAdmits(c) \/ Reject(c) \/ \E i \in Tasks : Submit(c, i)
TaskStep(i) == Start(i) \/ Respond(i) \/ TimeoutThrows(i) \/ Finish(i)
MainStep    == InstallHandlers \/ SeesNoSignal \/ Pause \/ Stop \/ Cleanup \/ Join \/ Close

Next == \/ \E c \in Conns : \/ Connect(c) \/ Disconnect(c) \/ Request(c)
                            \/ RequestTimeout(c) \/ HttpStep(c)
        \/ \E i \in Tasks : TaskStep(i)
        \/ MainStep \/ Signal \/ SignalEarly

Spec == Init /\ [][Next]_vars

\* Threads that can run do run: a handler that is called returns, a task ends
\* because of its deadline if nothing else, and the executor takes queued tasks
\* in turn.  Clients and signals promise nothing.
FairSpec == /\ Spec
            /\ WF_vars(MainStep)
            /\ \A c \in Conns : WF_vars(HttpStep(c))
            /\ \A i \in Tasks : WF_vars(TaskStep(i)) /\ SF_vars(Start(i))
-----------------------------------------------------------------------------
(* Properties.                                                              *)

TypeOK == /\ conn \in [Conns -> ConnStates]
          /\ task \in [Tasks -> TaskStates]
          /\ owner \in [Tasks -> Conns \cup {NoConn}]
          /\ num_topologies \in Nat
          /\ signalReceived \in BOOLEAN /\ waited \in BOOLEAN /\ alive \in BOOLEAN
          /\ main \in MainStates
          /\ late \subseteq Tasks

\* The check of line 20 and the submission of line 21 are not one step: several
\* I/O threads may pass the check before any of them submits.  Still no more
\* tasks than workers, less one, plus I/O threads exist, so what is queued
\* behind the workers is bounded.
AdmissionBound == Cardinality(Live) <= Workers - 1 + PoolSize

\* A connection waits for exactly one task that still is to answer, and a task
\* that has answered, or whose connection is gone, answers nobody else.
OneTaskPerConnection ==
    /\ \A c \in Conns : conn[c] = "waiting" => \E i \in Tasks : owner[i] = c
    /\ \A i \in Tasks : owner[i] # NoConn => /\ task[i] \in {"queued", "running"}
                                             /\ conn[owner[i]] = "waiting"
    /\ \A i, j \in Tasks : owner[i] = owner[j] /\ owner[i] # NoConn => i = j

\* The clients see a RequestService: a request that is taken on is executed once
\* and answered over its own connection, and the answer of a task whose client is
\* gone goes nowhere, least of all to the connection's next request
\* (Endpoint::operator(), handle_request_timeout).  An orphan is a task nobody
\* waits for.
Orphans == {i \in Live : owner[i] = NoConn}
ClientOf(c) == CASE conn[c] \in {"handling", "checked"} -> "asked"
                 [] conn[c] = "waiting"                 -> "executed"
                 [] OTHER                               -> "idle"
Client == [c \in Conns |-> ClientOf(c)]
Service == INSTANCE RequestService
             WITH Clients  <- Conns,
                  Capacity <- Workers - 1 + PoolSize,
                  client   <- Client,
                  orphans  <- Cardinality(Orphans),
                  up       <- alive
ServiceSpec == Service!Spec

\* There are as many connections as workers, so a request is rejected only
\* because of a task that nobody waits for: one whose connection timed out or
\* was closed, or that has answered and is not yet off the executor's count.
RejectedForAnOrphan ==
    [][\A c \in Conns : Reject(c) => \E i \in Live : owner[i] = NoConn]_vars

\* When HTTPServer is gone, the only tasks left are those submitted after
\* wait_for_all() had returned; the storage is closed after the last of them.
OnlyLateTasksOutlive ==
    /\ main = "destroyed" => Live \subseteq late
    /\ main = "closed" => Live = {}

\* A connection does not wait forever: its task answers, or it is closed.
RequestsEnd == \A c \in Conns : conn[c] = "waiting" ~> conn[c] # "waiting" \/ ~alive

\* A SIGINT that the test of line 114 sees, or that finds the main thread in
\* pause(), ends the server once the clients no longer send requests over the
\* connections they have; while they do, wait_for_all() may wait on.
Quiet == <>[][\A c \in Conns : ~Request(c)]_vars
Told  == \/ main = "check" /\ signalReceived
         \/ main = "stop"
StopCompletes == Quiet => (Told ~> main = "closed" \/ ~alive)

\* "Use Ctrl+C on the terminal or SIGINT to shut down tentris gracefully" (line
\* 75): every SIGINT that is handled ends the server.  Not so: one that arrives
\* between the test of the flag and pause() (lines 114 and 115) wakes nobody, and
\* the server stays up until there is another.
SigintStops == Quiet => (signalReceived ~> main = "closed" \/ ~alive)

\* The handler of line 24 is there to answer 504 and go on serving, so once the
\* server is up a request that times out does not end the process.  Not so: see
\* TimeoutThrows.
SurvivesTimeout == main # "starting" => alive
=============================================================================
