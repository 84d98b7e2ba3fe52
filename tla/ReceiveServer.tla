----------------------------- MODULE ReceiveServer -----------------------------
(***************************************************************************)
(* ReceiveServerService: start, stop, status and the destructor, called    *)
(* from any thread; the worker thread of each start, which accepts and     *)
(* serves one connection at a time; the mutex, the stop token and the stop *)
(* callback between them.                                                  *)
(*                                                                         *)
(* A step between taking the mutex and releasing it is a step of its own   *)
(* only where another thread can see or wait for it.  A connection is what *)
(* the worker sees of it: none, open, or shut down under it.               *)
(***************************************************************************)
EXTENDS Integers, FiniteSets

CONSTANTS
  Caller,      \* threads that control the service
  MaxStarts,   \* bound on the starts that get as far as a worker
  NoOne        \* "the mutex is free"

ASSUME ServerAssumption ==
  /\ MaxStarts \in Nat
  /\ NoOne \notin Caller

Worker == 1..MaxStarts

VARIABLES
  mutex,          \* State::mutex: its holder, or NoOne
  status,         \* State::status.state
  lastError,      \* State::status.last_error
  server,         \* State::server: 0 for null, else the start that made it
  worker,         \* State::worker: 0 for not joinable, else its thread
  started,        \* threads started so far
  stopRequested,  \* the stop token of each thread
  callback,       \* the stop_callback of each thread
  connection,     \* the connection each thread serves
  workerPc,
  callerPc,
  callerResult,   \* what the last call returned: a state or an error code
  lifetime        \* of the ReceiveServerService object

shared      == <<mutex, status, lastError, server, worker, started>>
workerVars  == <<stopRequested, callback, connection, workerPc>>
callerVars  == <<callerPc, callerResult, lifetime>>
serverVars  == <<shared, workerVars, callerVars>>

States    == {"Stopped", "Starting", "Running", "Stopping", "Failed"}
Errors    == {"none", "BindFailed", "NetworkFailure", "receive"}
WorkerPcs == {"none", "loop", "accept", "register", "receive", "report",
              "unregister", "failed", "finish", "fail", "exit", "done"}
CallerPcs == {"idle", "start", "bind", "join", "stop", "callback", "unlock"}
Results   == States \cup {"none", "AlreadyRunning", "NotRunning", "BindFailed"}

TypeOK ==
  /\ mutex \in Caller \cup {NoOne}
  /\ status \in States /\ lastError \in Errors
  /\ server \in 0..MaxStarts /\ worker \in 0..MaxStarts
  /\ started \in 0..MaxStarts
  /\ stopRequested \in [Worker -> BOOLEAN]
  /\ callback \in [Worker -> {"none", "registered", "executing", "ran"}]
  /\ connection \in [Worker -> {"none", "open", "shut"}]
  /\ workerPc \in [Worker -> WorkerPcs]
  /\ callerPc \in [Caller -> CallerPcs]
  /\ callerResult \in [Caller -> Results]
  /\ lifetime \in {"alive", "destroying", "gone"}

Init ==
  /\ mutex = NoOne /\ status = "Stopped" /\ lastError = "none"
  /\ server = 0 /\ worker = 0 /\ started = 0
  /\ stopRequested = [w \in Worker |-> FALSE]
  /\ callback = [w \in Worker |-> "none"]
  /\ connection = [w \in Worker |-> "none"]
  /\ workerPc = [w \in Worker |-> "none"]
  /\ callerPc = [c \in Caller |-> "idle"]
  /\ callerResult = [c \in Caller |-> "none"]
  /\ lifetime = "alive"

-----------------------------------------------------------------------------
(* The controlling threads. *)

Free == mutex = NoOne

Returns(c, result) ==
  /\ callerPc' = [callerPc EXCEPT ![c] = "idle"]
  /\ callerResult' = [callerResult EXCEPT ![c] = result]

Goes(c, pc) ==
  /\ callerPc' = [callerPc EXCEPT ![c] = pc]
  /\ UNCHANGED callerResult

Starting(c) == callerPc[c] \in {"start", "bind"}

CallStart(c) ==
  /\ lifetime = "alive" /\ callerPc[c] = "idle"
  /\ started + Cardinality({d \in Caller : Starting(d)}) < MaxStarts
  /\ Goes(c, "start")
  /\ UNCHANGED <<shared, workerVars, lifetime>>

CallStop(c) ==
  /\ lifetime = "alive" /\ callerPc[c] = "idle"
  /\ Goes(c, "stop")
  /\ UNCHANGED <<shared, workerVars, lifetime>>

QueryStatus(c) ==
  /\ lifetime = "alive" /\ callerPc[c] = "idle" /\ Free
  /\ Returns(c, status)
  /\ UNCHANGED <<shared, workerVars, lifetime>>

\* The destructor calls stop(); no other call is under way or will come.
Destroy(c) ==
  /\ lifetime = "alive" /\ \A d \in Caller : callerPc[d] = "idle"
  /\ Goes(c, "stop")
  /\ lifetime' = "destroying"
  /\ UNCHANGED <<shared, workerVars>>

StartRefused(c) ==
  /\ callerPc[c] = "start" /\ Free /\ status # "Stopped"
  /\ Returns(c, "AlreadyRunning")
  /\ UNCHANGED <<shared, workerVars, lifetime>>

StartBegins(c) ==
  /\ callerPc[c] = "start" /\ Free /\ status = "Stopped"
  /\ mutex' = c
  /\ status' = "Starting" /\ lastError' = "none"
  /\ Goes(c, "bind")
  /\ UNCHANGED <<server, worker, started, workerVars, lifetime>>

BindFails(c) ==
  /\ callerPc[c] = "bind"
  /\ status' = "Failed" /\ lastError' = "BindFailed"
  /\ mutex' = NoOne
  /\ Returns(c, "BindFailed")
  /\ UNCHANGED <<server, worker, started, workerVars, lifetime>>

\* The new thread runs before the old one, asked to stop, has been joined.
BindAndSpawn(c) ==
  /\ callerPc[c] = "bind" /\ started < MaxStarts
  /\ started' = started + 1
  /\ server' = started + 1
  /\ workerPc' = [workerPc EXCEPT ![started + 1] = "loop"]
  /\ stopRequested' = [w \in Worker |-> stopRequested[w] \/ w = worker]
  /\ Goes(c, "join")
  /\ UNCHANGED <<mutex, status, lastError, worker, callback, connection, lifetime>>

Joined == worker # 0 => workerPc[worker] = "done"

StartReturns(c) ==
  /\ callerPc[c] = "join" /\ Joined
  /\ worker' = started
  /\ status' = "Running" /\ lastError' = "none"
  /\ mutex' = NoOne
  /\ Returns(c, "Running")
  /\ UNCHANGED <<server, started, workerVars, lifetime>>

\* Faulty variant: a stop already under way is finished on the spot.
StopEagerly(c) ==
  /\ callerPc[c] = "stop" /\ Free
  /\ \/ /\ status = "Stopped" /\ Returns(c, "NotRunning")
        /\ UNCHANGED <<server, status>>
     \/ /\ status \in {"Stopping", "Failed"} /\ Returns(c, "Stopped")
        /\ server' = 0 /\ status' = "Stopped"
  /\ UNCHANGED <<mutex, lastError, worker, started, workerVars, lifetime>>

StopAtOnce(c) ==
  /\ callerPc[c] = "stop" /\ Free
  /\ \/ /\ status = "Stopped" /\ Returns(c, "NotRunning")
        /\ UNCHANGED <<server, status>>
     \/ /\ status = "Stopping" /\ Returns(c, "Stopping")
        /\ UNCHANGED <<server, status>>
     \/ /\ status = "Failed" /\ Returns(c, "Stopped")
        /\ server' = 0 /\ status' = "Stopped"
  /\ UNCHANGED <<mutex, lastError, worker, started, workerVars, lifetime>>

\* request_stop() runs a registered callback on the requesting thread.
StopBegins(c) ==
  /\ callerPc[c] = "stop" /\ Free
  /\ status \notin {"Stopped", "Stopping", "Failed"}
  /\ mutex' = c
  /\ status' = "Stopping"
  /\ stopRequested' = [stopRequested EXCEPT ![worker] = TRUE]
  /\ \/ /\ callback[worker] = "registered"
        /\ callback' = [callback EXCEPT ![worker] = "executing"]
        /\ Goes(c, "callback")
     \/ /\ callback[worker] # "registered"
        /\ Goes(c, "unlock")
        /\ UNCHANGED callback
  /\ UNCHANGED <<lastError, server, worker, started, connection, workerPc, lifetime>>

\* connection->shutdown().
RunCallback(c) ==
  /\ callerPc[c] = "callback"
  /\ connection' = [connection EXCEPT ![worker] = "shut"]
  /\ callback' = [callback EXCEPT ![worker] = "ran"]
  /\ Goes(c, "unlock")
  /\ UNCHANGED <<shared, stopRequested, workerPc, lifetime>>

\* Faulty variant: stop() waits for the worker while it holds the mutex.
StopJoins(c) ==
  /\ callerPc[c] = "unlock" /\ Joined
  /\ mutex' = NoOne
  /\ Returns(c, status)
  /\ UNCHANGED <<status, lastError, server, worker, started, workerVars, lifetime>>

StopReturns(c) ==
  /\ callerPc[c] = "unlock"
  /\ mutex' = NoOne
  /\ Returns(c, status)
  /\ UNCHANGED <<status, lastError, server, worker, started, workerVars, lifetime>>

\* State is destroyed: its last member, the thread, is stopped and joined first.
StateDestroyed ==
  /\ lifetime = "destroying" /\ \A c \in Caller : callerPc[c] = "idle"
  /\ Joined
  /\ lifetime' = "gone"
  /\ server' = 0 /\ worker' = 0
  /\ UNCHANGED <<mutex, status, lastError, started, workerVars, callerPc,
                 callerResult>>

CallerStep(c) ==
  \/ StartRefused(c) \/ StartBegins(c) \/ BindFails(c) \/ BindAndSpawn(c)
  \/ StartReturns(c)
  \/ StopAtOnce(c) \/ StopBegins(c) \/ RunCallback(c) \/ StopReturns(c)

-----------------------------------------------------------------------------
(* The worker thread: receive_loop. *)

Moves(w, pc) == workerPc' = [workerPc EXCEPT ![w] = pc]

CheckToken(w) ==
  /\ workerPc[w] = "loop"
  /\ Moves(w, IF stopRequested[w] THEN "finish" ELSE "accept")
  /\ UNCHANGED <<shared, stopRequested, callback, connection, callerVars>>

AcceptTimesOut(w) ==
  /\ workerPc[w] = "accept"
  /\ Moves(w, "loop")
  /\ UNCHANGED <<shared, stopRequested, callback, connection, callerVars>>

Accept(w) ==
  /\ workerPc[w] = "accept"
  /\ connection' = [connection EXCEPT ![w] = "open"]
  /\ Moves(w, "register")
  /\ UNCHANGED <<shared, stopRequested, callback, callerVars>>

\* select() or accept() fails; the handler then looks at the stop token.
AcceptFails(w) ==
  /\ workerPc[w] = "accept"
  /\ Moves(w, "failed")
  /\ UNCHANGED <<shared, stopRequested, callback, connection, callerVars>>

\* Faulty variant: a stop requested before the registration is not noticed.
RegisterLate(w) ==
  /\ workerPc[w] = "register"
  /\ callback' = [callback EXCEPT ![w] = "registered"]
  /\ Moves(w, "receive")
  /\ UNCHANGED <<shared, stopRequested, connection, callerVars>>

\* Constructing the stop_callback runs it at once when a stop was requested.
RegisterCallback(w) ==
  /\ workerPc[w] = "register"
  /\ \/ /\ stopRequested[w]
        /\ connection' = [connection EXCEPT ![w] = "shut"]
        /\ callback' = [callback EXCEPT ![w] = "ran"]
     \/ /\ ~stopRequested[w]
        /\ callback' = [callback EXCEPT ![w] = "registered"]
        /\ UNCHANGED connection
  /\ Moves(w, "receive")
  /\ UNCHANGED <<shared, stopRequested, callerVars>>

\* receive() returns; when depends on the peer, unless the socket was shut.
ReceiveReturns(w) ==
  /\ workerPc[w] = "receive"
  /\ \E ok \in BOOLEAN : Moves(w, IF ok THEN "unregister" ELSE "report")
  /\ UNCHANGED <<shared, stopRequested, callback, connection, callerVars>>

RecordError(w) ==
  /\ workerPc[w] = "report" /\ Free
  /\ lastError' = "receive"
  /\ Moves(w, "unregister")
  /\ UNCHANGED <<mutex, status, server, worker, started, stopRequested, callback,
                 connection, callerVars>>

\* ~stop_callback waits for a callback running on another thread; then the
\* connection is closed.
LeaveScope(w) ==
  /\ workerPc[w] = "unregister" /\ callback[w] # "executing"
  /\ callback' = [callback EXCEPT ![w] = "none"]
  /\ connection' = [connection EXCEPT ![w] = "none"]
  /\ Moves(w, "loop")
  /\ UNCHANGED <<shared, stopRequested, callerVars>>

CatchNetworkError(w) ==
  /\ workerPc[w] = "failed"
  /\ Moves(w, IF stopRequested[w] THEN "finish" ELSE "fail")
  /\ UNCHANGED <<shared, stopRequested, callback, connection, callerVars>>

\* Faulty variant: the listening socket is left to the next start.
FinishListening(w) ==
  /\ workerPc[w] = "finish" /\ Free
  /\ status' = "Stopped" /\ lastError' = "none"
  /\ Moves(w, "exit")
  /\ UNCHANGED <<mutex, server, worker, started, stopRequested, callback, connection,
                 callerVars>>

Finish(w) ==
  /\ workerPc[w] = "finish" /\ Free
  /\ server' = 0
  /\ status' = "Stopped" /\ lastError' = "none"
  /\ Moves(w, "exit")
  /\ UNCHANGED <<mutex, worker, started, stopRequested, callback, connection,
                 callerVars>>

\* A stop can have come since the token was looked at.  Any other exception comes
\* here without a look at it, which makes no difference to what is reached.
Fail(w) ==
  /\ workerPc[w] = "fail" /\ Free
  /\ server' = 0
  /\ status' = "Failed" /\ lastError' = "NetworkFailure"
  /\ Moves(w, "exit")
  /\ UNCHANGED <<mutex, worker, started, stopRequested, callback, connection,
                 callerVars>>

Exit(w) ==
  /\ workerPc[w] = "exit"
  /\ Moves(w, "done")
  /\ UNCHANGED <<shared, stopRequested, callback, connection, callerVars>>

\* What the worker does of its own accord, whatever the peer does.
WorkerStep(w) ==
  \/ CheckToken(w) \/ AcceptTimesOut(w) \/ Accept(w) \/ AcceptFails(w)
  \/ RegisterCallback(w) \/ RecordError(w) \/ LeaveScope(w)
  \/ CatchNetworkError(w) \/ Finish(w) \/ Fail(w) \/ Exit(w)

InterruptedReceive(w) == connection[w] = "shut" /\ ReceiveReturns(w)

Internal ==
  \/ \E c \in Caller : CallerStep(c)
  \/ \E w \in Worker : WorkerStep(w) \/ ReceiveReturns(w)

Next ==
  \/ \E c \in Caller : CallStart(c) \/ CallStop(c) \/ QueryStatus(c) \/ Destroy(c)
  \/ Internal
  \/ StateDestroyed

Spec == Init /\ [][Next]_serverVars

\* Every thread runs, and one that waits for the mutex gets it when it is free
\* again and again; a receive ends when its socket has been shut down, but may
\* otherwise wait for its peer for ever.
Fairness ==
  /\ \A c \in Caller : SF_serverVars(CallerStep(c))
  /\ \A w \in Worker : WF_serverVars(WorkerStep(w))
                         /\ WF_serverVars(InterruptedReceive(w))
  /\ WF_serverVars(StateDestroyed)

FairSpec == Spec /\ Fairness

-----------------------------------------------------------------------------
(* Properties. *)

Live(w) == workerPc[w] \notin {"none", "exit", "done"}

\* A worker that can still touch State::server finds the server of its own
\* start there: never null, and never the one of a later start, although the
\* worker reads it without the mutex and the new thread of a start overlaps the
\* old one (ReceiveServerService.cpp 78-80, 116).
ServerIsItsOwn == \A w \in Worker : Live(w) => server = w

\* With the mutex free the state says what the threads do: Stopped and Failed
\* mean that nothing listens or will listen, Running that the assigned worker
\* has not been told to stop, Stopping that it has
\* (ReceiveServerService.cpp 45-94, 136-155).
StatusIsTrue ==
  Free =>
    /\ status # "Starting"
    /\ status \in {"Stopped", "Failed"} => server = 0 /\ \A w \in Worker : ~Live(w)
    /\ status \in {"Running", "Stopping"} =>
         server # 0 /\ worker = server /\ Live(worker)
           /\ (status = "Stopping" <=> stopRequested[worker])

\* Once stop() has returned no worker is left waiting on an open connection,
\* whether the stop came before the accept, between the accept and the
\* registration of the callback, or during the receive
\* (ReceiveServerService.cpp 122-128).
StopInterruptsReceive ==
  \A w \in Worker :
    (Free /\ stopRequested[w] /\ workerPc[w] = "receive") => connection[w] = "shut"

\* Every stop comes to an end although the peer may never send a byte.
StoppingEnds == status = "Stopping" ~> status \in {"Stopped", "Failed"}

\* Every call returns: the mutex, the join under it, the callback run under it
\* and the callback's destructor never wait for one another.
CallsReturn == \A c \in Caller : callerPc[c] # "idle" ~> callerPc[c] = "idle"

\* The destructor returns, with the worker gone.
DestructorReturns == lifetime = "destroying" ~> lifetime = "gone"

\* What the service promises its controllers, one level up.
Lifecycle == INSTANCE ServiceLifecycle WITH
               state <- status, listening <- server # 0
LifecycleSpec == Lifecycle!Spec
=============================================================================
