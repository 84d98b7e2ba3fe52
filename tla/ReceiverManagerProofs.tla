------------------------- MODULE ReceiverManagerProofs -------------------------
(***************************************************************************)
(* Proofs about ReceiveServer, and about ReceiverManager on top of it, for *)
(* any set of calling threads and any number of starts: a running service  *)
(* serves, and what the manager's snapshot shows is true of it.            *)
(***************************************************************************)
EXTENDS ReceiverManager, TLAPS

\* Exactly the caller inside the mutex holds it.
Holds(c)  == callerPc[c] \in {"bind", "join", "callback", "unlock"}
MutexHeld == \A c \in Caller : Holds(c) <=> mutex = c

\* Only the thread of the last start can be live, and then with its server.
LastIsLive ==
  /\ worker <= started
  /\ \A w \in Worker : Live(w) => w = started /\ server = started
  /\ \A w \in Worker : w > started =>
       /\ workerPc[w] = "none" /\ ~stopRequested[w] /\ callback[w] = "none"

\* The live thread of a service that runs or is being stopped.
Serving == started # 0 /\ worker = started /\ server = started /\ Live(started)
Idle    == server = 0 /\ \A w \in Worker : ~Live(w)

\* What each state says of the threads, and of the caller inside the mutex.
StateTells ==
  /\ status \in {"Stopped", "Failed"} => Free /\ Idle
  /\ status = "Starting" => \E c \in Caller : callerPc[c] \in {"bind", "join"}
  /\ status = "Running" => Free /\ Serving /\ ~stopRequested[started]
  /\ status = "Stopping" => Serving /\ stopRequested[started]

CallerTells ==
  \A c \in Caller :
    /\ callerPc[c] = "bind" => status = "Starting" /\ Idle
    /\ callerPc[c] = "join" =>
         /\ status = "Starting" /\ started # 0 /\ worker < started
         /\ server = started /\ Live(started) /\ ~stopRequested[started]
    /\ callerPc[c] \in {"callback", "unlock"} => status = "Stopping"
    /\ callerPc[c] = "callback" => callback[worker] = "executing"

\* A thread in receive has a callback; one that has run has shut its connection,
\* one that has not cannot have been asked for.
CallbackTells ==
  \A w \in Worker :
    /\ callback[w] # "none" => workerPc[w] \in {"receive", "report", "unregister"}
    /\ workerPc[w] = "receive" => callback[w] # "none"
    /\ callback[w] = "ran" => connection[w] = "shut"
    /\ callback[w] = "registered" => ~stopRequested[w]
    /\ callback[w] = "executing" =>
         w = worker /\ \E c \in Caller : callerPc[c] = "callback"

\* A thread finishes, rather than fails, only when it was asked to stop.
FinishesWhenAsked == \A w \in Worker : workerPc[w] = "finish" => stopRequested[w]

IInv == /\ TypeOK /\ FinishesWhenAsked
        /\ MutexHeld /\ LastIsLive /\ StateTells /\ CallerTells /\ CallbackTells

\* The initial state satisfies the invariant.
LEMMA InitInv == Init => IInv
BY ServerAssumption
   DEF Init, IInv, TypeOK, MutexHeld, LastIsLive, StateTells, CallerTells, CallbackTells,
       FinishesWhenAsked, Holds, Live, Idle, Free, Worker, States, Errors, WorkerPcs, CallerPcs, Results

\* Every step keeps the types.
LEMMA TypeStep == TypeOK /\ [Next]_serverVars => TypeOK'
<1> SUFFICES ASSUME TypeOK, [Next]_serverVars PROVE TypeOK'
  OBVIOUS
<1> USE ServerAssumption DEF TypeOK, shared, workerVars, callerVars, Worker, States,
        Errors, WorkerPcs, CallerPcs, Results
<1>1. ASSUME NEW c \in Caller, CallStop(c) \/ QueryStatus(c) \/ Destroy(c)
      PROVE  TypeOK'
  BY <1>1 DEF CallStop, QueryStatus, Destroy, Returns, Goes
<1>0. ASSUME NEW c \in Caller, CallStart(c) PROVE TypeOK'
  <2>1. Goes(c, "start") /\ UNCHANGED <<shared, workerVars, lifetime>>
    BY <1>0 DEF CallStart
  <2>2. QED
    BY <2>1 DEF Goes
<1>2. ASSUME NEW c \in Caller, StartRefused(c) \/ StartBegins(c) \/ BindFails(c)
      PROVE  TypeOK'
  BY <1>2 DEF StartRefused, StartBegins, BindFails, Returns, Goes
<1>3. ASSUME NEW c \in Caller, BindAndSpawn(c) PROVE TypeOK'
  BY <1>3 DEF BindAndSpawn, Goes
<1>4. ASSUME NEW c \in Caller, StartReturns(c) \/ StopAtOnce(c) \/ StopReturns(c)
      PROVE  TypeOK'
  BY <1>4 DEF StartReturns, StopAtOnce, StopReturns, Returns
<1>5. ASSUME NEW c \in Caller, StopBegins(c) \/ RunCallback(c) PROVE TypeOK'
  BY <1>5 DEF StopBegins, RunCallback, Goes
<1>6. ASSUME NEW w \in Worker, WorkerStep(w) PROVE TypeOK'
  <2>1. CASE CheckToken(w) \/ CatchNetworkError(w)
    BY <2>1 DEF CheckToken, CatchNetworkError, Moves
  <2>2. CASE AcceptTimesOut(w) \/ Accept(w) \/ AcceptFails(w) \/ Exit(w)
    BY <2>2 DEF AcceptTimesOut, Accept, AcceptFails, Exit, Moves
  <2>3. CASE RegisterCallback(w)
    BY <2>3 DEF RegisterCallback, Moves
  <2>4. CASE RecordError(w)
    BY <2>4 DEF RecordError, Moves
  <2>7. CASE LeaveScope(w)
    BY <2>7 DEF LeaveScope, Moves
  <2>5. CASE Finish(w) \/ Fail(w)
    BY <2>5 DEF Finish, Fail, Moves
  <2>6. QED
    BY <1>6, <2>1, <2>2, <2>3, <2>4, <2>5, <2>7 DEF WorkerStep
<1>7. ASSUME NEW w \in Worker, ReceiveReturns(w) PROVE TypeOK'
  BY <1>7 DEF ReceiveReturns, Moves
<1>8. CASE StateDestroyed
  BY <1>8 DEF StateDestroyed
<1>9. CASE UNCHANGED serverVars
  BY <1>9 DEF serverVars
<1>10. QED
  BY <1>0, <1>1, <1>2, <1>3, <1>4, <1>5, <1>6, <1>7, <1>8, <1>9
     DEF Next, Internal, CallerStep

\* Every step keeps the invariant.
LEMMA NextInv == IInv /\ [Next]_serverVars => IInv'
<1> SUFFICES ASSUME IInv, [Next]_serverVars PROVE IInv'
  OBVIOUS
<1>t. TypeOK /\ TypeOK'
  BY TypeStep DEF IInv
<1> DEFINE Inv == MutexHeld /\ LastIsLive /\ StateTells /\ CallerTells /\ CallbackTells
                  /\ FinishesWhenAsked
<1>i. Inv
  BY DEF IInv
<1> SUFFICES Inv'
  BY <1>t DEF IInv
<1> USE <1>t, <1>i, ServerAssumption
    DEF TypeOK, shared, workerVars, callerVars, Worker, MutexHeld, LastIsLive, StateTells,
        CallerTells, CallbackTells, FinishesWhenAsked, Holds, Live, Idle, Serving, Free
<1>1. ASSUME NEW c \in Caller, CallStart(c) PROVE Inv'
  <2>1. callerPc[c] = "idle" /\ Goes(c, "start")
          /\ UNCHANGED <<shared, workerVars, lifetime>>
    BY <1>1 DEF CallStart
  <2>2. QED
    BY <2>1 DEF Goes
<1>2. ASSUME NEW c \in Caller, CallStop(c) \/ Destroy(c) PROVE Inv'
  BY <1>2 DEF CallStop, Destroy, Goes
<1>3. ASSUME NEW c \in Caller, QueryStatus(c) PROVE Inv'
  BY <1>3 DEF QueryStatus, Returns
<1>4. ASSUME NEW c \in Caller, StartRefused(c) PROVE Inv'
  BY <1>4 DEF StartRefused, Returns
<1>5. ASSUME NEW c \in Caller, StartBegins(c) PROVE Inv'
  BY <1>5 DEF StartBegins, Goes
<1>6. ASSUME NEW c \in Caller, BindFails(c) PROVE Inv'
  BY <1>6 DEF BindFails, Returns
<1>7. ASSUME NEW c \in Caller, BindAndSpawn(c) PROVE Inv'
  <2>1. MutexHeld'
    BY <1>7 DEF BindAndSpawn, Goes
  <2>2. LastIsLive'
    BY <1>7 DEF BindAndSpawn, Goes
  <2>3. StateTells'
    BY <1>7 DEF BindAndSpawn, Goes
  <2>4. CallerTells'
    BY <1>7 DEF BindAndSpawn, Goes
  <2>0. \A w \in Worker : callback[w] = "none"
    BY <1>7 DEF BindAndSpawn
  <2>5. CallbackTells'
    BY <1>7, <2>0 DEF BindAndSpawn, Goes
  <2>6. FinishesWhenAsked'
    BY <1>7, <2>0 DEF BindAndSpawn, Goes
  <2>7. QED
    BY <2>1, <2>2, <2>3, <2>4, <2>5, <2>6
<1>8. ASSUME NEW c \in Caller, StartReturns(c) PROVE Inv'
  BY <1>8 DEF StartReturns, Returns
<1>9. ASSUME NEW c \in Caller, StopAtOnce(c) PROVE Inv'
  BY <1>9 DEF StopAtOnce, Returns
<1>10. ASSUME NEW c \in Caller, StopBegins(c) PROVE Inv'
  BY <1>10 DEF StopBegins, Goes, States
<1>11. ASSUME NEW c \in Caller, RunCallback(c) PROVE Inv'
  BY <1>11 DEF RunCallback, Goes
<1>12. ASSUME NEW c \in Caller, StopReturns(c) PROVE Inv'
  BY <1>12 DEF StopReturns, Returns
<1>13. ASSUME NEW w \in Worker, CheckToken(w) PROVE Inv'
  <2>1. MutexHeld'
    BY <1>13 DEF CheckToken, Moves
  <2>2. LastIsLive'
    BY <1>13 DEF CheckToken, Moves
  <2>3. StateTells'
    BY <1>13 DEF CheckToken, Moves
  <2>4. CallerTells'
    BY <1>13 DEF CheckToken, Moves
  <2>5. CallbackTells'
    BY <1>13 DEF CheckToken, Moves
  <2>6. FinishesWhenAsked'
    BY <1>13 DEF CheckToken, Moves
  <2>7. QED
    BY <2>1, <2>2, <2>3, <2>4, <2>5, <2>6
<1>14. ASSUME NEW w \in Worker, AcceptTimesOut(w) \/ Accept(w) \/ AcceptFails(w) PROVE Inv'
  <2>1. CASE AcceptTimesOut(w)
    <3>1. MutexHeld'
      BY <2>1 DEF AcceptTimesOut, Moves
    <3>2. LastIsLive'
      BY <2>1 DEF AcceptTimesOut, Moves
    <3>3. StateTells'
      BY <2>1 DEF AcceptTimesOut, Moves
    <3>4. CallerTells'
      BY <2>1 DEF AcceptTimesOut, Moves
    <3>5. CallbackTells'
      <4>1. callback[w] = "none"
        BY <2>1 DEF AcceptTimesOut
      <4>2. QED
        BY <2>1, <4>1 DEF AcceptTimesOut, Moves
    <3>6. FinishesWhenAsked'
      BY <2>1 DEF AcceptTimesOut, Moves
    <3>7. QED
      BY <3>1, <3>2, <3>3, <3>4, <3>5, <3>6
  <2>2. CASE Accept(w)
    <3>1. MutexHeld'
      BY <2>2 DEF Accept, Moves
    <3>2. LastIsLive'
      BY <2>2 DEF Accept, Moves
    <3>3. StateTells'
      BY <2>2 DEF Accept, Moves
    <3>4. CallerTells'
      BY <2>2 DEF Accept, Moves
    <3>5. CallbackTells'
      <4>1. callback[w] = "none"
        BY <2>2 DEF Accept
      <4>2. QED
        BY <2>2, <4>1 DEF Accept, Moves
    <3>6. FinishesWhenAsked'
      BY <2>2 DEF Accept, Moves
    <3>7. QED
      BY <3>1, <3>2, <3>3, <3>4, <3>5, <3>6
  <2>3. CASE AcceptFails(w)
    <3>1. MutexHeld'
      BY <2>3 DEF AcceptFails, Moves
    <3>2. LastIsLive'
      BY <2>3 DEF AcceptFails, Moves
    <3>3. StateTells'
      BY <2>3 DEF AcceptFails, Moves
    <3>4. CallerTells'
      BY <2>3 DEF AcceptFails, Moves
    <3>5. CallbackTells'
      <4>1. callback[w] = "none"
        BY <2>3 DEF AcceptFails
      <4>2. QED
        BY <2>3, <4>1 DEF AcceptFails, Moves
    <3>6. FinishesWhenAsked'
      BY <2>3 DEF AcceptFails, Moves
    <3>7. QED
      BY <3>1, <3>2, <3>3, <3>4, <3>5, <3>6
  <2>4. QED
    BY <1>14, <2>1, <2>2, <2>3
<1>15. ASSUME NEW w \in Worker, RegisterCallback(w) PROVE Inv'
  <2>1. MutexHeld'
    BY <1>15 DEF RegisterCallback, Moves
  <2>2. LastIsLive'
    BY <1>15 DEF RegisterCallback, Moves
  <2>3. StateTells'
    BY <1>15 DEF RegisterCallback, Moves
  <2>0. callback[w] = "none"
    BY <1>15 DEF RegisterCallback
  <2>4. CallerTells'
    BY <1>15, <2>0 DEF RegisterCallback, Moves
  <2>5. CallbackTells'
    BY <1>15 DEF RegisterCallback, Moves
  <2>6. FinishesWhenAsked'
    BY <1>15 DEF RegisterCallback, Moves
  <2>7. QED
    BY <2>1, <2>2, <2>3, <2>4, <2>5, <2>6
<1>16. ASSUME NEW w \in Worker, ReceiveReturns(w) PROVE Inv'
  BY <1>16 DEF ReceiveReturns, Moves
<1>17. ASSUME NEW w \in Worker, RecordError(w) PROVE Inv'
  BY <1>17 DEF RecordError, Moves
<1>24. ASSUME NEW w \in Worker, LeaveScope(w) PROVE Inv'
  BY <1>24 DEF LeaveScope, Moves
<1>18. ASSUME NEW w \in Worker, CatchNetworkError(w) PROVE Inv'
  <2>1. MutexHeld'
    BY <1>18 DEF CatchNetworkError, Moves
  <2>2. LastIsLive'
    BY <1>18 DEF CatchNetworkError, Moves
  <2>3. StateTells'
    BY <1>18 DEF CatchNetworkError, Moves
  <2>4. CallerTells'
    BY <1>18 DEF CatchNetworkError, Moves
  <2>5. CallbackTells'
    BY <1>18 DEF CatchNetworkError, Moves
  <2>6. FinishesWhenAsked'
    BY <1>18 DEF CatchNetworkError, Moves
  <2>7. QED
    BY <2>1, <2>2, <2>3, <2>4, <2>5, <2>6
<1>19. ASSUME NEW w \in Worker, Finish(w) PROVE Inv'
  BY <1>19 DEF Finish, Moves
<1>20. ASSUME NEW w \in Worker, Fail(w) PROVE Inv'
  BY <1>20 DEF Fail, Moves
<1>21. ASSUME NEW w \in Worker, Exit(w) PROVE Inv'
  <2>1. MutexHeld'
    BY <1>21 DEF Exit, Moves
  <2>2. LastIsLive'
    BY <1>21 DEF Exit, Moves
  <2>3. StateTells'
    BY <1>21 DEF Exit, Moves
  <2>4. CallerTells'
    BY <1>21 DEF Exit, Moves
  <2>0. callback[w] = "none"
    BY <1>21 DEF Exit
  <2>5. CallbackTells'
    BY <1>21, <2>0 DEF Exit, Moves
  <2>6. FinishesWhenAsked'
    BY <1>21 DEF Exit, Moves
  <2>7. QED
    BY <2>1, <2>2, <2>3, <2>4, <2>5, <2>6
<1>22. CASE StateDestroyed
  <2>1. MutexHeld'
    BY <1>22 DEF StateDestroyed, Joined
  <2>0. \A w \in Worker : ~Live(w)
    <3>1. CASE status \in {"Stopped", "Failed"}
      BY <3>1
    <3>2. CASE status \in {"Running", "Stopping"}
      BY <1>22, <3>2 DEF StateDestroyed, Joined
    <3>3. status # "Starting"
      BY <1>22 DEF StateDestroyed
    <3>4. QED
      BY <3>1, <3>2, <3>3 DEF States
  <2>2. LastIsLive'
    BY <1>22, <2>0 DEF StateDestroyed
  <2>3. StateTells'
    BY <1>22 DEF StateDestroyed, Joined
  <2>4. CallerTells'
    BY <1>22 DEF StateDestroyed, Joined
  <2>5. CallbackTells'
    BY <1>22 DEF StateDestroyed, Joined
  <2>6. FinishesWhenAsked'
    BY <1>22 DEF StateDestroyed, Joined
  <2>7. QED
    BY <2>1, <2>2, <2>3, <2>4, <2>5, <2>6
<1>23. CASE UNCHANGED serverVars
  BY <1>23 DEF serverVars
<1>25. QED
  BY <1>1, <1>2, <1>3, <1>4, <1>5, <1>6, <1>7, <1>8, <1>9, <1>10, <1>11, <1>12, <1>13,
     <1>14, <1>15, <1>16, <1>17, <1>18, <1>19, <1>20, <1>21, <1>22, <1>23, <1>24
     DEF Next, Internal, CallerStep, WorkerStep

-----------------------------------------------------------------------------
(* The theorems. *)

\* The invariant holds throughout.
LEMMA Inductive == Spec => []IInv
<1>1. Init => IInv
  BY InitInv
<1>2. IInv /\ [Next]_serverVars => IInv'
  BY NextInv
<1>3. QED
  BY <1>1, <1>2, PTL DEF Spec

\* Type correctness of the service.
THEOREM ServerTypeCorrect == Spec => []TypeOK
<1>1. IInv => TypeOK
  BY DEF IInv
<1>2. QED
  BY <1>1, Inductive, PTL

\* A live worker always finds its own listening socket: neither a later start,
\* nor a stop, nor the handler of a failure takes it away or replaces it.
THEOREM ServersAreNotMixedUp == Spec => []ServerIsItsOwn
<1>1. IInv => ServerIsItsOwn
  BY DEF IInv, LastIsLive, ServerIsItsOwn
<1>2. QED
  BY <1>1, Inductive, PTL

\* The state that status() returns is true of the threads.
THEOREM StatusCorrect == Spec => []StatusIsTrue
<1>1. IInv => StatusIsTrue
  <2> SUFFICES ASSUME IInv, Free PROVE StatusIsTrue
    BY DEF StatusIsTrue
  <2>1. \A c \in Caller : ~Holds(c)
    BY ServerAssumption DEF IInv, MutexHeld, Free
  <2>2. status # "Starting"
    BY <2>1 DEF IInv, StateTells, Holds
  <2>3. QED
    BY <2>2 DEF IInv, TypeOK, StateTells, StatusIsTrue, Idle, Serving, Live, Worker
<1>2. QED
  BY <1>1, Inductive, PTL

\* A stop that has returned leaves no worker waiting on an open connection.
THEOREM StopReachesTheReceive == Spec => []StopInterruptsReceive
<1>1. IInv => StopInterruptsReceive
  <2> SUFFICES ASSUME IInv, NEW w \in Worker, Free, stopRequested[w],
                      workerPc[w] = "receive"
               PROVE  connection[w] = "shut"
    BY DEF StopInterruptsReceive
  <2>1. \A c \in Caller : ~Holds(c)
    BY ServerAssumption DEF IInv, MutexHeld, Free
  <2>2. callback[w] \notin {"executing", "registered", "none"}
    BY <2>1 DEF IInv, CallbackTells, Holds
  <2>3. QED
    BY <2>2 DEF IInv, TypeOK, CallbackTells
<1>2. QED
  BY <1>1, Inductive, PTL

\* Every step of the service is a step its controllers were promised, or none
\* that they can see.
LEMMA StepsAreLifecycle == IInv /\ [Next]_serverVars => [Lifecycle!Next]_<<status, server # 0>>
<1> SUFFICES ASSUME IInv, [Next]_serverVars
             PROVE  [Lifecycle!Next]_<<status, server # 0>>
  OBVIOUS
<1> USE DEF shared, workerVars, callerVars
<1>1. ASSUME NEW c \in Caller, CallStart(c) \/ CallStop(c) \/ QueryStatus(c) \/ Destroy(c)
      PROVE  UNCHANGED <<status, server>>
  BY <1>1 DEF CallStart, CallStop, QueryStatus, Destroy
<1>2. ASSUME NEW c \in Caller, StartRefused(c) \/ RunCallback(c) \/ StopReturns(c)
      PROVE  UNCHANGED <<status, server>>
  BY <1>2 DEF StartRefused, RunCallback, StopReturns
<1>3. ASSUME NEW c \in Caller, StartBegins(c) PROVE Lifecycle!Start
  BY <1>3 DEF StartBegins, Lifecycle!Start
<1>4. ASSUME NEW c \in Caller, BindFails(c) PROVE Lifecycle!StartFails
  BY <1>4 DEF BindFails, Lifecycle!StartFails, IInv, CallerTells, Idle
<1>5. ASSUME NEW c \in Caller, BindAndSpawn(c) PROVE Lifecycle!Listen
  BY <1>5 DEF BindAndSpawn, Lifecycle!Listen, IInv, TypeOK, CallerTells, Idle
<1>6. ASSUME NEW c \in Caller, StartReturns(c) PROVE Lifecycle!Run
  BY <1>6 DEF StartReturns, Lifecycle!Run, IInv, CallerTells
<1>7. ASSUME NEW c \in Caller, StopAtOnce(c)
      PROVE  Lifecycle!Acknowledge \/ UNCHANGED <<status, server>>
  BY <1>7 DEF StopAtOnce, Lifecycle!Acknowledge, IInv, StateTells, Idle
<1>8. ASSUME NEW c \in Caller, StopBegins(c) PROVE Lifecycle!RequestStop
  BY <1>8, ServerAssumption
     DEF StopBegins, Lifecycle!RequestStop, IInv, TypeOK, States, StateTells, MutexHeld, Holds,
         Free
<1>9. ASSUME NEW w \in Worker,
             \/ CheckToken(w) \/ AcceptTimesOut(w) \/ Accept(w) \/ AcceptFails(w)
             \/ RegisterCallback(w) \/ RecordError(w) \/ LeaveScope(w)
             \/ CatchNetworkError(w) \/ Exit(w) \/ ReceiveReturns(w)
      PROVE  UNCHANGED <<status, server>>
  BY <1>9 DEF CheckToken, AcceptTimesOut, Accept, AcceptFails, RegisterCallback,
     RecordError, LeaveScope, CatchNetworkError, Exit, ReceiveReturns
<1>10. ASSUME NEW w \in Worker, Finish(w) PROVE Lifecycle!Stop
  <2>1. Live(w)
    BY <1>10 DEF Finish, Live
  <2>2. w = started /\ stopRequested[w]
    BY <1>10, <2>1 DEF Finish, IInv, LastIsLive, FinishesWhenAsked
  <2>3. status = "Stopping"
    BY <1>10, <2>1, <2>2, ServerAssumption
       DEF Finish, IInv, TypeOK, States, StateTells, Idle, MutexHeld, Holds, Free
  <2>4. QED
    BY <1>10, <2>3 DEF Finish, Lifecycle!Stop
<1>11. ASSUME NEW w \in Worker, Fail(w) PROVE Lifecycle!Fail
  <2>1. Live(w)
    BY <1>11 DEF Fail, Live
  <2>2. status \in {"Running", "Stopping"}
    BY <1>11, <2>1, ServerAssumption
       DEF Fail, IInv, TypeOK, States, StateTells, Idle, MutexHeld, Holds, Free
  <2>3. QED
    BY <1>11, <2>2 DEF Fail, Lifecycle!Fail
<1>12. CASE StateDestroyed
  <2>1. status \notin {"Starting", "Running", "Stopping"}
    <3>1. status # "Starting"
      BY <1>12 DEF StateDestroyed, IInv, StateTells
    <3>2. ~Serving
      BY <1>12 DEF StateDestroyed, Joined, Serving, Live
    <3>3. QED
      BY <3>1, <3>2 DEF IInv, StateTells
  <2>2. server = 0
    BY <2>1 DEF IInv, TypeOK, States, StateTells, Idle
  <2>3. QED
    BY <1>12, <2>2 DEF StateDestroyed
<1>13. CASE UNCHANGED serverVars
  BY <1>13 DEF serverVars
<1>14. QED
  BY <1>1, <1>2, <1>3, <1>4, <1>5, <1>6, <1>7, <1>8, <1>9, <1>10, <1>11, <1>12, <1>13
     DEF Next, Internal, CallerStep, WorkerStep, Lifecycle!Next

\* The service does what its controllers were promised: from start() to the
\* end of a stop it goes through the states of ServiceLifecycle
\* (ReceiveServerService.cpp 45-155).
THEOREM ServerImplementsLifecycle == Spec => LifecycleSpec
<1>1. Init => Lifecycle!Init
  BY DEF Init, Lifecycle!Init
<1>2. IInv /\ [Next]_serverVars => [Lifecycle!Next]_<<status, server # 0>>
  BY StepsAreLifecycle
<1>3. QED
  BY <1>1, <1>2, Inductive, PTL DEF Spec, LifecycleSpec, Lifecycle!Spec

-----------------------------------------------------------------------------
(* The manager on top of the service. *)

\* Exactly the request between its first check and its event holds the lock.
Within  == {"start", "stop", "poll", "publish"}
Locking == \A t \in Caller : managerPc[t] \in Within <=> operationLock = t

\* A request is inside the native call it made, or has its answer.
Calling ==
  \A t \in Caller :
    /\ callerPc[t] \in {"start", "bind", "join"} => managerPc[t] = "start"
    /\ callerPc[t] \in {"stop", "callback", "unlock"} => managerPc[t] = "stop"

\* A stop that was answered says what the service then was, and nobody has
\* started it since.
Answered ==
  \A t \in Caller :
    (managerPc[t] = "stop" /\ callerPc[t] = "idle") =>
      /\ callerResult[t] \in {"Stopping", "Stopped", "NotRunning"}
      /\ callerResult[t] = "Stopped" => status = "Stopped"

\* The snapshot between requests and at each point of one.
Shows ==
  /\ SnapshotSettles
  /\ \A t \in Caller :
       /\ managerPc[t] = "start" => snapshot = "Starting"
       /\ managerPc[t] \in {"stop", "poll"} => snapshot = "Stopping"
       /\ managerPc[t] = "publish" => snapshot \in {"Stopped", "Running", "Failed"}

StoppedShown == snapshot = "Stopped" => status = "Stopped"

\* A service that listens or is about to is shown, or is being started or
\* stopped by the request that holds the lock.
BeingStarted(t) ==
  /\ managerPc[t] = "start"
  /\ callerPc[t] \in {"bind", "join"}
       \/ (callerPc[t] = "idle" /\ callerResult[t] = "Running")
BeingStopped(t) == managerPc[t] = "stop" /\ callerPc[t] = "stop"
ListenerKnown ==
  status \in {"Starting", "Running"} =>
    \/ snapshot = "Running"
    \/ \E t \in Caller : BeingStarted(t) \/ BeingStopped(t)

\* The inductive invariant of the requests, beside that of the service.
MInv == /\ ManagerTypeOK /\ Locking /\ Calling /\ Answered /\ Shows
        /\ StoppedShown /\ ListenerKnown

-----------------------------------------------------------------------------
(* The service under the manager. *)

\* A step of the manager is a step of the service, or none.
LEMMA ManagerStepsServe == [ManagerNext]_mvars => [Next]_serverVars
<1> SUFFICES ASSUME [ManagerNext]_mvars PROVE [Next]_serverVars
  OBVIOUS
<1>1. CASE UNCHANGED mvars
  BY <1>1 DEF mvars
<1>2. CASE Internal /\ UNCHANGED managerVars
  BY <1>2 DEF Next
<1>3. ASSUME NEW t \in Caller, Request(t) \/ ManagerStep(t) PROVE [Next]_serverVars
  <2>1. CASE BeginStart(t)
    BY <2>1 DEF BeginStart, Next
  <2>2. CASE BeginStop(t)
    BY <2>2 DEF BeginStop, Next
  <2>3. CASE Poll(t)
    BY <2>3 DEF Poll, Next
  <2>4. CASE \/ Request(t) \/ RefuseStart(t) \/ StartAnswered(t) \/ StopIdle(t)
             \/ StopAnswered(t) \/ PollTimesOut(t) \/ Publish(t)
    BY <2>4 DEF Request, RequestStart, RequestStop, RefuseStart, StartAnswered, StopIdle,
                StopAnswered, PollTimesOut, Publish
  <2> QED
    BY <1>3, <2>1, <2>2, <2>3, <2>4 DEF ManagerStep
<1> QED
  BY <1>1, <1>2, <1>3 DEF ManagerNext

\* So the service keeps its invariant.
LEMMA ServiceInvariant == ManagerSpec => []IInv
<1>1. ManagerInit => IInv
  BY InitInv DEF ManagerInit
<1>2. IInv /\ [ManagerNext]_mvars => IInv'
  BY ManagerStepsServe, NextInv
<1> QED
  BY <1>1, <1>2, PTL DEF ManagerSpec

\* A worker of the service leaves the callers alone, and a stopped service
\* stopped.
LEMMA WorkersOnlyStop ==
  ASSUME IInv, NEW w \in Worker, WorkerStep(w) \/ ReceiveReturns(w)
  PROVE  /\ UNCHANGED callerVars
         /\ status' = status \/ status' \in {"Stopped", "Failed"}
         /\ status = "Stopped" => status' = "Stopped"
<1>1. CASE Finish(w) \/ Fail(w)
  <2>1. Live(w)
    BY <1>1 DEF Finish, Fail, Live
  <2>2. status # "Stopped"
    BY <2>1 DEF IInv, StateTells, Idle
  <2> QED
    BY <1>1, <2>2 DEF Finish, Fail
<1>2. CASE \/ CheckToken(w) \/ AcceptTimesOut(w) \/ Accept(w) \/ AcceptFails(w)
           \/ RegisterCallback(w) \/ RecordError(w) \/ LeaveScope(w)
           \/ CatchNetworkError(w) \/ Exit(w) \/ ReceiveReturns(w)
  BY <1>2 DEF CheckToken, AcceptTimesOut, Accept, AcceptFails, RegisterCallback,
     RecordError, LeaveScope, CatchNetworkError, Exit, ReceiveReturns, shared
<1> QED
  BY <1>1, <1>2 DEF WorkerStep

-----------------------------------------------------------------------------
(* The invariant of the requests. *)

\* It holds when the process starts.
LEMMA InitMInv == ManagerInit => MInv
<1> SUFFICES ASSUME ManagerInit PROVE MInv
  OBVIOUS
<1>1. TypeOK /\ Init
  BY InitInv DEF ManagerInit, IInv
<1> QED
  BY <1>1, ServerAssumption
  DEF ManagerInit, Init, MInv, ManagerTypeOK, ManagerPcs, States, Locking, Within,
      Calling, Answered, Shows, SnapshotSettles, Unlocked, StoppedShown, ListenerKnown

\* A worker's step keeps it.
LEMMA WorkerKeepsMInv ==
  ASSUME IInv, IInv', MInv, NEW w \in Worker, WorkerStep(w) \/ ReceiveReturns(w),
         UNCHANGED managerVars
  PROVE  MInv'
<1>1. /\ UNCHANGED <<callerPc, callerResult, operationLock, snapshot, managerPc>>
      /\ status' = status \/ status' \in {"Stopped", "Failed"}
      /\ status = "Stopped" => status' = "Stopped"
  BY WorkersOnlyStop DEF callerVars, managerVars
<1>2. ManagerTypeOK'
  BY <1>1 DEF IInv, MInv, ManagerTypeOK
<1>3. Locking' /\ Calling' /\ Shows'
  BY <1>1 DEF MInv, Locking, Calling, Shows, SnapshotSettles, Unlocked
<1>4. Answered' /\ StoppedShown'
  BY <1>1 DEF MInv, Answered, StoppedShown
<1>5. ListenerKnown'
  BY <1>1 DEF MInv, ListenerKnown, BeingStarted, BeingStopped
<1> QED
  BY <1>2, <1>3, <1>4, <1>5 DEF MInv

\* A step of a native call that has not returned keeps it.
LEMMA CallerKeepsMInv ==
  ASSUME IInv, IInv', MInv, NEW c \in Caller, CallerStep(c), UNCHANGED managerVars
  PROVE  MInv'
<1>1. UNCHANGED <<operationLock, snapshot, managerPc>>
  BY DEF managerVars
<1>2. ManagerTypeOK' /\ Locking' /\ Shows'
  BY <1>1 DEF IInv, MInv, ManagerTypeOK, Locking, Shows, SnapshotSettles, Unlocked
<1>3. /\ callerPc \in [Caller -> CallerPcs] /\ callerResult \in [Caller -> Results]
      /\ managerPc \in [Caller -> ManagerPcs] /\ status \in States
  BY DEF IInv, TypeOK, MInv, ManagerTypeOK
<1>4. \A t, u \in Caller : managerPc[t] \in Within /\ managerPc[u] \in Within => t = u
  BY DEF MInv, Locking
<1>5. CASE StartRefused(c) \/ StartBegins(c) \/ BindFails(c) \/ BindAndSpawn(c)
           \/ StartReturns(c)
  <2>1. managerPc[c] = "start" /\ snapshot = "Starting"
    BY <1>5 DEF StartRefused, StartBegins, BindFails, BindAndSpawn, StartReturns, MInv,
                Calling, Shows
  <2>2. \A t \in Caller \ {c} :
          /\ managerPc[t] \notin Within
          /\ callerPc'[t] = callerPc[t] /\ callerResult'[t] = callerResult[t]
    BY <1>3, <1>4, <1>5, <2>1
    DEF Within, StartRefused, StartBegins, BindFails, BindAndSpawn, StartReturns, Returns,
        Goes
  <2>3. callerPc'[c] \in {"bind", "join", "idle"}
    BY <1>3, <1>5
    DEF StartRefused, StartBegins, BindFails, BindAndSpawn, StartReturns, Returns, Goes
  <2>4. Calling'
    BY <1>1, <2>1, <2>2, <2>3 DEF MInv, Calling
  <2>5. Answered'
    BY <1>1, <2>1, <2>2 DEF Answered, Within
  <2>6. StoppedShown'
    BY <1>1, <2>1 DEF StoppedShown
  <2>7. ListenerKnown'
    <3>1. CASE StartRefused(c)
      <4>1. \A t \in Caller : ~BeingStarted(t) /\ ~BeingStopped(t)
        BY <2>1, <2>2, <3>1 DEF StartRefused, BeingStarted, BeingStopped, Within
      <4>2. status \notin {"Starting", "Running"}
        BY <2>1, <4>1 DEF MInv, ListenerKnown
      <4>3. UNCHANGED status
        BY <3>1 DEF StartRefused, shared
      <4> QED
        BY <4>2, <4>3 DEF ListenerKnown
    <3>2. CASE StartBegins(c) \/ BindAndSpawn(c)
      <4>1. callerPc'[c] \in {"bind", "join"}
        BY <1>3, <3>2 DEF StartBegins, BindAndSpawn, Goes
      <4> QED
        BY <1>1, <2>1, <4>1 DEF ListenerKnown, BeingStarted
    <3>3. CASE BindFails(c)
      BY <3>3 DEF BindFails, ListenerKnown
    <3>4. CASE StartReturns(c)
      <4>1. callerPc'[c] = "idle" /\ callerResult'[c] = "Running"
        BY <1>3, <3>4 DEF StartReturns, Returns
      <4> QED
        BY <1>1, <2>1, <4>1 DEF ListenerKnown, BeingStarted
    <3> QED
      BY <1>5, <3>1, <3>2, <3>3, <3>4
  <2> QED
    BY <1>2, <2>4, <2>5, <2>6, <2>7 DEF MInv
<1>6. CASE StopAtOnce(c) \/ StopBegins(c) \/ RunCallback(c) \/ StopReturns(c)
  <2>1. managerPc[c] = "stop" /\ snapshot = "Stopping"
    BY <1>6 DEF StopAtOnce, StopBegins, RunCallback, StopReturns, MInv, Calling, Shows
  <2>2. \A t \in Caller \ {c} :
          /\ managerPc[t] \notin Within
          /\ callerPc'[t] = callerPc[t] /\ callerResult'[t] = callerResult[t]
    BY <1>3, <1>4, <1>6, <2>1
    DEF Within, StopAtOnce, StopBegins, RunCallback, StopReturns, Returns, Goes
  <2>3. callerPc'[c] \in {"callback", "unlock", "idle"}
    BY <1>3, <1>6 DEF StopAtOnce, StopBegins, RunCallback, StopReturns, Returns, Goes
  <2>4. Calling'
    BY <1>1, <2>1, <2>2, <2>3 DEF MInv, Calling
  <2>5. callerPc'[c] = "idle" =>
          /\ callerResult'[c] \in {"Stopping", "Stopped", "NotRunning"}
          /\ callerResult'[c] = "Stopped" => status' = "Stopped"
    <3>1. CASE StopAtOnce(c)
      BY <1>3, <3>1 DEF StopAtOnce, Returns
    <3>2. CASE StopBegins(c) \/ RunCallback(c)
      BY <1>3, <3>2 DEF StopBegins, RunCallback, Goes
    <3>3. CASE StopReturns(c)
      <4>1. status = "Stopping"
        BY <3>3 DEF StopReturns, IInv, CallerTells
      <4> QED
        BY <1>3, <3>3, <4>1 DEF StopReturns, Returns
    <3> QED
      BY <1>6, <3>1, <3>2, <3>3
  <2>6. Answered'
    BY <1>1, <2>1, <2>2, <2>5 DEF Answered, Within
  <2>7. StoppedShown'
    BY <1>1, <2>1 DEF StoppedShown
  <2>8. status' \notin {"Starting", "Running"}
    <3>1. CASE StopAtOnce(c)
      BY <3>1 DEF StopAtOnce
    <3>2. CASE StopBegins(c)
      BY <3>2 DEF StopBegins
    <3>3. CASE RunCallback(c) \/ StopReturns(c)
      BY <3>3 DEF RunCallback, StopReturns, shared, IInv, CallerTells
    <3> QED
      BY <1>6, <3>1, <3>2, <3>3
  <2> QED
    BY <1>2, <2>4, <2>6, <2>7, <2>8 DEF MInv, ListenerKnown
<1> QED
  BY <1>5, <1>6 DEF CallerStep

\* A step of a request keeps it.
LEMMA RequestKeepsMInv ==
  ASSUME IInv, IInv', MInv, NEW t \in Caller, Request(t) \/ ManagerStep(t)
  PROVE  MInv'
<1>1. /\ callerPc \in [Caller -> CallerPcs] /\ callerResult \in [Caller -> Results]
      /\ managerPc \in [Caller -> ManagerPcs] /\ status \in States /\ TypeOK'
      /\ operationLock \in Caller \cup {NoOne} /\ snapshot \in States
      /\ NoOne \notin Caller
  BY ServerAssumption DEF IInv, TypeOK, MInv, ManagerTypeOK
<1>2. \A u \in Caller : managerPc[u] \in Within <=> operationLock = u
  BY DEF MInv, Locking
<1>3. CASE Request(t) \/ RefuseStart(t) \/ StopIdle(t)
  <2>1. /\ UNCHANGED <<callerPc, callerResult, status, operationLock, snapshot>>
        /\ managerPc[t] \in {"idle", "starting", "stopping"}
        /\ \E pc \in {"idle", "starting", "stopping"} :
             managerPc' = [managerPc EXCEPT ![t] = pc]
    BY <1>3 DEF Request, RequestStart, RequestStop, RefuseStart, StopIdle, At, To,
                serverVars, shared, callerVars
  <2>2. /\ managerPc' \in [Caller -> ManagerPcs]
        /\ managerPc'[t] \in {"idle", "starting", "stopping"}
        /\ \A u \in Caller : u # t => managerPc'[u] = managerPc[u]
    BY <1>1, <2>1 DEF ManagerPcs
  <2>3. ManagerTypeOK' /\ Locking'
    BY <1>1, <1>2, <2>1, <2>2 DEF ManagerTypeOK, Locking, Within
  <2>4. Calling' /\ Answered'
    BY <2>1, <2>2 DEF MInv, Calling, Answered
  <2>5. Shows' /\ StoppedShown'
    BY <2>1, <2>2 DEF MInv, Shows, SnapshotSettles, Unlocked, StoppedShown
  <2>6. ListenerKnown'
    BY <2>1, <2>2 DEF MInv, ListenerKnown, BeingStarted, BeingStopped
  <2> QED
    BY <2>3, <2>4, <2>5, <2>6 DEF MInv
<1>4. CASE BeginStart(t) \/ BeginStop(t)
  <2>1. /\ Unlocked /\ operationLock' = t /\ UNCHANGED <<callerResult, status>>
        /\ \/ /\ snapshot \notin {"Starting", "Running", "Stopping"}
              /\ snapshot' = "Starting"
              /\ managerPc' = [managerPc EXCEPT ![t] = "start"]
              /\ callerPc' = [callerPc EXCEPT ![t] = "start"]
           \/ /\ snapshot' = "Stopping"
              /\ managerPc' = [managerPc EXCEPT ![t] = "stop"]
              /\ callerPc' = [callerPc EXCEPT ![t] = "stop"]
    BY <1>4 DEF BeginStart, BeginStop, To, CallStart, CallStop, Goes, shared
  <2>2. \A u \in Caller : managerPc[u] \notin Within
    BY <1>1, <1>2, <2>1 DEF Unlocked
  <2>3. /\ managerPc' \in [Caller -> ManagerPcs]
        /\ \/ managerPc'[t] = "start" /\ callerPc'[t] = "start" /\ snapshot' = "Starting"
           \/ managerPc'[t] = "stop" /\ callerPc'[t] = "stop" /\ snapshot' = "Stopping"
        /\ \A u \in Caller : u # t =>
             managerPc'[u] = managerPc[u] /\ callerPc'[u] = callerPc[u]
    BY <1>1, <2>1 DEF ManagerPcs
  <2>4. ManagerTypeOK' /\ Locking'
    BY <1>1, <2>1, <2>2, <2>3 DEF ManagerTypeOK, Locking, Within, States
  <2>5. Calling' /\ Answered'
    BY <2>1, <2>2, <2>3 DEF MInv, Calling, Answered, Within
  <2>6. Shows' /\ StoppedShown'
    BY <1>1, <2>1, <2>2, <2>3 DEF Shows, SnapshotSettles, Unlocked, StoppedShown, Within
  <2>7. ListenerKnown'
    <3>1. CASE snapshot \notin {"Starting", "Running", "Stopping"}
      BY <2>1, <2>2, <3>1
      DEF MInv, ListenerKnown, BeingStarted, BeingStopped, Within
    <3>2. CASE managerPc'[t] = "stop" /\ callerPc'[t] = "stop"
      BY <3>2 DEF ListenerKnown, BeingStopped
    <3> QED
      BY <1>1, <2>1, <3>1, <3>2
  <2> QED
    BY <2>4, <2>5, <2>6, <2>7 DEF MInv
<1>5. CASE StartAnswered(t) \/ StopAnswered(t) \/ Poll(t) \/ PollTimesOut(t)
  <2>1. managerPc[t] \in {"start", "stop", "poll"}
    BY <1>5 DEF StartAnswered, StopAnswered, Poll, PollTimesOut, At
  <2>2. /\ UNCHANGED <<operationLock, status, callerPc>>
        /\ \A u \in Caller : u # t => callerResult'[u] = callerResult[u]
        /\ managerPc[t] # "poll" => UNCHANGED callerResult
    <3>1. CASE Poll(t)
      <4>1. /\ callerPc[t] = "idle" /\ callerPc' = [callerPc EXCEPT ![t] = "idle"]
            /\ callerResult' = [callerResult EXCEPT ![t] = status]
            /\ UNCHANGED <<operationLock, status>> /\ managerPc[t] = "poll"
        BY <3>1 DEF Poll, QueryStatus, Returns, At, shared
      <4>2. UNCHANGED callerPc
        BY <1>1, <4>1
      <4> QED
        BY <1>1, <4>1, <4>2
    <3>2. CASE StartAnswered(t) \/ StopAnswered(t) \/ PollTimesOut(t)
      BY <3>2 DEF StartAnswered, StopAnswered, PollTimesOut, serverVars, shared, callerVars
    <3> QED
      BY <1>5, <3>1, <3>2
  <2>3. /\ managerPc[t] \in Within /\ operationLock = t
        /\ \A u \in Caller : u # t => managerPc[u] \notin Within
    BY <1>2, <2>1 DEF Within
  <2>4. /\ managerPc[t] = "start" => callerPc[t] = "idle"
        /\ managerPc[t] = "stop" => callerPc[t] = "idle"
        /\ managerPc[t] = "poll" => callerPc[t] \notin {"start", "bind", "join", "stop", "callback", "unlock"}
    BY <1>5 DEF StartAnswered, StopAnswered, Poll, PollTimesOut, At, MInv, Calling
  <2>5. callerPc[t] = "idle"
    BY <1>1, <2>1, <2>4 DEF CallerPcs
  <2>6. /\ managerPc' \in [Caller -> ManagerPcs]
        /\ \A u \in Caller : u # t => managerPc'[u] = managerPc[u]
        /\ \/ /\ managerPc'[t] = "publish"
              /\ snapshot' \in {"Stopped", "Running", "Failed"}
           \/ managerPc'[t] = "poll" /\ snapshot' = snapshot /\ managerPc[t] # "start"
    BY <1>1, <1>5 DEF StartAnswered, StopAnswered, Poll, PollTimesOut, At, To, ManagerPcs
  <2>7. snapshot' = "Stopped" => status = "Stopped"
    <3>1. CASE StopAnswered(t)
      BY <2>5, <3>1 DEF StopAnswered, At, MInv, Answered, StoppedShown
    <3>2. CASE Poll(t)
      BY <3>2 DEF Poll, MInv, StoppedShown
    <3>3. CASE StartAnswered(t) \/ PollTimesOut(t)
      BY <3>3 DEF StartAnswered, PollTimesOut
    <3> QED
      BY <1>5, <3>1, <3>2, <3>3
  <2>8. status \in {"Starting", "Running"} => snapshot' = "Running"
    <3> SUFFICES ASSUME status \in {"Starting", "Running"} PROVE snapshot' = "Running"
      OBVIOUS
    <3>1. snapshot # "Running"
      BY <2>1 DEF MInv, Shows
    <3>2. PICK u \in Caller : BeingStarted(u) \/ BeingStopped(u)
      BY <3>1 DEF MInv, ListenerKnown
    <3>3. u = t /\ managerPc[t] = "start" /\ callerResult[t] = "Running"
      BY <2>3, <2>5, <3>2 DEF BeingStarted, BeingStopped, Within
    <3>4. StartAnswered(t)
      BY <1>5, <3>3 DEF StopAnswered, Poll, PollTimesOut, At
    <3> QED
      BY <3>3, <3>4 DEF StartAnswered
  <2>9. ManagerTypeOK' /\ Locking'
    BY <1>1, <1>2, <2>2, <2>3, <2>6 DEF ManagerTypeOK, Locking, Within, States
  <2>10. Calling' /\ Answered'
    BY <2>2, <2>3, <2>5, <2>6 DEF MInv, Calling, Answered, Within
  <2>11. Shows' /\ StoppedShown' /\ ListenerKnown'
    <3>1. managerPc[t] # "start" => snapshot = "Stopping"
      BY <2>1 DEF MInv, Shows
    <3> QED
      BY <1>1, <2>2, <2>3, <2>6, <2>7, <2>8, <3>1
      DEF Shows, SnapshotSettles, Unlocked, StoppedShown, ListenerKnown, Within
  <2> QED
    BY <2>9, <2>10, <2>11 DEF MInv
<1>6. CASE Publish(t)
  <2>1. /\ managerPc[t] = "publish" /\ operationLock' = NoOne
        /\ managerPc' = [managerPc EXCEPT ![t] = "idle"]
        /\ UNCHANGED <<callerPc, callerResult, status, snapshot>>
    BY <1>6 DEF Publish, At, To, serverVars, shared, callerVars
  <2>2. \A u \in Caller : u # t => managerPc[u] \notin Within
    BY <1>2, <2>1 DEF Within
  <2>3. /\ managerPc' \in [Caller -> ManagerPcs] /\ managerPc'[t] = "idle"
        /\ \A u \in Caller : u # t => managerPc'[u] = managerPc[u]
    BY <1>1, <2>1 DEF ManagerPcs
  <2>4. ManagerTypeOK' /\ Locking'
    BY <1>1, <2>1, <2>2, <2>3 DEF ManagerTypeOK, Locking, Within
  <2>5. Calling' /\ Answered'
    BY <2>1, <2>3 DEF MInv, Calling, Answered
  <2>6. Shows' /\ StoppedShown'
    BY <2>1, <2>2, <2>3 DEF MInv, Shows, SnapshotSettles, StoppedShown, Within
  <2>7. ListenerKnown'
    BY <2>1, <2>3 DEF MInv, ListenerKnown, BeingStarted, BeingStopped
  <2> QED
    BY <2>4, <2>5, <2>6, <2>7 DEF MInv
<1> QED
  BY <1>3, <1>4, <1>5, <1>6 DEF ManagerStep

\* Every step keeps it.
LEMMA NextMInv == IInv /\ IInv' /\ MInv /\ [ManagerNext]_mvars => MInv'
<1> SUFFICES ASSUME IInv, IInv', MInv, [ManagerNext]_mvars PROVE MInv'
  OBVIOUS
<1>1. CASE UNCHANGED mvars
  <2>1. UNCHANGED <<callerPc, callerResult, status, operationLock, snapshot, managerPc>>
    BY <1>1 DEF mvars, managerVars, serverVars, shared, callerVars
  <2> QED
    BY <2>1 DEF IInv, MInv, ManagerTypeOK, Locking, Calling, Answered, Shows,
                SnapshotSettles, Unlocked, StoppedShown, ListenerKnown, BeingStarted,
                BeingStopped
<1> QED
  BY <1>1, WorkerKeepsMInv, CallerKeepsMInv, RequestKeepsMInv DEF ManagerNext, Internal

\* Both invariants hold throughout.
LEMMA ManagerInductive == ManagerSpec => [](IInv /\ MInv)
BY InitMInv, NextMInv, ServiceInvariant, PTL DEF ManagerSpec

-----------------------------------------------------------------------------
(* The theorems. *)

\* Type correctness of the manager.
THEOREM ManagerTypeCorrect == ManagerSpec => []ManagerTypeOK
<1>1. MInv => ManagerTypeOK
  BY DEF MInv
<1> QED
  BY <1>1, ManagerInductive, PTL

\* A receiver shown as stopped has stopped, with nothing listening, however
\* many requests start and stop it at once (receiver_manager.py 66-105).
THEOREM ShownStoppedHasStopped == ManagerSpec => []StoppedIsTrue
<1>1. IInv /\ MInv => StoppedIsTrue
  BY DEF IInv, StateTells, Idle, MInv, StoppedShown, StoppedIsTrue
<1> QED
  BY <1>1, ManagerInductive, PTL

\* Between requests a running listener is shown (receiver_manager.py 40-50,
\* 80-105).
THEOREM RunningIsShown == ManagerSpec => []ListenerIsShown
<1>1. MInv => ListenerIsShown
  BY ServerAssumption
  DEF MInv, ListenerKnown, ListenerIsShown, Unlocked, Locking, Within, BeingStarted,
      BeingStopped
<1> QED
  BY <1>1, ManagerInductive, PTL

\* Between requests the snapshot is at rest (receiver_manager.py 68-74).
THEOREM SnapshotComesToRest == ManagerSpec => []SnapshotSettles
<1>1. MInv => SnapshotSettles
  BY DEF MInv, Shows
<1> QED
  BY <1>1, ManagerInductive, PTL
=============================================================================
