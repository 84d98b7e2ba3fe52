--------------------------- MODULE TaskManagerProofs ---------------------------
(***************************************************************************)
(* Proofs about TaskManager for any set of tasks, any size of the pool and *)
(* any number of progress reports.                                         *)
(***************************************************************************)
EXTENDS TaskManager, EventBusProofs

\* Where the coroutine is, what the snapshot says and where the send is.
RunnerTells ==
  \A t \in Task :
    /\ runner[t] = "none" <=> taskState[t] = "none"
    /\ runner[t] = "scheduled" => taskState[t] \in {"PENDING", "CANCELED"}
    /\ runner[t] = "sending" => taskState[t] \in {"RUNNING", "CANCELING"}
    /\ runner[t] \in {"none", "scheduled"} => worker[t] = "none"
    /\ runner[t] = "sending" => worker[t] # "none"
    /\ runner[t] = "done" =>
         \/ worker[t] = "none" /\ taskState[t] = "CANCELED"
         \/ worker[t] = "returned" /\ taskState[t] = Outcome(nativeResult[t])

\* The loop has numbered "started" and not handed it over.
Starting(t) == publishing[Loop].event.type = "started" /\ publishing[Loop].event.task = t

\* A send has a result once it has returned; only a running one publishes, and
\* it runs only after its start was handed over.
WorkerTells ==
  \A t \in Task :
    /\ nativeResult[t] # "none" <=> worker[t] \in {"leaving", "returned"}
    /\ ~Silent(t) => worker[t] = "running"
    /\ worker[t] = "running" => ~Starting(t)

\* Nothing is cancelled that the user has not cancelled.
CancelTells ==
  \A t \in Task :
    /\ taskState[t] \in {"CANCELING", "CANCELED"} => cancelEvent[t]
    /\ cancelEvent[t] => taskState[t] \notin {"none", "PENDING", "RUNNING"}
    /\ stopRequested[t] => cancelEvent[t]
    /\ nativeResult[t] = "cancelled" => stopRequested[t]

IInv == TaskTypeOK /\ RunnerTells /\ WorkerTells /\ CancelTells

-----------------------------------------------------------------------------
(* Type correctness. *)

\* The results of a send lead to final states and to terminal events.
LEMMA OutcomeTyped ==
  ASSUME NEW result \in Results \cup {"none"}
  PROVE  Outcome(result) \in FinalStates /\ OutcomeType(result) \in Types
BY DEF Results, Outcome, OutcomeType, FinalStates, Types, TerminalTypes

\* The initial state is type correct.
LEMMA InitTyped == TaskInit => TaskTypeOK
<1> SUFFICES ASSUME TaskInit PROVE TaskTypeOK OBVIOUS
<1>1. NoEvent \in Event BY NewEventTyped DEF NoEvent, Types
<1>2. <<>> \in Seq(Event) OBVIOUS
<1>3. BusInit BY DEF TaskInit
<1>4. callbacks \in Seq(Event) /\ queue \in Seq(Event) /\ wire \in Seq(Event)
  BY <1>2, <1>3 DEF BusInit
<1>5. publishing \in [Publisher -> [stage : {"none", "decided", "numbered"}, event : Event]]
  BY <1>1, <1>3 DEF BusInit, NotPublishing
<1>6. BusTypeOK
  <2>1. sequence \in 0..SequenceWrap - 1 /\ connection \in 0..MaxConnections
          /\ connections \in 0..MaxConnections
    BY <1>3, BusAssumption DEF BusInit
  <2> QED BY <1>1, <1>3, <1>4, <1>5, <2>1 DEF BusInit, BusTypeOK
<1> QED BY <1>6, PoolAssumption DEF TaskInit, TaskTypeOK, TaskStates, Results

\* Every step is type correct.
LEMMA NextTyped == TaskTypeOK /\ [TaskNext]_tasksVars => TaskTypeOK'
<1> SUFFICES ASSUME TaskTypeOK, [TaskNext]_tasksVars PROVE TaskTypeOK'
  OBVIOUS
<1>1. BusTypeOK BY DEF TaskTypeOK
<1>2. ASSUME NEW t \in Task, Create(t) PROVE TaskTypeOK'
  <2>1. BusTypeOK' BY <1>1, <1>2, AnnounceTyped DEF Create, Types
  <2> QED BY <1>2, <2>1 DEF Create, Becomes, TaskTypeOK, TaskStates
<1>3. ASSUME NEW t \in Task, Run(t) PROVE TaskTypeOK'
  <2>1. BusTypeOK' BY <1>1, <1>3, AnnounceTyped DEF Run, Types
  <2> QED BY <1>3, <2>1 DEF Run, Becomes, TaskTypeOK, TaskStates
<1>4. ASSUME NEW t \in Task, RunNot(t) PROVE TaskTypeOK'
  BY <1>4 DEF RunNot, TaskTypeOK, busVars, BusTypeOK
<1>5. ASSUME NEW t \in Task, Finish(t) PROVE TaskTypeOK'
  <2>1. nativeResult[t] \in Results \cup {"none"} BY DEF TaskTypeOK
  <2>2. /\ Outcome(nativeResult[t]) \in FinalStates
        /\ OutcomeType(nativeResult[t]) \in Types
    BY <2>1, OutcomeTyped
  <2>3. BusTypeOK' BY <1>1, <1>5, <2>2, AnnounceTyped DEF Finish
  <2> QED BY <1>5, <2>2, <2>3 DEF Finish, Becomes, TaskTypeOK, TaskStates
<1>6. ASSUME NEW t \in Task, CancelPending(t) PROVE TaskTypeOK'
  <2>1. BusTypeOK' BY <1>1, <1>6, AnnounceTyped DEF CancelPending, Types, TerminalTypes
  <2> QED BY <1>6, <2>1 DEF CancelPending, Becomes, TaskTypeOK, TaskStates, FinalStates
<1>7. ASSUME NEW t \in Task, CancelRunning(t) PROVE TaskTypeOK'
  <2>1. BusTypeOK' BY <1>1, <1>7, AnnounceTyped DEF CancelRunning, Types
  <2> QED BY <1>7, <2>1 DEF CancelRunning, Becomes, TaskTypeOK, TaskStates
<1>8. ASSUME NEW t \in Task, ThreadStep(t) PROVE TaskTypeOK'
  <2>1. BusTypeOK'
    BY <1>1, <1>8 DEF ThreadStep, BeginSend, WatcherCancels, WatcherEnds, Leave, busVars, BusTypeOK
  <2> QED BY <1>8, <2>1 DEF ThreadStep, BeginSend, WatcherCancels, WatcherEnds, Leave, TaskTypeOK
<1>9. ASSUME NEW t \in Task, Progress(t) PROVE TaskTypeOK'
  <2>1. BusTypeOK' BY <1>1, <1>9, ReportTyped DEF Progress
  <2> QED BY <1>9, <2>1, PoolAssumption DEF Progress, TaskTypeOK
<1>10. ASSUME NEW t \in Task, NEW result \in Results, SendReturns(t, result) PROVE TaskTypeOK'
  BY <1>10 DEF SendReturns, TaskTypeOK, busVars, BusTypeOK
<1>11. ASSUME NEW p \in Publisher, Publishes(p) PROVE TaskTypeOK'
  <2>1. BusTypeOK' BY <1>1, <1>11, PublishTyped DEF Publishes
  <2> QED BY <1>11, <2>1 DEF Publishes, TaskTypeOK, taskVars
<1>12. CASE UNCHANGED tasksVars
  BY <1>12 DEF tasksVars, taskVars, busVars, TaskTypeOK, BusTypeOK
<1> QED
  BY <1>2, <1>3, <1>4, <1>5, <1>6, <1>7, <1>8, <1>9, <1>10, <1>11, <1>12
     DEF TaskNext, TaskStep, Cancel, RunnerStep, NativeSend

\* The task manager with its bus is type correct, for any tasks and any pool.
THEOREM TasksTypeCorrect == TaskSpec => []TaskTypeOK
BY InitTyped, NextTyped, PTL DEF TaskSpec

-----------------------------------------------------------------------------
(* What a final state says. *)

\* The initial state satisfies the invariant.
LEMMA InitInv == TaskInit => IInv
<1> SUFFICES ASSUME TaskInit PROVE RunnerTells /\ WorkerTells /\ CancelTells
  BY InitTyped DEF IInv
<1>1. \A p \in Publisher : publishing[p] = NotPublishing
  BY DEF TaskInit, BusInit
<1>2. \A t \in Task : Silent(t) /\ ~Starting(t)
  BY <1>1 DEF Publisher, Silent, Starting, NotPublishing, NoEvent, NewEvent
<1> QED BY <1>2 DEF TaskInit, RunnerTells, WorkerTells, CancelTells

\* What an action that numbers an event on the loop does to the publishers.
LEMMA AnnounceKeeps ==
  ASSUME NEW type \in Types, NEW t \in Task, TaskTypeOK, Announce(type, t)
  PROVE  /\ \A u \in Task : Silent(u)' <=> Silent(u)
         /\ \A u \in Task : Starting(u)' <=> type = "started" /\ u = t
<1>1. /\ publishing' = [publishing EXCEPT ![Loop] = Numbered(NewEvent(type, t))]
      /\ Loop \in Publisher
  BY DEF Announce, Publisher
<1>2. DOMAIN publishing = Publisher BY DEF TaskTypeOK, BusTypeOK
<1>3. \A u \in Task : publishing'[u] = publishing[u]
  BY <1>1, <1>2, BusAssumption DEF Publisher
<1>4. /\ publishing'[Loop].event.type = type
      /\ publishing'[Loop].event.task = t
  BY <1>1, <1>2 DEF Numbered, NewEvent
<1> QED BY <1>3, <1>4 DEF Silent, Starting

\* Steps that leave the publishers alone, or only let them go on.
LEMMA PublishKeeps ==
  ASSUME NEW p \in Publisher, TaskTypeOK, TakeNumber(p) \/ HandOver(p)
  PROVE  /\ \A u \in Task : Silent(u) => Silent(u)'
         /\ \A u \in Task : Starting(u)' => Starting(u)
<1>1. DOMAIN publishing = Publisher /\ Loop \in Publisher /\ Task \subseteq Publisher
  BY DEF TaskTypeOK, BusTypeOK, Publisher
<1>2. CASE TakeNumber(p)
  <2>1. /\ publishing[p].stage = "decided"
        /\ publishing' = [publishing EXCEPT ![p] = Numbered(publishing[p].event)]
    BY <1>2 DEF TakeNumber
  <2>2. publishing[p].event \in Event BY DEF TaskTypeOK, BusTypeOK
  <2>3. /\ Numbered(publishing[p].event).event.type = publishing[p].event.type
        /\ Numbered(publishing[p].event).event.task = publishing[p].event.task
    BY <2>2 DEF Numbered, Event
  <2> QED BY <1>1, <2>1, <2>3 DEF Silent, Starting
<1>3. CASE HandOver(p)
  <2>1. publishing' = [publishing EXCEPT ![p] = NotPublishing]
    BY <1>3 DEF HandOver
  <2> QED BY <1>1, <2>1 DEF Silent, Starting, NotPublishing, NoEvent, NewEvent
<1> QED BY <1>2, <1>3

\* Every step keeps the invariant.
LEMMA NextInv == IInv /\ [TaskNext]_tasksVars => IInv'
<1> SUFFICES ASSUME IInv, [TaskNext]_tasksVars
             PROVE  RunnerTells' /\ WorkerTells' /\ CancelTells'
  BY NextTyped DEF IInv
<1> USE DEF IInv
<1>1. ASSUME NEW t \in Task, Create(t) PROVE RunnerTells' /\ WorkerTells' /\ CancelTells'
  <2>1. /\ \A u \in Task : Silent(u)' <=> Silent(u)
        /\ \A u \in Task : ~Starting(u)'
    BY <1>1, AnnounceKeeps DEF Create, Types
  <2>2. RunnerTells' BY <1>1 DEF Create, Becomes, RunnerTells, TaskTypeOK
  <2>3. WorkerTells' BY <1>1, <2>1 DEF Create, WorkerTells
  <2>4. CancelTells' BY <1>1 DEF Create, Becomes, CancelTells, TaskTypeOK
  <2> QED BY <2>2, <2>3, <2>4
<1>2. ASSUME NEW t \in Task, Run(t) PROVE RunnerTells' /\ WorkerTells' /\ CancelTells'
  <2>1. /\ \A u \in Task : Silent(u)' <=> Silent(u)
        /\ \A u \in Task : Starting(u)' <=> u = t
    BY <1>2, AnnounceKeeps DEF Run, Types
  <2>2. RunnerTells' BY <1>2 DEF Run, Becomes, RunnerTells, TaskTypeOK
  <2>3. worker[t] = "none" BY <1>2 DEF Run, RunnerTells
  <2>4. WorkerTells'
    <3> SUFFICES ASSUME NEW u \in Task
                 PROVE  /\ nativeResult'[u] # "none" <=> worker'[u] \in {"leaving", "returned"}
                        /\ ~Silent(u)' => worker'[u] = "running"
                        /\ worker'[u] = "running" => ~Starting(u)'
      BY DEF WorkerTells
    <3>1. CASE u = t
      BY <1>2, <2>1, <2>3, <3>1 DEF Run, WorkerTells, TaskTypeOK
    <3>2. CASE u # t
      <4>1. worker'[u] = worker[u] /\ nativeResult'[u] = nativeResult[u]
        BY <1>2, <3>2 DEF Run, TaskTypeOK
      <4> QED BY <2>1, <3>2, <4>1 DEF WorkerTells
    <3> QED BY <3>1, <3>2
  <2>5. CancelTells' BY <1>2 DEF Run, Becomes, CancelTells, TaskTypeOK
  <2> QED BY <2>2, <2>4, <2>5
<1>3. ASSUME NEW t \in Task, RunNot(t) PROVE RunnerTells' /\ WorkerTells' /\ CancelTells'
  <2>1. RunnerTells' BY <1>3 DEF RunNot, RunnerTells, TaskTypeOK
  <2>2. WorkerTells' BY <1>3 DEF RunNot, WorkerTells, busVars, Silent, Starting
  <2>3. CancelTells' BY <1>3 DEF RunNot, CancelTells
  <2> QED BY <2>1, <2>2, <2>3
<1>4. ASSUME NEW t \in Task, Finish(t) PROVE RunnerTells' /\ WorkerTells' /\ CancelTells'
  <2>1. /\ nativeResult[t] \in Results
        /\ Outcome(nativeResult[t]) \in FinalStates
        /\ OutcomeType(nativeResult[t]) \in TerminalTypes
    BY <1>4 DEF Finish, TaskTypeOK, WorkerTells, Results, Outcome, OutcomeType, FinalStates, TerminalTypes
  <2>2. /\ \A u \in Task : Silent(u)' <=> Silent(u)
        /\ \A u \in Task : ~Starting(u)'
    BY <1>4, <2>1, AnnounceKeeps DEF Finish, Types, TerminalTypes
  <2>3. Outcome(nativeResult[t]) = "CANCELED" => nativeResult[t] = "cancelled"
    BY <2>1 DEF Outcome, Results
  <2>4. RunnerTells' BY <1>4, <2>1 DEF Finish, Becomes, RunnerTells, TaskTypeOK, FinalStates
  <2>5. WorkerTells' BY <1>4, <2>2 DEF Finish, WorkerTells
  <2>6. CancelTells' BY <1>4, <2>1, <2>3 DEF Finish, Becomes, CancelTells, TaskTypeOK, FinalStates
  <2> QED BY <2>4, <2>5, <2>6
<1>5. ASSUME NEW t \in Task, CancelPending(t) \/ CancelRunning(t)
      PROVE  RunnerTells' /\ WorkerTells' /\ CancelTells'
  <2>1. /\ \A u \in Task : Silent(u)' <=> Silent(u)
        /\ \A u \in Task : ~Starting(u)'
    BY <1>5, AnnounceKeeps DEF CancelPending, CancelRunning, Types, TerminalTypes
  <2>0. runner[t] # "done"
    <3>1. taskState[t] \in {"PENDING", "RUNNING"}
      BY <1>5 DEF CancelPending, CancelRunning
    <3>2. Outcome(nativeResult[t]) \in FinalStates
      BY OutcomeTyped DEF TaskTypeOK
    <3> QED BY <3>1, <3>2 DEF RunnerTells, FinalStates
  <2>2. RunnerTells'
    BY <1>5, <2>0 DEF CancelPending, CancelRunning, Becomes, RunnerTells, TaskTypeOK
  <2>3. WorkerTells' BY <1>5, <2>1 DEF CancelPending, CancelRunning, WorkerTells
  <2>4. CancelTells'
    BY <1>5 DEF CancelPending, CancelRunning, Becomes, CancelTells, TaskTypeOK
  <2> QED BY <2>2, <2>3, <2>4
<1>6. ASSUME NEW t \in Task, ThreadStep(t) PROVE RunnerTells' /\ WorkerTells' /\ CancelTells'
  <2>1. busVars' = busVars /\ UNCHANGED <<taskState, cancelEvent, runner, nativeResult>>
    BY <1>6 DEF ThreadStep, BeginSend, WatcherCancels, WatcherEnds, Leave
  <2>2. \A u \in Task : (Silent(u)' <=> Silent(u)) /\ (Starting(u)' <=> Starting(u))
    BY <2>1 DEF busVars, Silent, Starting
  <2>3. \/ worker' = worker
        \/ worker[t] = "queued" /\ ~Starting(t) /\ worker' = [worker EXCEPT ![t] = "running"]
        \/ worker[t] = "leaving" /\ worker' = [worker EXCEPT ![t] = "returned"]
    BY <1>6 DEF ThreadStep, BeginSend, WatcherCancels, WatcherEnds, Leave, Starting
  <2>4. \/ stopRequested' = stopRequested
        \/ cancelEvent[t] /\ stopRequested' = [stopRequested EXCEPT ![t] = TRUE]
    BY <1>6 DEF ThreadStep, BeginSend, WatcherCancels, WatcherEnds, Leave
  <2>5. RunnerTells' BY <2>1, <2>3 DEF RunnerTells, TaskTypeOK
  <2>6. WorkerTells' BY <2>1, <2>2, <2>3 DEF WorkerTells, TaskTypeOK
  <2>7. CancelTells' BY <2>1, <2>4 DEF CancelTells, TaskTypeOK
  <2> QED BY <2>5, <2>6, <2>7
<1>7. ASSUME NEW t \in Task, Progress(t) PROVE RunnerTells' /\ WorkerTells' /\ CancelTells'
  <2>1. /\ UNCHANGED <<taskState, cancelEvent, runner, worker, stopRequested, nativeResult>>
        /\ worker[t] = "running"
    BY <1>7 DEF Progress, Sending
  <2>2. /\ \A u \in Task \ {t} : publishing'[u] = publishing[u]
        /\ publishing'[Loop] = publishing[Loop]
    BY <1>7, BusAssumption DEF Progress, Report, TaskTypeOK, BusTypeOK, Publisher
  <2>3. RunnerTells' BY <2>1 DEF RunnerTells
  <2>4. WorkerTells' BY <2>1, <2>2 DEF WorkerTells, Silent, Starting
  <2>5. CancelTells' BY <2>1 DEF CancelTells
  <2> QED BY <2>3, <2>4, <2>5
<1>8. ASSUME NEW t \in Task, NEW result \in Results, SendReturns(t, result)
      PROVE  RunnerTells' /\ WorkerTells' /\ CancelTells'
  <2>1. /\ worker[t] = "running" /\ Silent(t)
        /\ result = "cancelled" => stopRequested[t]
        /\ nativeResult' = [nativeResult EXCEPT ![t] = result]
        /\ worker' = [worker EXCEPT ![t] = "leaving"]
        /\ UNCHANGED <<taskState, cancelEvent, runner, stopRequested>>
    BY <1>8 DEF SendReturns, Sending
  <2>2. \A u \in Task : (Silent(u)' <=> Silent(u)) /\ (Starting(u)' <=> Starting(u))
    BY <1>8 DEF SendReturns, busVars, Silent, Starting
  <2>3. RunnerTells' BY <2>1 DEF RunnerTells, TaskTypeOK
  <2>4. WorkerTells' BY <2>1, <2>2 DEF WorkerTells, TaskTypeOK, Results
  <2>5. CancelTells' BY <2>1 DEF CancelTells, TaskTypeOK
  <2> QED BY <2>3, <2>4, <2>5
<1>9. ASSUME NEW p \in Publisher, Publishes(p) PROVE RunnerTells' /\ WorkerTells' /\ CancelTells'
  <2>1. /\ \A u \in Task : Silent(u) => Silent(u)'
        /\ \A u \in Task : Starting(u)' => Starting(u)
    BY <1>9, PublishKeeps DEF Publishes
  <2>2. RunnerTells' BY <1>9 DEF Publishes, taskVars, RunnerTells
  <2>3. WorkerTells' BY <1>9, <2>1 DEF Publishes, taskVars, WorkerTells
  <2>4. CancelTells' BY <1>9 DEF Publishes, taskVars, CancelTells
  <2> QED BY <2>2, <2>3, <2>4
<1>10. CASE UNCHANGED tasksVars
  BY <1>10 DEF tasksVars, taskVars, busVars, RunnerTells, WorkerTells, CancelTells, Silent, Starting
<1> QED
  BY <1>1, <1>2, <1>3, <1>4, <1>5, <1>6, <1>7, <1>8, <1>9, <1>10
     DEF TaskNext, TaskStep, Cancel, RunnerStep, NativeSend

\* The invariant of every behaviour.
THEOREM TasksInvariant == TaskSpec => []IInv
BY InitInv, NextInv, PTL DEF TaskSpec

\* A final state tells what the send did and whether the user asked for it.
THEOREM FinalStatesAreTrue == TaskSpec => []FinalStateIsTrue
<1>1. IInv => FinalStateIsTrue
  <2> SUFFICES ASSUME IInv, NEW t \in Task
               PROVE  /\ taskState[t] = "COMPLETED" <=> runner[t] = "done" /\ nativeResult[t] = "ok"
                      /\ taskState[t] = "CANCELED" =>
                           cancelEvent[t] /\ (worker[t] = "none" \/ nativeResult[t] = "cancelled")
                      /\ runner[t] = "done" => Final(t)
    BY DEF FinalStateIsTrue
  <2>1. /\ Outcome(nativeResult[t]) \in FinalStates
        /\ Outcome(nativeResult[t]) = "COMPLETED" <=> nativeResult[t] = "ok"
        /\ Outcome(nativeResult[t]) = "CANCELED" <=> nativeResult[t] = "cancelled"
    BY DEF IInv, TaskTypeOK, Results, Outcome, FinalStates
  <2>2. worker[t] = "none" => nativeResult[t] # "ok"
    BY DEF IInv, WorkerTells
  <2> QED BY <2>1, <2>2 DEF IInv, TaskTypeOK, RunnerTells, CancelTells, Final, FinalStates
<1> QED BY <1>1, TasksInvariant, PTL

\* A task in a final state neither changes it nor is sent.
THEOREM FinalIsFinal == TaskSpec => FinalStatesAreFinal
<1>1. IInv /\ [TaskNext]_tasksVars =>
        [\A t \in Task : Final(t) => taskState'[t] = taskState[t] /\ worker'[t] = worker[t]]_tasksVars
  <2> SUFFICES ASSUME IInv, TaskNext, NEW t \in Task, Final(t)
               PROVE  taskState'[t] = taskState[t] /\ worker'[t] = worker[t]
    OBVIOUS
  <2>1. /\ taskState[t] \notin {"none", "PENDING", "RUNNING", "CANCELING"}
        /\ worker[t] \in {"none", "returned"}
    BY DEF IInv, RunnerTells, TaskTypeOK, Final, FinalStates
  <2>2. /\ taskState \in [Task -> TaskStates]
        /\ worker \in [Task -> {"none", "queued", "running", "leaving", "returned"}]
    BY DEF IInv, TaskTypeOK
  <2>3. ASSUME NEW u \in Task, Create(u) \/ Run(u) \/ Finish(u) \/ Cancel(u)
        PROVE  taskState'[t] = taskState[t] /\ worker'[t] = worker[t]
    <3>1. u # t
      BY <2>1, <2>3 DEF Create, Run, Finish, Cancel, CancelPending, CancelRunning
    <3>2. /\ \E state : taskState' = [taskState EXCEPT ![u] = state]
          /\ worker' = worker \/ worker' = [worker EXCEPT ![u] = "queued"]
      BY <2>3 DEF Create, Run, Finish, Cancel, CancelPending, CancelRunning, Becomes
    <3> QED BY <2>2, <3>1, <3>2
  <2>4. ASSUME NEW u \in Task, ThreadStep(u) \/ NativeSend(u)
        PROVE  taskState'[t] = taskState[t] /\ worker'[t] = worker[t]
    <3>1. /\ taskState' = taskState
          /\ \/ worker' = worker
             \/ /\ worker[u] \in {"queued", "running", "leaving"}
                /\ \E w : worker' = [worker EXCEPT ![u] = w]
      BY <2>4 DEF ThreadStep, BeginSend, WatcherCancels, WatcherEnds, Leave,
                  NativeSend, Progress, SendReturns, Sending
    <3> QED BY <2>1, <2>2, <3>1
  <2>5. ASSUME NEW u \in Task, RunNot(u)
        PROVE  taskState'[t] = taskState[t] /\ worker'[t] = worker[t]
    BY <2>5 DEF RunNot
  <2>6. ASSUME NEW p \in Publisher, Publishes(p)
        PROVE  taskState'[t] = taskState[t] /\ worker'[t] = worker[t]
    BY <2>6 DEF Publishes, taskVars
  <2> QED BY <2>3, <2>4, <2>5, <2>6 DEF TaskNext, TaskStep, RunnerStep
<1> QED BY <1>1, TasksInvariant, PTL DEF TaskSpec, FinalStatesAreFinal

-----------------------------------------------------------------------------
(* The tasks implement their lifecycle. *)

\* A task's change of state with its event is a move of the lifecycle.
LEMMA MovesImplemented ==
  ASSUME NEW t \in Task, NEW state, NEW type, LoopFree,
         Becomes(t, state), Announce(type, t), UNCHANGED reports
  PROVE  Lifecycle!Moves(t, taskState[t], state, type)
BY DEF Becomes, Announce, LoopFree, Silent, NextNumber, Numbered, NewEvent, deliveryVars,
       Lifecycle!Moves, Lifecycle!Announce, Lifecycle!LoopFree, Lifecycle!Silent,
       Lifecycle!NextNumber, Lifecycle!Numbered, Lifecycle!NewEvent, Lifecycle!deliveryVars

\* Every step of the task manager is a step of the lifecycle or hidden.
LEMMA StepImplemented == IInv /\ [TaskNext]_tasksVars => [Lifecycle!Next]_(Lifecycle!lifecycleVars)
<1> SUFFICES ASSUME IInv, [TaskNext]_tasksVars
             PROVE  Lifecycle!Next \/ UNCHANGED <<busVars, taskState, reports>>
  BY DEF Lifecycle!lifecycleVars, Lifecycle!busVars, busVars
<1>1. ASSUME NEW t \in Task, Create(t) PROVE Lifecycle!Created(t)
  BY <1>1, MovesImplemented DEF Create, Lifecycle!Created
<1>2. ASSUME NEW t \in Task, Run(t) PROVE Lifecycle!Started(t)
  BY <1>2, MovesImplemented DEF Run, Lifecycle!Started
<1>3. ASSUME NEW t \in Task, Cancel(t) PROVE Lifecycle!Canceled(t)
  BY <1>3, MovesImplemented DEF Cancel, CancelPending, CancelRunning, Lifecycle!Canceled
<1>4. ASSUME NEW t \in Task, Finish(t) PROVE Lifecycle!Ended(t)
  <2>1. Lifecycle!Moves(t, taskState[t], Outcome(nativeResult[t]), OutcomeType(nativeResult[t]))
    BY <1>4, MovesImplemented DEF Finish
  <2>2. taskState[t] \in {"RUNNING", "CANCELING"} /\ worker[t] = "returned"
    BY <1>4 DEF Finish
  <2>3. Silent(t) /\ nativeResult[t] \in Results
    BY <2>2 DEF IInv, WorkerTells, TaskTypeOK
  <2>4. nativeResult[t] = "cancelled" => taskState[t] = "CANCELING"
    BY <2>2 DEF IInv, CancelTells
  <2>5. \/ Outcome(nativeResult[t]) = "COMPLETED" /\ OutcomeType(nativeResult[t]) = "completed"
        \/ Outcome(nativeResult[t]) = "FAILED" /\ OutcomeType(nativeResult[t]) = "failed"
        \/ /\ Outcome(nativeResult[t]) = "CANCELED" /\ OutcomeType(nativeResult[t]) = "canceled"
           /\ nativeResult[t] = "cancelled"
    BY <2>3 DEF Results, Outcome, OutcomeType
  <2> QED BY <2>1, <2>2, <2>3, <2>4, <2>5 DEF Lifecycle!Ended, Lifecycle!Silent, Silent
<1>5. ASSUME NEW t \in Task, Progress(t) PROVE Lifecycle!Reported(t)
  <2>1. ~Starting(t) BY <1>5 DEF Progress, Sending, IInv, WorkerTells
  <2> QED
    BY <1>5, <2>1
       DEF Progress, Sending, Silent, Starting, Report, NewEvent, deliveryVars,
           Lifecycle!Reported, Lifecycle!Silent, Lifecycle!Report, Lifecycle!NewEvent,
           Lifecycle!deliveryVars
<1>6. ASSUME NEW p \in Publisher, Publishes(p) PROVE Lifecycle!Publishes(p)
  BY <1>6 DEF Publishes, TakeNumber, HandOver, NextNumber, Numbered, NotPublishing, NoEvent,
              NewEvent, deliveryVars, taskVars,
              Lifecycle!Publishes, Lifecycle!TakeNumber, Lifecycle!HandOver, Lifecycle!NextNumber,
              Lifecycle!Numbered, Lifecycle!NotPublishing, Lifecycle!NoEvent, Lifecycle!NewEvent,
              Lifecycle!deliveryVars
<1>7. ASSUME NEW t \in Task, ThreadStep(t) \/ RunNot(t) PROVE UNCHANGED <<busVars, taskState, reports>>
  BY <1>7 DEF ThreadStep, BeginSend, WatcherCancels, WatcherEnds, Leave, RunNot
<1>8. ASSUME NEW t \in Task, NEW result \in Results, SendReturns(t, result)
      PROVE  UNCHANGED <<busVars, taskState, reports>>
  BY <1>8 DEF SendReturns
<1>9. CASE UNCHANGED tasksVars BY <1>9 DEF tasksVars, taskVars
<1> QED
  BY <1>1, <1>2, <1>3, <1>4, <1>5, <1>6, <1>7, <1>8, <1>9
     DEF TaskNext, TaskStep, RunnerStep, NativeSend, Publisher,
         Lifecycle!Next, Lifecycle!LifecycleStep, Lifecycle!Publisher

\* The initial state is one of the lifecycle.
LEMMA InitImplemented == TaskInit => Lifecycle!Init
BY DEF TaskInit, BusInit, Publisher, NotPublishing, NoEvent, NewEvent,
       Lifecycle!Init, Lifecycle!BusInit, Lifecycle!Publisher, Lifecycle!NotPublishing,
       Lifecycle!NoEvent, Lifecycle!NewEvent

\* To the bus and the GUI the threads, watchers and races of the task manager
\* look like the plain lifecycle of its tasks.
THEOREM TasksImplementLifecycle == TaskSpec => LifecycleSpec
BY InitImplemented, StepImplemented, TasksInvariant, PTL DEF TaskSpec, LifecycleSpec, Lifecycle!Spec
=============================================================================
