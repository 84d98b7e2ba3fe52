------------------------------ MODULE TaskManager ------------------------------
(***************************************************************************)
(* Send tasks in the backend: TaskManager (task_manager.py), the sending   *)
(* half of the native gateway with its thread that watches for a cancel    *)
(* (native_gateway.py), and the native SendOperation as Python sees it.    *)
(*                                                                         *)
(* create, cancel and run are called on the event loop and are atomic      *)
(* between two awaits; the native send runs on a thread of the pool and    *)
(* reports progress from there.  The lock is held for single assignments.  *)
(***************************************************************************)
EXTENDS EventBus, FiniteSets

CONSTANTS
  PoolSize,     \* threads of asyncio.to_thread
  MaxProgress   \* bound of the model on the progress reports of all tasks

ASSUME PoolAssumption == PoolSize \in Nat \ {0} /\ MaxProgress \in Nat

VARIABLES
  taskState,      \* the state of the task's snapshot
  cancelEvent,    \* _cancel_events
  runner,         \* the coroutine run(): none, scheduled, sending, done
  worker,         \* the call of gateway.send: none, queued, running, leaving, returned
  watcher,        \* its watcher thread: none, watching, done
  stopRequested,  \* the SendOperation's stop source
  nativeResult,   \* how operation.run ended
  reports         \* progress reports so far

taskVars  == <<taskState, cancelEvent, runner, worker, watcher, stopRequested,
               nativeResult, reports>>
tasksVars == <<busVars, taskVars>>

FinalStates == {"COMPLETED", "FAILED", "CANCELED"}
TaskStates  == FinalStates \cup {"none", "PENDING", "RUNNING", "CANCELING"}
Final(t)    == taskState[t] \in FinalStates
Results     == {"ok", "error", "cancelled"}

TaskTypeOK ==
  /\ BusTypeOK
  /\ taskState \in [Task -> TaskStates]
  /\ cancelEvent \in [Task -> BOOLEAN]
  /\ runner \in [Task -> {"none", "scheduled", "sending", "done"}]
  /\ worker \in [Task -> {"none", "queued", "running", "leaving", "returned"}]
  /\ watcher \in [Task -> {"none", "watching", "done"}]
  /\ stopRequested \in [Task -> BOOLEAN]
  /\ nativeResult \in [Task -> Results \cup {"none"}]
  /\ reports \in 0..MaxProgress

TaskInit ==
  /\ BusInit
  /\ taskState = [t \in Task |-> "none"]
  /\ cancelEvent = [t \in Task |-> FALSE]
  /\ runner = [t \in Task |-> "none"]
  /\ worker = [t \in Task |-> "none"]
  /\ watcher = [t \in Task |-> "none"]
  /\ stopRequested = [t \in Task |-> FALSE]
  /\ nativeResult = [t \in Task |-> "none"]
  /\ reports = 0

-----------------------------------------------------------------------------
(* On the event loop. *)

Becomes(t, state) == taskState' = [taskState EXCEPT ![t] = state]

\* POST /api/transfers/send: create(), then run() as a task of the loop.
Create(t) ==
  /\ LoopFree /\ taskState[t] = "none"
  /\ Becomes(t, "PENDING") /\ Announce("created", t)
  /\ runner' = [runner EXCEPT ![t] = "scheduled"]
  /\ UNCHANGED <<cancelEvent, worker, watcher, stopRequested, nativeResult, reports>>

\* run() up to asyncio.to_thread.
Run(t) ==
  /\ LoopFree /\ runner[t] = "scheduled" /\ taskState[t] = "PENDING"
  /\ Becomes(t, "RUNNING") /\ Announce("started", t)
  /\ runner' = [runner EXCEPT ![t] = "sending"]
  /\ worker' = [worker EXCEPT ![t] = "queued"]
  /\ UNCHANGED <<cancelEvent, watcher, stopRequested, nativeResult, reports>>

\* run() of a task that was cancelled first.
RunNot(t) ==
  /\ LoopFree /\ runner[t] = "scheduled" /\ taskState[t] # "PENDING"
  /\ runner' = [runner EXCEPT ![t] = "done"]
  /\ UNCHANGED <<busVars, taskState, cancelEvent, worker, watcher, stopRequested,
                 nativeResult, reports>>

\* POST /api/tasks/{id}/cancel.  In any other state the task is returned as it is.
CancelPending(t) ==
  /\ LoopFree /\ taskState[t] = "PENDING"
  /\ cancelEvent' = [cancelEvent EXCEPT ![t] = TRUE]
  /\ Becomes(t, "CANCELED") /\ Announce("canceled", t)
  /\ UNCHANGED <<runner, worker, watcher, stopRequested, nativeResult, reports>>

CancelRunning(t) ==
  /\ LoopFree /\ taskState[t] = "RUNNING"
  /\ cancelEvent' = [cancelEvent EXCEPT ![t] = TRUE]
  /\ Becomes(t, "CANCELING") /\ Announce("canceling", t)
  /\ UNCHANGED <<runner, worker, watcher, stopRequested, nativeResult, reports>>

Outcome(result) ==
  CASE result = "ok" -> "COMPLETED"
    [] result = "cancelled" -> "CANCELED"
    [] OTHER -> "FAILED"
OutcomeType(result) ==
  CASE result = "ok" -> "completed"
    [] result = "cancelled" -> "canceled"
    [] OTHER -> "failed"

\* Faulty variants: a cancelled task is canceled whatever the send did; only a
\* running task is finished.
FinishAsCanceled(t) ==
  /\ LoopFree /\ runner[t] = "sending" /\ worker[t] = "returned"
  /\ Becomes(t, IF taskState[t] = "CANCELING" THEN "CANCELED" ELSE Outcome(nativeResult[t]))
  /\ Announce(OutcomeType(nativeResult[t]), t)
  /\ runner' = [runner EXCEPT ![t] = "done"]
  /\ UNCHANGED <<cancelEvent, worker, watcher, stopRequested, nativeResult, reports>>
FinishRunning(t) ==
  /\ LoopFree /\ runner[t] = "sending" /\ worker[t] = "returned"
  /\ runner' = [runner EXCEPT ![t] = "done"]
  /\ IF taskState[t] = "RUNNING"
     THEN Becomes(t, Outcome(nativeResult[t])) /\ Announce(OutcomeType(nativeResult[t]), t)
     ELSE UNCHANGED <<busVars, taskState>>
  /\ UNCHANGED <<cancelEvent, worker, watcher, stopRequested, nativeResult, reports>>

\* run() after asyncio.to_thread: what the native send did decides, also when
\* a cancel came too late.
Finish(t) ==
  /\ LoopFree /\ runner[t] = "sending" /\ worker[t] = "returned"
  /\ taskState[t] \in {"RUNNING", "CANCELING"}
  /\ Becomes(t, Outcome(nativeResult[t]))
  /\ Announce(OutcomeType(nativeResult[t]), t)
  /\ runner' = [runner EXCEPT ![t] = "done"]
  /\ UNCHANGED <<cancelEvent, worker, watcher, stopRequested, nativeResult, reports>>

-----------------------------------------------------------------------------
(* On a thread of the pool: PybindNativeGateway.send. *)

Busy == {t \in Task : worker[t] \in {"running", "leaving"}}

\* Faulty variant: the cancel event is not passed to the gateway.
BeginUnwatched(t) ==
  /\ worker[t] = "queued" /\ Cardinality(Busy) < PoolSize
  /\ worker' = [worker EXCEPT ![t] = "running"]
  /\ watcher' = [watcher EXCEPT ![t] = "done"]
  /\ UNCHANGED <<busVars, taskState, cancelEvent, runner, stopRequested, nativeResult, reports>>

\* to_thread is called once "started" has been published; the operation and
\* its watcher are made before operation.run.
BeginSend(t) ==
  /\ worker[t] = "queued" /\ Cardinality(Busy) < PoolSize
  /\ ~(publishing[Loop].event.type = "started" /\ publishing[Loop].event.task = t)
  /\ worker' = [worker EXCEPT ![t] = "running"]
  /\ watcher' = [watcher EXCEPT ![t] = "watching"]
  /\ UNCHANGED <<busVars, taskState, cancelEvent, runner, stopRequested, nativeResult, reports>>

Sending(t) == worker[t] = "running" /\ Silent(t)

\* on_progress() in a running task: the snapshot changes under the lock and is
\* published after it.  In any other state the report is ignored.
Progress(t) ==
  /\ Sending(t) /\ taskState[t] = "RUNNING" /\ reports < MaxProgress
  /\ reports' = reports + 1
  /\ Report(t)
  /\ UNCHANGED <<taskState, cancelEvent, runner,
                 worker, watcher, stopRequested, nativeResult>>

\* Faulty variant: the send does not wait for its progress callback.
SendReturnsEarly(t, result) ==
  /\ worker[t] = "running"
  /\ result = "cancelled" => stopRequested[t]
  /\ nativeResult' = [nativeResult EXCEPT ![t] = result]
  /\ worker' = [worker EXCEPT ![t] = "leaving"]
  /\ UNCHANGED <<busVars, taskState, cancelEvent, runner, watcher, stopRequested, reports>>

\* operation.run returns or raises; completed is set.  Only a requested stop
\* ends it as cancelled, and it may end otherwise in spite of one.
SendReturns(t, result) ==
  /\ Sending(t)
  /\ result = "cancelled" => stopRequested[t]
  /\ nativeResult' = [nativeResult EXCEPT ![t] = result]
  /\ worker' = [worker EXCEPT ![t] = "leaving"]
  /\ UNCHANGED <<busVars, taskState, cancelEvent, runner, watcher, stopRequested, reports>>

\* watch_for_cancellation(): the event, or the end of the send, whichever the
\* loop of the thread sees first.
WatcherCancels(t) ==
  /\ watcher[t] = "watching" /\ cancelEvent[t]
  /\ stopRequested' = [stopRequested EXCEPT ![t] = TRUE]
  /\ watcher' = [watcher EXCEPT ![t] = "done"]
  /\ UNCHANGED <<busVars, taskState, cancelEvent, runner, worker, nativeResult, reports>>

WatcherEnds(t) ==
  /\ watcher[t] = "watching" /\ worker[t] = "leaving"
  /\ watcher' = [watcher EXCEPT ![t] = "done"]
  /\ UNCHANGED <<busVars, taskState, cancelEvent, runner, worker, stopRequested,
                 nativeResult, reports>>

\* watcher.join(), and the result goes to the loop.
Leave(t) ==
  /\ worker[t] = "leaving" /\ watcher[t] = "done"
  /\ worker' = [worker EXCEPT ![t] = "returned"]
  /\ UNCHANGED <<busVars, taskState, cancelEvent, runner, watcher, stopRequested,
                 nativeResult, reports>>

-----------------------------------------------------------------------------
Cancel(t) == CancelPending(t) \/ CancelRunning(t)

ThreadStep(t) == BeginSend(t) \/ WatcherCancels(t) \/ WatcherEnds(t) \/ Leave(t)
RunnerStep(t) == Run(t) \/ RunNot(t) \/ Finish(t)
NativeSend(t) == Progress(t) \/ \E result \in Results : SendReturns(t, result)
Publishes(p)  == (TakeNumber(p) \/ HandOver(p)) /\ UNCHANGED taskVars

TaskStep ==
  \/ \E t \in Task : Create(t) \/ RunnerStep(t) \/ ThreadStep(t) \/ NativeSend(t)
  \/ \E p \in Publisher : Publishes(p)

TaskNext == TaskStep \/ \E t \in Task : Cancel(t)

TaskSpec == TaskInit /\ [][TaskNext]_tasksVars

\* The loop runs everything that is ready in turn, and threads are scheduled;
\* nothing makes a user act, or a peer let a send return.
TaskFairness ==
  /\ \A t \in Task : SF_tasksVars(RunnerStep(t)) /\ WF_tasksVars(Leave(t))
                       /\ SF_tasksVars(BeginSend(t))
                       /\ WF_tasksVars(WatcherCancels(t) \/ WatcherEnds(t))
  /\ \A p \in Publisher : WF_tasksVars(Publishes(p))

FairTaskSpec == TaskSpec /\ TaskFairness

-----------------------------------------------------------------------------
(* Properties. *)

\* The final state tells what happened: a task is canceled only when the user
\* asked and its send never began or gave up because of it, and a send that
\* went through is completed even if a cancel came meanwhile (task_manager.py
\* 92-152).
FinalStateIsTrue ==
  \A t \in Task :
    /\ taskState[t] = "COMPLETED" <=> runner[t] = "done" /\ nativeResult[t] = "ok"
    /\ taskState[t] = "CANCELED" =>
         cancelEvent[t] /\ (worker[t] = "none" \/ nativeResult[t] = "cancelled")
    /\ runner[t] = "done" => Final(t)

\* A final state is final, and a task that is canceled before it runs is never
\* sent (task_manager.py 60-66, 154-158).
FinalStatesAreFinal ==
  [][\A t \in Task : Final(t) =>
       taskState'[t] = taskState[t] /\ worker'[t] = worker[t]]_tasksVars

\* Seen from the bus and the GUI the tasks go through their lifecycle: no
\* progress is published after the end, although reports are published outside
\* the lock from another thread, and every change of state has its event
\* (task_manager.py 31-164).
Lifecycle == INSTANCE TaskLifecycle
LifecycleSpec == Lifecycle!Spec

\* A cancel reaches the task's own native send, also when it comes before the
\* send has a thread or races with its end (native_gateway.py 62-71).
CancelReachesSend ==
  \A t \in Task :
    (cancelEvent[t] /\ worker[t] = "running") ~> (stopRequested[t] \/ worker[t] # "running")

\* Once the native send has returned its task ends, through the watcher, the
\* pool and the loop (native_gateway.py 81-84, task_manager.py 92-152).
ReturnedSendEndsTask == \A t \in Task : worker[t] = "leaving" ~> Final(t)
=============================================================================
