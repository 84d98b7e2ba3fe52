----------------------------- MODULE TaskLifecycle -----------------------------
(***************************************************************************)
(* What the rest of the system sees of the send tasks: the states of their *)
(* snapshots and the events published about them, without threads, cancel  *)
(* events and native sends.  TaskManager implements it; Dashboard is       *)
(* composed with it.                                                       *)
(***************************************************************************)
EXTENDS EventBus

CONSTANT MaxProgress   \* bound of the model on the progress reports of all tasks

ASSUME ProgressAssumption == MaxProgress \in Nat

VARIABLES
  taskState,   \* the state in the task's snapshot, "none" before it exists
  reports      \* progress reports so far

lifecycleVars == <<busVars, taskState, reports>>

FinalStates == {"COMPLETED", "FAILED", "CANCELED"}
TaskStates  == FinalStates \cup {"none", "PENDING", "RUNNING", "CANCELING"}

LifecycleTypeOK ==
  /\ BusTypeOK
  /\ taskState \in [Task -> TaskStates]
  /\ reports \in 0..MaxProgress

Init ==
  /\ BusInit
  /\ taskState = [t \in Task |-> "none"]
  /\ reports = 0

\* The loop changes a task's state and publishes the event about it.
Moves(t, from, to, type) ==
  /\ LoopFree /\ taskState[t] = from
  /\ taskState' = [taskState EXCEPT ![t] = to]
  /\ Announce(type, t)
  /\ UNCHANGED reports

Created(t)  == Moves(t, "none", "PENDING", "created")
Started(t)  == Moves(t, "PENDING", "RUNNING", "started")
Canceled(t) == \/ Moves(t, "PENDING", "CANCELED", "canceled")
               \/ Moves(t, "RUNNING", "CANCELING", "canceling")

\* The worker reports while the task runs, after "started" was published.
Reported(t) ==
  /\ taskState[t] = "RUNNING" /\ Silent(t) /\ reports < MaxProgress
  /\ ~(publishing[Loop].event.type = "started" /\ publishing[Loop].event.task = t)
  /\ reports' = reports + 1
  /\ Report(t)
  /\ UNCHANGED taskState

\* A task ends when its last report has been published, and only a task that
\* is canceling ends canceled.
Ended(t) ==
  /\ Silent(t)
  /\ \E from \in {"RUNNING", "CANCELING"} :
       \/ Moves(t, from, "COMPLETED", "completed")
       \/ Moves(t, from, "FAILED", "failed")
       \/ from = "CANCELING" /\ Moves(t, from, "CANCELED", "canceled")

Publishes(p) == (TakeNumber(p) \/ HandOver(p)) /\ UNCHANGED <<taskState, reports>>

LifecycleStep ==
  \/ \E t \in Task : Created(t) \/ Started(t) \/ Reported(t) \/ Ended(t)
  \/ \E p \in Publisher : Publishes(p)

Next == LifecycleStep \/ \E t \in Task : Canceled(t)

Spec == Init /\ [][Next]_lifecycleVars
=============================================================================
