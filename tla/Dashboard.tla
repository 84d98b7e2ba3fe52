------------------------------- MODULE Dashboard -------------------------------
(***************************************************************************)
(* The GUI over the backend: the frontend's FastApiAdapter (WebSocket with *)
(* reconnects, sequence gaps, snapshot refreshes), its dashboard hook and  *)
(* reducer, composed with the tasks and the event bus of TaskEvents.       *)
(*                                                                         *)
(* REST answers and events travel separately.  With AnswersInOrder the     *)
(* client reads no event, and nothing else is answered, while an answer is *)
(* on its way; without it, answers may be overtaken.                       *)
(***************************************************************************)
EXTENDS TaskEvents, Bags

CONSTANTS
  AnswersInOrder,  \* whether no REST answer is overtaken by an event
  MaxAsked,        \* bound of the model on snapshot requests on their way
  NoSnapshot,      \* DashboardState.snapshot is null
  NoNumber         \* the adapter has seen no event

ASSUME DashboardAssumption ==
  /\ AnswersInOrder \in BOOLEAN /\ MaxAsked \in Nat \ {0}
  /\ NoNumber \notin 0..SequenceWrap - 1

VARIABLES
  shown,          \* the tasks' states in the dashboard, or NoSnapshot
  lastNumber,     \* the adapter's sequence, kept across reconnects
  asked,          \* GET /api/snapshot requests on their way
  snapshots,      \* their answers on their way
  cancelAnswer    \* per task, the answer to a cancel on its way

clientVars    == <<shown, lastNumber, asked, snapshots, cancelAnswer>>
dashboardVars == <<lifecycleVars, clientVars>>

NoAnswer == "none"

DashboardTypeOK ==
  /\ LifecycleTypeOK
  /\ shown \in [Task -> TaskStates] \cup {NoSnapshot}
  /\ lastNumber \in 0..SequenceWrap - 1 \cup {NoNumber}
  /\ asked \in Nat
  /\ BagToSet(snapshots) \subseteq [Task -> TaskStates]
  /\ cancelAnswer \in [Task -> TaskStates]

\* The hook asks for a snapshot and subscribes.
DashboardInit ==
  /\ Init
  /\ shown = NoSnapshot /\ lastNumber = NoNumber
  /\ asked = 1 /\ snapshots = EmptyBag
  /\ cancelAnswer = [t \in Task |-> NoAnswer]

-----------------------------------------------------------------------------
(* REST. *)

NoneOnTheWay == snapshots = EmptyBag /\ \A t \in Task : cancelAnswer[t] = NoAnswer
MayOvertake  == AnswersInOrder => NoneOnTheWay

\* The route takes the snapshot.
AnswerSnapshot ==
  /\ LoopFree /\ asked > 0 /\ MayOvertake
  /\ asked' = asked - 1
  /\ snapshots' = snapshots (+) SetToBag({taskState})
  /\ UNCHANGED <<lifecycleVars, shown, lastNumber, cancelAnswer>>

\* The answer replaces what the dashboard shows.
SnapshotArrives(s) ==
  /\ shown' = s
  /\ snapshots' = snapshots (-) SetToBag({s})
  /\ UNCHANGED <<lifecycleVars, lastNumber, asked, cancelAnswer>>

\* withTask(): the task is replaced, if there is a snapshot at all.
WithTask(t, state) ==
  IF shown = NoSnapshot THEN NoSnapshot ELSE [shown EXCEPT ![t] = state]

\* The button of a task that is shown as pending or running; a task that has
\* gone further meanwhile is answered as it is.
UserCancels(t) ==
  /\ shown # NoSnapshot /\ shown[t] \in {"PENDING", "RUNNING"}
  /\ cancelAnswer[t] = NoAnswer /\ MayOvertake
  /\ \/ Canceled(t)
     \/ LoopFree /\ taskState[t] \notin {"none", "PENDING", "RUNNING"} /\ UNCHANGED lifecycleVars
  /\ cancelAnswer' = [cancelAnswer EXCEPT ![t] = taskState'[t]]
  /\ UNCHANGED <<shown, lastNumber, asked, snapshots>>

\* The task in the answer is applied like an event.
CancelArrives(t) ==
  /\ cancelAnswer[t] # NoAnswer
  /\ shown' = WithTask(t, cancelAnswer[t])
  /\ cancelAnswer' = [cancelAnswer EXCEPT ![t] = NoAnswer]
  /\ UNCHANGED <<lifecycleVars, lastNumber, asked, snapshots>>

-----------------------------------------------------------------------------
(* Events. *)

\* The state in the task an event carries.
StateOf(type) ==
  CASE type = "created"   -> "PENDING"
    [] type = "started"   -> "RUNNING"
    [] type = "canceling" -> "CANCELING"
    [] type = "completed" -> "COMPLETED"
    [] type = "failed"    -> "FAILED"
    [] type = "canceled"  -> "CANCELED"

\* applyEvent(): progress and heartbeats leave the states alone.
Applied(e) ==
  IF e.type \in {"progress", "heartbeat"} THEN shown
  ELSE WithTask(e.task, StateOf(e.type))

Gap(e) == lastNumber # NoNumber /\ e.number # (lastNumber + 1) % SequenceWrap

\* Bound of the model: at most MaxAsked requests beside the hook's first one.
MayAsk ==
  LET onTheWay == asked + BagCardinality(snapshots)
  IN  IF shown = NoSnapshot THEN onTheWay <= MaxAsked ELSE onTheWay < MaxAsked

\* Faulty variant: a mark that a request was sent is never reset.
RefreshOnce == UNCHANGED asked

\* refreshSnapshot() sends a request, whatever else is on its way.
Refresh == MayAsk /\ asked' = asked + 1

Read ==
  /\ MayOvertake
  /\ ClientReads
  /\ UNCHANGED <<taskState, reports, snapshots, cancelAnswer>>

\* onopen refreshes the snapshot.
Opened ==
  /\ Read /\ Head(wire).type = "open"
  /\ Refresh
  /\ UNCHANGED <<shown, lastNumber>>

\* onmessage: a gap refreshes the snapshot, then the event is applied.
EventArrives ==
  /\ Read /\ Head(wire).type # "open"
  /\ lastNumber' = Head(wire).number
  /\ IF Gap(Head(wire)) THEN Refresh ELSE UNCHANGED asked
  /\ shown' = Applied(Head(wire))

-----------------------------------------------------------------------------
ClientStep ==
  \/ Opened \/ EventArrives
  \/ \E s \in BagToSet(snapshots) : SnapshotArrives(s)
  \/ \E t \in Task : CancelArrives(t)

\* Another client may cancel a task as well.
DashboardNext ==
  \/ Next /\ UNCHANGED clientVars
  \/ BusStep /\ UNCHANGED <<taskState, reports, clientVars>>
  \/ \E t \in Task : UserCancels(t)
  \/ AnswerSnapshot
  \/ ClientStep

DashboardSpec == DashboardInit /\ [][DashboardNext]_dashboardVars

\* The loop and the browser run what is ready, connecting is retried, a
\* heartbeat follows every long silence, and what is on its way arrives: each
\* answer, and the events, whatever else the client has to do meanwhile.
DashboardFairness ==
  /\ WF_dashboardVars(\E p \in Publisher : Publishes(p) /\ UNCHANGED clientVars)
  /\ WF_dashboardVars((Offer \/ HandlerStep \/ Connect)
                        /\ UNCHANGED <<taskState, reports, clientVars>>)
  /\ WF_dashboardVars(Heartbeat /\ UNCHANGED <<taskState, reports, clientVars>>)
  /\ WF_dashboardVars(AnswerSnapshot)
  /\ WF_dashboardVars(Opened \/ EventArrives)
  /\ WF_dashboardVars(\E s \in BagToSet(snapshots) : SnapshotArrives(s))
  /\ \A t \in Task : WF_dashboardVars(CancelArrives(t))

FairDashboardSpec == DashboardSpec /\ DashboardFairness

-----------------------------------------------------------------------------
(* Properties. *)

\* In the end the dashboard shows what the tasks are, whatever events a slow or
\* broken connection lost: gaps, heartbeats and reconnects lead to a refresh
\* (FastApiAdapter.ts 66-98).  A task changes finitely often and may stay in any
\* state.
DashboardSettles == <>[](shown = taskState)
=============================================================================
