---------------------------- MODULE ReceiverManager ----------------------------
(***************************************************************************)
(* The Python ReceiverManager and the native gateway under it: REST        *)
(* requests on their own threads start and stop the one native service and *)
(* keep the snapshot that the REST API and the events show.  The native    *)
(* service is ReceiveServer, its callers the request threads.              *)
(*                                                                         *)
(* The snapshot's lock is held for single assignments only; the operation  *)
(* lock is held from the first check of a request to its event.            *)
(***************************************************************************)
EXTENDS ReceiveServer

VARIABLES
  operationLock,  \* _operation_lock: its holder, or NoOne
  snapshot,       \* _snapshot.state
  managerPc       \* where each request is

managerVars == <<operationLock, snapshot, managerPc>>
mvars       == <<serverVars, managerVars>>

ManagerPcs == {"idle", "starting", "start", "stopping", "stop", "poll", "publish"}

ManagerTypeOK ==
  /\ TypeOK
  /\ operationLock \in Caller \cup {NoOne}
  /\ snapshot \in States
  /\ managerPc \in [Caller -> ManagerPcs]

ManagerInit ==
  /\ Init
  /\ operationLock = NoOne /\ snapshot = "Stopped"
  /\ managerPc = [t \in Caller |-> "idle"]

Unlocked == operationLock = NoOne

At(t, pc) == managerPc[t] = pc
To(t, pc) == managerPc' = [managerPc EXCEPT ![t] = pc]

-----------------------------------------------------------------------------
(* start(). *)

RequestStart(t) ==
  /\ At(t, "idle")
  /\ started + Cardinality({u \in Caller : managerPc[u] \in {"starting", "start"}})
       < MaxStarts
  /\ To(t, "starting")
  /\ UNCHANGED <<serverVars, operationLock, snapshot>>

\* Answered with 409.
RefuseStart(t) ==
  /\ At(t, "starting") /\ Unlocked
  /\ snapshot \in {"Starting", "Running", "Stopping"}
  /\ To(t, "idle")
  /\ UNCHANGED <<serverVars, operationLock, snapshot>>

BeginStart(t) ==
  /\ At(t, "starting") /\ Unlocked
  /\ snapshot \notin {"Starting", "Running", "Stopping"}
  /\ operationLock' = t
  /\ snapshot' = "Starting"
  /\ To(t, "start")
  /\ CallStart(t)

\* Faulty variant: the answer is not stored.
ForgetAnswer(t) ==
  /\ At(t, "start") /\ callerPc[t] = "idle"
  /\ To(t, "publish")
  /\ UNCHANGED <<serverVars, operationLock, snapshot>>

\* An error of the gateway becomes a failed snapshot.
StartAnswered(t) ==
  /\ At(t, "start") /\ callerPc[t] = "idle"
  /\ snapshot' = IF callerResult[t] = "Running" THEN "Running" ELSE "Failed"
  /\ To(t, "publish")
  /\ UNCHANGED <<serverVars, operationLock>>

-----------------------------------------------------------------------------
(* stop(). *)

RequestStop(t) ==
  /\ At(t, "idle")
  /\ To(t, "stopping")
  /\ UNCHANGED <<serverVars, operationLock, snapshot>>

StopIdle(t) ==
  /\ At(t, "stopping") /\ Unlocked /\ snapshot = "Stopped"
  /\ To(t, "idle")
  /\ UNCHANGED <<serverVars, operationLock, snapshot>>

BeginStop(t) ==
  /\ At(t, "stopping") /\ Unlocked /\ snapshot # "Stopped"
  /\ operationLock' = t
  /\ snapshot' = "Stopping"
  /\ To(t, "stop")
  /\ CallStop(t)

\* Faulty variants: the acknowledgement is taken for the end of the stop; a
\* refused stop is tried again.
StopAcknowledged(t) ==
  /\ At(t, "stop") /\ callerPc[t] = "idle"
  /\ snapshot' = IF callerResult[t] = "NotRunning" THEN "Failed" ELSE callerResult[t]
  /\ To(t, "publish")
  /\ UNCHANGED <<serverVars, operationLock>>
RetryStop(t) ==
  /\ At(t, "stop") /\ callerPc[t] = "idle"
  /\ \/ /\ callerResult[t] = "Stopping"
        /\ To(t, "poll") /\ UNCHANGED <<snapshot, serverVars>>
     \/ /\ callerResult[t] = "Stopped"
        /\ snapshot' = "Stopped" /\ To(t, "publish") /\ UNCHANGED serverVars
     \/ /\ callerResult[t] = "NotRunning"
        /\ Goes(t, "stop")
        /\ UNCHANGED <<shared, workerVars, lifetime, snapshot, managerPc>>
  /\ UNCHANGED operationLock

StopAnswered(t) ==
  /\ At(t, "stop") /\ callerPc[t] = "idle"
  /\ \/ /\ callerResult[t] = "Stopping"
        /\ To(t, "poll") /\ UNCHANGED snapshot
     \/ /\ callerResult[t] = "Stopped"
        /\ snapshot' = "Stopped" /\ To(t, "publish")
     \/ /\ callerResult[t] = "NotRunning"
        /\ snapshot' = "Failed" /\ To(t, "publish")
  /\ UNCHANGED <<serverVars, operationLock>>

\* One turn of _wait_for_stop: receiver_status, and what follows from it.
Poll(t) ==
  /\ At(t, "poll")
  /\ QueryStatus(t)
  /\ \/ status = "Stopping" /\ UNCHANGED <<snapshot, managerPc>>
     \/ /\ status # "Stopping"
        /\ snapshot' = IF status = "Stopped" THEN "Stopped" ELSE "Failed"
        /\ To(t, "publish")
  /\ UNCHANGED operationLock

\* Faulty variant: after the deadline the service is taken to have stopped.
AssumeStopped(t) ==
  /\ At(t, "poll")
  /\ snapshot' = "Stopped" /\ To(t, "publish")
  /\ UNCHANGED <<serverVars, operationLock>>

\* The deadline of two seconds has passed: STOP_TIMEOUT.
PollTimesOut(t) ==
  /\ At(t, "poll")
  /\ snapshot' = "Failed" /\ To(t, "publish")
  /\ UNCHANGED <<serverVars, operationLock>>

\* The event is published under the operation lock; then the request returns.
Publish(t) ==
  /\ At(t, "publish")
  /\ operationLock' = NoOne
  /\ To(t, "idle")
  /\ UNCHANGED <<serverVars, snapshot>>

-----------------------------------------------------------------------------
Request(t) == RequestStart(t) \/ RequestStop(t)

ManagerStep(t) ==
  \/ RefuseStart(t) \/ BeginStart(t) \/ StartAnswered(t)
  \/ StopIdle(t) \/ BeginStop(t) \/ StopAnswered(t) \/ Poll(t) \/ PollTimesOut(t)
  \/ Publish(t)

ManagerNext ==
  \/ \E t \in Caller : Request(t) \/ ManagerStep(t)
  \/ Internal /\ UNCHANGED managerVars

ManagerSpec == ManagerInit /\ [][ManagerNext]_mvars

ManagerFairness ==
  /\ \A t \in Caller : SF_mvars(ManagerStep(t))
                         /\ SF_mvars(CallerStep(t) /\ UNCHANGED managerVars)
  /\ \A w \in Worker :
       /\ WF_mvars(WorkerStep(w) /\ UNCHANGED managerVars)
       /\ WF_mvars(InterruptedReceive(w) /\ UNCHANGED managerVars)

FairManagerSpec == ManagerSpec /\ ManagerFairness

-----------------------------------------------------------------------------
(* Properties. *)

\* A snapshot that shows the receiver stopped is true: the native service has
\* stopped and nothing listens, although native stop() only acknowledges the
\* request (receiver_manager.py 66-78, native_gateway.py 101-105).
StoppedIsTrue == snapshot = "Stopped" => status = "Stopped" /\ server = 0

\* Between requests no listener runs that the snapshot does not show: a start
\* whose answer was an error, or a stop that timed out, leaves none behind
\* that has not been told to stop (receiver_manager.py 40-50, 80-105).
ListenerIsShown ==
  (Unlocked /\ status \in {"Starting", "Running"}) => snapshot = "Running"

\* Between requests the snapshot is never a transient state, on which the GUI
\* disables its buttons (receiver_manager.py 68-74).
SnapshotSettles == Unlocked => snapshot \in {"Stopped", "Running", "Failed"}

\* Every request is answered, within the two locks and the polling.
RequestsAnswered == \A t \in Caller : ~At(t, "idle") ~> At(t, "idle")

\* A start is refused as already running only when something listens.
AlreadyRunningIsTrue == [][\A t \in Caller : StartRefused(t) => server # 0]_mvars
=============================================================================
