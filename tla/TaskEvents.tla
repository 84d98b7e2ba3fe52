------------------------------ MODULE TaskEvents ------------------------------
(***************************************************************************)
(* The event bus carrying the events of the tasks to one client that reads *)
(* them at its own pace: TaskLifecycle publishes, EventBus delivers.       *)
(***************************************************************************)
EXTENDS TaskLifecycle

\* The client takes an event off the connection.
ClientReads ==
  /\ wire # <<>>
  /\ wire' = Tail(wire)
  /\ UNCHANGED <<sequence, publishing, connection, connections, callbacks, queue,
                 ready, handler, outgoing>>

BusStep == Offer \/ HandlerStep \/ Heartbeat \/ Connect \/ Disconnect

EventsNext ==
  \/ Next
  \/ (BusStep \/ ClientReads) /\ UNCHANGED <<taskState, reports>>

EventsSpec == Init /\ [][EventsNext]_lifecycleVars
=============================================================================
