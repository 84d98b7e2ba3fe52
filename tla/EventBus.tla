------------------------------- MODULE EventBus -------------------------------
(***************************************************************************)
(* The event bus of the backend (event_bus.py) with the WebSocket handler  *)
(* of main.py, for one client that connects again and again.               *)
(*                                                                         *)
(* A publisher numbers its event under the bus's lock and hands it to the  *)
(* event loop after releasing it, so two publishers may hand over in the   *)
(* other order.  The loop offers it to the subscription's bounded queue;   *)
(* the handler takes from there, or sends a heartbeat when its timeout     *)
(* ends first.  Coroutines and callbacks of the loop run one at a time     *)
(* between two awaits.                                                     *)
(***************************************************************************)
EXTENDS Integers, SequencesExt

CONSTANTS
  Task,            \* the send tasks the events are about
  Loop,            \* the event loop's thread, a publisher beside the workers
  NoTask,          \* the task of an event that is about none
  QueueSize,       \* EventBus(queue_size)
  WireCapacity,    \* events the sockets hold before send_json waits
  SequenceWrap,    \* bound of the model: numbers are taken modulo this
  MaxConnections   \* bound of the model on the client's connections

ASSUME BusAssumption ==
  /\ QueueSize \in Nat \ {0} /\ WireCapacity \in Nat \ {0}
  /\ SequenceWrap \in Nat \ {0} /\ MaxConnections \in Nat
  /\ Loop \notin Task /\ NoTask \notin Task

Publisher == Task \cup {Loop}   \* the worker that sends a task, or the loop

TerminalTypes == {"completed", "failed", "canceled"}
Types == TerminalTypes \cup {"created", "started", "canceling", "progress", "heartbeat"}

\* number and connection are set when the event is numbered; "open" stands for
\* the end of the WebSocket handshake.
Event == [type : Types \cup {"open"}, task : Task \cup {NoTask},
          number : 0..SequenceWrap - 1, connection : 0..MaxConnections]
NewEvent(type, t) == [type |-> type, task |-> t, number |-> 0, connection |-> 0]
Terminal(e) == e.type \in TerminalTypes

VARIABLES
  sequence,     \* _sequence
  publishing,   \* per publisher: how far publish() is, and with which event
  connection,   \* the open connection and its subscription, 0 for none
  connections,  \* connections so far
  callbacks,    \* offers handed to the loop by call_soon_threadsafe
  queue,        \* the subscription's queue
  ready,        \* the subscription's asyncio.Event
  handler,      \* the WebSocket handler: closed, receiving, waiting, sending
  outgoing,     \* the event it sends
  wire          \* events on their way to the client

busVars == <<sequence, publishing, connection, connections, callbacks, queue,
             ready, handler, outgoing, wire>>
deliveryVars == <<connection, connections, queue, ready, handler, outgoing, wire>>

NoEvent == NewEvent("heartbeat", NoTask)
NotPublishing == [stage |-> "none", event |-> NoEvent]

BusTypeOK ==
  /\ sequence \in 0..SequenceWrap - 1
  /\ publishing \in [Publisher -> [stage : {"none", "decided", "numbered"}, event : Event]]
  /\ connection \in 0..MaxConnections /\ connections \in 0..MaxConnections
  /\ callbacks \in Seq(Event) /\ queue \in Seq(Event) /\ wire \in Seq(Event)
  /\ ready \in BOOLEAN
  /\ handler \in {"closed", "receiving", "waiting", "sending"}
  /\ outgoing \in Event

BusInit ==
  /\ sequence = 0
  /\ publishing = [p \in Publisher |-> NotPublishing]
  /\ connection = 0 /\ connections = 0
  /\ callbacks = <<>> /\ queue = <<>> /\ wire = <<>>
  /\ ready = FALSE /\ handler = "closed"
  /\ outgoing = NoEvent

-----------------------------------------------------------------------------
(* Publishing. *)

Silent(p) == publishing[p].stage = "none"
LoopFree  == Silent(Loop)

NextNumber == (sequence + 1) % SequenceWrap

\* Under the lock: the number, and the subscription the event goes to.
Numbered(e) == [stage |-> "numbered",
                event |-> [e EXCEPT !.number = NextNumber, !.connection = connection]]

\* A worker has decided to publish its report.
Report(t) ==
  /\ publishing' = [publishing EXCEPT
                      ![t] = [stage |-> "decided", event |-> NewEvent("progress", t)]]
  /\ UNCHANGED <<sequence, callbacks, deliveryVars>>

TakeNumber(p) ==
  /\ publishing[p].stage = "decided"
  /\ sequence' = NextNumber
  /\ publishing' = [publishing EXCEPT ![p] = Numbered(@.event)]
  /\ UNCHANGED <<deliveryVars, callbacks>>

\* The loop has changed a task and numbers the event about it.  Only workers run
\* between the two, and what they do to the bus there they could do before.
Announce(type, t) ==
  /\ sequence' = NextNumber
  /\ publishing' = [publishing EXCEPT ![Loop] = Numbered(NewEvent(type, t))]
  /\ UNCHANGED <<deliveryVars, callbacks>>

\* After the lock: call_soon_threadsafe.
HandOver(p) ==
  /\ publishing[p].stage = "numbered"
  /\ callbacks' = IF publishing[p].event.connection = 0 THEN callbacks
                  ELSE Append(callbacks, publishing[p].event)
  /\ publishing' = [publishing EXCEPT ![p] = NotPublishing]
  /\ UNCHANGED <<deliveryVars, sequence>>

-----------------------------------------------------------------------------
(* The subscription. *)

Full == Len(queue) >= QueueSize

\* Faulty variants: the oldest event makes room; a terminal event overfills.
OfferedForOldest(e) == IF Full THEN Append(Tail(queue), e) ELSE Append(queue, e)
OfferedBeyond(e) == IF Full /\ ~Terminal(e) THEN queue ELSE Append(queue, e)

\* offer() drops a new event from a full queue, unless it is terminal: that
\* takes the place of the oldest event which is not, or overfills the queue.
Offered(e) ==
  IF ~Full THEN Append(queue, e)
  ELSE IF ~Terminal(e) THEN queue
  ELSE Append(RemoveFirstMatch(queue, LAMBDA q : ~Terminal(q)), e)

\* An offer to a subscription that is closed fills a queue nobody reads.
Offer ==
  /\ LoopFree /\ callbacks # <<>>
  /\ callbacks' = Tail(callbacks)
  /\ LET e == Head(callbacks)
     IN  IF e.connection # connection THEN UNCHANGED <<queue, ready>>
         ELSE /\ queue' = Offered(e)
              /\ ready' = (ready \/ ~Full \/ Terminal(e))
  /\ UNCHANGED <<sequence, publishing, connection, connections, handler, outgoing, wire>>

\* accept() and subscribe(): nothing of the loop runs in between.
Connect ==
  /\ LoopFree /\ connection = 0 /\ connections < MaxConnections
  /\ connections' = connections + 1 /\ connection' = connections + 1
  /\ queue' = <<>> /\ ready' = FALSE /\ handler' = "receiving"
  /\ wire' = <<NewEvent("open", NoTask)>>
  /\ UNCHANGED <<sequence, publishing, callbacks, outgoing>>

\* The connection is lost with what it carries; the handler unsubscribes.
Disconnect ==
  /\ LoopFree /\ connection # 0 /\ connections < MaxConnections
  /\ connection' = 0 /\ handler' = "closed"
  /\ queue' = <<>> /\ wire' = <<>> /\ ready' = FALSE /\ outgoing' = NoEvent
  /\ UNCHANGED <<sequence, publishing, connections, callbacks>>

-----------------------------------------------------------------------------
(* The handler's loop. *)

\* The loop runs what is ready in order: offers handed over come before the
\* handler's next turn.
HandlerTurn == LoopFree /\ callbacks = <<>>

\* Faulty variant: the signal is cleared after every event taken.
ReceiveAndClear ==
  /\ HandlerTurn /\ handler = "receiving"
  /\ ready' = FALSE
  /\ IF queue = <<>> \/ ~ready THEN handler' = "waiting" /\ UNCHANGED <<queue, outgoing>>
     ELSE outgoing' = Head(queue) /\ queue' = Tail(queue) /\ handler' = "sending"
  /\ UNCHANGED <<sequence, publishing, connection, connections, callbacks, wire>>

\* receive(): one turn under the subscription's lock.
Receive ==
  /\ HandlerTurn /\ handler = "receiving"
  /\ IF queue = <<>>
     THEN ready' = FALSE /\ handler' = "waiting" /\ UNCHANGED <<queue, outgoing>>
     ELSE /\ outgoing' = Head(queue) /\ queue' = Tail(queue) /\ handler' = "sending"
          /\ UNCHANGED ready
  /\ UNCHANGED <<sequence, publishing, connection, connections, callbacks, wire>>

Wake ==
  /\ HandlerTurn /\ handler = "waiting" /\ ready
  /\ handler' = "receiving"
  /\ UNCHANGED <<sequence, publishing, connection, connections, callbacks, queue,
                 ready, outgoing, wire>>

\* wait_for() times out, possibly just as an event came: the heartbeat is sent
\* before it, with a later number.  Bound of the model: the client reads one
\* heartbeat before the next is due.
Heartbeat ==
  /\ HandlerTurn /\ handler = "waiting"
  /\ \A i \in DOMAIN wire : wire[i].type # "heartbeat"
  /\ sequence' = NextNumber
  /\ outgoing' = [NewEvent("heartbeat", NoTask) EXCEPT
                    !.number = NextNumber, !.connection = connection]
  /\ handler' = "sending"
  /\ UNCHANGED <<publishing, connection, connections, callbacks, queue, ready, wire>>

\* send_json() waits while the client does not read.
SendJson ==
  /\ HandlerTurn /\ handler = "sending" /\ Len(wire) < WireCapacity
  /\ wire' = Append(wire, outgoing)
  /\ handler' = "receiving" /\ outgoing' = NoEvent
  /\ UNCHANGED <<sequence, publishing, connection, connections, callbacks, queue,
                 ready>>

HandlerStep == Receive \/ Wake \/ SendJson

-----------------------------------------------------------------------------
(* Properties. *)

\* The handler does not sleep over a queued event: the signal cleared on an
\* empty queue is set again by every event that is queued (event_bus.py 31-42,
\* 58).
NoLostWakeup == (handler = "waiting" /\ queue # <<>>) => ready

\* The queue of a slow client grows over its size by terminal events only
\* (event_bus.py 44-57).
OverfullWithEndsOnly ==
  Len(queue) > QueueSize => \A i \in DOMAIN queue : Terminal(queue[i])

InFlight ==
  Range(callbacks) \cup Range(queue) \cup Range(wire)
    \cup (IF handler = "sending" THEN {outgoing} ELSE {})

\* An event that ends a task is never dropped on an open connection: from its
\* hand-over to the client's read it is always somewhere on its way, handed to
\* the loop, queued, being sent or on the connection (event_bus.py 44-58,
\* main.py 121-126).
EndsAreDelivered ==
  [][\A e \in InFlight :
       (Terminal(e) /\ e.connection = connection /\ connection' = connection)
         => e \in InFlight' \/ (wire # <<>> /\ e = Head(wire))]_busVars
=============================================================================
