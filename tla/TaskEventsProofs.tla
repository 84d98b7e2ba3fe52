---------------------------- MODULE TaskEventsProofs ----------------------------
(***************************************************************************)
(* Proofs about the events of the tasks on their way to the client, for    *)
(* any tasks, any size of the queue and any number of connections, and the *)
(* types of the dashboard that is composed with them.                      *)
(***************************************************************************)
EXTENDS Dashboard, EventBusProofs

BusInv == LifecycleTypeOK /\ NoLostWakeup /\ OverfullWithEndsOnly

\* The initial state satisfies the invariant.
LEMMA InitInv == Init => BusInv
<1> SUFFICES ASSUME Init PROVE BusInv OBVIOUS
<1>0. BusInit BY DEF Init
<1>1. NoEvent \in Event BY NewEventTyped DEF NoEvent, Types
<1>2. callbacks \in Seq(Event) /\ queue \in Seq(Event) /\ wire \in Seq(Event)
  <2>1. <<>> \in Seq(Event) OBVIOUS
  <2> QED BY <1>0, <2>1 DEF BusInit
<1>3. publishing \in [Publisher -> [stage : {"none", "decided", "numbered"}, event : Event]]
  BY <1>0, <1>1 DEF BusInit, NotPublishing
<1>4. sequence \in 0..SequenceWrap - 1 /\ connection \in 0..MaxConnections
        /\ connections \in 0..MaxConnections
  BY <1>0, BusAssumption DEF BusInit
<1>5. BusTypeOK BY <1>0, <1>1, <1>2, <1>3, <1>4 DEF BusInit, BusTypeOK
<1>6. LifecycleTypeOK
  BY <1>5, ProgressAssumption DEF Init, LifecycleTypeOK, TaskStates
<1>7. NoLostWakeup BY <1>0 DEF BusInit, NoLostWakeup
<1>8. OverfullWithEndsOnly
  BY <1>0, BusAssumption DEF BusInit, OverfullWithEndsOnly
<1> QED BY <1>6, <1>7, <1>8 DEF BusInv

\* A step of the tasks keeps the types, and touches neither queue nor handler.
LEMMA TaskStepKeeps ==
  ASSUME LifecycleTypeOK, Next
  PROVE  LifecycleTypeOK' /\ UNCHANGED deliveryVars
<1>0. BusTypeOK BY DEF LifecycleTypeOK
<1>1. ASSUME NEW t \in Task, NEW from, NEW to \in TaskStates, NEW type \in Types,
             Moves(t, from, to, type)
      PROVE  LifecycleTypeOK' /\ UNCHANGED deliveryVars
  <2>1. BusTypeOK' BY <1>0, <1>1, AnnounceTyped DEF Moves
  <2> QED BY <1>1, <2>1 DEF Moves, Announce, LifecycleTypeOK
<1>2. ASSUME NEW t \in Task, Created(t) \/ Started(t) \/ Canceled(t) \/ Ended(t)
      PROVE  LifecycleTypeOK' /\ UNCHANGED deliveryVars
  BY <1>1, <1>2 DEF Created, Started, Canceled, Ended, TaskStates, FinalStates, Types, TerminalTypes
<1>3. ASSUME NEW t \in Task, Reported(t) PROVE LifecycleTypeOK' /\ UNCHANGED deliveryVars
  <2>1. BusTypeOK' BY <1>0, <1>3, ReportTyped DEF Reported
  <2> QED BY <1>3, <2>1, ProgressAssumption DEF Reported, Report, LifecycleTypeOK
<1>4. ASSUME NEW p \in Publisher, Publishes(p) PROVE LifecycleTypeOK' /\ UNCHANGED deliveryVars
  <2>1. BusTypeOK' BY <1>0, <1>4, PublishTyped DEF Publishes
  <2> QED BY <1>4, <2>1 DEF Publishes, TakeNumber, HandOver, LifecycleTypeOK
<1> QED BY <1>2, <1>3, <1>4 DEF Next, LifecycleStep

\* A step of the bus keeps the invariant.
LEMMA BusStepKeeps ==
  ASSUME BusInv, BusStep \/ ClientReads
  PROVE  BusTypeOK' /\ NoLostWakeup' /\ OverfullWithEndsOnly'
<1>0. /\ BusTypeOK /\ NoLostWakeup /\ OverfullWithEndsOnly
      /\ queue \in Seq(Event) /\ wire \in Seq(Event) /\ callbacks \in Seq(Event)
      /\ QueueSize \in Nat \ {0}
  BY BusAssumption DEF BusInv, LifecycleTypeOK, BusTypeOK
<1>1. NoEvent \in Event BY NewEventTyped DEF NoEvent, Types
<1>2. CASE Offer
  <2>1. callbacks # <<>> /\ callbacks' = Tail(callbacks)
    BY <1>2 DEF Offer
  <2>2. Head(callbacks) \in Event /\ callbacks' \in Seq(Event)
    BY <1>0, <2>1, HeadTailProperties
  <2>3. /\ Offered(Head(callbacks)) \in Seq(Event)
        /\ Len(Offered(Head(callbacks))) > QueueSize =>
             \A i \in DOMAIN Offered(Head(callbacks)) : Terminal(Offered(Head(callbacks))[i])
        /\ Offered(Head(callbacks)) = queue \/ ~Full \/ Terminal(Head(callbacks))
    BY <1>0, <2>2, OfferedKeeps
  <2>4. /\ \/ queue' = queue /\ ready' = ready
           \/ /\ queue' = Offered(Head(callbacks))
              /\ ready' = (ready \/ ~Full \/ Terminal(Head(callbacks)))
        /\ UNCHANGED <<sequence, publishing, connection, connections, handler, outgoing, wire>>
    BY <1>2 DEF Offer
  <2>5. queue' \in Seq(Event) /\ ready' \in BOOLEAN
    BY <1>0, <2>3, <2>4 DEF BusTypeOK
  <2>6. BusTypeOK'
    <3>1. callbacks' \in Seq(Event) /\ queue' \in Seq(Event) /\ wire' \in Seq(Event)
            /\ outgoing' \in Event
      BY <1>0, <2>2, <2>4, <2>5 DEF BusTypeOK
    <3>2. /\ sequence' \in 0..SequenceWrap - 1
          /\ publishing' \in [Publisher -> [stage : {"none", "decided", "numbered"}, event : Event]]
          /\ connection' \in 0..MaxConnections /\ connections' \in 0..MaxConnections
          /\ handler' \in {"closed", "receiving", "waiting", "sending"}
      BY <1>0, <2>4 DEF BusTypeOK
    <3> QED BY <2>5, <3>1, <3>2 DEF BusTypeOK
  <2>7. ready \/ ready' \/ queue' = queue BY <2>3, <2>4, Zenon
  <2>8. ready => ready' BY <2>4, Zenon
  <2>9. NoLostWakeup' BY <1>0, <2>4, <2>7, <2>8 DEF NoLostWakeup
  <2>10. OverfullWithEndsOnly' BY <1>0, <2>3, <2>4 DEF OverfullWithEndsOnly
  <2> QED BY <2>6, <2>9, <2>10
<1>3. CASE Receive
  <2>1. CASE queue = <<>>
    <3>1. UNCHANGED <<queue, outgoing, sequence, publishing, connection, connections, callbacks, wire>>
            /\ ready' = FALSE /\ handler' = "waiting"
      BY <1>3, <2>1 DEF Receive
    <3> QED BY <1>0, <2>1, <3>1 DEF BusTypeOK, NoLostWakeup, OverfullWithEndsOnly
  <2>2. CASE queue # <<>>
    <3>1. /\ outgoing' = Head(queue) /\ queue' = Tail(queue) /\ handler' = "sending"
          /\ UNCHANGED <<ready, sequence, publishing, connection, connections, callbacks, wire>>
      BY <1>3, <2>2 DEF Receive
    <3>2. /\ Head(queue) \in Event /\ Tail(queue) \in Seq(Event)
          /\ Len(Tail(queue)) = Len(queue) - 1 /\ Len(queue) \in Nat
          /\ \A i \in 1..Len(Tail(queue)) : Tail(queue)[i] = queue[i + 1]
          /\ DOMAIN Tail(queue) = 1..Len(Tail(queue)) /\ DOMAIN queue = 1..Len(queue)
      BY <1>0, <2>2, HeadTailProperties, LenProperties
    <3>3. queue' \in Seq(Event) /\ outgoing' \in Event BY <3>1, <3>2
    <3>4. BusTypeOK' BY <1>0, <3>1, <3>3 DEF BusTypeOK
    <3>5. NoLostWakeup' BY <3>1 DEF NoLostWakeup
    <3>6. OverfullWithEndsOnly' BY <1>0, <3>1, <3>2 DEF OverfullWithEndsOnly
    <3> QED BY <3>4, <3>5, <3>6
  <2> QED BY <2>1, <2>2
<1>4. CASE Wake
  BY <1>0, <1>4 DEF Wake, BusTypeOK, NoLostWakeup, OverfullWithEndsOnly
<1>5. CASE Heartbeat
  <2> DEFINE beat == [NewEvent("heartbeat", NoTask) EXCEPT
                        !.number = NextNumber, !.connection = connection]
  <2>1. NextNumber \in 0..SequenceWrap - 1
    BY <1>0, <1>1, NumberedTyped
  <2>2. NewEvent("heartbeat", NoTask) \in Event BY NewEventTyped DEF Types
  <2>3. beat \in Event BY <1>0, <2>1, <2>2 DEF Event, BusTypeOK
  <2>4. /\ sequence' = NextNumber /\ outgoing' = beat /\ handler' = "sending"
        /\ UNCHANGED <<publishing, connection, connections, callbacks, queue, ready, wire>>
    BY <1>5 DEF Heartbeat
  <2> HIDE DEF beat
  <2> QED BY <1>0, <2>1, <2>3, <2>4 DEF BusTypeOK, NoLostWakeup, OverfullWithEndsOnly
<1>6. CASE SendJson
  <2>1. outgoing \in Event BY <1>0 DEF BusTypeOK
  <2>2. Append(wire, outgoing) \in Seq(Event) BY <1>0, <2>1, AppendProperties
  <2>3. /\ wire' = Append(wire, outgoing) /\ handler' = "receiving" /\ outgoing' = NoEvent
        /\ UNCHANGED <<sequence, publishing, connection, connections, callbacks, queue, ready>>
    BY <1>6 DEF SendJson
  <2>4. wire' \in Seq(Event) BY <2>2, <2>3
  <2> QED BY <1>0, <1>1, <2>3, <2>4 DEF BusTypeOK, NoLostWakeup, OverfullWithEndsOnly
<1>7. CASE Connect \/ Disconnect
  <2>1. NewEvent("open", NoTask) \in [type : Types \cup {"open"}, task : Task \cup {NoTask},
          number : 0..SequenceWrap - 1, connection : 0..MaxConnections]
    BY BusAssumption DEF NewEvent
  <2>2. <<NewEvent("open", NoTask)>> \in Seq(Event) /\ <<>> \in Seq(Event)
    BY <2>1 DEF Event
  <2>3. /\ wire' = <<NewEvent("open", NoTask)>> \/ wire' = <<>>
        /\ queue' = <<>> /\ handler' \in {"receiving", "closed"} /\ ready' = FALSE
        /\ outgoing' \in {outgoing, NoEvent}
        /\ connection' \in {0, connections + 1} /\ connections' \in {connections, connections + 1}
        /\ connections < MaxConnections
        /\ UNCHANGED <<sequence, publishing, callbacks>>
    BY <1>7 DEF Connect, Disconnect
  <2>4. wire' \in Seq(Event) /\ queue' \in Seq(Event) BY <2>2, <2>3
  <2>5. connection' \in 0..MaxConnections /\ connections' \in 0..MaxConnections
    BY <1>0, <2>3, BusAssumption DEF BusTypeOK
  <2>6. BusTypeOK' BY <1>0, <1>1, <2>3, <2>4, <2>5 DEF BusTypeOK
  <2>7. Len(queue') = 0 BY <2>3
  <2> QED BY <1>0, <2>3, <2>6, <2>7 DEF NoLostWakeup, OverfullWithEndsOnly
<1>8. CASE ClientReads
  <2>1. Tail(wire) \in Seq(Event)
    BY <1>0, <1>8, HeadTailProperties DEF ClientReads
  <2>2. wire' \in Seq(Event) BY <1>8, <2>1 DEF ClientReads
  <2> QED BY <1>0, <1>8, <2>2 DEF ClientReads, BusTypeOK, NoLostWakeup, OverfullWithEndsOnly
<1> QED BY <1>2, <1>3, <1>4, <1>5, <1>6, <1>7, <1>8 DEF BusStep, HandlerStep

\* Every step keeps the invariant.
LEMMA NextInv == BusInv /\ [EventsNext]_lifecycleVars => BusInv'
<1> SUFFICES ASSUME BusInv, [EventsNext]_lifecycleVars PROVE BusInv' OBVIOUS
<1>1. CASE Next
  <2>1. LifecycleTypeOK' /\ UNCHANGED deliveryVars
    BY <1>1, TaskStepKeeps DEF BusInv
  <2> QED BY <2>1 DEF BusInv, deliveryVars, NoLostWakeup, OverfullWithEndsOnly
<1>2. CASE (BusStep \/ ClientReads) /\ UNCHANGED <<taskState, reports>>
  BY <1>2, BusStepKeeps DEF BusInv, LifecycleTypeOK
<1>3. CASE UNCHANGED lifecycleVars
  BY <1>3 DEF lifecycleVars, busVars, BusInv, LifecycleTypeOK, BusTypeOK, NoLostWakeup,
              OverfullWithEndsOnly
<1> QED BY <1>1, <1>2, <1>3 DEF EventsNext

\* The tasks and the bus are type correct.
THEOREM EventsTypeCorrect == EventsSpec => []LifecycleTypeOK
<1>1. BusInv => LifecycleTypeOK BY DEF BusInv
<1> QED BY <1>1, InitInv, NextInv, PTL DEF EventsSpec

\* The handler never sleeps over a queued event.
THEOREM NoWakeupIsLost == EventsSpec => []NoLostWakeup
<1>1. BusInv => NoLostWakeup BY DEF BusInv
<1> QED BY <1>1, InitInv, NextInv, PTL DEF EventsSpec

\* The queue outgrows its size by events that end a task only.
THEOREM OnlyEndsOverfill == EventsSpec => []OverfullWithEndsOnly
<1>1. BusInv => OverfullWithEndsOnly BY DEF BusInv
<1> QED BY <1>1, InitInv, NextInv, PTL DEF EventsSpec

-----------------------------------------------------------------------------
(* Ends of tasks are delivered. *)

\* Appending adds one element.
LEMMA AppendKeeps ==
  ASSUME NEW s \in Seq(Event), NEW e \in Event
  PROVE  Range(Append(s, e)) = Range(s) \cup {e}
<1>1. /\ Append(s, e) \in Seq(Event) /\ Len(Append(s, e)) = Len(s) + 1
      /\ \A i \in 1..Len(s) : Append(s, e)[i] = s[i]
      /\ Append(s, e)[Len(s) + 1] = e
  BY AppendProperties
<1>2. DOMAIN s = 1..Len(s) /\ DOMAIN Append(s, e) = 1..(Len(s) + 1) /\ Len(s) \in Nat
  BY <1>1, LenProperties
<1>3. 1..(Len(s) + 1) = (1..Len(s)) \cup {Len(s) + 1} BY <1>2
<1> QED BY <1>1, <1>2, <1>3 DEF Range

\* Taking the head off leaves every other element.
LEMMA HeadAndTail ==
  ASSUME NEW s \in Seq(Event), s # <<>>
  PROVE  Range(s) = {Head(s)} \cup Range(Tail(s)) /\ Head(s) \in Event
<1>1. /\ Head(s) \in Event /\ Tail(s) \in Seq(Event) /\ Len(Tail(s)) = Len(s) - 1
      /\ \A i \in 1..Len(Tail(s)) : Tail(s)[i] = s[i + 1]
  BY HeadTailProperties
<1>2. /\ DOMAIN s = 1..Len(s) /\ DOMAIN Tail(s) = 1..Len(Tail(s))
      /\ Len(s) \in Nat \ {0} /\ Head(s) = s[1]
  BY <1>1, LenProperties, EmptySeq
<1>3. \A i \in 1..Len(s) : i = 1 \/ i - 1 \in 1..Len(Tail(s)) BY <1>1, <1>2
<1>4. \A i \in 1..Len(s) : i # 1 => s[i] = Tail(s)[i - 1] BY <1>1, <1>2, <1>3
<1>5. \A i \in 1..Len(Tail(s)) : i + 1 \in 1..Len(s) BY <1>1, <1>2
<1>6. Range(s) \subseteq {Head(s)} \cup Range(Tail(s))
  <2> SUFFICES ASSUME NEW i \in 1..Len(s) PROVE s[i] \in {Head(s)} \cup Range(Tail(s))
    BY <1>2 DEF Range
  <2>1. CASE i = 1 BY <1>2, <2>1
  <2>2. CASE i # 1
    <3>1. i - 1 \in DOMAIN Tail(s) /\ s[i] = Tail(s)[i - 1] BY <1>2, <1>3, <1>4, <2>2
    <3> QED BY <3>1 DEF Range
  <2> QED BY <2>1, <2>2
<1>7. Range(Tail(s)) \subseteq Range(s)
  BY <1>1, <1>2, <1>5 DEF Range
<1>8. Head(s) \in Range(s)
  BY <1>2 DEF Range
<1> QED BY <1>1, <1>6, <1>7, <1>8

\* Removing the oldest event that ends nothing keeps those that end a task.
LEMMA EndsRemain ==
  ASSUME NEW s \in Seq(Event), NEW q \in Range(s), Terminal(q)
  PROVE  q \in Range(RemoveFirstMatch(s, LAMBDA x : ~Terminal(x)))
<1> DEFINE Matches == {i \in 1..Len(s) : ~Terminal(s[i])}
           rest == RemoveFirstMatch(s, LAMBDA x : ~Terminal(x))
<1>0. Len(s) \in Nat /\ DOMAIN s = 1..Len(s) /\ \A i \in 1..Len(s) : s[i] \in Event
  BY LenProperties
<1>1. CASE Matches = {}
  BY <1>1 DEF RemoveFirstMatch
<1>2. CASE Matches # {}
  <2>1. \E x \in Matches : \A y \in Matches : x <= y
    <3>1. Matches \in SUBSET (1..Len(s)) OBVIOUS
    <3> QED BY <1>0, <1>2, <3>1, LeastPosition
  <2>2. Min(Matches) \in Matches BY <2>1 DEF Min
  <2>3. rest = RemoveAt(s, Min(Matches))
    BY <1>2 DEF RemoveFirstMatch, SelectInSeq
  <2>4. PICK k \in 1..Len(s) : s[k] = q BY <1>0 DEF Range
  <2>5. k # Min(Matches) BY <2>2, <2>4
  <2> QED BY <2>2, <2>3, <2>4, <2>5, RemoveAtKeeps
<1> QED BY <1>1, <1>2

\* offer() keeps every event that ends a task, and takes in one that does.
LEMMA OfferedKeepsEnds ==
  ASSUME BusTypeOK, NEW e \in Event, NEW q \in Range(queue) \cup {e}, Terminal(q)
  PROVE  q \in Range(Offered(e))
<1>0. queue \in Seq(Event) /\ DOMAIN queue = 1..Len(queue) /\ Len(queue) \in Nat
  BY LenProperties DEF BusTypeOK
<1>1. \A s \in Seq(Event) : Range(Append(s, e)) = Range(s) \cup {e}
  BY AppendKeeps
<1>2. CASE ~Full
  <2>1. Offered(e) = Append(queue, e) BY <1>2 DEF Offered
  <2> QED BY <1>0, <1>1, <2>1
<1>3. CASE Full /\ ~Terminal(e)
  BY <1>3 DEF Offered
<1>4. CASE Full /\ Terminal(e)
  <2> DEFINE rest == RemoveFirstMatch(queue, LAMBDA x : ~Terminal(x))
  <2>1. Offered(e) = Append(rest, e) BY <1>4 DEF Offered
  <2>2. rest \in Seq(Event) BY <1>0, OldestRemoved
  <2>3. ASSUME q \in Range(queue) PROVE q \in Range(rest)
    BY <1>0, <2>3, EndsRemain
  <2> QED BY <1>1, <2>1, <2>2, <2>3
<1> QED BY <1>2, <1>3, <1>4

\* A step of the tasks only adds to the callbacks of the loop.
LEMMA CallbacksGrow ==
  ASSUME LifecycleTypeOK, Next \/ UNCHANGED lifecycleVars
  PROVE  callbacks' = callbacks \/ \E x \in Event : callbacks' = Append(callbacks, x)
<1>1. \A p \in Publisher : publishing[p].event \in Event
  BY DEF LifecycleTypeOK, BusTypeOK
<1> QED
  BY <1>1 DEF Next, LifecycleStep, Created, Started, Canceled, Ended, Moves, Announce, Reported,
              Report, Publishes, TakeNumber, HandOver, lifecycleVars, busVars

\* An event that ends a task stays on its way until the client takes it.
THEOREM EndsReachTheClient == EventsSpec => EndsAreDelivered
<1>1. BusInv /\ [EventsNext]_lifecycleVars =>
        [\A e \in InFlight :
           (Terminal(e) /\ e.connection = connection /\ connection' = connection)
             => e \in InFlight' \/ (wire # <<>> /\ e = Head(wire))]_busVars
  <2> SUFFICES ASSUME BusInv, [EventsNext]_lifecycleVars, NEW e \in InFlight, Terminal(e),
                      e.connection = connection, connection' = connection
               PROVE  e \in InFlight' \/ (wire # <<>> /\ e = Head(wire))
    OBVIOUS
  <2>0. /\ BusTypeOK /\ callbacks \in Seq(Event) /\ queue \in Seq(Event) /\ wire \in Seq(Event)
        /\ outgoing \in Event
    BY DEF BusInv, LifecycleTypeOK, BusTypeOK
  <2>1. CASE Next \/ UNCHANGED lifecycleVars
    <3>1. UNCHANGED deliveryVars
      BY <2>1, TaskStepKeeps DEF BusInv, lifecycleVars, busVars, deliveryVars
    <3>2. callbacks' = callbacks \/ \E x \in Event : callbacks' = Append(callbacks, x)
      BY <2>1, CallbacksGrow DEF BusInv
    <3>3. Range(callbacks) \subseteq Range(callbacks')
      <4>1. CASE callbacks' = callbacks BY <4>1
      <4>2. ASSUME NEW x \in Event, callbacks' = Append(callbacks, x)
            PROVE  Range(callbacks) \subseteq Range(callbacks')
        BY <2>0, <4>2, AppendKeeps
      <4> QED BY <3>2, <4>1, <4>2
    <3> QED BY <3>1, <3>3 DEF InFlight, deliveryVars
  <2>2. CASE Offer
    <3>1. /\ callbacks # <<>> /\ callbacks' = Tail(callbacks)
          /\ UNCHANGED <<handler, outgoing, wire>>
          /\ Head(callbacks).connection # connection => queue' = queue
          /\ Head(callbacks).connection = connection => queue' = Offered(Head(callbacks))
      BY <2>2 DEF Offer
    <3>2. Range(callbacks) = {Head(callbacks)} \cup Range(callbacks') /\ Head(callbacks) \in Event
      BY <2>0, <3>1, HeadAndTail
    <3>3. e \in Range(queue) => e \in Range(queue')
      BY <2>0, <3>1, <3>2, OfferedKeepsEnds
    <3>4. e = Head(callbacks) => e \in Range(queue')
      BY <2>0, <3>1, <3>2, OfferedKeepsEnds
    <3> QED BY <3>1, <3>2, <3>3, <3>4 DEF InFlight
  <2>3. CASE Receive
    <3>1. CASE queue = <<>>
      BY <2>3, <3>1 DEF Receive, InFlight
    <3>2. CASE queue # <<>>
      <4>1. /\ outgoing' = Head(queue) /\ queue' = Tail(queue) /\ handler' = "sending"
            /\ handler = "receiving" /\ UNCHANGED <<callbacks, wire>>
        BY <2>3, <3>2 DEF Receive
      <4>2. Range(queue) = {Head(queue)} \cup Range(queue')
        BY <2>0, <3>2, <4>1, HeadAndTail
      <4> QED BY <4>1, <4>2 DEF InFlight
    <3> QED BY <3>1, <3>2
  <2>4. CASE Wake \/ Heartbeat
    BY <2>4 DEF Wake, Heartbeat, InFlight
  <2>5. CASE SendJson
    <3>1. wire' = Append(wire, outgoing) /\ UNCHANGED <<callbacks, queue>>
      BY <2>5 DEF SendJson
    <3>2. Range(wire') = Range(wire) \cup {outgoing}
      BY <2>0, <3>1, AppendKeeps
    <3> QED BY <3>1, <3>2 DEF InFlight
  <2>6. CASE Connect \/ Disconnect
    BY <2>0, <2>6 DEF Connect, Disconnect, BusTypeOK
  <2>7. CASE ClientReads
    <3>1. wire # <<>> /\ wire' = Tail(wire) /\ UNCHANGED <<callbacks, queue, handler, outgoing>>
      BY <2>7 DEF ClientReads
    <3>2. Range(wire) = {Head(wire)} \cup Range(wire')
      BY <2>0, <3>1, HeadAndTail
    <3> QED BY <3>1, <3>2 DEF InFlight
  <2> QED BY <2>1, <2>2, <2>3, <2>4, <2>5, <2>6, <2>7 DEF EventsNext, BusStep, HandlerStep
<1>2. BusInv /\ [EventsNext]_lifecycleVars => BusInv' BY NextInv
<1> QED BY <1>1, <1>2, InitInv, PTL DEF EventsSpec, EndsAreDelivered
-----------------------------------------------------------------------------
(* The dashboard. *)

\* The state an event stands for.
LEMMA StateOfTyped ==
  ASSUME NEW e \in Event, e.type \notin {"progress", "heartbeat", "open"}
  PROVE  StateOf(e.type) \in TaskStates
BY DEF Event, Types, TerminalTypes, StateOf, TaskStates, FinalStates

\* A task that is replaced leaves the dashboard typed.
LEMMA WithTaskTyped ==
  ASSUME shown \in [Task -> TaskStates] \cup {NoSnapshot}, NEW t, NEW state \in TaskStates
  PROVE  WithTask(t, state) \in [Task -> TaskStates] \cup {NoSnapshot}
<1>1. CASE shown = NoSnapshot
  BY <1>1 DEF WithTask
<1>2. CASE shown # NoSnapshot
  <2>1. [shown EXCEPT ![t] = state] \in [Task -> TaskStates]
    BY <1>2
  <2> QED
    BY <1>2, <2>1 DEF WithTask
<1> QED
  BY <1>1, <1>2

\* Answers are added and taken one at a time.
LEMMA AnswersTyped ==
  ASSUME BagToSet(snapshots) \subseteq [Task -> TaskStates], NEW s
  PROVE  /\ s \in [Task -> TaskStates] =>
              BagToSet(snapshots (+) SetToBag({s})) \subseteq [Task -> TaskStates]
         /\ BagToSet(snapshots (-) SetToBag({s})) \subseteq [Task -> TaskStates]
<1>1. BagToSet(snapshots (+) SetToBag({s})) = BagToSet(snapshots) \cup {s}
  BY DEF BagToSet, SetToBag, (+)
<1>2. BagToSet(snapshots (-) SetToBag({s})) \subseteq BagToSet(snapshots)
  BY DEF BagToSet, SetToBag, (-)
<1> QED
  BY <1>1, <1>2
\* Whatever the client or the user does is a step of the tasks and the bus, or none.
LEMMA DashboardStepsAreEvents == DashboardNext => [EventsNext]_lifecycleVars
<1> SUFFICES ASSUME DashboardNext PROVE [EventsNext]_lifecycleVars
  OBVIOUS
<1>1. ASSUME NEW t \in Task, UserCancels(t) PROVE [EventsNext]_lifecycleVars
  BY <1>1 DEF UserCancels, Next, EventsNext
<1>2. ASSUME ClientStep PROVE [EventsNext]_lifecycleVars
  BY <1>2 DEF ClientStep, Opened, EventArrives, Read, SnapshotArrives, CancelArrives, EventsNext
<1>3. ASSUME AnswerSnapshot PROVE [EventsNext]_lifecycleVars
  BY <1>3 DEF AnswerSnapshot
<1> QED
  BY <1>1, <1>2, <1>3 DEF DashboardNext, EventsNext

\* Every step of the dashboard keeps its types.
LEMMA NextDashboardTyped ==
  BusInv /\ DashboardTypeOK /\ [DashboardNext]_dashboardVars => DashboardTypeOK'
<1> SUFFICES ASSUME BusInv, DashboardTypeOK, [DashboardNext]_dashboardVars
             PROVE  DashboardTypeOK'
  OBVIOUS
<1>1. BusInv'
  BY DashboardStepsAreEvents, NextInv DEF dashboardVars
<1>2. LifecycleTypeOK' /\ taskState \in [Task -> TaskStates] /\ taskState' \in [Task -> TaskStates]
  BY <1>1 DEF BusInv, LifecycleTypeOK
<1>3. ASSUME UNCHANGED clientVars PROVE DashboardTypeOK'
  BY <1>2, <1>3 DEF clientVars, DashboardTypeOK
<1>4. ASSUME AnswerSnapshot PROVE DashboardTypeOK'
  BY <1>2, <1>4, AnswersTyped DEF AnswerSnapshot, DashboardTypeOK
<1>5. ASSUME NEW t \in Task, UserCancels(t) PROVE DashboardTypeOK'
  BY <1>2, <1>5 DEF UserCancels, DashboardTypeOK
<1>6. ASSUME NEW t \in Task, CancelArrives(t) PROVE DashboardTypeOK'
  <2>1. "none" \in TaskStates
    BY DEF TaskStates
  <2> QED
    BY <1>2, <1>6, <2>1, WithTaskTyped DEF CancelArrives, DashboardTypeOK, NoAnswer
<1>7. ASSUME NEW s \in BagToSet(snapshots), SnapshotArrives(s) PROVE DashboardTypeOK'
  BY <1>2, <1>7, AnswersTyped DEF SnapshotArrives, DashboardTypeOK
<1>8. ASSUME Opened PROVE DashboardTypeOK'
  BY <1>2, <1>8 DEF Opened, Read, Refresh, DashboardTypeOK
<1>9. ASSUME EventArrives PROVE DashboardTypeOK'
  <2>1. Head(wire) \in Event
    BY <1>9 DEF EventArrives, Read, ClientReads, BusInv, LifecycleTypeOK, BusTypeOK
  <2>2. Head(wire).number \in 0..SequenceWrap - 1
    BY <2>1 DEF Event
  <2>3. Applied(Head(wire)) \in [Task -> TaskStates] \cup {NoSnapshot}
    BY <1>9, <2>1, StateOfTyped, WithTaskTyped DEF EventArrives, Applied, DashboardTypeOK
  <2>4. asked' \in Nat /\ shown' = Applied(Head(wire)) /\ lastNumber' = Head(wire).number
        /\ UNCHANGED <<snapshots, cancelAnswer>>
    BY <1>9 DEF EventArrives, Read, Refresh, DashboardTypeOK
  <2> QED
    BY <1>2, <2>2, <2>3, <2>4 DEF DashboardTypeOK
<1>10. CASE DashboardNext
  BY <1>3, <1>4, <1>5, <1>6, <1>7, <1>8, <1>9, <1>10 DEF DashboardNext, ClientStep, clientVars
<1> QED
  BY <1>3, <1>10 DEF dashboardVars

\* The dashboard is type correct over any tasks, however answers and events
\* overtake each other (dashboardState.ts, FastApiAdapter.ts 66-98).
THEOREM DashboardTypeCorrect == DashboardSpec => []DashboardTypeOK
<1>1. DashboardInit => BusInv /\ DashboardTypeOK
  <2> SUFFICES ASSUME DashboardInit PROVE BusInv /\ DashboardTypeOK
    OBVIOUS
  <2>1. BusInv /\ LifecycleTypeOK
    BY InitInv DEF DashboardInit, BusInv
  <2>2. "none" \in TaskStates /\ BagToSet(EmptyBag) = {}
    BY DEF TaskStates, BagToSet, EmptyBag, SetToBag
  <2> QED
    BY <2>1, <2>2 DEF DashboardInit, DashboardTypeOK, NoAnswer
<1>2. BusInv /\ DashboardTypeOK /\ [DashboardNext]_dashboardVars => BusInv' /\ DashboardTypeOK'
  <2>1. [DashboardNext]_dashboardVars => [EventsNext]_lifecycleVars
    BY DashboardStepsAreEvents DEF dashboardVars
  <2> QED
    BY <2>1, NextInv, NextDashboardTyped
<1> QED
  BY <1>1, <1>2, PTL DEF DashboardSpec
=============================================================================
