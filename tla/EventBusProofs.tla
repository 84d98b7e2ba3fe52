----------------------------- MODULE EventBusProofs -----------------------------
(***************************************************************************)
(* Lemmas about the steps of EventBus, for any tasks, any size of the      *)
(* queue and any number of connections.                                    *)
(***************************************************************************)
EXTENDS EventBus, SequenceTheorems, FiniteSetTheorems, TLAPS

-----------------------------------------------------------------------------
(* Publishing keeps the bus type correct. *)

\* An event just made is an event.
LEMMA NewEventTyped ==
  ASSUME NEW type \in Types, NEW t \in Task \cup {NoTask}
  PROVE  NewEvent(type, t) \in Event
BY BusAssumption DEF NewEvent, Event

\* Numbering an event keeps it an event.
LEMMA NumberedTyped ==
  ASSUME NEW e \in Event, BusTypeOK
  PROVE  /\ NextNumber \in 0..SequenceWrap - 1
         /\ Numbered(e) \in [stage : {"none", "decided", "numbered"}, event : Event]
<1>1. NextNumber \in 0..SequenceWrap - 1
  BY BusAssumption DEF NextNumber, BusTypeOK
<1>2. [e EXCEPT !.number = NextNumber, !.connection = connection] \in Event
  BY <1>1 DEF Event, BusTypeOK
<1> QED BY <1>1, <1>2 DEF Numbered

\* Publishing from the loop keeps the bus type correct.
LEMMA AnnounceTyped ==
  ASSUME NEW type \in Types, NEW t \in Task, BusTypeOK, Announce(type, t)
  PROVE  BusTypeOK'
<1>1. NewEvent(type, t) \in Event BY NewEventTyped
<1>2. /\ NextNumber \in 0..SequenceWrap - 1
      /\ Numbered(NewEvent(type, t)) \in [stage : {"none", "decided", "numbered"}, event : Event]
  BY <1>1, NumberedTyped
<1> QED BY <1>2 DEF Announce, BusTypeOK, deliveryVars, Publisher

\* Deciding to publish a report keeps the bus type correct.
LEMMA ReportTyped ==
  ASSUME NEW t \in Task, BusTypeOK, Report(t)
  PROVE  BusTypeOK'
<1>1. NewEvent("progress", t) \in Event BY NewEventTyped DEF Types
<1> QED BY <1>1 DEF Report, BusTypeOK, deliveryVars, Publisher

\* The two steps of publish() keep the bus type correct.
LEMMA PublishTyped ==
  ASSUME NEW p \in Publisher, BusTypeOK, TakeNumber(p) \/ HandOver(p)
  PROVE  BusTypeOK'
<1>0. publishing[p].event \in Event BY DEF BusTypeOK
<1>1. CASE TakeNumber(p)
  <2>1. /\ NextNumber \in 0..SequenceWrap - 1
        /\ Numbered(publishing[p].event) \in [stage : {"none", "decided", "numbered"}, event : Event]
    BY <1>0, NumberedTyped
  <2> QED BY <1>1, <2>1 DEF TakeNumber, BusTypeOK, deliveryVars
<1>2. CASE HandOver(p)
  <2>1. NotPublishing \in [stage : {"none", "decided", "numbered"}, event : Event]
    BY NewEventTyped DEF NotPublishing, NoEvent, Types
  <2>2. callbacks' \in Seq(Event)
    BY <1>0, <1>2 DEF HandOver, BusTypeOK
  <2> QED BY <1>2, <2>1, <2>2 DEF HandOver, BusTypeOK, deliveryVars
<1> QED BY <1>1, <1>2


-----------------------------------------------------------------------------
(* The queue. *)

\* Every non-empty set of positions has a least one: among the initial segments
\* up to its members, finite sets ordered by strict inclusion, one is minimal.
LEMMA LeastPosition ==
  ASSUME NEW n \in Nat, NEW T \in SUBSET (1..n), T # {}
  PROVE  \E x \in T : \A y \in T : x <= y
<1> DEFINE Segments == {1..x : x \in T}
<1>1. Segments \subseteq FiniteSubsetsOf(Nat)
  <2> SUFFICES ASSUME NEW x \in T PROVE 1..x \in SUBSET Nat /\ IsFiniteSet(1..x)
    BY DEF FiniteSubsetsOf
  <2> QED BY FS_Interval
<1>2. Segments # {} OBVIOUS
<1>3. PICK s \in Segments : \A r \in Segments : <<r, s>> \notin StrictSubsetOrdering(Nat)
  BY <1>1, <1>2, FS_StrictSubsetOrderingWellFounded, WFMin
<1>4. PICK x \in T : s = 1..x OBVIOUS
<1>5. ASSUME NEW y \in T PROVE x <= y
  <2> SUFFICES ASSUME y < x PROVE FALSE OBVIOUS
  <2>1. 1..y \subseteq 1..x /\ x \in 1..x /\ x \notin 1..y OBVIOUS
  <2>2. <<1..y, 1..x>> \in StrictSubsetOrdering(Nat)
    BY <2>1 DEF StrictSubsetOrdering
  <2> QED BY <1>3, <1>4, <2>2
<1> QED BY <1>5

\* Removing a position of a queue shortens it by one and adds nothing.
LEMMA RemoveAtShortens ==
  ASSUME NEW s \in Seq(Event), NEW i \in 1..Len(s)
  PROVE  RemoveAt(s, i) \in Seq(Event) /\ Len(RemoveAt(s, i)) = Len(s) - 1
<1> DEFINE before == SubSeq(s, 1, i - 1)
           after  == SubSeq(s, i + 1, Len(s))
<1>0. /\ Len(s) \in Nat /\ i \in Nat \ {0} /\ i <= Len(s)
      /\ \A j \in 1..Len(s) : s[j] \in Event
  BY LenProperties
<1>1. before \in Seq(Event) /\ Len(before) = i - 1
  <2>1. \A j \in 1..(i - 1) : s[j] \in Event BY <1>0
  <2> QED BY <1>0, <2>1, SubSeqProperties
<1>2. after \in Seq(Event) /\ Len(after) = Len(s) - i
  <2>1. \A j \in (i + 1)..Len(s) : s[j] \in Event BY <1>0
  <2> QED BY <1>0, <2>1, SubSeqProperties
<1>3. RemoveAt(s, i) = before \o after BY DEF RemoveAt
<1> HIDE DEF before, after
<1>4. before \o after \in Seq(Event) /\ Len(before \o after) = Len(before) + Len(after)
  BY <1>1, <1>2, ConcatProperties
<1> QED BY <1>0, <1>1, <1>2, <1>3, <1>4

\* It removes nothing else.
LEMMA RemoveAtKeeps ==
  ASSUME NEW s \in Seq(Event), NEW i \in 1..Len(s), NEW k \in 1..Len(s), k # i
  PROVE  s[k] \in Range(RemoveAt(s, i))
<1> DEFINE before == SubSeq(s, 1, i - 1)
           after  == SubSeq(s, i + 1, Len(s))
<1>0. /\ Len(s) \in Nat /\ i \in Nat \ {0} /\ k \in Nat \ {0} /\ i <= Len(s) /\ k <= Len(s)
      /\ \A j \in 1..Len(s) : s[j] \in Event
  BY LenProperties
<1>1. /\ before \in Seq(Event) /\ Len(before) = i - 1
      /\ \A j \in 1..(i - 1) : before[j] = s[j]
  <2>1. \A j \in 1..(i - 1) : s[j] \in Event BY <1>0
  <2> QED BY <1>0, <2>1, SubSeqProperties
<1>2. /\ after \in Seq(Event) /\ Len(after) = Len(s) - i
      /\ \A j \in 1..(Len(s) - i) : after[j] = s[i + j]
  <2>1. \A j \in (i + 1)..Len(s) : s[j] \in Event BY <1>0
  <2> QED BY <1>0, <2>1, SubSeqProperties
<1>3. RemoveAt(s, i) = before \o after BY DEF RemoveAt
<1> HIDE DEF before, after
<1>4. Range(before \o after) = Range(before) \cup Range(after)
  BY <1>1, <1>2, RangeConcatenation
<1>5. CASE k < i
  <2>1. k \in DOMAIN before /\ before[k] = s[k] BY <1>0, <1>1, <1>5, LenProperties
  <2> QED BY <1>3, <1>4, <2>1 DEF Range
<1>6. CASE k > i
  <2>1. k - i \in DOMAIN after /\ after[k - i] = s[k] BY <1>0, <1>2, <1>6, LenProperties
  <2> QED BY <1>3, <1>4, <2>1 DEF Range
<1> QED BY <1>0, <1>5, <1>6

\* The oldest event that ends nothing is in the queue, if there is one, and
\* removing it makes room for one more.
LEMMA OldestRemoved ==
  ASSUME NEW s \in Seq(Event)
  PROVE  LET rest == RemoveFirstMatch(s, LAMBDA q : ~Terminal(q))
         IN  /\ rest \in Seq(Event)
             /\ \/ Len(rest) = Len(s) - 1
                \/ rest = s /\ \A i \in 1..Len(s) : Terminal(s[i])
<1> DEFINE rest == RemoveFirstMatch(s, LAMBDA q : ~Terminal(q))
           Matches == {i \in 1..Len(s) : ~Terminal(s[i])}
<1>1. CASE Matches = {}
  BY <1>1 DEF RemoveFirstMatch
<1>2. CASE Matches # {}
  <2>1. \E x \in Matches : \A y \in Matches : x <= y
    <3>1. Len(s) \in Nat /\ Matches \in SUBSET (1..Len(s)) BY LenProperties
    <3> QED BY <1>2, <3>1, LeastPosition
  <2>2. Min(Matches) \in Matches
    BY <2>1 DEF Min
  <2>3. rest = RemoveAt(s, Min(Matches))
    BY <1>2 DEF RemoveFirstMatch, SelectInSeq
  <2> QED BY <2>2, <2>3, RemoveAtShortens
<1> QED BY <1>1, <1>2

\* What offer() makes of the queue is a queue, and it is over its size only if
\* every event in it ends a task.
LEMMA OfferedKeeps ==
  ASSUME BusTypeOK, OverfullWithEndsOnly, NEW e \in Event
  PROVE  /\ Offered(e) \in Seq(Event)
         /\ Len(Offered(e)) > QueueSize =>
              \A i \in DOMAIN Offered(e) : Terminal(Offered(e)[i])
         /\ Offered(e) = queue \/ ~Full \/ Terminal(e)
<1>0. queue \in Seq(Event) /\ QueueSize \in Nat \ {0} /\ Len(queue) \in Nat
  BY BusAssumption DEF BusTypeOK
<1>1. CASE ~Full
  <2>1. Offered(e) = Append(queue, e) BY <1>1 DEF Offered
  <2> QED BY <1>0, <1>1, <2>1, AppendProperties DEF Full
<1>2. CASE Full /\ ~Terminal(e)
  BY <1>0, <1>2 DEF Offered, OverfullWithEndsOnly
<1>3. CASE Full /\ Terminal(e)
  <2> DEFINE rest == RemoveFirstMatch(queue, LAMBDA q : ~Terminal(q))
  <2>1. Offered(e) = Append(rest, e) BY <1>3 DEF Offered
  <2>2. /\ rest \in Seq(Event)
        /\ \/ Len(rest) = Len(queue) - 1
           \/ rest = queue /\ \A i \in 1..Len(queue) : Terminal(queue[i])
    BY <1>0, OldestRemoved
  <2> HIDE DEF rest
  <2>3. /\ Append(rest, e) \in Seq(Event) /\ Len(Append(rest, e)) = Len(rest) + 1
        /\ \A i \in 1..Len(rest) : Append(rest, e)[i] = rest[i]
        /\ Append(rest, e)[Len(rest) + 1] = e
        /\ DOMAIN Append(rest, e) = 1..(Len(rest) + 1) /\ Len(rest) \in Nat
    BY <1>0, <2>2, AppendProperties, LenProperties
  <2>4. CASE rest = queue /\ \A i \in 1..Len(queue) : Terminal(queue[i])
    BY <1>3, <2>1, <2>3, <2>4
  <2>5. CASE Len(rest) = Len(queue) - 1
    <3>1. CASE Len(queue) > QueueSize
      <4>1. \A i \in 1..Len(queue) : Terminal(queue[i])
        BY <1>0, <3>1, LenProperties DEF OverfullWithEndsOnly
      <4>2. rest = queue BY <4>1 DEF rest, RemoveFirstMatch
      <4> QED BY <1>0, <2>5, <4>2
    <3>2. CASE Len(queue) <= QueueSize
      BY <1>0, <1>3, <2>1, <2>3, <2>5, <3>2
    <3> QED BY <1>0, <3>1, <3>2
  <2> QED BY <2>2, <2>4, <2>5
<1> QED BY <1>1, <1>2, <1>3
=============================================================================
