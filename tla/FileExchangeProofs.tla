--------------------------- MODULE FileExchangeProofs ---------------------------
(***************************************************************************)
(* Proofs about PacketStream and FileExchange: the framing is a channel of *)
(* packets, however sends and receives cut them.                           *)
(***************************************************************************)
EXTENDS FileExchange, CodecProofs

-----------------------------------------------------------------------------
(* What the variables of the stream hold. *)

PayloadCell == TextCell \cup Byte
HeaderCell  == {<<"magic", "BDRP">>, <<"version", 1>>, <<"flags", 0>>, <<"checksum", 0>>}
                 \cup ({"type"} \X PacketTypes) \cup ({"length"} \X Nat)
Cell        == PayloadCell \cup HeaderCell
Packet      == [type : PacketTypes, payload : Seq(PayloadCell)]

StreamTypeOK ==
  /\ handle \in [Ends -> BOOLEAN]
  /\ out \in [Ends -> Seq(Cell)]
  /\ wire \in [Ends -> Seq(Cell)]
  /\ got \in [Ends -> Seq(Cell)]
  /\ sent \in [Ends -> Seq(Packet)]
  /\ read \in [Ends -> Seq(Packet)]

\* What the steps of the model do to the stream.
Lost ==
  /\ handle' = [e \in Ends |-> FALSE]
  /\ out' = Nothing /\ wire' = Nothing /\ got' = Nothing
  /\ UNCHANGED <<sent, read>>

StreamStep(e) ==
  \/ \E packet \in Packet : WritePacket(e, packet)
  \/ SendSome(e) \/ RecvSome(e) \/ TakePacket(e) \/ CloseEnd(e)

StreamNext == Connected \/ Lost \/ \E e \in Ends : StreamStep(e)

-----------------------------------------------------------------------------
(* Framing. *)

\* What is on its way to an end, from what it has read of the current packet to
\* what its peer has not yet sent.
Flow(e)     == (got[e] \o wire[e]) \o out[Peer(e)]
Pending(e)  == Len(sent[e]) - Len(read[e])
Unread(e, i) == sent[e][Len(read[e]) + i]
Size(packet) == HeaderSize + Len(packet.payload)

\* The packets not yet read stand in the flow one after the other, the i-th
\* behind the first start[i] cells; when the peer is gone the end may be missing.
Starts(e, start) ==
  /\ start \in [1..(Pending(e) + 1) -> Nat] /\ start[1] = 0
  /\ \A i, j \in 1..(Pending(e) + 1) : i <= j => start[i] <= start[j]
  /\ \A i \in 1..Pending(e) : start[i + 1] = start[i] + Size(Unread(e, i))
  /\ Len(Flow(e)) <= start[Pending(e) + 1]
  /\ handle[Peer(e)] => Len(Flow(e)) = start[Pending(e) + 1]
Framed(e, start) ==
  \A i \in 1..Pending(e) : \A k \in 1..Size(Unread(e, i)) :
    start[i] + k <= Len(Flow(e)) => Flow(e)[start[i] + k] = Encode(Unread(e, i))[k]

PrefixRead(e) ==
  /\ Len(read[e]) <= Len(sent[e])
  /\ \A i \in 1..Len(read[e]) : read[e][i] = sent[e][i]

EndInv(e) ==
  /\ PrefixRead(e)
  /\ handle[e] => \E start : Starts(e, start) /\ Framed(e, start)
  /\ ~handle[e] => got[e] = <<>> /\ wire[e] = <<>> /\ out[e] = <<>>

ChannelInv == StreamTypeOK /\ \A e \in Ends : EndInv(e)

\* The ends.
LEMMA TwoEnds ==
  /\ \A e \in Ends : Peer(e) \in Ends /\ Peer(e) # e /\ Peer(Peer(e)) = e
  /\ \A e, d \in Ends : d = e \/ d = Peer(e)
BY DEF Ends, Peer

\* A sum of natural numbers is one, no smaller than its parts.
LEMMA SumBounds ==
  ASSUME NEW a \in Nat, NEW b \in Nat, NEW c \in Nat
  PROVE  a + b + c \in Nat /\ a + b + c >= a
OBVIOUS

LEMMA SumNext ==
  ASSUME NEW a \in Nat, NEW b \in Nat, NEW c \in Nat, a + b = c
  PROVE  a + (b + 1) = c + 1
OBVIOUS

\* The first part of a sequence and the rest.
LEMMA Splits ==
  ASSUME NEW S, NEW a \in Seq(S), NEW k \in 0..Len(a)
  PROVE  /\ SubSeq(a, 1, k) \in Seq(S) /\ Len(SubSeq(a, 1, k)) = k
         /\ SubSeq(a, k + 1, Len(a)) \in Seq(S)
         /\ Len(SubSeq(a, k + 1, Len(a))) = Len(a) - k
         /\ \A i \in 1..k : SubSeq(a, 1, k)[i] = a[i]
         /\ \A i \in 1..(Len(a) - k) : SubSeq(a, k + 1, Len(a))[i] = a[k + i]
         /\ SubSeq(a, 1, k) \o SubSeq(a, k + 1, Len(a)) = a
<1>1. Len(a) \in Nat /\ \A i \in 1..Len(a) : a[i] \in S
  BY LenProperties, ElementOfSeq
<1>2. /\ SubSeq(a, 1, k) \in Seq(S) /\ Len(SubSeq(a, 1, k)) = k
      /\ \A i \in 1..k : SubSeq(a, 1, k)[i] = a[i]
  BY <1>1, SubSeqProperties
<1>3. /\ SubSeq(a, k + 1, Len(a)) \in Seq(S)
      /\ Len(SubSeq(a, k + 1, Len(a))) = Len(a) - k
      /\ \A i \in 1..(Len(a) - k) : SubSeq(a, k + 1, Len(a))[i] = a[k + i]
  BY <1>1, SubSeqProperties
<1>4. SubSeq(a, 1, k) \o SubSeq(a, k + 1, Len(a)) = SubSeq(a, 1, Len(a))
  <2>1. 1 \in 1..(Len(a) + 1) /\ k \in (1 - 1)..Len(a) /\ Len(a) \in k..Len(a)
    BY <1>1
  <2> QED
    BY <2>1, ConcatAdjacentSubSeq
<1>5. SubSeq(a, 1, Len(a)) = a
  BY SubSeqFull
<1> QED
  BY <1>2, <1>3, <1>4, <1>5

\* What stands in three sequences put together.
LEMMA JoinsThree ==
  ASSUME NEW g \in Seq(Cell), NEW w \in Seq(Cell), NEW o \in Seq(Cell)
  PROVE  /\ (g \o w) \o o \in Seq(Cell)
         /\ Len((g \o w) \o o) = Len(g) + Len(w) + Len(o)
         /\ \A i \in 1..Len(g) : ((g \o w) \o o)[i] = g[i]
         /\ \A i \in 1..Len(w) : ((g \o w) \o o)[Len(g) + i] = w[i]
         /\ \A i \in 1..Len(o) : ((g \o w) \o o)[Len(g) + Len(w) + i] = o[i]
<1> DEFINE gw == g \o w
<1>1. /\ gw \in Seq(Cell) /\ Len(gw) = Len(g) + Len(w)
      /\ \A i \in 1..Len(g) : gw[i] = g[i]
      /\ \A i \in 1..Len(w) : gw[Len(g) + i] = w[i]
  BY Appended
<1> HIDE DEF gw
<1>2. /\ gw \o o \in Seq(Cell) /\ Len(gw \o o) = Len(gw) + Len(o)
      /\ \A i \in 1..Len(gw) : (gw \o o)[i] = gw[i]
      /\ \A i \in 1..Len(o) : (gw \o o)[Len(gw) + i] = o[i]
  <2>1. gw \in Seq(Cell) /\ o \in Seq(Cell)
    BY <1>1
  <2> QED
    BY ONLY <2>1, Appended
<1>3. Len(g) \in Nat /\ Len(w) \in Nat /\ Len(o) \in Nat
  BY LenProperties
<1>4. /\ gw \o o \in Seq(Cell)
      /\ Len(gw \o o) = Len(g) + Len(w) + Len(o)
      /\ \A i \in 1..Len(g) : (gw \o o)[i] = g[i]
      /\ \A i \in 1..Len(w) : (gw \o o)[Len(g) + i] = w[i]
      /\ \A i \in 1..Len(o) : (gw \o o)[Len(g) + Len(w) + i] = o[i]
  BY <1>1, <1>2, <1>3
<1> QED
  BY <1>4 DEF gw

\* The flow is typed, and begins with what has been read of the current packet.
FlowFacts ==
  \A e \in Ends :
    /\ got[e] \in Seq(Cell) /\ wire[e] \in Seq(Cell) /\ out[Peer(e)] \in Seq(Cell)
    /\ Len(got[e]) \in Nat /\ Len(wire[e]) \in Nat /\ Len(out[Peer(e)]) \in Nat
    /\ Flow(e) \in Seq(Cell)
    /\ Len(Flow(e)) = Len(got[e]) + Len(wire[e]) + Len(out[Peer(e)])
    /\ \A i \in 1..Len(got[e]) : Flow(e)[i] = got[e][i]
    /\ \A i \in 1..Len(wire[e]) : Flow(e)[Len(got[e]) + i] = wire[e][i]
    /\ \A i \in 1..Len(out[Peer(e)]) :
         Flow(e)[Len(got[e]) + Len(wire[e]) + i] = out[Peer(e)][i]

LEMMA FlowAt == StreamTypeOK => FlowFacts
<1> SUFFICES ASSUME StreamTypeOK, NEW e \in Ends
             PROVE  FlowFacts!(e)
  BY DEF FlowFacts
<1> DEFINE g == got[e]
           w == wire[e]
           o == out[Peer(e)]
<1>1. g \in Seq(Cell) /\ w \in Seq(Cell) /\ o \in Seq(Cell)
  BY TwoEnds DEF StreamTypeOK
<1>2. Flow(e) = (g \o w) \o o
  BY DEF Flow
<1> HIDE DEF g, w, o
<1>3. Len(g) \in Nat /\ Len(w) \in Nat /\ Len(o) \in Nat
  BY <1>1, LenProperties
<1>4. /\ (g \o w) \o o \in Seq(Cell)
      /\ Len((g \o w) \o o) = Len(g) + Len(w) + Len(o)
      /\ \A i \in 1..Len(g) : ((g \o w) \o o)[i] = g[i]
      /\ \A i \in 1..Len(w) : ((g \o w) \o o)[Len(g) + i] = w[i]
      /\ \A i \in 1..Len(o) : ((g \o w) \o o)[Len(g) + Len(w) + i] = o[i]
  BY ONLY <1>1, JoinsThree
<1> QED
  BY <1>1, <1>2, <1>3, <1>4 DEF g, w, o

\* What a packet is encoded to.
LEMMA EncodeAt ==
  ASSUME NEW packet \in Packet
  PROVE  /\ Len(packet.payload) \in Nat
         /\ Encode(packet) \in Seq(Cell) /\ Len(Encode(packet)) = Size(packet)
         /\ Encode(packet)[1] = <<"magic", "BDRP">>
         /\ Encode(packet)[2] = <<"version", 1>>
         /\ Encode(packet)[3] = <<"type", packet.type>>
         /\ Encode(packet)[5] = <<"length", Len(packet.payload)>>
         /\ SubSeq(Encode(packet), HeaderSize + 1, Len(Encode(packet))) = packet.payload
<1> DEFINE header == <<<<"magic", "BDRP">>, <<"version", 1>>, <<"type", packet.type>>,
                       <<"flags", 0>>, <<"length", Len(packet.payload)>>,
                       <<"checksum", 0>>>>
           payload == packet.payload
<1>1. payload \in Seq(Cell) /\ Len(payload) \in Nat /\ packet.type \in PacketTypes
  <2>1. payload \in Seq(PayloadCell) /\ packet.type \in PacketTypes
    BY DEF Packet
  <2>2. PayloadCell \subseteq Cell
    BY DEF Cell
  <2> QED
    BY <2>1, <2>2, SeqMonotonic, LenProperties
<1>2. header \in Seq(Cell) /\ Len(header) = 6
  BY <1>1 DEF Cell, HeaderCell
<1>3. Encode(packet) = header \o payload
  BY DEF Encode
<1>4. header[1] = <<"magic", "BDRP">> /\ header[2] = <<"version", 1>>
        /\ header[3] = <<"type", packet.type>> /\ header[5] = <<"length", Len(payload)>>
  OBVIOUS
<1> HIDE DEF header, payload
<1>5. /\ header \o payload \in Seq(Cell)
      /\ Len(header \o payload) = 6 + Len(payload)
      /\ \A i \in 1..6 : (header \o payload)[i] = header[i]
      /\ \A i \in 1..Len(payload) : (header \o payload)[6 + i] = payload[i]
  <2>1. header \in Seq(Cell) /\ payload \in Seq(Cell)
    BY <1>1, <1>2
  <2>2. /\ header \o payload \in Seq(Cell)
        /\ Len(header \o payload) = Len(header) + Len(payload)
        /\ \A i \in 1..Len(header) : (header \o payload)[i] = header[i]
        /\ \A i \in 1..Len(payload) : (header \o payload)[Len(header) + i] = payload[i]
    BY ONLY <2>1, Appended
  <2> QED
    BY <1>2, <2>2
<1>6. SubSeq(header \o payload, 7, Len(header \o payload)) = payload
  <2> DEFINE whole == header \o payload
             rest == SubSeq(whole, 7, Len(whole))
  <2>1. /\ rest \in Seq(Cell) /\ Len(rest) = Len(payload)
        /\ \A i \in 1..Len(payload) : rest[i] = whole[6 + i]
    <3>1. whole \in Seq(Cell) /\ 6 \in 0..Len(whole) /\ Len(whole) - 6 = Len(payload)
      BY <1>1, <1>5
    <3> HIDE DEF whole
    <3> QED
      BY <3>1, Splits
  <2> HIDE DEF rest
  <2>2. rest = payload
    BY <1>1, <1>5, <2>1, SeqEqual
  <2> QED
    BY <2>2 DEF rest
<1> QED
  BY <1>1, <1>3, <1>4, <1>5, <1>6 DEF Size, HeaderSize, payload

\* The packets not yet read, and the types of what is counted.
LEMMA Counts ==
  ASSUME ChannelInv, NEW e \in Ends
  PROVE  /\ Len(sent[e]) \in Nat /\ Len(read[e]) \in Nat
         /\ Pending(e) \in Nat /\ Len(read[e]) + Pending(e) = Len(sent[e])
         /\ \A i \in 1..Pending(e) : Unread(e, i) \in Packet
<1>1. sent[e] \in Seq(Packet) /\ read[e] \in Seq(Packet) /\ Len(read[e]) <= Len(sent[e])
  BY DEF ChannelInv, StreamTypeOK, EndInv, PrefixRead
<1>2. Len(sent[e]) \in Nat /\ Len(read[e]) \in Nat
  BY <1>1, LenProperties
<1>3. \A i \in 1..Len(sent[e]) : sent[e][i] \in Packet
  BY <1>1, ElementOfSeq
<1> QED
  BY <1>1, <1>2, <1>3 DEF Pending, Unread

\* A header that has been read is that of the next of the packets written.
LEMMA HeaderIsNext ==
  ASSUME ChannelInv, NEW e \in Ends, Len(got[e]) >= HeaderSize
  PROVE  /\ handle[e] /\ Pending(e) >= 1
         /\ PayloadLength(got[e]) = Len(Unread(e, 1).payload)
         /\ \A k \in 1..Len(got[e]) :
              k <= Size(Unread(e, 1)) => got[e][k] = Encode(Unread(e, 1))[k]
<1>1. got[e] \in Seq(Cell) /\ Len(got[e]) \in Nat /\ Len(got[e]) >= 6
  BY LenProperties DEF ChannelInv, StreamTypeOK, HeaderSize
<1>2. handle[e]
  <2>1. got[e] # <<>>
    BY <1>1, EmptySeq
  <2> QED
    BY <2>1 DEF ChannelInv, EndInv
<1>3. PICK start : Starts(e, start) /\ Framed(e, start)
  BY <1>2 DEF ChannelInv, EndInv
<1>4. /\ Len(Flow(e)) \in Nat /\ Len(Flow(e)) >= Len(got[e])
      /\ \A i \in 1..Len(got[e]) : Flow(e)[i] = got[e][i]
  <2>1. FlowFacts
    BY FlowAt DEF ChannelInv
  <2>2. /\ Len(wire[e]) \in Nat /\ Len(out[Peer(e)]) \in Nat
        /\ Len(Flow(e)) = Len(got[e]) + Len(wire[e]) + Len(out[Peer(e)])
        /\ \A i \in 1..Len(got[e]) : Flow(e)[i] = got[e][i]
    BY <2>1, Zenon DEF FlowFacts
  <2>3. Len(Flow(e)) \in Nat /\ Len(Flow(e)) >= Len(got[e])
    <3>1. /\ Len(wire[e]) \in Nat /\ Len(out[Peer(e)]) \in Nat /\ Len(got[e]) \in Nat
          /\ Len(Flow(e)) = Len(got[e]) + Len(wire[e]) + Len(out[Peer(e)])
      BY <1>1, <2>2
    <3> QED
      BY ONLY <3>1, SumBounds
  <2> QED
    BY <2>2, <2>3
<1>5. Pending(e) >= 1
  <2>1. CASE Pending(e) = 0
    BY <2>1, <1>1, <1>3, <1>4 DEF Starts
  <2> QED
    BY <2>1, Counts
<1> DEFINE p == Unread(e, 1)
<1>6. p \in Packet
  BY <1>5, Counts
<1> HIDE DEF p
<1>7. /\ Len(p.payload) \in Nat
      /\ Encode(p) \in Seq(Cell) /\ Len(Encode(p)) = Size(p)
      /\ Encode(p)[1] = <<"magic", "BDRP">>
      /\ Encode(p)[2] = <<"version", 1>>
      /\ Encode(p)[3] = <<"type", p.type>>
      /\ Encode(p)[5] = <<"length", Len(p.payload)>>
      /\ SubSeq(Encode(p), HeaderSize + 1, Len(Encode(p))) = p.payload
  BY <1>6, EncodeAt
<1>8. \A k \in 1..Size(p) : k <= Len(Flow(e)) => Flow(e)[k] = Encode(p)[k]
  <2>1. start[1] = 0 /\ 1 \in 1..Pending(e)
    BY <1>3, <1>5, Counts DEF Starts
  <2>2. \A k \in 1..Size(p) : start[1] + k <= Len(Flow(e)) => Flow(e)[start[1] + k] = Encode(p)[k]
    BY <1>3, <2>1 DEF Framed, p
  <2>3. Size(p) \in Nat
    BY <1>7 DEF Size, HeaderSize
  <2> QED
    BY <2>1, <2>2, <2>3
<1>9. \A k \in 1..Len(got[e]) : k <= Size(p) => got[e][k] = Encode(p)[k]
  BY <1>1, <1>4, <1>7, <1>8
<1>10. PayloadLength(got[e]) = Len(p.payload)
  <2>1. got[e][5] = <<"length", Len(p.payload)>>
    <3>1. 5 \in 1..Len(got[e]) /\ 5 <= Size(p)
      BY <1>1, <1>7 DEF Size, HeaderSize
    <3>2. got[e][5] = Encode(p)[5]
      BY <1>9, <3>1
    <3> QED
      BY <1>7, <3>2
  <2> QED
    BY <2>1 DEF PayloadLength
<1> QED
  BY <1>2, <1>5, <1>9, <1>10 DEF p

\* A packet that has arrived is the next of those written, whole.
LEMMA ArrivedIsNext ==
  ASSUME ChannelInv, NEW e \in Ends, Arrived(e)
  PROVE  /\ handle[e] /\ Pending(e) >= 1
         /\ got[e] = Encode(Unread(e, 1))
         /\ Packets(e) = {Unread(e, 1)}
<1> DEFINE p == Unread(e, 1)
<1>1. got[e] \in Seq(Cell) /\ Len(got[e]) \in Nat /\ Len(got[e]) >= HeaderSize
  BY LenProperties DEF ChannelInv, StreamTypeOK, Arrived
<1>2. /\ handle[e] /\ Pending(e) >= 1
      /\ PayloadLength(got[e]) = Len(p.payload)
      /\ \A k \in 1..Len(got[e]) : k <= Size(p) => got[e][k] = Encode(p)[k]
  BY <1>1, HeaderIsNext
<1>6. p \in Packet
  BY <1>2, Counts
<1> HIDE DEF p
<1>7. /\ Len(p.payload) \in Nat
      /\ Encode(p) \in Seq(Cell) /\ Len(Encode(p)) = Size(p)
      /\ Encode(p)[1] = <<"magic", "BDRP">>
      /\ Encode(p)[2] = <<"version", 1>>
      /\ Encode(p)[3] = <<"type", p.type>>
      /\ SubSeq(Encode(p), HeaderSize + 1, Len(Encode(p))) = p.payload
  BY <1>6, EncodeAt
<1>11. Len(got[e]) = Size(p)
  BY <1>1, <1>2, <1>7 DEF Arrived, Wanted, Size, HeaderSize
<1>12. got[e] = Encode(p)
  BY <1>1, <1>2, <1>7, <1>11, SeqEqual
<1>13. Packets(e) = {[type |-> p.type, payload |-> p.payload]}
  <2>1. p.type \in PacketTypes
    BY <1>6 DEF Packet
  <2>2. /\ Len(got[e]) >= HeaderSize
        /\ got[e][1] = <<"magic", "BDRP">> /\ got[e][2] = <<"version", 1>>
        /\ got[e][3][1] = "type" /\ got[e][3][2] = p.type
        /\ Len(got[e]) = HeaderSize + PayloadLength(got[e])
        /\ SubSeq(got[e], HeaderSize + 1, Len(got[e])) = p.payload
    BY <1>2, <1>7, <1>11, <1>12 DEF Size, HeaderSize
  <2> QED
    BY <2>1, <2>2 DEF Packets, Parse
<1>14. [type |-> p.type, payload |-> p.payload] = p
  BY <1>6 DEF Packet
<1> QED
  BY <1>2, <1>12, <1>13, <1>14 DEF p

\* An end whose flow only loses what its closed peer had not sent stays framed.
LEMMA FlowKept ==
  ASSUME ChannelInv, FlowFacts', NEW e \in Ends,
         sent'[e] = sent[e], read'[e] = read[e], handle'[e] = handle[e],
         Len(Flow(e)') <= Len(Flow(e)),
         \A k \in 1..Len(Flow(e)') : Flow(e)'[k] = Flow(e)[k],
         handle'[Peer(e)] => handle[Peer(e)] /\ Len(Flow(e)') = Len(Flow(e)),
         ~handle[e] => got'[e] = <<>> /\ wire'[e] = <<>> /\ out'[e] = <<>>
  PROVE  EndInv(e)'
<1>1. PrefixRead(e)'
  BY DEF ChannelInv, EndInv, PrefixRead
<1>2. ASSUME handle'[e] PROVE (\E start : Starts(e, start) /\ Framed(e, start))'
  <2>1. PICK start : Starts(e, start) /\ Framed(e, start)
    BY <1>2 DEF ChannelInv, EndInv
  <2>2. Pending(e)' = Pending(e) /\ \A i : Unread(e, i)' = Unread(e, i)
    BY DEF Pending, Unread
  <2>3. Len(Flow(e)) \in Nat /\ Len(Flow(e)') \in Nat
    <3>1. FlowFacts
      BY FlowAt DEF ChannelInv
    <3> QED
      BY <3>1 DEF FlowFacts
  <2>4. Starts(e, start)'
    <3>1. Pending(e) \in Nat /\ start[Pending(e) + 1] \in Nat
      BY <2>1, Counts DEF Starts
    <3>2. Len(Flow(e)') <= start[Pending(e) + 1]
      BY <2>1, <2>3, <3>1 DEF Starts
    <3>3. handle'[Peer(e)] => Len(Flow(e)') = start[Pending(e) + 1]
      BY <2>1 DEF Starts
    <3> QED
      BY <2>1, <2>2, <3>2, <3>3 DEF Starts
  <2>5. Framed(e, start)'
    <3>1. ASSUME NEW i \in 1..Pending(e), NEW k \in 1..Size(Unread(e, i)),
                 start[i] + k <= Len(Flow(e)')
          PROVE  Flow(e)'[start[i] + k] = Encode(Unread(e, i))[k]
      <4>1. Unread(e, i) \in Packet /\ i \in 1..(Pending(e) + 1)
        BY Counts
      <4>2. Size(Unread(e, i)) \in Nat
        BY <4>1, EncodeAt DEF Size, HeaderSize
      <4>3. start[i] \in Nat
        BY <2>1, <4>1 DEF Starts
      <4>4. start[i] + k \in 1..Len(Flow(e)') /\ start[i] + k <= Len(Flow(e))
        BY <2>3, <3>1, <4>2, <4>3
      <4>5. Flow(e)[start[i] + k] = Encode(Unread(e, i))[k]
        BY <2>1, <4>4 DEF Framed
      <4> QED
        BY <4>4, <4>5
    <3> QED
      BY <2>2, <3>1 DEF Framed
  <2> QED
    BY <2>4, <2>5
<1> QED
  BY <1>1, <1>2 DEF EndInv

\* An end whose flow is the same stays framed.
LEMMA FlowSame ==
  ASSUME ChannelInv, FlowFacts', NEW e \in Ends,
         sent'[e] = sent[e], read'[e] = read[e], handle' = handle, Flow(e)' = Flow(e),
         ~handle[e] => got'[e] = <<>> /\ wire'[e] = <<>> /\ out'[e] = <<>>
  PROVE  EndInv(e)'
<1>1. FlowFacts
  BY FlowAt DEF ChannelInv
<1>2. Len(Flow(e)) \in Nat
  BY <1>1, LenProperties DEF FlowFacts
<1> QED
  BY <1>2, FlowKept

-----------------------------------------------------------------------------
(* Every step keeps the framing. *)

\* Closing an end that has a whole packet returns it.
LEMMA ReturnedIsNext ==
  ASSUME ChannelInv, NEW e \in Ends, Packets(e) # {}
  PROVE  /\ Arrived(e) /\ Unread(e, 1) \in Packet
         /\ Returned(e) = [read EXCEPT ![e] = Append(@, Unread(e, 1))]
<1>1. Arrived(e)
  BY DEF Packets
<1>2. Packets(e) = {Unread(e, 1)} /\ Pending(e) >= 1
  BY <1>1, ArrivedIsNext
<1>3. Unread(e, 1) \in Packet
  BY <1>2, Counts
<1>4. (CHOOSE p \in Packets(e) : TRUE) = Unread(e, 1)
  BY <1>2
<1> QED
  BY <1>1, <1>3, <1>4 DEF Returned

\* The packet returned is the one that follows what has been read.
LEMMA ReadGrows ==
  ASSUME ChannelInv, NEW e \in Ends, Packets(e) # {}, read' = Returned(e), sent' = sent
  PROVE  /\ PrefixRead(e)'
         /\ Len(read[e]) < Len(sent[e])
         /\ read' = [read EXCEPT ![e] = Append(@, sent[e][Len(@) + 1])]
         /\ Len(read'[e]) = Len(read[e]) + 1
         /\ \A d \in Ends : d # e => read'[d] = read[d]
<1>t. sent \in [Ends -> Seq(Packet)] /\ read \in [Ends -> Seq(Packet)]
  BY DEF ChannelInv, StreamTypeOK
<1>1. /\ Arrived(e) /\ Unread(e, 1) \in Packet
      /\ read' = [read EXCEPT ![e] = Append(@, Unread(e, 1))]
  BY ReturnedIsNext
<1>2. PICK l : l = Len(read[e])
  OBVIOUS
<1>3. l \in Nat /\ Len(sent[e]) \in Nat /\ l + 1 <= Len(sent[e])
  <2>1. Pending(e) >= 1
    BY <1>1, ArrivedIsNext
  <2> QED
    BY <1>2, <2>1, Counts
<1>4. /\ Len(read'[e]) = l + 1
      /\ \A i \in 1..l : read'[e][i] = read[e][i]
      /\ read'[e][l + 1] = sent[e][l + 1]
  <2>1. read[e] \in Seq(Packet) /\ read'[e] = Append(read[e], Unread(e, 1))
    BY <1>1, <1>t
  <2> QED
    BY <1>1, <1>2, <2>1, AppendProperties DEF Unread
<1>5. PrefixRead(e)'
  <2>1. \A i \in 1..l : read[e][i] = sent[e][i]
    BY <1>2 DEF ChannelInv, EndInv, PrefixRead
  <2>2. \A i \in 1..(l + 1) : read'[e][i] = sent[e][i]
    BY <1>3, <1>4, <2>1
  <2> QED
    BY <1>3, <1>4, <2>2 DEF PrefixRead
<1>6. Len(read[e]) < Len(sent[e])
  BY <1>2, <1>3
<1> QED
  BY <1>1, <1>2, <1>4, <1>5, <1>6, <1>t DEF Unread

\* What recv() takes is there.
LEMMA RecvTakes ==
  ASSUME ChannelInv, NEW e \in Ends, RecvSome(e)
  PROVE  /\ (IF Wanted(e) < Len(wire[e]) THEN Wanted(e) ELSE Len(wire[e])) \in 0..Len(wire[e])
         /\ Wanted(e) \in Int
<1>1. Len(wire[e]) \in Nat /\ Len(got[e]) \in Nat
  BY LenProperties DEF ChannelInv, StreamTypeOK
<1>2. Wanted(e) \in Int /\ Wanted(e) > 0
  <2>1. CASE Len(got[e]) < HeaderSize
    BY <1>1, <2>1 DEF Wanted, HeaderSize, RecvSome
  <2>2. CASE Len(got[e]) >= HeaderSize
    <3>1. PayloadLength(got[e]) \in Nat
      <4>1. Pending(e) >= 1 /\ PayloadLength(got[e]) = Len(Unread(e, 1).payload)
        BY <2>2, HeaderIsNext
      <4>2. Unread(e, 1) \in Packet
        BY <4>1, Counts
      <4> QED
        BY <4>1, <4>2, EncodeAt
    <3> QED
      BY <1>1, <2>2, <3>1 DEF Wanted, HeaderSize, RecvSome
  <2> QED
    BY <1>1, <2>1, <2>2 DEF HeaderSize
<1> QED
  BY <1>1, <1>2

\* The types.
LEMMA StreamTypeStep == ChannelInv /\ StreamNext => StreamTypeOK'
<1> SUFFICES ASSUME ChannelInv, StreamNext PROVE StreamTypeOK'
  OBVIOUS
<1>0. /\ handle \in [Ends -> BOOLEAN]
      /\ out \in [Ends -> Seq(Cell)] /\ wire \in [Ends -> Seq(Cell)]
      /\ got \in [Ends -> Seq(Cell)]
      /\ sent \in [Ends -> Seq(Packet)] /\ read \in [Ends -> Seq(Packet)]
  BY DEF ChannelInv, StreamTypeOK
<1>1. CASE Connected \/ Lost
  <2>1. Nothing \in [Ends -> Seq(Cell)] /\ Nothing \in [Ends -> Seq(Packet)]
    BY DEF Nothing
  <2>2. [e \in Ends |-> TRUE] \in [Ends -> BOOLEAN]
        /\ [e \in Ends |-> FALSE] \in [Ends -> BOOLEAN]
    OBVIOUS
  <2> QED
    BY <1>0, <1>1, <2>1, <2>2 DEF Connected, Lost, StreamTypeOK
<1>2. ASSUME NEW e \in Ends, NEW packet \in Packet, WritePacket(e, packet)
      PROVE  StreamTypeOK'
  <2>1. Encode(packet) \in Seq(Cell)
    BY EncodeAt
  <2>2. Append(sent[Peer(e)], packet) \in Seq(Packet)
    BY <1>0, TwoEnds
  <2> QED
    BY <1>0, <1>2, <2>1, <2>2 DEF WritePacket, StreamTypeOK
<1>3. ASSUME NEW e \in Ends, SendSome(e) PROVE StreamTypeOK'
  <2>1. PICK k \in 1..Len(out[e]) :
          /\ out' = [out EXCEPT ![e] = SubSeq(@, k + 1, Len(@))]
          /\ wire' = IF handle[Peer(e)]
                     THEN [wire EXCEPT ![Peer(e)] = @ \o SubSeq(out[e], 1, k)] ELSE wire
    BY <1>3 DEF SendSome
  <2>2. out[e] \in Seq(Cell) /\ k \in 0..Len(out[e]) /\ wire[Peer(e)] \in Seq(Cell)
    BY <1>0, TwoEnds, LenProperties
  <2>3. SubSeq(out[e], k + 1, Len(out[e])) \in Seq(Cell) /\ SubSeq(out[e], 1, k) \in Seq(Cell)
    BY <2>2, Splits
  <2>4. wire[Peer(e)] \o SubSeq(out[e], 1, k) \in Seq(Cell)
    BY <2>2, <2>3, Appended
  <2> QED
    BY <1>0, <1>3, <2>1, <2>3, <2>4 DEF SendSome, StreamTypeOK
<1>4. ASSUME NEW e \in Ends, RecvSome(e) PROVE StreamTypeOK'
  <2> DEFINE k == IF Wanted(e) < Len(wire[e]) THEN Wanted(e) ELSE Len(wire[e])
  <2>1. /\ got' = [got EXCEPT ![e] = @ \o SubSeq(wire[e], 1, k)]
        /\ wire' = [wire EXCEPT ![e] = SubSeq(@, k + 1, Len(@))]
    BY <1>4 DEF RecvSome
  <2>2. k \in 0..Len(wire[e])
    BY <1>4, RecvTakes
  <2> HIDE DEF k
  <2>3. wire[e] \in Seq(Cell) /\ got[e] \in Seq(Cell)
    BY <1>0
  <2>4. SubSeq(wire[e], k + 1, Len(wire[e])) \in Seq(Cell) /\ SubSeq(wire[e], 1, k) \in Seq(Cell)
    BY <2>2, <2>3, Splits
  <2>5. got[e] \o SubSeq(wire[e], 1, k) \in Seq(Cell)
    BY <2>3, <2>4, Appended
  <2>6. got' \in [Ends -> Seq(Cell)]
    BY <1>0, <2>1, <2>5
  <2>7. wire' \in [Ends -> Seq(Cell)]
    BY <1>0, <2>1, <2>4
  <2> QED
    BY <1>0, <1>4, <2>6, <2>7 DEF RecvSome, StreamTypeOK
<1>5. ASSUME NEW e \in Ends, Packets(e) # {} PROVE Returned(e) \in [Ends -> Seq(Packet)]
  <2>1. Unread(e, 1) \in Packet /\ Returned(e) = [read EXCEPT ![e] = Append(@, Unread(e, 1))]
    BY <1>5, ReturnedIsNext
  <2>2. Append(read[e], Unread(e, 1)) \in Seq(Packet)
    BY <1>0, <2>1
  <2> QED
    BY <1>0, <2>1, <2>2
<1>6. ASSUME NEW e \in Ends, TakePacket(e) \/ CloseEnd(e) PROVE StreamTypeOK'
  <2>1. read' \in [Ends -> Seq(Packet)]
    BY <1>0, <1>5, <1>6 DEF TakePacket, CloseEnd
  <2>2. handle' \in [Ends -> BOOLEAN] /\ sent' \in [Ends -> Seq(Packet)]
    BY <1>0, <1>6 DEF TakePacket, CloseEnd
  <2>3. got' \in [Ends -> Seq(Cell)] /\ wire' \in [Ends -> Seq(Cell)]
          /\ out' \in [Ends -> Seq(Cell)]
    <3>1. <<>> \in Seq(Cell)
      OBVIOUS
    <3>2. CASE TakePacket(e)
      BY <1>0, <3>1, <3>2 DEF TakePacket
    <3>3. CASE CloseEnd(e)
      BY <1>0, <3>1, <3>3 DEF CloseEnd
    <3> QED
      BY <1>6, <3>2, <3>3
  <2> QED
    BY <2>1, <2>2, <2>3 DEF StreamTypeOK
<1> QED
  BY <1>1, <1>2, <1>3, <1>4, <1>6 DEF StreamNext, StreamStep

\* write_packet puts the packet behind what its peer has still to read.
LEMMA WriteKeeps ==
  ASSUME ChannelInv, StreamTypeOK', NEW e \in Ends, NEW packet \in Packet,
         WritePacket(e, packet)
  PROVE  \A d \in Ends : EndInv(d)'
<1> DEFINE d == Peer(e)
<1>f. FlowFacts
  BY FlowAt DEF ChannelInv
<1>p. FlowFacts'
  BY FlowAt, PTL
<1>0. /\ d \in Ends /\ d # e /\ Peer(d) = e
      /\ handle' = handle /\ wire' = wire /\ got' = got /\ read' = read
      /\ handle[e] /\ out[e] = <<>>
      /\ out' = [out EXCEPT ![e] = Encode(packet)]
      /\ sent' = [sent EXCEPT ![d] = Append(@, packet)]
  BY TwoEnds DEF WritePacket
<1> HIDE DEF d
<1>t. out \in [Ends -> Seq(Cell)] /\ sent \in [Ends -> Seq(Packet)]
  BY DEF ChannelInv, StreamTypeOK
<1>1. EndInv(e)'
  <2>1. sent'[e] = sent[e] /\ out'[d] = out[d]
    BY <1>0, <1>t
  <2>2. Flow(e)' = Flow(e)
    BY <1>0, <2>1 DEF Flow, d
  <2> QED
    BY <1>0, <1>p, <2>1, <2>2, FlowSame
<1>2. /\ sent'[d] = Append(sent[d], packet) /\ out'[e] = Encode(packet)
      /\ Len(sent'[d]) = Len(sent[d]) + 1
      /\ \A i \in 1..Len(sent[d]) : sent'[d][i] = sent[d][i]
      /\ sent'[d][Len(sent[d]) + 1] = packet
  <2>1. sent[d] \in Seq(Packet)
    BY <1>0, <1>t
  <2> QED
    BY <1>0, <1>t, <2>1, AppendProperties
<1>3. PrefixRead(d)'
  <2>1. Len(read[d]) <= Len(sent[d]) /\ \A i \in 1..Len(read[d]) : read[d][i] = sent[d][i]
    BY <1>0 DEF ChannelInv, EndInv, PrefixRead
  <2>2. Len(read[d]) \in Nat /\ Len(sent[d]) \in Nat
    BY <1>0, Counts
  <2> QED
    BY <1>0, <1>2, <2>1, <2>2 DEF PrefixRead
<1>4. ASSUME ~handle'[d] PROVE got'[d] = <<>> /\ wire'[d] = <<>> /\ out'[d] = <<>>
  BY <1>0, <1>4, <1>t DEF ChannelInv, EndInv
<1>5. ASSUME handle'[d] PROVE \E start : (Starts(d, start) /\ Framed(d, start))'
  <2>1. PICK start : Starts(d, start) /\ Framed(d, start)
    BY <1>0, <1>5 DEF ChannelInv, EndInv
  <2>0. PICK n : n = Pending(d)
    OBVIOUS
  <2> DEFINE more == [i \in 1..(n + 2) |-> IF i = n + 2 THEN start[n + 1] + Size(packet)
                                         ELSE start[i]]
  <2>2. n \in Nat /\ Size(packet) \in Nat /\ Size(packet) >= 6
    BY <1>0, <2>0, Counts, EncodeAt DEF Size, HeaderSize
  <2>3. /\ Pending(d)' = n + 1
        /\ \A i \in 1..n : Unread(d, i)' = Unread(d, i)
        /\ Unread(d, n + 1)' = packet
    <3>1. Len(read[d]) \in Nat /\ Len(sent[d]) \in Nat /\ Len(read[d]) + n = Len(sent[d])
      BY <1>0, <2>0, Counts
    <3>2. Pending(d)' = n + 1
      BY <1>0, <1>2, <2>0, <3>1 DEF Pending
    <3>3. \A i \in 1..n : Len(read[d]) + i \in 1..Len(sent[d])
      BY <2>2, <3>1
    <3>4. \A i \in 1..n : Unread(d, i)' = Unread(d, i)
      BY <1>0, <1>2, <3>3 DEF Unread
    <3>5. Len(read[d]) + (n + 1) = Len(sent[d]) + 1
      <4>1. /\ n \in Nat /\ Len(read[d]) \in Nat /\ Len(sent[d]) \in Nat
            /\ Len(read[d]) + n = Len(sent[d])
        BY <2>2, <3>1
      <4>2. PICK a \in Nat, b \in Nat, c \in Nat :
              a = Len(read[d]) /\ b = n /\ c = Len(sent[d]) /\ a + b = c
        BY <4>1
      <4>3. a + (b + 1) = c + 1
        BY ONLY <4>2, SumNext, a \in Nat, b \in Nat, c \in Nat
      <4> QED
        BY <4>2, <4>3
    <3>6. Unread(d, n + 1)' = packet
      BY <1>0, <1>2, <3>5 DEF Unread
    <3> QED
      BY <3>2, <3>4, <3>6
  <2>a. /\ \A i \in 1..(n + 1) : more[i] = start[i]
        /\ more[n + 2] = start[n + 1] + Size(packet)
        /\ (n + 1) + 1 = n + 2 /\ n + 1 \in 1..(n + 1)
        /\ \A i \in 1..(n + 1) : i # n + 1 => i \in 1..n
        /\ \A i \in 1..n : i \in 1..(n + 1) /\ i + 1 \in 1..(n + 1) /\ i + 1 <= n + 1
    BY <2>2
  <2>4. /\ start \in [1..(n + 1) -> Nat] /\ start[1] = 0
        /\ \A i, j \in 1..(n + 1) : i <= j => start[i] <= start[j]
        /\ \A i \in 1..n : start[i + 1] = start[i] + Size(Unread(d, i))
        /\ Len(Flow(d)) = start[n + 1]
    BY <1>0, <2>0, <2>1 DEF Starts
  <2>5. /\ Len(Flow(d)') = Len(Flow(d)) + Size(packet)
        /\ Len(Flow(d)) \in Nat
        /\ \A k \in 1..Len(Flow(d)) : Flow(d)'[k] = Flow(d)[k]
        /\ \A k \in 1..Size(packet) : Flow(d)'[Len(Flow(d)) + k] = Encode(packet)[k]
    <3> DEFINE gw == got[d] \o wire[d]
    <3>1. got[d] \in Seq(Cell) /\ wire[d] \in Seq(Cell) /\ Encode(packet) \in Seq(Cell)
            /\ Len(Encode(packet)) = Size(packet)
      BY <1>0, <1>f, EncodeAt DEF FlowFacts
    <3>2. gw \in Seq(Cell)
      BY <3>1, Appended
    <3>3. Flow(d) = gw \o <<>> /\ Flow(d)' = gw \o Encode(packet)
      BY <1>0, <1>2 DEF Flow
    <3> HIDE DEF gw
    <3>4. Flow(d) = gw
      BY <3>2, <3>3, ConcatEmptySeq
    <3>5. /\ Len(gw \o Encode(packet)) = Len(gw) + Len(Encode(packet))
          /\ \A i \in 1..Len(gw) : (gw \o Encode(packet))[i] = gw[i]
          /\ \A i \in 1..Len(Encode(packet)) :
               (gw \o Encode(packet))[Len(gw) + i] = Encode(packet)[i]
      <4>1. gw \in Seq(Cell) /\ Encode(packet) \in Seq(Cell)
        BY <3>1, <3>2
      <4> QED
        BY ONLY <4>1, Appended
    <3>6. Len(gw) \in Nat
      BY <3>2, LenProperties
    <3> QED
      BY <3>1, <3>3, <3>4, <3>5, <3>6
  <2>6. Starts(d, more)'
    <3>1. more \in [1..(n + 2) -> Nat] /\ more[1] = 0
      BY <2>2, <2>4
    <3>2. \A i, j \in 1..(n + 2) : i <= j => more[i] <= more[j]
      <4> SUFFICES ASSUME NEW i \in 1..(n + 2), NEW j \in 1..(n + 2), i <= j
                   PROVE  more[i] <= more[j]
        OBVIOUS
      <4>1. CASE j = n + 2 /\ i # n + 2
        <5>1. i \in 1..(n + 1) /\ n + 1 \in 1..(n + 1) /\ i <= n + 1
          BY <4>1, <2>2
        <5>2. start[i] <= start[n + 1] /\ start[i] \in Nat /\ start[n + 1] \in Nat
          BY <5>1, <2>4
        <5> QED
          BY <4>1, <5>1, <5>2, <2>2
      <4>2. CASE j # n + 2
        <5>1. i \in 1..(n + 1) /\ j \in 1..(n + 1) /\ i # n + 2
          BY <4>2, <2>2
        <5> QED
          BY <4>2, <5>1, <2>4
      <4>3. CASE i = n + 2 /\ j = n + 2
        BY <4>3, <3>1
      <4> QED
        BY <4>1, <4>2, <4>3
    <3>3. \A i \in 1..(n + 1) : more[i + 1] = more[i] + Size(Unread(d, i)')
      <4> SUFFICES ASSUME NEW i \in 1..(n + 1)
                   PROVE  more[i + 1] = more[i] + Size(Unread(d, i)')
        OBVIOUS
      <4>1. CASE i = n + 1
        BY <4>1, <2>3, <2>a
      <4>2. CASE i # n + 1
        <5>1. i \in 1..n /\ more[i + 1] = start[i + 1] /\ more[i] = start[i]
          BY <4>2, <2>a
        <5> QED
          BY <5>1, <2>3, <2>4
      <4> QED
        BY <4>1, <4>2
    <3>4. more[n + 2] = start[n + 1] + Size(packet)
      BY <2>2
    <3>5. Len(Flow(d)') = more[n + 2]
      BY <3>4, <2>4, <2>5
    <3>6. (n + 1) + 1 = n + 2 /\ Len(Flow(d)') \in Nat
      BY <2>2, <2>5
    <3> HIDE DEF more
    <3> QED
      <4>1. (Pending(d) + 1)' = n + 2 /\ Pending(d)' = n + 1
        BY <2>3, <3>6
      <4> QED
        BY <4>1, <3>1, <3>2, <3>3, <3>5, <3>6 DEF Starts
  <2>7. Framed(d, more)'
    <3>1. ASSUME NEW i \in 1..(n + 1), NEW k \in 1..Size(Unread(d, i)'),
                 more[i] + k <= Len(Flow(d)')
          PROVE  Flow(d)'[more[i] + k] = Encode(Unread(d, i)')[k]
      <4>1. CASE i = n + 1
        <5>1. more[i] = Len(Flow(d)) /\ Unread(d, i)' = packet
          BY <4>1, <2>3, <2>4, <2>a
        <5>2. k \in 1..Size(packet)
          BY <5>1
        <5> QED
          BY <5>1, <5>2, <2>5
      <4>2. CASE i # n + 1
        <5>1. i \in 1..n /\ more[i] = start[i] /\ Unread(d, i)' = Unread(d, i)
          BY <4>2, <2>3, <2>a
        <5>2. start[i] + k <= Len(Flow(d)) /\ start[i] + k \in 1..Len(Flow(d))
          <6>1. /\ start[i] \in Nat /\ start[i + 1] \in Nat /\ start[n + 1] \in Nat
                /\ start[i + 1] = start[i] + Size(Unread(d, i))
                /\ start[i + 1] <= start[n + 1]
            BY <5>1, <2>4, <2>a
          <6>2. Size(Unread(d, i)) \in Nat
            BY <5>1, <1>0, Counts, EncodeAt DEF Size, HeaderSize
          <6> QED
            BY <5>1, <6>1, <6>2, <2>4, <2>5
        <5>3. Flow(d)[start[i] + k] = Encode(Unread(d, i))[k]
          BY <5>1, <5>2, <2>0, <2>1 DEF Framed
        <5> QED
          BY <5>1, <5>2, <5>3, <2>5
      <4> QED
        BY <4>1, <4>2
    <3> HIDE DEF more
    <3> QED
      BY <3>1, <2>3 DEF Framed
  <2> QED
    BY <2>6, <2>7
<1>6. EndInv(d)'
  BY <1>3, <1>4, <1>5 DEF EndInv
<1> QED
  BY <1>1, <1>6, TwoEnds DEF d

\* Cells move from one sequence to the next.
LEMMA MovedIn ==
  ASSUME NEW g \in Seq(Cell), NEW a \in Seq(Cell), NEW b \in Seq(Cell)
  PROVE  g \o (a \o b) = (g \o a) \o b
BY ConcatAssociative

\* One send() moves cells from one end's buffer to the other's wire.
LEMMA SendKeeps ==
  ASSUME ChannelInv, StreamTypeOK', NEW e \in Ends, SendSome(e)
  PROVE  \A d \in Ends : EndInv(d)'
<1>d. PICK d : d = Peer(e)
  OBVIOUS
<1>p. FlowFacts'
  BY FlowAt, PTL
<1>0. PICK k \in 1..Len(out[e]) :
        /\ out' = [out EXCEPT ![e] = SubSeq(@, k + 1, Len(@))]
        /\ wire' = IF handle[d] THEN [wire EXCEPT ![d] = @ \o SubSeq(out[e], 1, k)] ELSE wire
  BY <1>d DEF SendSome
<1>1. /\ d \in Ends /\ d # e /\ Peer(d) = e
      /\ handle' = handle /\ got' = got /\ read' = read /\ sent' = sent /\ handle[e]
  BY <1>d, TwoEnds DEF SendSome
<1>t. out \in [Ends -> Seq(Cell)] /\ wire \in [Ends -> Seq(Cell)] /\ got \in [Ends -> Seq(Cell)]
  BY DEF ChannelInv, StreamTypeOK
<1>2. EndInv(e)'
  <2>1. wire'[e] = wire[e] /\ out'[d] = out[d]
    BY <1>0, <1>1, <1>t
  <2>2. Flow(e)' = Flow(e)
    BY <1>1, <1>d, <2>1 DEF Flow
  <2> QED
    BY <1>1, <1>p, <2>2, FlowSame
<1>3. ASSUME ~handle[d] PROVE EndInv(d)'
  <2>1. EndInv(d)
    BY <1>1 DEF ChannelInv
  <2>2. got'[d] = got[d] /\ wire'[d] = wire[d] /\ out'[d] = out[d]
    BY <1>0, <1>1, <1>3, <1>t
  <2>3. PrefixRead(d)'
    BY <1>1, <2>1 DEF EndInv, PrefixRead
  <2>4. ~handle'[d] /\ got'[d] = <<>> /\ wire'[d] = <<>> /\ out'[d] = <<>>
    BY <1>1, <1>3, <2>1, <2>2 DEF EndInv
  <2> QED
    BY <2>3, <2>4 DEF EndInv
<1>4. ASSUME handle[d] PROVE EndInv(d)'
  <2> DEFINE a == SubSeq(out[e], 1, k)
             b == SubSeq(out[e], k + 1, Len(out[e]))
  <2>1. a \in Seq(Cell) /\ b \in Seq(Cell) /\ a \o b = out[e]
    <3>1. out[e] \in Seq(Cell) /\ k \in 0..Len(out[e])
      BY <1>t, LenProperties
    <3> QED
      BY <3>1, Splits
  <2>2. wire'[d] = wire[d] \o a /\ out'[e] = b
    BY <1>0, <1>1, <1>4, <1>t
  <2> HIDE DEF a, b
  <2>3. Flow(d)' = Flow(d)
    <3>1. Flow(d) = (got[d] \o wire[d]) \o (a \o b) /\ Flow(d)' = (got[d] \o (wire[d] \o a)) \o b
      BY <1>1, <1>d, <2>1, <2>2 DEF Flow
    <3> DEFINE g == got[d]
               w == wire[d]
    <3>2. a \in Seq(Cell) /\ b \in Seq(Cell) /\ g \in Seq(Cell) /\ w \in Seq(Cell)
      BY <1>1, <1>t, <2>1
    <3> HIDE DEF g, w
    <3>3. g \o (w \o a) = (g \o w) \o a
      BY ONLY <3>2, MovedIn
    <3> DEFINE gw == g \o w
    <3>4. gw \in Seq(Cell)
      BY ONLY <3>2, Appended
    <3> HIDE DEF gw
    <3>5. gw \o (a \o b) = (gw \o a) \o b
      BY ONLY <3>2, <3>4, MovedIn
    <3> QED
      BY <3>1, <3>3, <3>5 DEF g, w, gw
  <2> QED
    BY <1>1, <1>p, <1>4, <2>3, FlowSame
<1> QED
  BY <1>d, <1>2, <1>3, <1>4, TwoEnds

\* One recv() moves cells from the wire to what has been read, no more than what
\* is wanted.
LEMMA RecvMoves ==
  ASSUME ChannelInv, NEW e \in Ends, RecvSome(e)
  PROVE  /\ Flow(e)' = Flow(e)
         /\ \E a \in Seq(Cell) : /\ got' = [got EXCEPT ![e] = @ \o a]
                                /\ Len(a) <= Wanted(e)
<1>d. PICK d : d = Peer(e)
  OBVIOUS
<1> DEFINE k == IF Wanted(e) < Len(wire[e]) THEN Wanted(e) ELSE Len(wire[e])
           a == SubSeq(wire[e], 1, k)
           b == SubSeq(wire[e], k + 1, Len(wire[e]))
<1>t. out \in [Ends -> Seq(Cell)] /\ wire \in [Ends -> Seq(Cell)] /\ got \in [Ends -> Seq(Cell)]
  BY DEF ChannelInv, StreamTypeOK
<1>1. /\ d \in Ends /\ d # e /\ Peer(d) = e
      /\ handle' = handle /\ out' = out /\ read' = read /\ sent' = sent /\ handle[e]
      /\ got' = [got EXCEPT ![e] = @ \o a] /\ wire' = [wire EXCEPT ![e] = b]
  BY <1>d, TwoEnds DEF RecvSome
<1>2. a \in Seq(Cell) /\ b \in Seq(Cell) /\ a \o b = wire[e] /\ Len(a) = k /\ k <= Wanted(e)
  <2>1. wire[e] \in Seq(Cell) /\ k \in 0..Len(wire[e])
    BY <1>t, RecvTakes
  <2>2. k <= Wanted(e)
    <3>1. Wanted(e) \in Int
      BY RecvTakes
    <3> QED
      BY <2>1, <3>1
  <2> HIDE DEF k
  <2> QED
    BY <2>1, <2>2, Splits
<1> HIDE DEF a, b, k
<1>3. Flow(e)' = Flow(e)
  <2>1. Flow(e) = (got[e] \o (a \o b)) \o out[d] /\ Flow(e)' = ((got[e] \o a) \o b) \o out[d]
    BY <1>1, <1>2, <1>d, <1>t DEF Flow
  <2> DEFINE g == got[e]
  <2>2. a \in Seq(Cell) /\ b \in Seq(Cell) /\ g \in Seq(Cell)
    BY <1>1, <1>2, <1>t
  <2> HIDE DEF g
  <2>3. g \o (a \o b) = (g \o a) \o b
    BY ONLY <2>2, MovedIn
  <2> QED
    BY <2>1, <2>3 DEF g
<1> QED
  BY <1>1, <1>2, <1>3

\* Nothing of the framing changes.
LEMMA RecvKeeps ==
  ASSUME ChannelInv, StreamTypeOK', NEW e \in Ends, RecvSome(e)
  PROVE  \A d \in Ends : EndInv(d)'
<1>d. PICK d : d = Peer(e)
  OBVIOUS
<1>p. FlowFacts'
  BY FlowAt, PTL
<1>t. out \in [Ends -> Seq(Cell)] /\ wire \in [Ends -> Seq(Cell)] /\ got \in [Ends -> Seq(Cell)]
  BY DEF ChannelInv, StreamTypeOK
<1>1. /\ d \in Ends /\ d # e /\ Peer(d) = e
      /\ handle' = handle /\ out' = out /\ read' = read /\ sent' = sent /\ handle[e]
  BY <1>d, TwoEnds DEF RecvSome
<1>3. EndInv(e)'
  BY <1>1, <1>p, RecvMoves, FlowSame
<1>4. EndInv(d)'
  <2>1. got'[d] = got[d] /\ wire'[d] = wire[d] /\ out'[d] = out[d]
    BY <1>1, <1>t DEF RecvSome
  <2>2. Flow(d)' = Flow(d)
    BY <1>1, <1>d, <2>1 DEF Flow
  <2>4. ~handle[d] => got'[d] = <<>> /\ wire'[d] = <<>> /\ out'[d] = <<>>
    BY <1>1, <2>1 DEF ChannelInv, EndInv
  <2> QED
    BY <1>1, <1>p, <2>2, <2>4, FlowSame
<1> QED
  BY <1>d, <1>3, <1>4, TwoEnds

\* What follows the first of three sequences.
LEMMA Behind ==
  ASSUME NEW g \in Seq(Cell), NEW w \in Seq(Cell), NEW o \in Seq(Cell),
         NEW whole \in Seq(Cell), whole = (g \o w) \o o,
         NEW rest \in Seq(Cell), rest = (<<>> \o w) \o o
  PROVE  /\ Len(whole) = Len(g) + Len(rest)
         /\ \A i \in 1..Len(rest) : rest[i] = whole[Len(g) + i]
<1>1. <<>> \o w = w /\ g \o (w \o o) = (g \o w) \o o
  BY MovedIn, ConcatEmptySeq
<1>2. rest = w \o o
  BY <1>1
<1>3. whole = g \o rest
  BY <1>1, <1>2
<1>4. g \in Seq(Cell) /\ rest \in Seq(Cell)
  OBVIOUS
<1>5. /\ Len(g \o rest) = Len(g) + Len(rest)
      /\ \A i \in 1..Len(rest) : (g \o rest)[Len(g) + i] = rest[i]
  BY ONLY <1>4, Appended
<1> QED
  BY <1>3, <1>5

\* When read_packet returns, the packets that follow stand in what is left of the
\* flow as they stood behind the first.
LEMMA TakeShifts ==
  ASSUME ChannelInv, StreamTypeOK', NEW e \in Ends, TakePacket(e),
         NEW start, Starts(e, start)
  PROVE  \E less : /\ Starts(e, less)'
                   /\ Framed(e, start) => Framed(e, less)'
                   /\ Len(Flow(e)) = start[Pending(e) + 1] =>
                        Len(Flow(e)') = less[Pending(e)' + 1]
<1>d. PICK d : d = Peer(e)
  OBVIOUS
<1>f. FlowFacts
  BY FlowAt DEF ChannelInv
<1>p. FlowFacts'
  BY FlowAt, PTL
<1>t. /\ got \in [Ends -> Seq(Cell)] /\ sent \in [Ends -> Seq(Packet)]
      /\ read \in [Ends -> Seq(Packet)]
  BY DEF ChannelInv, StreamTypeOK
<1>1. /\ Arrived(e) /\ Unread(e, 1) \in Packet
      /\ read' = [read EXCEPT ![e] = Append(@, Unread(e, 1))]
  BY ReturnedIsNext DEF TakePacket
<1>2. /\ d \in Ends /\ d # e /\ Peer(d) = e
      /\ handle' = handle /\ out' = out /\ wire' = wire /\ sent' = sent
      /\ got' = [got EXCEPT ![e] = <<>>]
  BY <1>d, TwoEnds DEF TakePacket
<1>4. PICK n, m, l : n = Pending(e) /\ m = Size(Unread(e, 1)) /\ l = Len(read[e])
  OBVIOUS
<1>5. /\ handle[e] /\ n \in Nat /\ n >= 1 /\ got[e] = Encode(Unread(e, 1))
      /\ m \in Nat /\ Len(got[e]) = m
      /\ l \in Nat /\ Len(sent[e]) \in Nat /\ l + n = Len(sent[e])
      /\ \A i \in 1..n : Unread(e, i) \in Packet
  <2>1. handle[e] /\ Pending(e) >= 1 /\ got[e] = Encode(Unread(e, 1))
    BY <1>1, ArrivedIsNext
  <2>2. Len(Encode(Unread(e, 1))) = m /\ m \in Nat
    BY <1>1, <1>4, EncodeAt DEF Size, HeaderSize
  <2> QED
    BY <1>4, <2>1, <2>2, Counts
<1>6. Len(read'[e]) = l + 1 /\ PrefixRead(e)'
  BY <1>2, <1>4, ReadGrows DEF TakePacket
<1>8. /\ Pending(e)' = n - 1
      /\ \A i \in 1..(n - 1) : Unread(e, i)' = Unread(e, i + 1)
  <2>1. Pending(e)' = n - 1
    BY <1>2, <1>5, <1>6 DEF Pending
  <2>2. \A i \in 1..(n - 1) : (l + 1) + i = l + (i + 1)
    BY <1>5
  <2> QED
    BY <1>2, <1>4, <1>6, <2>1, <2>2 DEF Unread
<1>9. /\ Len(Flow(e)) \in Nat /\ Len(Flow(e)') \in Nat
      /\ Len(Flow(e)) = m + Len(Flow(e)')
      /\ \A i \in 1..Len(Flow(e)') : Flow(e)'[i] = Flow(e)[m + i]
  <2> DEFINE g == got[e]
             w == wire[e]
             o == out[d]
  <2>0. PICK whole, rest : whole = Flow(e) /\ rest = Flow(e)'
    OBVIOUS
  <2>1. /\ g \in Seq(Cell) /\ w \in Seq(Cell) /\ o \in Seq(Cell)
        /\ whole \in Seq(Cell) /\ rest \in Seq(Cell)
    BY <1>d, <1>f, <1>p, <2>0 DEF FlowFacts
  <2>2. whole = (g \o w) \o o
    BY <1>d, <2>0 DEF Flow
  <2>3. rest = (<<>> \o w) \o o
    BY <1>d, <1>2, <1>t, <2>0 DEF Flow
  <2>4. Len(g) = m
    BY <1>5
  <2> HIDE DEF g, w, o
  <2>5. /\ Len(whole) = Len(g) + Len(rest)
        /\ \A i \in 1..Len(rest) : rest[i] = whole[Len(g) + i]
    BY ONLY <2>1, <2>2, <2>3, Behind
  <2> QED
    BY <2>0, <2>1, <2>4, <2>5, LenProperties
<1>10. QED
  <2> DEFINE less == [i \in 1..n |-> start[i + 1] - m]
  <2>2. /\ start \in [1..(n + 1) -> Nat] /\ start[1] = 0
        /\ \A i, j \in 1..(n + 1) : i <= j => start[i] <= start[j]
        /\ \A i \in 1..n : start[i + 1] = start[i] + Size(Unread(e, i))
        /\ Len(Flow(e)) <= start[n + 1]
        /\ handle[d] => Len(Flow(e)) = start[n + 1]
    BY <1>4, <1>d DEF Starts
  <2>3. start[2] = m
    BY <1>4, <1>5, <2>2
  <2>4. \A i \in 1..n : /\ i + 1 \in 1..(n + 1) /\ start[i + 1] \in Nat
                        /\ start[i + 1] >= m /\ less[i] = start[i + 1] - m
    <3>1. \A i \in 1..n : i + 1 \in 1..(n + 1) /\ 2 \in 1..(n + 1) /\ 2 <= i + 1
      BY <1>5
    <3> QED
      BY <1>5, <2>2, <2>3, <3>1
  <2>5. less \in [1..n -> Nat] /\ less[1] = 0
    <3>1. \A i \in 1..n : start[i + 1] - m \in Nat
      BY <1>5, <2>4
    <3> QED
      BY <1>5, <2>3, <3>1
  <2>5a. \A i \in 1..n : less[i] \in Nat /\ m + less[i] = start[i + 1]
    BY <1>5, <2>4
  <2> HIDE DEF less
  <2>6. \A i, j \in 1..n : i <= j => less[i] <= less[j]
    <3> SUFFICES ASSUME NEW i \in 1..n, NEW j \in 1..n, i <= j PROVE less[i] <= less[j]
      OBVIOUS
    <3>1. start[i + 1] <= start[j + 1]
      BY <1>5, <2>2, <2>4
    <3>2. /\ less[i] \in Nat /\ m + less[i] = start[i + 1]
          /\ less[j] \in Nat /\ m + less[j] = start[j + 1]
      BY <2>5a
    <3> QED
      BY <1>5, <3>1, <3>2
  <2>7. \A i \in 1..(n - 1) : less[i + 1] = less[i] + Size(Unread(e, i)')
    <3> SUFFICES ASSUME NEW i \in 1..(n - 1) PROVE less[i + 1] = less[i] + Size(Unread(e, i)')
      OBVIOUS
    <3>1. i \in 1..n /\ i + 1 \in 1..n /\ Unread(e, i)' = Unread(e, i + 1)
      BY <1>5, <1>8
    <3>2. start[(i + 1) + 1] = start[i + 1] + Size(Unread(e, i + 1))
      BY <2>2, <3>1
    <3>3. Size(Unread(e, i + 1)) \in Nat
      BY <1>5, <3>1, EncodeAt DEF Size, HeaderSize
    <3> QED
      BY <1>5, <2>4, <3>1, <3>2, <3>3
  <2>8. Starts(e, less)'
    <3>1. (n - 1) + 1 = n /\ n \in 1..n /\ Pending(e)' = n - 1 /\ (Pending(e) + 1)' = n
      BY <1>5, <1>8
    <3>2. start[n + 1] = m + less[n]
      BY <2>5a, <3>1
    <3>3. Len(Flow(e)') <= less[n] /\ (handle[d] => Len(Flow(e)') = less[n])
      BY <1>5, <1>9, <2>2, <2>5a, <3>1, <3>2
    <3>4. handle'[Peer(e)] = handle[d]
      BY <1>2, <1>d
    <3> QED
      BY <2>5, <2>6, <2>7, <3>1, <3>3, <3>4 DEF Starts
  <2>9. ASSUME Framed(e, start) PROVE Framed(e, less)'
    <3>1. ASSUME NEW i \in 1..(n - 1), NEW k \in 1..Size(Unread(e, i)'),
                 less[i] + k <= Len(Flow(e)')
          PROVE  Flow(e)'[less[i] + k] = Encode(Unread(e, i)')[k]
      <4>1. i \in 1..n /\ i + 1 \in 1..n /\ Unread(e, i)' = Unread(e, i + 1)
        BY <1>5, <1>8
      <4>2. Size(Unread(e, i + 1)) \in Nat
        BY <1>5, <4>1, EncodeAt DEF Size, HeaderSize
      <4>3. k \in Nat /\ k >= 1 /\ k \in 1..Size(Unread(e, i + 1))
        BY <4>1, <4>2
      <4>4. /\ less[i] + k \in 1..Len(Flow(e)')
            /\ m + (less[i] + k) = start[i + 1] + k
            /\ start[i + 1] + k <= Len(Flow(e))
        <5>1. PICK a, b, f, h : a = less[i] /\ b = start[i + 1] /\ f = Len(Flow(e))
                                /\ h = Len(Flow(e)')
          OBVIOUS
        <5>2. /\ a \in Nat /\ m \in Nat /\ k \in Nat /\ h \in Nat /\ k >= 1
              /\ m + a = b /\ f = m + h /\ a + k <= h
          BY <1>5, <1>9, <2>5a, <3>1, <4>1, <4>3, <5>1
        <5>3. a + k \in 1..h /\ m + (a + k) = b + k /\ b + k <= f
          BY ONLY <5>2
        <5> QED
          BY <5>1, <5>3
      <4>5. Flow(e)'[less[i] + k] = Flow(e)[start[i + 1] + k]
        BY <1>9, <4>4
      <4>6. Flow(e)[start[i + 1] + k] = Encode(Unread(e, i + 1))[k]
        BY <1>4, <2>9, <4>1, <4>3, <4>4 DEF Framed
      <4> QED
        BY <4>1, <4>5, <4>6
    <3> QED
      BY <3>1, <1>8 DEF Framed
  <2>10. ASSUME Len(Flow(e)) = start[n + 1] PROVE Len(Flow(e)') = less[n]
    <3>1. start[n + 1] = m + less[n] /\ less[n] \in Nat
      BY <1>5, <2>5a, <2>5
    <3> QED
      BY <1>5, <1>9, <2>10, <3>1
  <2>11. Pending(e)' + 1 = n
    BY <1>5, <1>8
  <2> QED
    BY <1>4, <2>8, <2>9, <2>10, <2>11

\* The packet read_packet returns is the next, and the flow goes on behind it.
LEMMA TakeKeeps ==
  ASSUME ChannelInv, StreamTypeOK', NEW e \in Ends, TakePacket(e)
  PROVE  \A d \in Ends : EndInv(d)'
<1>d. PICK d : d = Peer(e)
  OBVIOUS
<1>p. FlowFacts'
  BY FlowAt, PTL
<1>t. /\ got \in [Ends -> Seq(Cell)] /\ sent \in [Ends -> Seq(Packet)]
      /\ read \in [Ends -> Seq(Packet)]
  BY DEF ChannelInv, StreamTypeOK
<1>1. /\ Arrived(e) /\ Unread(e, 1) \in Packet
      /\ read' = [read EXCEPT ![e] = Append(@, Unread(e, 1))]
  BY ReturnedIsNext DEF TakePacket
<1>2. /\ d \in Ends /\ d # e /\ Peer(d) = e
      /\ handle' = handle /\ out' = out /\ wire' = wire /\ sent' = sent
      /\ got' = [got EXCEPT ![e] = <<>>]
  BY <1>d, TwoEnds DEF TakePacket
<1>3. EndInv(d)'
  <2>1. got'[d] = got[d] /\ read'[d] = read[d]
    BY <1>1, <1>2, <1>t
  <2>2. Flow(d)' = Flow(d)
    BY <1>2, <1>d, <2>1 DEF Flow
  <2>3. ~handle[d] => got'[d] = <<>> /\ wire'[d] = <<>> /\ out'[d] = <<>>
    BY <1>2, <2>1 DEF ChannelInv, EndInv
  <2> QED
    BY <1>2, <1>p, <2>1, <2>2, <2>3, FlowSame
<1>4. handle[e] /\ PrefixRead(e)'
  BY <1>1, <1>2, ArrivedIsNext, ReadGrows DEF TakePacket
<1>5. (\E start : Starts(e, start) /\ Framed(e, start))'
  <2>1. PICK start : Starts(e, start) /\ Framed(e, start)
    BY <1>4 DEF ChannelInv, EndInv
  <2> QED
    BY <2>1, TakeShifts
<1>11. EndInv(e)'
  <2>1. handle'[e]
    BY <1>2, <1>4
  <2> QED
    BY <2>1, <1>4, <1>5 DEF EndInv
<1> QED
  BY <1>d, <1>3, <1>11, TwoEnds

\* Closing an end takes from its peer only what had not been sent.
LEMMA CloseKeeps ==
  ASSUME ChannelInv, StreamTypeOK', NEW e \in Ends, CloseEnd(e)
  PROVE  \A d \in Ends : EndInv(d)'
<1>d. PICK d : d = Peer(e)
  OBVIOUS
<1>f. FlowFacts
  BY FlowAt DEF ChannelInv
<1>p. FlowFacts'
  BY FlowAt, PTL
<1>t. /\ got \in [Ends -> Seq(Cell)] /\ wire \in [Ends -> Seq(Cell)]
      /\ out \in [Ends -> Seq(Cell)] /\ handle \in [Ends -> BOOLEAN]
  BY DEF ChannelInv, StreamTypeOK
<1>1. /\ d \in Ends /\ d # e /\ Peer(d) = e /\ sent' = sent
      /\ handle' = [handle EXCEPT ![e] = FALSE] /\ out' = [out EXCEPT ![e] = <<>>]
      /\ wire' = [wire EXCEPT ![e] = <<>>] /\ got' = [got EXCEPT ![e] = <<>>]
      /\ read' = IF Packets(e) = {} THEN read ELSE Returned(e)
  BY <1>d, TwoEnds DEF CloseEnd
<1>2. PrefixRead(e)' /\ read'[d] = read[d]
  <2>1. CASE Packets(e) = {}
    BY <1>1, <2>1 DEF ChannelInv, EndInv, PrefixRead
  <2>2. CASE Packets(e) # {}
    BY <1>1, <2>2, ReadGrows
  <2> QED
    BY <2>1, <2>2
<1>3. EndInv(e)'
  <2>1. ~handle'[e] /\ got'[e] = <<>> /\ wire'[e] = <<>> /\ out'[e] = <<>>
    BY <1>1, <1>t
  <2> QED
    BY <1>2, <2>1 DEF EndInv
<1>4. EndInv(d)'
  <2>1. /\ got'[d] = got[d] /\ wire'[d] = wire[d] /\ out'[d] = out[d]
        /\ handle'[d] = handle[d] /\ ~handle'[e] /\ out'[e] = <<>>
    BY <1>1, <1>t
  <2>2. /\ Len(Flow(d)') <= Len(Flow(d))
        /\ \A k \in 1..Len(Flow(d)') : Flow(d)'[k] = Flow(d)[k]
    <3> DEFINE g == got[d]
               w == wire[d]
               o == out[e]
    <3>1. Flow(d) = (g \o w) \o o /\ Flow(d)' = (g \o w) \o <<>>
      BY <1>1, <2>1 DEF Flow
    <3>2. g \in Seq(Cell) /\ w \in Seq(Cell) /\ o \in Seq(Cell)
      BY <1>1, <1>t
    <3> HIDE DEF g, w, o
    <3> DEFINE gw == g \o w
    <3>3. gw \in Seq(Cell) /\ o \in Seq(Cell)
      BY ONLY <3>2, Appended
    <3> HIDE DEF gw
    <3>4. Len(gw \o o) = Len(gw) + Len(o) /\ \A i \in 1..Len(gw) : (gw \o o)[i] = gw[i]
      BY ONLY <3>3, Appended
    <3>5. gw \o <<>> = gw /\ Len(gw) \in Nat /\ Len(o) \in Nat
      BY <3>3, ConcatEmptySeq, LenProperties
    <3>6. Flow(d) = gw \o o /\ Flow(d)' = gw
      BY <3>1, <3>5 DEF gw
    <3> QED
      BY <3>4, <3>5, <3>6
  <2>3. ~handle[d] => got'[d] = <<>> /\ wire'[d] = <<>> /\ out'[d] = <<>>
    BY <1>1, <2>1 DEF ChannelInv, EndInv
  <2> QED
    BY <1>1, <1>2, <1>p, <2>1, <2>2, <2>3, FlowKept
<1> QED
  BY <1>d, <1>3, <1>4, TwoEnds

\* A new connection carries nothing; one that is lost leaves what was read.
LEMMA ConnectKeeps ==
  ASSUME ChannelInv, StreamTypeOK', Connected \/ Lost
  PROVE  \A e \in Ends : EndInv(e)'
<1> SUFFICES ASSUME NEW e \in Ends PROVE EndInv(e)'
  OBVIOUS
<1>p. FlowFacts'
  BY FlowAt, PTL
<1>0. out'[e] = <<>> /\ wire'[e] = <<>> /\ got'[e] = <<>>
  BY DEF Connected, Lost, Nothing
<1>1. CASE Connected
  <2>1. Pending(e)' = 0 /\ Len(read'[e]) = 0 /\ Len(sent'[e]) = 0
    BY <1>1 DEF Connected, Pending, Nothing
  <2>2. PrefixRead(e)' /\ handle'[e]
    BY <1>1, <2>1 DEF PrefixRead, Connected
  <2>3. Len(Flow(e)') = 0
    <3>1. got'[e] = <<>> /\ wire'[e] = <<>> /\ out'[Peer(e)] = <<>>
      BY <1>1, TwoEnds DEF Connected, Nothing
    <3>2. Flow(e)' = <<>>
      BY <3>1 DEF Flow
    <3> QED
      BY <3>2
  <2>4. Starts(e, [i \in 1..1 |-> 0])' /\ Framed(e, [i \in 1..1 |-> 0])'
    BY <2>1, <2>3 DEF Starts, Framed
  <2> QED
    BY <2>2, <2>4 DEF EndInv
<1>2. CASE Lost
  <2>1. PrefixRead(e)' /\ ~handle'[e]
    BY <1>2 DEF Lost, ChannelInv, EndInv, PrefixRead
  <2> QED
    BY <1>0, <2>1 DEF EndInv
<1> QED
  BY <1>1, <1>2

\* The framing invariant is inductive.
LEMMA ChannelStep == ChannelInv /\ [StreamNext]_streamVars => ChannelInv'
<1> SUFFICES ASSUME ChannelInv, StreamNext \/ UNCHANGED streamVars PROVE ChannelInv'
  OBVIOUS
<1>1. ASSUME StreamNext PROVE ChannelInv'
  <2>t. StreamTypeOK'
    BY <1>1, StreamTypeStep
  <2>1. CASE Connected \/ Lost
    BY <2>t, <2>1, ConnectKeeps DEF ChannelInv
  <2>2. ASSUME NEW e \in Ends, StreamStep(e) PROVE ChannelInv'
    BY <2>t, <2>2, WriteKeeps, SendKeeps, RecvKeeps, TakeKeeps, CloseKeeps
      DEF StreamStep, ChannelInv
  <2> QED
    BY <1>1, <2>1, <2>2 DEF StreamNext
<1>2. ASSUME UNCHANGED streamVars PROVE ChannelInv'
  <2>t. StreamTypeOK'
    BY <1>2 DEF streamVars, ChannelInv, StreamTypeOK
  <2>p. FlowFacts'
    BY <2>t, FlowAt, PTL
  <2>1. ASSUME NEW e \in Ends PROVE EndInv(e)'
    <3>1. Flow(e)' = Flow(e)
      BY <1>2 DEF streamVars, Flow
    <3>2. ~handle[e] => got'[e] = <<>> /\ wire'[e] = <<>> /\ out'[e] = <<>>
      BY <1>2 DEF streamVars, ChannelInv, EndInv
    <3> QED
      BY <1>2, <2>p, <3>1, <3>2, FlowSame DEF streamVars
  <2> QED
    BY <2>t, <2>1 DEF ChannelInv
<1> QED
  BY <1>1, <1>2

\* It holds of a stream that is not connected.
LEMMA ChannelStart == StreamInit => ChannelInv
<1> SUFFICES ASSUME StreamInit PROVE ChannelInv
  OBVIOUS
<1>1. /\ handle \in [Ends -> BOOLEAN] /\ Nothing \in [Ends -> Seq(Cell)]
      /\ Nothing \in [Ends -> Seq(Packet)]
  BY DEF StreamInit, Nothing
<1>2. StreamTypeOK
  BY <1>1 DEF StreamInit, StreamTypeOK
<1>3. ASSUME NEW e \in Ends PROVE EndInv(e)
  BY DEF StreamInit, Nothing, EndInv, PrefixRead
<1> QED
  BY <1>2, <1>3 DEF ChannelInv

\* Every step of the stream is one of the channel.
LEMMA ChannelImplemented ==
  ChannelInv /\ [StreamNext]_streamVars => [Channel!Next]_<<sent, read>>
<1> SUFFICES ASSUME ChannelInv, StreamNext \/ UNCHANGED streamVars
             PROVE  Channel!Next \/ UNCHANGED <<sent, read>>
  OBVIOUS
<1>t. sent \in [Ends -> Seq(Packet)] /\ read \in [Ends -> Seq(Packet)]
  BY DEF ChannelInv, StreamTypeOK
<1>1. CASE UNCHANGED streamVars
  BY <1>1 DEF streamVars
<1>2. CASE Connected
  BY <1>2 DEF Connected, Nothing, Channel!Next, Channel!Reconnect, Channel!Init
<1>3. CASE Lost
  BY <1>3 DEF Lost
<1>4. ASSUME NEW e \in Ends, NEW packet \in Packet, WritePacket(e, packet)
      PROVE  Channel!Next
  <2>1. PICK d : d = Peer(e)
    OBVIOUS
  <2>2. d \in Ends /\ sent[d] \in Seq(Packet)
    BY <1>t, <2>1, TwoEnds
  <2>3. sent' = [sent EXCEPT ![d] = Append(@, packet)] /\ read' = read
    BY <1>4, <2>1 DEF WritePacket
  <2>4. sent'[d] = Append(sent[d], packet)
    BY <1>t, <2>2, <2>3
  <2>5. Len(sent'[d]) = Len(sent[d]) + 1 /\ sent'[d][Len(sent[d]) + 1] = packet
    BY <2>2, <2>4, AppendProperties
  <2>6. Channel!Write(d)
    BY <2>3, <2>5 DEF Channel!Write
  <2> QED
    BY <2>2, <2>6 DEF Channel!Next
<1>5. ASSUME NEW e \in Ends, Packets(e) # {}, read' = Returned(e), sent' = sent
      PROVE  Channel!Next
  BY <1>5, ReadGrows DEF Channel!Next, Channel!Read
<1>6. ASSUME NEW e \in Ends, SendSome(e) \/ RecvSome(e) PROVE UNCHANGED <<sent, read>>
  BY <1>6 DEF SendSome, RecvSome
<1> QED
  BY <1>1, <1>2, <1>3, <1>4, <1>5, <1>6 DEF StreamNext, StreamStep, TakePacket, CloseEnd

-----------------------------------------------------------------------------
(* The exchange: what is in the locals, the files and the packets. *)

SenderPoints   == {"idle", "hello", "hash", "announce", "ack", "stream", "end", "done"}
ReceiverPoints == {"idle", "hello", "info", "ack", "open", "data", "record", "hash",
                   "compare", "accepted"}
HashState      == [compressed : Seq(Byte), buffer : Seq(Byte), total : Nat]

SenderTyped ==
  s \in [pc : SenderPoints, hash : HashState, position : Nat, digest : Seq(HashCell)]
ReceiverTyped ==
  r \in [pc : ReceiverPoints, info : {Info}, received : Nat, hash : HashState,
         position : Nat]
FilesTyped == disk \in Seq(Byte) \cup {Absent} /\ stateFile \in Seq(TextCell)
ExchangeTypeOK ==
  /\ name \in Names /\ content \in Contents
  /\ SenderTyped /\ ReceiverTyped /\ FilesTyped

\* The digest is that of what has been read, and in the end of the content.
SenderKnows ==
  /\ s.position <= Len(content)
  /\ s.pc = "hello" => s.hash = NewHash /\ s.position = 0
  /\ s.pc = "hash" => Holds(s.hash, SubSeq(content, 1, s.position))
  /\ s.pc = "announce" => Holds(s.hash, content)
  /\ s.pc \in {"ack", "stream", "end", "done"} => s.digest = Padded(content)

\* The offset announced is on the disk; the digest is that of the file.
ReceiverKnows ==
  /\ r.pc \in {"ack", "open"} => r.received <= Len(OnDisk)
  /\ r.pc \in {"data", "record", "hash", "compare", "accepted"} => disk \in Seq(Byte)
  /\ r.pc = "hash" => r.position <= Len(disk) /\ Holds(r.hash, SubSeq(disk, 1, r.position))
  /\ r.pc = "compare" => Holds(r.hash, disk)
  /\ r.pc = "accepted" => disk = content

\* What an end may write: the announcement of the file, bytes, offsets.
Meant(packet) ==
  /\ packet.type = "FILE_INFO" => packet.payload = FileInfoText(Info)
  /\ packet.type = "DATA" => packet.payload \in Seq(Byte)
  /\ packet.type = "RESUME_ACK" => packet.payload \in Seq(TextCell)
PacketsMeant == \A e \in Ends : \A i \in 1..Len(sent[e]) : Meant(sent[e][i])

ExchangeInv ==
  /\ ChannelInv /\ ExchangeTypeOK
  /\ SenderKnows /\ ReceiverKnows /\ PacketsMeant

\* What the steps of the exchange do to the stream.
MeantStep(e) ==
  \/ \E packet \in Packet : Meant(packet) /\ WritePacket(e, packet)
  \/ SendSome(e) \/ RecvSome(e) \/ TakePacket(e) \/ CloseEnd(e)
MeantNext ==
  Connected \/ Lost \/ UNCHANGED streamVars \/ \E e \in Ends : MeantStep(e)

\* The file is announced by an identity that its codec reads back.
LEMMA InfoIsIdentity ==
  ASSUME name \in Names, content \in Contents
  PROVE  /\ content \in Seq(Byte) /\ Len(content) \in Nat
         /\ Info \in Identity /\ Info \in StoredInfo
         /\ Info.sha256 = <<Digest(Padded(content))>>
         /\ FileInfoText(Info) \in Seq(TextCell)
         /\ ParseFileInfo(FileInfoText(Info)) = {Info}
<1>1. content \in Seq(Byte) /\ name \in Seq(Char) /\ name # <<>>
  BY ExchangeAssumption
<1>2. Len(content) \in Nat /\ Padded(content) \in Seq(HashCell)
  BY <1>1, PaddedIs, LenProperties
<1>3. PICK d : d = Digest(Padded(content))
  OBVIOUS
<1>4. d \in StringCell /\ StringCell \subseteq TextCell /\ Char \subseteq StringCell
  <2>1. d \in {"digest"} \X Seq(HashCell)
    BY <1>2, <1>3 DEF Digest
  <2> QED
    BY <2>1, CellKinds DEF StringCell
<1>5. Info = [path |-> name, size |-> Len(content), sha256 |-> <<d>>]
  BY <1>3 DEF Info, InfoOf
<1>6. name \in Seq(StringCell) /\ name \in Seq(TextCell)
  <2>1. Char \subseteq TextCell
    BY <1>4
  <2> QED
    BY <1>1, <1>4, <2>1
<1>7. <<d>> \in Seq(StringCell) /\ <<d>> # <<>> /\ <<d>> \in Seq(TextCell)
  BY <1>4
<1>8. Info \in Identity /\ Info \in StoredInfo
  BY <1>1, <1>2, <1>5, <1>6, <1>7 DEF Identity, StoredInfo
<1> QED
  BY <1>1, <1>2, <1>3, <1>5, <1>8, FileInfoIsReadBack

\* A chunk read of a file and added to the digest of what stands before it.
LEMMA ChunkIsAdded ==
  ASSUME NEW bytes \in Seq(Byte), NEW size \in Nat \ {0}, NEW position \in 0..Len(bytes)
  PROVE  /\ Chunk(bytes, position, size) \in Seq(Byte)
         /\ position + Len(Chunk(bytes, position, size)) \in 0..Len(bytes)
         /\ Len(Chunk(bytes, position, size)) < size =>
              position + Len(Chunk(bytes, position, size)) = Len(bytes)
         /\ \A hash : Holds(hash, SubSeq(bytes, 1, position)) =>
              /\ Holds(Update(hash, Chunk(bytes, position, size)),
                       SubSeq(bytes, 1, position + Len(Chunk(bytes, position, size))))
              /\ Update(hash, Chunk(bytes, position, size)) \in HashState
<1>1. PICK last : last = IF position + size < Len(bytes) THEN position + size ELSE Len(bytes)
  OBVIOUS
<1>2. Len(bytes) \in Nat /\ position \in Nat /\ last \in position..Len(bytes)
  BY <1>1, LenProperties
<1>3. PICK piece : piece = Chunk(bytes, position, size)
  OBVIOUS
<1>4. PICK before : before = SubSeq(bytes, 1, position)
  OBVIOUS
<1>5. /\ piece \in Seq(Byte) /\ Len(piece) = last - position
      /\ before \in Seq(Byte)
      /\ before \o piece = SubSeq(bytes, 1, last)
  <2>1. piece = SubSeq(bytes, position + 1, last)
    BY <1>1, <1>3 DEF Chunk
  <2>2. /\ SubSeq(bytes, 1, position) \in Seq(Byte)
        /\ SubSeq(bytes, position + 1, last) \in Seq(Byte)
        /\ Len(SubSeq(bytes, position + 1, last)) = last - position
    BY <1>2, CutInThree
  <2>3. SubSeq(bytes, 1, position) \o SubSeq(bytes, position + 1, last) = SubSeq(bytes, 1, last)
    <3>1. 1 \in 1..(Len(bytes) + 1) /\ position \in (1 - 1)..Len(bytes) /\ last \in position..Len(bytes)
      BY <1>2
    <3> QED
      BY <3>1, ConcatAdjacentSubSeq
  <2> QED
    BY <1>4, <2>1, <2>2, <2>3
<1>6. position + Len(piece) = last
  BY <1>2, <1>5
<1>7. last \in 0..Len(bytes) /\ (Len(piece) < size => last = Len(bytes))
  BY <1>1, <1>2, <1>5
<1>8. ASSUME NEW hash, Holds(hash, before)
      PROVE  Holds(Update(hash, piece), before \o piece) /\ Update(hash, piece) \in HashState
  <2>1. Holds(Update(hash, piece), before \o piece)
    BY <1>5, <1>8, UpdateHolds
  <2>2. /\ Update(hash, piece).compressed \in Seq(Byte)
        /\ Update(hash, piece).buffer \in Seq(Byte)
        /\ Update(hash, piece).total = Len(before \o piece)
    BY <2>1 DEF Holds
  <2>3. Len(before \o piece) \in Nat
    BY <1>5, Joined, LenProperties
  <2>4. PICK x : x = Update(hash, piece)
    OBVIOUS
  <2>5. x = [compressed |-> x.compressed, buffer |-> x.buffer, total |-> x.total]
    BY <2>4 DEF Update
  <2> QED
    BY <2>1, <2>2, <2>3, <2>4, <2>5 DEF HashState
<1> QED
  BY <1>3, <1>4, <1>5, <1>6, <1>7, <1>8

\* Texts and bytes can be in packets.
LEMMA TextsAreSent ==
  /\ \A text \in Seq(TextCell) : text \in Seq(PayloadCell)
  /\ \A bytes \in Seq(Byte) : bytes \in Seq(PayloadCell)
BY DEF PayloadCell

\* The digest is complete when the file is announced.
LEMMA AnnouncesInfo ==
  ASSUME ExchangeInv, s.pc = "announce"
  PROVE  /\ FinalHex(s.hash) = Padded(content)
         /\ [path |-> name, size |-> Len(content),
             sha256 |-> <<Digest(FinalHex(s.hash))>>] = Info
<1>1. content \in Seq(Byte) /\ Holds(s.hash, content)
  BY ExchangeAssumption DEF ExchangeInv, ExchangeTypeOK, SenderKnows
<1>2. FinalHex(s.hash) = Padded(content)
  BY <1>1, FinalHexIsPadded
<1> QED
  BY <1>2 DEF Info, InfoOf

\* Each step of the exchange is one of the stream, and writes what is meant.
LEMMA StreamPart == ExchangeInv /\ [ExchangeNext]_exchangeVars => MeantNext
<1> SUFFICES ASSUME ExchangeInv, ExchangeNext \/ UNCHANGED exchangeVars PROVE MeantNext
  OBVIOUS
<1>t. /\ name \in Names /\ content \in Contents /\ content \in Seq(Byte)
      /\ Len(content) \in Nat /\ s.position \in 0..Len(content) /\ r.received \in Nat
  <2>1. name \in Names /\ content \in Contents /\ s.position \in Nat /\ r.received \in Nat
    BY DEF ExchangeInv, ExchangeTypeOK, SenderTyped, ReceiverTyped
  <2>2. content \in Seq(Byte) /\ Len(content) \in Nat
    BY <2>1, InfoIsIdentity
  <2>3. s.position <= Len(content)
    BY DEF ExchangeInv, SenderKnows
  <2> QED
    BY <2>1, <2>2, <2>3
<1>e. "sender" \in Ends /\ "receiver" \in Ends
  BY DEF Ends
<1>w. ASSUME NEW e \in Ends, NEW type \in PacketTypes, NEW payload \in Seq(PayloadCell),
             Meant([type |-> type, payload |-> payload]),
             WritePacket(e, [type |-> type, payload |-> payload])
      PROVE  MeantNext
  <2>1. [type |-> type, payload |-> payload] \in Packet
    BY DEF Packet
  <2>2. MeantStep(e)
    BY <1>w, <2>1 DEF MeantStep
  <2> QED
    BY <2>2 DEF MeantNext
<1>1. CASE SendHello
  <2>1. Manifest \in [files : Nat, bytes : Nat, directories : Nat]
    BY <1>t DEF Manifest
  <2>2. ManifestText(Manifest) \in Seq(PayloadCell)
    BY <2>1, ManifestIsTyped, TextsAreSent
  <2>3. "HELLO" \in PacketTypes
    BY DEF PacketTypes
  <2>4. Meant([type |-> "HELLO", payload |-> ManifestText(Manifest)])
    BY DEF Meant
  <2>5. WritePacket("sender", [type |-> "HELLO", payload |-> ManifestText(Manifest)])
    BY <1>1 DEF SendHello
  <2> QED
    BY <1>e, <1>w, <2>2, <2>3, <2>4, <2>5
<1>2. CASE Announce
  <2>1. WritePacket("sender", [type |-> "FILE_INFO", payload |-> FileInfoText(Info)])
    BY <1>2, AnnouncesInfo DEF Announce
  <2>2. FileInfoText(Info) \in Seq(PayloadCell)
    BY <1>t, InfoIsIdentity, TextsAreSent
  <2>3. Meant([type |-> "FILE_INFO", payload |-> FileInfoText(Info)])
    BY DEF Meant
  <2>4. "FILE_INFO" \in PacketTypes
    BY DEF PacketTypes
  <2> QED
    BY <1>e, <1>w, <2>1, <2>2, <2>3, <2>4
<1>3. CASE SendData
  <2>1. PICK bytes : /\ bytes = Chunk(content, s.position, ChunkSize)
                     /\ WritePacket("sender", [type |-> "DATA", payload |-> bytes])
    BY <1>3 DEF SendData
  <2>2. bytes \in Seq(Byte)
    BY <1>t, <2>1, ChunkIsAdded, ExchangeAssumption
  <2>3. bytes \in Seq(PayloadCell)
    BY <2>2, TextsAreSent
  <2>4. Meant([type |-> "DATA", payload |-> bytes])
    BY <2>2 DEF Meant
  <2>5. "DATA" \in PacketTypes
    BY DEF PacketTypes
  <2> QED
    BY <1>e, <1>w, <2>1, <2>3, <2>4, <2>5
<1>4. CASE SendFileEnd
  <2>1. WritePacket("sender", [type |-> "FILE_END", payload |-> <<>>])
    BY <1>4 DEF SendFileEnd
  <2>2. <<>> \in Seq(PayloadCell) /\ "FILE_END" \in PacketTypes
    BY DEF PacketTypes
  <2>3. Meant([type |-> "FILE_END", payload |-> <<>>])
    BY DEF Meant
  <2> QED
    BY <1>e, <1>w, <2>1, <2>2, <2>3
<1>5. CASE SendAck
  <2>1. WritePacket("receiver", [type |-> "RESUME_ACK", payload |-> ResumeAckText(r.received)])
    BY <1>5 DEF SendAck
  <2>2. ResumeAckText(r.received) \in Seq(TextCell)
    BY <1>t, AckIsTyped
  <2>3. ResumeAckText(r.received) \in Seq(PayloadCell)
    BY <2>2, TextsAreSent
  <2>4. Meant([type |-> "RESUME_ACK", payload |-> ResumeAckText(r.received)])
    BY <2>2 DEF Meant
  <2>5. "RESUME_ACK" \in PacketTypes
    BY DEF PacketTypes
  <2> QED
    BY <1>e, <1>w, <2>1, <2>3, <2>4, <2>5
<1>6. CASE Begin
  BY <1>6 DEF Begin, MeantNext
<1>7. CASE ReadAck
  <2>1. TakePacket("sender")
    BY <1>7 DEF ReadAck
  <2> QED
    BY <1>e, <2>1 DEF MeantStep, MeantNext
<1>8. CASE SenderLeaves
  <2>1. CloseEnd("sender")
    BY <1>8 DEF SenderLeaves
  <2> QED
    BY <1>e, <2>1 DEF MeantStep, MeantNext
<1>9. CASE ReadHello \/ ReadInfo \/ ReadData \/ ReadFileEnd
  <2>1. TakePacket("receiver")
    BY <1>9 DEF ReadHello, ReadInfo, ReadData, ReadFileEnd
  <2> QED
    BY <1>e, <2>1 DEF MeantStep, MeantNext
<1>10. CASE ReceiverLeaves \/ KillReceiver
  <2>1. CloseEnd("receiver")
    BY <1>10 DEF ReceiverLeaves, KillReceiver
  <2> QED
    BY <1>e, <2>1 DEF MeantStep, MeantNext
<1>11. CASE \/ SenderHashes \/ OpenOutput \/ RecordOffset \/ ReceiverHashes \/ Accept
            \/ Over \/ UNCHANGED exchangeVars
  <2>1. UNCHANGED streamVars
    BY <1>11 DEF SenderHashes, OpenOutput, RecordOffset, ReceiverHashes, Accept, Over, exchangeVars
  <2> QED
    BY <2>1 DEF MeantNext
<1>12. ASSUME NEW e \in Ends, Transport(e) \/ Interrupted(e) PROVE MeantNext
  <2>1. MeantStep(e)
    BY <1>12 DEF Transport, Interrupted, MeantStep
  <2> QED
    BY <2>1 DEF MeantNext
<1>13. CASE ConnectionLost
  BY <1>13 DEF ConnectionLost, Lost, MeantNext
<1> QED
  BY <1>1, <1>2, <1>3, <1>4, <1>5, <1>6, <1>7, <1>8, <1>9, <1>10, <1>11, <1>12, <1>13
    DEF ExchangeNext, SenderStep, ReceiverStep

\* A step of the exchange is one of the stream.
LEMMA MeantIsStream == MeantNext => [StreamNext]_streamVars
BY DEF MeantNext, MeantStep, StreamNext, StreamStep

\* What is written is meant.
LEMMA PacketsStayMeant ==
  ASSUME ExchangeInv, MeantNext, name' = name, content' = content
  PROVE  PacketsMeant'
<1>t. sent \in [Ends -> Seq(Packet)]
  BY DEF ExchangeInv, ChannelInv, StreamTypeOK
<1>i. Info' = Info
  BY DEF Info, InfoOf
<1>m. ASSUME NEW e \in Ends, NEW i \in 1..Len(sent[e]), sent'[e][i] = sent[e][i]
      PROVE  Meant(sent[e][i])'
  BY <1>i, <1>m DEF ExchangeInv, PacketsMeant, Meant
<1>1. CASE UNCHANGED sent
  BY <1>1, <1>m DEF PacketsMeant
<1>2. CASE Connected
  <2>1. \A e \in Ends : sent'[e] = <<>>
    BY <1>2 DEF Connected, Nothing
  <2> QED
    BY <2>1 DEF PacketsMeant
<1>3. ASSUME NEW d \in Ends, NEW packet \in Packet, Meant(packet), WritePacket(d, packet)
      PROVE  PacketsMeant'
  <2> SUFFICES ASSUME NEW e \in Ends, NEW i \in 1..Len(sent'[e]) PROVE Meant(sent[e][i])'
    BY DEF PacketsMeant
  <2>1. sent'[e] = IF e = Peer(d) THEN Append(sent[e], packet) ELSE sent[e]
    BY <1>3, <1>t, TwoEnds DEF WritePacket
  <2>2. sent[e] \in Seq(Packet) /\ Len(sent[e]) \in Nat
    BY <1>t, LenProperties
  <2>3. CASE i \in 1..Len(sent[e])
    <3>1. sent'[e][i] = sent[e][i]
      BY <2>1, <2>2, <2>3, AppendProperties
    <3> QED
      BY <1>m, <2>3, <3>1
  <2>4. CASE i \notin 1..Len(sent[e])
    <3>1. sent'[e][i] = packet
      BY <2>1, <2>2, <2>4, AppendProperties
    <3> QED
      BY <1>3, <1>i, <3>1 DEF Meant
  <2> QED
    BY <2>3, <2>4
<1> QED
  BY <1>1, <1>2, <1>3
    DEF MeantNext, MeantStep, Lost, SendSome, RecvSome, TakePacket, CloseEnd, streamVars

\* A hash object that holds nothing, and a file that is whole.
LEMMA NewHashIsTyped == NewHash \in HashState
BY DEF NewHash, HashState

LEMMA WholeFile ==
  ASSUME NEW bytes \in Seq(Byte)
  PROVE  /\ SubSeq(bytes, 1, Len(bytes)) = bytes
         /\ SubSeq(bytes, 1, 0) = <<>>
         /\ Len(bytes) \in Nat
BY SubSeqFull, LenProperties, SubSeqEmpty

\* A packet that has arrived is one that was meant.
LEMMA PacketIsMeant ==
  ASSUME ExchangeInv
  PROVE  \A e \in Ends : \A packet \in Packets(e) : Meant(packet) /\ packet \in Packet
<1> SUFFICES ASSUME NEW e \in Ends, NEW packet \in Packets(e)
             PROVE  Meant(packet) /\ packet \in Packet
  OBVIOUS
<1>1. ChannelInv
  BY DEF ExchangeInv
<1>2. Arrived(e)
  BY DEF Packets
<1>3. packet = Unread(e, 1) /\ Pending(e) >= 1
  BY <1>1, <1>2, ArrivedIsNext
<1>4. /\ Len(read[e]) \in Nat /\ Len(sent[e]) \in Nat
      /\ Len(read[e]) + Pending(e) = Len(sent[e]) /\ Pending(e) \in Nat
      /\ Unread(e, 1) \in Packet
  BY <1>1, <1>3, Counts
<1>5. Len(read[e]) + 1 \in 1..Len(sent[e])
  BY <1>3, <1>4
<1> QED
  BY <1>3, <1>4, <1>5 DEF Unread, ExchangeInv, PacketsMeant

\* What the sender reads, sends and learns keeps its digest that of the file.
LEMMA SenderKeeps ==
  ASSUME ExchangeInv, SenderStep \/ Begin
  PROVE  SenderTyped' /\ SenderKnows' /\ name' = name /\ content' = content
<1>t. /\ content \in Seq(Byte) /\ Len(content) \in Nat /\ s.position \in 0..Len(content)
      /\ SenderTyped /\ SenderKnows /\ name \in Names /\ content \in Contents
  <2>1. SenderTyped /\ SenderKnows /\ name \in Names /\ content \in Contents
    BY DEF ExchangeInv, ExchangeTypeOK
  <2>2. content \in Seq(Byte) /\ Len(content) \in Nat
    BY <2>1, InfoIsIdentity
  <2> QED
    BY <2>1, <2>2 DEF SenderTyped, SenderKnows
<1>c. name' = name /\ content' = content
  BY DEF SenderStep, Begin, SendHello, SenderHashes, Announce, ReadAck, SendData,
         SendFileEnd, SenderLeaves, SenderGoes
<1>f. /\ s.pc \in SenderPoints /\ s.hash \in HashState /\ s.position \in Nat
      /\ s.digest \in Seq(HashCell)
      /\ s = [pc |-> s.pc, hash |-> s.hash, position |-> s.position, digest |-> s.digest]
  BY <1>t DEF SenderTyped
<1>0. IdleSender \in [pc : SenderPoints, hash : HashState, position : Nat, digest : Seq(HashCell)]
  BY NewHashIsTyped DEF IdleSender, SenderPoints
<1>1. CASE Begin
  <2>1. s' = [pc |-> "hello", hash |-> NewHash, position |-> 0, digest |-> <<>>]
    BY <1>1 DEF Begin, IdleSender
  <2>2. SenderTyped'
    BY <2>1, NewHashIsTyped DEF SenderTyped, SenderPoints
  <2>3. SenderKnows'
    BY <1>t, <1>c, <2>1 DEF SenderKnows
  <2> QED
    BY <1>c, <2>2, <2>3
<1>2. CASE SenderLeaves
  <2>1. s' = IdleSender
    BY <1>2 DEF SenderLeaves, SenderGoes
  <2>2. SenderTyped'
    BY <1>0, <2>1 DEF SenderTyped
  <2>3. SenderKnows'
    BY <1>t, <1>c, <2>1 DEF SenderKnows, IdleSender
  <2> QED
    BY <1>c, <2>2, <2>3
<1>3. CASE SendHello
  <2>1. s' = [pc |-> "hash", hash |-> NewHash, position |-> 0, digest |-> s.digest]
    BY <1>3, <1>t, <1>f DEF SendHello, SenderGoes, SenderKnows
  <2>2. SenderTyped'
    BY <1>f, <2>1, NewHashIsTyped DEF SenderTyped, SenderPoints
  <2>3. Holds(NewHash, SubSeq(content, 1, 0))
    BY <1>t, NewHashHolds, WholeFile
  <2>4. SenderKnows'
    BY <1>t, <1>c, <2>1, <2>3 DEF SenderKnows
  <2> QED
    BY <1>c, <2>2, <2>4
<1>4. CASE SenderHashes
  <2>1. PICK bytes : bytes = Chunk(content, s.position, ChunkSize)
    OBVIOUS
  <2>2. PICK pc : pc = IF Len(bytes) < ChunkSize THEN "announce" ELSE "hash"
    OBVIOUS
  <2>3. s' = [pc |-> pc, hash |-> Update(s.hash, bytes), position |-> s.position + Len(bytes),
              digest |-> s.digest]
    BY <1>4, <1>f, <2>1, <2>2 DEF SenderHashes, SenderGoes
  <2>4. /\ s.position + Len(bytes) \in 0..Len(content)
        /\ Holds(Update(s.hash, bytes), SubSeq(content, 1, s.position + Len(bytes)))
        /\ Update(s.hash, bytes) \in HashState
        /\ Len(bytes) < ChunkSize => s.position + Len(bytes) = Len(content)
    <3>1. Holds(s.hash, SubSeq(content, 1, s.position))
      BY <1>4, <1>t DEF SenderHashes, SenderKnows
    <3>2. ChunkSize \in Nat \ {0}
      BY ExchangeAssumption
    <3> QED
      BY <1>t, <2>1, <3>1, <3>2, ChunkIsAdded
  <2>5. SenderTyped'
    BY <1>f, <2>2, <2>3, <2>4 DEF SenderTyped, SenderPoints
  <2>6. pc = "announce" => Holds(Update(s.hash, bytes), content)
    BY <1>t, <2>2, <2>4, WholeFile
  <2>7. SenderKnows'
    BY <1>t, <1>c, <2>2, <2>3, <2>4, <2>6 DEF SenderKnows
  <2> QED
    BY <1>c, <2>5, <2>7
<1>5. CASE Announce
  <2>1. s' = [pc |-> "ack", hash |-> s.hash, position |-> s.position, digest |-> Padded(content)]
    BY <1>5, <1>f, AnnouncesInfo DEF Announce, SenderGoes
  <2>2. Padded(content) \in Seq(HashCell)
    BY <1>t, PaddedIs
  <2>3. SenderTyped'
    BY <1>f, <2>1, <2>2 DEF SenderTyped, SenderPoints
  <2>4. SenderKnows'
    BY <1>t, <1>c, <2>1 DEF SenderKnows
  <2> QED
    BY <1>c, <2>3, <2>4
<1>6. CASE ReadAck
  <2>1. PICK packet \in Packets("sender") : \E offset \in ParseResumeAck(packet.payload) :
          /\ packet.type = "RESUME_ACK" /\ offset <= Len(content)
          /\ SenderGoes([s EXCEPT !.position = offset, !.pc = "stream"])
    BY <1>6 DEF ReadAck
  <2>2. PICK offset \in ParseResumeAck(packet.payload) :
          /\ packet.type = "RESUME_ACK" /\ offset <= Len(content)
          /\ SenderGoes([s EXCEPT !.position = offset, !.pc = "stream"])
    BY <2>1
  <2>3. packet.payload \in Seq(TextCell)
    BY <2>2, PacketIsMeant DEF Meant, Ends
  <2>4. offset \in Nat
    BY <2>2, <2>3, FieldsAreTyped DEF ParseResumeAck
  <2>5. s' = [pc |-> "stream", hash |-> s.hash, position |-> offset, digest |-> s.digest]
    BY <1>f, <2>2 DEF SenderGoes
  <2>6. SenderTyped'
    BY <1>f, <2>4, <2>5 DEF SenderTyped, SenderPoints
  <2>7. s.digest = Padded(content)
    BY <1>6, <1>t DEF ReadAck, SenderKnows
  <2>8. SenderKnows'
    BY <1>t, <1>c, <2>2, <2>4, <2>5, <2>7 DEF SenderKnows
  <2> QED
    BY <1>c, <2>6, <2>8
<1>7. CASE SendData
  <2>1. PICK bytes : bytes = Chunk(content, s.position, ChunkSize)
    OBVIOUS
  <2>2. PICK pc : pc = IF Len(bytes) < ChunkSize THEN "end" ELSE "stream"
    OBVIOUS
  <2>3. s' = [pc |-> pc, hash |-> s.hash, position |-> s.position + Len(bytes), digest |-> s.digest]
    BY <1>7, <1>f, <2>1, <2>2 DEF SendData, SenderGoes
  <2>4. s.position + Len(bytes) \in 0..Len(content)
    BY <1>t, <2>1, ChunkIsAdded, ExchangeAssumption
  <2>5. SenderTyped'
    BY <1>f, <2>2, <2>3, <2>4 DEF SenderTyped, SenderPoints
  <2>6. s.digest = Padded(content)
    BY <1>7, <1>t DEF SendData, SenderKnows
  <2>7. SenderKnows'
    BY <1>t, <1>c, <2>2, <2>3, <2>4, <2>6 DEF SenderKnows
  <2> QED
    BY <1>c, <2>5, <2>7
<1>8. CASE SendFileEnd
  <2>1. s' = [pc |-> "done", hash |-> s.hash, position |-> s.position, digest |-> s.digest]
    BY <1>8, <1>f DEF SendFileEnd, SenderGoes
  <2>2. SenderTyped'
    BY <1>f, <2>1 DEF SenderTyped, SenderPoints
  <2>3. s.digest = Padded(content)
    BY <1>8, <1>t DEF SendFileEnd, SenderKnows
  <2>4. SenderKnows'
    BY <1>t, <1>c, <2>1, <2>3 DEF SenderKnows
  <2> QED
    BY <1>c, <2>2, <2>4
<1> QED
  BY <1>1, <1>2, <1>3, <1>4, <1>5, <1>6, <1>7, <1>8 DEF SenderStep

\* What has been received is what was announced, when the digests agree.
LEMMA AgreementIsContent ==
  ASSUME ExchangeInv, r.pc = "compare", DigestAgrees
  PROVE  disk = content
<1>1. /\ content \in Seq(Byte) /\ disk \in Seq(Byte) /\ Holds(r.hash, disk)
      /\ r.info = Info /\ Info.sha256 = <<Digest(Padded(content))>>
  <2>1. name \in Names /\ content \in Contents /\ r.info = Info
    BY DEF ExchangeInv, ExchangeTypeOK, ReceiverTyped
  <2>2. disk \in Seq(Byte) /\ Holds(r.hash, disk)
    BY DEF ExchangeInv, ReceiverKnows
  <2> QED
    BY <2>1, <2>2, InfoIsIdentity
<1>2. Digest(FinalHex(r.hash)) = Digest(Padded(content))
  <2>1. <<Digest(FinalHex(r.hash))>> = <<Digest(Padded(content))>>
    BY <1>1 DEF DigestAgrees
  <2>2. PICK x, y : x = Digest(FinalHex(r.hash)) /\ y = Digest(Padded(content))
    OBVIOUS
  <2>3. <<x>> = <<y>>
    BY <2>1, <2>2
  <2> QED
    BY <2>2, <2>3
<1>3. FinalHex(r.hash) = Padded(content)
  BY <1>2 DEF Digest
<1>4. FinalHex(r.hash) = Padded(disk)
  BY <1>1, FinalHexIsPadded
<1> QED
  BY <1>1, <1>3, <1>4, PaddedIsInjective

\* A file cut short is still one.
LEMMA CutIsTyped ==
  ASSUME NEW S, NEW text \in Seq(S), NEW n \in 0..Len(text)
  PROVE  SubSeq(text, 1, n) \in Seq(S)
BY Splits

\* What the receiver does with packets, its file and its records.
LEMMA ReceiverKeeps ==
  ASSUME ExchangeInv, ReceiverStep \/ Begin \/ KillReceiver
  PROVE  /\ ReceiverTyped' /\ FilesTyped' /\ ReceiverKnows'
         /\ name' = name /\ content' = content
<1>t. /\ name \in Names /\ content \in Contents
      /\ ReceiverTyped /\ FilesTyped /\ ReceiverKnows
  BY DEF ExchangeInv, ExchangeTypeOK
<1>c. name' = name /\ content' = content
  BY DEF ReceiverStep, Begin, KillReceiver, ReadHello, ReadInfo, SendAck, OpenOutput, ReadData,
         RecordOffset, ReadFileEnd, ReceiverHashes, Accept, ReceiverLeaves, ReceiverGoes, Step
<1>i. Info' = Info
  BY <1>c DEF Info, InfoOf
<1>f. /\ r.pc \in ReceiverPoints /\ r.info = Info /\ r.received \in Nat
      /\ r.hash \in HashState /\ r.position \in Nat
      /\ r = [pc |-> r.pc, info |-> r.info, received |-> r.received, hash |-> r.hash,
              position |-> r.position]
      /\ stateFile \in Seq(TextCell) /\ disk \in Seq(Byte) \cup {Absent}
  BY <1>t DEF ReceiverTyped, FilesTyped
<1>s. /\ \A offset \in Nat : UpdateOffset(stateFile, r.info, offset) \subseteq Seq(TextCell)
      /\ Clear(stateFile, r.info) \subseteq Seq(TextCell)
      /\ FindOffset(stateFile, r.info) \subseteq Nat
  <2>1. r.info \in StoredInfo
    BY <1>t, <1>f, InfoIsIdentity
  <2>2. 0 \in Nat
    OBVIOUS
  <2> QED
    BY <1>f, <2>1, <2>2, StateIsTyped
<1>d. OnDisk \in Seq(Byte) /\ Len(OnDisk) \in Nat
  <2>1. OnDisk \in Seq(Byte)
    BY <1>f DEF OnDisk
  <2> QED
    BY <2>1, LenProperties
\* The state the step leaves, by its parts.
<1>p. ASSUME NEW pc \in ReceiverPoints, NEW received \in Nat, NEW hash \in HashState,
             NEW position \in Nat,
             r' = [pc |-> pc, info |-> Info, received |-> received, hash |-> hash,
                   position |-> position],
             disk' \in Seq(Byte) \cup {Absent}, stateFile' \in Seq(TextCell),
             ReceiverKnows'
      PROVE  /\ ReceiverTyped' /\ FilesTyped' /\ ReceiverKnows'
             /\ name' = name /\ content' = content
  <2>1. ReceiverTyped'
    BY <1>p, <1>i DEF ReceiverTyped
  <2>2. FilesTyped'
    BY <1>p DEF FilesTyped
  <2> QED
    BY <1>c, <1>p, <2>1, <2>2
<1>1. CASE Begin
  <2>1. r' = [pc |-> "hello", info |-> Info, received |-> 0, hash |-> NewHash, position |-> 0]
    BY <1>1 DEF Begin, IdleReceiver
  <2>2. disk' = disk /\ stateFile' = stateFile
    BY <1>1 DEF Begin
  <2>3. ReceiverKnows'
    BY <2>1 DEF ReceiverKnows
  <2>4. "hello" \in ReceiverPoints
    BY DEF ReceiverPoints
  <2> QED
    BY <1>f, <1>p, <2>1, <2>2, <2>3, <2>4, NewHashIsTyped
<1>2. CASE ReceiverLeaves \/ KillReceiver
  <2>1. r' = [pc |-> "idle", info |-> Info, received |-> 0, hash |-> NewHash, position |-> 0]
    BY <1>2 DEF ReceiverLeaves, ReceiverGoes, Step, KillReceiver, IdleReceiver
  <2>2. disk' \in Seq(Byte) \cup {Absent}
    <3>1. CASE disk' = disk
      BY <1>f, <3>1
    <3>2. CASE r.pc \in {"data", "record"} /\ \E n \in 0..Len(disk) : disk' = SubSeq(disk, 1, n)
      <4>1. disk \in Seq(Byte)
        BY <1>t, <3>2 DEF ReceiverKnows
      <4> QED
        BY <3>2, <4>1, CutIsTyped
    <3> QED
      BY <1>2, <3>1, <3>2 DEF ReceiverLeaves, ReceiverGoes, KillReceiver
  <2>3. stateFile' \in Seq(TextCell)
    <3>1. CASE stateFile' = stateFile
      BY <1>f, <3>1
    <3>2. ASSUME NEW texts, texts \subseteq Seq(TextCell), Torn(texts)
          PROVE  stateFile' \in Seq(TextCell)
      BY <3>2, CutIsTyped DEF Torn
    <3> QED
      BY <1>2, <1>f, <1>s, <3>1, <3>2 DEF ReceiverLeaves, ReceiverGoes, KillReceiver
  <2>4. ReceiverKnows'
    BY <2>1 DEF ReceiverKnows
  <2>5. "idle" \in ReceiverPoints
    BY DEF ReceiverPoints
  <2> QED
    BY <1>p, <2>1, <2>2, <2>3, <2>4, <2>5, NewHashIsTyped
<1>3. CASE ReadHello
  <2>1. /\ r' = [pc |-> "info", info |-> Info, received |-> r.received, hash |-> r.hash,
                 position |-> r.position]
        /\ disk' = disk /\ stateFile' = stateFile
    BY <1>3, <1>f DEF ReadHello, ReceiverGoes, Step
  <2>2. ReceiverKnows' /\ "info" \in ReceiverPoints
    BY <2>1 DEF ReceiverKnows, ReceiverPoints
  <2> QED
    BY <1>f, <1>p, <2>1, <2>2
<1>4. CASE ReadInfo
  <2>1. PICK packet \in Packets("receiver") :
          \E info \in ParseFileInfo(packet.payload) : \E stored \in FindOffset(stateFile, info) :
            /\ packet.type = "FILE_INFO"
            /\ ReceiverGoes([r EXCEPT !.info = info, !.pc = "ack",
                 !.received = IF stored < Len(OnDisk) THEN stored ELSE Len(OnDisk)])
    BY <1>4 DEF ReadInfo
  <2>2. PICK info \in ParseFileInfo(packet.payload) : \E stored \in FindOffset(stateFile, info) :
            /\ packet.type = "FILE_INFO"
            /\ ReceiverGoes([r EXCEPT !.info = info, !.pc = "ack",
                 !.received = IF stored < Len(OnDisk) THEN stored ELSE Len(OnDisk)])
    BY <2>1
  <2>3. PICK stored \in FindOffset(stateFile, info) :
            /\ packet.type = "FILE_INFO"
            /\ ReceiverGoes([r EXCEPT !.info = info, !.pc = "ack",
                 !.received = IF stored < Len(OnDisk) THEN stored ELSE Len(OnDisk)])
    BY <2>2
  <2>4. packet.payload = FileInfoText(Info)
    BY <2>3, PacketIsMeant DEF Meant, Ends
  <2>5. info = Info
    <3>1. ParseFileInfo(FileInfoText(Info)) = {Info}
      BY <1>t, InfoIsIdentity
    <3> QED
      BY <2>4, <3>1
  <2>6. stored \in Nat
    BY <1>f, <1>s, <2>5
  <2>7. PICK n : n = IF stored < Len(OnDisk) THEN stored ELSE Len(OnDisk)
    OBVIOUS
  <2>8. n \in Nat /\ n <= Len(OnDisk)
    BY <1>d, <2>6, <2>7
  <2>9. /\ r' = [pc |-> "ack", info |-> Info, received |-> n, hash |-> r.hash,
                 position |-> r.position]
        /\ disk' = disk /\ stateFile' = stateFile
    BY <1>f, <2>3, <2>5, <2>7 DEF ReceiverGoes, Step
  <2>10. ReceiverKnows' /\ "ack" \in ReceiverPoints
    BY <2>8, <2>9 DEF ReceiverKnows, ReceiverPoints, OnDisk
  <2> QED
    BY <1>f, <1>p, <2>8, <2>9, <2>10
<1>5. CASE SendAck
  <2>1. /\ r' = [pc |-> "open", info |-> Info, received |-> r.received, hash |-> r.hash,
                 position |-> r.position]
        /\ disk' = disk /\ stateFile' = stateFile
    BY <1>5, <1>f DEF SendAck, ReceiverGoes, Step
  <2>2. r.received <= Len(OnDisk)
    BY <1>5, <1>t DEF SendAck, ReceiverKnows
  <2>3. ReceiverKnows' /\ "open" \in ReceiverPoints
    BY <2>1, <2>2 DEF ReceiverKnows, ReceiverPoints, OnDisk
  <2> QED
    BY <1>f, <1>p, <2>1, <2>3
<1>6. CASE OpenOutput
  <2>1. /\ r' = [pc |-> "data", info |-> Info, received |-> r.received, hash |-> r.hash,
                 position |-> r.position]
        /\ disk' = SubSeq(OnDisk, 1, r.received) /\ stateFile' = stateFile
    BY <1>6, <1>f DEF OpenOutput, Step
  <2>2. r.received \in 0..Len(OnDisk)
    BY <1>6, <1>d, <1>f, <1>t DEF OpenOutput, ReceiverKnows
  <2>3. disk' \in Seq(Byte)
    BY <1>d, <2>1, <2>2, CutIsTyped
  <2>4. ReceiverKnows' /\ "data" \in ReceiverPoints
    BY <2>1, <2>3 DEF ReceiverKnows, ReceiverPoints
  <2> QED
    BY <1>f, <1>p, <2>1, <2>3, <2>4
<1>7. CASE ReadData
  <2>1. PICK packet \in Packets("receiver") :
          /\ packet.type = "DATA" /\ r.received + Len(packet.payload) <= r.info.size
          /\ disk' = disk \o packet.payload
          /\ Step([r EXCEPT !.received = @ + Len(packet.payload), !.pc = "record"])
    BY <1>7 DEF ReadData
  <2>2. PICK bytes : bytes = packet.payload
    OBVIOUS
  <2>3. bytes \in Seq(Byte)
    BY <2>1, <2>2, PacketIsMeant DEF Meant, Ends
  <2>4. disk \in Seq(Byte)
    BY <1>7, <1>t DEF ReadData, ReceiverKnows
  <2>5. disk' \in Seq(Byte)
    BY <2>1, <2>2, <2>3, <2>4, Joined
  <2>6. r.received + Len(bytes) \in Nat
    BY <1>f, <2>3, LenProperties
  <2>7. /\ r' = [pc |-> "record", info |-> Info, received |-> r.received + Len(bytes),
                 hash |-> r.hash, position |-> r.position]
        /\ stateFile' = stateFile
    BY <1>7, <1>f, <2>1, <2>2 DEF ReadData, Step
  <2>8. ReceiverKnows' /\ "record" \in ReceiverPoints
    BY <2>5, <2>7 DEF ReceiverKnows, ReceiverPoints
  <2> QED
    BY <1>f, <1>p, <2>5, <2>6, <2>7, <2>8
<1>8. CASE RecordOffset
  <2>1. /\ r' = [pc |-> "data", info |-> Info, received |-> r.received, hash |-> r.hash,
                 position |-> r.position]
        /\ disk' = disk /\ stateFile' \in UpdateOffset(stateFile, r.info, r.received)
    BY <1>8, <1>f DEF RecordOffset, Step
  <2>2. disk \in Seq(Byte)
    BY <1>8, <1>t DEF RecordOffset, ReceiverKnows
  <2>3. stateFile' \in Seq(TextCell)
    BY <1>f, <1>s, <2>1
  <2>4. ReceiverKnows' /\ "data" \in ReceiverPoints
    BY <2>1, <2>2 DEF ReceiverKnows, ReceiverPoints
  <2> QED
    BY <1>f, <1>p, <2>1, <2>3, <2>4
<1>9. CASE ReadFileEnd
  <2>1. /\ r' = [pc |-> "hash", info |-> Info, received |-> r.received, hash |-> NewHash,
                 position |-> 0]
        /\ disk' = disk /\ stateFile' = stateFile
    BY <1>9, <1>f DEF ReadFileEnd, ReceiverGoes, Step
  <2>2. disk \in Seq(Byte)
    BY <1>9, <1>t DEF ReadFileEnd, ReceiverKnows
  <2>3. Holds(NewHash, SubSeq(disk, 1, 0)) /\ 0 <= Len(disk)
    <3>1. SubSeq(disk, 1, 0) = <<>> /\ Len(disk) \in Nat
      BY <2>2, WholeFile
    <3>2. Holds(NewHash, SubSeq(disk, 1, 0))
      BY <3>1, NewHashHolds, Zenon
    <3> QED
      BY <3>1, <3>2
  <2>4. ReceiverKnows' /\ "hash" \in ReceiverPoints
    BY <2>1, <2>2, <2>3 DEF ReceiverKnows, ReceiverPoints
  <2> QED
    BY <1>f, <1>p, <2>1, <2>4, NewHashIsTyped
<1>10. CASE ReceiverHashes
  <2>1. PICK bytes : bytes = Chunk(disk, r.position, HashChunk)
    OBVIOUS
  <2>2. PICK pc : pc = IF Len(bytes) < HashChunk THEN "compare" ELSE "hash"
    OBVIOUS
  <2>3. /\ r' = [pc |-> pc, info |-> Info, received |-> r.received,
                 hash |-> Update(r.hash, bytes), position |-> r.position + Len(bytes)]
        /\ disk' = disk /\ stateFile' = stateFile
    BY <1>10, <1>f, <2>1, <2>2 DEF ReceiverHashes, ReceiverGoes, Step
  <2>4. /\ disk \in Seq(Byte) /\ r.position <= Len(disk)
        /\ Holds(r.hash, SubSeq(disk, 1, r.position))
    BY <1>10, <1>t DEF ReceiverHashes, ReceiverKnows
  <2>5. /\ r.position + Len(bytes) \in 0..Len(disk)
        /\ Holds(Update(r.hash, bytes), SubSeq(disk, 1, r.position + Len(bytes)))
        /\ Update(r.hash, bytes) \in HashState
        /\ Len(bytes) < HashChunk => r.position + Len(bytes) = Len(disk)
    <3>1. HashChunk \in Nat \ {0} /\ r.position \in 0..Len(disk)
      BY <1>f, <2>4, ExchangeAssumption, LenProperties
    <3> QED
      BY <2>1, <2>4, <3>1, ChunkIsAdded
  <2>6. pc = "compare" => Holds(Update(r.hash, bytes), disk)
    BY <2>2, <2>4, <2>5, WholeFile
  <2>7. ReceiverKnows'
    BY <2>2, <2>3, <2>4, <2>5, <2>6 DEF ReceiverKnows
  <2>8. pc \in ReceiverPoints
    BY <2>2 DEF ReceiverPoints
  <2> QED
    BY <1>f, <1>p, <2>3, <2>5, <2>7, <2>8
<1>11. CASE Accept
  <2>1. /\ r' = [pc |-> "accepted", info |-> Info, received |-> r.received, hash |-> r.hash,
                 position |-> r.position]
        /\ disk' = disk /\ stateFile' \in Clear(stateFile, r.info)
    BY <1>11, <1>f DEF Accept, Step
  <2>2. disk = content /\ disk \in Seq(Byte)
    BY <1>11, <1>t, AgreementIsContent DEF Accept, ReceiverKnows
  <2>3. stateFile' \in Seq(TextCell)
    BY <1>f, <1>s, <2>1
  <2>4. ReceiverKnows' /\ "accepted" \in ReceiverPoints
    BY <1>c, <2>1, <2>2 DEF ReceiverKnows, ReceiverPoints
  <2> QED
    BY <1>f, <1>p, <2>1, <2>3, <2>4
<1> QED
  BY <1>1, <1>2, <1>3, <1>4, <1>5, <1>6, <1>7, <1>8, <1>9, <1>10, <1>11 DEF ReceiverStep

\* What holds of one end, of its locals and its files, still holds after a step
\* of the other.
LEMMA OthersKeep ==
  ASSUME ExchangeInv, name' = name, content' = content
  PROVE  /\ s' = s => SenderTyped' /\ SenderKnows'
         /\ r' = r /\ disk' = disk /\ stateFile' = stateFile =>
              ReceiverTyped' /\ FilesTyped' /\ ReceiverKnows'
<1>1. Info' = Info
  BY DEF Info, InfoOf
<1>2. ASSUME s' = s PROVE SenderTyped' /\ SenderKnows'
  BY <1>2 DEF ExchangeInv, ExchangeTypeOK, SenderTyped, SenderKnows
<1>3. ASSUME r' = r, disk' = disk, stateFile' = stateFile
      PROVE  ReceiverTyped' /\ FilesTyped' /\ ReceiverKnows'
  <2>1. ReceiverTyped' /\ FilesTyped'
    BY <1>1, <1>3 DEF ExchangeInv, ExchangeTypeOK, ReceiverTyped, FilesTyped
  <2>2. OnDisk' = OnDisk
    BY <1>3 DEF OnDisk
  <2>3. ReceiverKnows'
    BY <1>3, <2>2 DEF ExchangeInv, ReceiverKnows
  <2> QED
    BY <2>1, <2>3
<1> QED
  BY <1>2, <1>3

\* The state file at first, with the record of the other file.
LEMMA InitialState ==
  /\ OtherRecord \in StoredRecord
  /\ Saved(<<OtherRecord>>) \in Seq(TextCell)
<1>1. /\ OtherName \in Seq(TextCell) /\ Len(OtherContent) \in Nat
      /\ <<Digest(Padded(OtherContent))>> \in Seq(TextCell)
  <2>1. OtherContent \in Seq(Byte) /\ OtherName \in Seq(Char)
    BY ExchangeAssumption
  <2>2. Padded(OtherContent) \in Seq(HashCell) /\ Len(OtherContent) \in Nat
    BY <2>1, PaddedIs
  <2>3. Digest(Padded(OtherContent)) \in TextCell
    <3>1. Digest(Padded(OtherContent)) \in {"digest"} \X Seq(HashCell)
      BY <2>2 DEF Digest
    <3> QED
      BY <3>1 DEF TextCell, StringCell
  <2>4. Char \subseteq TextCell
    BY DEF TextCell, StringCell
  <2> QED
    BY <2>1, <2>2, <2>3, <2>4
<1>2. OtherRecord \in StoredRecord
  BY <1>1 DEF OtherRecord, OtherInfo, InfoOf, StoredRecord, StoredInfo
<1>3. <<OtherRecord>> \in Seq(StoredRecord)
  BY <1>2
<1> QED
  BY <1>2, <1>3, SavedIs

LEMMA ExchangeStart == ExchangeInit => ExchangeInv
<1> SUFFICES ASSUME ExchangeInit PROVE ExchangeInv
  OBVIOUS
<1>0. name \in Names /\ content \in Contents /\ StreamInit
      /\ s = [pc |-> "idle", hash |-> NewHash, position |-> 0, digest |-> <<>>]
      /\ r = [pc |-> "idle", info |-> Info, received |-> 0, hash |-> NewHash, position |-> 0]
      /\ disk = Absent /\ stateFile = Saved(<<OtherRecord>>)
  BY DEF ExchangeInit, IdleSender, IdleReceiver
<1>1. ChannelInv
  BY <1>0, ChannelStart
<1>2. SenderTyped /\ ReceiverTyped /\ FilesTyped
  <2>1. SenderTyped
    BY <1>0, NewHashIsTyped DEF SenderTyped, SenderPoints
  <2>2. ReceiverTyped
    BY <1>0, NewHashIsTyped DEF ReceiverTyped, ReceiverPoints
  <2>3. FilesTyped
    BY <1>0, InitialState DEF FilesTyped
  <2> QED
    BY <2>1, <2>2, <2>3
<1>3. SenderKnows
  <2>1. Len(content) \in Nat
    BY <1>0, InfoIsIdentity
  <2> QED
    BY <1>0, <2>1 DEF SenderKnows
<1>4. ReceiverKnows
  BY <1>0 DEF ReceiverKnows
<1>5. PacketsMeant
  BY <1>0 DEF StreamInit, Nothing, PacketsMeant
<1> QED
  BY <1>0, <1>1, <1>2, <1>3, <1>4, <1>5 DEF ExchangeInv, ExchangeTypeOK

LEMMA ExchangeStep == ExchangeInv /\ [ExchangeNext]_exchangeVars => ExchangeInv'
<1> SUFFICES ASSUME ExchangeInv, ExchangeNext \/ UNCHANGED exchangeVars PROVE ExchangeInv'
  OBVIOUS
<1>1. MeantNext
  BY StreamPart
<1>2. ChannelInv'
  <2>1. ChannelInv
    BY DEF ExchangeInv
  <2> QED
    BY <1>1, <2>1, MeantIsStream, ChannelStep
<1>3. /\ name' = name /\ content' = content
      /\ SenderTyped' /\ SenderKnows' /\ ReceiverTyped' /\ FilesTyped' /\ ReceiverKnows'
  <2>1. CASE SenderStep
    <3>1. SenderTyped' /\ SenderKnows' /\ name' = name /\ content' = content
      BY <2>1, SenderKeeps
    <3>2. r' = r /\ disk' = disk /\ stateFile' = stateFile
      BY <2>1 DEF SenderStep, SendHello, SenderHashes, Announce, ReadAck, SendData, SendFileEnd,
                  SenderLeaves, SenderGoes
    <3> QED
      BY <3>1, <3>2, OthersKeep
  <2>2. CASE ReceiverStep \/ KillReceiver
    <3>1. /\ ReceiverTyped' /\ FilesTyped' /\ ReceiverKnows'
          /\ name' = name /\ content' = content
      BY <2>2, ReceiverKeeps
    <3>2. s' = s
      BY <2>2 DEF ReceiverStep, ReadHello, ReadInfo, SendAck, OpenOutput, ReadData, RecordOffset,
                  ReadFileEnd, ReceiverHashes, Accept, ReceiverLeaves, ReceiverGoes, Step,
                  KillReceiver
    <3> QED
      BY <3>1, <3>2, OthersKeep
  <2>3. CASE Begin
    BY <2>3, SenderKeeps, ReceiverKeeps
  <2>4. CASE \/ Over \/ ConnectionLost \/ UNCHANGED exchangeVars
             \/ \E e \in Ends : Transport(e) \/ Interrupted(e)
    <3>1. UNCHANGED <<name, content, s, r, disk, stateFile>>
      BY <2>4 DEF Over, ConnectionLost, exchangeVars, Transport, Interrupted
    <3> QED
      BY <3>1, OthersKeep
  <2> QED
    BY <2>1, <2>2, <2>3, <2>4 DEF ExchangeNext
<1>4. PacketsMeant'
  BY <1>1, <1>3, PacketsStayMeant
<1> QED
  BY <1>2, <1>3, <1>4 DEF ExchangeInv, ExchangeTypeOK

\* The invariant of the exchange.
THEOREM ExchangeInvariant == ExchangeSpec => []ExchangeInv
<1> QED
  BY ExchangeStart, ExchangeStep, PTL DEF ExchangeSpec

\* However the packets are cut, interrupted and sent again, each end reads what
\* the other wrote, whole, once and in order (PacketIO.cpp 11-30,
\* TcpConnection.cpp 54-97).
THEOREM ExchangeUsesChannel == ExchangeSpec => ChannelSpec
<1>1. ExchangeInit => Channel!Init
  BY DEF ExchangeInit, StreamInit, Nothing, Channel!Init
<1>2. ExchangeInv /\ [ExchangeNext]_exchangeVars => [Channel!Next]_<<sent, read>>
  BY StreamPart, MeantIsStream, ChannelImplemented DEF ExchangeInv
<1> QED
  BY <1>1, <1>2, ExchangeInvariant, PTL DEF ExchangeSpec, ChannelSpec, Channel!Spec

\* Each end's digest is that of the whole file, for every size of block and of
\* read, and for every content (Sha256.cpp 52-106, 162-191).
THEOREM DigestsAreOfContent == ExchangeSpec => []DigestIsOfContent
<1>1. ExchangeInv => DigestIsOfContent
  <2> SUFFICES ASSUME ExchangeInv PROVE DigestIsOfContent
    OBVIOUS
  <2>1. ASSUME s.pc \notin {"idle", "hello", "hash", "announce"}
        PROVE  s.digest = Padded(content)
    <3>1. s.pc \in {"ack", "stream", "end", "done"}
      BY <2>1 DEF ExchangeInv, ExchangeTypeOK, SenderTyped, SenderPoints
    <3> QED
      BY <3>1 DEF ExchangeInv, SenderKnows
  <2>2. ASSUME r.pc = "compare" PROVE FinalHex(r.hash) = Padded(disk)
    <3>1. disk \in Seq(Byte) /\ Holds(r.hash, disk)
      BY <2>2 DEF ExchangeInv, ReceiverKnows
    <3> QED
      BY <3>1, FinalHexIsPadded
  <2> QED
    BY <2>1, <2>2 DEF DigestIsOfContent
<1> QED
  BY <1>1, ExchangeInvariant, PTL

\* A file that is accepted is the one that was announced, under its own name,
\* whatever was on the disk and in the state file before, and whatever
\* interruptions there were (FileInfoCodec.cpp 89-118, Receiver.cpp 76-168).
THEOREM AcceptedFileIsAnnounced == ExchangeSpec => []AcceptedIsAnnounced
<1>1. ExchangeInv => AcceptedIsAnnounced
  BY DEF ExchangeInv, ExchangeTypeOK, ReceiverTyped, ReceiverKnows, AcceptedIsAnnounced
<1> QED
  BY <1>1, ExchangeInvariant, PTL

-----------------------------------------------------------------------------
(* The resume state file, for files that have no brace in their name. *)

PlainNames == Names \cup {OtherName} \subseteq Seq(Char \ {Open, Close})

\* What is in the state file is what is left of a text that was saved.
StateKept ==
  \E records \in Seq(PlainRecord) : \E n \in 0..Len(Saved(records)) :
    stateFile = SubSeq(Saved(records), 1, n)

\* As long as nothing was interrupted it is whole, and has the one record of the
\* other file.
Remembers(records) ==
  /\ OtherRecord \in Others(records, Info)
  /\ \A record \in Others(records, Info) : record.info = OtherInfo => record = OtherRecord
OtherStays ==
  faults = 0 => \E records \in Seq(PlainRecord) : stateFile = Saved(records) /\ Remembers(records)
StateInv == faults \in Nat /\ StateKept /\ OtherStays

\* Both files have plain identities, and they differ.
LEMMA PlainIdentities ==
  ASSUME PlainNames, name \in Names, content \in Contents
  PROVE  /\ Info \in PlainInfo /\ OtherInfo \in PlainInfo /\ Info # OtherInfo
         /\ OtherRecord \in PlainRecord /\ OtherRecord.info = OtherInfo
         /\ OtherRecord.offset = 1 /\ OtherInfo.size >= 1 /\ OtherInfo.size \in Nat
<1>1. /\ content \in Seq(Byte) /\ OtherContent \in Seq(Byte) /\ OtherContent # <<>>
      /\ name \in Seq(Char) \ {<<>>} /\ OtherName \in Seq(Char) \ {<<>>}
      /\ OtherName \notin Names \/ OtherContent \notin Contents
  BY ExchangeAssumption
<1>2. Char \ {Open, Close} \subseteq PlainCell
  BY DEF PlainCell, StringCell
<1>3. name \in Seq(PlainCell) \ {<<>>} /\ OtherName \in Seq(PlainCell) \ {<<>>}
  <2>1. name \in Seq(Char \ {Open, Close}) /\ OtherName \in Seq(Char \ {Open, Close})
    BY DEF PlainNames
  <2>2. name \in Seq(PlainCell) /\ OtherName \in Seq(PlainCell)
    BY <1>2, <2>1, SeqMonotonic
  <2> QED
    BY <1>1, <2>2
<1>4. ASSUME NEW bytes \in Seq(Byte)
      PROVE  <<Digest(Padded(bytes))>> \in Seq(PlainCell) \ {<<>>}
  <2>1. PICK d : d = Digest(Padded(bytes))
    OBVIOUS
  <2>2. d \in {"digest"} \X Seq(HashCell)
    BY <1>4, <2>1, PaddedIs DEF Digest
  <2>3. d # Open /\ d # Close
    BY <2>1 DEF Digest, Open, Close
  <2>4. d \in PlainCell
    BY <2>2, <2>3 DEF PlainCell, StringCell
  <2> QED
    BY <2>1, <2>4
<1>5. ASSUME NEW path \in Seq(PlainCell) \ {<<>>}, NEW bytes \in Seq(Byte)
      PROVE  InfoOf(path, bytes) \in PlainInfo
  <2>1. PICK hash : hash = <<Digest(Padded(bytes))>>
    OBVIOUS
  <2>2. hash \in Seq(PlainCell) \ {<<>>} /\ Len(bytes) \in Nat
    BY <1>4, <2>1, LenProperties
  <2> QED
    BY <2>1, <2>2 DEF InfoOf, PlainInfo
<1>6. Info \in PlainInfo /\ OtherInfo \in PlainInfo
  BY <1>1, <1>3, <1>5 DEF Info, OtherInfo
<1>7. Info # OtherInfo
  <2>1. CASE OtherName \notin Names
    <3>1. Info.path = name /\ OtherInfo.path = OtherName
      BY DEF Info, OtherInfo, InfoOf
    <3> QED
      BY <2>1, <3>1
  <2>2. CASE OtherContent \notin Contents
    <3>1. content # OtherContent
      BY <2>2
    <3>2. Padded(content) # Padded(OtherContent)
      BY <1>1, <3>1, PaddedIsInjective
    <3>3. Digest(Padded(content)) # Digest(Padded(OtherContent))
      BY <3>2 DEF Digest
    <3>4. /\ Info.sha256 = <<Digest(Padded(content))>>
          /\ OtherInfo.sha256 = <<Digest(Padded(OtherContent))>>
      BY DEF Info, OtherInfo, InfoOf
    <3> QED
      BY <3>3, <3>4
  <2> QED
    BY <1>1, <2>1, <2>2
<1>8. /\ OtherRecord = [info |-> OtherInfo, offset |-> 1] /\ OtherRecord.info = OtherInfo
      /\ OtherRecord.offset = 1
  BY DEF OtherRecord
<1>9. OtherRecord \in PlainRecord
  BY <1>6, <1>8 DEF PlainRecord
<1>10. OtherInfo.size >= 1 /\ OtherInfo.size \in Nat
  <2>1. OtherInfo.size = Len(OtherContent)
    BY DEF OtherInfo, InfoOf
  <2>2. Len(OtherContent) \in Nat \ {0}
    BY <1>1, EmptySeq
  <2> QED
    BY <2>1, <2>2
<1> QED
  BY <1>6, <1>7, <1>8, <1>9, <1>10

\* A state file that was saved can be read, whatever a kill left of it.
LEMMA KeptIsRead ==
  ASSUME StateKept
  PROVE  \E records \in Seq(PlainRecord) : Load(stateFile) = {records}
<1>1. PICK records \in Seq(PlainRecord) :
        \E n \in 0..Len(Saved(records)) : stateFile = SubSeq(Saved(records), 1, n)
  BY DEF StateKept
<1>2. PICK c \in 0..Len(records) : Load(stateFile) = {SubSeq(records, 1, c)}
  BY <1>1, TornStateIsRead
<1>3. SubSeq(records, 1, c) \in Seq(PlainRecord)
  <2>1. PICK K \in Nat : K = Len(records)
    BY LenProperties
  <2>2. \A i \in 1..c : records[i] \in PlainRecord
    BY <2>1, ElementOfSeq
  <2>3. 1 \in Int /\ c \in Int
    BY <2>1
  <2> QED
    BY <2>2, <2>3, SubSeqProperties
<1> QED
  BY <1>2, <1>3

\* What the receiver saves.
LEMMA TextIsSaved ==
  ASSUME PlainNames, ExchangeInv, StateInv,
         NEW text \in UpdateOffset(stateFile, r.info, r.received) \cup Clear(stateFile, r.info)
  PROVE  \E later \in Seq(PlainRecord) :
           text = Saved(later) /\ (faults = 0 => Remembers(later))
<1>1. /\ name \in Names /\ content \in Contents /\ r.info = Info /\ r.received \in Nat
  BY DEF ExchangeInv, ExchangeTypeOK, ReceiverTyped
<1>2. Info \in PlainInfo
  BY <1>1, PlainIdentities
<1>3. PICK records \in Seq(PlainRecord) : Load(stateFile) = {records}
  BY KeptIsRead DEF StateInv
<1>4. PICK later \in Seq(PlainRecord) :
        text = Saved(later) /\ Others(later, Info) = Others(records, Info)
  <2>1. CASE text \in UpdateOffset(stateFile, Info, r.received)
    <3>1. r.received <= Info.size
      <4>1. ~ (r.received > Info.size)
        BY <2>1 DEF UpdateOffset
      <4>2. Info.size \in Nat
        BY <1>2 DEF PlainInfo
      <4> QED
        BY <1>1, <4>1, <4>2
    <3>2. \E later \in Seq(PlainRecord) :
            /\ UpdateOffset(stateFile, Info, r.received) = {Saved(later)}
            /\ Others(later, Info) = Others(records, Info)
            /\ Known(later, Info) # {} /\ later[First(Known(later, Info))].offset = r.received
      <4>1. /\ r.received \in Nat /\ Info \in PlainInfo /\ records \in Seq(PlainRecord)
            /\ Load(stateFile) = {records} /\ r.received <= Info.size
        BY <1>1, <1>2, <1>3, <3>1
      <4> QED
        BY ONLY <4>1, UpdatedRecords
    <3> QED
      BY <2>1, <3>2
  <2>2. CASE text \in Clear(stateFile, Info)
    <3>1. \E later \in Seq(PlainRecord) :
            /\ Clear(stateFile, Info) = {Saved(later)}
            /\ Others(later, Info) = Others(records, Info) /\ Known(later, Info) = {}
      <4>1. records \in Seq(PlainRecord) /\ Load(stateFile) = {records}
        BY <1>3
      <4> QED
        BY ONLY <4>1, ClearedRecords
    <3> QED
      BY <2>2, <3>1
  <2> QED
    BY <1>1, <2>1, <2>2
<1>5. ASSUME faults = 0 PROVE Remembers(later)
  <2>1. PICK whole \in Seq(PlainRecord) : stateFile = Saved(whole) /\ Remembers(whole)
    BY <1>5 DEF StateInv, OtherStays
  <2>2. Load(stateFile) = {whole}
    BY <2>1, LoadOfSaved
  <2>3. whole = records
    BY <1>3, <2>2
  <2> QED
    BY <1>4, <2>1, <2>3 DEF Remembers
<1> QED
  BY <1>4, <1>5

\* A step keeps the state file a saved text, or what is left of one.
LEMMA StateStep ==
  ASSUME PlainNames, ExchangeInv, StateInv, [ExchangeNext]_exchangeVars
  PROVE  StateInv'
<1>1. name' = name /\ content' = content
  BY DEF ExchangeNext, exchangeVars, Over, Begin, SenderStep, SendHello, SenderHashes, Announce,
         ReadAck, SendData, SendFileEnd, SenderLeaves, SenderGoes, ReceiverStep, ReadHello,
         ReadInfo, SendAck, OpenOutput, ReadData, RecordOffset, ReadFileEnd, ReceiverHashes,
         Accept, ReceiverLeaves, ReceiverGoes, Step, Transport, Interrupted, ConnectionLost,
         KillReceiver
<1>2. Info' = Info
  BY <1>1 DEF Info, InfoOf
<1>3. faults' \in Nat /\ (faults' = 0 => faults = 0)
  <2>1. faults \in Nat
    BY DEF StateInv
  <2>2. faults' = faults \/ Fault
    BY DEF ExchangeNext, exchangeVars, Over, Begin, SenderStep, SendHello, SenderHashes, Announce,
           ReadAck, SendData, SendFileEnd, SenderLeaves, SenderGoes, ReceiverStep, ReadHello,
           ReadInfo, SendAck, OpenOutput, ReadData, RecordOffset, ReadFileEnd, ReceiverHashes,
           Accept, ReceiverLeaves, ReceiverGoes, Step, Transport, Interrupted, ConnectionLost,
           KillReceiver
  <2> QED
    BY <2>1, <2>2 DEF Fault
<1>4. \/ stateFile' = stateFile
      \/ stateFile' \in UpdateOffset(stateFile, r.info, r.received) \cup Clear(stateFile, r.info)
      \/ /\ Fault
         /\ \E text \in UpdateOffset(stateFile, r.info, r.received) \cup Clear(stateFile, r.info) :
              \E n \in 0..Len(text) : stateFile' = SubSeq(text, 1, n)
  <2>1. CASE KillReceiver
    BY <2>1 DEF KillReceiver, Torn
  <2>2. CASE RecordOffset
    BY <2>2 DEF RecordOffset
  <2>3. CASE Accept
    BY <2>3 DEF Accept
  <2>4. ASSUME ~ KillReceiver, ~ RecordOffset, ~ Accept PROVE stateFile' = stateFile
    BY <2>4 DEF ExchangeNext, exchangeVars, Over, Begin, SenderStep, SendHello, SenderHashes,
           Announce, ReadAck, SendData, SendFileEnd, SenderLeaves, SenderGoes, ReceiverStep,
           ReadHello, ReadInfo, SendAck, OpenOutput, ReadData, ReadFileEnd, ReceiverHashes,
           ReceiverLeaves, ReceiverGoes, Step, Transport, Interrupted, ConnectionLost
  <2> QED
    BY <2>1, <2>2, <2>3, <2>4
<1>5. \A records : Remembers(records)' <=> Remembers(records)
  BY <1>2 DEF Remembers, OtherRecord, OtherInfo
<1>6. CASE stateFile' = stateFile
  <2>1. StateKept'
    BY <1>6 DEF StateInv, StateKept
  <2>2. OtherStays'
    BY <1>3, <1>5, <1>6 DEF StateInv, OtherStays
  <2> QED
    BY <1>3, <2>1, <2>2 DEF StateInv
<1>7. ASSUME NEW text \in UpdateOffset(stateFile, r.info, r.received) \cup Clear(stateFile, r.info),
             NEW n \in 0..Len(text), stateFile' = SubSeq(text, 1, n),
             faults' = 0 => stateFile' = text
      PROVE  StateInv'
  <2>1. PICK later \in Seq(PlainRecord) :
           text = Saved(later) /\ (faults = 0 => Remembers(later))
    BY TextIsSaved
  <2>2. StateKept'
    BY <1>7, <2>1 DEF StateKept
  <2>3. OtherStays'
    BY <1>3, <1>5, <1>7, <2>1 DEF OtherStays
  <2> QED
    BY <1>3, <2>2, <2>3 DEF StateInv
<1>8. CASE stateFile' \in UpdateOffset(stateFile, r.info, r.received) \cup Clear(stateFile, r.info)
  <2>1. PICK text : text = stateFile'
    OBVIOUS
  <2>2. text \in Seq(TextCell)
    <3>1. PICK later \in Seq(PlainRecord) : text = Saved(later)
      BY <1>8, <2>1, TextIsSaved
    <3>2. later \in Seq(StoredRecord)
      BY PlainIsStored, SeqMonotonic
    <3> QED
      BY <3>1, <3>2, SavedIs
  <2>3. Len(text) \in 0..Len(text) /\ SubSeq(text, 1, Len(text)) = text
    <3>1. SubSeq(text, 1, Len(text)) = text /\ Len(text) \in Nat
      BY <2>2, SubSeqFull, LenProperties
    <3> QED
      BY <3>1
  <2> QED
    BY <1>7, <1>8, <2>1, <2>3
<1>9. CASE Fault /\ \E text \in UpdateOffset(stateFile, r.info, r.received)
                                  \cup Clear(stateFile, r.info) :
                      \E n \in 0..Len(text) : stateFile' = SubSeq(text, 1, n)
  <2>1. faults' # 0
    BY <1>9 DEF Fault, StateInv
  <2> QED
    BY <1>7, <1>9, <2>1
<1> QED
  BY <1>4, <1>6, <1>8, <1>9

LEMMA StateStart == ASSUME PlainNames PROVE ExchangeInit => StateInv
<1> SUFFICES ASSUME ExchangeInit PROVE StateInv
  OBVIOUS
<1>0. name \in Names /\ content \in Contents /\ stateFile = Saved(<<OtherRecord>>) /\ faults = 0
  BY DEF ExchangeInit
<1>1. /\ OtherRecord \in PlainRecord /\ OtherRecord.info = OtherInfo /\ Info # OtherInfo
  BY <1>0, PlainIdentities
<1>2. PICK records : records = <<OtherRecord>>
  OBVIOUS
<1>3. /\ records \in Seq(PlainRecord) /\ DOMAIN records = {1} /\ records[1] = OtherRecord
  BY <1>1, <1>2
<1>4. Saved(records) \in Seq(TextCell)
  BY <1>2, InitialState
<1>5. StateKept
  <2>1. Len(Saved(records)) \in 0..Len(Saved(records))
        /\ SubSeq(Saved(records), 1, Len(Saved(records))) = Saved(records)
    <3>1. Len(Saved(records)) \in Nat
          /\ SubSeq(Saved(records), 1, Len(Saved(records))) = Saved(records)
      BY <1>4, SubSeqFull, LenProperties
    <3> QED
      BY <3>1
  <2> QED
    BY <1>0, <1>2, <1>3, <2>1 DEF StateKept
<1>6. Remembers(records)
  <2>1. Known(records, Info) = {}
    BY <1>1, <1>3 DEF Known
  <2>2. Others(records, Info) = {OtherRecord}
    BY <1>3, <2>1 DEF Others
  <2> QED
    BY <2>2 DEF Remembers
<1> QED
  BY <1>0, <1>2, <1>3, <1>5, <1>6 DEF StateInv, OtherStays

LEMMA StateInvariant == ASSUME PlainNames PROVE ExchangeSpec => [](ExchangeInv /\ StateInv)
<1>1. ExchangeInit => StateInv
  BY StateStart
<1>2. ExchangeInv /\ StateInv /\ [ExchangeNext]_exchangeVars => StateInv'
  BY StateStep
<1> QED
  BY <1>1, <1>2, ExchangeInvariant, PTL DEF ExchangeSpec

\* Kill the receiver wherever it writes the state file, as often as you like: what
\* is left can be read, and no later receive throws because of it
\* (ResumeManager.cpp 110-168).
THEOREM StateFileStaysReadable ==
  ASSUME PlainNames
  PROVE  ExchangeSpec => []StateFileReadable
<1>1. StateInv => StateFileReadable
  BY KeptIsRead DEF StateInv, StateFileReadable
<1> QED
  BY <1>1, StateInvariant, PTL

\* Whatever is recorded, found and cleared for one file, the record of another is
\* found as it was, until a kill tears the state file (ResumeManager.cpp 184-217).
THEOREM OtherRecordStays ==
  ASSUME PlainNames
  PROVE  ExchangeSpec => []OtherRecordKept
<1>1. ExchangeInv /\ StateInv => OtherRecordKept
  <2> SUFFICES ASSUME ExchangeInv, StateInv, faults = 0
               PROVE  FindOffset(stateFile, OtherInfo) = {OtherRecord.offset}
    BY DEF OtherRecordKept
  <2>0. name \in Names /\ content \in Contents
    BY DEF ExchangeInv, ExchangeTypeOK
  <2>1. /\ Info # OtherInfo /\ OtherRecord.info = OtherInfo /\ OtherRecord.offset = 1
        /\ OtherInfo.size >= 1 /\ OtherInfo.size \in Nat
    BY <2>0, PlainIdentities
  <2>2. PICK records \in Seq(PlainRecord) : stateFile = Saved(records) /\ Remembers(records)
    BY DEF StateInv, OtherStays
  <2>3. Load(stateFile) = {records}
    BY <2>2, LoadOfSaved
  <2>4. PICK f : f = First(Known(records, OtherInfo))
    OBVIOUS
  <2>5. PICK k \in DOMAIN records : records[k] = OtherRecord
    BY <2>2 DEF Remembers, Others
  <2>6. k \in Known(records, OtherInfo)
    BY <2>1, <2>5 DEF Known
  <2>7. f \in Known(records, OtherInfo)
    <3>1. DOMAIN records \subseteq Nat
      BY LenProperties
    <3>2. Known(records, OtherInfo) \subseteq Nat
      BY <3>1 DEF Known
    <3> QED
      BY <2>4, <2>6, <3>2, Smallest
  <2>8. records[f] = OtherRecord
    <3>1. f \in DOMAIN records /\ records[f].info = OtherInfo
      BY <2>7 DEF Known
    <3>2. f \notin Known(records, Info)
      BY <2>1, <3>1 DEF Known
    <3>3. records[f] \in Others(records, Info)
      BY <3>1, <3>2 DEF Others
    <3> QED
      BY <2>2, <3>1, <3>3 DEF Remembers
  <2>9. ~ (records[f].offset > OtherInfo.size)
    BY <2>1, <2>8
  <2> QED
    BY <2>3, <2>4, <2>6, <2>8, <2>9 DEF FindOffset
<1> QED
  BY <1>1, StateInvariant, PTL

-----------------------------------------------------------------------------
(* An attempt that is not interrupted: what each end has said, where each of *)
(* them stands in it, and what of it is still to come.                      *)

Said  == Len(sent["receiver"])
Heard == Len(read["receiver"])

\* at[i] is the place in the file the sender has come to with its i-th packet.
Places == [Nat -> 0..Len(content)]
Delivers(packet, from, to) ==
  \/ /\ packet.type = "DATA" /\ from <= to
     /\ packet.payload = SubSeq(content, from + 1, to)
  \/ packet.type = "FILE_END" /\ from = Len(content) /\ to = Len(content)

\* What the ends have said on this connection.
SaidAt(at) ==
  /\ Said >= 1 =>
       sent["receiver"][1] = [type |-> "HELLO", payload |-> ManifestText(Manifest)]
  /\ Said >= 2 => sent["receiver"][2].type = "FILE_INFO"
  /\ \A i \in 3..Said : Delivers(sent["receiver"][i], at[i - 1], at[i])
  /\ \A i \in 1..(Said - 1) : sent["receiver"][i].type # "FILE_END"
  /\ Said >= 3 => sent["sender"] # <<>>
  /\ Len(sent["sender"]) <= 1
  /\ sent["sender"] # <<>> =>
       /\ Said >= 2
       /\ sent["sender"][1] = [type |-> "RESUME_ACK", payload |-> ResumeAckText(at[2])]

SenderAt(at) ==
  /\ s.pc = "idle" => ~handle["sender"]
  /\ s.pc = "hello" => Said = 0
  /\ s.pc \in {"hash", "announce"} => Said = 1
  /\ s.pc = "ack" => Said = 2
  /\ s.pc \in {"stream", "end"} =>
       /\ Said >= 2 /\ sent["sender"] # <<>>
       /\ s.position = at[Said] /\ sent["receiver"][Said].type # "FILE_END"
  /\ s.pc = "end" => s.position = Len(content)
  /\ s.pc = "done" => Said >= 3 /\ sent["receiver"][Said].type = "FILE_END"
  /\ s.pc \in {"stream", "end", "done"} => out["receiver"] = <<>>

ReceiverAt(at) ==
  /\ r.pc \in {"hello", "info", "ack"} => sent["sender"] = <<>>
  /\ r.pc \in {"open", "data", "record", "hash", "compare", "accepted"} =>
       sent["sender"] # <<>>
  /\ r.pc = "open" => r.received = at[2]
  /\ handle["receiver"] =>
       /\ r.pc = "hello" => Heard = 0
       /\ r.pc = "info" => Heard = 1
       /\ r.pc \in {"ack", "open"} => Heard = 2
       /\ r.pc \in {"data", "record"} =>
            /\ Heard >= 2 /\ sent["receiver"][Heard].type # "FILE_END"
            /\ r.received = at[Heard]

ProgressInv == \E at \in Places : SaidAt(at) /\ SenderAt(at) /\ ReceiverAt(at)

\* Whatever is on the disk is a beginning of the file.
FilesAt ==
  /\ disk # Absent => Len(disk) <= Len(content) /\ disk = SubSeq(content, 1, Len(disk))
  /\ r.pc \in {"data", "record", "hash", "compare", "accepted"} =>
       r.received <= Len(content) /\ disk = SubSeq(content, 1, r.received)
  /\ r.pc \in {"hash", "compare", "accepted"} => r.received = Len(content)

\* recv() takes no more than what is asked for.
WithinPacket == \A e \in Ends : Len(got[e]) > HeaderSize => Wanted(e) >= 0

\* All of what the peer wrote is on its way.
Whole(e) == \E start : Starts(e, start) /\ Len(Flow(e)) = start[Pending(e) + 1]

\* The sender leaves when everything is said and sent.
Calm ==
  /\ r.pc # "idle" => handle["receiver"]
  /\ s.pc # "idle" => handle["sender"]
  /\ r.pc = "idle" => s.pc = "idle"
  /\ s.pc = "idle" /\ r.pc # "idle" =>
       /\ Said >= 3 /\ sent["receiver"][Said].type = "FILE_END"
       /\ out["receiver"] = <<>> /\ Whole("receiver")

AttemptInv == ProgressInv /\ FilesAt /\ WithinPacket /\ (~disturbed => Calm)

\* RESUME_ACK is read back as the offset it carries.
LEMMA AckIsRead == ASSUME NEW n \in Nat PROVE ParseResumeAck(ResumeAckText(n)) = {n}
<1>1. PICK text : text = ResumeAckText(n)
  OBVIOUS
<1>2. /\ Len(text) = 3 + 1 /\ text[1] = Open /\ text[2] = Key("offset")
      /\ text[3] = Number(n) /\ text[4] = Close
  BY <1>1 DEF ResumeAckText
<1>3. /\ Open # Key("offset") /\ Number(n) # Key("offset")
      /\ Number(n)[1] = "number" /\ Number(n)[2] = n
  BY CellKinds
<1>4. Fields(text, "offset") = {2}
  <2>1. \A i \in 1..3 : i = 1 \/ i = 2 \/ i = 3
    OBVIOUS
  <2>2. Len(text) - 1 = 3
    BY <1>2
  <2> QED
    BY <1>2, <1>3, <2>1, <2>2 DEF Fields
<1>5. 2 + 1 = 3
  OBVIOUS
<1>6. NumberField(text, "offset") = {n}
  BY <1>2, <1>3, <1>4, <1>5 DEF NumberField
<1> QED
  BY <1>1, <1>6 DEF ParseResumeAck

\* A manifest can be read.
LEMMA ManifestIsRead ==
  ASSUME NEW m \in [files : Nat, bytes : Nat, directories : Nat]
  PROVE  ParseManifest(ManifestText(m)) # {}
<1>1. PICK text : text = ManifestText(m)
  OBVIOUS
<1>2. /\ Len(text) = 7 /\ text[2] = Key("file_count") /\ text[3] = Number(m.files)
      /\ text[4] = Key("total_bytes") /\ text[5] = Number(m.bytes)
      /\ text[6] = Key("directory_count") /\ text[7] = Number(m.directories)
  BY <1>1 DEF ManifestText
<1>3. ASSUME NEW i \in {2, 4, 6}, NEW field, NEW n, text[i] = Key(field), text[i + 1] = Number(n)
      PROVE  n \in NumberField(text, field)
  <2>1. i \in Fields(text, field)
    BY <1>2, <1>3 DEF Fields
  <2>2. text[i + 1][1] = "number" /\ text[i + 1][2] = n
    BY <1>3, CellKinds
  <2> QED
    BY <2>1, <2>2 DEF NumberField
<1>4. /\ m.files \in NumberField(text, "file_count")
      /\ m.bytes \in NumberField(text, "total_bytes")
      /\ m.directories \in NumberField(text, "directory_count")
  <2>1. 2 + 1 = 3 /\ 4 + 1 = 5 /\ 6 + 1 = 7
    OBVIOUS
  <2> QED
    BY <1>2, <1>3, <2>1
<1>5. IsPrefix(text, text)
  BY <1>2 DEF IsPrefix
<1>6. m \in [files : NumberField(text, "file_count"), bytes : NumberField(text, "total_bytes"),
             directories : NumberField(text, "directory_count")]
  BY <1>4
<1> QED
  BY <1>1, <1>5, <1>6 DEF ParseManifest

\* A part of the file is behind what stands before it.
LEMMA PartFollows ==
  ASSUME NEW bytes \in Seq(Byte), NEW from \in 0..Len(bytes), NEW to \in from..Len(bytes)
  PROVE  /\ SubSeq(bytes, 1, from) \o SubSeq(bytes, from + 1, to) = SubSeq(bytes, 1, to)
         /\ Len(SubSeq(bytes, from + 1, to)) = to - from
         /\ Len(SubSeq(bytes, 1, from)) = from
         /\ SubSeq(bytes, from + 1, to) \in Seq(Byte)
<1>1. Len(bytes) \in Nat
  OBVIOUS
<1>2. 1 \in 1..(Len(bytes) + 1) /\ from \in (1 - 1)..Len(bytes)
  BY <1>1
<1>3. SubSeq(bytes, 1, from) \o SubSeq(bytes, from + 1, to) = SubSeq(bytes, 1, to)
  BY <1>2, ConcatAdjacentSubSeq
<1> QED
  BY <1>3, CutInThree

\* What the sender reads of the file is the part from its position on.
LEMMA ChunkIsPart ==
  ASSUME NEW bytes \in Seq(Byte), NEW size \in Nat \ {0}, NEW position \in 0..Len(bytes)
  PROVE  \E to \in position..Len(bytes) :
           /\ Chunk(bytes, position, size) = SubSeq(bytes, position + 1, to)
           /\ position + Len(Chunk(bytes, position, size)) = to
           /\ Len(Chunk(bytes, position, size)) < size => to = Len(bytes)
           /\ Chunk(bytes, position, size) = <<>> => position = Len(bytes)
<1>1. PICK last : last = IF position + size < Len(bytes) THEN position + size ELSE Len(bytes)
  OBVIOUS
<1>2. Len(bytes) \in Nat /\ position \in Nat /\ last \in position..Len(bytes)
  BY <1>1, LenProperties
<1>3. Chunk(bytes, position, size) = SubSeq(bytes, position + 1, last)
  BY <1>1 DEF Chunk
<1>4. Len(SubSeq(bytes, position + 1, last)) = last - position
  BY <1>2, PartFollows
<1>5. last - position < size => last = Len(bytes)
  BY <1>1, <1>2
<1>6. SubSeq(bytes, position + 1, last) = <<>> => last = position
  BY <1>2, <1>4
<1>7. last = position => position = Len(bytes)
  BY <1>1, <1>2
<1>8. position + (last - position) = last
  BY <1>2
<1> QED
  BY <1>2, <1>3, <1>4, <1>5, <1>6, <1>7, <1>8

\* What is counted.
LEMMA ProgressTyped ==
  ASSUME ExchangeInv
  PROVE  /\ name \in Names /\ content \in Contents /\ content \in Seq(Byte)
         /\ Len(content) \in Nat
         /\ handle \in [Ends -> BOOLEAN] /\ out \in [Ends -> Seq(Cell)]
         /\ sent \in [Ends -> Seq(Packet)] /\ read \in [Ends -> Seq(Packet)]
         /\ Said \in Nat /\ Heard \in Nat /\ Heard <= Said
         /\ s.position \in 0..Len(content) /\ r.received \in Nat /\ r.info = Info
         /\ Info.size = Len(content)
         /\ s.pc \in SenderPoints /\ r.pc \in ReceiverPoints
         /\ "sender" \in Ends /\ "receiver" \in Ends
         /\ Peer("sender") = "receiver" /\ Peer("receiver") = "sender"
<1>e. /\ "sender" \in Ends /\ "receiver" \in Ends
      /\ Peer("sender") = "receiver" /\ Peer("receiver") = "sender"
  BY DEF Ends, Peer
<1>1. /\ name \in Names /\ content \in Contents /\ s.position \in Nat /\ r.received \in Nat
      /\ r.info = Info /\ s.pc \in SenderPoints /\ r.pc \in ReceiverPoints
  BY DEF ExchangeInv, ExchangeTypeOK, SenderTyped, ReceiverTyped
<1>2. content \in Seq(Byte) /\ Len(content) \in Nat
  BY <1>1, InfoIsIdentity
<1>3. s.position <= Len(content)
  BY DEF ExchangeInv, SenderKnows
<1>4. /\ handle \in [Ends -> BOOLEAN] /\ out \in [Ends -> Seq(Cell)]
      /\ sent \in [Ends -> Seq(Packet)] /\ read \in [Ends -> Seq(Packet)]
  BY DEF ExchangeInv, ChannelInv, StreamTypeOK
<1>5. PrefixRead("receiver")
  BY <1>e DEF ExchangeInv, ChannelInv, EndInv
<1>6. Said \in Nat /\ Heard \in Nat /\ Heard <= Said
  BY <1>e, <1>4, <1>5 DEF Said, Heard, PrefixRead
<1>7. Info.size = Len(content)
  BY DEF Info, InfoOf
<1> QED
  BY <1>e, <1>1, <1>2, <1>3, <1>4, <1>6, <1>7

\* What is said stays said.
LEMMA SaidStays ==
  ASSUME NEW at, SaidAt(at), sent' = sent, content' = content
  PROVE  SaidAt(at)'
<1>1. Manifest' = Manifest /\ Said' = Said
  BY DEF Manifest, Said
<1>2. \A packet, from, to : Delivers(packet, from, to)' = Delivers(packet, from, to)
  BY DEF Delivers
<1> QED
  BY <1>1, <1>2 DEF SaidAt

LEMMA SenderStays ==
  ASSUME NEW at, SenderAt(at), sent' = sent, content' = content, s' = s,
         handle'["sender"] => handle["sender"],
         out["receiver"] = <<>> => out'["receiver"] = <<>>
  PROVE  SenderAt(at)'
<1>1. Said' = Said
  BY DEF Said
<1> QED
  BY <1>1 DEF SenderAt

LEMMA ReceiverStays ==
  ASSUME NEW at, ReceiverAt(at), sent' = sent, r' = r,
         handle'["receiver"] => handle["receiver"] /\ read'["receiver"] = read["receiver"]
  PROVE  ReceiverAt(at)'
<1>1. handle'["receiver"] => handle["receiver"] /\ Heard' = Heard
  BY DEF Heard
<1> QED
  BY <1>1 DEF ReceiverAt

\* What the sender writes is added to what is said, and changes nothing of it.
LEMMA SenderWrites ==
  ASSUME ExchangeInv, NEW at, SaidAt(at), ReceiverAt(at),
         NEW at2, \A i \in 1..Said : at2[i] = at[i],
         NEW packet, WritePacket("sender", packet), content' = content, r' = r,
         Said = 0 => packet = [type |-> "HELLO", payload |-> ManifestText(Manifest)],
         Said = 1 => packet.type = "FILE_INFO",
         Said >= 2 => sent["sender"] # <<>> /\ Delivers(packet, at[Said], at2[Said + 1]),
         Said >= 1 => sent["receiver"][Said].type # "FILE_END"
  PROVE  /\ SaidAt(at2)' /\ ReceiverAt(at2)'
         /\ Said' = Said + 1 /\ sent'["receiver"][Said + 1] = packet
         /\ sent'["sender"] = sent["sender"]
         /\ handle' = handle /\ out'["receiver"] = out["receiver"]
<1>t. /\ sent \in [Ends -> Seq(Packet)] /\ out \in [Ends -> Seq(Cell)]
      /\ Said \in Nat /\ Heard \in Nat /\ Heard <= Said
      /\ "sender" \in Ends /\ "receiver" \in Ends /\ Peer("sender") = "receiver"
  BY ProgressTyped
<1>1. /\ sent' = [sent EXCEPT !["receiver"] = Append(@, packet)]
      /\ read' = read /\ handle' = handle
      /\ out' = [out EXCEPT !["sender"] = Encode(packet)]
  BY <1>t DEF WritePacket
<1>2. PICK list : list = sent["receiver"]
  OBVIOUS
<1>3. /\ list \in Seq(Packet) /\ Len(list) = Said /\ sent'["receiver"] = Append(list, packet)
      /\ sent'["sender"] = sent["sender"] /\ out'["receiver"] = out["receiver"]
  BY <1>t, <1>1, <1>2 DEF Said
<1>4. /\ Len(Append(list, packet)) = Said + 1 /\ Append(list, packet)[Said + 1] = packet
      /\ \A i \in 1..Said : Append(list, packet)[i] = list[i]
  BY <1>3
<1>5. /\ Said' = Said + 1 /\ sent'["receiver"][Said + 1] = packet
      /\ \A i \in 1..Said : sent'["receiver"][i] = sent["receiver"][i]
      /\ Heard' = Heard /\ Manifest' = Manifest
  BY <1>1, <1>2, <1>3, <1>4 DEF Said, Heard, Manifest
<1>6. \A p, from, to : Delivers(p, from, to)' = Delivers(p, from, to)
  BY DEF Delivers
<1>7. SaidAt(at2)'
  <2>1. Said' >= 1 => sent'["receiver"][1] = [type |-> "HELLO", payload |-> ManifestText(Manifest')]
    <3>1. CASE Said = 0
      BY <3>1, <1>5
    <3>2. CASE Said >= 1
      BY <3>2, <1>t, <1>5 DEF SaidAt
    <3> QED
      BY <1>t, <3>1, <3>2
  <2>2. Said' >= 2 => sent'["receiver"][2].type = "FILE_INFO"
    <3>1. CASE Said = 0
      BY <3>1, <1>5
    <3>2. CASE Said = 1
      BY <3>2, <1>t, <1>5
    <3>3. CASE Said >= 2
      BY <3>3, <1>t, <1>5 DEF SaidAt
    <3> QED
      BY <1>t, <3>1, <3>2, <3>3
  <2>3. ASSUME NEW i \in 3..Said' PROVE Delivers(sent'["receiver"][i], at2[i - 1], at2[i])
    <3>1. CASE i \in 3..Said
      <4>1. i - 1 \in 1..Said /\ i \in 1..Said
        BY <1>t, <3>1
      <4> QED
        BY <1>5, <3>1, <4>1 DEF SaidAt
    <3>2. CASE i = Said + 1
      <4>1. Said >= 2 /\ i - 1 = Said /\ Said \in 1..Said
        BY <1>t, <1>5, <2>3, <3>2
      <4> QED
        BY <1>5, <3>2, <4>1
    <3> QED
      BY <1>t, <1>5, <2>3, <3>1, <3>2
  <2>4. ASSUME NEW i \in 1..(Said' - 1) PROVE sent'["receiver"][i].type # "FILE_END"
    <3>1. i \in 1..Said /\ Said >= 1 /\ (i = Said \/ i \in 1..(Said - 1))
      BY <1>t, <1>5, <2>4
    <3> QED
      BY <1>5, <3>1 DEF SaidAt
  <2>5. /\ Said' >= 3 => sent'["sender"] # <<>>
        /\ Len(sent'["sender"]) <= 1
    BY <1>t, <1>3, <1>5 DEF SaidAt
  <2>6. sent'["sender"] # <<>> =>
          /\ Said' >= 2
          /\ sent'["sender"][1] = [type |-> "RESUME_ACK", payload |-> ResumeAckText(at2[2])]
    <3>1. sent["sender"] # <<>> => Said >= 2 /\ 2 \in 1..Said /\ at2[2] = at[2]
      BY <1>t DEF SaidAt
    <3> QED
      BY <1>t, <1>3, <1>5, <3>1 DEF SaidAt
  <2> QED
    BY <1>6, <2>1, <2>2, <2>3, <2>4, <2>5, <2>6 DEF SaidAt
<1>8. ReceiverAt(at2)'
  <2>1. r.pc = "open" => at2[2] = at[2]
    <3>1. r.pc = "open" => Said >= 2
      BY DEF ReceiverAt, SaidAt
    <3> QED
      BY <1>t, <3>1
  <2>2. Heard >= 2 => sent'["receiver"][Heard] = sent["receiver"][Heard] /\ at2[Heard] = at[Heard]
    BY <1>t, <1>5
  <2> QED
    BY <1>1, <1>3, <1>5, <2>1, <2>2 DEF ReceiverAt
<1> QED
  BY <1>1, <1>3, <1>5, <1>7, <1>8

\* The answer is all the receiver ever writes.
LEMMA AckIsAlone ==
  ASSUME ExchangeInv, NEW at \in Places, SaidAt(at), Arrived("sender")
  PROVE  /\ sent["sender"] # <<>> /\ out["receiver"] = <<>>
         /\ Packets("sender") = {[type |-> "RESUME_ACK", payload |-> ResumeAckText(at[2])]}
<1>t. /\ sent \in [Ends -> Seq(Packet)] /\ "sender" \in Ends /\ Peer("sender") = "receiver"
      /\ Peer("receiver") = "sender" /\ "receiver" \in Ends
  BY ProgressTyped
<1>c. ChannelInv
  BY DEF ExchangeInv
<1>1. PICK n, l, m, size : /\ n = Pending("sender") /\ l = Len(read["sender"])
                           /\ m = Len(sent["sender"]) /\ size = Size(Unread("sender", 1))
  OBVIOUS
<1>2. /\ handle["sender"] /\ n >= 1 /\ got["sender"] = Encode(Unread("sender", 1))
      /\ Packets("sender") = {Unread("sender", 1)}
  BY <1>t, <1>c, <1>1, ArrivedIsNext
<1>3. /\ m \in Nat /\ l \in Nat /\ n \in Nat /\ l + n = m /\ m <= 1
  BY <1>t, <1>c, <1>1, Counts DEF SaidAt
<1>4. n = 1 /\ l = 0 /\ m = 1
  BY <1>2, <1>3
<1>5. Unread("sender", 1) = sent["sender"][1] /\ Unread("sender", 1) \in Packet
  BY <1>c, <1>t, <1>1, <1>4, Counts DEF Unread
<1>6. sent["sender"] # <<>>
  <2>1. sent["sender"] \in Seq(Packet) /\ Len(sent["sender"]) = 1
    BY <1>t, <1>1, <1>4
  <2> QED
    BY <2>1, EmptySeq
<1>7. out["receiver"] = <<>>
  <2>1. PICK start : Starts("sender", start)
    BY <1>c, <1>t, <1>2 DEF ChannelInv, EndInv
  <2>2. /\ 1 + 1 = 2 /\ start[1] = 0 /\ start[2] = start[1] + size
        /\ Len(Flow("sender")) <= start[2]
    BY <1>1, <1>4, <2>1 DEF Starts
  <2>3. Len(got["sender"]) = size /\ size \in Nat
    BY <1>1, <1>2, <1>5, EncodeAt DEF Size, HeaderSize
  <2>4. FlowFacts
    BY <1>c, FlowAt DEF ChannelInv
  <2>5. PICK g, w, o : g = Len(got["sender"]) /\ w = Len(wire["sender"]) /\ o = Len(out["receiver"])
    OBVIOUS
  <2>6. /\ g \in Nat /\ w \in Nat /\ o \in Nat /\ Len(Flow("sender")) = g + w + o
        /\ out["receiver"] \in Seq(Cell)
    BY <1>t, <2>4, <2>5 DEF FlowFacts
  <2>7. o = 0
    <3>1. PICK f : f = Len(Flow("sender"))
      OBVIOUS
    <3>2. f = g + w + o /\ f <= size /\ g = size
      <4>1. f = g + w + o /\ g = size
        BY <2>3, <2>5, <2>6, <3>1
      <4>2. start[2] = size
        BY <2>2, <2>3
      <4> QED
        BY <2>2, <3>1, <4>1, <4>2
    <3>3. size \in Nat /\ w \in Nat /\ o \in Nat
      BY <2>3, <2>6
    <3> QED
      BY ONLY <3>2, <3>3
  <2> QED
    BY <2>5, <2>6, <2>7, EmptySeq
<1> QED
  BY <1>2, <1>5, <1>6, <1>7 DEF SaidAt

\* What closing an end does.
LEMMA ClosesOne ==
  ASSUME ExchangeInv, NEW e \in Ends, CloseEnd(e)
  PROVE  /\ sent' = sent /\ ~handle'[e] /\ handle'[Peer(e)] = handle[Peer(e)]
         /\ out'[e] = <<>> /\ out'[Peer(e)] = out[Peer(e)]
         /\ read'[Peer(e)] = read[Peer(e)]
         /\ wire'[Peer(e)] = wire[Peer(e)] /\ got'[Peer(e)] = got[Peer(e)]
<1>1. Peer(e) \in Ends /\ Peer(e) # e
  BY TwoEnds
<1>2. /\ handle \in [Ends -> BOOLEAN] /\ out \in [Ends -> Seq(Cell)]
      /\ wire \in [Ends -> Seq(Cell)] /\ got \in [Ends -> Seq(Cell)]
      /\ read \in [Ends -> Seq(Packet)]
  BY DEF ExchangeInv, ChannelInv, StreamTypeOK
<1>3. read'[Peer(e)] = read[Peer(e)]
  BY <1>1, <1>2 DEF CloseEnd, Returned
<1> QED
  BY <1>1, <1>2, <1>3 DEF CloseEnd

\* Each step of the sender says what follows.
LEMMA SenderProgress ==
  ASSUME ExchangeInv, ProgressInv, SenderStep
  PROVE  ProgressInv'
<1>t. /\ sent \in [Ends -> Seq(Packet)] /\ out \in [Ends -> Seq(Cell)]
      /\ content \in Seq(Byte) /\ Len(content) \in Nat
      /\ Said \in Nat /\ s.position \in 0..Len(content)
      /\ "sender" \in Ends /\ "receiver" \in Ends
      /\ Peer("sender") = "receiver" /\ Peer("receiver") = "sender"
  BY ProgressTyped
<1>s. s \in [pc : SenderPoints, hash : HashState, position : Nat, digest : Seq(HashCell)]
  BY DEF ExchangeInv, ExchangeTypeOK, SenderTyped
<1>a. PICK at \in Places : SaidAt(at) /\ SenderAt(at) /\ ReceiverAt(at)
  BY DEF ProgressInv
<1>c. content' = content /\ r' = r /\ Places' = Places
  BY DEF SenderStep, SendHello, SenderHashes, Announce, ReadAck, SendData, SendFileEnd,
         SenderLeaves, SenderGoes, Places
<1>q. ASSUME NEW at2 \in Places, SaidAt(at2)', SenderAt(at2)', ReceiverAt(at2)'
      PROVE  ProgressInv'
  BY <1>c, <1>q DEF ProgressInv
<1>1. CASE SendHello
  <2>1. Said = 0 /\ WritePacket("sender", [type |-> "HELLO", payload |-> ManifestText(Manifest)])
    BY <1>1, <1>a DEF SendHello, SenderAt
  <2>2. SaidAt(at)' /\ ReceiverAt(at)' /\ Said' = Said + 1
    BY <1>a, <1>c, <2>1, SenderWrites
  <2>3. s'.pc = "hash"
    BY <1>1, <1>s DEF SendHello, SenderGoes
  <2>4. SenderAt(at)'
    BY <2>1, <2>2, <2>3 DEF SenderAt
  <2> QED
    BY <1>a, <1>q, <2>2, <2>4
<1>2. CASE SenderHashes
  <2>1. UNCHANGED streamVars /\ s.pc = "hash" /\ s'.pc \in {"hash", "announce"}
    BY <1>2, <1>s DEF SenderHashes, SenderGoes
  <2>2. SaidAt(at)' /\ ReceiverAt(at)'
    BY <1>a, <1>c, <2>1, SaidStays, ReceiverStays DEF streamVars
  <2>3. Said' = Said /\ Said = 1
    BY <1>a, <2>1 DEF Said, streamVars, SenderAt
  <2>4. SenderAt(at)'
    BY <2>1, <2>3 DEF SenderAt
  <2> QED
    BY <1>a, <1>q, <2>2, <2>4
<1>3. CASE Announce
  <2>1. PICK packet : WritePacket("sender", packet) /\ packet.type = "FILE_INFO"
    BY <1>3 DEF Announce
  <2>2. Said = 1 /\ sent["receiver"][Said].type # "FILE_END"
    BY <1>3, <1>a DEF Announce, SenderAt, SaidAt
  <2>3. SaidAt(at)' /\ ReceiverAt(at)' /\ Said' = Said + 1
    BY <1>a, <1>c, <2>1, <2>2, SenderWrites
  <2>4. s'.pc = "ack"
    BY <1>3, <1>s DEF Announce, SenderGoes
  <2>5. SenderAt(at)'
    BY <2>2, <2>3, <2>4 DEF SenderAt
  <2> QED
    BY <1>a, <1>q, <2>3, <2>5
<1>4. CASE ReadAck
  <2>1. /\ TakePacket("sender") /\ Packets("sender") # {} /\ s.pc = "ack"
        /\ \E packet \in Packets("sender") : \E offset \in ParseResumeAck(packet.payload) :
             SenderGoes([s EXCEPT !.position = offset, !.pc = "stream"])
    BY <1>4 DEF ReadAck, TakePacket
  <2>2. Arrived("sender")
    BY <2>1 DEF Packets
  <2>3. /\ sent["sender"] # <<>> /\ out["receiver"] = <<>>
        /\ Packets("sender") = {[type |-> "RESUME_ACK", payload |-> ResumeAckText(at[2])]}
    BY <1>a, <2>2, AckIsAlone
  <2>4. at[2] \in Nat
    <3>1. at[2] \in 0..Len(content)
      BY <1>a DEF Places
    <3> QED
      BY <1>t, <3>1
  <2>5. ParseResumeAck(ResumeAckText(at[2])) = {at[2]}
    BY <2>4, AckIsRead
  <2>6. SenderGoes([s EXCEPT !.position = at[2], !.pc = "stream"])
    <3>1. PICK packet \in Packets("sender") : \E offset \in ParseResumeAck(packet.payload) :
             SenderGoes([s EXCEPT !.position = offset, !.pc = "stream"])
      BY <2>1
    <3>2. PICK offset \in ParseResumeAck(packet.payload) :
             SenderGoes([s EXCEPT !.position = offset, !.pc = "stream"])
      BY <3>1
    <3>3. packet.payload = ResumeAckText(at[2])
      BY <2>3
    <3>4. offset = at[2]
      BY <2>5, <3>3
    <3> QED
      BY <3>2, <3>4
  <2>7. s'.pc = "stream" /\ s'.position = at[2]
    BY <1>s, <2>6 DEF SenderGoes
  <2>8. /\ sent' = sent /\ out' = out /\ handle' = handle
        /\ read'["receiver"] = read["receiver"]
    <3>1. read \in [Ends -> Seq(Packet)]
      BY ProgressTyped
    <3> QED
      BY <1>t, <2>1, <3>1 DEF TakePacket, Returned
  <2>9. Said' = Said /\ Said = 2 /\ sent["receiver"][2].type = "FILE_INFO"
    BY <1>a, <2>1, <2>8 DEF Said, SenderAt, SaidAt
  <2>10. SenderAt(at)'
    BY <2>3, <2>7, <2>8, <2>9 DEF SenderAt
  <2> QED
    BY <1>a, <1>c, <1>q, <2>8, <2>10, SaidStays, ReceiverStays
<1>5. CASE SendData
  <2>1. PICK bytes : /\ bytes = Chunk(content, s.position, ChunkSize)
                     /\ WritePacket("sender", [type |-> "DATA", payload |-> bytes])
                     /\ s' = [s EXCEPT !.position = @ + Len(bytes),
                                       !.pc = IF Len(bytes) < ChunkSize THEN "end" ELSE "stream"]
    BY <1>5 DEF SendData, SenderGoes
  <2>2. PICK to \in s.position..Len(content) :
          /\ bytes = SubSeq(content, s.position + 1, to)
          /\ s.position + Len(bytes) = to
          /\ Len(bytes) < ChunkSize => to = Len(content)
    BY <1>t, <2>1, ChunkIsPart, ExchangeAssumption
  <2>3. /\ s.pc = "stream" /\ Said >= 2 /\ sent["sender"] # <<>> /\ s.position = at[Said]
        /\ sent["receiver"][Said].type # "FILE_END" /\ out["receiver"] = <<>>
    BY <1>5, <1>a DEF SendData, SenderAt
  <2>4. PICK at2 : at2 = [at EXCEPT ![Said + 1] = to]
    OBVIOUS
  <2>5. at2 \in Places /\ at2[Said + 1] = to /\ \A i \in 1..Said : at2[i] = at[i]
    <3>1. Said + 1 \in Nat /\ to \in 0..Len(content) /\ \A i \in 1..Said : i # Said + 1 /\ i \in Nat
      BY <1>t, <2>2
    <3> QED
      BY <2>4, <3>1 DEF Places
  <2>6. Delivers([type |-> "DATA", payload |-> bytes], at[Said], at2[Said + 1])
    <3>1. s.position <= to
      BY <1>t
    <3> QED
      BY <2>2, <2>3, <2>5, <3>1 DEF Delivers
  <2>7. /\ SaidAt(at2)' /\ ReceiverAt(at2)' /\ Said' = Said + 1
        /\ sent'["receiver"][Said + 1] = [type |-> "DATA", payload |-> bytes]
        /\ sent'["sender"] = sent["sender"] /\ out'["receiver"] = out["receiver"]
    <3>1. Said >= 2 => Said # 0 /\ Said # 1
      OBVIOUS
    <3> QED
      BY <1>a, <1>c, <2>1, <2>3, <2>5, <2>6, <3>1, SenderWrites
  <2>8. /\ s'.position = to /\ s'.pc \in {"stream", "end"}
        /\ s'.pc = "end" => to = Len(content)
    BY <1>s, <2>1, <2>2
  <2>9. SenderAt(at2)'
    BY <1>c, <1>t, <2>3, <2>5, <2>7, <2>8 DEF SenderAt
  <2> QED
    BY <1>q, <2>5, <2>7, <2>9
<1>6. CASE SendFileEnd
  <2>1. /\ WritePacket("sender", [type |-> "FILE_END", payload |-> <<>>])
        /\ s' = [s EXCEPT !.pc = "done"]
        /\ s.pc = "end" \/ (s.pc = "stream" /\ Chunk(content, s.position, ChunkSize) = <<>>)
    BY <1>6 DEF SendFileEnd, SenderGoes
  <2>2. s.position = Len(content)
    <3>1. Chunk(content, s.position, ChunkSize) = <<>> => s.position = Len(content)
      BY <1>t, ChunkIsPart, ExchangeAssumption
    <3> QED
      BY <1>a, <2>1, <3>1 DEF SenderAt
  <2>3. /\ Said >= 2 /\ sent["sender"] # <<>> /\ s.position = at[Said]
        /\ sent["receiver"][Said].type # "FILE_END" /\ out["receiver"] = <<>>
    BY <2>1, <1>a DEF SenderAt
  <2>4. PICK at2 : at2 = [at EXCEPT ![Said + 1] = Len(content)]
    OBVIOUS
  <2>5. at2 \in Places /\ at2[Said + 1] = Len(content) /\ \A i \in 1..Said : at2[i] = at[i]
    <3>1. Said + 1 \in Nat /\ Len(content) \in 0..Len(content)
          /\ \A i \in 1..Said : i # Said + 1 /\ i \in Nat
      BY <1>t
    <3> QED
      BY <2>4, <3>1 DEF Places
  <2>6. Delivers([type |-> "FILE_END", payload |-> <<>>], at[Said], at2[Said + 1])
    BY <2>2, <2>3, <2>5 DEF Delivers
  <2>7. /\ SaidAt(at2)' /\ ReceiverAt(at2)' /\ Said' = Said + 1
        /\ sent'["receiver"][Said + 1] = [type |-> "FILE_END", payload |-> <<>>]
        /\ out'["receiver"] = out["receiver"]
    <3>1. Said >= 2 => Said # 0 /\ Said # 1
      OBVIOUS
    <3> QED
      BY <1>a, <1>c, <2>1, <2>3, <2>5, <2>6, <3>1, SenderWrites
  <2>8. s'.pc = "done" /\ Said' >= 3
    BY <1>s, <1>t, <2>1, <2>3, <2>7
  <2>9. SenderAt(at2)'
    BY <2>3, <2>7, <2>8 DEF SenderAt
  <2> QED
    BY <1>q, <2>5, <2>7, <2>9
<1>7. CASE SenderLeaves
  <2>1. CloseEnd("sender") /\ s' = IdleSender
    BY <1>7 DEF SenderLeaves, SenderGoes
  <2>2. /\ sent' = sent /\ ~handle'["sender"] /\ handle'["receiver"] = handle["receiver"]
        /\ read'["receiver"] = read["receiver"]
    BY <1>t, <2>1, ClosesOne
  <2>3. s'.pc = "idle"
    BY <2>1 DEF IdleSender
  <2>4. SenderAt(at)'
    BY <2>2, <2>3 DEF SenderAt
  <2> QED
    BY <1>a, <1>c, <1>q, <2>2, <2>4, SaidStays, ReceiverStays
<1> QED
  BY <1>1, <1>2, <1>3, <1>4, <1>5, <1>6, <1>7 DEF SenderStep

\* A packet the receiver has is the next of what is said.
LEMMA NextIsSaid ==
  ASSUME ExchangeInv, Arrived("receiver")
  PROVE  /\ handle["receiver"] /\ Heard + 1 \in 1..Said
         /\ Packets("receiver") = {sent["receiver"][Heard + 1]}
         /\ sent["receiver"][Heard + 1] \in Packet
<1>1. ChannelInv /\ "receiver" \in Ends
  BY ProgressTyped DEF ExchangeInv
<1>2. PICK n, l, m : /\ n = Pending("receiver") /\ l = Heard /\ m = Said
  OBVIOUS
<1>3. /\ handle["receiver"] /\ n >= 1 /\ Packets("receiver") = {Unread("receiver", 1)}
  BY <1>1, <1>2, ArrivedIsNext
<1>4. m \in Nat /\ l \in Nat /\ n \in Nat /\ l + n = m
  BY <1>1, <1>2, Counts DEF Said, Heard
<1>5. Unread("receiver", 1) = sent["receiver"][Heard + 1] /\ Unread("receiver", 1) \in Packet
  BY <1>1, <1>2, <1>3, <1>4, Counts DEF Unread, Heard
<1>6. l + 1 \in 1..m
  BY <1>3, <1>4
<1> QED
  BY <1>2, <1>3, <1>5, <1>6

\* It has heard one more when it takes it.
LEMMA HearsNext ==
  ASSUME ExchangeInv, TakePacket("receiver")
  PROVE  /\ Arrived("receiver") /\ Heard' = Heard + 1
         /\ sent' = sent /\ handle' = handle /\ out' = out
<1>1. ChannelInv /\ "receiver" \in Ends
  BY ProgressTyped DEF ExchangeInv
<1>2. Packets("receiver") # {} /\ read' = Returned("receiver") /\ sent' = sent
      /\ handle' = handle /\ out' = out
  BY DEF TakePacket
<1>3. Arrived("receiver")
  BY <1>2 DEF Packets
<1>4. Len(read'["receiver"]) = Len(read["receiver"]) + 1
  BY <1>1, <1>2, ReadGrows
<1> QED
  BY <1>2, <1>3, <1>4 DEF Heard

\* Bytes the receiver gets follow those it has.
LEMMA DataFollows ==
  ASSUME ExchangeInv, NEW at \in Places, SaidAt(at), ReceiverAt(at),
         r.pc = "data", Arrived("receiver")
  PROVE  /\ Heard >= 2 /\ Heard + 1 \in 3..Said
         /\ r.received = at[Heard] /\ at[Heard] \in 0..Len(content)
         /\ at[Heard + 1] \in 0..Len(content)
         /\ Packets("receiver") = {sent["receiver"][Heard + 1]}
         /\ Delivers(sent["receiver"][Heard + 1], at[Heard], at[Heard + 1])
<1>1. /\ handle["receiver"] /\ Heard + 1 \in 1..Said
      /\ Packets("receiver") = {sent["receiver"][Heard + 1]}
  BY NextIsSaid
<1>2. Heard >= 2 /\ r.received = at[Heard]
  BY <1>1 DEF ReceiverAt
<1>3. Heard \in Nat /\ Said \in Nat
  BY ProgressTyped
<1>4. Heard + 1 \in 3..Said /\ (Heard + 1) - 1 = Heard /\ Heard + 1 \in Nat
  BY <1>1, <1>2, <1>3
<1>5. at[Heard] \in 0..Len(content) /\ at[Heard + 1] \in 0..Len(content)
  BY <1>3, <1>4 DEF Places
<1>6. Delivers(sent["receiver"][Heard + 1], at[(Heard + 1) - 1], at[Heard + 1])
  BY <1>4 DEF SaidAt
<1> QED
  BY <1>1, <1>2, <1>4, <1>5, <1>6

\* Each step of the receiver follows what is said.
LEMMA ReceiverProgress ==
  ASSUME ExchangeInv, FilesAt, ProgressInv, ReceiverStep \/ KillReceiver
  PROVE  ProgressInv'
<1>t. /\ sent \in [Ends -> Seq(Packet)] /\ out \in [Ends -> Seq(Cell)]
      /\ read \in [Ends -> Seq(Packet)]
      /\ content \in Seq(Byte) /\ Len(content) \in Nat
      /\ Said \in Nat /\ Heard \in Nat /\ Heard <= Said /\ r.received \in Nat
      /\ "sender" \in Ends /\ "receiver" \in Ends
      /\ Peer("sender") = "receiver" /\ Peer("receiver") = "sender"
  BY ProgressTyped
<1>s. r \in [pc : ReceiverPoints, info : {Info}, received : Nat, hash : HashState,
             position : Nat]
  BY DEF ExchangeInv, ExchangeTypeOK, ReceiverTyped
<1>a. PICK at \in Places : SaidAt(at) /\ SenderAt(at) /\ ReceiverAt(at)
  BY DEF ProgressInv
<1>c. content' = content /\ s' = s /\ Places' = Places
  BY DEF ReceiverStep, ReadHello, ReadInfo, SendAck, OpenOutput, ReadData, RecordOffset,
         ReadFileEnd, ReceiverHashes, Accept, ReceiverLeaves, KillReceiver, ReceiverGoes,
         Step, Places
<1>q. ASSUME NEW at2 \in Places, SaidAt(at2)', SenderAt(at2)', ReceiverAt(at2)'
      PROVE  ProgressInv'
  BY <1>c, <1>q DEF ProgressInv
<1>k. ASSUME sent' = sent, handle' = handle, out' = out, ReceiverAt(at)'
      PROVE  ProgressInv'
  <2>1. SaidAt(at)'
    BY <1>a, <1>c, <1>k, SaidStays
  <2>2. SenderAt(at)'
    BY <1>a, <1>c, <1>k, SenderStays
  <2> QED
    BY <1>a, <1>k, <1>q, <2>1, <2>2
<1>1. CASE ReadHello
  <2>1. TakePacket("receiver") /\ r.pc = "hello" /\ r'.pc = "info"
    BY <1>1, <1>s DEF ReadHello, ReceiverGoes, Step
  <2>2. Heard' = Heard + 1 /\ sent' = sent /\ handle' = handle /\ out' = out /\ Arrived("receiver")
    BY <2>1, HearsNext
  <2>3. Heard = 0 /\ sent["sender"] = <<>>
    BY <1>a, <2>1, <2>2, NextIsSaid DEF ReceiverAt
  <2>4. ReceiverAt(at)'
    BY <2>1, <2>2, <2>3 DEF ReceiverAt
  <2> QED
    BY <1>k, <2>2, <2>4
<1>2. CASE ReadInfo
  <2>1. TakePacket("receiver") /\ r.pc = "info" /\ r'.pc = "ack"
    BY <1>2, <1>s DEF ReadInfo, ReceiverGoes, Step
  <2>2. Heard' = Heard + 1 /\ sent' = sent /\ handle' = handle /\ out' = out /\ Arrived("receiver")
    BY <2>1, HearsNext
  <2>3. Heard = 1 /\ sent["sender"] = <<>>
    BY <1>a, <2>1, <2>2, NextIsSaid DEF ReceiverAt
  <2>4. ReceiverAt(at)'
    BY <2>1, <2>2, <2>3 DEF ReceiverAt
  <2> QED
    BY <1>k, <2>2, <2>4
<1>3. CASE SendAck
  <2>1. PICK packet : /\ packet = [type |-> "RESUME_ACK", payload |-> ResumeAckText(r.received)]
                      /\ WritePacket("receiver", packet)
    BY <1>3 DEF SendAck
  <2>2. r.pc = "ack" /\ r'.pc = "open" /\ r'.received = r.received /\ r.received <= Len(content)
    <3>1. r.pc = "ack" /\ r'.pc = "open" /\ r'.received = r.received
      BY <1>3, <1>s DEF SendAck, ReceiverGoes, Step
    <3>2. r.received <= Len(OnDisk)
      BY <3>1 DEF ExchangeInv, ReceiverKnows
    <3>3. OnDisk = <<>> \/ (disk # Absent /\ OnDisk = disk)
      BY DEF OnDisk
    <3>4. Len(OnDisk) \in Nat /\ Len(OnDisk) <= Len(content)
      <4>1. CASE OnDisk = <<>>
        BY <4>1, <1>t
      <4>2. CASE disk # Absent /\ OnDisk = disk
        <5>1. disk \in Seq(Byte)
          BY <4>2 DEF ExchangeInv, ExchangeTypeOK, FilesTyped
        <5> QED
          BY <4>2, <5>1, LenProperties DEF FilesAt
      <4> QED
        BY <3>3, <4>1, <4>2
    <3> QED
      BY <1>t, <3>1, <3>2, <3>4
  <2>3. /\ handle["receiver"] /\ handle' = handle /\ read' = read
        /\ out' = [out EXCEPT !["receiver"] = Encode(packet)]
        /\ sent' = [sent EXCEPT !["sender"] = Append(@, packet)]
    BY <1>t, <2>1 DEF WritePacket
  <2>4. Heard = 2 /\ sent["sender"] = <<>> /\ Said = 2
    <3>1. Heard = 2 /\ sent["sender"] = <<>>
      BY <1>a, <2>2, <2>3 DEF ReceiverAt
    <3>2. ~(Said >= 3)
      BY <1>a, <3>1 DEF SaidAt
    <3> QED
      BY <1>t, <3>1, <3>2
  <2>5. sent'["sender"] = <<packet>> /\ sent'["receiver"] = sent["receiver"]
    BY <1>t, <2>3, <2>4
  <2>6. Heard' = Heard /\ Said' = Said /\ Manifest' = Manifest
    BY <1>c, <2>3, <2>5 DEF Heard, Said, Manifest
  <2>7. PICK at2 : at2 = [at EXCEPT ![2] = r.received]
    OBVIOUS
  <2>8. at2 \in Places /\ at2[2] = r.received
    <3>1. r.received \in 0..Len(content) /\ 2 \in Nat
      BY <1>t, <2>2
    <3> QED
      BY <1>a, <2>7, <3>1 DEF Places
  <2>9. SaidAt(at2)'
    <3>1. /\ Said' = 2 /\ Said' >= 1 /\ Said' >= 2 /\ ~(Said' >= 3) /\ 3..Said' = {}
          /\ Len(sent'["sender"]) <= 1 /\ sent'["sender"] # <<>>
          /\ sent'["sender"][1] = packet
      BY <2>4, <2>5, <2>6
    <3> QED
      BY <1>a, <2>1, <2>4, <2>5, <2>6, <2>8, <3>1 DEF SaidAt
  <2>10. s.pc \notin {"stream", "end", "done"}
    BY <1>a, <2>4 DEF SenderAt
  <2>11. SenderAt(at2)'
    BY <1>a, <1>c, <2>3, <2>6, <2>10 DEF SenderAt
  <2>12. ReceiverAt(at2)'
    BY <2>2, <2>4, <2>5, <2>6, <2>8 DEF ReceiverAt
  <2> QED
    BY <1>q, <2>8, <2>9, <2>11, <2>12
<1>4. CASE OpenOutput
  <2>1. UNCHANGED streamVars /\ r.pc = "open" /\ r'.pc = "data" /\ r'.received = r.received
    BY <1>4, <1>s DEF OpenOutput, Step
  <2>2. sent' = sent /\ handle' = handle /\ out' = out /\ Heard' = Heard
    BY <2>1 DEF streamVars, Heard
  <2>3. /\ sent["sender"] # <<>> /\ r.received = at[2]
        /\ handle["receiver"] => Heard = 2 /\ sent["receiver"][2].type = "FILE_INFO"
    BY <1>a, <2>1 DEF ReceiverAt, SaidAt
  <2>4. ReceiverAt(at)'
    BY <2>1, <2>2, <2>3 DEF ReceiverAt
  <2> QED
    BY <1>k, <2>2, <2>4
<1>5. CASE ReadData
  <2>1. /\ TakePacket("receiver") /\ r.pc = "data"
        /\ \E packet \in Packets("receiver") :
             /\ packet.type = "DATA"
             /\ Step([r EXCEPT !.received = @ + Len(packet.payload), !.pc = "record"])
    BY <1>5 DEF ReadData
  <2>2. Heard' = Heard + 1 /\ sent' = sent /\ handle' = handle /\ out' = out /\ Arrived("receiver")
    BY <2>1, HearsNext
  <2>3. PICK packet : packet = sent["receiver"][Heard + 1]
    OBVIOUS
  <2>4. /\ Heard >= 2 /\ r.received = at[Heard] /\ at[Heard] \in 0..Len(content)
        /\ at[Heard + 1] \in 0..Len(content)
        /\ Packets("receiver") = {packet} /\ Delivers(packet, at[Heard], at[Heard + 1])
    BY <1>a, <2>1, <2>2, <2>3, DataFollows
  <2>5. packet.type = "DATA" /\ r' = [r EXCEPT !.received = @ + Len(packet.payload), !.pc = "record"]
    BY <2>1, <2>4 DEF Step
  <2>6. /\ at[Heard] <= at[Heard + 1]
        /\ packet.payload = SubSeq(content, at[Heard] + 1, at[Heard + 1])
    BY <2>4, <2>5 DEF Delivers
  <2>7. at[Heard] + Len(packet.payload) = at[Heard + 1]
    <3>1. PICK a, b : a = at[Heard] /\ b = at[Heard + 1]
      OBVIOUS
    <3>2. a \in 0..Len(content) /\ b \in a..Len(content)
      BY <1>t, <2>4, <2>6, <3>1
    <3>3. Len(SubSeq(content, a + 1, b)) = b - a
      BY <1>t, <3>2, PartFollows
    <3>4. Len(packet.payload) = b - a
      BY <2>6, <3>1, <3>3
    <3>5. a + (b - a) = b
      BY <1>t, <3>2
    <3> QED
      BY <3>1, <3>4, <3>5
  <2>8. r'.pc = "record" /\ r'.received = at[Heard + 1]
    BY <1>s, <2>4, <2>5, <2>7
  <2>9. ReceiverAt(at)'
    <3>1. Heard' >= 2 /\ sent'["sender"] # <<>>
      BY <1>a, <1>t, <2>1, <2>2, <2>4 DEF ReceiverAt
    <3> QED
      BY <2>2, <2>3, <2>5, <2>8, <3>1 DEF ReceiverAt
  <2> QED
    BY <1>k, <2>2, <2>9
<1>6. CASE RecordOffset
  <2>1. UNCHANGED streamVars /\ r.pc = "record" /\ r'.pc = "data" /\ r'.received = r.received
    BY <1>6, <1>s DEF RecordOffset, Step
  <2>2. sent' = sent /\ handle' = handle /\ out' = out /\ Heard' = Heard
    BY <2>1 DEF streamVars, Heard
  <2>3. ReceiverAt(at)'
    BY <1>a, <2>1, <2>2 DEF ReceiverAt
  <2> QED
    BY <1>k, <2>2, <2>3
<1>7. CASE ReadFileEnd
  <2>1. TakePacket("receiver") /\ r.pc = "data" /\ r'.pc = "hash"
    BY <1>7, <1>s DEF ReadFileEnd, ReceiverGoes, Step
  <2>2. sent' = sent /\ handle' = handle /\ out' = out
    BY <2>1, HearsNext
  <2>3. ReceiverAt(at)'
    BY <1>a, <2>1, <2>2 DEF ReceiverAt
  <2> QED
    BY <1>k, <2>2, <2>3
<1>8. CASE ReceiverHashes \/ Accept
  <2>1. /\ UNCHANGED streamVars /\ r.pc \in {"hash", "compare"}
        /\ r'.pc \in {"hash", "compare", "accepted"}
    BY <1>8, <1>s DEF ReceiverHashes, Accept, ReceiverGoes, Step
  <2>2. sent' = sent /\ handle' = handle /\ out' = out
    BY <2>1 DEF streamVars
  <2>3. ReceiverAt(at)'
    BY <1>a, <2>1, <2>2 DEF ReceiverAt
  <2> QED
    BY <1>k, <2>2, <2>3
<1>9. CASE ReceiverLeaves \/ KillReceiver
  <2>1. CloseEnd("receiver") /\ r' = IdleReceiver
    BY <1>9 DEF ReceiverLeaves, KillReceiver, ReceiverGoes, Step
  <2>2. /\ sent' = sent /\ ~handle'["receiver"] /\ handle'["sender"] = handle["sender"]
        /\ out'["receiver"] = <<>>
    BY <1>t, <2>1, ClosesOne
  <2>3. r'.pc = "idle"
    BY <2>1 DEF IdleReceiver
  <2>4. ReceiverAt(at)'
    BY <2>2, <2>3 DEF ReceiverAt
  <2>5. SaidAt(at)' /\ SenderAt(at)'
    BY <1>a, <1>c, <2>2, SaidStays, SenderStays
  <2> QED
    BY <1>a, <1>q, <2>4, <2>5
<1> QED
  BY <1>1, <1>2, <1>3, <1>4, <1>5, <1>6, <1>7, <1>8, <1>9 DEF ReceiverStep

\* Nothing is said yet on a new connection.
Fresh ==
  /\ content \in Seq(Byte) /\ sent = Nothing /\ read = Nothing /\ out = Nothing
  /\ \/ s.pc = "hello" /\ r.pc = "hello"
     \/ s.pc = "idle" /\ r.pc = "idle" /\ handle = [e \in Ends |-> FALSE]

LEMMA NothingSaid == Fresh => ProgressInv
<1> SUFFICES ASSUME Fresh PROVE ProgressInv
  OBVIOUS
<1> USE DEF Fresh
<1>1. Len(content) \in Nat
  BY LenProperties
<1>2. PICK at : at = [i \in Nat |-> 0]
  OBVIOUS
<1>3. at \in Places
  BY <1>1, <1>2 DEF Places
<1>4. /\ sent["sender"] = <<>> /\ sent["receiver"] = <<>> /\ read["receiver"] = <<>>
      /\ out["receiver"] = <<>>
  BY DEF Nothing, Ends
<1>5. Said = 0 /\ Heard = 0 /\ Len(sent["sender"]) = 0
  BY <1>4 DEF Said, Heard
<1>6. 3..Said = {} /\ 1..(Said - 1) = {}
  BY <1>5
<1>7. SaidAt(at)
  BY <1>4, <1>5, <1>6 DEF SaidAt
<1>8. s.pc = "idle" => ~handle["sender"]
  BY DEF Ends
<1>9. SenderAt(at)
  BY <1>4, <1>5, <1>8 DEF SenderAt
<1>10. ReceiverAt(at)
  BY <1>4, <1>5 DEF ReceiverAt
<1> QED
  BY <1>3, <1>7, <1>9, <1>10 DEF ProgressInv

\* Every step keeps the two ends in agreement on what is said.
LEMMA ProgressStep ==
  ASSUME ExchangeInv, FilesAt, ProgressInv, [ExchangeNext]_exchangeVars
  PROVE  ProgressInv'
<1>t. /\ handle \in [Ends -> BOOLEAN] /\ out \in [Ends -> Seq(Cell)]
      /\ read \in [Ends -> Seq(Packet)] /\ content \in Seq(Byte)
      /\ "sender" \in Ends /\ "receiver" \in Ends
      /\ Peer("sender") = "receiver" /\ Peer("receiver") = "sender"
  BY ProgressTyped
<1>a. PICK at \in Places : SaidAt(at) /\ SenderAt(at) /\ ReceiverAt(at)
  BY DEF ProgressInv
\* What only moves or loses packets leaves the ends where they are.
<1>k. ASSUME content' = content, s' = s, r' = r, sent' = sent,
             handle'["sender"] => handle["sender"],
             out["receiver"] = <<>> => out'["receiver"] = <<>>,
             handle'["receiver"] => handle["receiver"] /\ read'["receiver"] = read["receiver"]
      PROVE  ProgressInv'
  <2>1. Places' = Places
    BY <1>k DEF Places
  <2>2. SaidAt(at)'
    BY <1>a, <1>k, SaidStays
  <2>3. SenderAt(at)'
    BY <1>a, <1>k, SenderStays
  <2>4. ReceiverAt(at)'
    BY <1>a, <1>k, ReceiverStays
  <2> QED
    BY <1>a, <2>1, <2>2, <2>3, <2>4 DEF ProgressInv
<1>1. CASE Begin
  <2>1. /\ sent' = Nothing /\ read' = Nothing /\ out' = Nothing /\ content' = content
        /\ s'.pc = "hello" /\ r'.pc = "hello"
    BY <1>1 DEF Begin, Connected, IdleSender, IdleReceiver
  <2>2. Fresh'
    BY <1>t, <2>1 DEF Fresh
  <2> QED
    BY <2>2, NothingSaid, PTL
<1>2. CASE SenderStep
  BY <1>2, SenderProgress
<1>3. CASE ReceiverStep \/ KillReceiver
  BY <1>3, ReceiverProgress
<1>4. ASSUME NEW e \in Ends, Transport(e) PROVE ProgressInv'
  <2>1. /\ content' = content /\ s' = s /\ r' = r /\ sent' = sent /\ handle' = handle
        /\ read' = read
    BY <1>4 DEF Transport, SendSome, RecvSome
  <2>2. out["receiver"] = <<>> => out'["receiver"] = <<>>
    <3>1. CASE SendSome(e)
      <4>1. e # "receiver" \/ out["receiver"] # <<>>
        BY <3>1 DEF SendSome
      <4>2. e # "receiver" => out'["receiver"] = out["receiver"]
        BY <1>t, <3>1 DEF SendSome
      <4> QED
        BY <4>1, <4>2
    <3>2. CASE RecvSome(e)
      BY <3>2 DEF RecvSome
    <3> QED
      BY <1>4, <3>1, <3>2 DEF Transport
  <2> QED
    BY <1>k, <2>1, <2>2
<1>5. ASSUME NEW e \in Ends, Interrupted(e) PROVE ProgressInv'
  <2>1. CloseEnd(e) /\ content' = content /\ s' = s /\ r' = r
    BY <1>5 DEF Interrupted
  <2>2. /\ sent' = sent /\ ~handle'[e] /\ handle'[Peer(e)] = handle[Peer(e)]
        /\ out'[e] = <<>> /\ out'[Peer(e)] = out[Peer(e)] /\ read'[Peer(e)] = read[Peer(e)]
    BY <2>1, ClosesOne
  <2>3. e = "sender" \/ e = "receiver"
    BY DEF Ends
  <2> QED
    BY <1>k, <1>t, <2>1, <2>2, <2>3
<1>6. CASE ConnectionLost
  <2>1. /\ content' = content /\ s' = s /\ r' = r /\ sent' = sent
        /\ handle' = [e \in Ends |-> FALSE] /\ out' = Nothing
    BY <1>6 DEF ConnectionLost
  <2>2. ~handle'["sender"] /\ ~handle'["receiver"] /\ out'["receiver"] = <<>>
    BY <1>t, <2>1 DEF Nothing
  <2> QED
    BY <1>k, <2>1, <2>2
<1>7. CASE Over \/ UNCHANGED exchangeVars
  <2>1. UNCHANGED exchangeVars
    BY <1>7 DEF Over
  <2>2. /\ content' = content /\ s' = s /\ r' = r /\ sent' = sent /\ handle' = handle
        /\ read' = read /\ out' = out
    BY <2>1 DEF exchangeVars, streamVars
  <2> QED
    BY <1>k, <2>2
<1> QED
  BY <1>1, <1>2, <1>3, <1>4, <1>5, <1>6, <1>7 DEF ExchangeNext

\* Every step keeps a beginning of the file on the disk.
LEMMA FilesStep ==
  ASSUME ExchangeInv, FilesAt, ProgressInv, [ExchangeNext]_exchangeVars
  PROVE  FilesAt'
<1>t. /\ content \in Seq(Byte) /\ Len(content) \in Nat /\ r.received \in Nat
      /\ r.info = Info /\ Info.size = Len(content)
  BY ProgressTyped
<1>s. r \in [pc : ReceiverPoints, info : {Info}, received : Nat, hash : HashState,
             position : Nat]
  BY DEF ExchangeInv, ExchangeTypeOK, ReceiverTyped
<1>d. disk # Absent => disk \in Seq(Byte)
  BY DEF ExchangeInv, ExchangeTypeOK, FilesTyped
\* A beginning of the file that is cut, or left as it is.
<1>b. ASSUME NEW n \in 0..Len(content)
      PROVE  /\ SubSeq(content, 1, n) \in Seq(Byte) /\ Len(SubSeq(content, 1, n)) = n
             /\ \A m \in 0..n : SubSeq(SubSeq(content, 1, n), 1, m) = SubSeq(content, 1, m)
  <2>1. SubSeq(content, 1, n) \in Seq(Byte) /\ Len(SubSeq(content, 1, n)) = n
    BY <1>t, Splits
  <2>2. ASSUME NEW m \in 0..n PROVE SubSeq(SubSeq(content, 1, n), 1, m) = SubSeq(content, 1, m)
    <3>1. PICK a, b, c : /\ a = SubSeq(content, 1, n) /\ b = SubSeq(a, 1, m)
                         /\ c = SubSeq(content, 1, m)
      OBVIOUS
    <3>2. m \in Nat /\ m \in 0..Len(a) /\ m \in 0..Len(content) /\ a \in Seq(Byte)
      BY <1>t, <2>1, <3>1
    <3>3. /\ b \in Seq(Byte) /\ Len(b) = m /\ \A i \in 1..m : b[i] = a[i]
      BY <3>1, <3>2, Splits
    <3>4. /\ c \in Seq(Byte) /\ Len(c) = m /\ \A i \in 1..m : c[i] = content[i]
      BY <1>t, <3>1, <3>2, Splits
    <3>5. \A i \in 1..n : a[i] = content[i]
      BY <1>t, <3>1, Splits
    <3>6. \A i \in 1..m : i \in 1..n
      BY <1>t
    <3>7. \A i \in 1..m : b[i] = c[i]
      BY <3>3, <3>4, <3>5, <3>6
    <3>8. b = c
      BY <3>3, <3>4, <3>7, SeqEqual
    <3> QED
      BY <3>1, <3>8
  <2> QED
    BY <2>1, <2>2
<1>c. content' = content /\ Absent' = Absent
  <2>1. content' = content
    BY DEF ExchangeNext, Begin, SenderStep, SendHello, SenderHashes, Announce, ReadAck, SendData,
           SendFileEnd, SenderLeaves, SenderGoes, ReceiverStep, ReadHello, ReadInfo, SendAck,
           OpenOutput, ReadData, RecordOffset, ReadFileEnd, ReceiverHashes, Accept,
           ReceiverLeaves, KillReceiver, ReceiverGoes, Step, Transport, Interrupted,
           ConnectionLost, Over, exchangeVars
  <2> QED
    BY <2>1 DEF Absent
\* What is on the disk now, and what a step may leave there.
<1>o. \E n \in 0..Len(content) : OnDisk = SubSeq(content, 1, n)
  <2>1. CASE disk = Absent
    <3>1. OnDisk = SubSeq(content, 1, 0) /\ 0 \in 0..Len(content)
      BY <1>t, <2>1, WholeFile DEF OnDisk
    <3> QED
      BY <3>1
  <2>2. CASE disk # Absent
    <3>1. Len(disk) \in 0..Len(content) /\ OnDisk = SubSeq(content, 1, Len(disk))
      BY <1>d, <1>t, <2>2, LenProperties DEF OnDisk, FilesAt
    <3> QED
      BY <3>1
  <2> QED
    BY <2>1, <2>2
<1>h. ASSUME NEW n \in 0..Len(content), disk' = SubSeq(content, 1, n),
             r'.pc \in {"data", "record"} => r'.received = n,
             r'.pc \notin {"hash", "compare", "accepted"}
      PROVE  FilesAt'
  <2>1. Len(disk') = n
    BY <1>b, <1>h
  <2> QED
    BY <1>c, <1>h, <2>1 DEF FilesAt
<1>k. ASSUME disk' = disk,
             r'.pc \in {"data", "record", "hash", "compare", "accepted"} =>
               r.pc \in {"data", "record", "hash", "compare", "accepted"} /\ r'.received = r.received,
             r'.pc \in {"hash", "compare", "accepted"} => r.received = Len(content)
      PROVE  FilesAt'
  <2>1. disk' # Absent' => Len(disk') <= Len(content') /\ disk' = SubSeq(content', 1, Len(disk'))
    BY <1>c, <1>k DEF FilesAt
  <2> QED
    BY <1>c, <1>k, <2>1 DEF FilesAt
<1>1. CASE \/ Begin \/ ReadHello \/ ReadInfo \/ SendAck \/ ReceiverLeaves
  <2>1. disk' = disk /\ r'.pc \in {"hello", "info", "ack", "open", "idle"}
    <3>1. CASE Begin \/ ReadHello \/ SendAck \/ ReceiverLeaves
      BY <3>1, <1>s DEF Begin, ReadHello, SendAck, ReceiverLeaves, ReceiverGoes, Step, IdleReceiver
    <3>2. CASE ReadInfo
      <4>1. \E info, n : ReceiverGoes([r EXCEPT !.info = info, !.pc = "ack", !.received = n])
        BY <3>2 DEF ReadInfo
      <4> QED
        BY <4>1, <1>s DEF ReceiverGoes, Step
    <3> QED
      BY <1>1, <3>1, <3>2
  <2> QED
    BY <1>k, <2>1
<1>2. CASE RecordOffset \/ ReadFileEnd \/ ReceiverHashes \/ Accept
  <2>1. /\ disk' = disk /\ r'.received = r.received
        /\ r.pc \in {"data", "record", "hash", "compare"}
    BY <1>2, <1>s DEF RecordOffset, ReadFileEnd, ReceiverHashes, Accept, ReceiverGoes, Step
  <2>2. r'.pc \in {"hash", "compare", "accepted"} => r.received = Len(content)
    <3>1. CASE RecordOffset
      BY <3>1, <1>s DEF RecordOffset, Step
    <3>2. CASE ReadFileEnd
      BY <3>2, <1>t DEF ReadFileEnd
    <3>3. CASE ReceiverHashes \/ Accept
      BY <3>3 DEF ReceiverHashes, Accept, FilesAt
    <3> QED
      BY <1>2, <3>1, <3>2, <3>3
  <2> QED
    BY <1>k, <2>1, <2>2
<1>3. CASE OpenOutput
  <2>1. /\ r.pc = "open" /\ r'.pc = "data" /\ r'.received = r.received
        /\ disk' = SubSeq(OnDisk, 1, r.received)
    BY <1>3, <1>s DEF OpenOutput, Step
  <2>2. r.received <= Len(OnDisk)
    BY <2>1 DEF ExchangeInv, ReceiverKnows
  <2>3. PICK n \in 0..Len(content) : OnDisk = SubSeq(content, 1, n)
    BY <1>o
  <2>4. Len(OnDisk) = n
    BY <1>b, <2>3
  <2>5. r.received \in 0..n /\ r.received \in 0..Len(content)
    BY <1>t, <2>2, <2>4
  <2>6. disk' = SubSeq(content, 1, r.received)
    BY <1>b, <2>1, <2>3, <2>5
  <2> QED
    BY <1>h, <2>1, <2>5, <2>6
<1>4. CASE ReadData
  <2>1. /\ TakePacket("receiver") /\ r.pc = "data"
        /\ \E packet \in Packets("receiver") :
             /\ packet.type = "DATA" /\ disk' = disk \o packet.payload
             /\ Step([r EXCEPT !.received = @ + Len(packet.payload), !.pc = "record"])
    BY <1>4 DEF ReadData
  <2>2. PICK at \in Places : SaidAt(at) /\ ReceiverAt(at)
    BY DEF ProgressInv
  <2>3. PICK packet, a, b : packet = sent["receiver"][Heard + 1] /\ a = at[Heard] /\ b = at[Heard + 1]
    OBVIOUS
  <2>4. /\ r.received = a /\ a \in 0..Len(content) /\ b \in 0..Len(content)
        /\ Packets("receiver") = {packet} /\ Delivers(packet, a, b)
    BY <2>1, <2>2, <2>3, HearsNext, DataFollows
  <2>5. /\ packet.type = "DATA" /\ disk' = disk \o packet.payload
        /\ r' = [r EXCEPT !.received = @ + Len(packet.payload), !.pc = "record"]
    BY <2>1, <2>4 DEF Step
  <2>6. b \in a..Len(content) /\ packet.payload = SubSeq(content, a + 1, b)
    BY <1>t, <2>4, <2>5 DEF Delivers
  <2>7. disk = SubSeq(content, 1, a)
    BY <2>1, <2>4 DEF FilesAt
  <2>8. disk' = SubSeq(content, 1, b) /\ a + Len(packet.payload) = b
    <3>1. /\ SubSeq(content, 1, a) \o SubSeq(content, a + 1, b) = SubSeq(content, 1, b)
          /\ Len(SubSeq(content, a + 1, b)) = b - a
      BY <1>t, <2>4, <2>6, PartFollows
    <3>2. a + (b - a) = b
      BY <1>t, <2>4, <2>6
    <3> QED
      BY <2>5, <2>6, <2>7, <3>1, <3>2
  <2>9. r'.pc = "record" /\ r'.received = b
    BY <1>s, <2>4, <2>5, <2>8
  <2> QED
    BY <1>h, <2>4, <2>8, <2>9
<1>5. CASE KillReceiver
  <2>1. /\ r'.pc = "idle"
        /\ disk' = disk \/ (r.pc \in {"data", "record"} /\ \E n \in 0..Len(disk) : disk' = SubSeq(disk, 1, n))
    BY <1>5 DEF KillReceiver, IdleReceiver
  <2>2. CASE disk' = disk
    BY <1>k, <2>1, <2>2
  <2>3. CASE r.pc \in {"data", "record"} /\ \E n \in 0..Len(disk) : disk' = SubSeq(disk, 1, n)
    <3>1. PICK n \in 0..Len(disk) : disk' = SubSeq(disk, 1, n)
      BY <2>3
    <3>2. r.received \in 0..Len(content) /\ disk = SubSeq(content, 1, r.received)
      BY <1>t, <2>3 DEF FilesAt
    <3>3. Len(disk) = r.received
      BY <1>b, <3>2
    <3>4. n \in 0..r.received /\ n \in 0..Len(content)
      BY <1>t, <3>1, <3>2, <3>3
    <3>5. disk' = SubSeq(content, 1, n)
      BY <1>b, <3>1, <3>2, <3>4
    <3> QED
      BY <1>h, <2>1, <3>4, <3>5
  <2> QED
    BY <2>1, <2>2, <2>3
<1>6. ASSUME r' = r, disk' = disk PROVE FilesAt'
  <2>1. r'.pc \in {"hash", "compare", "accepted"} => r.received = Len(content)
    BY <1>6 DEF FilesAt
  <2> QED
    BY <1>6, <1>k, <2>1
<1>7. CASE SenderStep \/ (\E e \in Ends : Transport(e) \/ Interrupted(e)) \/ ConnectionLost
             \/ Over \/ UNCHANGED exchangeVars
  <2>1. r' = r /\ disk' = disk
    BY <1>7 DEF SenderStep, SendHello, SenderHashes, Announce, ReadAck, SendData, SendFileEnd,
                SenderLeaves, SenderGoes, Transport, Interrupted, ConnectionLost, Over,
                exchangeVars
  <2> QED
    BY <1>6, <2>1
<1> QED
  BY <1>1, <1>2, <1>3, <1>4, <1>5, <1>7 DEF ExchangeNext, ReceiverStep

\* No step takes more of a packet than there is.
LEMMA WithinStep ==
  ASSUME ExchangeInv, WithinPacket, [ExchangeNext]_exchangeVars
  PROVE  WithinPacket'
<1>c. ChannelInv
  BY DEF ExchangeInv
<1>n. [StreamNext]_streamVars
  BY StreamPart, MeantIsStream
<1>t. got \in [Ends -> Seq(Cell)]
  BY <1>c DEF ChannelInv, StreamTypeOK
<1>1. ASSUME NEW e \in Ends, got'[e] = got[e] \/ got'[e] = <<>>
      PROVE  Len(got'[e]) > HeaderSize => Wanted(e)' >= 0
  <2>1. CASE got'[e] = got[e]
    <3>1. Wanted(e)' = Wanted(e)
      BY <2>1 DEF Wanted
    <3> QED
      BY <2>1, <3>1 DEF WithinPacket
  <2>2. CASE got'[e] = <<>>
    BY <2>2 DEF HeaderSize
  <2> QED
    BY <1>1, <2>1, <2>2
<1>2. ASSUME NEW e \in Ends, RecvSome(e)
      PROVE  Len(got'[e]) > HeaderSize => Wanted(e)' >= 0
  <2>1. PICK a \in Seq(Cell) : got' = [got EXCEPT ![e] = @ \o a] /\ Len(a) <= Wanted(e)
    BY <1>c, <1>2, RecvMoves
  <2>2. PICK g : g = got[e]
    OBVIOUS
  <2>3. g \in Seq(Cell) /\ got'[e] = g \o a
    BY <1>t, <2>1, <2>2
  <2>4. /\ Len(g) \in Nat /\ Len(a) \in Nat /\ Len(g \o a) = Len(g) + Len(a)
        /\ \A i \in 1..Len(g) : (g \o a)[i] = g[i]
    BY <2>3
  <2>5. CASE Len(g) < HeaderSize
    BY <2>1, <2>2, <2>3, <2>4, <2>5 DEF Wanted, HeaderSize
  <2>6. CASE Len(g) >= HeaderSize
    <3>1. PayloadLength(got'[e]) = PayloadLength(g)
      BY <2>3, <2>4, <2>6 DEF PayloadLength, HeaderSize
    <3>2. PayloadLength(g) \in Nat
      <4>1. Pending(e) >= 1 /\ PayloadLength(g) = Len(Unread(e, 1).payload)
        BY <1>c, <2>2, <2>6, HeaderIsNext
      <4>2. Unread(e, 1) \in Packet
        BY <1>c, <4>1, Counts
      <4> QED
        BY <4>1, <4>2, EncodeAt
    <3>3. Len(a) <= HeaderSize + PayloadLength(g) - Len(g)
      BY <2>1, <2>2, <2>4, <2>6 DEF Wanted, HeaderSize
    <3>4. Wanted(e)' = HeaderSize + PayloadLength(g) - (Len(g) + Len(a))
      BY <2>3, <2>4, <2>6, <3>1 DEF Wanted, HeaderSize
    <3> QED
      BY <2>4, <3>2, <3>3, <3>4 DEF HeaderSize
  <2> QED
    BY <2>4, <2>5, <2>6 DEF HeaderSize
<1>3. ASSUME NEW e \in Ends, ~RecvSome(e)
      PROVE  got'[e] = got[e] \/ got'[e] = <<>>
  <2>1. CASE Connected \/ Lost
    BY <2>1 DEF Connected, Lost, Nothing
  <2>2. CASE UNCHANGED streamVars
    BY <2>2 DEF streamVars
  <2>3. ASSUME NEW d \in Ends, StreamStep(d) PROVE got'[e] = got[e] \/ got'[e] = <<>>
    <3>1. CASE d = e
      BY <1>3, <1>t, <2>3, <3>1 DEF StreamStep, WritePacket, SendSome, TakePacket, CloseEnd
    <3>2. CASE d # e
      BY <1>t, <2>3, <3>2 DEF StreamStep, WritePacket, SendSome, RecvSome, TakePacket, CloseEnd
    <3> QED
      BY <3>1, <3>2
  <2> QED
    BY <1>n, <2>1, <2>2, <2>3 DEF StreamNext
<1> QED
  BY <1>1, <1>2, <1>3 DEF WithinPacket

\* What is whole stays whole, until it is read and behind it.
LEMMA WholeStays ==
  ASSUME ExchangeInv, NEW e \in Ends, Whole(e),
         sent' = sent, read' = read, Flow(e)' = Flow(e)
  PROVE  Whole(e)'
<1>1. PICK start : Starts(e, start) /\ Len(Flow(e)) = start[Pending(e) + 1]
  BY DEF Whole
<1>2. Pending(e)' = Pending(e) /\ \A i : Unread(e, i)' = Unread(e, i)
  BY DEF Pending, Unread
<1>3. Starts(e, start)'
  BY <1>1, <1>2 DEF Starts
<1> QED
  BY <1>1, <1>2, <1>3 DEF Whole

LEMMA WholeIsTaken ==
  ASSUME ExchangeInv, StreamTypeOK', NEW e \in Ends, Whole(e), TakePacket(e)
  PROVE  Whole(e)'
<1>1. PICK start : Starts(e, start) /\ Len(Flow(e)) = start[Pending(e) + 1]
  BY DEF Whole
<1>2. PICK less : Starts(e, less)' /\ Len(Flow(e)') = less[Pending(e)' + 1]
  BY <1>1, TakeShifts DEF ExchangeInv
<1>3. (Pending(e) + 1)' = Pending(e)' + 1 /\ (Len(Flow(e)))' = Len(Flow(e)')
  OBVIOUS
<1> QED
  BY <1>2, <1>3 DEF Whole

\* Not below a number is above it or at it.
LEMMA AboveOrAt ==
  ASSUME NEW a \in Nat, NEW b \in Nat, a >= b
  PROVE  a > b \/ a = b
OBVIOUS

\* An end that has all of what was said and nothing of it unread has heard it all.
LEMMA NothingIsMissing ==
  ASSUME ExchangeInv, WithinPacket, Whole("receiver"), handle["receiver"],
         ~Arrived("receiver"), wire["receiver"] = <<>>, out["sender"] = <<>>
  PROVE  Heard = Said
<1>c. /\ ChannelInv /\ "receiver" \in Ends /\ Peer("receiver") = "sender"
      /\ Said \in Nat /\ Heard \in Nat /\ Heard <= Said
  BY ProgressTyped DEF ExchangeInv
<1> SUFFICES ASSUME Heard # Said PROVE FALSE
  OBVIOUS
<1>1. PICK n : n = Pending("receiver")
  OBVIOUS
<1>2. n \in Nat /\ n >= 1 /\ Unread("receiver", 1) \in Packet
  <2>1. n = Said - Heard
    BY <1>1 DEF Pending, Said, Heard
  <2>2. n \in Nat /\ n >= 1
    BY <1>c, <2>1
  <2> QED
    BY <1>c, <1>1, <2>2, Counts
<1>3. PICK size : size = Size(Unread("receiver", 1))
  OBVIOUS
<1>4. size \in Nat /\ size = HeaderSize + Len(Unread("receiver", 1).payload)
      /\ Len(Unread("receiver", 1).payload) \in Nat
  BY <1>2, <1>3, EncodeAt DEF Size, HeaderSize
<1>5. Len(got["receiver"]) = Len(Flow("receiver")) /\ Len(got["receiver"]) \in Nat
  <2>1. FlowFacts
    BY <1>c, FlowAt DEF ChannelInv
  <2>2. PICK g, w, o, f : /\ g = Len(got["receiver"]) /\ w = Len(wire["receiver"])
                          /\ o = Len(out["sender"]) /\ f = Len(Flow("receiver"))
    OBVIOUS
  <2>3. g \in Nat /\ w = 0 /\ o = 0 /\ f = g + w + o
    BY <1>c, <2>1, <2>2 DEF FlowFacts
  <2>4. f = g
    BY ONLY <2>3
  <2> QED
    BY <2>2, <2>3, <2>4
<1>6. Len(Flow("receiver")) >= size
  <2>1. PICK start : Starts("receiver", start) /\ Len(Flow("receiver")) = start[n + 1]
    BY <1>1 DEF Whole
  <2>2. /\ start \in [1..(n + 1) -> Nat] /\ start[1] = 0
        /\ \A i, j \in 1..(n + 1) : i <= j => start[i] <= start[j]
        /\ \A i \in 1..n : start[i + 1] = start[i] + Size(Unread("receiver", i))
    BY <1>1, <2>1 DEF Starts
  <2>3. 1 \in 1..n /\ 1 + 1 = 2 /\ 2 \in 1..(n + 1) /\ n + 1 \in 1..(n + 1) /\ 2 <= n + 1
    BY <1>2
  <2>4. start[2] = 0 + size
    BY <1>3, <2>2, <2>3
  <2>5. start[2] <= start[n + 1]
    BY <2>2, <2>3
  <2> QED
    BY <1>4, <2>1, <2>4, <2>5
<1>7. Len(got["receiver"]) >= HeaderSize
  BY <1>4, <1>5, <1>6 DEF HeaderSize
<1>8. PayloadLength(got["receiver"]) = Len(Unread("receiver", 1).payload)
  BY <1>c, <1>7, HeaderIsNext
<1>9. Wanted("receiver") = size - Len(got["receiver"])
  BY <1>4, <1>5, <1>7, <1>8 DEF Wanted, HeaderSize
<1>10. Wanted("receiver") <= 0
  BY <1>4, <1>5, <1>6, <1>9
<1>11. Wanted("receiver") >= 0
  <2>1. CASE Len(got["receiver"]) > HeaderSize
    BY <1>c, <2>1 DEF WithinPacket
  <2>2. CASE Len(got["receiver"]) = HeaderSize
    BY <1>4, <1>9, <2>2 DEF HeaderSize
  <2>3. PICK g \in Nat : g = Len(got["receiver"])
    BY <1>c, FlowAt DEF ChannelInv, FlowFacts
  <2>4. g > HeaderSize \/ g = HeaderSize
    <3>1. HeaderSize \in Nat /\ g >= HeaderSize
      BY <1>7, <2>3 DEF HeaderSize
    <3> QED
      BY ONLY <2>3, <3>1, AboveOrAt
  <2> QED
    BY <2>1, <2>2, <2>3, <2>4
<1>12. Wanted("receiver") = 0
  BY <1>4, <1>5, <1>9, <1>10, <1>11
<1> QED
  BY <1>7, <1>12 DEF Arrived

\* A call of the sender has nothing to throw for.
LEMMA SenderHasNoFault ==
  ASSUME ExchangeInv, ProgressInv, Calm
  PROVE  ~SenderFails
<1> SUFFICES ASSUME SenderFails PROVE FALSE
  OBVIOUS
<1>t. /\ "sender" \in Ends /\ Peer("sender") = "receiver"
      /\ content \in Seq(Byte) /\ Len(content) \in Nat
  BY ProgressTyped
<1>a. PICK at \in Places : SaidAt(at) /\ SenderAt(at) /\ ReceiverAt(at)
  BY DEF ProgressInv
<1>1. s.pc # "idle"
  BY DEF SenderFails
<1>2. handle["sender"] /\ handle["receiver"] /\ ~WriteFails("sender")
  BY <1>t, <1>1 DEF Calm, WriteFails
<1>3. s.pc = "ack" /\ (ReadFails("sender") \/ Arrived("sender"))
  BY <1>2 DEF SenderFails, Packets
<1>4. Arrived("sender")
  BY <1>2, <1>3, <1>t DEF ReadFails
<1>5. Packets("sender") = {[type |-> "RESUME_ACK", payload |-> ResumeAckText(at[2])]}
  BY <1>a, <1>4, AckIsAlone
<1>6. ~ReadFails("sender")
  BY <1>2, <1>4, <1>5, <1>t DEF ReadFails
<1>7. \A n \in ParseResumeAck(ResumeAckText(at[2])) : n > Len(content)
  <2>1. \E packet \in Packets("sender") :
          \/ packet.type # "RESUME_ACK"
          \/ \A n \in ParseResumeAck(packet.payload) : n > Len(content)
    BY <1>2, <1>6 DEF SenderFails
  <2> QED
    BY <1>5, <2>1
<1>8. at[2] \in 0..Len(content)
  BY <1>a DEF Places
<1>9. at[2] \in Nat /\ at[2] <= Len(content)
  BY <1>8, <1>t
<1>10. ParseResumeAck(ResumeAckText(at[2])) = {at[2]}
  BY <1>9, AckIsRead
<1> QED
  BY <1>7, <1>9, <1>10, <1>t

\* The records can be read, updated and cleared.
LEMMA RecordsHaveNoFault ==
  ASSUME ExchangeInv, StateInv, NEW offset \in 0..Len(content)
  PROVE  /\ Load(stateFile) # {}
         /\ UpdateOffset(stateFile, Info, offset) # {}
         /\ Clear(stateFile, Info) # {}
<1>1. PICK records \in Seq(PlainRecord) : Load(stateFile) = {records}
  BY KeptIsRead DEF StateInv
<1>2. Info \in Identity /\ Info.size = Len(content) /\ Len(content) \in Nat
  BY ProgressTyped, InfoIsIdentity
<1>3. Info.path # <<>> /\ Info.sha256 # <<>> /\ ~(offset > Info.size)
  BY <1>2 DEF Identity
<1>4. Load(stateFile) # {} /\ records \in Load(stateFile)
  BY <1>1
<1>5. Clear(stateFile, Info) # {}
  BY <1>4 DEF Clear
<1>6. UpdateOffset(stateFile, Info, offset) # {}
  BY <1>3, <1>4 DEF UpdateOffset
<1> QED
  BY <1>4, <1>5, <1>6

\* What is complete has the digest that was announced.
LEMMA CompleteAgrees ==
  ASSUME ExchangeInv, FilesAt, r.pc = "compare"
  PROVE  DigestAgrees
<1>t. content \in Seq(Byte) /\ r.info = Info
  BY ProgressTyped
<1>1. disk = content
  BY <1>t, WholeFile DEF FilesAt
<1>2. Holds(r.hash, content)
  BY <1>1 DEF ExchangeInv, ReceiverKnows
<1>3. FinalHex(r.hash) = Padded(content)
  BY <1>t, <1>2, FinalHexIsPadded
<1>4. Info.sha256 = <<Digest(Padded(content))>>
  BY DEF Info, InfoOf
<1> QED
  BY <1>t, <1>3, <1>4 DEF DigestAgrees

\* A call of the receiver has nothing to throw for.
LEMMA ReceiverHasNoFault ==
  ASSUME ExchangeInv, StateInv, ProgressInv, FilesAt, WithinPacket, Calm
  PROVE  ~ReceiverFails
<1> SUFFICES ASSUME ReceiverFails PROVE FALSE
  OBVIOUS
<1>t. /\ "sender" \in Ends /\ "receiver" \in Ends /\ Peer("receiver") = "sender"
      /\ Peer("sender") = "receiver"
      /\ content \in Seq(Byte) /\ Len(content) \in Nat /\ Said \in Nat /\ Heard \in Nat
      /\ r.info = Info /\ Info.size = Len(content) /\ r.received \in Nat
      /\ name \in Names /\ content \in Contents
  BY ProgressTyped
<1>a. PICK at \in Places : SaidAt(at) /\ SenderAt(at) /\ ReceiverAt(at)
  BY DEF ProgressInv
<1>1. r.pc # "idle"
  BY DEF ReceiverFails
<1>2. handle["receiver"]
  BY <1>1 DEF Calm
\* When the sender has left, the receiver is among its bytes or behind them.
<1>3. ASSUME ~handle["sender"]
      PROVE  /\ Said >= 3 /\ sent["receiver"][Said].type = "FILE_END"
             /\ out["receiver"] = <<>> /\ Whole("receiver")
             /\ r.pc \notin {"hello", "info", "ack"} /\ out["sender"] = <<>>
  <2>1. /\ Said >= 3 /\ sent["receiver"][Said].type = "FILE_END"
        /\ out["receiver"] = <<>> /\ Whole("receiver")
    BY <1>1, <1>3 DEF Calm
  <2>2. sent["sender"] # <<>>
    BY <1>a, <2>1 DEF SaidAt
  <2>3. r.pc \notin {"hello", "info", "ack"}
    BY <1>a, <2>2 DEF ReceiverAt
  <2>4. out["sender"] = <<>>
    BY <1>3, <1>t DEF ExchangeInv, ChannelInv, EndInv
  <2> QED
    BY <2>1, <2>3, <2>4
<1>4. ASSUME Packets("receiver") # {}
      PROVE  Packets("receiver") = {sent["receiver"][Heard + 1]} /\ Heard + 1 \in 1..Said
             /\ Arrived("receiver")
  <2>1. Arrived("receiver")
    BY <1>4 DEF Packets
  <2> QED
    BY <2>1, NextIsSaid
<1>5. ~(r.pc \in {"hello", "info", "data"} /\ ReadFails("receiver"))
  <2> SUFFICES ASSUME r.pc \in {"hello", "info", "data"}, ReadFails("receiver") PROVE FALSE
    OBVIOUS
  <2>1. ~(Arrived("receiver") /\ Packets("receiver") = {})
    BY NextIsSaid
  <2>2. ~Arrived("receiver") /\ wire["receiver"] = <<>> /\ ~handle["sender"]
    BY <1>2, <1>t, <2>1 DEF ReadFails
  <2>3. Heard = Said
    BY <1>2, <1>3, <2>2, NothingIsMissing
  <2>4. r.pc = "data"
    BY <1>3, <2>2
  <2>5. sent["receiver"][Heard].type # "FILE_END"
    BY <1>2, <1>a, <2>4 DEF ReceiverAt
  <2> QED
    BY <1>3, <2>2, <2>3, <2>5
<1>6. ~(r.pc = "hello" /\ \E packet \in Packets("receiver") :
          packet.type # "HELLO" \/ ParseManifest(packet.payload) = {})
  <2> SUFFICES ASSUME r.pc = "hello",
                      NEW packet \in Packets("receiver"),
                      packet.type # "HELLO" \/ ParseManifest(packet.payload) = {}
               PROVE  FALSE
    OBVIOUS
  <2>1. Heard = 0 /\ packet = sent["receiver"][1] /\ Said >= 1
    <3>1. Heard = 0
      BY <1>2, <1>a DEF ReceiverAt
    <3> QED
      BY <1>4, <1>t, <3>1
  <2>2. packet = [type |-> "HELLO", payload |-> ManifestText(Manifest)]
    BY <1>a, <2>1 DEF SaidAt
  <2>3. Manifest \in [files : Nat, bytes : Nat, directories : Nat]
    BY <1>t DEF Manifest
  <2> QED
    BY <2>2, <2>3, ManifestIsRead
<1>7. ~(r.pc = "info" /\ \E packet \in Packets("receiver") :
          packet.type # "FILE_INFO" \/ ParseFileInfo(packet.payload) = {} \/ Load(stateFile) = {})
  <2> SUFFICES ASSUME r.pc = "info",
                      NEW packet \in Packets("receiver"),
                      \/ packet.type # "FILE_INFO" \/ ParseFileInfo(packet.payload) = {}
                      \/ Load(stateFile) = {}
               PROVE  FALSE
    OBVIOUS
  <2>1. packet = sent["receiver"][2] /\ Said >= 2
    <3>1. Heard = 1
      BY <1>2, <1>a DEF ReceiverAt
    <3> QED
      BY <1>4, <1>t, <3>1
  <2>2. packet.type = "FILE_INFO"
    BY <1>a, <2>1 DEF SaidAt
  <2>3. packet.payload = FileInfoText(Info)
    BY <1>t, <2>2, PacketIsMeant DEF Meant
  <2>4. ParseFileInfo(packet.payload) = {Info}
    BY <1>t, <2>3, InfoIsIdentity
  <2>5. Load(stateFile) # {}
    <3>1. 0 \in 0..Len(content)
      BY <1>t
    <3> QED
      BY <3>1, RecordsHaveNoFault
  <2> QED
    BY <2>2, <2>4, <2>5
<1>8. ~(r.pc \in {"ack", "open"} /\ ~Written("receiver") /\ WriteFails("receiver"))
  BY <1>2, <1>3, <1>t DEF Written, WriteFails
<1>9. ~(r.pc = "ack" /\ WriteFails("receiver"))
  BY <1>2, <1>3, <1>t DEF WriteFails
<1>10. ASSUME r.pc = "data", NEW packet \in Packets("receiver")
       PROVE  /\ packet.type \in {"DATA", "FILE_END"}
              /\ packet.type = "DATA" => ~(r.received + Len(packet.payload) > r.info.size)
              /\ packet.type = "FILE_END" => r.received = r.info.size
  <2>1. PICK a, b : a = at[Heard] /\ b = at[Heard + 1]
    OBVIOUS
  <2>2. /\ r.received = a /\ a \in 0..Len(content) /\ b \in 0..Len(content)
        /\ Delivers(packet, a, b)
    BY <1>4, <1>10, <1>a, <2>1, DataFollows
  <2>3. CASE /\ packet.type = "DATA" /\ a <= b
             /\ packet.payload = SubSeq(content, a + 1, b)
    <3>1. b \in a..Len(content)
      BY <1>t, <2>2, <2>3
    <3>2. Len(packet.payload) = b - a
      BY <1>t, <2>2, <2>3, <3>1, PartFollows
    <3>3. a + (b - a) = b
      BY <1>t, <2>2
    <3> QED
      BY <1>t, <2>2, <2>3, <3>2, <3>3
  <2>4. CASE packet.type = "FILE_END" /\ a = Len(content)
    BY <1>t, <2>2, <2>4
  <2> QED
    BY <2>2, <2>3, <2>4 DEF Delivers
<1>11. ~(r.pc = "record" /\ UpdateOffset(stateFile, r.info, r.received) = {})
  <2> SUFFICES ASSUME r.pc = "record" PROVE UpdateOffset(stateFile, r.info, r.received) # {}
    OBVIOUS
  <2>1. r.received \in 0..Len(content)
    BY <1>t DEF FilesAt
  <2> QED
    BY <1>t, <2>1, RecordsHaveNoFault
<1>12. ~(r.pc = "compare" /\ (~DigestAgrees \/ Clear(stateFile, r.info) = {}))
  <2>1. 0 \in 0..Len(content)
    BY <1>t
  <2> QED
    BY <1>t, <2>1, CompleteAgrees, RecordsHaveNoFault
<1> QED
  BY <1>5, <1>6, <1>7, <1>8, <1>9, <1>10, <1>11, <1>12 DEF ReceiverFails

\* An attempt that goes on undisturbed stays calm.
LEMMA CalmStep ==
  ASSUME ExchangeInv, ExchangeInv', StateInv, AttemptInv, [ExchangeNext]_exchangeVars,
         ~disturbed'
  PROVE  Calm'
<1>t. /\ "sender" \in Ends /\ "receiver" \in Ends /\ Peer("receiver") = "sender"
      /\ Peer("sender") = "receiver" /\ out \in [Ends -> Seq(Cell)] /\ Said \in Nat
      /\ handle \in [Ends -> BOOLEAN]
  BY ProgressTyped
<1>y. StreamTypeOK'
  BY DEF ExchangeInv, ChannelInv
<1>1. CASE Begin
  <2>1. s'.pc = "hello" /\ r'.pc = "hello" /\ handle' = [e \in Ends |-> TRUE]
    BY <1>1 DEF Begin, IdleSender, IdleReceiver, Connected
  <2> QED
    BY <1>t, <2>1 DEF Calm
<1>2. ASSUME ~Begin PROVE ~disturbed
  <2>1. ~Fault
    BY DEF Fault
  <2>2. disturbed' = disturbed
    BY <1>2, <2>1 DEF ExchangeNext, SenderStep, SendHello, SenderHashes, Announce, ReadAck,
           SendData, SendFileEnd, SenderLeaves, SenderGoes, ReceiverStep, ReadHello, ReadInfo,
           SendAck, OpenOutput, ReadData, RecordOffset, ReadFileEnd, ReceiverHashes, Accept,
           ReceiverLeaves, KillReceiver, ReceiverGoes, Step, Transport, Interrupted,
           ConnectionLost, Over, exchangeVars
  <2> QED
    BY <2>2
<1> SUFFICES ASSUME ~Begin PROVE Calm'
  BY <1>1
<1>3. Calm /\ ~SenderFails /\ ~ReceiverFails
  BY <1>2, SenderHasNoFault, ReceiverHasNoFault DEF AttemptInv
<1>a. PICK at \in Places : SaidAt(at) /\ SenderAt(at) /\ ReceiverAt(at)
  BY DEF AttemptInv, ProgressInv
\* Nothing changes of what the sender has left behind.
<1>k. ASSUME s' = s, handle' = handle, r.pc # "idle", r'.pc # "idle", sent' = sent,
             s.pc = "idle" => (out'["receiver"] = out["receiver"] /\ Whole("receiver")')
      PROVE  Calm'
  <2>1. Said' = Said
    BY <1>k DEF Said
  <2> QED
    BY <1>3, <1>k, <2>1 DEF Calm
<1>m. ASSUME handle' = handle, r' = r, s.pc # "idle", s'.pc # "idle"
      PROVE  Calm'
  BY <1>3, <1>m DEF Calm
<1>s. s \in [pc : SenderPoints, hash : HashState, position : Nat, digest : Seq(HashCell)]
  BY DEF ExchangeInv, ExchangeTypeOK, SenderTyped
<1>r. r \in [pc : ReceiverPoints, info : {Info}, received : Nat, hash : HashState,
             position : Nat]
  BY DEF ExchangeInv, ExchangeTypeOK, ReceiverTyped
<1>4. CASE \/ SendHello \/ SenderHashes \/ Announce \/ ReadAck \/ SendData \/ SendFileEnd
  <2>1. handle' = handle /\ r' = r
    BY <1>4 DEF SendHello, SenderHashes, Announce, ReadAck, SendData, SendFileEnd, SenderGoes,
                WritePacket, TakePacket, streamVars
  <2>2. s.pc # "idle"
    BY <1>4 DEF SendHello, SenderHashes, Announce, ReadAck, SendData, SendFileEnd
  <2>3. s'.pc # "idle"
    <3>1. CASE SendHello \/ SenderHashes \/ Announce \/ SendData \/ SendFileEnd
      BY <3>1, <1>s DEF SendHello, SenderHashes, Announce, SendData, SendFileEnd, SenderGoes
    <3>2. CASE ReadAck
      <4>1. \E offset : SenderGoes([s EXCEPT !.position = offset, !.pc = "stream"])
        BY <3>2 DEF ReadAck
      <4> QED
        BY <4>1, <1>s DEF SenderGoes
    <3> QED
      BY <1>4, <3>1, <3>2
  <2> QED
    BY <1>m, <2>1, <2>2, <2>3
<1>5. CASE SenderLeaves
  <2>1. /\ s.pc = "done" /\ out["sender"] = <<>> /\ CloseEnd("sender") /\ s' = IdleSender
        /\ r' = r
    BY <1>3, <1>5 DEF SenderLeaves, SenderGoes, Written
  <2>2. s'.pc = "idle" /\ r'.pc # "idle" /\ r.pc # "idle" /\ handle["receiver"] /\ handle["sender"]
    BY <1>3, <2>1 DEF Calm, IdleSender
  <2>3. /\ sent' = sent /\ handle'["receiver"] = handle["receiver"]
        /\ out'["sender"] = <<>> /\ out'["receiver"] = out["receiver"]
        /\ read'["receiver"] = read["receiver"]
        /\ wire'["receiver"] = wire["receiver"] /\ got'["receiver"] = got["receiver"]
    BY <1>t, <2>1, ClosesOne
  <2>4. /\ Said >= 3 /\ sent["receiver"][Said].type = "FILE_END" /\ out["receiver"] = <<>>
    BY <1>a, <2>1 DEF SenderAt
  <2>5. Whole("receiver")
    <3>1. PICK start : Starts("receiver", start)
      BY <1>t, <2>2 DEF ExchangeInv, ChannelInv, EndInv
    <3> QED
      BY <1>t, <2>2, <3>1 DEF Starts, Whole
  <2>6. Flow("receiver")' = Flow("receiver")
    BY <1>t, <2>1, <2>3 DEF Flow
  <2>7. Whole("receiver")'
    <3>1. PICK start : Starts("receiver", start)
                       /\ Len(Flow("receiver")) = start[Pending("receiver") + 1]
      BY <2>5 DEF Whole
    <3>2. Pending("receiver")' = Pending("receiver")
          /\ \A i : Unread("receiver", i)' = Unread("receiver", i)
      BY <2>3 DEF Pending, Unread
    <3>3. Starts("receiver", start)'
      BY <2>6, <3>1, <3>2 DEF Starts
    <3> QED
      BY <2>6, <3>1, <3>2, <3>3 DEF Whole
  <2>8. Said' = Said
    BY <2>3 DEF Said
  <2> QED
    BY <2>2, <2>3, <2>4, <2>7, <2>8 DEF Calm
<1>6. CASE ReadHello \/ ReadInfo \/ ReadData \/ ReadFileEnd
  <2>1. TakePacket("receiver") /\ s' = s /\ r.pc # "idle"
    BY <1>6 DEF ReadHello, ReadInfo, ReadData, ReadFileEnd, ReceiverGoes, Step
  <2>2. handle' = handle /\ out' = out /\ sent' = sent
    BY <2>1, HearsNext
  <2>3. r'.pc # "idle"
    <3>1. CASE ReadHello \/ ReadFileEnd
      BY <3>1, <1>r DEF ReadHello, ReadFileEnd, ReceiverGoes, Step
    <3>2. CASE ReadInfo
      <4>1. \E info, n : ReceiverGoes([r EXCEPT !.info = info, !.pc = "ack", !.received = n])
        BY <3>2 DEF ReadInfo
      <4> QED
        BY <4>1, <1>r DEF ReceiverGoes, Step
    <3>3. CASE ReadData
      <4>1. \E n : r' = [r EXCEPT !.received = @ + n, !.pc = "record"]
        BY <3>3 DEF ReadData, Step
      <4> QED
        BY <4>1, <1>r
    <3> QED
      BY <1>6, <3>1, <3>2, <3>3
  <2>4. s.pc = "idle" => Whole("receiver")'
    BY <1>3, <1>t, <1>y, <2>1, WholeIsTaken DEF Calm
  <2> QED
    BY <1>k, <2>1, <2>2, <2>3, <2>4
<1>7. CASE SendAck
  <2>1. r.pc = "ack" /\ r'.pc = "open" /\ s' = s /\ handle' = handle
    BY <1>7, <1>r, <1>t DEF SendAck, ReceiverGoes, Step, WritePacket
  <2>2. sent["sender"] = <<>>
    BY <1>a, <2>1 DEF ReceiverAt
  <2>3. s.pc # "idle"
    BY <1>a, <1>3, <2>1, <2>2 DEF Calm, SaidAt
  <2> QED
    BY <1>3, <2>1, <2>3 DEF Calm
<1>8. CASE OpenOutput \/ RecordOffset \/ ReceiverHashes \/ Accept
  <2>1. UNCHANGED streamVars /\ s' = s /\ r.pc # "idle" /\ r'.pc # "idle"
    BY <1>8, <1>r DEF OpenOutput, RecordOffset, ReceiverHashes, Accept, ReceiverGoes, Step
  <2>2. /\ handle' = handle /\ out' = out /\ sent' = sent /\ read' = read
        /\ Flow("receiver")' = Flow("receiver")
    BY <2>1 DEF streamVars, Flow
  <2>3. s.pc = "idle" => Whole("receiver")'
    BY <1>3, <1>t, <2>1, <2>2, WholeStays DEF Calm
  <2> QED
    BY <1>k, <2>1, <2>2, <2>3
<1>9. CASE ReceiverLeaves
  BY <1>3, <1>9 DEF ReceiverLeaves
<1>10. ASSUME NEW e \in Ends, Transport(e) PROVE Calm'
  <2>1. s' = s /\ r' = r /\ handle' = handle /\ sent' = sent /\ read' = read
    BY <1>10 DEF Transport, SendSome, RecvSome
  <2>2. CASE r.pc = "idle" \/ s.pc # "idle"
    BY <1>3, <2>1, <2>2 DEF Calm
  <2>3. CASE r.pc # "idle" /\ s.pc = "idle"
    <3>1. ~handle["sender"] /\ out["receiver"] = <<>> /\ Whole("receiver")
      BY <1>a, <1>3, <2>3 DEF SenderAt, Calm
    <3>2. e = "receiver" /\ RecvSome(e)
      <4>1. handle[e] /\ (SendSome(e) => out[e] # <<>>)
        BY <1>10 DEF Transport, SendSome, RecvSome
      <4>2. e = "receiver"
        BY <3>1, <4>1 DEF Ends
      <4> QED
        BY <1>10, <3>1, <4>1, <4>2 DEF Transport
    <3>3. Flow("receiver")' = Flow("receiver") /\ out' = out
      BY <3>2, RecvMoves DEF RecvSome, ExchangeInv
    <3>4. Whole("receiver")'
      BY <1>t, <2>1, <3>1, <3>3, WholeStays
    <3> QED
      BY <1>k, <2>1, <2>3, <3>3, <3>4
  <2> QED
    BY <2>2, <2>3
<1>11. CASE Over \/ UNCHANGED exchangeVars
  <2>1. UNCHANGED exchangeVars
    BY <1>11 DEF Over
  <2>2. /\ s' = s /\ r' = r /\ handle' = handle /\ sent' = sent /\ read' = read /\ out' = out
        /\ Flow("receiver")' = Flow("receiver")
    BY <2>1 DEF exchangeVars, streamVars, Flow
  <2>3. CASE r.pc = "idle" \/ s.pc # "idle"
    BY <1>3, <2>2, <2>3 DEF Calm
  <2>4. CASE r.pc # "idle" /\ s.pc = "idle"
    <3>1. Whole("receiver")'
      BY <1>3, <1>t, <2>2, <2>4, WholeStays DEF Calm
    <3> QED
      BY <1>k, <2>2, <2>4, <3>1
  <2> QED
    BY <2>3, <2>4
<1>12. ASSUME NEW e \in Ends PROVE ~Interrupted(e)
  BY DEF Interrupted, Fault
<1>13. ~ConnectionLost /\ ~KillReceiver
  BY DEF ConnectionLost, KillReceiver, Fault
<1> QED
  BY <1>4, <1>5, <1>6, <1>7, <1>8, <1>9, <1>10, <1>11, <1>12, <1>13
    DEF ExchangeNext, SenderStep, ReceiverStep

\* At first there is no connection, no file, and nothing to go wrong.
LEMMA AttemptStart == ExchangeInit => AttemptInv
<1> SUFFICES ASSUME ExchangeInit PROVE AttemptInv
  OBVIOUS
<1>1. ExchangeInv
  BY ExchangeStart
<1>2. content \in Seq(Byte) /\ Len(content) \in Nat
  BY <1>1, ProgressTyped
<1>3. /\ sent = Nothing /\ read = Nothing /\ out = Nothing /\ got = Nothing
      /\ handle = [e \in Ends |-> FALSE]
      /\ s.pc = "idle" /\ r.pc = "idle" /\ disk = Absent
  BY DEF ExchangeInit, StreamInit, IdleSender, IdleReceiver
<1>4. ProgressInv
  <2>1. Fresh
    BY <1>2, <1>3 DEF Fresh
  <2> QED
    BY <2>1, NothingSaid
<1>5. FilesAt
  BY <1>3 DEF FilesAt
<1>6. WithinPacket
  <2>1. ASSUME NEW e \in Ends PROVE Len(got[e]) = 0
    BY <1>3 DEF Nothing
  <2> QED
    BY <2>1 DEF WithinPacket, HeaderSize
<1>7. Calm
  BY <1>3 DEF Calm
<1> QED
  BY <1>4, <1>5, <1>6, <1>7 DEF AttemptInv

\* The invariant of an attempt.
LEMMA AttemptInvariant ==
  ASSUME PlainNames
  PROVE  ExchangeSpec => [](ExchangeInv /\ StateInv /\ AttemptInv)
<1>1. ExchangeInit => AttemptInv
  BY AttemptStart
<1>2. ASSUME ExchangeInv, ExchangeInv', StateInv, AttemptInv, [ExchangeNext]_exchangeVars
      PROVE  AttemptInv'
  <2>1. ProgressInv' /\ FilesAt' /\ WithinPacket'
    BY <1>2, ProgressStep, FilesStep, WithinStep DEF AttemptInv
  <2>2. ~disturbed' => Calm'
    BY <1>2, CalmStep
  <2> QED
    BY <2>1, <2>2 DEF AttemptInv
<1>3. ExchangeSpec => [](ExchangeInv /\ StateInv)
  BY StateInvariant
<1> QED
  BY <1>1, <1>2, <1>3, PTL DEF ExchangeSpec

\* An attempt that nobody interrupts goes through: whatever earlier ones left on
\* the disk and in the state file, however the packets are cut, for every content
\* and every size of block and of read, no call of either end throws
\* (Sender.cpp 42-110, Receiver.cpp 76-168).
THEOREM NoAttemptFailsOfItsOwn ==
  ASSUME PlainNames
  PROVE  ExchangeSpec => []NoFailureOfItsOwn
<1>1. ASSUME ExchangeInv, StateInv, AttemptInv PROVE NoFailureOfItsOwn
  <2> SUFFICES ASSUME ~disturbed PROVE ~SenderFails /\ ~ReceiverFails
    BY DEF NoFailureOfItsOwn
  <2>1. Calm
    BY <1>1 DEF AttemptInv
  <2> QED
    BY <1>1, <2>1, SenderHasNoFault, ReceiverHasNoFault DEF AttemptInv
<1>2. ExchangeSpec => [](ExchangeInv /\ StateInv /\ AttemptInv)
  BY AttemptInvariant
<1> QED
  BY <1>1, <1>2, PTL
=============================================================================
