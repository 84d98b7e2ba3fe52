----------------------------- MODULE PacketStream -----------------------------
(***************************************************************************)
(* Packets over one TCP connection: Serializer, PacketParser, PacketIO and *)
(* TcpConnection.  A packet is written as one run of cells (a header field *)
(* or a unit of the payload each); send takes any number of them, so recv  *)
(* meets any part of a packet, and either end may be closed or shut down,  *)
(* or the connection lost, between any two calls.                          *)
(***************************************************************************)
EXTENDS Integers, Sequences

Ends     == {"sender", "receiver"}
Peer(e)  == IF e = "sender" THEN "receiver" ELSE "sender"

VARIABLES
  handle,   \* whether the end's handle_ is valid
  out,      \* what write_all at this end has not yet sent
  wire,     \* cells on their way to this end
  got,      \* what read_exact at this end has of the current packet
  sent,     \* history: packets handed to write_packet for this end
  read      \* history: packets read_packet returned at this end

streamVars == <<handle, out, wire, got, sent, read>>

\* magic, version, type, flags, length, checksum.
HeaderSize == 6

\* Faulty variant: the length is one too small.
EncodeShort(packet) ==
  <<<<"magic", "BDRP">>, <<"version", 1>>, <<"type", packet.type>>, <<"flags", 0>>,
    <<"length", IF packet.payload = <<>> THEN 0 ELSE Len(packet.payload) - 1>>,
    <<"checksum", 0>>>>
    \o packet.payload

Encode(packet) ==
  <<<<"magic", "BDRP">>, <<"version", 1>>, <<"type", packet.type>>,
    <<"flags", 0>>, <<"length", Len(packet.payload)>>, <<"checksum", 0>>>>
    \o packet.payload

PayloadLength(cells) == cells[5][2]

PacketTypes == {"HELLO", "FILE_INFO", "RESUME_REQ", "RESUME_ACK", "DATA", "FILE_END",
                "FINISH", "ERROR", "HEARTBEAT", "DIRECTORY_INFO"}

\* PacketParser::parse: the set of what it accepts.
Parse(cells) ==
  IF /\ Len(cells) >= HeaderSize
     /\ cells[1] = <<"magic", "BDRP">> /\ cells[2] = <<"version", 1>>
     /\ cells[3][1] = "type" /\ cells[3][2] \in PacketTypes
     /\ Len(cells) = HeaderSize + PayloadLength(cells)
  THEN {[type |-> cells[3][2], payload |-> SubSeq(cells, HeaderSize + 1, Len(cells))]}
  ELSE {}

Nothing == [e \in Ends |-> <<>>]

StreamInit ==
  /\ handle = [e \in Ends |-> FALSE]
  /\ out = Nothing /\ wire = Nothing /\ got = Nothing
  /\ sent = Nothing /\ read = Nothing

\* TcpClient::connect and TcpServer::accept_one.
Connected ==
  /\ \A e \in Ends : ~handle[e]
  /\ handle' = [e \in Ends |-> TRUE]
  /\ out' = Nothing /\ wire' = Nothing /\ got' = Nothing
  /\ sent' = Nothing /\ read' = Nothing

\* write_packet: encode, then write_all; it returns when nothing is left.
WritePacket(e, packet) ==
  /\ handle[e] /\ out[e] = <<>>
  /\ out' = [out EXCEPT ![e] = Encode(packet)]
  /\ sent' = [sent EXCEPT ![Peer(e)] = Append(@, packet)]
  /\ UNCHANGED <<handle, wire, got, read>>

Written(e) == out[e] = <<>>

\* One send() of write_all; what is sent to a closed end is lost.
SendSome(e) ==
  /\ handle[e] /\ out[e] # <<>>
  /\ \E k \in 1..Len(out[e]) :
       /\ out' = [out EXCEPT ![e] = SubSeq(@, k + 1, Len(@))]
       /\ wire' = IF handle[Peer(e)]
                  THEN [wire EXCEPT ![Peer(e)] = @ \o SubSeq(out[e], 1, k)] ELSE wire
  /\ UNCHANGED <<handle, got, sent, read>>

\* What read_packet still asks of read_exact: first the header, then the payload
\* whose length stands in it.
Wanted(e) ==
  IF Len(got[e]) < HeaderSize THEN HeaderSize - Len(got[e])
  ELSE HeaderSize + PayloadLength(got[e]) - Len(got[e])

\* One recv() of read_exact: what is there, up to what is asked for.
RecvSome(e) ==
  /\ handle[e] /\ Wanted(e) > 0 /\ wire[e] # <<>>
  /\ LET k == IF Wanted(e) < Len(wire[e]) THEN Wanted(e) ELSE Len(wire[e])
     IN  /\ got' = [got EXCEPT ![e] = @ \o SubSeq(wire[e], 1, k)]
         /\ wire' = [wire EXCEPT ![e] = SubSeq(@, k + 1, Len(@))]
  /\ UNCHANGED <<handle, out, sent, read>>

\* read_packet returns a packet of one of the types.
Arrived(e) == Len(got[e]) >= HeaderSize /\ Wanted(e) = 0
Packets(e) == IF Arrived(e) THEN Parse(got[e]) ELSE {}
Returned(e) == [read EXCEPT ![e] = Append(@, CHOOSE p \in Packets(e) : TRUE)]
TakePacket(e) ==
  /\ Packets(e) # {}
  /\ read' = Returned(e)
  /\ got' = [got EXCEPT ![e] = <<>>]
  /\ UNCHANGED <<handle, out, wire, sent>>

\* read_exact, write_all or the parser throws.
ReadFails(e)  == \/ ~handle[e]
                 \/ ~Arrived(e) /\ wire[e] = <<>> /\ ~handle[Peer(e)]
                 \/ Arrived(e) /\ Packets(e) = {}
WriteFails(e) == ~handle[e] \/ ~handle[Peer(e)]

\* shutdown(), close() or the destructor of this end: what it had not read is
\* gone, what it had sent can still be read.  A packet that was complete counts
\* as returned: what throws may be the code that looks at it.
CloseEnd(e) ==
  /\ handle' = [handle EXCEPT ![e] = FALSE]
  /\ out' = [out EXCEPT ![e] = <<>>] /\ wire' = [wire EXCEPT ![e] = <<>>]
  /\ got' = [got EXCEPT ![e] = <<>>]
  /\ read' = IF Packets(e) = {} THEN read ELSE Returned(e)
  /\ UNCHANGED sent

\* Each end reads what the other wrote, whole, once and in order
\* (PacketIO.cpp 11-30, TcpConnection.cpp 54-97).
Channel == INSTANCE PacketChannel
ChannelSpec == Channel!Spec
=============================================================================
