----------------------------- MODULE PacketChannel -----------------------------
(***************************************************************************)
(* What the framing promises the protocol above it: on each connection     *)
(* each end reads packets the other end wrote, whole, once and in order,   *)
(* possibly not all of them.  This is the channel Transfer is built on.    *)
(***************************************************************************)
EXTENDS Integers, Sequences

CONSTANT Ends

VARIABLES
  sent,   \* packets handed to write_packet for this end, since the connection was made
  read    \* packets read_packet returned at this end

Init == sent = [e \in Ends |-> <<>>] /\ read = [e \in Ends |-> <<>>]

Write(e) ==
  /\ Len(sent'[e]) = Len(sent[e]) + 1
  /\ sent' = [sent EXCEPT ![e] = Append(@, sent'[e][Len(sent'[e])])]
  /\ UNCHANGED read

Read(e) ==
  /\ Len(read[e]) < Len(sent[e])
  /\ read' = [read EXCEPT ![e] = Append(@, sent[e][Len(@) + 1])]
  /\ UNCHANGED sent

Reconnect == Init'

Next == Reconnect \/ \E e \in Ends : Write(e) \/ Read(e)

Spec == Init /\ [][Next]_<<sent, read>>
=============================================================================
