----------------------------- MODULE FileDelivery -----------------------------
(***************************************************************************)
(* What receiving promises of each file in the save directory, without     *)
(* packets, records or processes: a copy grows from what is there, may     *)
(* lose its end, and is certified as one version only when it is exactly   *)
(* that version; a certified copy stays as it is until it is replaced,     *)
(* where replacing is allowed, or removed.                                 *)
(***************************************************************************)
EXTENDS Integers, Sequences

CONSTANTS File, Version, Byte, Content(_), MayReplace, NoVersion, Absent

VARIABLES copy, certified

\* The copy is cut to one of its prefixes.
Cut(f) == \E n \in 0..Len(copy[f]) : copy' = [copy EXCEPT ![f] = SubSeq(@, 1, n)]

Init ==
  /\ \A f \in File : copy[f] = Absent \/ \E v \in Version : copy[f] = Content(v)
  /\ certified = [f \in File |-> NoVersion]

\* A receive opens the file: it is new, or what is kept of it is a prefix.
Open(f) ==
  /\ \/ copy[f] = Absent /\ copy' = [copy EXCEPT ![f] = <<>>]
     \/ MayReplace /\ copy[f] # Absent /\ Cut(f)
  /\ certified' = [certified EXCEPT ![f] = NoVersion]

\* An uncertified copy grows at its end.
Grow(f) ==
  /\ certified[f] = NoVersion /\ copy[f] # Absent
  /\ copy'[f] \in Seq(Byte)
  /\ Len(copy[f]) <= Len(copy'[f]) /\ copy[f] = SubSeq(copy'[f], 1, Len(copy[f]))
  /\ copy' = [copy EXCEPT ![f] = copy'[f]]
  /\ UNCHANGED certified

\* An uncertified copy loses its end.
Lose(f) ==
  /\ certified[f] = NoVersion /\ copy[f] # Absent /\ Cut(f)
  /\ UNCHANGED certified

Certify(f) ==
  \E v \in Version :
    /\ copy[f] = Content(v)
    /\ certified' = [certified EXCEPT ![f] = v]
    /\ UNCHANGED copy

Remove(f) ==
  /\ copy[f] # Absent
  /\ copy' = [copy EXCEPT ![f] = Absent]
  /\ certified' = [certified EXCEPT ![f] = NoVersion]

Next == \E f \in File : Open(f) \/ Grow(f) \/ Lose(f) \/ Certify(f) \/ Remove(f)

Spec == Init /\ [][Next]_<<copy, certified>>
=============================================================================
