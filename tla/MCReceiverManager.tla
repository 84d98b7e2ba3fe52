--------------------------- MODULE MCReceiverManager ---------------------------
(***************************************************************************)
(* Small instances of ReceiverManager for TLC: two REST requests at once.  *)
(***************************************************************************)
EXTENDS ReceiverManager

CONSTANTS c1, c2
TwoCallers == {c1, c2}
OneCaller  == {c1}
=============================================================================
