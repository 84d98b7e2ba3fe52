---------------------------- MODULE MCReceiveServer ----------------------------
(***************************************************************************)
(* Small instances of ReceiveServer for TLC: two controlling threads.      *)
(***************************************************************************)
EXTENDS ReceiveServer

CONSTANTS c1, c2
TwoCallers == {c1, c2}
=============================================================================
