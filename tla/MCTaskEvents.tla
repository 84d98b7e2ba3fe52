----------------------------- MODULE MCTaskEvents -----------------------------
(***************************************************************************)
(* Small instances of TaskEvents for TLC.                                  *)
(***************************************************************************)
EXTENDS TaskEvents

CONSTANTS t1, t2
TwoTasks == {t1, t2}
Symmetric == Permutations(TwoTasks)
=============================================================================
