----------------------------- MODULE MCTaskManager -----------------------------
(***************************************************************************)
(* Small instances of TaskManager for TLC: two tasks, no client.           *)
(***************************************************************************)
EXTENDS TaskManager

CONSTANTS t1, t2
TwoTasks == {t1, t2}
=============================================================================
