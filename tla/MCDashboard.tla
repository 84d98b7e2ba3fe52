------------------------------ MODULE MCDashboard ------------------------------
(***************************************************************************)
(* Small instances of Dashboard for TLC.                                   *)
(***************************************************************************)
EXTENDS Dashboard

CONSTANTS t1, t2
OneTask  == {t1}
TwoTasks == {t1, t2}
=============================================================================
