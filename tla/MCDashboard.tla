------------------------------ MODULE MCDashboard ------------------------------
(***************************************************************************)
(* Instances of Dashboard for TLC.                                         *)
(***************************************************************************)
EXTENDS DashboardProps

CONSTANTS a, b, c1
===============================================================================
