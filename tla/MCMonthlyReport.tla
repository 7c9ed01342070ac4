-------------------------- MODULE MCMonthlyReport --------------------------
(* Three processes and two texts: a winner, a rerun of its text and a rival. *)
EXTENDS MonthlyReport
=============================================================================
