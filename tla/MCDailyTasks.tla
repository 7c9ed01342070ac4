---------------------------- MODULE MCDailyTasks ----------------------------
(* One participant and two days: a second day is what lets an old task, a   *)
(* new one and a summary meet; participants share no row.  The second day   *)
(* is one of a zone west of UTC in MCDailyTasks.cfg, the first is not.      *)
EXTENDS DailyTasks
=============================================================================
