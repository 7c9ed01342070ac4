----------------------------- MODULE MCRoutine -----------------------------
(* Two items let one be answered while the other is failed; two lists let  *)
(* one replace the other before and after its check-in is made.            *)
EXTENDS Routine
=============================================================================
