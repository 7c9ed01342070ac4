------------------------------ MODULE MCGoals ------------------------------
(* One season whose review may still be open when the season ends.         *)
EXTENDS Goals
=============================================================================
