------------------------------ MODULE MCSetup ------------------------------
(* Two topics with a control message each, and the leaderboard in the       *)
(* second.  A second press repairs what a deletion or a fault has broken;   *)
(* the bounds on threads and messages are never reached.                    *)
EXTENDS Setup

MCSlots ==
    << [topic |-> 1, kind |-> "control"],
       [topic |-> 2, kind |-> "control"], [topic |-> 2, kind |-> "intro"] >>
=============================================================================
