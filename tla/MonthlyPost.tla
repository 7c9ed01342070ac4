---------------------------- MODULE MonthlyPost ----------------------------
(***************************************************************************)
(* What the monthly report promises: its topic receives at most one post,  *)
(* and the verdict kept about it is given once.  "published" is said of a  *)
(* post that is there; an "uncertain" one may be there, may still appear,  *)
(* or may never do.                                                        *)
(***************************************************************************)
EXTENDS Sequences

CONSTANT Content

VARIABLES posts, verdict

Init == posts = <<>> /\ verdict = "none"

Post(c) ==
    /\ posts = <<>> /\ verdict # "published"
    /\ posts' = <<c>>
    /\ UNCHANGED verdict

Judge(v) ==
    /\ verdict = "none"
    /\ v = "published" => posts # <<>>
    /\ verdict' = v
    /\ UNCHANGED posts

Next == (\E c \in Content : Post(c)) \/ (\E v \in {"published", "uncertain"} : Judge(v))

Spec == Init /\ [][Next]_<<posts, verdict>>
=============================================================================
