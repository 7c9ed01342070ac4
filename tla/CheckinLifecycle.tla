-------------------------- MODULE CheckinLifecycle --------------------------
(***************************************************************************)
(* What the routines promise about the check-ins of one participant, with  *)
(* no inputs, worker, transactions or deliveries.  A check-in is made once *)
(* from one list, gets its items (perhaps not all: a crash leaves it with  *)
(* those it has), is asked for with a card, reminded of once, answered     *)
(* item by item, and closed once: by the last answer with its reason, or   *)
(* by the deadline, which fails what is open and tells so once.            *)
(***************************************************************************)
EXTENDS Integers

CONSTANTS
    Date, Item, List, MaxClock,
    Opening, Morning, Evening, End    \* [Date -> Int]: from when a check-in may be
                                            \* made, answered, reminded of and failed
VARIABLES
    clock,
    list,       \* of each check-in, 0 before it is made
    asked,      \* dates whose card is known
    reminded,
    answer,     \* of each item; "missing": the check-in does not have it
    closing,    \* of each check-in
    told        \* dates whose closing by the deadline is told

vars == <<clock, list, asked, reminded, answer, closing, told>>

Init ==
    /\ clock = 0
    /\ list = [d \in Date |-> 0]
    /\ asked = {} /\ reminded = {} /\ told = {}
    /\ answer = [d \in Date |-> [i \in Item |-> "missing"]]
    /\ closing = [d \in Date |-> "open"]

Advance ==
    /\ clock < MaxClock /\ clock' = clock + 1
    /\ UNCHANGED <<list, asked, reminded, answer, closing, told>>

Make(d, l) ==
    /\ list[d] = 0 /\ clock >= Opening[d]
    /\ list' = [list EXCEPT ![d] = l]
    /\ \E a \in {"missing", "open"} : answer' = [answer EXCEPT ![d] = [i \in Item |-> a]]
    /\ UNCHANGED <<clock, asked, reminded, closing, told>>

\* Nothing is added to a check-in that has been seen.
Add(d, i) ==
    /\ list[d] # 0 /\ d \notin asked /\ closing[d] = "open"
    /\ answer[d][i] = "missing" /\ \A j \in Item : answer[d][j] \in {"missing", "open"}
    /\ answer' = [answer EXCEPT ![d][i] = "open"]
    /\ UNCHANGED <<clock, list, asked, reminded, closing, told>>

\* There is a list to answer, and the morning after has come.
Answerable(d) == list[d] # 0 /\ clock >= Morning[d]

Ask(d) ==
    /\ Answerable(d) /\ d \notin asked
    /\ asked' = asked \cup {d}
    /\ UNCHANGED <<clock, list, reminded, answer, closing, told>>

Remind(d) ==
    /\ d \in asked \ reminded /\ clock >= Evening[d]
    /\ reminded' = reminded \cup {d}
    /\ UNCHANGED <<clock, list, asked, answer, closing, told>>

AllAnswered(items) == \A i \in Item : items[i] # "open"

\* Only a failure can be answered over, and only once the deadline may have made it.
MayAnswer(d, i) ==
    \/ answer[d][i] = "open"
    \/ answer[d][i] = "failed" /\ clock >= End[d]

\* "done" needs no reason and may complete the check-in.
Done(d, i) ==
    /\ Answerable(d) /\ MayAnswer(d, i)
    /\ answer' = [answer EXCEPT ![d][i] = "done"]
    /\ closing' = [closing EXCEPT ![d] = IF @ = "open" /\ AllAnswered(answer'[d])
                                         THEN "owner" ELSE @]
    /\ UNCHANGED <<clock, list, asked, reminded, told>>

\* Any other answer needs one, so it completes nothing.
NotDone(d, i, a) ==
    /\ Answerable(d) /\ MayAnswer(d, i)
    /\ answer' = [answer EXCEPT ![d][i] = a]
    /\ UNCHANGED <<clock, list, asked, reminded, closing, told>>

Closes(d, how) ==
    /\ closing[d] = "open" /\ AllAnswered(answer[d])
    /\ closing' = [closing EXCEPT ![d] = how]
    /\ UNCHANGED <<clock, list, asked, reminded, answer, told>>

\* The reason of the last answer.
Explain(d) == Answerable(d) /\ (\E i \in Item : answer[d][i] \in {"partial", "failed"}) /\ Closes(d, "owner")

Overdue(d) == d \in asked /\ closing[d] = "open" /\ clock >= End[d]

Fail(d) ==
    /\ Overdue(d)
    /\ answer' = [answer EXCEPT ![d] = [i \in Item |-> IF @[i] = "open" THEN "failed" ELSE @[i]]]
    /\ UNCHANGED <<clock, list, asked, reminded, closing, told>>

Expire(d) == Overdue(d) /\ Closes(d, "deadline")

Tell(d) ==
    /\ closing[d] = "deadline" /\ d \notin told
    /\ told' = told \cup {d}
    /\ UNCHANGED <<clock, list, asked, reminded, answer, closing>>

Next ==
    \/ Advance
    \/ \E d \in Date :
        \/ \E l \in List : Make(d, l)
        \/ Ask(d) \/ Remind(d) \/ Explain(d) \/ Fail(d) \/ Expire(d) \/ Tell(d)
        \/ \E i \in Item : Add(d, i) \/ Done(d, i) \/ NotDone(d, i, "partial") \/ NotDone(d, i, "failed")

Spec == Init /\ [][Next]_vars
=============================================================================
