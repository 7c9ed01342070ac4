-------------------------- MODULE SeasonLifecycle --------------------------
(***************************************************************************)
(* What the seasons promise their participant, with no inputs, worker,     *)
(* transactions or deliveries.  A season has one review open at a time,    *)
(* which is asked for, reminded of once, and answered or, when its time is *)
(* up, skipped.  Its final review comes after the season and after its     *)
(* last review: it is shown, gets a status, reflections, and is completed. *)
(***************************************************************************)
EXTENDS Integers

CONSTANTS Set, Week, MaxClock,
          Due,          \* [Set -> [Week -> Int]]: when a review may begin
          End,          \* [Set -> Int]: the end of a season
          ReminderDelay, SkipAfter

VARIABLES
    clock,
    stage,      \* of each review
    since,      \* the time a review's reminder and its skip are counted from
    shown,      \* seasons with a final prompt
    verdict     \* of each season's final review

vars == <<clock, stage, since, shown, verdict>>

Waiting == {"created", "asked", "reminded"}
Over(s) == clock >= End[s] /\ \A w \in Week : stage[s][w] \notin Waiting

Init ==
    /\ clock = 0
    /\ stage = [s \in Set |-> [w \in Week |-> "absent"]]
    /\ since = [s \in Set |-> [w \in Week |-> 0]]
    /\ shown = {}
    /\ verdict = [s \in Set |-> "none"]

Advance == clock < MaxClock /\ clock' = clock + 1 /\ UNCHANGED <<stage, since, shown, verdict>>

Moves(s, w, new) ==
    /\ stage' = [stage EXCEPT ![s][w] = new]
    /\ UNCHANGED <<clock, shown, verdict>>

Counts(s, w) == \E t \in 0..clock : since' = [since EXCEPT ![s][w] = t]

Create(s, w) ==
    /\ stage[s][w] = "absent" /\ clock >= Due[s][w]
    /\ s \notin shown /\ verdict[s] = "none"
    /\ \A v \in Week : stage[s][v] \notin Waiting
    /\ Moves(s, w, "created") /\ Counts(s, w)

Ask(s, w) == stage[s][w] = "created" /\ Moves(s, w, "asked") /\ Counts(s, w)

Remind(s, w) ==
    /\ stage[s][w] = "asked" /\ clock >= since[s][w] + ReminderDelay
    /\ Moves(s, w, "reminded") /\ UNCHANGED since

Answer(s, w) ==
    /\ stage[s][w] \in {"asked", "reminded"}
    /\ Moves(s, w, "answered") /\ UNCHANGED since

Skip(s, w) ==
    /\ stage[s][w] \in Waiting /\ clock >= since[s][w] + SkipAfter
    /\ Moves(s, w, "skipped") /\ UNCHANGED since

Show(s) == Over(s) /\ shown' = shown \cup {s} /\ UNCHANGED <<clock, stage, since, verdict>>
Withdraw(s) == shown' = shown \ {s} /\ UNCHANGED <<clock, stage, since, verdict>>

Judges(s, new) ==
    /\ verdict' = [verdict EXCEPT ![s] = new]
    /\ UNCHANGED <<clock, stage, since, shown>>

Choose(s) == Over(s) /\ verdict[s] = "none" /\ Judges(s, "status")
Reflect(s) == verdict[s] = "status" /\ Judges(s, "reflected")
Complete(s) == verdict[s] = "reflected" /\ Judges(s, "completed")

Next ==
    \/ Advance
    \/ \E s \in Set, w \in Week :
          Create(s, w) \/ Ask(s, w) \/ Remind(s, w) \/ Answer(s, w) \/ Skip(s, w)
    \/ \E s \in Set : Show(s) \/ Withdraw(s) \/ Choose(s) \/ Reflect(s) \/ Complete(s)

Spec == Init /\ [][Next]_vars
=============================================================================
