--------------------------- MODULE DailyLifecycle ---------------------------
(***************************************************************************)
(* What the daily flow promises about one participant's entries, with no   *)
(* transactions, inputs, alerts or events: a stage per entry and a clock.  *)
(* An entry opens, may be asked for a report after its midnight, and is    *)
(* closed once, by its owner or by the noon deadline; a task the deadline  *)
(* closed takes one late report that does not reopen it.                   *)
(***************************************************************************)
EXTENDS Integers

CONSTANTS Participant, Day, MaxClock,
          Midnight, Noon      \* [Day -> Int]: deadlines of the entries of a day

VARIABLES clock, kind, stage

Key == Participant \X Day
OpenStage == {"active", "awaiting_report"}
OwnerOutcome == {"done", "partial", "failed"}
Overdue == {"auto_failed", "auto_failed_reported"}
Stage == {"absent"} \cup OpenStage \cup OwnerOutcome \cup Overdue

Init ==
    /\ clock = 0
    /\ kind = [k \in Key |-> "task"]
    /\ stage = [k \in Key |-> "absent"]

Advance == clock' = clock + 1 /\ clock < MaxClock /\ UNCHANGED <<kind, stage>>

\* A participant has one open task at a time; summaries do not count.
MayOpen(k, new) ==
    new = "task" =>
        \A d \in Day : kind[<<k[1], d>>] = "task" => stage[<<k[1], d>>] \notin OpenStage

OpenEntry(k, new) ==
    /\ stage[k] = "absent" /\ MayOpen(k, new)
    /\ stage' = [stage EXCEPT ![k] = "active"]
    /\ kind' = [kind EXCEPT ![k] = new]
    /\ UNCHANGED clock

Report(k, outcome) ==
    /\ stage[k] \in OpenStage
    /\ stage' = [stage EXCEPT ![k] = outcome]
    /\ UNCHANGED <<clock, kind>>

LateReport(k) ==
    /\ stage[k] = "auto_failed" /\ kind[k] = "task"
    /\ stage' = [stage EXCEPT ![k] = "auto_failed_reported"]
    /\ UNCHANGED <<clock, kind>>

\* What a deadline pass may make of an entry.
Due(k, new) ==
    \/ new = "awaiting_report" /\ stage[k] = "active" /\ clock >= Midnight[k[2]]
    \/ new = "auto_failed" /\ stage[k] \in OpenStage /\ clock >= Noon[k[2]]

\* One pass moves any number of entries at once.
DeadlinePass ==
    /\ stage' \in [Key -> Stage]
    /\ \A k \in Key : stage'[k] = stage[k] \/ Due(k, stage'[k])
    /\ UNCHANGED <<clock, kind>>

Next ==
    \/ Advance \/ DeadlinePass
    \/ \E k \in Key, new \in {"task", "summary"} : OpenEntry(k, new)
    \/ \E k \in Key, outcome \in OwnerOutcome : Report(k, outcome)
    \/ \E k \in Key : LateReport(k)

Spec == Init /\ [][Next]_<<clock, kind, stage>>
=============================================================================
