----------------------------- MODULE DailyTasks -----------------------------
(***************************************************************************)
(* The daily task of a participant, from the "add" button to its closing   *)
(* record, as two processes move it: the API process, which handles one    *)
(* Telegram update at a time, and the worker tick.  They share PostgreSQL  *)
(* tables only.  A multi-statement transaction of either is several        *)
(* actions here, with the READ COMMITTED rules that matter to it: a read   *)
(* sees what is committed, an UPDATE waits for a row another transaction   *)
(* has changed and then tests its WHERE clause again, nothing is visible   *)
(* before COMMIT and a rollback leaves nothing behind.                     *)
(*                                                                         *)
(* One workspace.  Texts, links, cards and the wording of answers are      *)
(* left out; a refusal that changes no row is no action at all.            *)
(***************************************************************************)
EXTENDS Integers, FiniteSets

CONSTANTS
    Participant,   \* participants of the workspace
    LastDay,       \* bound: entries are dated 1..LastDay
    West,          \* days that begin in the zone after they begin in UTC
    Outcome,       \* the outcomes users choose
    None           \* no call in progress, no input expected

ASSUME DayAssumption == LastDay \in Nat \ {0}

Day == 1..LastDay
ASSUME ZoneAssumption == West \subseteq Day
Key == Participant \X Day      \* UNIQUE (workspace, participant, task_date)

(***************************************************************************)
(* Local time advances through the instants the rules tell apart.  Day d   *)
(* is instants 3(d-1)..3(d-1)+2: from midnight, from noon, from 20:00.     *)
(***************************************************************************)
MaxClock == 3 * LastDay + 1    \* bound: noon after the last day
Instant == 0..MaxClock
LocalTaskDate(t) == (t \div 3) + 1
IsDailySummaryTime(t) == t % 3 = 2

\* A task_date comes back as midnight UTC of its day and is converted to the zone:
\* west of UTC that is still the day before (West).  The deadlines follow it.
DateInZone(d) == IF d \in West THEN d - 1 ELSE d
NextMidnight(d) == 3 * DateInZone(d)
NoonAfter(d) == NextMidnight(d) + 1
PendingInputMaxAge == 3        \* 24 hours, in instants

Open == {"active", "awaiting_report"}
Final == {"done", "partial", "failed"}
AlertKind == {"day_closed_pending_report", "overdue_task_failed"}
Absent == "absent"

Entry == [status : Open \cup Final \cup {Absent}, kind : {"task", "summary"},
          report : Final \cup {Absent}, autoFailed : BOOLEAN]
NoEntry == [status |-> Absent, kind |-> "task", report |-> Absent,
            autoFailed |-> FALSE]
ReportKind == {"daily_task_report", "daily_summary_report"}
Prompt == [kind : {"daily_task_text"}, at : Instant]
            \cup [kind : ReportKind, day : Day, outcome : Final, at : Instant]
Call == [op : {"prompt", "summary", "text"}, who : Participant, day : Day]
            \cup [op : {"status", "submit", "written", "missed", "late", "rejected"},
                  who : Participant, day : Day, outcome : Final]

ASSUME OutcomeAssumption == Outcome \subseteq Final
ASSUME NoneAssumption == None \notin Prompt /\ None \notin Call

VARIABLES
    clock,     \* local time
    entry,     \* daily_tasks, committed
    alert,     \* daily_task_alerts, committed: absent, raised or acked
    closed,    \* number of *.closed events in progress_events
    autoFail,  \* number of *.auto_failed events in progress_events
    pending,   \* pending_inputs of the Today thread, committed
    call,      \* the API's open transaction, None when it has none
    ticking,   \* the worker's transition transaction is open
    plan,      \* what that transaction decided for each entry it listed
    todo,      \* entries it has yet to update
    locked     \* entries it has updated and not committed

vars == <<clock, entry, alert, closed, autoFail, pending, call,
          ticking, plan, todo, locked>>
table == <<entry, alert, closed, autoFail>>
tick == <<ticking, plan, todo, locked>>

TypeOK ==
    /\ clock \in Instant
    /\ entry \in [Key -> Entry]
    /\ alert \in [Key -> [AlertKind -> {Absent, "raised", "acked"}]]
    /\ closed \in [Key -> Nat]
    /\ autoFail \in [Key -> Nat]
    /\ pending \in [Participant -> Prompt \cup {None}]
    /\ call \in Call \cup {None}
    /\ ticking \in BOOLEAN
    /\ plan \in [Key -> {Absent, "awaiting_report", "failed"}]
    /\ todo \in SUBSET Key
    /\ locked \in SUBSET Key

IsOpen(k) == entry[k].status \in Open

AcceptsReport(k) ==
    \/ IsOpen(k)
    \/ /\ entry[k].kind = "task" /\ entry[k].status = "failed"
       /\ entry[k].autoFailed /\ entry[k].report = Absent

\* GetOpenTask, the button's guard against a second task.
HasOpenTask(p) == \E d \in Day : IsOpen(<<p, d>>) /\ entry[<<p, d>>].kind = "task"

ReportKindOf(k) ==
    IF entry[k].kind = "summary" THEN "daily_summary_report" ELSE "daily_task_report"

Init ==
    /\ clock = 0
    /\ entry = [k \in Key |-> NoEntry]
    /\ alert = [k \in Key |-> [a \in AlertKind |-> Absent]]
    /\ closed = [k \in Key |-> 0]
    /\ autoFail = [k \in Key |-> 0]
    /\ pending = [p \in Participant |-> None]
    /\ call = None
    /\ ticking = FALSE
    /\ plan = [k \in Key |-> Absent]
    /\ todo = {}
    /\ locked = {}

Advance == clock < MaxClock /\ clock' = clock + 1
           /\ UNCHANGED <<table, pending, call, tick>>

-----------------------------------------------------------------------------
(* API process.  It starts a handler only when the previous one is over.   *)

Begin(c) == call = None /\ call' = c /\ UNCHANGED <<clock, table, pending, tick>>

InCall(op) == call # None /\ call.op \in op

\* Rows the API transaction in progress has changed, hence locked.
HoldsPending(p) ==
    InCall({"text", "submit", "written", "missed", "late", "rejected"}) /\ call.who = p
HoldsEntry(k) == InCall({"written"}) /\ <<call.who, call.day>> = k

\* A rollback: Telegram or the database failed, or the process died.
ApiAborts == call # None /\ call' = None /\ UNCHANGED <<clock, table, pending, tick>>

\* Mutant: the open-task check is forgotten.
MayAddDespiteOpenTask(p) == pending[p] = None

\* today:add refuses while a task is open or an input is expected.
MayAdd(p) == ~HasOpenTask(p) /\ pending[p] = None

\* Every guard of today:add is read here; the prompt or the card goes out next.
AddPressed(p) ==
    LET day == LocalTaskDate(clock) IN
    /\ day \in Day
    /\ entry[<<p, day>>].status = Absent
    /\ MayAdd(p)
    /\ Begin([op |-> IF IsDailySummaryTime(clock) THEN "summary" ELSE "prompt",
              who |-> p, day |-> day])

\* The prompt was sent and the input it expects is stored.
CommitPrompt ==
    /\ InCall({"prompt"})
    /\ pending' = [pending EXCEPT ![call.who] = [kind |-> "daily_task_text", at |-> clock]]
    /\ call' = None
    /\ UNCHANGED <<clock, table, tick>>

\* INSERT ... ON CONFLICT (workspace, participant, task_date) DO NOTHING.
CreateEntry(k, kind) ==
    /\ entry' = IF entry[k].status = Absent
                THEN [entry EXCEPT ![k] = [NoEntry EXCEPT !.status = "active", !.kind = kind]]
                ELSE entry
    /\ UNCHANGED <<alert, closed, autoFail>>

CommitSummary ==
    /\ InCall({"summary"})
    /\ CreateEntry(<<call.who, call.day>>, "summary")
    /\ call' = None
    /\ UNCHANGED <<clock, pending, tick>>

\* A message is the text of a task: the input row is deleted (ClaimPendingInput)
\* and the date is read after it.
TextArrives(p) ==
    /\ pending[p] # None /\ pending[p].kind = "daily_task_text"
    /\ LocalTaskDate(clock) \in Day
    /\ Begin([op |-> "text", who |-> p, day |-> LocalTaskDate(clock)])

CommitText ==
    /\ InCall({"text"})
    /\ CreateEntry(<<call.who, call.day>>, "task")
    /\ pending' = [pending EXCEPT ![call.who] = None]
    /\ call' = None
    /\ UNCHANGED <<clock, tick>>

\* alerts with every row of an entry acknowledged (dismissTaskAlerts).
AckAll(k) == [alert EXCEPT ![k] = [a \in AlertKind |->
                  IF alert[k][a] = Absent THEN Absent ELSE "acked"]]

\* task:report on an entry that takes no report any more dismisses its alerts.
ReportPressedTooLate(k) ==
    /\ call = None /\ entry[k].status # Absent /\ ~AcceptsReport(k)
    /\ alert' = AckAll(k)
    /\ UNCHANGED <<clock, entry, closed, autoFail, pending, call, tick>>

AlertAcknowledged(k, a) ==
    /\ call = None /\ alert[k][a] # Absent
    /\ alert' = [alert EXCEPT ![k][a] = "acked"]
    /\ UNCHANGED <<clock, entry, closed, autoFail, pending, call, tick>>

\* task:status.  An expected input of another kind is in the way; one of the same
\* kind is replaced.
StatusPressed(k, outcome) ==
    /\ AcceptsReport(k)
    /\ pending[k[1]] # None => pending[k[1]].kind = ReportKindOf(k)
    /\ Begin([op |-> "status", who |-> k[1], day |-> k[2], outcome |-> outcome])

CommitStatus ==
    /\ InCall({"status"})
    /\ pending' = [pending EXCEPT ![call.who] =
                      [kind |-> ReportKindOf(<<call.who, call.day>>), day |-> call.day,
                       outcome |-> call.outcome, at |-> clock]]
    /\ call' = None
    /\ UNCHANGED <<clock, table, tick>>

\* Mutant: a late report takes the path of an open entry.
ReportBranchIgnoringFailure(k) == IF AcceptsReport(k) THEN "submit" ELSE "rejected"

\* The result arrives: the input row is deleted and the entry is read.  What the
\* read says decides which UPDATE of SubmitTaskReport follows, if any.
ReportBranch(k) ==
    CASE ~AcceptsReport(k) -> "rejected"
      [] IsOpen(k)         -> "submit"
      [] OTHER             -> "late"

ReportArrives(p) ==
    /\ pending[p] # None /\ pending[p].kind \in ReportKind
    /\ Begin([op |-> ReportBranch(<<p, pending[p].day>>), who |-> p,
              day |-> pending[p].day, outcome |-> pending[p].outcome])

\* The UPDATE of an open entry waits for the worker's row lock and then tests the
\* status again.  Nothing looks at how many rows it changed.
SubmitUpdate ==
    /\ InCall({"submit"})
    /\ <<call.who, call.day>> \notin locked
    /\ call' = [call EXCEPT !.op = IF IsOpen(<<call.who, call.day>>) THEN "written" ELSE "missed"]
    /\ UNCHANGED <<clock, table, pending, tick>>

CommitWith(k, row, events) ==
    /\ entry' = [entry EXCEPT ![k] = row]
    /\ closed' = [closed EXCEPT ![k] = @ + events]
    /\ alert' = AckAll(k)
    /\ pending' = [pending EXCEPT ![k[1]] = None]
    /\ call' = None
    /\ UNCHANGED <<clock, autoFail, tick>>

\* Mutant: the outcome is left out of the UPDATE.
ReportedWithoutOutcome(k) == [entry[k] EXCEPT !.status = call.outcome]

Reported(k) == [entry[k] EXCEPT !.status = call.outcome, !.report = call.outcome]

\* The closed event is inserted after the UPDATE, whether or not it matched.
CommitReport ==
    LET k == <<call.who, call.day>> IN
    /\ InCall({"written", "missed"})
    /\ CommitWith(k, IF call.op = "written" THEN Reported(k) ELSE entry[k], 1)

\* A report on an auto-failed task is stored beside its status and tells no event.
CommitLateReport ==
    LET k == <<call.who, call.day>> IN
    /\ InCall({"late"})
    /\ CommitWith(k, [entry[k] EXCEPT !.report = call.outcome], 0)

CommitRejected ==
    /\ InCall({"rejected"})
    /\ pending' = [pending EXCEPT ![call.who] = None]
    /\ call' = None
    /\ UNCHANGED <<clock, table, tick>>

-----------------------------------------------------------------------------
(* Worker tick: the transition transaction, then the input cleanup.  The   *)
(* advisory lease keeps a second tick out.                                 *)

\* Mutant: an entry fails at its own midnight.
FailsAtMidnight(d, status, t) ==
    IF status \in Open /\ t >= NextMidnight(d) THEN "failed" ELSE Absent

\* Mutant: the deadline forgets entries that were asked for a report.
ForgetsAwaiting(d, status, t) ==
    CASE status = "active" /\ t >= NoonAfter(d)       -> "failed"
      [] status = "active" /\ t \in NextMidnight(d)..(NoonAfter(d) - 1) -> "awaiting_report"
      [] OTHER                                        -> Absent

NextDailyTaskTransition(d, status, t) ==
    CASE status \in Open /\ t >= NoonAfter(d)         -> "failed"
      [] status = "active" /\ t \in NextMidnight(d)..(NoonAfter(d) - 1) -> "awaiting_report"
      [] OTHER                                        -> Absent

\* The clock and the open entries are read, once, at the start.
Decision(k) == NextDailyTaskTransition(k[2], entry[k].status, clock)

TickBegins ==
    /\ ~ticking
    /\ ticking' = TRUE
    /\ plan' = [k \in Key |-> Decision(k)]
    /\ todo' = {k \in Key : Decision(k) # Absent}
    /\ UNCHANGED <<clock, table, pending, call, locked>>

\* Mutant: the UPDATE is by id alone.
TransitionableById(k) == plan[k] # Absent

\* The rows a transition's UPDATE matches.
Transitionable(k) ==
    IF plan[k] = "failed" THEN IsOpen(k) ELSE entry[k].status = "active"

\* One entry's UPDATE.  It waits for the API's row lock; whether it matched is not
\* looked at.  The alert and the event of the entry are inserted right after.
TickUpdates(k) ==
    /\ k \in todo
    /\ ~HoldsEntry(k)
    /\ todo' = todo \ {k}
    /\ locked' = IF Transitionable(k) THEN locked \cup {k} ELSE locked
    /\ UNCHANGED <<clock, table, pending, call, ticking, plan>>

AlertFor(newStatus) ==
    IF newStatus = "failed" THEN "overdue_task_failed" ELSE "day_closed_pending_report"

Moved(k) == [entry[k] EXCEPT !.status = plan[k], !.autoFailed = (plan[k] = "failed")]

\* GetOrCreateAlert: a row that is there already keeps its state.
RaisedAlert(k, a) ==
    IF plan[k] # Absent /\ a = AlertFor(plan[k]) /\ alert[k][a] = Absent
    THEN "raised" ELSE alert[k][a]

TickIdle ==
    /\ ticking' = FALSE
    /\ plan' = [k \in Key |-> Absent]
    /\ todo' = {}
    /\ locked' = {}

TickCommits ==
    /\ ticking /\ todo = {}
    /\ entry' = [k \in Key |-> IF k \in locked THEN Moved(k) ELSE entry[k]]
    /\ alert' = [k \in Key |-> [a \in AlertKind |-> RaisedAlert(k, a)]]
    /\ autoFail' = [k \in Key |-> autoFail[k] + IF plan[k] = "failed" THEN 1 ELSE 0]
    /\ TickIdle
    /\ UNCHANGED <<clock, closed, pending, call>>

TickAborts == ticking /\ TickIdle /\ UNCHANGED <<clock, table, pending, call>>

\* CleanupStaleInputs: a DELETE that waits for the row and tests its age again.
CleanupStale(p) ==
    /\ ~ticking /\ ~HoldsPending(p)
    /\ pending[p] # None /\ pending[p].at + PendingInputMaxAge <= clock
    /\ pending' = [pending EXCEPT ![p] = None]
    /\ UNCHANGED <<clock, table, call, tick>>

-----------------------------------------------------------------------------
UserActs ==
    \/ \E p \in Participant : AddPressed(p) \/ TextArrives(p) \/ ReportArrives(p)
    \/ \E k \in Key, outcome \in Outcome : StatusPressed(k, outcome)
    \/ \E k \in Key : ReportPressedTooLate(k)
    \/ \E k \in Key, a \in AlertKind : AlertAcknowledged(k, a)

ApiCommits == CommitPrompt \/ CommitSummary \/ CommitText \/ CommitStatus
              \/ CommitReport \/ CommitLateReport \/ CommitRejected

WorkerActs ==
    \/ TickBegins \/ TickCommits \/ TickAborts
    \/ \E k \in Key : TickUpdates(k)
    \/ \E p \in Participant : CleanupStale(p)

Next == Advance \/ UserActs \/ SubmitUpdate \/ ApiCommits \/ ApiAborts \/ WorkerActs

(***************************************************************************)
(* Time passes; the worker loop ticks for ever and a handler ends one way  *)
(* or the other.  The row lock queue of PostgreSQL is first come, first    *)
(* served, so a waiting UPDATE is not overtaken for ever, and a transition *)
(* transaction with something to do is taken to fail only finitely often.  *)
(* No user action is fair.                                                 *)
(***************************************************************************)
Fairness ==
    /\ WF_vars(Advance)
    /\ WF_vars(TickBegins)
    /\ \A k \in Key : SF_vars(TickUpdates(k))
    /\ WF_vars(TickCommits)
    /\ WF_vars(SubmitUpdate \/ ApiCommits \/ ApiAborts)
    /\ <>[][TickAborts => \A k \in Key : plan[k] = Absent]_vars

Spec == Init /\ [][Next]_vars
FairSpec == Spec /\ Fairness

-----------------------------------------------------------------------------
(* Properties.                                                             *)

\* A participant never has two open tasks.  today:add checks this with reads; the
\* task is inserted much later, by another handler, that does not check it again.
OneOpenTask ==
    \A k, l \in Key :
        /\ k[1] = l[1] /\ k # l
        /\ IsOpen(k) /\ entry[k].kind = "task"
        => ~(IsOpen(l) /\ entry[l].kind = "task")

\* What is promised of the deadlines of day d: docs/architecture.md:258-268 has the
\* midnight that ends the day and the noon after it.  It is claimed for the days
\* that are not in West only; of a day in West there is left the midnight that
\* begins it and its own noon.
DayEnd(d) == 3 * d
PromisedMidnight(d) == IF d \in West THEN DayEnd(d - 1) ELSE DayEnd(d)
PromisedNoon(d) == PromisedMidnight(d) + 1

\* A row closed by its owner holds the owner's report and a closed event tells it;
\* a row closed by the deadline was overdue (in a zone at or east of UTC on the day
\* after its own), an event and an alert tell it, and only a task among those
\* holds a report.
ClosureRecorded ==
    \A k \in Key : entry[k].status \in Final =>
        IF entry[k].autoFailed
        THEN /\ entry[k].status = "failed" /\ clock >= PromisedNoon(k[2])
             /\ autoFail[k] = 1 /\ alert[k]["overdue_task_failed"] # Absent
             /\ entry[k].kind = "summary" => entry[k].report = Absent
        ELSE /\ entry[k].report = entry[k].status /\ closed[k] = 1

\* Neither closing event is ever inserted twice for an entry, whatever is lost,
\* retried or raced.
NoEventTwice == \A k \in Key : closed[k] <= 1 /\ autoFail[k] <= 1

\* A closed row is final: no handler or tick changes its status, and a report
\* that is stored is never replaced by another.
ClosedStays ==
    [][\A k \in Key :
        /\ entry[k].status \in Final => entry'[k].status = entry[k].status
        /\ entry[k].report # Absent => entry'[k].report = entry[k].report]_vars

\* The rows implement the lifecycle: every commit of either process is a step of
\* the abstract specification or changes nothing it can see.  The deadlines of the
\* lifecycle are the promised ones, with what is said above of days in West.
StageOf(k) ==
    IF ~entry[k].autoFailed THEN entry[k].status
    ELSE IF entry[k].report = Absent THEN "auto_failed" ELSE "auto_failed_reported"

Lifecycle == INSTANCE DailyLifecycle WITH
    kind <- [k \in Key |-> entry[k].kind],
    stage <- [k \in Key |-> StageOf(k)],
    Midnight <- [d \in Day |-> PromisedMidnight(d)],
    Noon <- [d \in Day |-> PromisedNoon(d)]

ImplementsLifecycle == Lifecycle!Spec

\* Every open entry is closed in the end, although the API may hold its row when
\* the tick comes.
EntriesClose == \A k \in Key : IsOpen(k) ~> ~IsOpen(k)

\* docs/architecture.md:118-121: a report on a task the deadline has failed does
\* not create a closed event.
AutoFailedHasNoClosedEvent == \A k \in Key : entry[k].autoFailed => closed[k] = 0
=============================================================================
