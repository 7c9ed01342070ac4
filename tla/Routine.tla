------------------------------ MODULE Routine ------------------------------
(***************************************************************************)
(* One participant's routine: the list, the daily check-ins made from it,  *)
(* their cards, answers, reminders and automatic closing.                  *)
(*                                                                         *)
(* The worker runs one autocommit statement after another, with Telegram   *)
(* calls between them, and may die anywhere; only the closing notice is    *)
(* sent inside a transaction.  The API runs every handler in a             *)
(* transaction: its guards are read in one action, a waiting UPDATE is     *)
(* another, COMMIT with all that was written since a third.  Participants  *)
(* share no rows, so there is one.  The leaderboard, texts and the removal *)
(* of messages are left out.                                               *)
(***************************************************************************)
EXTENDS Integers, Sequences, FiniteSets

CONSTANTS
    LastDay,    \* bound: check-ins are dated 1..LastDay
    ItemCount,  \* items of a list (1 to 9 in the code)
    MaxSaves,   \* bound: lists saved
    Answer,     \* the answers the owner gives
    None

ASSUME BoundsAssumption == LastDay \in Nat \ {0} /\ ItemCount \in Nat \ {0} /\ MaxSaves \in Nat

(***************************************************************************)
(* Day d is instants 3(d-1)..3(d-1)+2: from midnight, from 08:00, from     *)
(* 20:00.                                                                  *)
(***************************************************************************)
MaxClock == 3 * LastDay + 6     \* bound: a day after the last deadline
Instant == 0..MaxClock
Today(t) == (t \div 3) + 1
BeforeCheckinHour(t) == t % 3 = 0
CheckinHour(d) == 3 * (d - 1) + 1
ReminderHour(d) == 3 * d + 2
Deadline(d) == 3 * d + 3
MaxAge == 3                     \* 24 hours, of an input or a notice

Date == 1..LastDay
Item == 1..ItemCount
Owned == {"done", "partial", "failed"}
Operation == {"routine_card", "routine_reminder", "routine_close"}

ASSUME AnswerAssumption == Answer \subseteq Owned

\* list = 0: no row.  "missing": the item's row is not inserted.
Checkin == [list : 0..MaxSaves, item : [Item -> {"missing", "open"} \cup Owned],
            card : BOOLEAN, reminder : {"none", "stored", "cleared"},
            completed : BOOLEAN, autoFailed : BOOLEAN, noticed : BOOLEAN]
NoCheckin == [list |-> 0, item |-> [i \in Item |-> "missing"], card |-> FALSE,
              reminder |-> "none", completed |-> FALSE, autoFailed |-> FALSE,
              noticed |-> FALSE]

Pending == [kind : {"routine_plan"}, at : Instant]
             \cup [kind : {"routine_reason"}, date : Date, item : Item, answer : Owned, at : Instant]
Call == [op : {"plan"}, day : Date, snapshot : Date \cup {0}, list : 0..MaxSaves]
          \cup [op : {"press", "reason", "pressed", "reasoned"}, date : Date, item : Item, answer : Owned]

ASSUME NoneAssumption == None \notin Pending /\ None \notin Call

Step == {"off", "plans", "create", "items", "card", "set card", "list", "transit", "clear",
         "fail items", "close", "unremind", "set reminder", "claim", "notice", "commit",
         "expire", "inputs"}
WorkerState == [at : Step, now : Instant, list : 0..MaxSaves, date : Date \cup {0},
                todo : SUBSET Date, reminded : SUBSET Date]
Off == [at |-> "off", now |-> 0, list |-> 0, date |-> 0, todo |-> {}, reminded |-> {}]

VARIABLES
    clock,
    saves,      \* the day of each list saved; the plan has the first, as its start, and the last list
    checkin,    \* routine_checkins and their items, committed
    posted,     \* dates with a card in the chat
    pending,    \* pending_inputs of the Routines thread
    suspended,  \* deliveries given up: worker_delivery_retries with exhausted set
    call,       \* the API's open transaction
    worker      \* where the tick is

vars == <<clock, saves, checkin, posted, pending, suspended, call, worker>>

TypeOK ==
    /\ clock \in Instant
    /\ saves \in Seq(Date) /\ Len(saves) <= MaxSaves
    /\ checkin \in [Date -> Checkin]
    /\ posted \in SUBSET Date
    /\ pending \in Pending \cup {None}
    /\ suspended \in SUBSET (Operation \X Date)
    /\ call \in Call \cup {None}
    /\ worker \in WorkerState

Init ==
    /\ clock = 0
    /\ saves = <<>>
    /\ checkin = [d \in Date |-> NoCheckin]
    /\ posted = {}
    /\ pending = None
    /\ suspended = {}
    /\ call = None
    /\ worker = Off

Advance ==
    /\ clock < MaxClock
    /\ clock' = clock + 1
    /\ UNCHANGED <<saves, checkin, posted, pending, suspended, call, worker>>

\* NextRoutineItemIndex: the first item without a status, of those there are.
OpenItems(d) == {i \in Item : checkin[d].item[i] = "open"}

\* Mutant: a button of any item of the list is obeyed.
IsThere(d, i) == checkin[d].item[i] # "missing"

IsNext(d, i) == i \in OpenItems(d) /\ \A j \in OpenItems(d) : i <= j

-----------------------------------------------------------------------------
(* API process.                                                            *)

Begin(c) ==
    /\ call = None /\ call' = c
    /\ UNCHANGED <<clock, saves, checkin, posted, pending, suspended, worker>>

InCall(ops) == call # None /\ call.op \in ops
Expects(kind) == pending # None /\ pending.kind = kind

\* A claimed input is a deleted row: others wait for it.
HoldsPending == InCall({"plan", "reason", "reasoned"})
HoldsItem(d, i) == InCall({"pressed", "reasoned"}) /\ call.date = d /\ call.item = i

ApiAborts ==
    /\ call # None /\ call' = None
    /\ UNCHANGED <<clock, saves, checkin, posted, pending, suspended, worker>>

\* routine:configure.  A stored prompt is kept, or replaced when it has vanished.
Configure ==
    /\ call = None
    /\ pending = None \/ Expects("routine_plan")
    /\ Len(saves) < MaxSaves /\ Today(clock) \in Date      \* bound
    /\ pending' = [kind |-> "routine_plan", at |-> clock]
    /\ UNCHANGED <<clock, saves, checkin, posted, suspended, call, worker>>

\* The day the old list is kept for, 0 if the plan is younger than that day.
SnapshotDate(t) ==
    LET active == IF BeforeCheckinHour(t) THEN Today(t) - 1 ELSE Today(t) IN
    IF saves = <<>> \/ active < saves[1] THEN 0 ELSE active

\* A list that does not parse keeps its input alive.
PlanRejected ==
    /\ call = None /\ Expects("routine_plan")
    /\ pending' = [pending EXCEPT !.at = clock]
    /\ UNCHANGED <<clock, saves, checkin, posted, suspended, call, worker>>

PlanArrives ==
    /\ Expects("routine_plan")
    /\ Len(saves) < MaxSaves
    /\ Today(clock) \in Date           \* bound
    /\ Begin([op |-> "plan", day |-> Today(clock), snapshot |-> SnapshotDate(clock),
              list |-> Len(saves)])

\* GetOrCreateRoutineCheckin inside a transaction: the row with all of its items.
WholeCheckin(list) ==
    [NoCheckin EXCEPT !.list = list, !.item = [i \in Item |-> "open"]]

\* created_at is the time at which the transaction began.
CommitPlan ==
    /\ InCall({"plan"})
    /\ checkin' = [d \in Date |-> IF d = call.snapshot /\ checkin[d].list = 0
                                  THEN WholeCheckin(call.list) ELSE checkin[d]]
    /\ saves' = Append(saves, call.day)
    /\ pending' = None /\ call' = None
    /\ UNCHANGED <<clock, posted, suspended, worker>>

\* A button of the card: only the next item's, and only while no input is expected.
ItemPressed(d, i, answer) ==
    /\ d \in posted /\ ~checkin[d].completed
    /\ IsNext(d, i) /\ pending = None
    /\ Begin([op |-> "press", date |-> d, item |-> i, answer |-> answer])

ReasonArrives ==
    /\ Expects("routine_reason")
    /\ Begin([op |-> "reason", date |-> pending.date, item |-> pending.item,
              answer |-> pending.answer])

\* The item's UPDATE, which an open check-in admits whatever the item's status is.
\* Otherwise a press ends with no change, and a reason with an error and a rollback.
SetItemStatus ==
    /\ InCall({"press", "reason"})
    /\ call' = IF checkin[call.date].completed THEN None
               ELSE [call EXCEPT !.op = IF @ = "press" THEN "pressed" ELSE "reasoned"]
    /\ UNCHANGED <<clock, saves, checkin, posted, pending, suspended, worker>>

Answered(c, i, answer) == [c EXCEPT !.item[i] = answer]

\* partial and failed: the item is stored and its reason asked for.
CommitReasonPrompt ==
    /\ InCall({"pressed"}) /\ call.answer # "done"
    /\ checkin' = [checkin EXCEPT ![call.date] = Answered(@, call.item, call.answer)]
    /\ pending' = [kind |-> "routine_reason", date |-> call.date, item |-> call.item,
                   answer |-> call.answer, at |-> clock]
    /\ call' = None
    /\ UNCHANGED <<clock, saves, posted, suspended, worker>>

\* Mutant: any answer completes the check-in.
CompletedRegardless(c) == [c EXCEPT !.completed = TRUE,
                                    !.reminder = IF @ = "stored" THEN "cleared" ELSE @]

\* advanceRoutineCheckin: the last answer completes the check-in and ends its reminder.
CompletedWhenAnswered(c) ==
    IF \E i \in Item : c.item[i] = "open" THEN c
    ELSE [c EXCEPT !.completed = TRUE,
                   !.reminder = IF @ = "stored" THEN "cleared" ELSE @]

\* The notice's transaction holds the row of its check-in.
HoldsRow(d) == worker.at \in {"notice", "commit"} /\ worker.date = d

CommitAnswer ==
    /\ InCall({"reasoned"}) \/ (InCall({"pressed"}) /\ call.answer = "done")
    /\ ~HoldsRow(call.date)
    /\ checkin' = [checkin EXCEPT ![call.date] =
                      CompletedWhenAnswered(Answered(@, call.item, call.answer))]
    /\ pending' = IF call.op = "reasoned" THEN None ELSE pending
    /\ call' = None
    /\ UNCHANGED <<clock, saves, posted, suspended, worker>>

-----------------------------------------------------------------------------
(* Worker tick: dispatch, transitions, closing notices, cleanups.          *)

At(step) == worker.at = step

\* A step of the worker that changes check-ins at most.
Goes(w) == worker' = w /\ UNCHANGED <<clock, saves, posted, pending, suspended, call>>
Reads(w) == Goes(w) /\ UNCHANGED checkin
GoesTo(step) == [worker EXCEPT !.at = step]
\* The check-in at hand is done with.
Leaves(step) == [worker EXCEPT !.at = step, !.list = 0, !.date = 0]

\* The tick reads the time once.
TickBegins == At("off") /\ Reads([Off EXCEPT !.at = "plans", !.now = clock])

\* RoutineCheckinDue: yesterday's check-in, from 08:00, of a plan that old.
DueDate ==
    IF saves = <<>> \/ BeforeCheckinHour(worker.now) \/ Today(worker.now) - 1 < saves[1]
    THEN 0 ELSE Today(worker.now) - 1

\* ListRoutinePlanContexts.
ListPlans ==
    /\ At("plans")
    /\ Reads(IF DueDate \in Date
             THEN [worker EXCEPT !.at = "create", !.list = Len(saves), !.date = DueDate]
             ELSE Leaves("list"))

\* INSERT ... ON CONFLICT DO NOTHING; a row that is there is taken as it is.
InsertCheckin ==
    LET d == worker.date IN
    /\ At("create")
    /\ IF checkin[d].list # 0 THEN Reads(GoesTo("card"))
       ELSE /\ checkin' = [checkin EXCEPT ![d] = [NoCheckin EXCEPT !.list = worker.list]]
            /\ Goes(GoesTo("items"))

\* The items follow, each in a statement of its own.
InsertItem ==
    LET missing == {i \in Item : checkin[worker.date].item[i] = "missing"} IN
    /\ At("items")
    /\ \E i \in missing :
        /\ \A j \in missing : i <= j
        /\ checkin' = [checkin EXCEPT ![worker.date].item[i] = "open"]
        /\ Goes(GoesTo(IF missing = {i} THEN "card" ELSE "items"))

\* The outcome of a delivery that did not succeed.  Refused, it is tried again in a
\* later pass, unless this was the last attempt; trouble of the service ends the tick.
\* With no answer it is suspended, and the message may be there.  A pass in which a
\* delivery waits for its next attempt is one in which it is refused again.
Defers(op, next) ==
    LET o == <<op, worker.date>> IN
    /\ o \notin suspended
    /\ \/ /\ suspended' \in {suspended, suspended \cup {o}}
          /\ worker' \in {next, Off}
          /\ UNCHANGED posted
       \/ /\ suspended' = suspended \cup {o}
          /\ worker' = Off
          /\ posted' = IF op = "routine_card" THEN posted \cup {worker.date} ELSE posted
    /\ UNCHANGED <<clock, saves, checkin, pending, call>>

NeedsCard(d) ==
    /\ ~checkin[d].completed /\ ~checkin[d].card /\ OpenItems(d) # {}
    /\ <<"routine_card", d>> \notin suspended

SkipCard == At("card") /\ ~NeedsCard(worker.date) /\ Reads(Leaves("list"))

SendCard ==
    /\ At("card") /\ NeedsCard(worker.date)
    /\ posted' = posted \cup {worker.date}
    /\ worker' = GoesTo("set card")
    /\ UNCHANGED <<clock, saves, checkin, pending, suspended, call>>

CardFails == At("card") /\ NeedsCard(worker.date) /\ Defers("routine_card", Leaves("list"))

\* SetRoutineCheckinCardMessageID, by id alone.
SetCard ==
    /\ At("set card")
    /\ checkin' = [checkin EXCEPT ![worker.date].card = TRUE]
    /\ Goes(Leaves("list"))

\* The UPDATE failed: the card is deleted again, and the tick ends.  (Not deleted, it
\* stays as it does when the worker stops.)
CardUndone ==
    /\ At("set card")
    /\ posted' = posted \ {worker.date}
    /\ worker' = Off
    /\ UNCHANGED <<clock, saves, checkin, pending, suspended, call>>

\* ListOpenRoutineCheckinContexts: what the loop below knows of the check-ins.
ListCheckins ==
    /\ At("list")
    /\ Reads([Leaves("transit") EXCEPT
                !.todo = {d \in Date : checkin[d].card /\ ~checkin[d].completed},
                !.reminded = {d \in Date : checkin[d].reminder = "stored"}])

\* Mutant: the deadline's day is missed.
AutoFailDueOnTheDay(d) == worker.now = Deadline(d)

AutoFailDue(d) == worker.now >= Deadline(d)

ReminderDue(d) ==
    /\ worker.now \in ReminderHour(d)..Deadline(d) - 1
    /\ checkin[d].reminder = "none" /\ <<"routine_reminder", d>> \notin suspended

\* The oldest check-in first; it is due to be failed, to be reminded of, or for nothing.
IsFirst(d) == d \in worker.todo /\ \A e \in worker.todo : d <= e
Taken(d, step) == [worker EXCEPT !.at = step, !.todo = @ \ {d},
                                  !.date = IF step = "transit" THEN 0 ELSE d]

Transit(d) ==
    /\ At("transit") /\ IsFirst(d)
    /\ Reads(Taken(d, IF AutoFailDue(d) THEN "clear"
                      ELSE IF ReminderDue(d) THEN "set reminder" ELSE "transit"))

TransitsDone ==
    At("transit") /\ worker.todo = {} /\ Reads([Leaves("claim") EXCEPT !.todo = Date, !.reminded = {}])

\* ClearRoutineCheckinPendingInput: a reason for this check-in is not expected any more.
ClearReason ==
    /\ At("clear") /\ ~HoldsPending
    /\ pending' = IF Expects("routine_reason") /\ pending.date = worker.date
                  THEN None ELSE pending
    /\ worker' = GoesTo("fail items")
    /\ UNCHANGED <<clock, saves, checkin, posted, suspended, call>>

\* Mutant: all items are failed, answered or not.
FailedAll(c) == [c EXCEPT !.item = [i \in Item |-> IF c.item[i] = "missing" THEN "missing" ELSE "failed"]]

Failed(c) == [c EXCEPT !.item = [i \in Item |-> IF c.item[i] = "open" THEN "failed" ELSE c.item[i]]]

\* AutoFailRoutineCheckin, first statement: it waits for an open item the API has changed.
FailItems ==
    LET d == worker.date IN
    /\ At("fail items")
    /\ \A i \in OpenItems(d) : ~HoldsItem(d, i)
    /\ checkin' = [checkin EXCEPT ![d] = Failed(@)]
    /\ Goes(GoesTo("close"))

\* Second statement: WHERE completed_at IS NULL.
CloseCheckin ==
    LET d == worker.date IN
    /\ At("close")
    /\ IF checkin[d].completed THEN Reads(Leaves("transit"))
       ELSE /\ checkin' = [checkin EXCEPT ![d].completed = TRUE, ![d].autoFailed = TRUE]
            /\ Goes(IF d \in worker.reminded THEN GoesTo("unremind") ELSE Leaves("transit"))

\* ClearRoutineCheckinReminderMessageID.
Unremind ==
    /\ At("unremind")
    /\ checkin' = [checkin EXCEPT ![worker.date].reminder = "cleared"]
    /\ Goes(Leaves("transit"))

\* The reminder was sent; SetRoutineCheckinReminderMessageID is by id alone.
SetReminder ==
    /\ At("set reminder")
    /\ checkin' = [checkin EXCEPT ![worker.date].reminder = "stored"]
    /\ Goes(Leaves("transit"))

ReminderFails == At("set reminder") /\ Defers("routine_reminder", Leaves("transit"))

\* Mutant: only those who were reminded are told.
AwaitsNoticeIfReminded(d) ==
    /\ checkin[d].autoFailed /\ ~checkin[d].noticed /\ checkin[d].reminder # "none"
    /\ <<"routine_close", d>> \notin suspended /\ d \in worker.todo

\* ClaimPendingRoutineAutoCloseNoticeContext takes and locks the oldest row.
AwaitsNotice(d) ==
    /\ checkin[d].autoFailed /\ ~checkin[d].noticed /\ checkin[d].card
    /\ <<"routine_close", d>> \notin suspended /\ d \in worker.todo

ClaimNotice(d) ==
    /\ At("claim") /\ AwaitsNotice(d)
    /\ \A e \in Date : AwaitsNotice(e) => d <= e
    /\ Reads([GoesTo("notice") EXCEPT !.date = d])

NoticesDone == At("claim") /\ (\A d \in Date : ~AwaitsNotice(d))
               /\ Reads([GoesTo("expire") EXCEPT !.todo = {}])

SendNotice == At("notice") /\ Reads(GoesTo("commit"))

\* A refused notice waits; the loop goes on with the others.
NoticeFails ==
    At("notice") /\ Defers("routine_close", [Leaves("claim") EXCEPT !.todo = @ \ {worker.date}])

CommitNotice ==
    /\ At("commit")
    /\ checkin' = [checkin EXCEPT ![worker.date].noticed = TRUE]
    /\ Goes(Leaves("claim"))

\* CleanupExpiredNotices: a reminder a day old is closed, the check-in open or not.
Expired(d) == checkin[d].reminder = "stored" /\ worker.now >= ReminderHour(d) + MaxAge

ExpireNotices ==
    /\ At("expire")
    /\ checkin' = [d \in Date |-> IF Expired(d) THEN [checkin[d] EXCEPT !.reminder = "cleared"]
                                  ELSE checkin[d]]
    /\ Goes(GoesTo("inputs"))

\* Mutant: an input with a reason to come is never stale.
StalePlan == Expects("routine_plan") /\ pending.at + MaxAge <= worker.now

Stale == pending # None /\ pending.at + MaxAge <= worker.now

\* CleanupStaleInputs; the tick goes on elsewhere.
CleanupStale ==
    /\ At("inputs") /\ ~(Stale /\ HoldsPending)
    /\ pending' = IF Stale THEN None ELSE pending
    /\ worker' = Off
    /\ UNCHANGED <<clock, saves, checkin, posted, suspended, call>>

\* The worker dies or the database fails: what was committed stays.
WorkerStops == ~At("off") /\ Reads(Off)

-----------------------------------------------------------------------------
UserActs ==
    \/ Configure \/ PlanRejected \/ PlanArrives \/ ReasonArrives
    \/ \E d \in Date, i \in Item, answer \in Answer : ItemPressed(d, i, answer)

ApiEnds == SetItemStatus \/ CommitPlan \/ CommitReasonPrompt \/ CommitAnswer \/ ApiAborts

TickSteps ==
    \/ TickBegins \/ ListPlans \/ InsertCheckin \/ InsertItem
    \/ SkipCard \/ SendCard \/ SetCard
    \/ ListCheckins \/ (\E d \in Date : Transit(d)) \/ TransitsDone
    \/ ClearReason \/ FailItems \/ CloseCheckin \/ Unremind \/ SetReminder
    \/ (\E d \in Date : ClaimNotice(d)) \/ NoticesDone \/ SendNotice \/ CommitNotice
    \/ ExpireNotices \/ CleanupStale

TelegramFails == CardFails \/ ReminderFails \/ NoticeFails
Breaks == TelegramFails \/ CardUndone \/ WorkerStops

Next ==
    \/ Advance \/ UserActs \/ ApiEnds \/ TickSteps \/ Breaks

(***************************************************************************)
(* Time passes, a handler ends one way or the other, and the worker loop   *)
(* ticks for ever; rows are locked first come, first served, so its        *)
(* statements are not kept waiting for ever.  Telegram, the database and   *)
(* the worker fail only finitely often.  No user action is fair.           *)
(***************************************************************************)
Fairness ==
    /\ WF_vars(Advance) /\ WF_vars(ApiEnds) /\ SF_vars(TickSteps)
    /\ <>[][Breaks => TickSteps]_vars

Spec == Init /\ [][Next]_vars
FairSpec == Spec /\ Fairness

-----------------------------------------------------------------------------
(* Properties.                                                             *)

\* A completed check-in has an answer for every item, is never closed before its
\* morning, and is marked as closed by the worker only after its deadline: although
\* the items and the check-in are closed by separate statements, the owner's answers
\* come in between, and completing does not test the row again.
ClosureExplained ==
    \A d \in Date : checkin[d].completed =>
        /\ OpenItems(d) = {}
        /\ clock >= CheckinHour(d + 1)
        /\ checkin[d].autoFailed => clock >= Deadline(d)

\* A reason that is expected is expected for the answer the item really holds.
ReasonFitsItem ==
    Expects("routine_reason") =>
        checkin[pending.date].item[pending.item] = pending.answer

\* done and partial are the owner's: no later press, reason or deadline changes them;
\* and nothing reopens a check-in or replaces its list.
AnswersStay ==
    [][\A d \in Date :
        /\ \A i \in Item : checkin[d].item[i] \in {"done", "partial"} =>
                checkin'[d].item[i] = checkin[d].item[i]
        /\ checkin[d].completed => checkin'[d].completed
        /\ checkin[d].list # 0 => checkin'[d].list = checkin[d].list]_vars

\* What closed a check-in, if it is closed.
ClosingOf(c) == IF ~c.completed THEN "open" ELSE IF c.autoFailed THEN "deadline" ELSE "owner"

Lifecycle == INSTANCE CheckinLifecycle WITH
    List <- 1..MaxSaves,
    Opening <- [d \in Date |-> CheckinHour(d)],
    Morning <- [d \in Date |-> CheckinHour(d + 1)],
    Evening <- [d \in Date |-> ReminderHour(d)],
    End <- [d \in Date |-> Deadline(d)],
    list <- [d \in Date |-> checkin[d].list],
    asked <- {d \in Date : checkin[d].card},
    reminded <- {d \in Date : checkin[d].reminder # "none"},
    answer <- [d \in Date |-> checkin[d].item],
    closing <- [d \in Date |-> ClosingOf(checkin[d])],
    told <- {d \in Date : checkin[d].noticed}

\* The rows implement the lifecycle of a check-in: made once, asked for, reminded of and
\* told of at most once and never before its time, closed once, an answer overwritten only
\* where the deadline has failed the item: although the worker's statements and the API's
\* commits act on what they read before.
ImplementsCheckin == Lifecycle!Spec

\* A check-in with a card is closed in the end, by its owner or by the deadline.
CardsClose == \A d \in Date : checkin[d].card ~> checkin[d].completed

\* The end of a check-in the worker closed is told, unless the delivery is suspended.
NoticesArrive ==
    \A d \in Date : checkin[d].autoFailed /\ checkin[d].card ~>
        checkin[d].noticed \/ <<"routine_close", d>> \in suspended

\* A reason may be asked for while the deadline closes its check-in.  No answer is
\* accepted then, and its update is retried with every later one waiting, but not
\* for ever: the expectation is dropped a day later.
Orphan == Expects("routine_reason") /\ checkin[pending.date].completed
          /\ pending.at + MaxAge <= MaxClock
ReasonsEnd == Orphan ~> ~Orphan
=============================================================================
