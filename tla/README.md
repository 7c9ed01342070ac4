# Trackmate, formally

Trackmate is a Telegram bot for small accountability groups. This directory
holds TLA+ models of its stateful core, the TLC configurations that check them
and TLAPS proofs about them. Paths below are relative to the repository
(`src/`); `PROJECT.json` maps every definition to the lines it models.

## 1. The system

Three programs share one PostgreSQL database and one Telegram bot account.

| part | state it keeps | operations | what makes it hard |
|---|---|---|---|
| **API** `cmd/trackmate-api`, `internal/bot` | the polling offset, in memory | polls `getUpdates`, handles one update after another; a handler is one or several transactions with Telegram calls inside | a failing handler is called again; Telegram calls are not rolled back; handlers interleave with the worker |
| **Worker** `cmd/trackmate-worker`, `internal/worker` | a PostgreSQL advisory lease | a tick: day transitions, check-ins, cleanups, reviews, alerts, progress events | crash between two steps; a lost session does not stop the tick; API steps between its statements |
| **Daily tasks** `app/today`, `storage/postgres/today.go`, `bot/service.go` | `daily_tasks`, `daily_task_alerts`, `pending_inputs`, `progress_events` | add, text, status, report, late report, dismiss; midnight and noon transitions | decisions taken from a read and applied later; the row count of an UPDATE is not looked at |
| **Outboxes** `app/alerts`, `app/progress`, `storage/postgres/worker.go` | `dispatch_status`, message ids, claims | claim, send, mark, requeue, compensate; dismissal by the API | lost answers, reclaim of an old claim, two workers on one row |
| **Delivery retries** `app/delivery`, `storage/postgres/retries.go` | `worker_delivery_retries` | record a failure, back off, suspend, clear | two clocks, budget and cap |
| **Routines** `app/routine`, `bot/routines.go`, `storage/postgres/routines.go` | plans, check-ins, items, notices | dispatch, press, reason, remind, auto-fail, notice | several autocommit statements per step |
| **Goals** `app/goals`, `bot/goals.go`, `storage/postgres/goals.go` | goal sets, reviews every two weeks ("weekly" in the code) and final reviews | configure, prompt, remind, skip, answer; status, reflection and completion of the final review | API and worker take the same rows in opposite orders |
| **Monthly report** `app/monthlyreport` | `monthly_reports` | status, validate, publish | concurrent operators, one send ever, lost receipts |
| **Telegram client** `telegram/client.go` | the rate limit calls share | one call of up to three attempts | outcomes nobody knows; a request carried out after the call has given up; a gateway's 5xx; a limit that outlives its call |
| **Setup** `app/setup`, `bot/service.go`, `storage/postgres/workspace.go` | workspace, topic bindings and the messages they name | create and recreate topics, send or replace their messages, refresh the leaderboard | Telegram calls inside a transaction; errors passed over; two other processes replace the leaderboard |
| callback authorisation, formatting, messages, configuration, logging, control server | none of their own | | not modelled |

The API and the worker never call each other: they meet in PostgreSQL rows (READ
COMMITTED, row locks) and in Telegram messages. A handler or a tick that needs
something of the user leaves a row in `pending_inputs`, one for each user and
thread; the next message of that user in that thread consumes it.

## 2. Modules

| module | models | checked by | proofs |
|---|---|---|---|
| `DailyTasks` | the entries of the Today thread, API transactions and the worker's transition transaction as separate steps with their row locks | `MCDailyTasks*.cfg` | `DailyTasksProofs` |
| `DailyLifecycle` | what an entry promises: stages and a clock | property `ImplementsLifecycle` | refinement, in `DailyTasksProofs` |
| `Outbox` | alert and progress queues, the lease, retries without their minutes, dismissal | `MCOutbox*.cfg` | `OutboxProofs` |
| `DeliveryLifecycle` | what the outboxes promise of a delivery while workers take turns: in hand, sent, waiting, suspended, settled | property `ImplementsDelivery` | refinement, in `OutboxProofs` |
| `DeliveryRetry` | the retry row in minutes, counted from the present, with the time a pass has read and the database clock | `MCDeliveryRetry.cfg` | `RetryProofs` |
| `MonthlyReport` | publication by concurrent operators, requests on the wire | `MCMonthlyReport.cfg` | `MonthlyReportProofs` |
| `MonthlyPost` | at most one post, one verdict | property `ImplementsMonthlyPost` | refinement, in `MonthlyReportProofs` |
| `Routine` | one participant's list and check-ins, the worker's statements one by one, API transactions in two or three steps | `MCRoutine.cfg` | `RoutineProofs` |
| `CheckinLifecycle` | what a check-in promises: made, asked for, reminded of, answered, closed, told | property `ImplementsCheckin` of `Routine` | refinement, in `RoutineProofs` |
| `Goals` | one participant's goal sets, the reviews every two weeks, the final reviews and the input they share; worker's statements and API transactions with their row locks | `MCGoals.cfg` | `GoalsProofs` |
| `SeasonLifecycle` | what a season promises: its reviews one at a time, then the final one | property `ImplementsLifecycle` of `Goals` | refinement, in `GoalsProofs` |
| `TelegramClient` | calls one after another, the attempts of one call, what becomes of its requests, the shared limit | `MCTelegramClient.cfg` | `TelegramClientProofs` |
| `Setup` | a press of setup:start step by step, the forum it works on, deletions by people, refreshes of the leaderboard by both processes | `MCSetup.cfg` | `SetupProofs` |
| `UpdatePoller` | the `getUpdates` loop, restarts, failed handlers | `MCUpdatePoller.cfg` | `RetryProofs` |
| `UpdateQueue` | what the loop promises: a queue whose updates each process completes one after another | property `ImplementsQueue` | refinement, in `RetryProofs` |

**How state and actions correspond to the code.** One variable stands for one
table column or one local value that survives between two database or Telegram
calls. A single SQL statement is one action. A transaction is split where
another process can act between its statements with an effect: in `DailyTasks`
a handler's guards are read by one action (`AddPressed`, `StatusPressed`,
`ReportArrives`), a waiting UPDATE is a second (`SubmitUpdate`), the COMMIT with
everything written since is a third (`Commit...`); `ApiAborts` and `TickAborts`
are the rollbacks. The tick reads (`TickBegins`), updates row by row
(`TickUpdates`, which waits for the API's row lock) and commits. The handler's
inserts and acknowledgements are part of its commit action: nobody sees them
earlier. `Outbox` has no transactions around its steps because the code has
none: every claim, send, mark and requeue is an action, and any of them may be
the last (`Dies`). `Routine` is built the same way on the worker's side (`InsertCheckin`,
`InsertItem`, `FailItems`, `CloseCheckin`: autocommit statements, any may be the last,
`WorkerStops`) and like `DailyTasks` on the API's: a press or a reason is read
(`ItemPressed`, `ReasonArrives`), its UPDATE is tested against the committed row
(`SetItemStatus`), and the rest is visible at the commit (`CommitAnswer`). Only the
closing notice is sent with its row locked (`ClaimNotice` to `CommitNotice`).

`Goals` has the reads of the worker one by one (`AdvanceReview`, `ReadInput`, `SendPrompt`) and
its two transactions in two steps each: the UPDATE of the review (`LockReview`, `SkipReview`), then
the one of the input with the COMMIT (`StorePrompt`, `CommitSkip`). The API's answer takes the rows
in the other order, the input with `ReviewArrives` and the review with `SubmitReview`; each
statement waits for the other process's rows (`ApiHoldsInput`, `ApiHoldsReview`,
`WorkerHoldsReview`). When both wait PostgreSQL ends one: `ApiAborts` or `WorkerStops`. The status of a
final review is read, committed, and perhaps followed by a second prompt with a transaction of its own
(`StatusPressed`, `CommitStatus`, `CommitFallback`). Instants are 24 hours apart, at an hour at which
reviews are due: a reminder follows at the next one, and at the third one 71 hours are over.

`TelegramClient` has one action for each way an attempt can end (`callOnce`, `callJSON`): not written, refused,
throttled, answered, answered and not decoded, answered by a gateway, or lost. The last two set the request
`adrift`: it may be carried out at any later time (`ArrivesLate`) or never. The other modules take what a caller may
conclude from an error from here: `VerdictsAreTrue` is what `Outbox` and `MonthlyReport` build on.

`Setup` has the whole `EnsureWorkspaceTopics` as one open transaction (`TransactionBegins`, then `KeepsTopic` or `CreatesTopic` for
each topic, `Commits`), because its rows are seen by nobody before the commit but its topics are in
the chat at once; then `ensureTopicMessage` for one slot after the other (`KeepsMessage`, `SendsMessage`,
`StoresMessage`). Whatever fails is one of the actions that count as a `fault`; `Breaks` is a rollback or the death of
the process, after which the poller hands the update in again. `fresh` holds the threads the open
transaction has bound, `note` the message a writer has sent and not stored. `astray` and `strays` are history variables:
what a failed step has left in the chat; so are `whole` and `quiet`, which say that a setup began with everything in place and has not
been disturbed since.

Left out everywhere: texts, links, formatting, logging. Cards (messages of an
open task) and edits of old messages are left out of `DailyTasks`: they change
no status. The text of the leaderboard is computed from the routines' rows and decides nothing; its message is
part of `Setup`. Of routines the dismissal and the expiry of closing notices are left out. Of goals the nudges
are left out, and so are the cards and prompts in the chat, but for the final prompt with its buttons. Participants, topics and the workspace exist from the start,
except in `Setup`.

## 3. Runs

| run | states | what it shows |
|---|---|---|
| `daily_tasks` | 278 602 | one day at or east of UTC and one west of it: never two open tasks; every closed row explained by its report, events and alert; nothing counted twice; closed is final; the lifecycle is implemented; every entry closes in the end |
| `daily_tasks_late_event` | violation | finding 1 below |
| `outbox` | 1 630 499 | two workers, one past its lease: no copy of a message is forgotten, settled rows stay settled |
| `outbox_queues` | 802 500 | one worker, both queues: the rows implement the lifecycle of deliveries; events settle although alerts go first and may fail for ever |
| `outbox_ack_race` | violation | finding 2 |
| `delivery_retry` | 1 003 616 | the budget lasts 127 minutes for a delivery that is run, and 64 for a row that is claimed; every delivery is made or suspended in the end |
| `monthly_report` | 8 441 | at most one post, true receipts, the abstract post |
| `routine` | 480 053 | a check-in is closed only with every item answered and at its time, whatever happens between the statements; an expected reason fits its item; the rows implement the lifecycle of a check-in; cards close; notices come; no reason is expected for ever |
| `goals` | 145 071 | an expected input belongs to a review that accepts it; the final review waits for open ones; what is over stays; the rows implement the lifecycle of a season; every review ends, and the final one is asked for |
| `telegram_client` | 910 735 | a call puts at most one message into the chat unless a gateway answered; verdicts are true; the limit is held; every call ends |
| `setup` | 802 558 | nothing in the chat is forgotten but by a failed step; messages are in their topic; live topics are kept; an undisturbed setup repairs what is missing and repeats nothing |
| `update_poller` | 10 674 | nothing lost, completed in order, the loop implements the queue, so only a restart repeats, from the first update not forgotten; completed in the end |

**Bounds and why they are enough.** `DailyTasks`: participants share no row, so
one is enough; two days let an old task, a new one and a summary meet; two
outcomes are told apart from "failed by the deadline". The clock knows the
instants at which a rule changes its answer (midnight, noon, 20:00) and nothing
between. `West` is the set of days that begin later in the zone than in UTC: none east of Greenwich, all in America,
some where only summer time makes the difference. The run has one of two, and was repeated with none
(247 316 states) and both (356 022). `Outbox`: two workers on one row are the reclaim race and a third would
only repeat it; `Budget` is 2 or 3 instead of 8 because only "last failure" and
"not yet" differ (`DeliveryRetry` has the 8); `MaxSends` is the number of copies
Telegram may accept. `DeliveryRetry`: times are relative to the present and the clock never stops; 127 minutes since the
first failure are told apart, the least that eight refusals of a delivery that is run take. `Routine`: two items let one be answered while the other is failed; one day
runs from its list to a day after its deadline, and days share nothing but the list and
the input, which another day could only occupy; two lists let one replace the other at any time (the
invariants and the inductive invariant were also checked with two days and one item, 12 million states; the lifecycle, with
the invariant its proof adds, with all three answers, and with two days and one item). `Goals`: one season with one review has every
meeting of a review, the final review, the setup and their input; a second review is due long after the first
is over (the invariants, both inductive ones among them, and the refinement were also checked with two reviews of a season, 2.2
million states; two seasons are beyond TLC, and what they share is what the proofs are for). `MonthlyReport`: three operators with two texts give a winner, a rerun
with the winner's text and a rival with another. `UpdatePoller`: four updates give
batches that end before, at and after a failure; two restarts let a repetition be
repeated. `TelegramClient`: two calls, because what a call leaves behind, a limit or a request adrift, meets the next one
and nothing reaches a third that did not meet the second; three attempts as in the code; a clock of 3 with waits of up to 2 lets a
limit be renewed after the one before has passed. `Setup`: two topics, so that a transaction can break between
them, with two messages in the second; two presses, one deletion and one fault anywhere let the second press repair what the first
left; two refreshes can overlap with each other and with setup. `MaxThreads` and `MaxMessages` are never reached.

**Deadlock** is checked in every run but two. The models never stop: a tick, a dismissal
or a poll is always possible. In `telegram_client` the bounds on calls and time, and in `setup` those on presses and
refreshes, let the model come to an end, as a bot nobody talks to does.

**Fairness and why.** The worker loop ticks for ever (`cmd/trackmate-worker`), a
handler ends by commit or rollback, and time passes. PostgreSQL serves a row's
lock queue in order, hence strong fairness of a waiting UPDATE of the tick.
Processes die and the database fails only finitely often; Telegram may fail for
ever, except in `Routine` and `Goals`, where it too fails finitely often: a card or a reminder that is
refused for ever is suspended (`Settles`), and a check-in without a card is never
closed. In `UpdatePoller`, Telegram answers a poll with something new in the end and a
handler that is called again and again succeeds in the end: the code retries the
head of the line for ever, so without it one update keeps every later one waiting.
In `DeliveryRetry`, passes begin and end, and an attempt is strongly fair: a pass may break off
before it comes to a delivery that is due, but not every time.
In `TelegramClient`, time passes, the process runs, and the timeout of the HTTP client ends every request; nothing is assumed of the answers.
In `Setup` only the handler of a press is fair, which the poller calls until it succeeds; nothing is assumed of the
refreshes. No user action is fair.

**Time zones.** A `task_date` comes back from the database as midnight UTC, and `NextDailyTaskTransition`
converts it to the zone (`domain/rules.go:378`, `DateInZone`). `NextMidnight` and `NoonAfter` are the deadlines
the code computes from it, `PromisedMidnight` and `PromisedNoon` those that `ClosureRecorded` and `ImplementsLifecycle` state:
of days at or east of UTC the documented ones, midnight at the end of the day and the noon after it. **Of days
west of UTC they claim the deadlines of the documentation no longer**, only that nothing happens before the midnight
that begins the day and its own noon; see the first item without a run in section 4. All other properties hold of
all days.

## 4. What disagrees

1. `storage/postgres/today.go:181`: a report that read an open task and waited
   for the tick's lock inserts the closed event although its UPDATE matched no row;
   `docs/architecture.md:118-121` excludes it. `OnlyOverlapsMixEvents` proves that nothing else leads there:
   as long as no report has read an entry that the tick has listed or changed, an entry has a closed event exactly
   when its owner closed it.
2. `bot/service.go:714`: an alert being sent while it is dismissed is
   acknowledged and its message appears afterwards (`docs/architecture.md:133-139`).
   `OnlyOverlapLeavesButtons` proves that nothing else leads there: as long as no worker has the row in its hands while it is
   dismissed, no acknowledged alert keeps its buttons.

Seen and not checked by a violation run:

- `domain/rules.go:378`, a bug: `taskDate.In(location).Date()` of a DATE read as midnight UTC is the day before in every zone
  west of UTC, and the zone is any that the host knows (`internal/config/config.go:38`). There an entry of today is
  asked for a report from the first tick of its own day on and failed at noon of the same day; a task added in the afternoon or
  a summary of the evening is failed by the next tick, with its alert and its event. `docs/architecture.md:258-268` has midnight and noon of the
  day after, the comment at `domain/rules.go:325-326` says that such a conversion moves the date, and goals, which go through
  `calendarDate`, have a test for it (`domain/rules_test.go:412`); the test of the daily transitions is in UTC only
  (`domain/rules_test.go:20-35`). `WestClosesOnItsDay` proves it of the model, for every such day; the violation is not a run of its own, but
  setting `PromisedMidnight(d)` to `DayEnd(d)` makes `daily_tasks` fail in both `ClosureRecorded` and `ImplementsLifecycle`.
- `worker/worker.go:151`: the wait counts from the start of the pass and is compared with the live clock, so a
  refused row is claimed again at once in a long pass (`docs/architecture.md:282`). `GivesUpLate` states what remains: 64 of
  the 127 minutes.
- `domain/rules.go:160`: a list replaced after 08:00 keeps today's check-in with the old list; the due one of the day
  before, if the worker has not made it yet, is made from the new list (`docs/architecture.md:165-166`). The unit
  test agrees with the code, and `Routine` does what the code does.
- A topic created in a transaction that fails, or by a request whose answer is lost, stays in the chat
  beside the one that the next attempt creates (`app/setup/setup.go:69`), and so does a message whose id is not stored
  (`bot/service.go:744`): `docs/architecture.md:73` calls setup idempotent. `NothingLost` says that only a
  failed step leaves anything behind, `SetupIsIdempotent` that an undisturbed setup repeats nothing.
- Two refreshes of the leaderboard, or a refresh and a setup, that overlap both find the message gone: two leaderboards
  appear and the row names one; or it names one of the thread that setup has just replaced, until the next refresh (`MessagesInTopic`
  allows for that one, `app/routine/routine.go:290`).
- `createForumTopic` is repeated after a broken connection like any call that is not `sendMessage`
  (`telegram/client.go:269`), and may create two topics.
- A 502 or 504 to `sendMessage` is taken for a refusal and retried (`telegram/client.go:243`); if Telegram has
  carried the request out, the chat gets a second message (`OneMessage` counts these answers). `Outbox` takes a plain
  failure as "nothing sent", which is true but for them (`VerdictsAreTrue`).
- An answer with `ok` false and no description is taken for a success (`telegram/client.go:329`); Telegram explains every
  refusal, and `TelegramClient` has no such answer.
- `app/today/today.go:34`, the mirror image of finding 1: a tick that read an open entry and waited for the
  report's lock gives an entry its owner has just closed an overdue alert and an `auto_failed` event
  (`docs/architecture.md:264-266`). `ClosureRecorded` of `DailyTasks` allows for it.
- A worker without its lease (its session died, its tick goes on) records an ordinary
  failure over another worker's lost answer and lifts the suspension
  (`storage/postgres/retries.go:20`, `docs/operations.md:286`). `MCOutboxQueues.cfg` with
  two workers shows it in a second (`ImplementsDelivery` fails); `LeaseGuardsDelivery` proves that it takes a lost session.
- A crash between the insert of a check-in and of its items leaves it incomplete: the next tick
  takes the row as it is (`storage/postgres/routines.go:204-213`). Without any item it
  gets no card, and without a card it is never closed (`app/routine/routine.go:82`).
- An answer committed between the two statements of the auto-fail leaves items the worker
  failed in a check-in with `auto_failed_at` NULL; one committed after them
  changes a check-in that is closed (`storage/postgres/routines.go:465`).
- A reason asked for while the deadline closes its check-in is refused with an error, and the poller
  repeats the update, and no other, until the input is a day old (`ReasonsEnd`).
- A commit that fails after the closing notice was sent leads to a second notice.
- `docs/architecture.md:270-271` says permanent failures
are marked failed, while 400 and 403 are deferred and then suspended with the row still
pending.
- A repeated `task:status` deletes the prompt message of the expected input,
  which may be the card (`bot/service.go:633`).
- The input of the Goals thread is read, a message is sent, and the input is written over whatever is there
  (`app/goals/goals.go:94` and `:219`, `bot/setup_prompt_lifecycle.go:24` and `:60`). A prompt of the
  worker and a `goals:configure` at the same time lose one of the two; if it is the review's, nothing answers
  it until its reminder a day later, while `docs/product/routines-goals.md:47` says it stays available for 71
  hours, and a review that loses it after the reminder can only be skipped.
- The refusals of `SubmitGoalWeeklyReview` are out of reach: a skipped review takes its input along, and the second answer the
  statement would admit finds no input (`InputAnswerable`, proved).
- A review whose first prompt could not be sent for a day is asked for when it can be, and its 71 hours start
  then (`app/goals/goals.go:115`, `storage/postgres/goals.go:196`), also after the season's end.
- A card of a review may be edited before the commit of its answer fails (`bot/goals.go:114`).

## 5. Proofs

Every theorem is for all values of the constants that satisfy the named assumptions
of its module (`DayAssumption`, `ZoneAssumption`, `OutcomeAssumption`, `RowAssumption`, `BudgetAssumption`,
`BoundsAssumption`, `AnswerAssumption`, `ClockAssumption`, `SetupAssumption`, `NoneAssumption`); they only say that bounds are
naturals, that the days west of UTC are among the days, that the clock of `DeliveryRetry` reaches the 127 minutes that are told apart, that rows are
numbered, the messages of a setup are distinct, and `None` is no value of anything else. The type invariants
of the modules with proofs are proved and not checked again by their runs.

- `DailyTasksProofs`. `OneOpenTask` is not inductive: the text that creates a task
  does not repeat the button's guard. What keeps it true is `PendingExcludesOpenTask`
  (while a text is expected no task is open, and nothing else can open one).
  `ClosureRecorded` needs `RowHistory` (what each kind of row says of its events
  and alert), `CallKnows` (what the API's open transaction has read is still true
  enough, its row cannot have changed under its lock) and `TickKnows` (the same of the
  tick: what it planned was due, what it has locked is still open). Their
  conjunction with `TypeOK` is `IInv`; one lemma per action shows that it is kept.
  `ClosedRowsAreFinal` and `RefinesLifecycle` follow from it step by step:
  each commit maps to one abstract action, everything else to a stutter.
  All of them hold for every set `West`; `PromisesKept` ties the code's deadlines to the promised ones.
  `WestClosesOnItsDay` is about the code's deadlines alone: which ticks touch an entry on its own day.
  `OnlyOverlapsMixEvents` is the proof behind finding 1. Its hypothesis `[]Uncontended` keeps reports and ticks of the
  same entry apart and nothing else, and it needs `NobodyOvertaken`: an UPDATE finds its row as it was read.
- `OutboxProofs`. `IInv` adds `WorkersKnow` (a worker holds a message only between
  send and mark or undo) and `StoredWhenSent` (a stored message belongs to a
  sent row). `NoForgottenCopy` and `SettledRowsStay` rest on the guard of every
  UPDATE on the claim. `ImplementsDelivery` is false with several workers, because a session may die unnoticed, so it is proved under
  what it needs: one worker active at a time (`RefinesDelivery`). `TurnsKnow` is what the steps rest on then: until it has a
  verdict a worker's claim is open and its row neither waits nor is suspended, it marks only what it has sent and confirms
  what it has marked (`Turn`), and a row whose budget is used up is suspended (`BudgetSuspends`). A claim of a stale row, a
  lookup, a compensation and everything about leases and dismissals are stutters; each other statement is one step of
  `DeliveryLifecycle`. The condition holds with one worker (`OneWorkerSuffices`), and with any number as long as no session is lost
  (`LeaseExcludes`, `LeaseGuardsDelivery`): workers still die and start again as they like. That a suspended row rests
  (`SuspensionRests`) follows from the lifecycle alone. `OnlyOverlapLeavesButtons`
  is the proof behind finding 2; `DismissalKnows` says that what a dismissal has read of the row is still so.
- `MonthlyReportProofs`. `OneOwner` (only the process that inserted the row sends),
  `NothingSent`, `OneRequest`, `OnePost`, `TrueVerdict`, `TrueRow` and
  `TrueReceipts` together are inductive; `MonthlyPost` is implemented.
- `RoutineProofs`. Neither `ClosureExplained` nor `AnswersStay` is inductive: no
  statement tests again what the API or the tick has read. `IInv` adds what makes that
  harmless: a check-in that has a card, is closed or is being answered has its list, its
  items and its morning (`RowsKnow`, `Answerable`), a press in flight finds its item open or
  failed and no input expected, a reason finds the answer it was asked for (`CallKnows`,
  `InputKnows`), and the tick between its statements has the deadline behind it and no open
  item before it closes (`WorkerKnows`). `RefinesCheckin` shows that `CheckinLifecycle` is implemented, and needs `RInv`
  besides: what the tick decided from a list it read earlier is still to be written when it writes it. The card it is about
  to store is not stored, the reminder not sent, the notice not told, what it fails has a card (`TickTells`); an item that is pressed
  over a failure was failed by the deadline (`ApiTells`); only answerable check-ins have answers, only closed ones the worker's mark
  (`RowsTell`). Each statement and each commit is then one step; a press that is committed with its reason still to come is
  `NotDone`, the reason `Explain` if it was the last, and the API's reads are stutters. The lifecycle allows for the crash that leaves a check-in without some of
  its items, and says that nothing is added once the card is known. `AnswersStay` follows from the lifecycle and is not checked again by the run.
- `GoalsProofs`. No statement compares the input with the review it is for, and the UPDATE of an answer
  does not look for an earlier one. `InputAnswerable` becomes inductive with what each process knows
  between its statements: the API's answer is for the input that is there and not for a review the worker has
  changed (`CallKnows`), the worker that has changed a review has it open and unlocked by the API, and creates
  one only before its season ends (`WorkerKnows`). `FinalWaits` needs `FinalsOver`: a season
  with a final prompt has ended, on the clock and for the tick, with no open review, so no step can open
  one. `ReviewsAreKept` follows step by step: who writes a review has found it open or not there.
  `RefinesLifecycle` needs `RInv` besides: what the tick chose to do with a review in one statement is still right when it does
  it in another. A review it creates is due and no other is open, one it skips has had its time, one it reminds of was asked
  for once, and a final review has no mark before its season is over (`ReviewsKnow`). Each commit is then one step of
  `SeasonLifecycle`; the second press of a status, a further reflection and all reads are stutters.
- `RetryProofs`, of the poller: `Below` and `Past` tie the offset, the batch and what
  Telegram has forgotten to the log of completed handlers. `RefinesQueue` needs `QInv` besides: what Telegram keeps
  begins no later than where the process is to go on (`BatchInPlace`), and the completed updates are a prefix of what was
  sent (`SomeCompleted`), whose length the abstract queue counts.
- `RetryProofs`, of the retries: `GivesUpLate` is not inductive, as it looks at the budget's end only. `Waited` says what has
  passed after n failures: for a delivery that is run at least 2^n - 1 minutes, the wait in progress included; a claimed one's waits
  may overlap, so of it only that the longest, before its last attempt, is over or in progress. `DueKnown` says that a delivery found due
  has had its wait by the time its pass had read, and that the pass's own minutes come on top, which is what the stale
  time of the pass puts at risk. Passes may take any time and break off anywhere.
- `TelegramClientProofs`. `OneMessage` is not inductive: whether an attempt may be repeated depends on what the ones before
  may have done. `Counted` says of the call in progress that all it may have sent was answered by a gateway, and that a
  `SendMessageOnce` has sent nothing yet; `Limits` that the limit is the latest that was named, whichever call named it.
- `SetupProofs`. `IInv` has what each writer still means to write: the threads of the open transaction belong to topics whose old
  thread is gone (`Opened`), the message setup has sent is for the slot it is at and what it replaces is no longer
  used (`Noted`, `Replaced`), what it has read of the controls still to come is what the rows say (`Current`), a
  refresh has read the present thread or one that is gone (`Aimed`, `Held`), and an undisturbed setup still has everything in
  place (`Calm`).

Only model-checked are the liveness properties (`EntriesClose`, `EventsSettle`,
`UpdatesComplete`, `CardsClose`, `NoticesArrive`, `ReasonsEnd`, `ReviewsEnd`, `FinalAsked`, `CallsEnd`, `SetupRepairs`, `Settles`), which
TLAPS cannot treat. Every safety property of a passing run is proved, `ImplementsDelivery` under the condition above. What
`ClosureRecorded` and `ImplementsLifecycle` of `DailyTasks` say of deadlines is the documented promise for days at or east of UTC only.

## 6. Not modelled

- Texts and cards: the payload of an event against an edit of its source message (`handleEditedMessage`), cards sent in a
  transaction that rolls back, the prompts and cards of goals and routines in the chat, nudges, the removal of old messages. They decide
  nothing that the models state, and their hazards are listed without a property.
- Of setup the checklist message (`upsertSetupMessage`), titles, pins and the pre-flight of the bot's rights beyond its
  refusal. A workspace is alone in `Setup`, as no row is shared between two.
- The read-only snapshot and the text checks of `monthlyreport.Prepare`, and the dismissal and the expiry of closing notices.
- Telegram keeps an update it could not deliver for 24 hours. In `UpdatePoller` it keeps it until it is confirmed: an update older
  than that, behind one whose handler fails for a day or while the bot is down, is lost and is not in the model.
- Callback authorisation is a filter without state in front of the handlers; formatting, configuration, logging, the control
  server, the migrations runner and the health check keep no state of their own.

What would come next: the composition of `TelegramClient` with `Outbox`, which
shares its verdicts and not yet its requests.
