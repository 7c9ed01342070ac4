------------------------------- MODULE Goals -------------------------------
(***************************************************************************)
(* One participant's seasonal goals, the reviews asked for every two weeks *)
(* and the final review of a season.                                       *)
(*                                                                         *)
(* The worker reads the reviews and the input of the Goals thread in       *)
(* separate statements, sends a prompt, and stores the prompt with the     *)
(* input it waits for in a transaction that takes the review first.  The   *)
(* API takes the input first.  Handlers that write nothing another process *)
(* decides on between their read and their COMMIT are one action.  The     *)
(* texts, the season's nudges and the prompts left in the chat, but for    *)
(* the final one with its buttons, are left out.                           *)
(***************************************************************************)
EXTENDS Integers

CONSTANTS
    Seasons,    \* bound: seasons 1..Seasons, one goal set each
    Reviews,    \* reviews of a season
    Fortnight,  \* instants from a review to the next one
    None

ASSUME BoundsAssumption == /\ Seasons \in Nat \ {0} /\ Reviews \in Nat \ {0}
                           /\ Fortnight \in Nat \ {0}

(***************************************************************************)
(* Instants are 24 hours apart, at an hour at which reviews are due; 71    *)
(* hours have passed at the third.                                         *)
(***************************************************************************)
ReminderDelay == 1
SkipAfter == 3
MaxAge == 1                     \* of a stale input

Set == 1..Seasons
Week == 1..Reviews
StartsOn(s) == (s - 1) * Reviews * Fortnight
EndsOn(s) == s * Reviews * Fortnight
DueOn(s, w) == StartsOn(s) + w * Fortnight - 1
MaxClock == EndsOn(Seasons) + SkipAfter + 1      \* bound: the last review, asked for late, is over
Instant == 0..MaxClock
Season(t) == t \div (Reviews * Fortnight) + 1

\* "none": no row.  A reminder is a second prompt that replaces the first.
Review == [state : {"none", "open", "answered", "skipped"}, requested : Instant,
           prompt : {"none", "first", "second"}]
NoReview == [state |-> "none", requested |-> 0, prompt |-> "none"]
FinalReview == [prompted : BOOLEAN, status : BOOLEAN, summary : BOOLEAN, completed : BOOLEAN]
NoFinalReview == [prompted |-> FALSE, status |-> FALSE, summary |-> FALSE, completed |-> FALSE]

Pending == [kind : {"goals"}, at : Instant]
             \cup [kind : {"weekly"}, set : Set, week : Week, prompt : {"first", "second"}]
             \cup [kind : {"final"}, set : Set]
Call == [op : {"setup"}] \cup [op : {"status", "fallback"}, set : Set]
          \cup [op : {"weekly", "submitted"}, set : Set, week : Week]

ASSUME NoneAssumption == None \notin Pending /\ None \notin Call

Job == {"none", "create", "goal_weekly", "goal_reminder"}
Step == {"off", "inputs", "sets", "weekly", "pending", "create", "send", "lock", "store", "skip",
         "clear", "final sets", "final", "final pending", "final send", "final set"}
WorkerState == [at : Step, now : Instant, todo : SUBSET Set, set : Set \cup {0},
                week : Week \cup {0}, job : Job]
Off == [at |-> "off", now |-> 0, todo |-> {}, set |-> 0, week |-> 0, job |-> "none"]

\* A delivery is known by its operation and its review; a final review has no week.
Delivery == ({"goal_weekly", "goal_reminder"} \X Set \X Week) \cup ({"goal_final"} \X Set \X {0})

VARIABLES
    clock,
    goals,      \* seasonal_goal_sets
    review,     \* seasonal_goal_weekly_reviews, committed
    final,      \* seasonal_goal_final_reviews, committed
    posted,     \* sets whose final prompt is in the chat
    pending,    \* the input expected in the Goals thread
    suspended,  \* deliveries given up: worker_delivery_retries with exhausted set
    call,       \* the API's open transaction
    worker      \* where the tick is

vars == <<clock, goals, review, final, posted, pending, suspended, call, worker>>

TypeOK ==
    /\ clock \in Instant
    /\ goals \in SUBSET Set
    /\ review \in [Set -> [Week -> Review]]
    /\ final \in [Set -> FinalReview]
    /\ posted \in SUBSET Set
    /\ pending \in Pending \cup {None}
    /\ suspended \in SUBSET Delivery
    /\ call \in Call \cup {None}
    /\ worker \in WorkerState

Init ==
    /\ clock = 0
    /\ goals = {}
    /\ review = [s \in Set |-> [w \in Week |-> NoReview]]
    /\ final = [s \in Set |-> NoFinalReview]
    /\ posted = {}
    /\ pending = None
    /\ suspended = {}
    /\ call = None
    /\ worker = Off

Advance ==
    /\ clock < MaxClock
    /\ clock' = clock + 1
    /\ UNCHANGED <<goals, review, final, posted, pending, suspended, call, worker>>

Expects(kind) == pending # None /\ pending.kind = kind
ExpectsReview(s, w) == Expects("weekly") /\ pending.set = s /\ pending.week = w
WithoutReview(s, w) == IF ExpectsReview(s, w) THEN None ELSE pending

\* GetOpenGoalWeeklyReview.
OpenWeeks(s) == {w \in Week : review[s][w].state = "open"}

-----------------------------------------------------------------------------
(* API process.                                                            *)

InCall(ops) == call # None /\ call.op \in ops

\* Rows the API's transaction has changed: others wait for them.
ApiHoldsInput == InCall({"weekly", "submitted"})
ApiHoldsReview(s, w) == InCall({"submitted"}) /\ call.set = s /\ call.week = w

\* The worker's transaction has changed the review and goes for the input.
WorkerHoldsReview(s, w) == worker.at \in {"store", "clear"} /\ worker.set = s /\ worker.week = w

Begin(c) ==
    /\ call = None /\ call' = c
    /\ UNCHANGED <<clock, goals, review, final, posted, pending, suspended, worker>>

\* Telegram or the database failed, or PostgreSQL has ended a deadlock with the worker.
ApiAborts ==
    /\ call # None /\ call' = None
    /\ UNCHANGED <<clock, goals, review, final, posted, pending, suspended, worker>>

LivesOn == clock + MaxAge <= MaxClock           \* bound: an input can become stale

\* goals:configure sends its prompt between reading the input and writing it.  A prompt
\* that is there already stays as it is.
Configure ==
    /\ pending = None \/ Expects("goals")
    /\ Begin([op |-> "setup"])

CommitSetup ==
    /\ InCall({"setup"}) /\ LivesOn
    /\ pending' = [kind |-> "goals", at |-> clock]
    /\ call' = None
    /\ UNCHANGED <<clock, goals, review, final, posted, suspended, worker>>

\* An empty text keeps the input alive.
GoalsRejected ==
    /\ call = None /\ Expects("goals") /\ LivesOn
    /\ pending' = [pending EXCEPT !.at = clock]
    /\ UNCHANGED <<clock, goals, review, final, posted, suspended, call, worker>>

\* The goals of the season the message arrives in; those of later ones are not looked at.
GoalsArrive ==
    /\ call = None /\ Expects("goals")
    /\ goals' = goals \cup ({Season(clock)} \cap Set)
    /\ pending' = None
    /\ UNCHANGED <<clock, review, final, posted, suspended, call, worker>>

\* The input is claimed with the payload it has now.
ReviewArrives ==
    /\ Expects("weekly")
    /\ Begin([op |-> "weekly", set |-> pending.set, week |-> pending.week])

\* SubmitGoalWeeklyReview admits every review that is not skipped; else the handler
\* fails and the input comes back.
SubmitReview ==
    /\ InCall({"weekly"}) /\ ~WorkerHoldsReview(call.set, call.week)
    /\ call' = IF review[call.set][call.week].state = "skipped" THEN None
               ELSE [call EXCEPT !.op = "submitted"]
    /\ UNCHANGED <<clock, goals, review, final, posted, pending, suspended, worker>>

CommitReview ==
    /\ InCall({"submitted"})
    /\ review' = [review EXCEPT ![call.set][call.week].state = "answered"]
    /\ pending' = None /\ call' = None
    /\ UNCHANGED <<clock, goals, final, posted, suspended, worker>>

\* A button of the final prompt: no input expected, the review not completed.
MayChoose(s) == s \in posted /\ pending = None /\ ~final[s].completed

StatusPressed(s) == MayChoose(s) /\ Begin([op |-> "status", set |-> s])

\* After the commit the prompt is edited; if that fails a new one is sent.
CommitStatus ==
    /\ InCall({"status"})
    /\ final' = [final EXCEPT ![call.set].status = TRUE]
    /\ pending' = [kind |-> "final", set |-> call.set]
    /\ call' \in {None, [call EXCEPT !.op = "fallback"]}
    /\ UNCHANGED <<clock, goals, review, posted, suspended, worker>>

CommitFallback ==
    /\ InCall({"fallback"})
    /\ final' = [final EXCEPT ![call.set].prompted = TRUE]
    /\ pending' = [kind |-> "final", set |-> call.set]
    /\ posted' = posted \cup {call.set}
    /\ call' = None
    /\ UNCHANGED <<clock, goals, review, suspended, worker>>

Accepts(s) == final[s].status /\ ~final[s].completed

\* A message is appended, a repeated one is not; the input stays.
ReflectionArrives ==
    /\ call = None /\ Expects("final") /\ Accepts(pending.set)
    /\ final' = [final EXCEPT ![pending.set].summary = TRUE]
    /\ UNCHANGED <<clock, goals, review, posted, pending, suspended, call, worker>>

CompletePressed(s) ==
    /\ call = None /\ s \in posted
    /\ Expects("final") /\ pending.set = s
    /\ Accepts(s) /\ final[s].summary
    /\ final' = [final EXCEPT ![s].completed = TRUE]
    /\ pending' = None
    /\ UNCHANGED <<clock, goals, review, posted, suspended, call, worker>>

-----------------------------------------------------------------------------
(* Worker tick: stale inputs, reviews every two weeks, final reviews.      *)

At(step) == worker.at = step
GoesTo(step) == [worker EXCEPT !.at = step]
Leaves(step) == [worker EXCEPT !.at = step, !.set = 0, !.week = 0, !.job = "none"]

Reads(w) ==
    /\ worker' = w
    /\ UNCHANGED <<clock, goals, review, final, posted, pending, suspended, call>>

\* The tick reads the time once.
TickBegins == At("off") /\ Reads([Off EXCEPT !.at = "inputs", !.now = clock])

\* CleanupStaleInputs leaves the inputs of reviews alone.
Stale == Expects("goals") /\ pending.at + MaxAge <= worker.now

CleanupStale ==
    /\ At("inputs")
    /\ pending' = IF Stale THEN None ELSE pending
    /\ worker' = GoesTo("sets")
    /\ UNCHANGED <<clock, goals, review, final, posted, suspended, call>>

\* ListSeasonalGoalSetContexts, for either loop.
ListSets ==
    /\ worker.at \in {"sets", "final sets"}
    /\ Reads([worker EXCEPT !.at = IF @ = "sets" THEN "weekly" ELSE "final", !.todo = goals])

IsFirst(s) == s \in worker.todo /\ \A t \in worker.todo : s <= t
Taken(s, w, step, job) ==
    [worker EXCEPT !.at = step, !.todo = @ \ {s}, !.set = s, !.week = w, !.job = job]
Passed(s) == [worker EXCEPT !.todo = @ \ {s}]

\* Mutant: only a review whose prompt was sent twice is skipped.
SkipIfReminded(r) == worker.now >= r.requested + SkipAfter /\ r.prompt = "second"

\* Mutant: a review is skipped when it should be reminded of.
SkipWithoutReminder(r) == worker.now >= r.requested + ReminderDelay

\* GoalWeeklyReviewLifecycleAction.
SkipDue(r) == worker.now >= r.requested + SkipAfter
RemindDue(r) == worker.now >= r.requested + ReminderDelay /\ r.prompt # "second"

\* advanceWeeklyReview: a review without a prompt gets its first one, whatever its age.
AdvanceReview(s) ==
    /\ At("weekly") /\ IsFirst(s)
    /\ \E w \in OpenWeeks(s) :
        LET r == review[s][w] IN
        /\ \A v \in OpenWeeks(s) : r.requested <= review[s][v].requested
        /\ Reads(IF SkipDue(r) THEN Taken(s, w, "skip", "none")
                 ELSE IF r.prompt = "none" THEN Taken(s, w, "pending", "goal_weekly")
                 ELSE IF RemindDue(r) THEN Taken(s, w, "pending", "goal_reminder")
                 ELSE Passed(s))

\* GoalWeeklyReviewDue, before the season's end.
ReviewDue(s, w) == worker.now = DueOn(s, w) /\ worker.now < EndsOn(s)

NewReview(s) ==
    /\ At("weekly") /\ IsFirst(s) /\ OpenWeeks(s) = {}
    /\ \/ \E w \in Week : ReviewDue(s, w) /\ Reads(Taken(s, w, "pending", "create"))
       \/ (\A w \in Week : ~ReviewDue(s, w)) /\ Reads(Passed(s))

WeekliesDone == At("weekly") /\ worker.todo = {} /\ Reads(GoesTo("final sets"))

\* An input of another kind or review keeps the prompt back.
ReadInput ==
    /\ At("pending")
    /\ Reads(IF pending # None
                /\ ~(worker.job = "goal_reminder" /\ ExpectsReview(worker.set, worker.week))
             THEN Leaves("weekly")
             ELSE GoesTo(IF worker.job = "create" THEN "create" ELSE "send"))

\* GetOrCreateGoalWeeklyReview: a review of this date that is over is left alone.
CreateReview ==
    LET s == worker.set w == worker.week IN
    /\ At("create")
    /\ IF review[s][w].state = "none"
       THEN /\ review' = [review EXCEPT ![s][w] = [NoReview EXCEPT !.state = "open",
                                                                  !.requested = worker.now]]
            /\ worker' = [GoesTo("send") EXCEPT !.job = "goal_weekly"]
            /\ UNCHANGED <<clock, goals, final, posted, pending, suspended, call>>
       ELSE Reads(Leaves("weekly"))

ThisDelivery == <<worker.job, worker.set, worker.week>>

SendPrompt ==
    /\ At("send")
    /\ Reads(IF ThisDelivery \in suspended THEN Leaves("weekly") ELSE GoesTo("lock"))

\* Mutant: a prompt is stored whatever has become of the review.
StorableById(r) == r.state # "none"

\* SetGoalWeeklyReviewPrompt and SetGoalWeeklyReviewReminderPrompt.
Storable(r) ==
    /\ r.state = "open"
    /\ IF worker.job = "goal_reminder" THEN r.prompt # "second" ELSE r.prompt = "none"

\* The first UPDATE of the transaction, or the prompt is deleted again.
LockReview ==
    LET s == worker.set w == worker.week IN
    /\ At("lock") /\ ~ApiHoldsReview(s, w)
    /\ Reads(IF Storable(review[s][w]) THEN GoesTo("store") ELSE Leaves("weekly"))

WithPrompt(r) ==
    IF worker.job = "goal_reminder" THEN [r EXCEPT !.prompt = "second"]
    ELSE [r EXCEPT !.prompt = "first", !.requested = worker.now]

\* The input is written over whatever is there, and both are committed.
StorePrompt ==
    LET s == worker.set w == worker.week r == WithPrompt(review[s][w]) IN
    /\ At("store") /\ ~ApiHoldsInput
    /\ review' = [review EXCEPT ![s][w] = r]
    /\ pending' = [kind |-> "weekly", set |-> s, week |-> w, prompt |-> r.prompt]
    /\ worker' = Leaves("weekly")
    /\ UNCHANGED <<clock, goals, final, posted, suspended, call>>

\* MarkGoalWeeklyReviewSkipped: nothing follows if the review is over.
SkipReview ==
    LET s == worker.set w == worker.week IN
    /\ At("skip") /\ ~ApiHoldsReview(s, w)
    /\ Reads(IF w \in OpenWeeks(s) THEN GoesTo("clear") ELSE Leaves("weekly"))

\* Mutant: the input outlives its review.
KeepsInput(s, w) == pending

\* ClearGoalWeeklyReviewPendingInput.
ClearedInput(s, w) == WithoutReview(s, w)

Skipped(r) == [r EXCEPT !.state = "skipped"]

CommitSkip ==
    LET s == worker.set w == worker.week IN
    /\ At("clear") /\ ~ApiHoldsInput
    /\ review' = [review EXCEPT ![s][w] = Skipped(@)]
    /\ pending' = ClearedInput(s, w)
    /\ worker' = Leaves("weekly")
    /\ UNCHANGED <<clock, goals, final, posted, suspended, call>>

\* Mutant: an open review does not keep the final one back.
FinalDueAnyway(s) == worker.now >= EndsOn(s)

\* GoalFinalReviewDue, and no review of the set is open.
FinalDue(s) == worker.now >= EndsOn(s) /\ OpenWeeks(s) = {}

ReadFinal(s) ==
    /\ At("final") /\ IsFirst(s)
    /\ Reads(IF FinalDue(s) THEN Taken(s, 0, "final pending", "none") ELSE Passed(s))

FinalsDone == At("final") /\ worker.todo = {} /\ Reads(Off)

ReadFinalInput ==
    At("final pending") /\ Reads(IF pending # None THEN Leaves("final") ELSE GoesTo("final send"))

FinalDelivery == <<"goal_final", worker.set, 0>>

\* Mutant: a final prompt waits until the next one is due.
NeedsFinalOnTheDay(s) == ~final[s].prompted /\ worker.now = EndsOn(s) /\ FinalDelivery \notin suspended

\* GetOrCreateGoalFinalReview, read after the input.
NeedsFinal(s) ==
    ~final[s].completed /\ ~final[s].prompted /\ FinalDelivery \notin suspended

SkipFinal == At("final send") /\ ~NeedsFinal(worker.set) /\ Reads(Leaves("final"))

SendFinal ==
    /\ At("final send") /\ NeedsFinal(worker.set)
    /\ posted' = posted \cup {worker.set}
    /\ worker' = GoesTo("final set")
    /\ UNCHANGED <<clock, goals, review, final, pending, suspended, call>>

\* SetGoalFinalReviewPrompt, by id alone.
SetFinal ==
    /\ At("final set")
    /\ final' = [final EXCEPT ![worker.set].prompted = TRUE]
    /\ worker' = Leaves("final")
    /\ UNCHANGED <<clock, goals, review, posted, pending, suspended, call>>

\* The UPDATE failed: the prompt is deleted again and the tick ends.
FinalUndone ==
    /\ At("final set")
    /\ posted' = posted \ {worker.set}
    /\ worker' = Off
    /\ UNCHANGED <<clock, goals, review, final, pending, suspended, call>>

\* A delivery that did not succeed: refused, it is tried again in a later pass, unless
\* this was the last attempt; trouble of the service ends the tick.  With no answer it
\* is suspended, and the message may be there.
Defers(delivery, next) ==
    /\ delivery \notin suspended
    /\ \/ /\ suspended' \in {suspended, suspended \cup {delivery}}
          /\ worker' \in {next, Off}
          /\ UNCHANGED posted
       \/ /\ suspended' = suspended \cup {delivery}
          /\ worker' = Off
          /\ posted' = IF At("final send") THEN posted \cup {worker.set} ELSE posted
    /\ UNCHANGED <<clock, goals, review, final, pending, call>>

\* The prompt is not sent, or the one no review needs any more is not deleted.
PromptFails ==
    /\ \/ At("send")
       \/ At("lock") /\ ~ApiHoldsReview(worker.set, worker.week)
            /\ ~Storable(review[worker.set][worker.week])
    /\ Defers(ThisDelivery, Leaves("weekly"))

FinalFails ==
    At("final send") /\ NeedsFinal(worker.set) /\ Defers(FinalDelivery, Leaves("final"))

\* The worker dies, or the database fails, or PostgreSQL ends a deadlock with the API.
WorkerStops == ~At("off") /\ Reads(Off)

-----------------------------------------------------------------------------
UserActs ==
    \/ Configure \/ GoalsRejected \/ GoalsArrive \/ ReviewArrives \/ ReflectionArrives
    \/ \E s \in Set : StatusPressed(s) \/ CompletePressed(s)

ApiEnds ==
    CommitSetup \/ SubmitReview \/ CommitReview \/ CommitStatus \/ CommitFallback \/ ApiAborts

TickSteps ==
    \/ TickBegins \/ CleanupStale \/ ListSets
    \/ (\E s \in Set : AdvanceReview(s) \/ NewReview(s) \/ ReadFinal(s))
    \/ WeekliesDone \/ ReadInput \/ CreateReview \/ SendPrompt \/ LockReview \/ StorePrompt
    \/ SkipReview \/ CommitSkip
    \/ FinalsDone \/ ReadFinalInput \/ SkipFinal \/ SendFinal \/ SetFinal

Breaks == PromptFails \/ FinalFails \/ FinalUndone \/ WorkerStops

Next == Advance \/ UserActs \/ ApiEnds \/ TickSteps \/ Breaks

(***************************************************************************)
(* As for the routines: time passes, a handler ends, the worker ticks for  *)
(* ever and its statements are not kept waiting for ever; Telegram, the    *)
(* database and the worker fail finitely often.  No user action is fair.   *)
(***************************************************************************)
Fairness ==
    /\ WF_vars(Advance) /\ WF_vars(ApiEnds) /\ SF_vars(TickSteps)
    /\ <>[][Breaks => TickSteps]_vars

Spec == Init /\ [][Next]_vars
FairSpec == Spec /\ Fairness

-----------------------------------------------------------------------------
(* Properties.                                                             *)

\* An expected input can be accepted: the review it is for is open and was asked for
\* with that very prompt, or the final review has its status and is not completed.
\* Otherwise each answer fails, and its update is handled again and again.
InputAnswerable ==
    /\ Expects("weekly") =>
         LET r == review[pending.set][pending.week] IN r.state = "open" /\ r.prompt = pending.prompt
    /\ Expects("final") => Accepts(pending.set)

\* docs/product/routines-goals.md:47: the final review does not overlap an open review,
\* although an open review is looked for once and a long pass sends the prompt later.
FinalWaits == \A s \in posted : OpenWeeks(s) = {}

\* A review is answered or skipped, never both, and keeps the prompt it ended with, though
\* SubmitGoalWeeklyReview does not look for an earlier answer; a completed final review
\* is not opened again.
ReviewsStay ==
    [][\A s \in Set :
        /\ \A w \in Week : review[s][w].state \in {"answered", "skipped"} =>
                review'[s][w] = review[s][w]
        /\ final[s].completed => final'[s].completed /\ final'[s].status = final[s].status]_vars

\* What the lifecycle sees of a review and of a final review.
StageOf(r) ==
    IF r.state # "open" THEN (IF r.state = "none" THEN "absent" ELSE r.state)
    ELSE CASE r.prompt = "none"   -> "created"
           [] r.prompt = "first"  -> "asked"
           [] r.prompt = "second" -> "reminded"

VerdictOf(f) ==
    IF f.completed THEN "completed"
    ELSE IF f.summary THEN "reflected"
    ELSE IF f.status THEN "status" ELSE "none"

Lifecycle == INSTANCE SeasonLifecycle WITH
    Due <- [s \in Set |-> [w \in Week |-> DueOn(s, w)]],
    End <- [s \in Set |-> EndsOn(s)],
    stage <- [s \in Set |-> [w \in Week |-> StageOf(review[s][w])]],
    since <- [s \in Set |-> [w \in Week |-> review[s][w].requested]],
    shown <- posted,
    verdict <- [s \in Set |-> VerdictOf(final[s])]

\* The rows implement the lifecycle of a season: one review at a time, asked for, reminded
\* of once and not before its day is over, answered after it was asked for, skipped after
\* its 71 hours (docs/product/routines-goals.md:47), and the final review after all of
\* them: although the tick decides on rows it read several statements before.
ImplementsLifecycle == Lifecycle!Spec

\* Every review that is asked for is answered or skipped in the end.
ReviewsEnd ==
    \A s \in Set, w \in Week :
        review[s][w].state = "open" ~> review[s][w].state \in {"answered", "skipped"}

\* After a season its final review is asked for, unless the delivery is suspended or the
\* owner is still writing another one.
FinalAsked ==
    \A s \in Set : s \in goals /\ clock >= EndsOn(s) ~>
        \/ final[s].prompted \/ final[s].completed \/ Expects("final")
        \/ <<"goal_final", s, 0>> \in suspended
=============================================================================
