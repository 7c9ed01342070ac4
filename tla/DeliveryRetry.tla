--------------------------- MODULE DeliveryRetry ---------------------------
(***************************************************************************)
(* The retry row of one delivery, in minutes.  Every worker step that sends*)
(* a card, an alert or an event keeps such a row: a refusal postpones the  *)
(* next attempt, the eighth suspends the delivery, a lost answer suspends  *)
(* it at once and a success removes the row.                               *)
(*                                                                         *)
(* Two clocks meet here.  A pass of the worker reads the time once and     *)
(* counts every wait from it; an outbox claim compares the wait with the   *)
(* clock of the database, delivery.Run with the time of its pass.          *)
(*                                                                         *)
(* Times are kept relative to the present, and a time that is too far back *)
(* to make a difference is not told apart from an earlier one: so the      *)
(* clock never stops, and the delivery can be followed to its end.         *)
(***************************************************************************)
EXTENDS Integers, FiniteSetsExt

CONSTANTS
    MaxClock,   \* bound: minutes told apart since the first failure
    None

ASSUME ClockAssumption == MaxClock \in Nat /\ MaxClock >= 127 /\ None \notin Nat

VARIABLES
    claimed,    \* an alert or an event, which is claimed; else one of delivery.Run
    clock,      \* minutes since the pass of the first failure began, or since the latest
                \* pass while there is no failure, up to MaxClock
    age,        \* minutes since the pass in progress read the time, up to LongestWait;
                \* None between passes
    attempts,   \* failures in a row, counted up to Budget; 0 without a row
    left,       \* minutes until next_attempt_at, 0 when it is past
    exhausted,  \* the delivery is suspended
    due,        \* delivery.Run is still to run it in this pass and finds it due
    delivered

retryVars == <<claimed, clock, age, attempts, left, exhausted, due, delivered>>

Budget == 8
\* After 64 minutes of a pass its time makes every wait a past one.
LongestWait == 64

RetryInit ==
    /\ claimed \in BOOLEAN
    /\ clock = 0 /\ age = 0
    /\ attempts = 0 /\ left = 0 /\ exhausted = FALSE
    /\ due = ~claimed /\ delivered = FALSE

Minute ==
    /\ clock' = Min({clock + 1, MaxClock})
    /\ age' = IF age = None THEN None ELSE Min({age + 1, LongestWait})
    /\ left' = Max({left - 1, 0})
    /\ UNCHANGED <<claimed, attempts, exhausted, due, delivered>>

\* The time that delivery.Run compares next_attempt_at with is read here.
PassBegins ==
    /\ age = None
    /\ age' = 0
    /\ clock' = IF attempts = 0 THEN 0 ELSE clock
    /\ due' = (~claimed /\ left = 0)
    /\ UNCHANGED <<claimed, attempts, left, exhausted, delivered>>

PassEnds ==
    /\ age # None
    /\ age' = None /\ due' = FALSE
    /\ UNCHANGED <<claimed, clock, attempts, left, exhausted, delivered>>

\* The claim's NOT EXISTS clause, and DeliveryReady: a claim loop comes back to the
\* row, a pass calls delivery.Run once.
Ready ==
    /\ age # None /\ ~delivered /\ ~exhausted
    /\ IF claimed THEN left = 0 ELSE due

\* Mutant: the exponent is capped one lower, so the last waits are shorter.
WaitCappedEarly(n) == 2 ^ Min({n, 5})

\* Minutes to wait after a failure that n failures precede.
Wait(n) == 2 ^ Min({n, 6})

Attempted == due' = FALSE /\ UNCHANGED <<claimed, clock, age>>

\* Mutant: the budget is compared with the counter, which stops there.
DeferWithoutEnd(suspend) ==
    /\ Ready
    /\ attempts' = Min({attempts + 1, Budget})
    /\ left' = Max({Wait(attempts) - age, 0})
    /\ exhausted' = (suspend \/ attempts' > Budget)
    /\ Attempted
    /\ UNCHANGED delivered

\* Defer and RecordDeliveryFailure: the wait is counted from the time of the pass.
Defer(suspend) ==
    /\ Ready
    /\ attempts' = Min({attempts + 1, Budget})
    /\ left' = Max({Wait(attempts) - age, 0})
    /\ exhausted' = (suspend \/ attempts + 1 >= Budget)
    /\ Attempted
    /\ UNCHANGED delivered

\* ClearDeliveryRetry.
Succeeds ==
    /\ Ready
    /\ attempts' = 0 /\ left' = 0 /\ exhausted' = FALSE
    /\ delivered' = TRUE
    /\ Attempted

Attempt == (\E suspend \in BOOLEAN : Defer(suspend)) \/ Succeeds

RetryNext == Minute \/ PassBegins \/ PassEnds \/ Attempt

\* The worker's loop begins a pass and ends it, time goes on, and a pass that finds the
\* delivery due gets to it now and then: it may break off before it does.
RetryFairness ==
    /\ WF_retryVars(Minute) /\ WF_retryVars(PassBegins) /\ WF_retryVars(PassEnds)
    /\ SF_retryVars(Attempt)

RetrySpec == RetryInit /\ [][RetryNext]_retryVars
FairRetrySpec == RetrySpec /\ RetryFairness

-----------------------------------------------------------------------------
\* docs/architecture.md:282: the waits are 1, 2, 4, 8, 16, 32 and 64 minutes, so a
\* delivery that is refused every time is given up 127 minutes after its first pass at
\* the earliest.  A row that is claimed may use up its waits side by side in one long
\* pass, since each is counted from the pass and compared with the clock: then only the
\* longest one is left of them.
GivesUpLate == attempts = Budget => clock >= IF claimed THEN 64 ELSE 127

\* Neither the two clocks nor a pass of any length keep a delivery from its end: it is
\* made or it is suspended for the operator, and the worker does not try it for ever.
Settles == <>(delivered \/ exhausted)
=============================================================================
