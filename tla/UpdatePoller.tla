---------------------------- MODULE UpdatePoller ----------------------------
(***************************************************************************)
(* trackmate-api's loop over Telegram updates.  Telegram numbers the       *)
(* updates of the bot, keeps them until an offset beyond them is polled,   *)
(* and hands out any run of those it keeps.  The loop handles a batch one  *)
(* by one and moves its offset past an update only when its handler has    *)
(* succeeded; the offset lives in memory and starts over with the process. *)
(*                                                                         *)
(* Backoff is left out: it postpones a poll and decides nothing.  Handlers *)
(* are one step here; DailyTasks looks inside them.                        *)
(***************************************************************************)
EXTENDS Integers, Sequences

CONSTANTS
    Last,           \* bound: updates ever sent
    MaxRestarts     \* bound: deaths of the process

ASSUME BoundsAssumption == Last \in Nat /\ MaxRestarts \in Nat

VARIABLES
    sent,       \* updates 1..sent exist
    kept,       \* Telegram's first update not yet forgotten
    up,         \* the process runs
    restarts,   \* which process it is
    offset,     \* the loop's next offset
    first, last,\* the rest of the batch: updates first..last
    log         \* handlers that succeeded, by process and update

vars == <<sent, kept, up, restarts, offset, first, last, log>>

Update == 1..Last
Entry == [run : 0..MaxRestarts, id : Update]

TypeOK ==
    /\ sent \in 0..Last
    /\ kept \in 1..Last + 1
    /\ up \in BOOLEAN
    /\ restarts \in 0..MaxRestarts
    /\ offset \in 0..Last + 1
    /\ first \in 1..Last + 1 /\ last \in 0..Last
    /\ log \in Seq(Entry)

Init ==
    /\ sent = 0 /\ kept = 1
    /\ up = TRUE /\ restarts = 0 /\ offset = 0
    /\ first = 1 /\ last = 0
    /\ log = <<>>

\* Somebody writes to the bot.
Sends ==
    /\ sent < Last
    /\ sent' = sent + 1
    /\ UNCHANGED <<kept, up, restarts, offset, first, last, log>>

Batched == first <= last

\* getUpdates: the offset lets Telegram forget what is before it, at once or later, so
\* an answer may still begin with updates the loop has handled.
Poll ==
    /\ up /\ ~Batched
    /\ \E begin \in kept..Last + 1 :
        /\ begin = kept \/ begin <= offset
        /\ kept' = begin /\ first' = begin
        /\ last' \in (begin - 1)..sent
    /\ UNCHANGED <<sent, up, restarts, offset, log>>

\* An update the loop is past is not handled again.
Skip ==
    /\ up /\ Batched /\ first < offset
    /\ first' = first + 1
    /\ UNCHANGED <<sent, kept, up, restarts, offset, last, log>>

\* Mutant: an update below the offset is handled like any other.
HandlesWhatItSkips ==
    /\ up /\ Batched
    /\ log' = Append(log, [run |-> restarts, id |-> first])
    /\ offset' = first + 1 /\ first' = first + 1
    /\ UNCHANGED <<sent, kept, up, restarts, last>>

Handles ==
    /\ up /\ Batched /\ first >= offset
    /\ log' = Append(log, [run |-> restarts, id |-> first])
    /\ offset' = first + 1 /\ first' = first + 1
    /\ UNCHANGED <<sent, kept, up, restarts, last>>

Drops == first' = last + 1

\* Mutant: a failed update is passed over so that the next one is reached.
PassesOver ==
    /\ up /\ Batched /\ first >= offset
    /\ offset' = first + 1 /\ first' = first + 1
    /\ UNCHANGED <<sent, kept, up, restarts, last, log>>

\* Mutant: the offset moves to the end of the batch when it is fetched.
FailsBehindTheBatch ==
    /\ up /\ Batched /\ first >= offset
    /\ offset' = last + 1 /\ Drops
    /\ UNCHANGED <<sent, kept, up, restarts, last, log>>

\* A handler's error ends the batch with the offset before the failed update.
Fails ==
    /\ up /\ Batched /\ first >= offset
    /\ Drops
    /\ UNCHANGED <<sent, kept, up, restarts, offset, last, log>>

\* The process dies or is stopped, between any two steps.
Dies ==
    /\ up /\ restarts < MaxRestarts
    /\ up' = FALSE /\ offset' = 0 /\ Drops
    /\ UNCHANGED <<sent, kept, restarts, last, log>>

Starts ==
    /\ ~up
    /\ up' = TRUE /\ restarts' = restarts + 1
    /\ UNCHANGED <<sent, kept, offset, first, last, log>>

Next == Sends \/ Poll \/ Skip \/ Handles \/ Fails \/ Dies \/ Starts

Spec == Init /\ [][Next]_vars

\* Telegram answers a poll with something new in the end, a handler called again and
\* again succeeds in the end, and a stopped process is started.
Fairness ==
    /\ SF_vars(Poll /\ last' >= first' /\ last' >= offset)
    /\ WF_vars(Skip) /\ SF_vars(Handles) /\ WF_vars(Starts)

FairSpec == Spec /\ Fairness

-----------------------------------------------------------------------------
Handled(u) == \E i \in 1..Len(log) : log[i].id = u

\* docs/architecture.md:40-46: what Telegram may forget is an acknowledged prefix, each
\* update of which some handler has completed: no crash, lost answer or failed handler
\* loses an update.
ForgottenIsHandled == \A u \in 1..kept - 1 : Handled(u)

\* Handlers complete in the order of the updates: none completes before every
\* earlier update has been completed, in this process or in one before it.
InOrder ==
    \A i \in 1..Len(log) : \A u \in 1..log[i].id - 1 : \E j \in 1..i - 1 : log[j].id = u

\* The loop, its batches and its offset implement the queue of UpdateQueue: a process
\* completes the updates one after another from the first that is not forgotten, and
\* lets Telegram forget only what it has completed itself.
Acknowledged == IF offset = 0 THEN 0 ELSE offset - 1
IsGreatest(n) == (n = 0 \/ Handled(n)) /\ \A i \in 1..Len(log) : log[i].id <= n
Completed == CHOOSE n \in 0..Last : IsGreatest(n)
Queue == INSTANCE UpdateQueue WITH
    forgotten <- kept - 1, latest <- Acknowledged, completed <- Completed
ImplementsQueue == Queue!QueueSpec

\* Every update sent is completed in the end.
UpdatesComplete == \A u \in Update : u <= sent ~> Handled(u)
=============================================================================
