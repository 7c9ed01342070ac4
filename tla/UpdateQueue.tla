----------------------------- MODULE UpdateQueue -----------------------------
(***************************************************************************)
(* What trackmate-api promises of the updates of its bot.  They wait in a  *)
(* queue; the process completes them one after another, and only what it   *)
(* has completed itself is forgotten.  A process that starts over begins   *)
(* with the first one that is not forgotten: it may repeat what an earlier *)
(* process has completed, in the same order, and skips nothing.            *)
(***************************************************************************)
EXTENDS Integers

VARIABLES
    sent,       \* updates 1..sent exist
    forgotten,  \* updates 1..forgotten are gone from the queue
    latest,     \* the update the present process has completed last, 0 if none
    completed   \* updates 1..completed have been completed, by whatever process

queue == <<sent, forgotten, latest, completed>>

QueueInit == sent = 0 /\ forgotten = 0 /\ latest = 0 /\ completed = 0

Arrives == sent' = sent + 1 /\ UNCHANGED <<forgotten, latest, completed>>

\* The update whose turn it is.
Turn == IF latest = 0 THEN forgotten + 1 ELSE latest + 1

Completes ==
    /\ Turn <= sent
    /\ latest' = Turn
    /\ completed' = IF Turn > completed THEN Turn ELSE completed
    /\ UNCHANGED <<sent, forgotten>>

Forgets ==
    /\ forgotten' \in forgotten..latest
    /\ UNCHANGED <<sent, latest, completed>>

StartsOver == latest' = 0 /\ UNCHANGED <<sent, forgotten, completed>>

QueueNext == Arrives \/ Completes \/ Forgets \/ StartsOver

QueueSpec == QueueInit /\ [][QueueNext]_queue
=============================================================================
