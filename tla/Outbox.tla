------------------------------- MODULE Outbox -------------------------------
(***************************************************************************)
(* Delivery of alerts and progress events: rows of two tables used as      *)
(* queues, drained by the worker tick into Telegram.  Claim, send, mark    *)
(* and requeue are separate statements and calls, so a worker may die, lose*)
(* its database session or be overtaken between any two of them, and the   *)
(* API process acknowledges alerts meanwhile.                              *)
(*                                                                         *)
(* Time is left out here: a claim may turn stale and a retry may fall due  *)
(* at any moment (DeliveryRetry measures the waits).  A message is dismissed*)
(* when it is deleted or has lost its buttons; what a text says, the card  *)
(* edit before an overdue alert and logging are left out.                  *)
(***************************************************************************)
EXTENDS Integers, FiniteSets

CONSTANTS
    Alert, Event,   \* rows of the two queues, numbered by id
    Worker,         \* worker processes
    Budget,         \* failures that suspend a delivery (8 in the code)
    MaxSends,       \* bound: messages sent for one row
    None

Item == Alert \cup Event

ASSUME RowAssumption == Item \subseteq Nat /\ Alert \cap Event = {}
ASSUME BudgetAssumption == Budget \in Nat \ {0} /\ MaxSends \in Nat
Message == 1..MaxSends          \* the messages of a row, in sending order
Trouble == {"none", "refused", "unavailable", "ambiguous", "missing"}
Step == {"off", "loop", "claimed", "record", "requeue", "mark", "confirm", "undo"}

VARIABLES
    status,     \* of each row; "claimed" is dispatching or publishing
    stored,     \* its telegram_message_id or published_message_id
    acked,      \* alerts with acknowledged_at set
    stale,      \* claims older than five minutes
    attempts,   \* worker_delivery_retries.attempts, 0 without a retry row
    waiting,    \* rows whose next_attempt_at is in the future
    suspended,  \* rows whose retry is exhausted
    chat,       \* messages of each row still visible with their buttons
    sends,      \* messages Telegram has accepted for each row
    astray,     \* messages whose outcome the program has lost sight of
    lease,      \* session that holds the advisory lock
    worker,     \* where each worker is in its tick
    call        \* the API transaction dismissing an alert

vars == <<status, stored, acked, stale, attempts, waiting, suspended, chat, sends,
          astray, lease, worker, call>>
row == <<status, stored, stale>>
ledger == <<attempts, waiting, suspended>>
telegram == <<chat, sends, astray>>

Idle == [at |-> "off", queue |-> "alerts", item |-> None, msg |-> None, trouble |-> "none"]

WorkerState == [at : Step, queue : {"alerts", "events"}, item : Item \cup {None},
                msg : Message \cup {None}, trouble : Trouble]
Call == [item : Alert, target : Message \cup {None}, dismissed : BOOLEAN]

ASSUME NoneAssumption == None \notin Worker \cup Nat \cup Call

TypeOK ==
    /\ status \in [Item -> {"absent", "pending", "claimed", "sent", "failed"}]
    /\ stored \in [Item -> Message \cup {None}]
    /\ acked \subseteq Alert
    /\ stale \subseteq Item
    /\ attempts \in [Item -> 0..Budget]
    /\ waiting \subseteq Item
    /\ suspended \subseteq Item
    /\ chat \in [Item -> SUBSET Message]
    /\ sends \in [Item -> 0..MaxSends]
    /\ astray \in [Item -> SUBSET Message]
    /\ lease \in Worker \cup {None}
    /\ worker \in [Worker -> WorkerState]
    /\ call \in Call \cup {None}

Init ==
    /\ status = [i \in Item |-> "absent"]
    /\ stored = [i \in Item |-> None]
    /\ acked = {}
    /\ stale = {}
    /\ attempts = [i \in Item |-> 0]
    /\ waiting = {}
    /\ suspended = {}
    /\ chat = [i \in Item |-> {}]
    /\ sends = [i \in Item |-> 0]
    /\ astray = [i \in Item |-> {}]
    /\ lease = None
    /\ worker = [w \in Worker |-> Idle]
    /\ call = None

-----------------------------------------------------------------------------
(* The world around the queues.                                            *)

\* GetOrCreateAlert and CreateProgressEvent insert a pending row.
Insert(i) ==
    /\ status[i] = "absent"
    /\ status' = [status EXCEPT ![i] = "pending"]
    /\ UNCHANGED <<stored, acked, stale, ledger, telegram, lease, worker, call>>

\* deliveryClaimTimeoutSeconds pass.
ClaimAges(i) ==
    /\ status[i] = "claimed" /\ i \notin stale
    /\ stale' = stale \cup {i}
    /\ UNCHANGED <<status, stored, acked, ledger, telegram, lease, worker, call>>

RetryFallsDue(i) ==
    /\ i \in waiting
    /\ waiting' = waiting \ {i}
    /\ UNCHANGED <<row, acked, attempts, suspended, telegram, lease, worker, call>>

-----------------------------------------------------------------------------
(* A worker.                                                               *)

At(w, step) == worker[w].at = step

Go(w, step) == worker' = [worker EXCEPT ![w].at = step]

Ends(w) == worker' = [worker EXCEPT ![w] = Idle]

\* A tick ends: Release unlocks the lease if this session still holds it.
Release(w) == lease' = IF lease = w THEN None ELSE lease

TickBegins(w) ==
    /\ At(w, "off") /\ lease = None
    /\ lease' = w
    /\ Go(w, "loop")
    /\ UNCHANGED <<row, acked, ledger, telegram, call>>

Queue(w) == IF worker[w].queue = "alerts" THEN Alert ELSE Event

\* Mutant: a suspended delivery is claimed again.
ClaimableDespiteSuspension(i) ==
    (status[i] = "pending" \/ (status[i] = "claimed" /\ i \in stale))
    /\ i \notin acked \cup waiting

Claimable(i) ==
    /\ status[i] = "pending" \/ (status[i] = "claimed" /\ i \in stale)
    /\ i \notin acked \cup waiting \cup suspended

\* ORDER BY id ... LIMIT 1: one statement takes the first row that may be taken.
Claim(w, i) ==
    /\ At(w, "loop")
    /\ i \in Queue(w) /\ Claimable(i)
    /\ \A j \in Queue(w) : Claimable(j) => i <= j
    /\ status' = [status EXCEPT ![i] = "claimed"]
    /\ stale' = stale \ {i}
    /\ worker' = [worker EXCEPT ![w] = [@ EXCEPT !.at = "claimed", !.item = i]]
    /\ UNCHANGED <<stored, acked, ledger, telegram, lease, call>>

\* Nothing to claim: events follow alerts, then the tick is over.
QueueDrained(w) ==
    /\ At(w, "loop") /\ \A i \in Queue(w) : ~Claimable(i)
    /\ IF worker[w].queue = "alerts"
       THEN worker' = [worker EXCEPT ![w].queue = "events"] /\ UNCHANGED lease
       ELSE Ends(w) /\ Release(w)
    /\ UNCHANGED <<row, acked, ledger, telegram, call>>

Fails(w, step, trouble) ==
    worker' = [worker EXCEPT ![w] = [@ EXCEPT !.at = step, !.trouble = trouble]]

\* A read of the task, the participant, the workspace or the topic fails.
LookupFails(w) ==
    /\ At(w, "claimed")
    /\ Fails(w, "requeue", "unavailable")
    /\ UNCHANGED <<row, acked, ledger, telegram, lease, call>>

\* The workspace or the topic is gone: an alert is deferred, an event fails for
\* good.  Whether the UPDATE of the event worked is not looked at.
DependencyMissing(w) ==
    LET i == worker[w].item IN
    /\ At(w, "claimed")
    /\ IF i \in Alert
       THEN Fails(w, "record", "missing") /\ UNCHANGED row
       ELSE /\ Go(w, "loop")
            /\ \/ UNCHANGED row
               \/ /\ status[i] = "claimed"
                  /\ status' = [status EXCEPT ![i] = "failed"]
                  /\ stale' = stale \ {i} /\ UNCHANGED stored
    /\ UNCHANGED <<acked, ledger, telegram, lease, call>>

\* Telegram accepts the message: it is the next one of its row.
Accepts(i) ==
    /\ sends[i] < MaxSends
    /\ sends' = [sends EXCEPT ![i] = @ + 1]
    /\ chat' = [chat EXCEPT ![i] = @ \cup {sends[i] + 1}]

Delivered(w) ==
    LET i == worker[w].item IN
    /\ At(w, "claimed") /\ Accepts(i)
    /\ worker' = [worker EXCEPT ![w] = [@ EXCEPT !.at = "mark", !.msg = sends[i] + 1]]
    /\ UNCHANGED <<row, acked, ledger, astray, lease, call>>

\* 400 and 403 refuse this message; 401, 429, 5xx and a request never written
\* refuse the service.
NotDelivered(w) ==
    /\ At(w, "claimed")
    /\ \E trouble \in {"refused", "unavailable"} : Fails(w, "record", trouble)
    /\ UNCHANGED <<row, acked, ledger, telegram, lease, call>>

\* The request was written and no answer came: Telegram may have accepted it.
AnswerLost(w) ==
    LET i == worker[w].item IN
    /\ At(w, "claimed")
    /\ Fails(w, "record", "ambiguous")
    /\ \/ /\ Accepts(i)
          /\ astray' = [astray EXCEPT ![i] = @ \cup {sends[i] + 1}]
       \/ UNCHANGED telegram
    /\ UNCHANGED <<row, acked, ledger, lease, call>>

\* Mutant: a refused delivery never runs out of attempts.
SuspendsWhenAmbiguousOnly(i, trouble) == trouble = "ambiguous"

Suspends(i, trouble) == trouble = "ambiguous" \/ attempts[i] + 1 >= Budget

Count(i) == IF attempts[i] < Budget THEN attempts[i] + 1 ELSE Budget

\* RecordDeliveryFailure.
RecordFailure(w) ==
    LET i == worker[w].item trouble == worker[w].trouble IN
    /\ At(w, "record")
    /\ attempts' = [attempts EXCEPT ![i] = Count(i)]
    /\ waiting' = waiting \cup {i}
    /\ suspended' = IF Suspends(i, trouble) THEN suspended \cup {i} ELSE suspended \ {i}
    /\ Go(w, "requeue")
    /\ UNCHANGED <<row, acked, telegram, lease, call>>

\* The failure cannot be recorded (the database, or a cancelled context).  A
\* missing dependency leaves the row claimed, every other trouble requeues it.
RecordFails(w) ==
    /\ At(w, "record")
    /\ IF worker[w].trouble = "missing"
       THEN Ends(w) /\ Release(w)
       ELSE Fails(w, "requeue", "unavailable") /\ UNCHANGED lease
    /\ UNCHANGED <<row, acked, ledger, telegram, call>>

\* Mutant: an UPDATE by id alone, whoever holds the claim and whatever came of it.
HoldsClaimById(i) == TRUE

\* WHERE ... dispatch_status = 'dispatching': some claim is open, not necessarily
\* the one this worker took.
HoldsClaim(i) == status[i] = "claimed"

\* The row is pending again; the loop goes on after a trouble of this row only.
Requeue(w) ==
    LET i == worker[w].item IN
    /\ At(w, "requeue") /\ HoldsClaim(i)
    /\ status' = [status EXCEPT ![i] = "pending"]
    /\ stale' = stale \ {i}
    /\ IF worker[w].trouble \in {"refused", "missing"}
       THEN worker' = [worker EXCEPT ![w] = [Idle EXCEPT !.at = "loop", !.queue = worker[w].queue]]
            /\ UNCHANGED lease
       ELSE Ends(w) /\ Release(w)
    /\ UNCHANGED <<stored, acked, ledger, telegram, call>>

\* The claim is lost, or the UPDATE fails: the tick ends with an error.
RequeueFails(w) ==
    /\ At(w, "requeue")
    /\ Ends(w) /\ Release(w)
    /\ UNCHANGED <<row, acked, ledger, telegram, call>>

MarkSent(w) ==
    LET i == worker[w].item IN
    /\ HoldsClaim(i)
    /\ status' = [status EXCEPT ![i] = "sent"]
    /\ stored' = [stored EXCEPT ![i] = worker[w].msg]
    /\ stale' = stale \ {i}

\* MarkAlertSent and MarkProgressEventPublished.
Marked(w) ==
    /\ At(w, "mark") /\ MarkSent(w)
    /\ worker' = [worker EXCEPT ![w] = [@ EXCEPT !.at = "confirm", !.msg = None]]
    /\ UNCHANGED <<acked, ledger, telegram, lease, call>>

\* The claim is lost, or the UPDATE reports an error, done or not.
MarkFails(w) ==
    /\ At(w, "mark")
    /\ MarkSent(w) \/ UNCHANGED row
    /\ Go(w, "undo")
    /\ UNCHANGED <<acked, ledger, telegram, lease, call>>

\* CompensateSentMessage deletes what was sent; the row is requeued after that.
Undone(w) ==
    LET i == worker[w].item IN
    /\ At(w, "undo")
    /\ chat' = [chat EXCEPT ![i] = @ \ {worker[w].msg}]
    /\ worker' = [worker EXCEPT ![w] = [@ EXCEPT !.at = "requeue", !.msg = None,
                                                  !.trouble = "unavailable"]]
    /\ UNCHANGED <<row, acked, ledger, sends, astray, lease, call>>

LosesSight(w) ==
    astray' = IF worker[w].msg = None THEN astray
              ELSE [astray EXCEPT ![worker[w].item] = @ \cup {worker[w].msg}]

UndoFails(w) ==
    /\ At(w, "undo")
    /\ LosesSight(w) /\ Ends(w) /\ Release(w)
    /\ UNCHANGED <<row, acked, ledger, chat, sends, call>>

\* ClearDeliveryRetry after a delivery.
Confirm(w) ==
    LET i == worker[w].item IN
    /\ At(w, "confirm")
    /\ attempts' = [attempts EXCEPT ![i] = 0]
    /\ waiting' = waiting \ {i}
    /\ suspended' = suspended \ {i}
    /\ worker' = [worker EXCEPT ![w] = [Idle EXCEPT !.at = "loop", !.queue = worker[w].queue]]
    /\ UNCHANGED <<row, acked, telegram, lease, call>>

\* The process dies or a statement fails where the loop just returns the error.
Dies(w) ==
    /\ ~At(w, "off")
    /\ LosesSight(w) /\ Ends(w) /\ Release(w)
    /\ UNCHANGED <<row, acked, ledger, chat, sends, call>>

\* The session that holds the lock is gone; the tick does not notice.
LeaseLost ==
    /\ lease # None
    /\ lease' = None
    /\ UNCHANGED <<row, acked, ledger, telegram, worker, call>>

-----------------------------------------------------------------------------
(* The API process dismisses an alert: it reads the row, then Telegram     *)
(* removes a message, then the row is acknowledged.                        *)

\* The button of a visible message: the stored message, else the pressed one.
AckPressed(i, m) ==
    /\ call = None /\ m \in chat[i]
    /\ call' = [item |-> i, target |-> IF stored[i] = None THEN m ELSE stored[i],
                dismissed |-> FALSE]
    /\ UNCHANGED <<row, acked, ledger, telegram, lease, worker>>

\* A report dismisses the alerts of its task, sent or not.
ReportDismisses(i) ==
    /\ call = None /\ status[i] # "absent"
    /\ call' = [item |-> i, target |-> stored[i], dismissed |-> FALSE]
    /\ UNCHANGED <<row, acked, ledger, telegram, lease, worker>>

\* dismissTelegramMessage.
DismissMessage ==
    /\ call # None /\ ~call.dismissed
    /\ chat' = [chat EXCEPT ![call.item] = @ \ {call.target}]
    /\ call' = [call EXCEPT !.dismissed = TRUE]
    /\ UNCHANGED <<row, acked, ledger, sends, astray, lease, worker>>

\* AcknowledgeAlert.
AcknowledgeAlert ==
    /\ call # None /\ call.dismissed
    /\ acked' = acked \cup {call.item}
    /\ stored' = [stored EXCEPT ![call.item] = None]
    /\ call' = None
    /\ UNCHANGED <<status, stale, ledger, telegram, lease, worker>>

AckAborts == call # None /\ call' = None
             /\ UNCHANGED <<row, acked, ledger, telegram, lease, worker>>

-----------------------------------------------------------------------------
Delivers(w) ==
    \/ TickBegins(w) \/ (\E i \in Item : Claim(w, i)) \/ QueueDrained(w)
    \/ LookupFails(w) \/ DependencyMissing(w) \/ Delivered(w) \/ NotDelivered(w)
    \/ AnswerLost(w) \/ RecordFailure(w) \/ RecordFails(w) \/ Requeue(w)
    \/ RequeueFails(w) \/ Marked(w) \/ MarkFails(w) \/ Undone(w) \/ UndoFails(w)
    \/ Confirm(w)

Acknowledges ==
    \/ \E i \in Alert, m \in Message : AckPressed(i, m)
    \/ \E i \in Alert : ReportDismisses(i)
    \/ DismissMessage \/ AcknowledgeAlert \/ AckAborts

Next ==
    \/ \E i \in Item : Insert(i) \/ ClaimAges(i) \/ RetryFallsDue(i)
    \/ \E w \in Worker : Delivers(w) \/ Dies(w)
    \/ LeaseLost \/ Acknowledges

\* An UPDATE of a row whose claim is open did not work, or a read did not.
DatabaseFails(w) ==
    \/ LookupFails(w) \/ RecordFails(w)
    \/ /\ worker[w].item # None /\ HoldsClaim(worker[w].item)
       /\ \/ RequeueFails(w) \/ MarkFails(w)
          \/ DependencyMissing(w) /\ worker[w].item \in Event /\ UNCHANGED row

\* A death that no ordinary step looks like.
Crashes(w) == Dies(w) /\ ~Delivers(w)

(***************************************************************************)
(* The worker loop ticks for ever, a step that may be taken is taken, time *)
(* passes.  Processes die and the database fails only finitely often;      *)
(* Telegram may fail for ever.                                             *)
(***************************************************************************)
Fairness ==
    /\ \A w \in Worker : WF_vars(Delivers(w))
    /\ \A i \in Item : WF_vars(ClaimAges(i)) /\ WF_vars(RetryFallsDue(i))
    /\ <>[][~LeaseLost /\ \A w \in Worker : ~Crashes(w) /\ ~DatabaseFails(w)]_vars

Spec == Init /\ [][Next]_vars
FairSpec == Spec /\ Fairness

-----------------------------------------------------------------------------
(* Properties.                                                             *)

InHand(w, i, m) == worker[w].item = i /\ worker[w].msg = m

\* A second copy of a message never stays in the chat unnoticed: every visible
\* message of a row is the stored one, or a worker is about to store or delete it,
\* or its sending ended in a lost answer, a death or a failed deletion.  This holds
\* although a worker may go on after losing its lease while another reclaims.
MessagesAccounted ==
    \A i \in Item \ acked : \A m \in chat[i] :
        m = stored[i] \/ m \in astray[i] \/ \E w \in Worker : InHand(w, i, m)

\* A delivered or failed row is settled: no worker requeues it or stores another
\* message over its own.
SettledStays ==
    [][\A i \in Item : status[i] \in {"sent", "failed"} =>
        status'[i] = status[i] /\ stored'[i] \in {stored[i], None}]_vars

\* While workers take turns, the rows implement the lifecycle of deliveries: one is sent
\* only in hand, waits or is suspended after a failure, suspended by the last of its
\* budget, and settled once.
Rest == [i \in Item |-> IF i \in suspended THEN "suspended"
                        ELSE IF i \in waiting THEN "waits" ELSE "none"]
Delivery == INSTANCE DeliveryLifecycle WITH
    stage <- status, copies <- sends, failures <- attempts, rest <- Rest
ImplementsDelivery == Delivery!Spec

\* Every progress event is published, failed or suspended in the end, whatever
\* Telegram answers, and although alerts go first and end ticks with errors.
EventsSettle ==
    \A i \in Event : status[i] = "pending" ~> (status[i] \in {"sent", "failed"} \/ i \in suspended)

\* docs/architecture.md:133-139: an alert is acknowledged only after its message
\* is gone or inert.
AcknowledgedIsDismissed == \A i \in acked : chat[i] \subseteq astray[i]
=============================================================================
