---------------------------- MODULE OutboxProofs ----------------------------
(***************************************************************************)
(* Theorems about Outbox for every set of rows and workers, every budget   *)
(* and every number of messages.                                           *)
(***************************************************************************)
EXTENDS Outbox, TLAPS

\* A worker past its claim has a row; it has a message between sending it and
\* storing or deleting it, and at no other time.
WorkersKnow ==
    \A w \in Worker :
        /\ worker[w].at \notin {"off", "loop"} => worker[w].item \in Item
        /\ worker[w].at \in {"mark", "undo"} <=> worker[w].msg # None

\* Only a delivered row names a message.
StoredWhenSent == \A i \in Item : stored[i] # None => status[i] = "sent"

IInv == TypeOK /\ WorkersKnow /\ StoredWhenSent /\ MessagesAccounted

-----------------------------------------------------------------------------
LEMMA Constants == None \notin Nat /\ None \notin Item /\ None \notin Message /\ None \notin Call
<1>1. Message \subseteq Nat /\ Item \subseteq Nat
  BY RowAssumption, BudgetAssumption DEF Message
<1>2. QED
  BY <1>1, NoneAssumption

LEMMA IdleState == Idle \in WorkerState
  BY DEF Idle, WorkerState, Step, Trouble

\* The states a worker moves to keep its type and say what changed.
LEMMA Moves ==
    ASSUME TypeOK, NEW w \in Worker, NEW step \in Step, NEW trouble \in Trouble
    PROVE  /\ Go(w, step) =>
                /\ worker' \in [Worker -> WorkerState]
                /\ worker'[w].at = step /\ worker'[w].msg = worker[w].msg
                /\ worker'[w].item = worker[w].item
                /\ \A v \in Worker : v # w => worker'[v] = worker[v]
           /\ Fails(w, step, trouble) =>
                /\ worker' \in [Worker -> WorkerState]
                /\ worker'[w].at = step /\ worker'[w].msg = worker[w].msg
                /\ worker'[w].item = worker[w].item
                /\ \A v \in Worker : v # w => worker'[v] = worker[v]
           /\ Ends(w) =>
                /\ worker' \in [Worker -> WorkerState]
                /\ worker'[w].at = "off" /\ worker'[w].msg = None
                /\ \A v \in Worker : v # w => worker'[v] = worker[v]
<1>1. ASSUME Go(w, step)
      PROVE  /\ worker' \in [Worker -> WorkerState]
             /\ worker'[w].at = step /\ worker'[w].msg = worker[w].msg
             /\ worker'[w].item = worker[w].item
             /\ \A v \in Worker : v # w => worker'[v] = worker[v]
  BY <1>1 DEF Go, TypeOK, WorkerState
<1>2. ASSUME Fails(w, step, trouble)
      PROVE  /\ worker' \in [Worker -> WorkerState]
             /\ worker'[w].at = step /\ worker'[w].msg = worker[w].msg
             /\ worker'[w].item = worker[w].item
             /\ \A v \in Worker : v # w => worker'[v] = worker[v]
  BY <1>2 DEF Fails, TypeOK, WorkerState
<1>3. ASSUME Ends(w)
      PROVE  /\ worker' \in [Worker -> WorkerState]
             /\ worker'[w].at = "off" /\ worker'[w].msg = None
             /\ \A v \in Worker : v # w => worker'[v] = worker[v]
  BY <1>3, IdleState DEF Ends, Idle, TypeOK
<1>4. QED
  BY <1>1, <1>2, <1>3

LEMMA ReleaseType == ASSUME TypeOK, NEW w \in Worker, Release(w) PROVE lease' \in Worker \cup {None}
  BY DEF Release, TypeOK

LEMMA InitInv == Init => IInv
<1> SUFFICES ASSUME Init PROVE IInv
  OBVIOUS
<1>1. TypeOK
  BY IdleState, BudgetAssumption DEF Init, TypeOK
<1>2. WorkersKnow /\ StoredWhenSent /\ MessagesAccounted
  BY DEF Init, Idle, WorkersKnow, StoredWhenSent, MessagesAccounted
<1>3. QED
  BY <1>1, <1>2 DEF IInv

-----------------------------------------------------------------------------
(* Type correctness, one action at a time.                                 *)

LEMMA LoopStates ==
    ASSUME TypeOK, NEW w \in Worker
    PROVE  /\ \A i \in Item : [worker[w] EXCEPT !.at = "claimed", !.item = i] \in WorkerState
           /\ [Idle EXCEPT !.at = "loop", !.queue = worker[w].queue] \in WorkerState
           /\ [worker[w] EXCEPT !.queue = "events"] \in WorkerState
           /\ [worker[w] EXCEPT !.at = "confirm", !.msg = None] \in WorkerState
           /\ [worker[w] EXCEPT !.at = "requeue", !.msg = None, !.trouble = "unavailable"]
                 \in WorkerState
           /\ \A m \in Message : [worker[w] EXCEPT !.at = "mark", !.msg = m] \in WorkerState
  BY IdleState DEF TypeOK, WorkerState, Step, Trouble

LEMMA MarkType ==
    ASSUME TypeOK, NEW w \in Worker, MarkSent(w)
    PROVE  /\ status' \in [Item -> {"absent", "pending", "claimed", "sent", "failed"}]
           /\ stored' \in [Item -> Message \cup {None}]
           /\ stale' \subseteq Item
<1>1. worker[w].msg \in Message \cup {None}
  BY DEF TypeOK, WorkerState
<1>2. status' \in [Item -> {"absent", "pending", "claimed", "sent", "failed"}]
      /\ stale' \subseteq Item
  BY DEF MarkSent, TypeOK
<1>3. stored' \in [Item -> Message \cup {None}]
  BY <1>1 DEF MarkSent, TypeOK
<1>4. QED
  BY <1>2, <1>3

LEMMA SightType ==
    ASSUME TypeOK, NEW w \in Worker, LosesSight(w)
    PROVE  astray' \in [Item -> SUBSET Message]
<1>1. worker[w].msg # None => worker[w].msg \in Message
  BY DEF TypeOK, WorkerState
<1>2. QED
  BY <1>1 DEF LosesSight, TypeOK

LEMMA DeliversType ==
    ASSUME TypeOK, WorkersKnow, NEW w \in Worker, Delivers(w)
    PROVE  TypeOK'
<1> DEFINE i == worker[w].item
<1> USE DEF row, ledger, telegram
<1>0. worker \in [Worker -> WorkerState] /\ "loop" \in Step /\ "requeue" \in Step
      /\ "record" \in Step /\ "undo" \in Step /\ Trouble \subseteq Trouble
      /\ "unavailable" \in Trouble /\ "missing" \in Trouble /\ "refused" \in Trouble
      /\ "ambiguous" \in Trouble
  BY DEF TypeOK, Step, Trouble
<1>1. CASE TickBegins(w)
  BY <1>0, <1>1, Moves DEF TickBegins, TypeOK
<1>2. ASSUME NEW j \in Item, Claim(w, j) PROVE TypeOK'
  BY <1>0, <1>2, LoopStates DEF Claim, TypeOK
<1>3. CASE QueueDrained(w)
  BY <1>0, <1>3, LoopStates, Moves, ReleaseType DEF QueueDrained, TypeOK
<1>4. CASE LookupFails(w)
  BY <1>0, <1>4, Moves DEF LookupFails, TypeOK
<1>5. CASE DependencyMissing(w)
  BY <1>0, <1>5, Moves DEF DependencyMissing, TypeOK
<1>6. CASE Delivered(w)
  <2>1. i \in Item /\ sends[i] + 1 \in Message
    BY <1>6, BudgetAssumption DEF Delivered, At, Accepts, WorkersKnow, TypeOK, Message
  <2>2. sends[i] + 1 \in 0..MaxSends
    BY <2>1, BudgetAssumption DEF Message
  <2>3. sends' \in [Item -> 0..MaxSends] /\ chat' \in [Item -> SUBSET Message]
    BY <1>6, <2>1, <2>2 DEF Delivered, Accepts, TypeOK
  <2>4. worker' \in [Worker -> WorkerState]
    BY <1>0, <1>6, <2>1, LoopStates DEF Delivered
  <2>5. QED
    BY <1>6, <2>3, <2>4 DEF Delivered, TypeOK
<1>7. CASE NotDelivered(w)
  BY <1>0, <1>7, Moves DEF NotDelivered, TypeOK
<1>8. CASE AnswerLost(w)
  <2>1. i \in Item /\ (Accepts(i) => sends[i] + 1 \in Message)
    BY <1>8, BudgetAssumption DEF AnswerLost, At, Accepts, WorkersKnow, TypeOK, Message
  <2>2. QED
    BY <1>0, <1>8, <2>1, Moves, BudgetAssumption DEF AnswerLost, Accepts, TypeOK, Message
<1>9. CASE RecordFailure(w)
  <2>1. i \in Item /\ Count(i) \in 0..Budget
    BY <1>9, BudgetAssumption DEF RecordFailure, At, WorkersKnow, TypeOK, Count
  <2>2. QED
    BY <1>0, <1>9, <2>1, Moves DEF RecordFailure, TypeOK
<1>10. CASE RecordFails(w)
  BY <1>0, <1>10, Moves, ReleaseType DEF RecordFails, TypeOK
<1>11. CASE Requeue(w)
  BY <1>0, <1>11, Moves, LoopStates, ReleaseType DEF Requeue, TypeOK
<1>12. CASE RequeueFails(w)
  BY <1>0, <1>12, Moves, ReleaseType DEF RequeueFails, TypeOK
<1>13. CASE Marked(w)
  <2>1. worker' \in [Worker -> WorkerState]
    BY <1>0, <1>13, LoopStates DEF Marked
  <2>2. QED
    BY <1>13, <2>1, MarkType DEF Marked, TypeOK
<1>14. CASE MarkFails(w)
  <2>1. worker' \in [Worker -> WorkerState]
    BY <1>0, <1>14, Moves DEF MarkFails
  <2>2. CASE MarkSent(w)
    BY <1>14, <2>1, <2>2, MarkType DEF MarkFails, TypeOK
  <2>3. CASE UNCHANGED row
    BY <1>14, <2>1, <2>3 DEF MarkFails, TypeOK
  <2>4. QED
    BY <1>14, <2>2, <2>3 DEF MarkFails
<1>15. CASE Undone(w)
  BY <1>0, <1>15, LoopStates DEF Undone, TypeOK
<1>16. CASE UndoFails(w)
  BY <1>0, <1>16, Moves, ReleaseType, SightType DEF UndoFails, TypeOK
<1>17. CASE Confirm(w)
  <2>1. 0 \in 0..Budget
    BY BudgetAssumption
  <2>2. attempts' \in [Item -> 0..Budget] /\ waiting' \subseteq Item /\ suspended' \subseteq Item
    BY <1>17, <2>1 DEF Confirm, TypeOK
  <2>3. worker' \in [Worker -> WorkerState]
    BY <1>0, <1>17, LoopStates DEF Confirm
  <2>4. QED
    BY <1>17, <2>2, <2>3 DEF Confirm, TypeOK
<1>18. QED
  BY <1>1, <1>2, <1>3, <1>4, <1>5, <1>6, <1>7, <1>8, <1>9, <1>10, <1>11, <1>12, <1>13,
     <1>14, <1>15, <1>16, <1>17 DEF Delivers

LEMMA TypeStep == TypeOK /\ WorkersKnow /\ [Next]_vars => TypeOK'
<1> SUFFICES ASSUME TypeOK, WorkersKnow, [Next]_vars PROVE TypeOK'
  OBVIOUS
<1> USE DEF row, ledger, telegram
<1>1. ASSUME NEW i \in Item, Insert(i) \/ ClaimAges(i) \/ RetryFallsDue(i) PROVE TypeOK'
  BY <1>1 DEF Insert, ClaimAges, RetryFallsDue, TypeOK
<1>2. ASSUME NEW w \in Worker, Delivers(w) PROVE TypeOK'
  BY <1>2, DeliversType
<1>3. ASSUME NEW w \in Worker, Dies(w) PROVE TypeOK'
  <2>1. "off" \in Step /\ "none" \in Trouble
    BY DEF Step, Trouble
  <2>2. QED
    BY <1>3, <2>1, Moves, ReleaseType, SightType DEF Dies, TypeOK
<1>4. CASE LeaseLost
  BY <1>4 DEF LeaseLost, TypeOK
<1>5. ASSUME NEW i \in Alert, NEW m \in Message, AckPressed(i, m) PROVE TypeOK'
  BY <1>5 DEF AckPressed, TypeOK, Call, Item
<1>6. ASSUME NEW i \in Alert, ReportDismisses(i) PROVE TypeOK'
  BY <1>6 DEF ReportDismisses, TypeOK, Call, Item
<1>7. CASE DismissMessage
  <2>1. call \in Call /\ call.item \in Item /\ [call EXCEPT !.dismissed = TRUE] \in Call
    BY <1>7 DEF DismissMessage, TypeOK, Call, Item
  <2>2. QED
    BY <1>7, <2>1 DEF DismissMessage, TypeOK
<1>8. CASE AcknowledgeAlert
  <2>1. call.item \in Item /\ call.item \in Alert
    BY <1>8 DEF AcknowledgeAlert, TypeOK, Call, Item
  <2>2. QED
    BY <1>8, <2>1 DEF AcknowledgeAlert, TypeOK
<1>9. CASE AckAborts
  BY <1>9 DEF AckAborts, TypeOK
<1>10. CASE UNCHANGED vars
  BY <1>10 DEF vars, TypeOK
<1>11. QED
  BY <1>1, <1>2, <1>3, <1>4, <1>5, <1>6, <1>7, <1>8, <1>9, <1>10 DEF Next, Acknowledges

-----------------------------------------------------------------------------
(* The other invariants.  The effect of a step on its worker, and on what   *)
(* the accounting of messages reads, is stated once per action.             *)

LEMMA RecordFields ==
    ASSUME TypeOK, NEW w \in Worker
    PROVE  /\ \A i \in Item : LET r == [worker[w] EXCEPT !.at = "claimed", !.item = i] IN
                 r.at = "claimed" /\ r.item = i /\ r.msg = worker[w].msg
           /\ LET r == [Idle EXCEPT !.at = "loop", !.queue = worker[w].queue] IN
                 r.at = "loop" /\ r.msg = None
           /\ LET r == [worker[w] EXCEPT !.queue = "events"] IN
                 r.at = worker[w].at /\ r.item = worker[w].item /\ r.msg = worker[w].msg
           /\ LET r == [worker[w] EXCEPT !.at = "confirm", !.msg = None] IN
                 r.at = "confirm" /\ r.msg = None /\ r.item = worker[w].item
           /\ LET r == [worker[w] EXCEPT !.at = "requeue", !.msg = None,
                                         !.trouble = "unavailable"] IN
                 r.at = "requeue" /\ r.msg = None /\ r.item = worker[w].item
           /\ \A m \in Message : LET r == [worker[w] EXCEPT !.at = "mark", !.msg = m] IN
                 r.at = "mark" /\ r.msg = m /\ r.item = worker[w].item
  BY DEF TypeOK, WorkerState, Idle

\* What each action does to its worker, and the claim it relies on.
LEMMA Effects ==
    ASSUME IInv, NEW w \in Worker, Delivers(w) \/ Dies(w)
    PROVE  /\ \A v \in Worker : v # w => worker'[v] = worker[v]
           /\ worker'[w].at \notin {"off", "loop"} => worker'[w].item \in Item
           /\ worker'[w].at \in {"mark", "undo"} <=> worker'[w].msg # None
<1> DEFINE Goal == /\ \A v \in Worker : v # w => worker'[v] = worker[v]
                   /\ worker'[w].at \notin {"off", "loop"} => worker'[w].item \in Item
                   /\ worker'[w].at \in {"mark", "undo"} <=> worker'[w].msg # None
<1> USE DEF IInv
<1>0. /\ worker \in [Worker -> WorkerState] /\ Step \subseteq Step /\ Trouble \subseteq Trouble
      /\ {"loop", "requeue", "record", "undo"} \subseteq Step
      /\ {"refused", "unavailable", "ambiguous", "missing"} \subseteq Trouble
      /\ worker[w].at \notin {"off", "loop"} => worker[w].item \in Item
      /\ worker[w].at \in {"mark", "undo"} <=> worker[w].msg # None
  BY DEF TypeOK, WorkersKnow, Step, Trouble
<1>1. CASE TickBegins(w)
  BY <1>0, <1>1, Moves DEF TickBegins, At
<1>2. ASSUME NEW j \in Item, Claim(w, j) PROVE Goal
  BY <1>0, <1>2, RecordFields DEF Claim, At
<1>3. CASE QueueDrained(w)
  <2>1. CASE Ends(w)
    BY <1>0, <2>1, Moves
  <2>2. CASE worker' = [worker EXCEPT ![w].queue = "events"]
    <3>1. worker'[w] = [worker[w] EXCEPT !.queue = "events"] /\ worker[w].at = "loop"
      BY <1>0, <1>3, <2>2 DEF QueueDrained, At
    <3>2. worker'[w].at = "loop" /\ worker'[w].msg = worker[w].msg
      BY <3>1, RecordFields
    <3>3. QED
      BY <1>0, <2>2, <3>1, <3>2
  <2>3. QED
    BY <1>3, <2>1, <2>2 DEF QueueDrained
<1>4. CASE LookupFails(w)
  BY <1>0, <1>4, Moves DEF LookupFails, At
<1>5. CASE DependencyMissing(w)
  BY <1>0, <1>5, Moves DEF DependencyMissing, At
<1>6. CASE Delivered(w)
  <2>1. sends[worker[w].item] + 1 \in Message
    BY <1>0, <1>6, BudgetAssumption DEF Delivered, At, Accepts, TypeOK, Message
  <2>2. QED
    BY <1>0, <1>6, <2>1, RecordFields, Constants DEF Delivered, At
<1>7. CASE NotDelivered(w)
  BY <1>0, <1>7, Moves DEF NotDelivered, At
<1>8. CASE AnswerLost(w)
  BY <1>0, <1>8, Moves DEF AnswerLost, At
<1>9. CASE RecordFailure(w)
  BY <1>0, <1>9, Moves DEF RecordFailure, At
<1>10. CASE RecordFails(w)
  BY <1>0, <1>10, Moves DEF RecordFails, At
<1>11. CASE Requeue(w)
  <2>1. CASE Ends(w)
    BY <1>0, <2>1, Moves
  <2>2. CASE worker' = [worker EXCEPT ![w] = [Idle EXCEPT !.at = "loop", !.queue = worker[w].queue]]
    <3>1. worker'[w] = [Idle EXCEPT !.at = "loop", !.queue = worker[w].queue]
      BY <1>0, <2>2
    <3>2. worker'[w].at = "loop" /\ worker'[w].msg = None
      BY <3>1, RecordFields
    <3>3. QED
      BY <1>0, <2>2, <3>2
  <2>3. QED
    BY <1>11, <2>1, <2>2 DEF Requeue
<1>12. CASE RequeueFails(w)
  BY <1>0, <1>12, Moves DEF RequeueFails, At
<1>13. CASE Marked(w)
  BY <1>0, <1>13, RecordFields DEF Marked, At
<1>14. CASE MarkFails(w)
  BY <1>0, <1>14, Moves DEF MarkFails, At
<1>15. CASE Undone(w)
  BY <1>0, <1>15, RecordFields DEF Undone, At
<1>16. CASE UndoFails(w)
  BY <1>0, <1>16, Moves DEF UndoFails, At
<1>17. CASE Confirm(w)
  BY <1>0, <1>17, RecordFields DEF Confirm, At
<1>18. CASE Dies(w)
  <2>1. Ends(w) /\ "off" \in Step /\ "none" \in Trouble
    BY <1>18 DEF Dies, Step, Trouble
  <2>2. QED
    BY <2>1, <1>0, Moves
<1>19. QED
  BY <1>1, <1>2, <1>3, <1>4, <1>5, <1>6, <1>7, <1>8, <1>9, <1>10, <1>11, <1>12, <1>13,
     <1>14, <1>15, <1>16, <1>17, <1>18 DEF Delivers

LEMMA KnowStep == IInv /\ [Next]_vars => WorkersKnow'
<1> SUFFICES ASSUME IInv, [Next]_vars PROVE WorkersKnow'
  OBVIOUS
<1>1. ASSUME NEW w \in Worker, Delivers(w) \/ Dies(w) PROVE WorkersKnow'
  BY <1>1, Effects DEF IInv, WorkersKnow
<1>2. CASE UNCHANGED worker
  BY <1>2 DEF IInv, WorkersKnow
<1>3. QED
  BY <1>1, <1>2 DEF Next, Insert, ClaimAges, RetryFallsDue, LeaseLost, Acknowledges, AckPressed,
     ReportDismisses, DismissMessage, AcknowledgeAlert, AckAborts, vars

LEMMA StoredStep == IInv /\ [Next]_vars => StoredWhenSent'
<1> SUFFICES ASSUME IInv, [Next]_vars PROVE StoredWhenSent'
  OBVIOUS
<1> USE DEF IInv, row
<1>1. ASSUME NEW i \in Item, Insert(i) PROVE StoredWhenSent'
  BY <1>1 DEF Insert, StoredWhenSent, TypeOK
<1>2. ASSUME NEW w \in Worker, NEW i \in Item, Claim(w, i) PROVE StoredWhenSent'
  BY <1>2 DEF Claim, Claimable, StoredWhenSent, TypeOK
<1>3. ASSUME NEW w \in Worker, DependencyMissing(w) PROVE StoredWhenSent'
  BY <1>3 DEF DependencyMissing, StoredWhenSent, TypeOK
<1>4. ASSUME NEW w \in Worker, Requeue(w) PROVE StoredWhenSent'
  BY <1>4 DEF Requeue, HoldsClaim, StoredWhenSent, TypeOK
<1>5. ASSUME NEW w \in Worker, Marked(w) \/ MarkFails(w) PROVE StoredWhenSent'
  BY <1>5 DEF Marked, MarkFails, MarkSent, StoredWhenSent, TypeOK
<1>6. CASE AcknowledgeAlert
  BY <1>6 DEF AcknowledgeAlert, StoredWhenSent, TypeOK
<1>7. CASE UNCHANGED <<status, stored>>
  BY <1>7 DEF StoredWhenSent
<1>8. QED
  BY <1>1, <1>2, <1>3, <1>4, <1>5, <1>6, <1>7
     DEF Next, ClaimAges, RetryFallsDue, Delivers, Dies, TickBegins, QueueDrained, LookupFails,
         Delivered, NotDelivered, AnswerLost, RecordFailure, RecordFails, RequeueFails, Undone,
         UndoFails, Confirm, LeaseLost, Acknowledges, AckPressed, ReportDismisses, DismissMessage,
         AckAborts, vars

-----------------------------------------------------------------------------
(* The accounting of messages.                                             *)

\* A step that sends, stores and forgets nothing keeps the account.
LEMMA AccountFrame ==
    ASSUME IInv, UNCHANGED <<chat, astray, stored, acked>>,
           \A v \in Worker : worker[v].msg # None => worker'[v].msg = worker[v].msg
                                                     /\ worker'[v].item = worker[v].item
    PROVE  MessagesAccounted'
<1>1. ASSUME NEW i \in Item, NEW m \in chat[i], NEW w \in Worker, InHand(w, i, m)
      PROVE  InHand(w, i, m)'
  <2>1. m # None
    BY Constants DEF IInv, TypeOK
  <2>2. QED
    BY <1>1, <2>1 DEF InHand
<1>2. QED
  BY <1>1 DEF IInv, MessagesAccounted

\* A worker that ends a tick takes no message with it unless it is counted astray.
LEMMA AccountEnds ==
    ASSUME IInv, NEW w \in Worker, LosesSight(w), UNCHANGED <<chat, stored, acked>>,
           \A v \in Worker : v # w => worker'[v] = worker[v]
    PROVE  MessagesAccounted'
<1>1. ASSUME NEW i \in Item, NEW m \in chat[i], NEW v \in Worker, InHand(v, i, m)
      PROVE  InHand(v, i, m)' \/ m \in astray'[i]
  <2>1. m # None
    BY Constants DEF IInv, TypeOK
  <2>2. CASE v = w
    BY <1>1, <2>1, <2>2 DEF LosesSight, InHand, IInv, TypeOK
  <2>3. CASE v # w
    BY <1>1, <2>3 DEF InHand
  <2>4. QED
    BY <2>2, <2>3
<1>2. \A i \in Item : astray[i] \subseteq astray'[i]
  BY DEF LosesSight, IInv, TypeOK
<1>3. QED
  BY <1>1, <1>2 DEF IInv, MessagesAccounted

LEMMA AccountStep == IInv /\ [Next]_vars => MessagesAccounted'
<1> SUFFICES ASSUME IInv, [Next]_vars PROVE MessagesAccounted'
  OBVIOUS
<1> USE DEF row, telegram
<1>1. ASSUME NEW w \in Worker, Delivered(w) PROVE MessagesAccounted'
  <2> DEFINE j == worker[w].item
  <2>1. j \in Item /\ worker[w].msg = None /\ worker \in [Worker -> WorkerState]
    BY <1>1 DEF Delivered, At, IInv, WorkersKnow, TypeOK
  <2>2. sends[j] + 1 \in Message
    BY <1>1, <2>1, BudgetAssumption DEF Delivered, Accepts, IInv, TypeOK, Message
  <2>3. worker'[w] = [worker[w] EXCEPT !.at = "mark", !.msg = sends[j] + 1]
    BY <1>1, <2>1 DEF Delivered
  <2>4. worker'[w].item = j /\ worker'[w].msg = sends[j] + 1
    BY <2>2, <2>3, RecordFields DEF IInv
  <2>5. \A v \in Worker : v # w => worker'[v] = worker[v]
    BY <1>1, Effects DEF Delivers
  <2>6. \A i \in Item : \A m \in chat'[i] : m \in chat[i] \/ (i = j /\ m = sends[j] + 1)
    BY <1>1, <2>1 DEF Delivered, Accepts, IInv, TypeOK
  <2>7. ASSUME NEW i \in Item, NEW m \in chat[i], NEW v \in Worker, InHand(v, i, m)
        PROVE  InHand(v, i, m)'
    <3>1. m # None
      BY Constants DEF IInv, TypeOK
    <3>2. QED
      BY <2>1, <2>5, <2>7, <3>1 DEF InHand
  <2>8. UNCHANGED <<astray, stored, acked>>
    BY <1>1 DEF Delivered
  <2>9. ASSUME NEW i \in Item \ acked', NEW m \in chat'[i]
         PROVE  m = stored'[i] \/ m \in astray'[i] \/ \E v \in Worker : InHand(v, i, m)'
    <3>1. CASE m \in chat[i]
      BY <2>7, <2>8, <2>9, <3>1 DEF IInv, MessagesAccounted
    <3>2. CASE i = j /\ m = sends[j] + 1
      BY <2>4, <3>2 DEF InHand
    <3>3. QED
      BY <2>6, <2>9, <3>1, <3>2
  <2>10. QED
    BY <2>9 DEF MessagesAccounted
<1>2. ASSUME NEW w \in Worker, AnswerLost(w) PROVE MessagesAccounted'
  <2> DEFINE j == worker[w].item
  <2>1. j \in Item /\ worker[w].msg = None
    BY <1>2 DEF AnswerLost, At, IInv, WorkersKnow
  <2>2. UNCHANGED <<stored, acked>> /\ \A i \in Item : astray[i] \subseteq astray'[i]
    BY <1>2, <2>1 DEF AnswerLost, IInv, TypeOK
  <2>3. \A i \in Item : \A m \in chat'[i] : m \in chat[i] \/ m \in astray'[i]
    BY <1>2, <2>1 DEF AnswerLost, Accepts, IInv, TypeOK
  <2>4. ASSUME NEW i \in Item, NEW m \in chat[i], NEW v \in Worker, InHand(v, i, m)
        PROVE  InHand(v, i, m)'
    <3>1. m # None
      BY Constants DEF IInv, TypeOK
    <3>2. \A u \in Worker : u # w => worker'[u] = worker[u]
      BY <1>2, Effects DEF Delivers
    <3>3. QED
      BY <2>1, <2>4, <3>1, <3>2 DEF InHand
  <2>5. QED
    BY <2>2, <2>3, <2>4 DEF IInv, MessagesAccounted
<1>3. ASSUME NEW w \in Worker, Marked(w) PROVE MessagesAccounted'
  <2> DEFINE j == worker[w].item
  <2>1. j \in Item /\ worker \in [Worker -> WorkerState]
    BY <1>3 DEF Marked, At, IInv, WorkersKnow, TypeOK
  <2>2. stored[j] = None
    BY <1>3, <2>1 DEF Marked, MarkSent, HoldsClaim, IInv, StoredWhenSent
  <2>3. \A i \in Item : stored'[i] = IF i = j THEN worker[w].msg ELSE stored[i]
    BY <1>3, <2>1 DEF Marked, MarkSent, IInv, TypeOK
  <2>4. UNCHANGED <<chat, astray, acked>> /\ \A v \in Worker : v # w => worker'[v] = worker[v]
    BY <1>3, Effects DEF Marked, Delivers
  <2>5. ASSUME NEW i \in Item \ acked, NEW m \in chat[i]
        PROVE  m = stored'[i] \/ m \in astray[i] \/ \E v \in Worker : InHand(v, i, m)'
    <3>1. m # None
      BY Constants DEF IInv, TypeOK
    <3>2. CASE m = stored[i]
      BY <2>2, <2>3, <3>1, <3>2
    <3>3. CASE m \in astray[i]
      BY <3>3
    <3>4. ASSUME NEW v \in Worker, InHand(v, i, m)
          PROVE  m = stored'[i] \/ \E u \in Worker : InHand(u, i, m)'
      BY <2>3, <2>4, <3>4 DEF InHand
    <3>5. QED
      BY <3>2, <3>3, <3>4 DEF IInv, MessagesAccounted
  <2>6. QED
    BY <2>4, <2>5 DEF MessagesAccounted
<1>4. ASSUME NEW w \in Worker, MarkFails(w) PROVE MessagesAccounted'
  <2> DEFINE j == worker[w].item
  <2>1. j \in Item
    BY <1>4 DEF MarkFails, At, IInv, WorkersKnow
  <2>2. \A i \in Item : stored'[i] = stored[i] \/ (i = j /\ stored[i] = None)
    BY <1>4, <2>1 DEF MarkFails, MarkSent, HoldsClaim, IInv, StoredWhenSent, TypeOK
  <2>3. \A v \in Worker : worker'[v].msg = worker[v].msg /\ worker'[v].item = worker[v].item
    <3>1. Go(w, "undo") /\ "undo" \in Step /\ "none" \in Trouble
      BY <1>4 DEF MarkFails, Step, Trouble
    <3>2. QED
      BY <3>1, Moves DEF IInv
  <2>4. \A i \in Item : \A m \in chat[i] : m # None
    BY Constants DEF IInv, TypeOK
  <2>5. QED
    BY <1>4, <2>2, <2>3, <2>4 DEF MarkFails, IInv, MessagesAccounted, InHand
<1>5. ASSUME NEW w \in Worker, Undone(w) PROVE MessagesAccounted'
  <2> DEFINE j == worker[w].item
  <2>1. j \in Item
    BY <1>5 DEF Undone, At, IInv, WorkersKnow
  <2>2. \A i \in Item : chat'[i] = IF i = j THEN chat[i] \ {worker[w].msg} ELSE chat[i]
    BY <1>5, <2>1 DEF Undone, IInv, TypeOK
  <2>3. UNCHANGED <<stored, astray, acked>> /\ \A v \in Worker : v # w => worker'[v] = worker[v]
    BY <1>5, Effects DEF Undone, Delivers
  <2>4. ASSUME NEW i \in Item \ acked, NEW m \in chat'[i]
        PROVE  m = stored[i] \/ m \in astray[i] \/ \E v \in Worker : InHand(v, i, m)'
    <3>1. m \in chat[i] /\ ~InHand(w, i, m)
      BY <2>2, <2>4 DEF InHand
    <3>2. m = stored[i] \/ m \in astray[i] \/ \E v \in Worker : v # w /\ InHand(v, i, m)
      BY <3>1 DEF IInv, MessagesAccounted
    <3>3. QED
      BY <2>3, <3>2 DEF InHand
  <2>5. QED
    BY <2>3, <2>4 DEF MessagesAccounted
<1>6. ASSUME NEW w \in Worker, UndoFails(w) \/ Dies(w) PROVE MessagesAccounted'
  BY <1>6, Effects, AccountEnds DEF UndoFails, Dies, Delivers
<1>7. ASSUME NEW w \in Worker, Delivers(w), worker[w].msg = None, UNCHANGED <<chat, astray, stored, acked>>
      PROVE  MessagesAccounted'
  BY <1>7, Effects, AccountFrame
<1>8. ASSUME NEW w \in Worker, Delivers(w),
             ~(Delivered(w) \/ AnswerLost(w) \/ Marked(w) \/ MarkFails(w) \/ Undone(w) \/ UndoFails(w))
      PROVE  worker[w].msg = None /\ UNCHANGED <<chat, astray, stored, acked>>
  <2>1. worker[w].at \notin {"mark", "undo"}
    BY <1>8 DEF Delivers, At, TickBegins, Claim, QueueDrained, LookupFails, DependencyMissing,
                NotDelivered, RecordFailure, RecordFails, Requeue, RequeueFails, Confirm
  <2>2. worker[w].msg = None
    BY <2>1 DEF IInv, WorkersKnow
  <2>3. QED
    BY <1>8, <2>2 DEF Delivers, TickBegins, Claim, QueueDrained, LookupFails, DependencyMissing,
                NotDelivered, RecordFailure, RecordFails, Requeue, RequeueFails, Confirm
<1>9. CASE DismissMessage
  <2>1. \A i \in Item : chat'[i] \subseteq chat[i]
    BY <1>9 DEF DismissMessage, IInv, TypeOK
  <2>2. QED
    BY <1>9, <2>1 DEF DismissMessage, IInv, MessagesAccounted, InHand
<1>10. CASE AcknowledgeAlert
  <2>1. \A i \in Item \ acked' : stored'[i] = stored[i] /\ i \notin acked
    BY <1>10 DEF AcknowledgeAlert, IInv, TypeOK
  <2>2. QED
    BY <1>10, <2>1 DEF AcknowledgeAlert, IInv, MessagesAccounted, InHand
<1>11. CASE UNCHANGED <<chat, astray, stored, acked, worker>>
  BY <1>11, AccountFrame
<1>12. QED
  BY <1>1, <1>2, <1>3, <1>4, <1>5, <1>6, <1>7, <1>8, <1>9, <1>10, <1>11
     DEF Next, Insert, ClaimAges, RetryFallsDue, LeaseLost, Acknowledges, AckPressed,
         ReportDismisses, AckAborts, vars

-----------------------------------------------------------------------------
LEMMA StepInv == IInv /\ [Next]_vars => IInv'
  BY TypeStep, KnowStep, StoredStep, AccountStep DEF IInv

LEMMA Invariance == Spec => []IInv
  BY InitInv, StepInv, PTL DEF Spec

\* Every variable keeps its type, however many workers outlive their lease.
THEOREM TypeCorrect == Spec => []TypeOK
<1>1. IInv => TypeOK
  BY DEF IInv
<1>2. QED
  BY <1>1, Invariance, PTL

\* No copy of a message is left in a chat unrecorded, except through a lost answer,
\* a death or a failed deletion.
THEOREM NoForgottenCopy == Spec => []MessagesAccounted
<1>1. IInv => MessagesAccounted
  BY DEF IInv
<1>2. QED
  BY <1>1, Invariance, PTL

\* What one step may do to a settled row.
LEMMA SettledStep ==
    ASSUME IInv, [Next]_vars, NEW i \in Item, status[i] \in {"sent", "failed"}
    PROVE  status'[i] = status[i] /\ stored'[i] \in {stored[i], None}
<1> USE DEF IInv, row
<1>1. ASSUME NEW j \in Item, Insert(j) PROVE status'[i] = status[i] /\ stored' = stored
  BY <1>1 DEF Insert, TypeOK
<1>2. ASSUME NEW w \in Worker, NEW j \in Item, Claim(w, j)
      PROVE  status'[i] = status[i] /\ stored' = stored
  BY <1>2 DEF Claim, Claimable, TypeOK
<1>3. ASSUME NEW w \in Worker, DependencyMissing(w)
      PROVE  status'[i] = status[i] /\ stored' = stored
  BY <1>3 DEF DependencyMissing, TypeOK
<1>4. ASSUME NEW w \in Worker, Requeue(w)
      PROVE  status'[i] = status[i] /\ stored' = stored
  BY <1>4 DEF Requeue, HoldsClaim, TypeOK
<1>5. ASSUME NEW w \in Worker, Marked(w) \/ MarkFails(w)
      PROVE  status'[i] = status[i] /\ stored'[i] = stored[i]
  BY <1>5 DEF Marked, MarkFails, MarkSent, HoldsClaim, TypeOK
<1>6. CASE AcknowledgeAlert
  BY <1>6 DEF AcknowledgeAlert, TypeOK
<1>7. CASE UNCHANGED <<status, stored>>
  BY <1>7
<1>8. QED
  BY <1>1, <1>2, <1>3, <1>4, <1>5, <1>6, <1>7
     DEF Next, ClaimAges, RetryFallsDue, Delivers, Dies, TickBegins, QueueDrained, LookupFails,
         Delivered, NotDelivered, AnswerLost, RecordFailure, RecordFails, RequeueFails, Undone,
         UndoFails, Confirm, LeaseLost, Acknowledges, AckPressed, ReportDismisses, DismissMessage,
         AckAborts, vars

\* A delivered or failed row is never requeued, and its message never replaced.
THEOREM SettledRowsStay == Spec => SettledStays
<1>1. IInv /\ [Next]_vars =>
        [\A i \in Item : status[i] \in {"sent", "failed"} =>
            status'[i] = status[i] /\ stored'[i] \in {stored[i], None}]_vars
  BY SettledStep
<1>2. QED
  BY <1>1, Invariance, PTL DEF Spec, SettledStays

-----------------------------------------------------------------------------
(* The lease, and what rests on it.  With workers that outlive their lease  *)
(* a suspension may be lifted by a record of an older failure; without them *)
(* it holds.                                                               *)

Active(w) == ~At(w, "off")

\* One worker at most is in a tick.
OneActive == \A v, w \in Worker : Active(v) /\ Active(w) => v = w

\* Who is in a tick has the lease.
HasLease == \A w \in Worker : Active(w) => lease = w

\* A worker holds its row alone: until it has a verdict the claim is open and no failure
\* rests on the row, it marks only what it has sent, and it confirms what it has marked.
Turn(w) ==
    /\ worker[w].at \in {"claimed", "record", "mark"} =>
        status[worker[w].item] = "claimed" /\ worker[w].item \notin waiting \cup suspended
    /\ worker[w].at = "mark" => sends[worker[w].item] > 0
    /\ worker[w].at = "confirm" =>
        status[worker[w].item] = "sent" /\ worker[w].item \notin suspended

\* The last failure of a budget suspends.
BudgetSuspends == \A i \in Item : attempts[i] = Budget => i \in suspended

TurnsKnow == (\A w \in Worker : Turn(w)) /\ BudgetSuspends

\* A suspended row stays pending and unclaimed: nothing sends it again until an
\* operator has looked at it.
SuspensionHolds ==
    [][\A i \in Item : i \in suspended /\ status[i] = "pending" =>
        status'[i] = "pending" /\ i \in suspended']_vars

LEMMA LeaseStep == IInv /\ HasLease /\ [Next]_vars /\ ~LeaseLost => HasLease'
<1> SUFFICES ASSUME IInv, HasLease, [Next]_vars, ~LeaseLost PROVE HasLease'
  OBVIOUS
<1> USE DEF Active, At, HasLease
<1>1. ASSUME NEW w \in Worker, Delivers(w) \/ Dies(w), lease' = w,
             \A v \in Worker : v # w => ~Active(v)
      PROVE  HasLease'
  BY <1>1, Effects
<1>2. ASSUME NEW w \in Worker, Ends(w), \A v \in Worker : v # w => ~Active(v) PROVE HasLease'
  <2>1. "off" \in Step /\ "none" \in Trouble
    BY DEF Step, Trouble
  <2>2. QED
    BY <1>2, <2>1, Moves DEF IInv
<1>3. ASSUME NEW w \in Worker, TickBegins(w) PROVE HasLease'
  <2>1. \A v \in Worker : ~Active(v)
    BY <1>3, Constants, NoneAssumption DEF TickBegins
  <2>2. QED
    BY <1>1, <1>3, <2>1 DEF TickBegins, Delivers
<1>4. ASSUME NEW w \in Worker, Delivers(w) \/ Dies(w), ~TickBegins(w) PROVE HasLease'
  <2>1. Active(w)
    BY <1>4 DEF Delivers, Dies, Claim, QueueDrained, LookupFails, DependencyMissing, Delivered,
                NotDelivered, AnswerLost, RecordFailure, RecordFails, Requeue, RequeueFails,
                Marked, MarkFails, Undone, UndoFails, Confirm
  <2>2. lease = w /\ \A v \in Worker : v # w => ~Active(v)
    BY <2>1
  <2>3. lease' = lease \/ Ends(w)
    BY <1>4 DEF Delivers, Dies, Claim, QueueDrained, LookupFails, DependencyMissing, Delivered,
                NotDelivered, AnswerLost, RecordFailure, RecordFails, Requeue, RequeueFails,
                Marked, MarkFails, Undone, UndoFails, Confirm
  <2>4. QED
    BY <1>1, <1>2, <1>4, <2>2, <2>3
<1>5. CASE UNCHANGED <<worker, lease>>
  BY <1>5
<1>6. QED
  BY <1>3, <1>4, <1>5 DEF Next, Insert, ClaimAges, RetryFallsDue, Acknowledges, AckPressed,
     ReportDismisses, DismissMessage, AcknowledgeAlert, AckAborts, vars

\* As long as no worker loses the session that holds its lease, ticks exclude each other,
\* for any number of workers.
THEOREM LeaseExcludes == Spec /\ [][~LeaseLost]_vars => []OneActive
<1>1. Init => HasLease
  BY DEF Init, Idle, HasLease, Active, At
<1>2. IInv /\ HasLease /\ [Next]_vars /\ [~LeaseLost]_vars => HasLease'
  <2>1. UNCHANGED vars => (HasLease => HasLease')
    BY DEF vars, HasLease, Active, At
  <2>2. QED
    BY <2>1, LeaseStep
<1>3. HasLease => OneActive
  BY DEF HasLease, OneActive
<1>4. QED
  BY <1>1, <1>2, <1>3, Invariance, PTL DEF Spec

\* The step of a worker leaves its own turn in order.
LEMMA OwnTurn ==
    ASSUME IInv, TurnsKnow, NEW w \in Worker, Delivers(w) \/ Dies(w)
    PROVE  Turn(w)'
<1> USE DEF row, ledger, telegram
<1>0. worker \in [Worker -> WorkerState] /\ "loop" \in Step /\ "requeue" \in Step
      /\ "record" \in Step /\ "undo" \in Step /\ Trouble \subseteq Trouble
      /\ {"refused", "unavailable", "ambiguous", "missing"} \subseteq Trouble
  BY DEF IInv, TypeOK, Step, Trouble
<1>1. ASSUME worker'[w].at \notin {"claimed", "record", "mark", "confirm"} PROVE Turn(w)'
  BY <1>1 DEF Turn
<1>2. ASSUME NEW i \in Item, Claim(w, i) PROVE Turn(w)'
  <2>1. worker'[w] = [worker[w] EXCEPT !.at = "claimed", !.item = i]
    BY <1>0, <1>2 DEF Claim
  <2>2. worker'[w].at = "claimed" /\ worker'[w].item = i
    BY <2>1, RecordFields DEF IInv
  <2>3. status'[i] = "claimed" /\ i \notin waiting' \cup suspended'
    BY <1>2 DEF Claim, Claimable, IInv, TypeOK
  <2>4. QED
    BY <2>2, <2>3 DEF Turn
<1>3. CASE QueueDrained(w)
  <2>1. CASE Ends(w)
    BY <1>0, <1>1, <2>1, Moves DEF IInv
  <2>2. CASE worker' = [worker EXCEPT ![w].queue = "events"]
    <3>1. worker'[w].at = "loop"
      BY <1>0, <1>3, <2>2 DEF QueueDrained, At, WorkerState
    <3>2. QED
      BY <1>1, <3>1
  <2>3. QED
    BY <1>3, <2>1, <2>2 DEF QueueDrained
<1>4. CASE TickBegins(w) \/ LookupFails(w) \/ RecordFailure(w) \/ MarkFails(w)
  <2>1. worker'[w].at \in {"loop", "requeue", "undo"}
    BY <1>0, <1>4, Moves DEF IInv, TickBegins, LookupFails, RecordFailure, MarkFails
  <2>2. QED
    BY <1>1, <2>1
<1>5. CASE DependencyMissing(w) \/ NotDelivered(w) \/ AnswerLost(w)
  <2>1. worker'[w].at \in {"loop", "record"} /\ worker'[w].item = worker[w].item
    BY <1>0, <1>5, Moves DEF IInv, DependencyMissing, NotDelivered, AnswerLost
  <2>2. worker[w].at = "claimed" /\ waiting' = waiting /\ suspended' = suspended
    BY <1>5 DEF DependencyMissing, NotDelivered, AnswerLost, At
  <2>3. worker'[w].at = "record" => status' = status
    <3>1. CASE DependencyMissing(w)
      <4>1. CASE Fails(w, "record", "missing") /\ UNCHANGED row
        BY <4>1
      <4>2. CASE Go(w, "loop")
        BY <1>0, <4>2, Moves DEF IInv
      <4>3. QED
        BY <3>1, <4>1, <4>2 DEF DependencyMissing
    <3>2. CASE NotDelivered(w) \/ AnswerLost(w)
      BY <3>2 DEF NotDelivered, AnswerLost
    <3>3. QED
      BY <1>5, <3>1, <3>2
  <2>4. QED
    BY <2>1, <2>2, <2>3 DEF TurnsKnow, Turn
<1>6. CASE Delivered(w)
  <2> DEFINE j == worker[w].item
  <2>1. j \in Item /\ worker[w].at = "claimed"
    BY <1>6 DEF IInv, WorkersKnow, Delivered, At
  <2>2. worker'[w] = [worker[w] EXCEPT !.at = "mark", !.msg = sends[j] + 1]
    BY <1>0, <1>6 DEF Delivered
  <2>3. sends[j] + 1 \in Message /\ sends'[j] > 0
    BY <1>6, <2>1, BudgetAssumption DEF Delivered, Accepts, IInv, TypeOK, Message
  <2>4. worker'[w].at = "mark" /\ worker'[w].item = j
    BY <2>2, <2>3, RecordFields DEF IInv
  <2>5. UNCHANGED <<status, waiting, suspended>>
    BY <1>6 DEF Delivered
  <2>6. QED
    BY <2>1, <2>3, <2>4, <2>5 DEF TurnsKnow, Turn
<1>7. CASE RecordFails(w) \/ RequeueFails(w) \/ UndoFails(w) \/ Dies(w)
  <2>1. worker'[w].at \in {"off", "requeue"}
    BY <1>0, <1>7, Moves DEF IInv, RecordFails, RequeueFails, UndoFails, Dies
  <2>2. QED
    BY <1>1, <2>1
<1>8. CASE Requeue(w) \/ Confirm(w)
  <2>1. CASE Ends(w)
    BY <1>0, <1>1, <2>1, Moves DEF IInv
  <2>2. CASE worker' = [worker EXCEPT ![w] = [Idle EXCEPT !.at = "loop", !.queue = worker[w].queue]]
    <3>1. worker'[w].at = "loop"
      BY <1>0, <2>2, RecordFields DEF IInv
    <3>2. QED
      BY <1>1, <3>1
  <2>3. QED
    BY <1>8, <2>1, <2>2 DEF Requeue, Confirm
<1>9. CASE Undone(w)
  <2>1. worker'[w].at = "requeue"
    BY <1>0, <1>9, RecordFields DEF IInv, Undone
  <2>2. QED
    BY <1>1, <2>1
<1>10. CASE Marked(w)
  <2>1. worker'[w] = [worker[w] EXCEPT !.at = "confirm", !.msg = None]
    BY <1>0, <1>10 DEF Marked
  <2>2. worker'[w].at = "confirm" /\ worker'[w].item = worker[w].item
    BY <2>1, RecordFields DEF IInv
  <2>3. worker[w].item \in Item /\ worker[w].at = "mark"
    BY <1>10 DEF IInv, WorkersKnow, Marked, At
  <2>4. status'[worker[w].item] = "sent" /\ suspended' = suspended
    BY <1>10, <2>3 DEF IInv, TypeOK, Marked, MarkSent
  <2>5. QED
    BY <2>2, <2>3, <2>4 DEF TurnsKnow, Turn
<1>11. QED
  BY <1>2, <1>3, <1>4, <1>5, <1>6, <1>7, <1>8, <1>9, <1>10 DEF Delivers

\* A step keeps the last failure of a budget a suspension.
LEMMA BudgetStep == IInv /\ BudgetSuspends /\ [Next]_vars => BudgetSuspends'
<1> SUFFICES ASSUME IInv, BudgetSuspends, [Next]_vars PROVE BudgetSuspends'
  OBVIOUS
<1> USE DEF row, ledger
<1>1. ASSUME NEW w \in Worker, RecordFailure(w) PROVE BudgetSuspends'
  <2> DEFINE j == worker[w].item
  <2>1. j \in Item
    BY <1>1 DEF IInv, WorkersKnow, RecordFailure, At
  <2>2. attempts[j] \in 0..Budget
    BY <2>1 DEF IInv, TypeOK
  <2>3. Count(j) = Budget => Suspends(j, worker[w].trouble)
    BY <2>2, BudgetAssumption DEF Count, Suspends
  <2>4. \A i \in Item : attempts'[i] = IF i = j THEN Count(j) ELSE attempts[i]
    BY <1>1, <2>1 DEF RecordFailure, IInv, TypeOK
  <2>5. \A i \in Item : i # j => (i \in suspended' <=> i \in suspended)
    BY <1>1 DEF RecordFailure
  <2>6. Suspends(j, worker[w].trouble) => j \in suspended'
    BY <1>1 DEF RecordFailure
  <2>7. QED
    BY <2>3, <2>4, <2>5, <2>6 DEF BudgetSuspends
<1>2. ASSUME NEW w \in Worker, Confirm(w) PROVE BudgetSuspends'
  <2>1. 0 # Budget
    BY BudgetAssumption
  <2>2. QED
    BY <1>2, <2>1 DEF Confirm, BudgetSuspends, IInv, TypeOK
<1>3. CASE UNCHANGED <<attempts, suspended>>
  BY <1>3 DEF BudgetSuspends
<1>4. QED
  BY <1>1, <1>2, <1>3
     DEF Next, Insert, ClaimAges, RetryFallsDue, Delivers, Dies, TickBegins, Claim, QueueDrained,
         LookupFails, DependencyMissing, Delivered, NotDelivered, AnswerLost, RecordFails, Requeue,
         RequeueFails, Marked, MarkFails, Undone, UndoFails, LeaseLost, Acknowledges, AckPressed,
         ReportDismisses, DismissMessage, AcknowledgeAlert, AckAborts, vars

LEMMA TurnsStep == IInv /\ OneActive /\ TurnsKnow /\ [Next]_vars => TurnsKnow'
<1> SUFFICES ASSUME IInv, OneActive, TurnsKnow, [Next]_vars PROVE \A v \in Worker : Turn(v)'
  BY BudgetStep DEF TurnsKnow
<1> USE DEF row, ledger, telegram
<1>1. ASSUME NEW w \in Worker, Delivers(w) \/ Dies(w) PROVE \A v \in Worker : Turn(v)'
  <2>1. \A v \in Worker : v # w => worker'[v] = worker[v]
    BY <1>1, Effects
  <2>2. Turn(w)'
    BY <1>1, OwnTurn
  <2>3. CASE TickBegins(w)
    BY <2>1, <2>2, <2>3 DEF TickBegins, TurnsKnow, Turn
  <2>4. CASE ~TickBegins(w)
    <3>1. Active(w)
      BY <1>1, <2>4 DEF Active, Delivers, Dies, At, Claim, QueueDrained, LookupFails,
         DependencyMissing, Delivered, NotDelivered, AnswerLost, RecordFailure, RecordFails,
         Requeue, RequeueFails, Marked, MarkFails, Undone, UndoFails, Confirm
    <3>2. \A v \in Worker : v # w => worker'[v].at = "off"
      BY <2>1, <3>1 DEF OneActive, Active, At
    <3>3. QED
      BY <2>2, <3>2 DEF Turn
  <2>5. QED
    BY <2>3, <2>4
<1>2. ASSUME NEW i \in Item, Insert(i) PROVE \A v \in Worker : Turn(v)'
  <2>1. \A j \in Item : status[j] # "absent" => status'[j] = status[j]
    BY <1>2 DEF Insert, IInv, TypeOK
  <2>2. QED
    BY <1>2, <2>1 DEF Insert, TurnsKnow, Turn, IInv, WorkersKnow
<1>3. ASSUME NEW i \in Item, RetryFallsDue(i) PROVE \A v \in Worker : Turn(v)'
  BY <1>3 DEF RetryFallsDue, TurnsKnow, Turn
<1>4. CASE UNCHANGED <<status, waiting, suspended, sends, worker>>
  BY <1>4 DEF TurnsKnow, Turn
<1>5. QED
  BY <1>1, <1>2, <1>3, <1>4 DEF Next, ClaimAges, LeaseLost, Acknowledges,
     AckPressed, ReportDismisses, DismissMessage, AcknowledgeAlert, AckAborts, vars

-----------------------------------------------------------------------------
(* The lifecycle of deliveries.  Only six kinds of steps are seen there;   *)
(* all the others leave status, sends, attempts and Rest as they are.      *)

LEMMA RestTakes ==
    ASSUME TypeOK, NEW i \in Item
    PROVE  /\ Rest[i] = IF i \in suspended THEN "suspended"
                        ELSE IF i \in waiting THEN "waits" ELSE "none"
           /\ UNCHANGED <<waiting, suspended>> => Rest' = Rest
BY DEF Rest

\* What becomes of the rest of one row when the ledger of the others is left alone.
LEMMA RestChanges ==
    ASSUME NEW i \in Item,
           \A j \in Item : j # i =>
               (j \in waiting' <=> j \in waiting) /\ (j \in suspended' <=> j \in suspended)
    PROVE  /\ i \in suspended' => Rest' = [Rest EXCEPT ![i] = "suspended"]
           /\ i \notin suspended' /\ i \in waiting' => Rest' = [Rest EXCEPT ![i] = "waits"]
           /\ i \notin suspended' /\ i \notin waiting' => Rest' = [Rest EXCEPT ![i] = "none"]
<1> DEFINE Kind(j) == IF j \in suspended' THEN "suspended"
                      ELSE IF j \in waiting' THEN "waits" ELSE "none"
<1>1. Rest' = [j \in Item |-> Kind(j)]
  BY DEF Rest
<1>2. \A j \in Item : j # i => Kind(j) = Rest[j]
  BY DEF Rest
<1>3. [Rest EXCEPT ![i] = Kind(i)] = [j \in Item |-> IF j = i THEN Kind(i) ELSE Rest[j]]
  BY DEF Rest
<1>4. Rest' = [Rest EXCEPT ![i] = Kind(i)]
  BY <1>1, <1>2, <1>3
<1>5. QED
  BY <1>4

LEMMA WorkerImplements ==
    ASSUME IInv, TurnsKnow, NEW w \in Worker, Delivers(w) \/ Dies(w)
    PROVE  Delivery!Next \/ UNCHANGED Delivery!delivery
<1> DEFINE i == worker[w].item
<1> USE DEF row, ledger, telegram, Delivery!delivery
<1>1. ASSUME NEW j \in Item, Claim(w, j) PROVE Delivery!Next \/ UNCHANGED Delivery!delivery
  <2>1. Rest[j] = "none" /\ UNCHANGED <<sends, attempts, Rest>>
    BY <1>1, RestTakes DEF Claim, Claimable, IInv
  <2>2. CASE status[j] = "pending"
    <3>1. Delivery!Take(j)
      BY <1>1, <2>1, <2>2 DEF Claim, Delivery!Take, Delivery!Moves
    <3>2. QED
      BY <3>1 DEF Delivery!Next
  <2>3. CASE status[j] = "claimed"
    <3>1. status' = status
      BY <1>1, <2>3 DEF Claim, IInv, TypeOK
    <3>2. QED
      BY <2>1, <3>1
  <2>4. QED
    BY <1>1, <2>2, <2>3 DEF Claim, Claimable
<1>2. CASE Delivered(w) \/ (AnswerLost(w) /\ Accepts(i))
  <2>1. i \in Item /\ worker[w].at = "claimed"
    BY <1>2 DEF IInv, WorkersKnow, Delivered, AnswerLost, At
  <2>2. status[i] = "claimed" /\ Rest[i] = "none"
    BY <2>1, RestTakes DEF TurnsKnow, Turn, IInv
  <2>3. Accepts(i) /\ UNCHANGED <<status, attempts, waiting, suspended>>
    BY <1>2 DEF Delivered, AnswerLost
  <2>4. Delivery!Reach(i)
    BY <2>1, <2>2, <2>3, RestTakes DEF Accepts, IInv, Delivery!Reach, Delivery!InHand
  <2>5. QED
    BY <2>1, <2>4 DEF Delivery!Next
<1>3. CASE RecordFailure(w)
  <2>1. i \in Item /\ worker[w].at = "record"
    BY <1>3 DEF IInv, WorkersKnow, RecordFailure, At
  <2>2. status[i] = "claimed" /\ i \notin suspended /\ Rest[i] = "none"
    BY <2>1, RestTakes DEF TurnsKnow, Turn, IInv
  <2>3. attempts[i] \in 0..Budget /\ attempts[i] # Budget
    BY <2>1, <2>2 DEF IInv, TypeOK, TurnsKnow, BudgetSuspends
  <2>4. attempts[i] < Budget /\ Count(i) = attempts[i] + 1
    BY <2>3, BudgetAssumption DEF Count
  <2>5. \A j \in Item : j # i =>
            (j \in waiting' <=> j \in waiting) /\ (j \in suspended' <=> j \in suspended)
    BY <1>3 DEF RecordFailure
  <2>6. CASE Suspends(i, worker[w].trouble)
    <3>1. i \in suspended'
      BY <1>3, <2>6 DEF RecordFailure
    <3>2. Rest' = [Rest EXCEPT ![i] = "suspended"]
      BY <2>1, <2>5, <3>1, RestChanges
    <3>3. Delivery!Fail(i)
      BY <1>3, <2>2, <2>4, <3>2
         DEF RecordFailure, Delivery!Fail, Delivery!InHand, Delivery!Rests
    <3>4. QED
      BY <2>1, <3>3 DEF Delivery!Next
  <2>7. CASE ~Suspends(i, worker[w].trouble)
    <3>1. i \notin suspended' /\ i \in waiting'
      BY <1>3, <2>7 DEF RecordFailure
    <3>2. Rest' = [Rest EXCEPT ![i] = "waits"]
      BY <2>1, <2>5, <3>1, RestChanges
    <3>3. attempts[i] + 1 < Budget
      BY <2>3, <2>7, BudgetAssumption DEF Suspends
    <3>4. Delivery!Fail(i)
      BY <1>3, <2>2, <2>4, <3>2, <3>3
         DEF RecordFailure, Delivery!Fail, Delivery!InHand, Delivery!Rests
    <3>5. QED
      BY <2>1, <3>4 DEF Delivery!Next
  <2>8. QED
    BY <2>6, <2>7
<1>4. CASE Requeue(w)
  <2>1. i \in Item
    BY <1>4 DEF IInv, WorkersKnow, Requeue, At
  <2>2. Delivery!PutBack(i)
    BY <1>4, <2>1, RestTakes DEF Requeue, HoldsClaim, IInv, Delivery!PutBack, Delivery!Moves
  <2>3. QED
    BY <2>1, <2>2 DEF Delivery!Next
<1>5. CASE (Marked(w) \/ MarkFails(w)) /\ MarkSent(w)
  <2>1. i \in Item /\ worker[w].at = "mark"
    BY <1>5 DEF IInv, WorkersKnow, Marked, MarkFails, At
  <2>2. status[i] = "claimed" /\ Rest[i] = "none" /\ sends[i] > 0
    BY <2>1, RestTakes DEF TurnsKnow, Turn, IInv
  <2>3. UNCHANGED <<sends, attempts, Rest>>
    BY <1>5, <2>1, RestTakes DEF Marked, MarkFails, IInv
  <2>4. Delivery!Settle(i)
    BY <1>5, <2>2, <2>3 DEF MarkSent, Delivery!Settle, Delivery!InHand, Delivery!Moves
  <2>5. QED
    BY <2>1, <2>4 DEF Delivery!Next
<1>6. CASE DependencyMissing(w)
  <2>1. i \in Item /\ worker[w].at = "claimed"
    BY <1>6 DEF IInv, WorkersKnow, DependencyMissing, At
  <2>2. status[i] = "claimed" /\ Rest[i] = "none"
    BY <2>1, RestTakes DEF TurnsKnow, Turn, IInv
  <2>3. UNCHANGED <<sends, attempts, Rest>>
    BY <1>6, <2>1, RestTakes DEF DependencyMissing, IInv
  <2>4. CASE status' = status
    BY <2>3, <2>4
  <2>5. CASE status' = [status EXCEPT ![i] = "failed"]
    <3>1. Delivery!Settle(i)
      BY <2>2, <2>3, <2>5 DEF Delivery!Settle, Delivery!InHand, Delivery!Moves
    <3>2. QED
      BY <2>1, <3>1 DEF Delivery!Next
  <2>6. QED
    BY <1>6, <2>4, <2>5 DEF DependencyMissing
<1>7. CASE Confirm(w)
  <2>1. i \in Item /\ worker[w].at = "confirm"
    BY <1>7 DEF IInv, WorkersKnow, Confirm, At
  <2>2. status[i] = "sent" /\ Rest[i] # "suspended"
    BY <2>1, RestTakes DEF TurnsKnow, Turn, IInv
  <2>3. Rest' = [Rest EXCEPT ![i] = "none"]
    BY <1>7, <2>1, RestChanges DEF Confirm
  <2>4. Delivery!Clear(i)
    BY <1>7, <2>2, <2>3 DEF Confirm, Delivery!Clear, Delivery!Rests
  <2>5. QED
    BY <2>1, <2>4 DEF Delivery!Next
<1>8. CASE UNCHANGED <<status, sends, attempts, waiting, suspended>>
  BY <1>8 DEF Rest
<1>9. QED
  BY <1>1, <1>2, <1>3, <1>4, <1>5, <1>6, <1>7, <1>8
     DEF Delivers, Dies, TickBegins, QueueDrained, LookupFails, NotDelivered, AnswerLost,
         RecordFails, RequeueFails, Marked, MarkFails, Undone, UndoFails

LEMMA StepImplements ==
    IInv /\ TurnsKnow /\ [Next]_vars => [Delivery!Next]_(Delivery!delivery)
<1> SUFFICES ASSUME IInv, TurnsKnow, [Next]_vars
             PROVE  Delivery!Next \/ UNCHANGED Delivery!delivery
  OBVIOUS
<1> USE DEF row, ledger, telegram, Delivery!delivery
<1>1. ASSUME NEW i \in Item, Insert(i) PROVE Delivery!Next
  <2>1. Delivery!Appears(i)
    BY <1>1, RestTakes DEF Insert, IInv, Delivery!Appears, Delivery!Moves
  <2>2. QED
    BY <2>1 DEF Delivery!Next
<1>2. ASSUME NEW i \in Item, RetryFallsDue(i) PROVE Delivery!Next \/ UNCHANGED Delivery!delivery
  <2>1. CASE i \in suspended
    <3>1. Rest' = Rest
      BY <1>2, <2>1 DEF RetryFallsDue, Rest
    <3>2. QED
      BY <1>2, <3>1 DEF RetryFallsDue
  <2>2. CASE i \notin suspended
    <3>1. Rest[i] = "waits"
      BY <1>2, <2>2, RestTakes DEF RetryFallsDue, IInv
    <3>2. Rest' = [Rest EXCEPT ![i] = "none"]
      BY <1>2, <2>2, RestChanges DEF RetryFallsDue
    <3>3. Delivery!FallDue(i)
      BY <1>2, <3>1, <3>2 DEF RetryFallsDue, Delivery!FallDue, Delivery!Rests
    <3>4. QED
      BY <3>3 DEF Delivery!Next
  <2>3. QED
    BY <2>1, <2>2
<1>3. ASSUME NEW w \in Worker, Delivers(w) \/ Dies(w)
      PROVE  Delivery!Next \/ UNCHANGED Delivery!delivery
  BY <1>3, WorkerImplements
<1>4. CASE UNCHANGED <<status, sends, attempts, waiting, suspended>>
  BY <1>4 DEF Rest
<1>5. QED
  BY <1>1, <1>2, <1>3, <1>4 DEF Next, ClaimAges, LeaseLost, Acknowledges, AckPressed,
     ReportDismisses, DismissMessage, AcknowledgeAlert, AckAborts, vars

LEMMA TurnsBegin == Init => TurnsKnow /\ Delivery!Init
<1> SUFFICES ASSUME Init PROVE TurnsKnow /\ Delivery!Init
  OBVIOUS
<1>1. \A w \in Worker : Turn(w)
  BY DEF Init, Idle, Turn
<1>2. BudgetSuspends
  <2>1. 0 # Budget
    BY BudgetAssumption
  <2>2. QED
    BY <2>1 DEF Init, BudgetSuspends
<1>3. Delivery!Init
  BY DEF Init, Rest, Delivery!Init
<1>4. QED
  BY <1>1, <1>2, <1>3 DEF TurnsKnow

\* While workers take turns, the rows are delivered as the lifecycle says: tried only in hand,
\* waiting or suspended after a failure and suspended by the last of the budget, sent only if
\* a message has reached the chat, and settled once.
THEOREM RefinesDelivery == Spec /\ []OneActive => ImplementsDelivery
BY TurnsBegin, TurnsStep, StepImplements, Invariance, PTL
   DEF Spec, ImplementsDelivery, Delivery!Spec

\* So the lease is enough, whoever dies, as long as its session lives.
COROLLARY LeaseGuardsDelivery == Spec /\ [][~LeaseLost]_vars => ImplementsDelivery
BY LeaseExcludes, RefinesDelivery, PTL

\* A single worker process needs no lease for it.
COROLLARY OneWorkerSuffices == ASSUME \A v, w \in Worker : v = w PROVE Spec => ImplementsDelivery
<1>1. OneActive
  BY DEF OneActive
<1>2. QED
  BY <1>1, RefinesDelivery, PTL

\* While workers take turns, a suspended delivery is not sent again before an operator
\* has looked at it: in the lifecycle nothing takes a suspended row or lifts its suspension.
THEOREM SuspensionRests == Spec /\ []OneActive => SuspensionHolds
<1>1. IInv /\ TurnsKnow /\ [Next]_vars =>
        [\A i \in Item : i \in suspended /\ status[i] = "pending" =>
            status'[i] = "pending" /\ i \in suspended']_vars
  <2> SUFFICES ASSUME IInv, IInv', TurnsKnow, [Next]_vars, NEW i \in Item,
                      i \in suspended, status[i] = "pending"
               PROVE  status'[i] = "pending" /\ i \in suspended'
    BY StepInv
  <2>1. Rest[i] = "suspended" /\ (Rest'[i] = "suspended" => i \in suspended')
    BY DEF Rest
  <2>2. CASE UNCHANGED Delivery!delivery
    BY <2>1, <2>2 DEF Delivery!delivery
  <2>3. ASSUME NEW j \in Item,
               Delivery!Appears(j) \/ Delivery!Take(j) \/ Delivery!PutBack(j) \/ Delivery!Reach(j)
               \/ Delivery!Fail(j) \/ Delivery!FallDue(j) \/ Delivery!Settle(j) \/ Delivery!Clear(j)
        PROVE  status'[i] = status[i] /\ Rest'[i] = Rest[i]
    <3>1. i # j \/ UNCHANGED status
      BY <2>1, <2>3 DEF Delivery!Appears, Delivery!Take, Delivery!PutBack, Delivery!Reach,
         Delivery!Fail, Delivery!FallDue, Delivery!Settle, Delivery!Clear, Delivery!Moves
    <3>2. i # j \/ UNCHANGED Rest
      BY <2>1, <2>3 DEF Delivery!Appears, Delivery!Take, Delivery!PutBack, Delivery!Reach,
         Delivery!Fail, Delivery!FallDue, Delivery!Settle, Delivery!Clear, Delivery!InHand
    <3>3. QED
      BY <2>3, <3>1, <3>2 DEF Delivery!Appears, Delivery!Take, Delivery!PutBack, Delivery!Reach,
         Delivery!Fail, Delivery!FallDue, Delivery!Settle, Delivery!Clear, Delivery!Moves,
         Delivery!Rests, IInv, TypeOK, Rest
  <2>4. QED
    BY <2>1, <2>2, <2>3, StepImplements DEF Delivery!Next
<1>2. QED
  BY <1>1, TurnsBegin, TurnsStep, Invariance, PTL DEF Spec, SuspensionHolds

-----------------------------------------------------------------------------
(* Dismissing an alert.  AcknowledgedIsDismissed is violated when a worker  *)
(* sends the alert while the API dismisses it, and in no other way.         *)

\* A worker has the row in its hands and may send it, store it or delete it.
Handles(w, i) == worker[w].item = i /\ worker[w].at \in {"claimed", "mark", "undo"}

\* No worker handles the alert that is being dismissed.
NoOverlap == call # None => \A w \in Worker : ~Handles(w, call.item)

\* What the API has read of the alert is still so, and an acknowledged alert is nobody's.
DismissalKnows ==
    /\ AcknowledgedIsDismissed
    /\ \A i \in acked, w \in Worker : ~Handles(w, i)
    /\ call # None =>
        /\ stored[call.item] # None => call.target = stored[call.item]
        /\ call.dismissed => chat[call.item] \subseteq astray[call.item]

\* The steps after which a worker has no row to send, store or delete.
LEMMA RestSteps ==
    ASSUME IInv, NEW w \in Worker, Delivers(w) \/ Dies(w),
           ~(\E i \in Item : Claim(w, i)), ~Delivered(w), ~MarkFails(w)
    PROVE  worker'[w].at \notin {"claimed", "mark", "undo"}
<1>0. worker \in [Worker -> WorkerState] /\ "loop" \in Step /\ "requeue" \in Step
      /\ "record" \in Step /\ Trouble \subseteq Trouble
      /\ {"refused", "unavailable", "ambiguous", "missing"} \subseteq Trouble
  BY DEF IInv, TypeOK, Step, Trouble
<1>1. CASE QueueDrained(w)
  <2>1. CASE Ends(w)
    BY <1>0, <2>1, Moves DEF IInv
  <2>2. CASE worker' = [worker EXCEPT ![w].queue = "events"]
    BY <1>0, <1>1, <2>2 DEF QueueDrained, At, WorkerState
  <2>3. QED
    BY <1>1, <2>1, <2>2 DEF QueueDrained
<1>2. CASE TickBegins(w) \/ LookupFails(w) \/ RecordFailure(w) \/ DependencyMissing(w)
           \/ NotDelivered(w) \/ AnswerLost(w)
  BY <1>0, <1>2, Moves DEF IInv, TickBegins, LookupFails, RecordFailure, DependencyMissing,
                           NotDelivered, AnswerLost
<1>3. CASE RecordFails(w) \/ RequeueFails(w) \/ UndoFails(w) \/ Dies(w)
  BY <1>0, <1>3, Moves DEF IInv, RecordFails, RequeueFails, UndoFails, Dies
<1>4. CASE Requeue(w) \/ Confirm(w)
  <2>1. CASE Ends(w)
    BY <1>0, <2>1, Moves DEF IInv
  <2>2. CASE worker' = [worker EXCEPT ![w] = [Idle EXCEPT !.at = "loop", !.queue = worker[w].queue]]
    BY <1>0, <2>2, RecordFields DEF IInv
  <2>3. QED
    BY <1>4, <2>1, <2>2 DEF Requeue, Confirm
<1>5. CASE Undone(w)
  <2>1. worker'[w] = [worker[w] EXCEPT !.at = "requeue", !.msg = None, !.trouble = "unavailable"]
    BY <1>0, <1>5 DEF Undone
  <2>2. QED
    BY <2>1, RecordFields DEF IInv
<1>6. CASE Marked(w)
  <2>1. worker'[w] = [worker[w] EXCEPT !.at = "confirm", !.msg = None]
    BY <1>0, <1>6 DEF Marked
  <2>2. QED
    BY <2>1, RecordFields DEF IInv
<1>7. QED
  BY <1>1, <1>2, <1>3, <1>4, <1>5, <1>6 DEF Delivers

LEMMA DismissalStep == IInv /\ NoOverlap /\ DismissalKnows /\ [Next]_vars => DismissalKnows'
<1> SUFFICES ASSUME IInv, NoOverlap, DismissalKnows, [Next]_vars PROVE DismissalKnows'
  OBVIOUS
<1> USE DEF IInv, row, ledger, telegram, DismissalKnows, AcknowledgedIsDismissed
<1>0. /\ acked \subseteq Item /\ (call # None => call \in Call /\ call.item \in Item)
      /\ worker \in [Worker -> WorkerState]
  BY DEF TypeOK, Call, Item
<1>1. ASSUME NEW w \in Worker, Delivers(w) \/ Dies(w)
      PROVE  DismissalKnows'
  <2> DEFINE j == worker[w].item
             Kept(i) == /\ chat'[i] \subseteq astray'[i] \cup chat[i] /\ astray[i] \subseteq astray'[i]
                        /\ stored'[i] = stored[i]
  <2>1. ASSUME NEW i \in Item, ~Handles(w, i) PROVE Kept(i)
    <3>1. CASE Delivered(w) \/ AnswerLost(w) \/ Marked(w) \/ MarkFails(w) \/ Undone(w)
      <4>1. j # i /\ j \in Item
        BY <2>1, <3>1 DEF Delivered, AnswerLost, Marked, MarkFails, Undone, At, Handles, WorkersKnow
      <4>2. QED
        BY <3>1, <4>1 DEF Delivered, AnswerLost, Marked, MarkFails, Undone, Accepts, MarkSent, TypeOK
    <3>2. CASE UndoFails(w) \/ Dies(w)
      BY <3>2 DEF UndoFails, Dies, LosesSight, TypeOK
    <3>3. CASE UNCHANGED <<chat, astray, stored>>
      BY <3>3
    <3>4. QED
      BY <1>1, <3>1, <3>2, <3>3 DEF Delivers, TickBegins, Claim, QueueDrained, LookupFails,
         DependencyMissing, NotDelivered, RecordFailure, RecordFails, Requeue, RequeueFails, Confirm
  <2>2. UNCHANGED <<acked, call>>
    BY <1>1 DEF Delivers, Dies, TickBegins, Claim, QueueDrained, LookupFails, DependencyMissing,
       Delivered, NotDelivered, AnswerLost, RecordFailure, RecordFails, Requeue, RequeueFails,
       Marked, MarkFails, Undone, UndoFails, Confirm
  <2>3. ASSUME NEW i \in acked, NEW v \in Worker PROVE ~Handles(v, i)'
    <3>1. CASE v # w
      BY <1>1, <3>1, Effects DEF Handles
    <3>2. CASE v = w
      <4>1. CASE \E k \in Item : Claim(w, k)
        <5>1. PICK k \in Item : Claim(w, k)
          BY <4>1
        <5>2. k # i
          BY <5>1 DEF Claim, Claimable
        <5>3. worker'[w] = [worker[w] EXCEPT !.at = "claimed", !.item = k]
          BY <1>0, <5>1 DEF Claim
        <5>4. worker'[w].item = k
          BY <5>3, RecordFields
        <5>5. QED
          BY <3>2, <5>2, <5>4 DEF Handles
      <4>2. CASE Delivered(w)
        BY <1>0, <3>2, <4>2 DEF Delivered, At, Handles, WorkerState
      <4>3. CASE MarkFails(w)
        BY <1>0, <3>2, <4>3 DEF MarkFails, At, Handles, Go, WorkerState
      <4>4. CASE ~(\E k \in Item : Claim(w, k)) /\ ~Delivered(w) /\ ~MarkFails(w)
        <5>1. worker'[w].at \notin {"claimed", "mark", "undo"}
          BY <1>0, <1>1, <4>4, RestSteps
        <5>2. QED
          BY <3>2, <5>1 DEF Handles
      <4>5. QED
        BY <4>1, <4>2, <4>3, <4>4
    <3>3. QED
      BY <3>1, <3>2
  <2>4. \A i \in acked : Kept(i)
    BY <1>0, <2>1
  <2>5. call # None => Kept(call.item)
    BY <1>0, <2>1 DEF NoOverlap
  <2>6. QED
    BY <2>2, <2>3, <2>4, <2>5
<1>2. ASSUME NEW i \in Alert, NEW m \in Message, AckPressed(i, m) PROVE DismissalKnows'
  BY <1>2 DEF AckPressed, Handles
<1>3. ASSUME NEW i \in Alert, ReportDismisses(i) PROVE DismissalKnows'
  BY <1>3 DEF ReportDismisses, Handles
<1>4. CASE DismissMessage
  <2>1. \A i \in Item : chat'[i] = IF i = call.item THEN chat[i] \ {call.target} ELSE chat[i]
    BY <1>0, <1>4 DEF DismissMessage, TypeOK
  <2>2. call' # None /\ call'.item = call.item /\ call'.target = call.target /\ call'.dismissed
    BY <1>0, <1>4, Constants DEF DismissMessage, Call
  <2>3. chat'[call.item] \subseteq astray[call.item]
    <3>1. CASE call.item \in acked
      BY <1>0, <1>4, <2>1, <3>1 DEF DismissMessage
    <3>2. CASE call.item \notin acked
      <4>1. ASSUME NEW m \in chat'[call.item] PROVE m \in astray[call.item]
        <5>1. m \in chat[call.item] /\ m # call.target /\ m # None
          BY <1>0, <1>4, <2>1, <4>1, Constants DEF DismissMessage, TypeOK
        <5>2. ASSUME NEW w \in Worker PROVE ~InHand(w, call.item, m)
          BY <1>0, <1>4, <5>1 DEF InHand, WorkersKnow, NoOverlap, Handles, DismissMessage
        <5>3. m # stored[call.item]
          BY <1>4, <5>1 DEF DismissMessage
        <5>4. QED
          BY <1>0, <1>4, <3>2, <5>1, <5>2, <5>3 DEF MessagesAccounted, DismissMessage
      <4>2. QED
        BY <4>1
    <3>3. QED
      BY <3>1, <3>2
  <2>4. QED
    BY <1>0, <1>4, <2>1, <2>2, <2>3 DEF DismissMessage, Handles
<1>5. CASE AcknowledgeAlert
  <2>1. \A i \in acked' : i = call.item \/ i \in acked
    BY <1>5 DEF AcknowledgeAlert
  <2>2. QED
    BY <1>5, <2>1 DEF AcknowledgeAlert, NoOverlap, Handles
<1>6. CASE AckAborts
  BY <1>6 DEF AckAborts, Handles
<1>7. CASE UNCHANGED <<chat, astray, stored, acked, worker, call>>
  BY <1>7 DEF Handles
<1>8. QED
  BY <1>1, <1>2, <1>3, <1>4, <1>5, <1>6, <1>7
     DEF Next, Insert, ClaimAges, RetryFallsDue, LeaseLost, Acknowledges, vars

\* The message of an acknowledged alert is gone or inert, unless a worker was sending that
\* alert while it was dismissed, or its sending was lost sight of.
THEOREM OnlyOverlapLeavesButtons == Spec /\ []NoOverlap => []AcknowledgedIsDismissed
<1>1. Init => DismissalKnows
  BY DEF Init, DismissalKnows, AcknowledgedIsDismissed
<1>2. DismissalKnows => AcknowledgedIsDismissed
  BY DEF DismissalKnows
<1>3. QED
  BY <1>1, <1>2, DismissalStep, Invariance, PTL DEF Spec
=============================================================================
