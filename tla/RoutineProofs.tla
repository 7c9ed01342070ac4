--------------------------- MODULE RoutineProofs ---------------------------
(***************************************************************************)
(* Proofs about Routine, for any number of days, items and saved lists.    *)
(*                                                                         *)
(* Nothing in the code tests again what a press, a reason or the tick has  *)
(* read.  It stays true because a check-in keeps its list, an answer is    *)
(* only ever written over "open" or the worker's "failed", and the input   *)
(* that a reason claims names the answer its item holds.  These facts are  *)
(* the inductive invariant IInv.  RInv adds what the tick knows of the row *)
(* it is about to write, so that each statement is one step of             *)
(* CheckinLifecycle.                                                       *)
(***************************************************************************)
EXTENDS Routine, TLAPS

-----------------------------------------------------------------------------
(* The inductive invariant.                                                *)

\* The check-in's items are still being inserted.
Writing(d) == worker.at = "items" /\ worker.date = d

\* The check-in has its morning behind it, and all the items it will ever have.
Answerable(d) == checkin[d].list # 0 /\ ~Writing(d) /\ clock >= CheckinHour(d + 1)

RowsKnow ==
    \A d \in Date :
        /\ checkin[d].list = 0 => checkin[d] = NoCheckin
        /\ checkin[d].card \/ checkin[d].completed \/ d \in posted => Answerable(d)

Closed ==
    \A d \in Date : checkin[d].completed => OpenItems(d) = {}

Deadlines ==
    \A d \in Date : checkin[d].autoFailed => clock >= Deadline(d)

InputKnows ==
    Expects("routine_reason") =>
        /\ Answerable(pending.date)
        /\ checkin[pending.date].item[pending.item] = pending.answer

CallKnows ==
    /\ InCall({"plan"}) => Len(saves) < MaxSaves /\ (call.snapshot # 0 => call.list # 0)
    /\ ~InCall({"plan"}) /\ call # None => Answerable(call.date)
    /\ InCall({"press", "pressed"}) =>
          pending = None /\ checkin[call.date].item[call.item] \in {"open", "failed"}
    /\ InCall({"reason", "reasoned"}) =>
          checkin[call.date].item[call.item] = call.answer

WorkerKnows ==
    /\ worker.now <= clock
    /\ worker.at \in {"create", "items", "card", "set card"} =>
          worker.date \in Date /\ worker.now >= CheckinHour(worker.date + 1)
    /\ worker.at \in {"create", "items"} => worker.list # 0
    /\ worker.at \in {"items", "card", "set card", "unremind", "set reminder", "notice", "commit"} =>
          worker.date \in Date /\ checkin[worker.date].list # 0
    /\ worker.at \in {"clear", "fail items", "close"} =>
          worker.date \in Date /\ worker.now >= Deadline(worker.date) /\ Answerable(worker.date)
    /\ worker.at = "close" => OpenItems(worker.date) = {}
    /\ worker.at \in {"transit", "clear", "fail items", "close", "unremind", "set reminder"} =>
          \A d \in worker.todo : Answerable(d)

IInv == TypeOK /\ RowsKnow /\ Closed /\ Deadlines /\ InputKnows /\ CallKnows /\ WorkerKnows

-----------------------------------------------------------------------------
(* Facts about the data.                                                   *)

\* Instants and days are naturals, and Date has no 0.
LEMMA Times ==
    /\ MaxClock \in Nat /\ MaxClock >= 3
    /\ \A t \in Instant : t \in Nat
    /\ 0 \notin Date /\ Date \subseteq Nat
    /\ 0 \in Instant /\ 0 \in 0..MaxSaves /\ 0..MaxSaves \subseteq Nat
    /\ \A d \in Date : CheckinHour(d + 1) \in Nat /\ Deadline(d) \in Nat
                        /\ CheckinHour(d + 1) <= Deadline(d)
BY BoundsAssumption DEF MaxClock, Instant, Date, CheckinHour, Deadline

\* The row before its first INSERT is a row.
LEMMA NoCheckinType == NoCheckin \in Checkin
BY BoundsAssumption DEF NoCheckin, Checkin

\* What the statements make of a row is a row of the same list.
LEMMA RowTypes ==
    ASSUME NEW c \in Checkin
    PROVE  /\ \A i \in Item, a \in Owned \cup {"open"} :
                Answered(c, i, a) \in Checkin /\ Answered(c, i, a).list = c.list
           /\ CompletedWhenAnswered(c) \in Checkin /\ CompletedWhenAnswered(c).list = c.list
           /\ CompletedWhenAnswered(c).item = c.item
           /\ CompletedWhenAnswered(c).card = c.card
           /\ CompletedWhenAnswered(c).autoFailed = c.autoFailed
           /\ Failed(c) \in Checkin /\ Failed(c).list = c.list
<1>1. \A i \in Item, a \in Owned \cup {"open"} :
         Answered(c, i, a) \in Checkin /\ Answered(c, i, a).list = c.list
  BY DEF Checkin, Answered
<1>2. /\ CompletedWhenAnswered(c) \in Checkin /\ CompletedWhenAnswered(c).list = c.list
      /\ CompletedWhenAnswered(c).item = c.item
      /\ CompletedWhenAnswered(c).card = c.card
      /\ CompletedWhenAnswered(c).autoFailed = c.autoFailed
  BY DEF Checkin, CompletedWhenAnswered
<1>3. Failed(c) \in Checkin /\ Failed(c).list = c.list
  BY DEF Checkin, Failed, Owned
<1>. QED  BY <1>1, <1>2, <1>3

-----------------------------------------------------------------------------
(* Steps that change one variable.                                         *)

\* A step that opens, advances or ends the API's transaction.
LEMMA CallStep ==
    ASSUME IInv, UNCHANGED <<clock, saves, checkin, posted, pending, suspended, worker>>,
           call' \in Call \cup {None}, CallKnows'
    PROVE  IInv'
<1>1. TypeOK'  BY DEF IInv, TypeOK
<1>2. RowsKnow' /\ Closed' /\ Deadlines'
  BY DEF IInv, RowsKnow, Closed, Deadlines, Answerable, Writing, OpenItems
<1>3. InputKnows'
  BY DEF IInv, InputKnows, Expects, Answerable, Writing
<1>4. WorkerKnows'
  BY DEF IInv, WorkerKnows, Answerable, Writing, OpenItems
<1>. QED  BY <1>1, <1>2, <1>3, <1>4 DEF IInv

\* A step in which the worker reads, or goes on without a change.
LEMMA WorkerStep ==
    ASSUME IInv, UNCHANGED <<clock, saves, checkin, posted, pending, suspended, call>>,
           worker' \in WorkerState, worker'.at = "items" => worker' = worker, WorkerKnows'
    PROVE  IInv'
<1>1. TypeOK'  BY DEF IInv, TypeOK
<1>2. \A d : Writing(d)' => Writing(d)  BY DEF Writing
<1>3. \A d : Answerable(d) => Answerable(d)'  BY <1>2 DEF Answerable
<1>4. RowsKnow' /\ Closed' /\ Deadlines'
  BY <1>3 DEF IInv, RowsKnow, Closed, Deadlines, OpenItems
<1>5. InputKnows'
  BY <1>3 DEF IInv, InputKnows, Expects
<1>6. CallKnows'
  BY <1>3 DEF IInv, CallKnows, InCall
<1>. QED  BY <1>1, <1>4, <1>5, <1>6 DEF IInv

-----------------------------------------------------------------------------
(* The start, time, and the API.                                           *)

LEMMA Start == Init => IInv
<1>. SUFFICES ASSUME Init PROVE IInv  OBVIOUS
<1>1. TypeOK
  BY NoCheckinType, Times, BoundsAssumption
  DEF Init, TypeOK, WorkerState, Off, Step, Instant
<1>2. RowsKnow /\ Closed /\ Deadlines
  BY DEF Init, RowsKnow, Closed, Deadlines, NoCheckin
<1>3. InputKnows /\ CallKnows
  BY DEF Init, InputKnows, Expects, CallKnows, InCall
<1>4. WorkerKnows
  BY DEF Init, WorkerKnows, Off
<1>. QED  BY <1>1, <1>2, <1>3, <1>4 DEF IInv

LEMMA KeptByAdvance == IInv /\ Advance => IInv'
<1>. SUFFICES ASSUME IInv, Advance PROVE IInv'  OBVIOUS
<1>1. TypeOK'  BY Times DEF IInv, Advance, TypeOK, Instant
<1>2. UNCHANGED <<saves, checkin, posted, pending, suspended, call, worker>>  BY DEF Advance
<1>3. clock \in Nat /\ clock' = clock + 1 /\ worker.now \in Nat
  <2>1. clock \in Instant /\ worker.now \in Instant  BY DEF IInv, TypeOK, WorkerState
  <2>. QED  BY <2>1, Times DEF Advance
<1>4. \A t \in Nat : clock >= t => clock' >= t
  BY <1>3
<1>5. \A d \in Date : Answerable(d) => Answerable(d)'
  BY <1>2, <1>4, Times DEF Answerable, Writing
<1>6. RowsKnow'  BY <1>2, <1>5 DEF IInv, RowsKnow
<1>7. Closed' /\ Deadlines'  BY <1>2, <1>4, Times DEF IInv, Closed, Deadlines, OpenItems
<1>8. InputKnows'
  BY <1>2, <1>5 DEF IInv, InputKnows, Expects, TypeOK, Pending
<1>9. CallKnows'
  BY <1>2, <1>5 DEF IInv, CallKnows, InCall, TypeOK, Call
<1>10. WorkerKnows'
  <2>1. worker.now <= clock'
    <3>1. worker.now <= clock  BY DEF IInv, WorkerKnows
    <3>. QED  BY <3>1, <1>3
  <2>2. worker.date \in Date /\ Answerable(worker.date) => Answerable(worker.date)'
    BY <1>2, <1>4, Times DEF Answerable, Writing
  <2>3. ASSUME NEW d \in worker.todo, Answerable(d) PROVE Answerable(d)'
    <3>1. d \in Date  BY <2>3 DEF IInv, TypeOK, WorkerState
    <3>. QED  BY <2>3, <3>1, <1>5
  <2>. QED  BY <1>2, <2>1, <2>2, <2>3 DEF IInv, WorkerKnows, OpenItems
<1>. QED  BY <1>1, <1>6, <1>7, <1>8, <1>9, <1>10 DEF IInv

\* Beginning, waiting and rolling back change nothing but the call.
LEMMA KeptByConfigure == IInv /\ (Configure \/ PlanRejected) => IInv'
<1>. SUFFICES ASSUME IInv, Configure \/ PlanRejected PROVE IInv'  OBVIOUS
<1>. USE DEF IInv
<1>1. /\ UNCHANGED <<clock, saves, checkin, posted, suspended, call, worker>>
      /\ pending' \in Pending \cup {None} /\ pending' # None /\ pending'.kind = "routine_plan"
      /\ call = None
  BY NoneAssumption DEF Configure, PlanRejected, TypeOK, Pending, Expects
<1>2. TypeOK' /\ RowsKnow' /\ Closed' /\ Deadlines' /\ WorkerKnows'
  BY <1>1 DEF TypeOK, RowsKnow, Closed, Deadlines, WorkerKnows, Answerable, Writing, OpenItems
<1>3. InputKnows' /\ CallKnows'
  BY <1>1 DEF InputKnows, Expects, CallKnows, InCall
<1>. QED  BY <1>2, <1>3

LEMMA KeptByAbort == IInv /\ ApiAborts => IInv'
BY CallStep DEF ApiAborts, CallKnows, InCall

LEMMA KeptByPlanArrives == IInv /\ PlanArrives => IInv'
<1>. SUFFICES ASSUME IInv, PlanArrives PROVE IInv'  OBVIOUS
<1>1. clock \in Nat /\ saves \in Seq(Date)
      /\ (saves # <<>> => saves[1] \in Date /\ Len(saves) # 0)
  BY Times DEF IInv, TypeOK
<1>2. \A t \in Nat : Today(t) \in Nat \ {0}
  BY DEF Today
<1>3. SnapshotDate(clock) \in Date \cup {0}
  <2>1. ASSUME saves # <<>> PROVE saves[1] \in Nat \ {0}
    BY <1>1, <1>2, <2>1, Times
  <2>2. Today(clock) \in 1..LastDay /\ LastDay \in Nat
    BY BoundsAssumption DEF PlanArrives, Date
  <2>. QED
    BY <2>1, <2>2, BoundsAssumption DEF SnapshotDate, Date
<1>4. SnapshotDate(clock) # 0 => Len(saves) # 0
  BY <1>1, <1>3 DEF SnapshotDate
<1>5. call' \in Call
  <2>1. Today(clock) \in Date /\ Len(saves) \in 0..MaxSaves
    BY <1>1, BoundsAssumption DEF PlanArrives, IInv, TypeOK
  <2>. QED  BY <1>3, <2>1 DEF PlanArrives, Begin, Call
<1>6. CallKnows'
  BY <1>4, <1>5 DEF PlanArrives, Begin, CallKnows, InCall
<1>. QED  BY <1>5, <1>6, CallStep DEF PlanArrives, Begin

LEMMA KeptByPress ==
    ASSUME IInv, NEW d \in Date, NEW i \in Item, NEW answer \in Answer, ItemPressed(d, i, answer)
    PROVE  IInv'
<1>1. call' \in Call
  BY AnswerAssumption DEF ItemPressed, Begin, Call
<1>2. checkin[d].item[i] = "open"
  BY DEF ItemPressed, IsNext, OpenItems
<1>3. Answerable(d)
  BY DEF IInv, RowsKnow, ItemPressed
<1>4. CallKnows'
  BY <1>1, <1>2, <1>3, NoneAssumption
  DEF ItemPressed, Begin, CallKnows, InCall, Answerable, Writing
<1>. QED  BY <1>1, <1>4, CallStep DEF ItemPressed, Begin

LEMMA KeptByReasonArrives == IInv /\ ReasonArrives => IInv'
<1>. SUFFICES ASSUME IInv, ReasonArrives PROVE IInv'  OBVIOUS
<1>1. pending.date \in Date /\ pending.item \in Item /\ pending.answer \in Owned
  BY NoneAssumption DEF IInv, TypeOK, ReasonArrives, Expects, Pending
<1>2. call' \in Call
  BY <1>1 DEF ReasonArrives, Begin, Call
<1>3. CallKnows'
  BY <1>1, <1>2, NoneAssumption
  DEF IInv, InputKnows, ReasonArrives, Begin, CallKnows, InCall, Answerable, Writing
<1>. QED  BY <1>2, <1>3, CallStep DEF ReasonArrives, Begin

LEMMA KeptBySetItemStatus == IInv /\ SetItemStatus => IInv'
<1>. SUFFICES ASSUME IInv, SetItemStatus PROVE IInv'  OBVIOUS
<1>1. call \in [op : {"press", "reason", "pressed", "reasoned"}, date : Date, item : Item, answer : Owned]
  BY DEF IInv, TypeOK, Call, SetItemStatus, InCall
<1>2. call' \in Call \cup {None}
  BY <1>1 DEF SetItemStatus, Call
<1>3. CallKnows'
  <2>1. CASE call' = None
    BY <2>1 DEF CallKnows, InCall
  <2>2. CASE call.op = "press" /\ call' = [call EXCEPT !.op = "pressed"]
    BY <2>2, <1>1, NoneAssumption
    DEF IInv, SetItemStatus, CallKnows, InCall, Answerable, Writing
  <2>3. CASE call.op = "reason" /\ call' = [call EXCEPT !.op = "reasoned"]
    BY <2>3, <1>1, NoneAssumption
    DEF IInv, SetItemStatus, CallKnows, InCall, Answerable, Writing
  <2>. QED  BY <2>1, <2>2, <2>3 DEF SetItemStatus, InCall
<1>. QED  BY <1>2, <1>3, CallStep DEF SetItemStatus

\* Rows change under the worker: it loses nothing it knows while lists stay and no
\* item of a whole check-in becomes open.
LEMMA WorkerStillKnows ==
    ASSUME IInv, UNCHANGED <<clock, worker>>,
           \A d \in Date : checkin[d].list # 0 =>
               checkin'[d].list = checkin[d].list
               /\ (\A i \in Item : checkin'[d].item[i] = "open" => checkin[d].item[i] = "open")
    PROVE  WorkerKnows' /\ (\A d \in Date : Answerable(d) => Answerable(d)')
<1>1. \A d \in Date : Answerable(d) => Answerable(d)'
  BY DEF Answerable, Writing
<1>2. worker.date \in Date /\ Answerable(worker.date) => Answerable(worker.date)'
  BY DEF Answerable, Writing
<1>3. worker.date \in Date /\ checkin[worker.date].list # 0 /\ OpenItems(worker.date) = {}
      => OpenItems(worker.date)' = {}
  BY DEF OpenItems
<1>4. \A d \in worker.todo : d \in Date
  BY DEF IInv, TypeOK, WorkerState
<1>5. worker.date \in Date /\ Answerable(worker.date) => checkin[worker.date].list # 0
  BY DEF Answerable
<1>. QED  BY <1>1, <1>2, <1>3, <1>4, <1>5 DEF IInv, WorkerKnows

LEMMA KeptByCommitPlan == IInv /\ CommitPlan => IInv'
<1>. SUFFICES ASSUME IInv, CommitPlan PROVE IInv'  OBVIOUS
<1>1. /\ call \in [op : {"plan"}, day : Date, snapshot : Date \cup {0}, list : 0..MaxSaves]
      /\ Len(saves) < MaxSaves /\ (call.snapshot # 0 => call.list # 0)
  BY NoneAssumption DEF IInv, TypeOK, Call, CallKnows, CommitPlan, InCall
<1>2. WholeCheckin(call.list) \in Checkin /\ WholeCheckin(call.list).list = call.list
      /\ ~WholeCheckin(call.list).card /\ ~WholeCheckin(call.list).completed
  BY <1>1 DEF WholeCheckin, NoCheckin, Checkin
<1>3. ASSUME NEW d \in Date
      PROVE  \/ checkin'[d] = checkin[d]
             \/ /\ checkin[d].list = 0 /\ checkin'[d] = WholeCheckin(call.list)
                /\ call.list # 0
  BY <1>1, Times DEF CommitPlan
<1>4. saves' \in Seq(Date) /\ Len(saves') = Len(saves) + 1 /\ Len(saves) \in Nat
  BY <1>1 DEF IInv, TypeOK, CommitPlan
<1>5. Len(saves') <= MaxSaves  BY <1>1, <1>4, BoundsAssumption
<1>6. checkin' \in [Date -> Checkin]
  BY <1>2 DEF IInv, TypeOK, CommitPlan
<1>7. TypeOK'  BY <1>4, <1>5, <1>6 DEF IInv, TypeOK, CommitPlan
<1>8. WorkerKnows' /\ (\A d \in Date : Answerable(d) => Answerable(d)')
  BY <1>3, WorkerStillKnows DEF CommitPlan
<1>9. RowsKnow'
  BY <1>2, <1>3, <1>8 DEF IInv, RowsKnow, Answerable, CommitPlan
<1>10. Closed' /\ Deadlines'
  BY <1>2, <1>3 DEF IInv, Closed, Deadlines, OpenItems, CommitPlan, WholeCheckin, NoCheckin
<1>11. InputKnows' /\ CallKnows'
  BY NoneAssumption DEF CommitPlan, InputKnows, Expects, CallKnows, InCall
<1>. QED  BY <1>7, <1>8, <1>9, <1>10, <1>11 DEF IInv

LEMMA KeptByCommitReasonPrompt == IInv /\ CommitReasonPrompt => IInv'
<1>. SUFFICES ASSUME IInv, CommitReasonPrompt PROVE IInv'  OBVIOUS
<1>1. /\ call \in [op : {"press", "reason", "pressed", "reasoned"},
                   date : Date, item : Item, answer : Owned]
      /\ Answerable(call.date)
  BY NoneAssumption DEF IInv, TypeOK, Call, CallKnows, CommitReasonPrompt, InCall
<1>2. DEFINE row == Answered(checkin[call.date], call.item, call.answer)
<1>3. checkin[call.date] \in Checkin  BY <1>1 DEF IInv, TypeOK
<1>4. row \in Checkin /\ row.list = checkin[call.date].list
  <2>1. call.item \in Item /\ call.answer \in Owned \cup {"open"}  BY <1>1
  <2>. QED  BY <2>1, <1>3, RowTypes
<1>5. /\ row.card = checkin[call.date].card /\ row.completed = checkin[call.date].completed
      /\ row.autoFailed = checkin[call.date].autoFailed
      /\ row.item[call.item] = call.answer
      /\ \A i \in Item : row.item[i] = "open" => checkin[call.date].item[i] = "open"
  BY <1>1, <1>3 DEF Answered, Checkin, Owned
<1>6. checkin' = [checkin EXCEPT ![call.date] = row]  BY DEF CommitReasonPrompt
<1>7. pending' \in Pending /\ pending'.date = call.date /\ pending'.item = call.item
      /\ pending'.answer = call.answer
  BY <1>1 DEF CommitReasonPrompt, Pending, IInv, TypeOK
<1>. HIDE DEF row
<1>8. TypeOK'  BY <1>4, <1>6, <1>7 DEF IInv, TypeOK, CommitReasonPrompt
<1>9. \A d \in Date : checkin'[d] = IF d = call.date THEN row ELSE checkin[d]
  BY <1>6 DEF IInv, TypeOK
<1>10. WorkerKnows' /\ (\A d \in Date : Answerable(d) => Answerable(d)')
  BY <1>4, <1>5, <1>9, WorkerStillKnows DEF CommitReasonPrompt
<1>11. RowsKnow'
  BY <1>1, <1>4, <1>5, <1>9, <1>10 DEF IInv, RowsKnow, Answerable, CommitReasonPrompt
<1>12. Closed' /\ Deadlines'
  BY <1>5, <1>9 DEF IInv, Closed, Deadlines, OpenItems, CommitReasonPrompt
<1>13. \A d \in Date : d = call.date => Answerable(d)'
  BY <1>1, <1>10
<1>14. InputKnows'
  BY <1>1, <1>5, <1>7, <1>9, <1>13 DEF InputKnows, Answerable, Writing
<1>15. CallKnows'  BY DEF CommitReasonPrompt, CallKnows, InCall
<1>. QED  BY <1>8, <1>10, <1>11, <1>12, <1>14, <1>15 DEF IInv

LEMMA KeptByCommitAnswer == IInv /\ CommitAnswer => IInv'
<1>. SUFFICES ASSUME IInv, CommitAnswer PROVE IInv'  OBVIOUS
<1>1. /\ call \in [op : {"press", "reason", "pressed", "reasoned"},
                   date : Date, item : Item, answer : Owned]
      /\ Answerable(call.date)
      /\ call.op = "pressed" => pending = None
      /\ call.op \in {"pressed", "reasoned"}
  BY NoneAssumption DEF IInv, TypeOK, Call, CallKnows, CommitAnswer, InCall
<1>2. DEFINE answered == Answered(checkin[call.date], call.item, call.answer)
             row == CompletedWhenAnswered(answered)
<1>3. checkin[call.date] \in Checkin  BY <1>1 DEF IInv, TypeOK
<1>4. answered \in Checkin /\ answered.list = checkin[call.date].list
      /\ answered.card = checkin[call.date].card
      /\ answered.completed = checkin[call.date].completed
      /\ answered.autoFailed = checkin[call.date].autoFailed
      /\ \A i \in Item : answered.item[i] = "open" => checkin[call.date].item[i] = "open"
  <2>1. answered \in Checkin /\ answered.list = checkin[call.date].list
    BY <1>1, <1>3, RowTypes
  <2>. QED  BY <2>1, <1>1, <1>3 DEF Answered, Checkin, Owned
<1>5. row.completed => answered.completed \/ \A i \in Item : answered.item[i] # "open"
  BY <1>4 DEF CompletedWhenAnswered, Checkin
<1>6. checkin' = [checkin EXCEPT ![call.date] = row]  BY DEF CommitAnswer
<1>7. /\ row \in Checkin /\ row.list = answered.list
      /\ row.item = answered.item /\ row.card = answered.card
      /\ row.autoFailed = answered.autoFailed
  <2>. HIDE DEF answered
  <2>. QED  BY <1>4, RowTypes
<1>. HIDE DEF answered, row
<1>8. pending' = None \/ pending' = pending  BY DEF CommitAnswer
<1>9. TypeOK'  BY <1>6, <1>7, <1>8 DEF IInv, TypeOK, CommitAnswer
<1>10. \A d \in Date : checkin'[d] = IF d = call.date THEN row ELSE checkin[d]
  BY <1>6 DEF IInv, TypeOK
<1>11. WorkerKnows' /\ (\A d \in Date : Answerable(d) => Answerable(d)')
  BY <1>4, <1>7, <1>10, WorkerStillKnows DEF CommitAnswer
<1>12. RowsKnow'
  BY <1>1, <1>4, <1>7, <1>10, <1>11 DEF IInv, RowsKnow, Answerable, CommitAnswer
<1>13. UNCHANGED <<clock, posted>>  BY DEF CommitAnswer
<1>14. Closed'
  <2>. SUFFICES ASSUME NEW d \in Date, checkin'[d].completed
                PROVE  OpenItems(d)' = {}
    BY DEF Closed
  <2>1. CASE d # call.date
    BY <2>1, <1>10 DEF IInv, Closed, OpenItems
  <2>2. CASE d = call.date
    BY <2>2, <1>4, <1>5, <1>7, <1>10, <1>1 DEF IInv, Closed, OpenItems
  <2>. QED  BY <2>1, <2>2
<1>15. Deadlines'
  BY <1>4, <1>7, <1>10, <1>13 DEF IInv, Deadlines
<1>16. InputKnows' /\ CallKnows'
  BY <1>1, <1>8, NoneAssumption DEF CommitAnswer, InputKnows, Expects, CallKnows, InCall
<1>. QED  BY <1>9, <1>11, <1>12, <1>14, <1>15, <1>16 DEF IInv

-----------------------------------------------------------------------------
(* The worker: steps that only read, and the end of the tick.              *)

LEMMA KeptByTickBegins == IInv /\ TickBegins => IInv'
<1>. SUFFICES ASSUME IInv, TickBegins PROVE IInv'  OBVIOUS
<1>1. clock \in Instant /\ clock \in Nat  BY Times DEF IInv, TypeOK
<1>2. worker' = [Off EXCEPT !.at = "plans", !.now = clock]
      /\ UNCHANGED <<clock, saves, checkin, posted, pending, suspended, call>>
  BY DEF TickBegins, Reads, Goes
<1>3. worker' \in WorkerState /\ worker'.at = "plans" /\ worker'.now = clock
  BY <1>1, <1>2, Times DEF Off, WorkerState, Step
<1>4. WorkerKnows'  BY <1>1, <1>2, <1>3 DEF WorkerKnows
<1>. QED  BY <1>2, <1>3, <1>4, WorkerStep

\* A check-in is made out of the current list, for a date whose morning has come.
LEMMA KeptByListPlans == IInv /\ ListPlans => IInv'
<1>. SUFFICES ASSUME IInv, ListPlans PROVE IInv'  OBVIOUS
<1>1. worker \in WorkerState /\ worker.now \in Nat /\ Len(saves) \in 0..MaxSaves
      /\ worker.now <= clock
  <2>1. worker \in WorkerState /\ worker.now \in Instant  BY DEF IInv, TypeOK, WorkerState
  <2>2. Len(saves) \in Nat /\ Len(saves) <= MaxSaves  BY DEF IInv, TypeOK
  <2>3. Len(saves) \in 0..MaxSaves  BY <2>2, BoundsAssumption
  <2>4. worker.now <= clock  BY DEF IInv, WorkerKnows
  <2>. QED  BY <2>1, <2>3, <2>4, Times
<1>2. UNCHANGED <<clock, saves, checkin, posted, pending, suspended, call>>
  BY DEF ListPlans, Reads, Goes
<1>3. CASE DueDate \in Date
  <2>1. worker' = [worker EXCEPT !.at = "create", !.list = Len(saves), !.date = DueDate]
    BY <1>3 DEF ListPlans, Reads, Goes
  <2>2. worker' \in WorkerState /\ worker'.at = "create" /\ worker'.now = worker.now
        /\ worker'.list = Len(saves) /\ worker'.date = DueDate
    BY <1>1, <1>3, <2>1 DEF WorkerState, Step
  <2>3. DueDate # 0  BY <1>3, Times
  <2>4. Len(saves) # 0  BY <2>3 DEF DueDate, IInv, TypeOK
  <2>5. worker.now >= CheckinHour(DueDate + 1)
    BY <1>1, <2>3 DEF DueDate, CheckinHour, Today, BeforeCheckinHour
  <2>6. WorkerKnows'  BY <1>1, <1>2, <1>3, <2>2, <2>4, <2>5 DEF WorkerKnows
  <2>. QED  BY <1>2, <2>2, <2>6, WorkerStep
<1>4. CASE DueDate \notin Date
  <2>1. worker' = Leaves("list")
    BY <1>4 DEF ListPlans, Reads, Goes
  <2>2. worker' \in WorkerState /\ worker'.at = "list" /\ worker'.now = worker.now
    BY <1>1, <2>1, Times DEF Leaves, WorkerState, Step
  <2>3. WorkerKnows'  BY <1>1, <1>2, <2>2 DEF WorkerKnows
  <2>. QED  BY <1>2, <2>2, <2>3, WorkerStep
<1>. QED  BY <1>3, <1>4

\* Steps that leave for a place where nothing but the time is known.
LEMMA LeavesKnows ==
    ASSUME IInv, UNCHANGED clock, worker' \in WorkerState,
           worker'.at \in {"off", "list", "claim", "expire", "inputs"},
           worker'.now \in {0, worker.now}
    PROVE  WorkerKnows'
<1>1. worker.now \in Instant /\ clock \in Instant  BY DEF IInv, TypeOK, WorkerState
<1>2. worker.now <= clock  BY DEF IInv, WorkerKnows
<1>3. worker'.now <= clock'  BY <1>1, <1>2, Times
<1>. QED  BY <1>3 DEF WorkerKnows

\* The places the worker leaves for are places.
LEMMA Places ==
    ASSUME worker \in WorkerState, NEW step \in Step
    PROVE  /\ GoesTo(step) \in WorkerState /\ GoesTo(step).at = step
           /\ GoesTo(step).now = worker.now /\ GoesTo(step).date = worker.date
           /\ GoesTo(step).list = worker.list /\ GoesTo(step).todo = worker.todo
           /\ Leaves(step) \in WorkerState /\ Leaves(step).at = step
           /\ Leaves(step).now = worker.now /\ Leaves(step).todo = worker.todo
           /\ Off \in WorkerState /\ Off.at = "off" /\ Off.now = 0
<1>1. 0 \in Instant /\ 0 \in 0..MaxSaves  BY Times
<1>2. Leaves(step) \in WorkerState /\ Leaves(step).at = step
      /\ Leaves(step).now = worker.now /\ Leaves(step).todo = worker.todo
  BY <1>1 DEF Leaves, WorkerState
<1>3. Off \in WorkerState /\ Off.at = "off" /\ Off.now = 0
  BY <1>1 DEF Off, WorkerState, Step
<1>4. GoesTo(step) \in WorkerState /\ GoesTo(step).at = step
      /\ GoesTo(step).now = worker.now /\ GoesTo(step).date = worker.date
      /\ GoesTo(step).list = worker.list /\ GoesTo(step).todo = worker.todo
  BY DEF GoesTo, WorkerState
<1>. QED  BY <1>2, <1>3, <1>4

LEMMA KeptBySkip == IInv /\ (SkipCard \/ NoticesDone \/ WorkerStops \/ TransitsDone) => IInv'
<1>. SUFFICES ASSUME IInv, SkipCard \/ NoticesDone \/ WorkerStops \/ TransitsDone PROVE IInv'
  OBVIOUS
<1>1. UNCHANGED <<clock, saves, checkin, posted, pending, suspended, call>>
  BY DEF SkipCard, NoticesDone, WorkerStops, TransitsDone, Reads, Goes
<1>2. worker \in WorkerState  BY DEF IInv, TypeOK
<1>3. {"off", "list", "claim", "expire"} \subseteq Step  BY DEF Step
<1>4. worker' \in WorkerState /\ worker'.at \in {"off", "list", "claim", "expire"}
      /\ worker'.now \in {0, worker.now}
  <2>1. CASE SkipCard  BY <2>1, <1>2, <1>3, Places DEF SkipCard, Reads, Goes
  <2>2. CASE WorkerStops  BY <2>2, <1>2, <1>3, Places DEF WorkerStops, Reads, Goes
  <2>3. CASE NoticesDone
    BY <2>3, <1>2 DEF NoticesDone, Reads, Goes, GoesTo, WorkerState, Step
  <2>4. CASE TransitsDone
    BY <2>4, <1>2, Times DEF TransitsDone, Reads, Goes, Leaves, WorkerState, Step
  <2>. QED  BY <2>1, <2>2, <2>3, <2>4
<1>5. WorkerKnows'  BY <1>1, <1>4, LeavesKnows
<1>. QED  BY <1>1, <1>4, <1>5, WorkerStep

LEMMA KeptByListCheckins == IInv /\ ListCheckins => IInv'
<1>. SUFFICES ASSUME IInv, ListCheckins PROVE IInv'  OBVIOUS
<1>1. UNCHANGED <<clock, saves, checkin, posted, pending, suspended, call>>
  BY DEF ListCheckins, Reads, Goes
<1>2. worker \in WorkerState /\ worker.now <= clock  BY DEF IInv, TypeOK, WorkerKnows
<1>3. worker' \in WorkerState /\ worker'.at = "transit" /\ worker'.now = worker.now
      /\ worker'.todo = {d \in Date : checkin[d].card /\ ~checkin[d].completed}
  BY <1>2, Times DEF ListCheckins, Reads, Goes, Leaves, WorkerState, Step
<1>4. \A d \in worker'.todo : checkin[d].list # 0 /\ clock >= CheckinHour(d + 1)
  BY <1>3 DEF IInv, RowsKnow, Answerable
<1>5. WorkerKnows'
  BY <1>1, <1>2, <1>3, <1>4 DEF WorkerKnows, Answerable, Writing
<1>. QED  BY <1>1, <1>3, <1>5, WorkerStep

LEMMA KeptByTransit == ASSUME IInv, NEW d \in Date, Transit(d) PROVE IInv'
<1>1. UNCHANGED <<clock, saves, checkin, posted, pending, suspended, call>>
  BY DEF Transit, Reads, Goes
<1>2. worker \in WorkerState /\ worker.now <= clock /\ worker.at = "transit"
      /\ d \in worker.todo /\ (\A e \in worker.todo : Answerable(e))
  BY DEF IInv, TypeOK, WorkerKnows, Transit, At, IsFirst
<1>3. /\ worker' \in WorkerState /\ worker'.now = worker.now
      /\ worker'.todo = worker.todo \ {d}
      /\ worker'.at \in {"clear", "set reminder", "transit"}
      /\ worker'.at = "clear" => worker.now >= Deadline(d)
      /\ worker'.at # "transit" => worker'.date = d
  BY <1>2 DEF Transit, Reads, Goes, Taken, AutoFailDue, WorkerState, Step
<1>4. \A e \in Date : Answerable(e) => checkin[e].list # 0 /\ clock >= CheckinHour(e + 1)
  BY DEF Answerable
<1>5. \A e \in worker'.todo : e \in Date /\ Answerable(e)
  BY <1>2, <1>3 DEF WorkerState
<1>6. WorkerKnows'
  BY <1>1, <1>2, <1>3, <1>4, <1>5 DEF WorkerKnows, Answerable, Writing
<1>. QED  BY <1>1, <1>3, <1>6, WorkerStep

LEMMA KeptByClaimNotice == ASSUME IInv, NEW d \in Date, ClaimNotice(d) PROVE IInv'
<1>1. UNCHANGED <<clock, saves, checkin, posted, pending, suspended, call>>
  BY DEF ClaimNotice, Reads, Goes
<1>2. worker \in WorkerState /\ worker.now <= clock  BY DEF IInv, TypeOK, WorkerKnows
<1>3. worker' \in WorkerState /\ worker'.at = "notice" /\ worker'.now = worker.now
      /\ worker'.date = d
  BY <1>2 DEF ClaimNotice, Reads, Goes, GoesTo, WorkerState, Step
<1>4. checkin[d].list # 0
  BY DEF ClaimNotice, AwaitsNotice, IInv, RowsKnow, Answerable
<1>5. WorkerKnows'  BY <1>1, <1>2, <1>3, <1>4 DEF WorkerKnows
<1>. QED  BY <1>1, <1>3, <1>5, WorkerStep

LEMMA KeptBySendNotice == IInv /\ SendNotice => IInv'
<1>. SUFFICES ASSUME IInv, SendNotice PROVE IInv'  OBVIOUS
<1>1. UNCHANGED <<clock, saves, checkin, posted, pending, suspended, call>>
      /\ worker.at = "notice" /\ worker' = GoesTo("commit")
  BY DEF SendNotice, Reads, Goes, At
<1>2. worker \in WorkerState /\ worker.now <= clock /\ worker.date \in Date
      /\ checkin[worker.date].list # 0
  BY <1>1 DEF IInv, TypeOK, WorkerKnows
<1>3. worker' \in WorkerState /\ worker'.at = "commit" /\ worker'.now = worker.now
      /\ worker'.date = worker.date
  BY <1>1, <1>2, Places DEF Step
<1>4. WorkerKnows'  BY <1>1, <1>2, <1>3 DEF WorkerKnows
<1>. QED  BY <1>1, <1>3, <1>4, WorkerStep

-----------------------------------------------------------------------------
(* The worker: steps that change rows.                                     *)

\* The statement at hand changes rows, not their lists, and no item but an open or a
\* missing one; and it moves the worker.
LEMMA RowStep ==
    ASSUME IInv, UNCHANGED <<clock, saves, posted, pending, suspended, call>>,
           checkin' \in [Date -> Checkin], worker' \in WorkerState,
           \A d \in Date : checkin[d].list # 0 => checkin'[d].list = checkin[d].list,
           \A d \in Date, i \in Item :
               /\ checkin[d].item[i] \in Owned => checkin'[d].item[i] = checkin[d].item[i]
               /\ checkin[d].item[i] = "open" => checkin'[d].item[i] \in {"open", "failed"},
           worker'.at = "items" => Writing(worker'.date) \/ checkin[worker'.date].list = 0
    PROVE  /\ TypeOK' /\ InputKnows' /\ CallKnows'
           /\ \A d \in Date : Answerable(d) => Answerable(d)'
<1>1. TypeOK'  BY DEF IInv, TypeOK
<1>2. \A d \in Date : Writing(d)' => Writing(d) \/ checkin[d].list = 0
  BY DEF Writing
<1>3. \A d \in Date : Answerable(d) => Answerable(d)'
  BY <1>2 DEF Answerable
<1>4. InputKnows'
  <2>. SUFFICES ASSUME Expects("routine_reason")
                PROVE  /\ Answerable(pending.date)'
                       /\ checkin'[pending.date].item[pending.item] = pending.answer
    BY DEF InputKnows, Expects
  <2>1. pending.date \in Date /\ pending.item \in Item /\ pending.answer \in Owned
    BY NoneAssumption DEF IInv, TypeOK, Expects, Pending
  <2>2. Answerable(pending.date) /\ checkin[pending.date].item[pending.item] = pending.answer
    BY DEF IInv, InputKnows
  <2>3. checkin'[pending.date].item[pending.item] = pending.answer  BY <2>1, <2>2
  <2>4. Answerable(pending.date)'  BY <1>3, <2>1, <2>2
  <2>. QED  BY <2>3, <2>4
<1>5. CallKnows'
  <2>1. CASE call = None \/ InCall({"plan"})
    BY <2>1 DEF IInv, CallKnows, InCall
  <2>2. CASE ~InCall({"plan"}) /\ call # None
    <3>1. call.date \in Date /\ call.item \in Item /\ call.answer \in Owned
          /\ call.op \in {"press", "reason", "pressed", "reasoned"}
      BY <2>2 DEF IInv, TypeOK, Call, InCall
    <3>2. Answerable(call.date)  BY <2>2 DEF IInv, CallKnows
    <3>3. Answerable(call.date)'  BY <1>3, <3>1, <3>2
    <3>4. checkin[call.date].item[call.item] \in {"open", "failed"} =>
             checkin'[call.date].item[call.item] \in {"open", "failed"}
      BY <3>1 DEF Owned
    <3>. QED  BY <2>2, <3>1, <3>3, <3>4 DEF IInv, CallKnows, InCall
  <2>. QED  BY <2>1, <2>2
<1>. QED  BY <1>1, <1>3, <1>4, <1>5

LEMMA KeptByInsertCheckin == IInv /\ InsertCheckin => IInv'
<1>. SUFFICES ASSUME IInv, InsertCheckin PROVE IInv'  OBVIOUS
<1>. DEFINE day == worker.date
<1>1. /\ worker \in WorkerState /\ worker.at = "create" /\ day \in Date /\ worker.list # 0
      /\ worker.list \in 0..MaxSaves /\ worker.now <= clock /\ worker.now >= CheckinHour(day + 1)
      /\ checkin \in [Date -> Checkin]
  BY DEF IInv, TypeOK, WorkerKnows, InsertCheckin, At, WorkerState
<1>2. CASE checkin[day].list # 0
  <2>1. UNCHANGED <<clock, saves, checkin, posted, pending, suspended, call>>
        /\ worker' = GoesTo("card")
    BY <1>2 DEF InsertCheckin, Reads, Goes
  <2>2. worker' \in WorkerState /\ worker'.at = "card" /\ worker'.now = worker.now
        /\ worker'.date = day
    BY <1>1, <2>1, Places DEF Step
  <2>3. WorkerKnows'  BY <1>1, <1>2, <2>1, <2>2 DEF WorkerKnows
  <2>. QED  BY <2>1, <2>2, <2>3, WorkerStep
<1>3. CASE checkin[day].list = 0
  <2>. DEFINE row == [NoCheckin EXCEPT !.list = worker.list]
  <2>1. UNCHANGED <<clock, saves, posted, pending, suspended, call>>
        /\ worker' = GoesTo("items") /\ checkin' = [checkin EXCEPT ![day] = row]
    BY <1>3 DEF InsertCheckin, Goes
  <2>2. worker' \in WorkerState /\ worker'.at = "items" /\ worker'.now = worker.now
        /\ worker'.date = day /\ worker'.list = worker.list
    <3>1. "items" \in Step  BY DEF Step
    <3>2. worker' = GoesTo("items")  BY <2>1
    <3>. HIDE DEF row
    <3>. QED  BY <1>1, <3>1, <3>2, Places
  <2>3. row \in Checkin /\ row.list # 0 /\ ~row.card /\ ~row.completed /\ ~row.autoFailed
    <3>1. NoCheckin \in Checkin  BY NoCheckinType
    <3>2. \A c \in Checkin, n \in 0..MaxSaves :
             /\ [c EXCEPT !.list = n] \in Checkin /\ [c EXCEPT !.list = n].list = n
             /\ [c EXCEPT !.list = n].card = c.card
             /\ [c EXCEPT !.list = n].completed = c.completed
             /\ [c EXCEPT !.list = n].autoFailed = c.autoFailed
      BY DEF Checkin
    <3>3. ~NoCheckin.card /\ ~NoCheckin.completed /\ ~NoCheckin.autoFailed  BY DEF NoCheckin
    <3>. QED  BY <1>1, <3>1, <3>2, <3>3
  <2>4. checkin[day] = NoCheckin  BY <1>1, <1>3 DEF IInv, RowsKnow
  <2>. HIDE DEF row
  <2>5. checkin' \in [Date -> Checkin]
        /\ \A d \in Date : checkin'[d] = IF d = day THEN row ELSE checkin[d]
    BY <1>1, <2>1, <2>3
  <2>6. \A i \in Item : checkin[day].item[i] = "missing"
    BY <2>4 DEF NoCheckin
  <2>7. /\ TypeOK' /\ InputKnows' /\ CallKnows'
        /\ \A d \in Date : Answerable(d) => Answerable(d)'
    BY <1>3, <2>1, <2>2, <2>5, <2>6, RowStep DEF Owned
  <2>8. RowsKnow'
    BY <1>3, <2>1, <2>3, <2>5, <2>7 DEF IInv, RowsKnow, Answerable
  <2>9. Closed' /\ Deadlines'
    BY <2>1, <2>3, <2>5 DEF IInv, Closed, Deadlines, OpenItems
  <2>10. WorkerKnows'
    BY <1>1, <2>1, <2>2, <2>3, <2>5 DEF WorkerKnows
  <2>. QED  BY <2>7, <2>8, <2>9, <2>10 DEF IInv
<1>. QED  BY <1>2, <1>3

LEMMA KeptByInsertItem == IInv /\ InsertItem => IInv'
<1>. SUFFICES ASSUME IInv, InsertItem PROVE IInv'  OBVIOUS
<1>. DEFINE day == worker.date
<1>1. /\ worker \in WorkerState /\ worker.at = "items" /\ day \in Date /\ worker.list # 0
      /\ worker.now <= clock /\ worker.now >= CheckinHour(day + 1)
      /\ checkin \in [Date -> Checkin] /\ checkin[day].list # 0
  BY DEF IInv, TypeOK, WorkerKnows, InsertItem, At
<1>2. PICK i \in Item : /\ checkin[day].item[i] = "missing"
                       /\ checkin' = [checkin EXCEPT ![day].item[i] = "open"]
                       /\ worker' \in {GoesTo("card"), GoesTo("items")}
  BY DEF InsertItem, Goes
<1>3. UNCHANGED <<clock, saves, posted, pending, suspended, call>>
  BY DEF InsertItem, Goes
<1>. DEFINE row == Answered(checkin[day], i, "open")
<1>4. checkin[day] \in Checkin  BY <1>1
<1>5. row \in Checkin /\ row.list = checkin[day].list
  BY <1>4, RowTypes
<1>6. row.card = checkin[day].card /\ row.completed = checkin[day].completed
      /\ row.autoFailed = checkin[day].autoFailed
      /\ \A j \in Item : j # i => row.item[j] = checkin[day].item[j]
  BY <1>4 DEF Answered, Checkin
<1>7. checkin' = [checkin EXCEPT ![day] = row]  BY <1>2 DEF Answered
<1>. HIDE DEF row
<1>8. checkin' \in [Date -> Checkin]
      /\ \A d \in Date : checkin'[d] = IF d = day THEN row ELSE checkin[d]
  BY <1>1, <1>5, <1>7
<1>9. worker' \in WorkerState /\ worker'.at \in {"card", "items"} /\ worker'.now = worker.now
      /\ worker'.date = day /\ worker'.list = worker.list
  BY <1>1, <1>2 DEF GoesTo, WorkerState, Step
<1>10. Writing(day)  BY <1>1 DEF Writing
<1>11. /\ TypeOK' /\ InputKnows' /\ CallKnows'
       /\ \A d \in Date : Answerable(d) => Answerable(d)'
  BY <1>2, <1>3, <1>5, <1>6, <1>8, <1>9, <1>10, RowStep DEF Owned
<1>12. ~checkin[day].card /\ ~checkin[day].completed /\ day \notin posted
  BY <1>1, <1>10 DEF IInv, RowsKnow, Answerable
<1>13. RowsKnow'
  BY <1>1, <1>3, <1>5, <1>6, <1>8, <1>11, <1>12 DEF IInv, RowsKnow
<1>14. Closed' /\ Deadlines'
  BY <1>3, <1>6, <1>8, <1>12 DEF IInv, Closed, Deadlines, OpenItems
<1>15. WorkerKnows'
  BY <1>1, <1>3, <1>5, <1>8, <1>9 DEF WorkerKnows
<1>. QED  BY <1>11, <1>13, <1>14, <1>15 DEF IInv

\* A failed delivery forgets the message, keeps it, or ends the tick.
LEMMA DeferKnows ==
    ASSUME IInv, worker.date \in Date, worker.at \in {"card", "set reminder", "notice"},
           NEW op \in Operation, NEW next, next \in WorkerState,
           next.at \in {"list", "transit", "claim"}, next.now = worker.now,
           next.at = "transit" => worker.at = "set reminder" /\ next.todo \subseteq worker.todo,
           op = "routine_card" => worker.at = "card",
           Defers(op, next)
    PROVE  IInv'
<1>1. /\ UNCHANGED <<clock, saves, checkin, pending, call>>
      /\ suspended' \in SUBSET (Operation \X Date)
      /\ worker' \in {next, Off}
      /\ posted' = posted \/ (worker.at = "card" /\ posted' = posted \cup {worker.date})
  <2>1. <<op, worker.date>> \in Operation \X Date  OBVIOUS
  <2>2. suspended' \in {suspended, suspended \cup {<<op, worker.date>>}}  BY DEF Defers
  <2>3. suspended' \in SUBSET (Operation \X Date)  BY <2>1, <2>2 DEF IInv, TypeOK
  <2>. QED  BY <2>3 DEF Defers
<1>2. worker \in WorkerState /\ posted' \in SUBSET Date
  BY <1>1 DEF IInv, TypeOK
<1>3. "list" \in Step  BY DEF Step
<1>4. Off \in WorkerState /\ Off.at = "off" /\ Off.now = 0
  BY <1>2, <1>3, Places
<1>5. worker' \in WorkerState /\ worker'.at \in {"list", "transit", "claim", "off"}
      /\ worker'.now \in {0, worker.now}
  BY <1>1, <1>4
<1>6. TypeOK'  BY <1>1, <1>2, <1>5 DEF IInv, TypeOK
<1>7. \A d \in Date : Answerable(d) => Answerable(d)'
  BY <1>1, <1>5 DEF Answerable, Writing
<1>8. worker.at = "card" => Answerable(worker.date)
  <2>. SUFFICES ASSUME worker.at = "card" PROVE Answerable(worker.date)  OBVIOUS
  <2>1. checkin[worker.date].list # 0 /\ worker.now >= CheckinHour(worker.date + 1)
        /\ worker.now <= clock
    BY DEF IInv, WorkerKnows
  <2>2. worker.now \in Nat /\ clock \in Nat /\ CheckinHour(worker.date + 1) \in Nat
    BY Times DEF IInv, TypeOK, WorkerState
  <2>. QED  BY <2>1, <2>2 DEF Answerable, Writing
<1>9. ASSUME NEW d \in Date, checkin[d].card \/ checkin[d].completed \/ d \in posted'
      PROVE  Answerable(d)
  BY <1>1, <1>8, <1>9 DEF IInv, RowsKnow
<1>10. RowsKnow'
  BY <1>1, <1>7, <1>9 DEF IInv, RowsKnow
<1>11. Closed' /\ Deadlines'
  BY <1>1 DEF IInv, Closed, Deadlines, OpenItems
<1>12. InputKnows' /\ CallKnows'
  BY <1>1, <1>7 DEF IInv, InputKnows, CallKnows, Expects, InCall, TypeOK, Pending, Call
<1>13. WorkerKnows'
  <2>1. CASE worker'.at # "transit"
    BY <2>1, <1>1, <1>5, LeavesKnows
  <2>2. CASE worker'.at = "transit"
    <3>1. worker' = next /\ worker.at = "set reminder" /\ worker'.todo \subseteq worker.todo
      BY <2>2, <1>1, <1>4
    <3>2. \A d \in worker'.todo : Answerable(d)'
      BY <3>1, <1>2, <1>7 DEF IInv, WorkerKnows, WorkerState
    <3>3. worker'.now <= clock'  BY <3>1, <1>1 DEF IInv, WorkerKnows
    <3>. QED  BY <2>2, <3>2, <3>3 DEF WorkerKnows
  <2>. QED  BY <2>1, <2>2
<1>. QED  BY <1>6, <1>10, <1>11, <1>12, <1>13 DEF IInv

LEMMA KeptByTelegramFails == IInv /\ TelegramFails => IInv'
<1>. SUFFICES ASSUME IInv, TelegramFails PROVE IInv'  OBVIOUS
<1>1. worker \in WorkerState /\ {"list", "transit", "claim"} \subseteq Step
  BY DEF IInv, TypeOK, Step
<1>2. CASE CardFails
  <2>1. worker.at = "card" /\ worker.date \in Date
    BY <1>2 DEF IInv, WorkerKnows, CardFails, At
  <2>2. "routine_card" \in Operation  BY DEF Operation
  <2>. QED  BY <1>1, <1>2, <2>1, <2>2, Places, DeferKnows DEF CardFails
<1>3. CASE ReminderFails
  <2>1. worker.at = "set reminder" /\ worker.date \in Date
    BY <1>3 DEF IInv, WorkerKnows, ReminderFails, At
  <2>2. "routine_reminder" \in Operation /\ "routine_reminder" # "routine_card"  BY DEF Operation
  <2>. QED  BY <1>1, <1>3, <2>1, <2>2, Places, DeferKnows DEF ReminderFails
<1>4. CASE NoticeFails
  <2>1. worker.at = "notice" /\ worker.date \in Date
    BY <1>4 DEF IInv, WorkerKnows, NoticeFails, At
  <2>2. "routine_close" \in Operation /\ "routine_close" # "routine_card"  BY DEF Operation
  <2>. DEFINE next == [Leaves("claim") EXCEPT !.todo = @ \ {worker.date}]
  <2>3. next \in WorkerState /\ next.at = "claim" /\ next.now = worker.now
    BY <1>1, Times DEF Leaves, WorkerState, Step
  <2>4. Defers("routine_close", next)  BY <1>4 DEF NoticeFails
  <2>. HIDE DEF next
  <2>. QED  BY <2>1, <2>2, <2>3, <2>4, DeferKnows
<1>. QED  BY <1>2, <1>3, <1>4 DEF TelegramFails

\* A card that is sent, or taken back, belongs to an answerable check-in.
LEMMA KeptBySendCard == IInv /\ (SendCard \/ CardUndone) => IInv'
<1>. SUFFICES ASSUME IInv, SendCard \/ CardUndone PROVE IInv'  OBVIOUS
<1>. DEFINE day == worker.date
<1>1. /\ UNCHANGED <<clock, saves, checkin, pending, suspended, call>>
      /\ worker.at \in {"card", "set card"}
      /\ posted' \in {posted \cup {day}, posted \ {day}}
  BY DEF SendCard, CardUndone, At
<1>2. /\ worker \in WorkerState /\ day \in Date /\ worker.now >= CheckinHour(day + 1)
      /\ worker.now <= clock /\ checkin[day].list # 0
  BY <1>1 DEF IInv, TypeOK, WorkerKnows
<1>3. worker' \in {GoesTo("set card"), Off}  BY DEF SendCard, CardUndone
<1>4. "set card" \in Step  BY DEF Step
<1>5. \/ worker'.at = "off" /\ worker'.now = 0
      \/ worker'.at = "set card" /\ worker'.now = worker.now /\ worker'.date = day
  BY <1>2, <1>3, <1>4, Places
<1>. worker' \in WorkerState
  BY <1>2, <1>3, <1>4, Places
<1>6. TypeOK'
  <2>1. posted' \in SUBSET Date  BY <1>1, <1>2 DEF IInv, TypeOK
  <2>3. TypeOK  BY DEF IInv
  <2>4. UNCHANGED <<clock, saves, checkin, pending, suspended, call>>  BY <1>1
  <2>. QED  BY <2>1, <2>3, <2>4 DEF TypeOK
<1>7. \A d \in Date : Answerable(d) => Answerable(d)'
  BY <1>1, <1>5 DEF Answerable, Writing
<1>8. Answerable(day)
  <2>1. worker.now \in Instant /\ clock \in Instant  BY <1>2 DEF IInv, TypeOK, WorkerState
  <2>2. worker.now \in Nat /\ clock \in Nat /\ CheckinHour(day + 1) \in Nat
    BY <1>2, <2>1, Times
  <2>3. clock >= CheckinHour(day + 1)  BY <1>2, <2>2
  <2>. QED  BY <1>1, <1>2, <2>3 DEF Answerable, Writing
<1>9. ASSUME NEW d \in Date, checkin[d].card \/ checkin[d].completed \/ d \in posted'
      PROVE  Answerable(d)
  BY <1>1, <1>8, <1>9 DEF IInv, RowsKnow
<1>10. RowsKnow'  BY <1>1, <1>7, <1>9 DEF IInv, RowsKnow
<1>11. Closed' /\ Deadlines'
  BY <1>1 DEF IInv, Closed, Deadlines, OpenItems
<1>12. InputKnows' /\ CallKnows'
  BY <1>1, <1>7 DEF IInv, InputKnows, CallKnows, Expects, InCall, TypeOK, Pending, Call
<1>13. WorkerKnows'
  <2>1. CASE worker'.at = "off"  BY <2>1, <1>1, <1>5, LeavesKnows
  <2>2. CASE worker'.at # "off"  BY <2>2, <1>1, <1>2, <1>5 DEF WorkerKnows
  <2>. QED  BY <2>1, <2>2
<1>. QED  BY <1>6, <1>10, <1>11, <1>12, <1>13 DEF IInv

\* One row changes in a way that keeps its list and its answers; the worker has no
\* more rows to write in this statement.
LEMMA OneRowStep ==
    ASSUME IInv, UNCHANGED <<clock, saves, posted, pending, suspended, call>>,
           worker.date \in Date, checkin[worker.date].list # 0,
           worker' \in WorkerState, worker'.at # "items",
           NEW row \in Checkin, checkin' = [checkin EXCEPT ![worker.date] = row],
           row.list = checkin[worker.date].list,
           \A i \in Item :
               /\ checkin[worker.date].item[i] # "open" => row.item[i] = checkin[worker.date].item[i]
               /\ checkin[worker.date].item[i] = "open" => row.item[i] \in {"open", "failed"},
           row.card \/ row.completed => Answerable(worker.date),
           row.completed => \A i \in Item : row.item[i] # "open",
           row.autoFailed => clock >= Deadline(worker.date),
           WorkerKnows'
    PROVE  IInv'
<1>1. checkin' \in [Date -> Checkin]
      /\ \A d \in Date : checkin'[d] = IF d = worker.date THEN row ELSE checkin[d]
  BY DEF IInv, TypeOK
<1>2. /\ TypeOK' /\ InputKnows' /\ CallKnows'
      /\ \A d \in Date : Answerable(d) => Answerable(d)'
  BY <1>1, RowStep DEF Owned
<1>3. RowsKnow'
  <2>. SUFFICES ASSUME NEW d \in Date
                PROVE  /\ checkin'[d].list = 0 => checkin'[d] = NoCheckin
                       /\ checkin'[d].card \/ checkin'[d].completed \/ d \in posted => Answerable(d)'
    BY DEF RowsKnow
  <2>1. CASE d # worker.date
    BY <2>1, <1>1, <1>2 DEF IInv, RowsKnow
  <2>2. CASE d = worker.date
    BY <2>2, <1>1, <1>2 DEF IInv, RowsKnow
  <2>. QED  BY <2>1, <2>2
<1>4. Closed'  BY <1>1 DEF IInv, Closed, OpenItems
<1>5. Deadlines'  BY <1>1 DEF IInv, Deadlines
<1>. QED  BY <1>2, <1>3, <1>4, <1>5 DEF IInv

LEMMA KeptBySetCard == IInv /\ SetCard => IInv'
<1>. SUFFICES ASSUME IInv, SetCard PROVE IInv'  OBVIOUS
<1>1. /\ UNCHANGED <<clock, saves, posted, pending, suspended, call>>
      /\ worker.at = "set card" /\ worker' = Leaves("list")
      /\ checkin' = [checkin EXCEPT ![worker.date].card = TRUE]
  BY DEF SetCard, Goes, At
<1>2. /\ worker \in WorkerState /\ worker.date \in Date /\ worker.now <= clock
      /\ worker.now >= CheckinHour(worker.date + 1) /\ checkin[worker.date].list # 0
      /\ checkin[worker.date] \in Checkin
  BY <1>1 DEF IInv, TypeOK, WorkerKnows
<1>3. "list" \in Step  BY DEF Step
<1>4. worker' \in WorkerState /\ worker'.at = "list" /\ worker'.now = worker.now
  BY <1>1, <1>2, <1>3, Places
<1>5. WorkerKnows'  BY <1>1, <1>4, LeavesKnows
<1>6. Answerable(worker.date)
  <2>1. worker.now \in Instant /\ clock \in Instant  BY <1>2 DEF IInv, TypeOK, WorkerState
  <2>2. worker.now \in Nat /\ clock \in Nat /\ CheckinHour(worker.date + 1) \in Nat
    BY <1>2, <2>1, Times
  <2>3. clock >= CheckinHour(worker.date + 1)  BY <1>2, <2>2
  <2>. QED  BY <1>1, <1>2, <2>3 DEF Answerable, Writing
<1>. DEFINE row == [checkin[worker.date] EXCEPT !.card = TRUE]
<1>7. row \in Checkin /\ row.list = checkin[worker.date].list
      /\ row.item = checkin[worker.date].item /\ row.completed = checkin[worker.date].completed
      /\ row.autoFailed = checkin[worker.date].autoFailed
  BY <1>2 DEF Checkin
<1>8. checkin' = [checkin EXCEPT ![worker.date] = row]  BY <1>1
<1>. HIDE DEF row
<1>9. row.completed => \A i \in Item : row.item[i] # "open"
  BY <1>2, <1>7 DEF IInv, Closed, OpenItems
<1>10. row.autoFailed => clock >= Deadline(worker.date)
  BY <1>2, <1>7 DEF IInv, Deadlines
<1>11. worker'.at # "items"  BY <1>4
<1>. QED  BY <1>1, <1>2, <1>4, <1>5, <1>6, <1>7, <1>8, <1>9, <1>10, <1>11, OneRowStep

LEMMA KeptByFailItems == IInv /\ FailItems => IInv'
<1>. SUFFICES ASSUME IInv, FailItems PROVE IInv'  OBVIOUS
<1>1. /\ UNCHANGED <<clock, saves, posted, pending, suspended, call>>
      /\ worker.at = "fail items" /\ worker' = GoesTo("close")
      /\ checkin' = [checkin EXCEPT ![worker.date] = Failed(checkin[worker.date])]
  BY DEF FailItems, Goes, At
<1>2. /\ worker \in WorkerState /\ worker.date \in Date /\ worker.now <= clock
      /\ worker.now >= Deadline(worker.date) /\ Answerable(worker.date)
      /\ checkin[worker.date] \in Checkin /\ checkin[worker.date].list # 0
      /\ \A d \in worker.todo : Answerable(d)
  BY <1>1 DEF IInv, TypeOK, WorkerKnows, Answerable
<1>3. "close" \in Step  BY DEF Step
<1>4. worker' \in WorkerState /\ worker'.at = "close" /\ worker'.now = worker.now
      /\ worker'.date = worker.date /\ worker'.todo = worker.todo
  BY <1>1, <1>2, <1>3, Places
<1>. DEFINE row == Failed(checkin[worker.date])
<1>5. row \in Checkin /\ row.list = checkin[worker.date].list
  BY <1>2, RowTypes
<1>6. /\ row.card = checkin[worker.date].card /\ row.completed = checkin[worker.date].completed
      /\ row.autoFailed = checkin[worker.date].autoFailed
      /\ \A i \in Item : row.item[i] # "open"
      /\ \A i \in Item :
           /\ checkin[worker.date].item[i] # "open" => row.item[i] = checkin[worker.date].item[i]
           /\ checkin[worker.date].item[i] = "open" => row.item[i] \in {"open", "failed"}
  BY <1>2 DEF Failed, Checkin
<1>. HIDE DEF row
<1>7. checkin' = [checkin EXCEPT ![worker.date] = row]  BY <1>1 DEF row
<1>8. row.autoFailed => clock >= Deadline(worker.date)
  BY <1>2, <1>6 DEF IInv, Deadlines
<1>9. \A d \in Date : checkin'[d].list = checkin[d].list
  BY <1>5, <1>7 DEF IInv, TypeOK
<1>10. \A d \in Date : Answerable(d) => Answerable(d)'
  BY <1>1, <1>4, <1>9 DEF Answerable, Writing
<1>11. \A d \in worker.todo : d \in Date  BY <1>2 DEF WorkerState
<1>12. WorkerKnows'
  <2>1. checkin'[worker.date] = row  BY <1>2, <1>7 DEF IInv, TypeOK
  <2>2. \A d \in worker'.todo : Answerable(d)'  BY <1>2, <1>4, <1>10, <1>11
  <2>3. OpenItems(worker.date)' = {}
    BY <1>4, <1>6, <2>1 DEF OpenItems
  <2>4. Answerable(worker.date)'
    BY <1>1, <1>2, <1>4, <1>5, <2>1 DEF Answerable, Writing
  <2>. QED  BY <1>1, <1>2, <1>4, <2>2, <2>3, <2>4 DEF WorkerKnows
<1>13. worker'.at # "items"  BY <1>4
<1>14. row.card \/ row.completed => Answerable(worker.date)  BY <1>2
<1>. QED  BY <1>1, <1>2, <1>4, <1>5, <1>6, <1>7, <1>8, <1>12, <1>13, <1>14, OneRowStep

LEMMA KeptByCloseCheckin == IInv /\ CloseCheckin => IInv'
<1>. SUFFICES ASSUME IInv, CloseCheckin PROVE IInv'  OBVIOUS
<1>1. /\ worker \in WorkerState /\ worker.date \in Date /\ worker.now <= clock
      /\ worker.at = "close" /\ OpenItems(worker.date) = {}
      /\ worker.now >= Deadline(worker.date) /\ Answerable(worker.date)
      /\ checkin[worker.date] \in Checkin /\ checkin[worker.date].list # 0
      /\ \A d \in worker.todo : d \in Date /\ Answerable(d)
  BY DEF IInv, TypeOK, WorkerKnows, WorkerState, Answerable, CloseCheckin, At
<1>2. "transit" \in Step /\ "unremind" \in Step  BY DEF Step
<1>3. worker' \in {Leaves("transit"), GoesTo("unremind")}
      /\ UNCHANGED <<clock, saves, posted, pending, suspended, call>>
  BY DEF CloseCheckin, Reads, Goes
<1>4. /\ worker' \in WorkerState /\ worker'.at \in {"transit", "unremind"}
      /\ worker'.now = worker.now /\ worker'.todo = worker.todo
      /\ worker'.at = "unremind" => worker'.date = worker.date
  BY <1>1, <1>2, <1>3, Places
<1>5. ASSUME \A d \in Date : checkin'[d].list = checkin[d].list
      PROVE  WorkerKnows'
  <2>1. \A d \in Date : Answerable(d) => Answerable(d)'
    BY <1>3, <1>4, <1>5 DEF Answerable, Writing
  <2>2. \A d \in worker'.todo : Answerable(d)'  BY <1>1, <1>4, <2>1
  <2>. QED  BY <1>1, <1>3, <1>4, <1>5, <2>2 DEF WorkerKnows
<1>6. CASE checkin[worker.date].completed
  <2>1. checkin' = checkin  BY <1>6 DEF CloseCheckin, Reads
  <2>2. WorkerKnows'  BY <1>5, <2>1
  <2>. QED  BY <1>3, <1>4, <2>1, <2>2, WorkerStep
<1>7. CASE ~checkin[worker.date].completed
  <2>. DEFINE row == [checkin[worker.date] EXCEPT !.completed = TRUE, !.autoFailed = TRUE]
  <2>1. checkin' = [checkin EXCEPT ![worker.date] = row]
    BY <1>1, <1>7 DEF CloseCheckin, IInv, TypeOK
  <2>2. row \in Checkin /\ row.list = checkin[worker.date].list
        /\ row.item = checkin[worker.date].item
    BY <1>1 DEF Checkin
  <2>. HIDE DEF row
  <2>3. \A i \in Item : checkin[worker.date].item[i] # "open"
    BY <1>1 DEF OpenItems
  <2>4. clock >= Deadline(worker.date)
    <3>1. worker.now \in Instant /\ clock \in Instant  BY <1>1 DEF IInv, TypeOK, WorkerState
    <3>2. worker.now \in Nat /\ clock \in Nat /\ Deadline(worker.date) \in Nat
      BY <1>1, <3>1, Times
    <3>. QED  BY <1>1, <3>2
  <2>5. \A d \in Date : checkin'[d].list = checkin[d].list
    BY <2>1, <2>2 DEF IInv, TypeOK
  <2>6. WorkerKnows'  BY <1>5, <2>5
  <2>7. worker'.at # "items"  BY <1>4
  <2>8. /\ \A i \in Item :
             /\ checkin[worker.date].item[i] # "open" => row.item[i] = checkin[worker.date].item[i]
             /\ checkin[worker.date].item[i] = "open" => row.item[i] \in {"open", "failed"}
        /\ \A i \in Item : row.item[i] # "open"
    BY <2>2, <2>3
  <2>. QED  BY <1>1, <1>3, <1>4, <2>1, <2>2, <2>4, <2>6, <2>7, <2>8, OneRowStep
<1>. QED  BY <1>6, <1>7

\* Only the reminder or the notice of a row is written.
LEMMA MarkStep ==
    ASSUME IInv, UNCHANGED <<clock, saves, posted, pending, suspended, call>>,
           checkin' \in [Date -> Checkin], worker' \in WorkerState,
           worker'.at \in {"transit", "claim", "inputs"}, worker'.now = worker.now,
           worker'.at = "transit" => \A d \in worker'.todo : d \in Date /\ Answerable(d),
           \A d \in Date :
               \/ checkin'[d] = checkin[d]
               \/ /\ checkin[d].list # 0
                  /\ checkin'[d].list = checkin[d].list /\ checkin'[d].item = checkin[d].item
                  /\ checkin'[d].card = checkin[d].card
                  /\ checkin'[d].completed = checkin[d].completed
                  /\ checkin'[d].autoFailed = checkin[d].autoFailed
    PROVE  IInv'
<1>1. /\ TypeOK' /\ InputKnows' /\ CallKnows'
      /\ \A d \in Date : Answerable(d) => Answerable(d)'
  BY RowStep DEF Owned
<1>2. RowsKnow'  BY <1>1 DEF IInv, RowsKnow
<1>3. Closed' /\ Deadlines'  BY DEF IInv, Closed, Deadlines, OpenItems
<1>4. WorkerKnows'
  <2>1. CASE worker'.at = "transit"
    <3>1. \A d \in worker'.todo : Answerable(d)'  BY <2>1, <1>1
    <3>2. worker'.now <= clock'  BY DEF IInv, WorkerKnows
    <3>. QED  BY <2>1, <3>1, <3>2 DEF WorkerKnows
  <2>2. CASE worker'.at # "transit"  BY <2>2, LeavesKnows
  <2>. QED  BY <2>1, <2>2
<1>. QED  BY <1>1, <1>2, <1>3, <1>4 DEF IInv

LEMMA KeptByMark == IInv /\ (Unremind \/ SetReminder \/ CommitNotice) => IInv'
<1>. SUFFICES ASSUME IInv, Unremind \/ SetReminder \/ CommitNotice PROVE IInv'  OBVIOUS
<1>1. /\ UNCHANGED <<clock, saves, posted, pending, suspended, call>>
      /\ \/ worker.at \in {"unremind", "set reminder"} /\ worker' = Leaves("transit")
         \/ worker.at = "commit" /\ worker' = Leaves("claim")
  BY DEF Unremind, SetReminder, CommitNotice, Goes, At
<1>2. /\ worker \in WorkerState /\ worker.date \in Date /\ checkin[worker.date].list # 0
      /\ checkin[worker.date] \in Checkin /\ checkin \in [Date -> Checkin]
  BY <1>1 DEF IInv, TypeOK, WorkerKnows
<1>3. worker.at # "commit" => \A d \in worker.todo : d \in Date /\ Answerable(d)
  BY <1>1, <1>2 DEF IInv, WorkerKnows, WorkerState
<1>4. "transit" \in Step /\ "claim" \in Step  BY DEF Step
<1>5. worker' \in WorkerState /\ worker'.now = worker.now /\ worker'.todo = worker.todo
      /\ worker'.at \in {"transit", "claim"} /\ (worker'.at = "transit" => worker.at # "commit")
  <2>1. CASE worker' = Leaves("transit")  BY <1>1, <1>2, <1>4, <2>1, Places
  <2>2. CASE worker' = Leaves("claim")  BY <1>1, <1>2, <1>4, <2>2, Places
  <2>. QED  BY <1>1, <2>1, <2>2
<1>6. \E row \in Checkin :
         /\ checkin' = [checkin EXCEPT ![worker.date] = row]
         /\ row.list = checkin[worker.date].list /\ row.item = checkin[worker.date].item
         /\ row.card = checkin[worker.date].card
         /\ row.completed = checkin[worker.date].completed
         /\ row.autoFailed = checkin[worker.date].autoFailed
  <2>. DEFINE unreminded == [checkin[worker.date] EXCEPT !.reminder = "cleared"]
              reminded == [checkin[worker.date] EXCEPT !.reminder = "stored"]
              noticed == [checkin[worker.date] EXCEPT !.noticed = TRUE]
  <2>1. {unreminded, reminded, noticed} \subseteq Checkin
    <3>1. \A c \in Checkin :
             /\ [c EXCEPT !.reminder = "cleared"] \in Checkin
             /\ [c EXCEPT !.reminder = "stored"] \in Checkin
             /\ [c EXCEPT !.noticed = TRUE] \in Checkin
      BY DEF Checkin
    <3>. QED  BY <1>2, <3>1
  <2>2. \A row \in {unreminded, reminded, noticed} :
           /\ row.list = checkin[worker.date].list /\ row.item = checkin[worker.date].item
           /\ row.card = checkin[worker.date].card
           /\ row.completed = checkin[worker.date].completed
           /\ row.autoFailed = checkin[worker.date].autoFailed
    BY <1>2 DEF Checkin
  <2>3. \E row \in {unreminded, reminded, noticed} : checkin' = [checkin EXCEPT ![worker.date] = row]
    BY DEF Unremind, SetReminder, CommitNotice
  <2>. QED  BY <2>1, <2>2, <2>3
<1>7. PICK row \in Checkin :
         /\ checkin' = [checkin EXCEPT ![worker.date] = row]
         /\ row.list = checkin[worker.date].list /\ row.item = checkin[worker.date].item
         /\ row.card = checkin[worker.date].card
         /\ row.completed = checkin[worker.date].completed
         /\ row.autoFailed = checkin[worker.date].autoFailed
  BY <1>6
<1>8. checkin' \in [Date -> Checkin]
      /\ \A d \in Date : checkin'[d] = IF d = worker.date THEN row ELSE checkin[d]
  BY <1>2, <1>7
<1>9. worker'.at = "transit" => \A d \in worker'.todo : d \in Date /\ Answerable(d)
  BY <1>3, <1>5
<1>. QED  BY <1>1, <1>2, <1>5, <1>7, <1>8, <1>9, MarkStep

LEMMA KeptByExpireNotices == IInv /\ ExpireNotices => IInv'
<1>. SUFFICES ASSUME IInv, ExpireNotices PROVE IInv'  OBVIOUS
<1>1. UNCHANGED <<clock, saves, posted, pending, suspended, call>>
      /\ worker' = GoesTo("inputs")
  BY DEF ExpireNotices, Goes
<1>2. worker \in WorkerState /\ checkin \in [Date -> Checkin] /\ "inputs" \in Step
  BY DEF IInv, TypeOK, Step
<1>3. worker' \in WorkerState /\ worker'.now = worker.now /\ worker'.at = "inputs"
  BY <1>1, <1>2, Places
<1>4. \A d \in Date : checkin'[d] = IF Expired(d) THEN [checkin[d] EXCEPT !.reminder = "cleared"]
                                    ELSE checkin[d]
  BY DEF ExpireNotices
<1>5. checkin' \in [Date -> Checkin]
  <2>1. \A d \in Date : [checkin[d] EXCEPT !.reminder = "cleared"] \in Checkin
    BY <1>2 DEF Checkin
  <2>. QED  BY <1>2, <2>1 DEF ExpireNotices
<1>6. ASSUME NEW d \in Date
      PROVE  \/ checkin'[d] = checkin[d]
             \/ /\ checkin[d].list # 0
                /\ checkin'[d].list = checkin[d].list /\ checkin'[d].item = checkin[d].item
                /\ checkin'[d].card = checkin[d].card
                /\ checkin'[d].completed = checkin[d].completed
                /\ checkin'[d].autoFailed = checkin[d].autoFailed
  <2>1. CASE Expired(d)
    <3>1. checkin[d].list # 0
      <4>1. checkin[d].reminder = "stored"  BY <2>1 DEF Expired
      <4>2. NoCheckin.reminder = "none"  BY DEF NoCheckin
      <4>. QED  BY <4>1, <4>2 DEF IInv, RowsKnow
    <3>2. checkin[d] \in Checkin  BY <1>2
    <3>. QED  BY <2>1, <1>4, <3>1, <3>2 DEF Checkin
  <2>2. CASE ~Expired(d)  BY <2>2, <1>4
  <2>. QED  BY <2>1, <2>2
<1>. QED  BY <1>1, <1>3, <1>5, <1>6, MarkStep

\* Deleting an input leaves every row as it is.
LEMMA KeptByClearing == IInv /\ (ClearReason \/ CleanupStale) => IInv'
<1>. SUFFICES ASSUME IInv, ClearReason \/ CleanupStale PROVE IInv'  OBVIOUS
<1>1. UNCHANGED <<clock, saves, checkin, posted, suspended, call>>
      /\ pending' \in {None, pending}
  BY DEF ClearReason, CleanupStale
<1>2. worker \in WorkerState /\ "fail items" \in Step  BY DEF IInv, TypeOK, Step
<1>3. \/ worker' = Off /\ worker'.at = "off" /\ worker'.now = 0
      \/ /\ worker.at = "clear" /\ worker'.at = "fail items" /\ worker'.now = worker.now
         /\ worker'.date = worker.date /\ worker'.todo = worker.todo
  BY <1>2, Places DEF ClearReason, CleanupStale, At
<1>4. worker' \in WorkerState  BY <1>2, Places DEF ClearReason, CleanupStale
<1>5. TypeOK'  BY <1>1, <1>4 DEF IInv, TypeOK
<1>6. worker'.at # "items"  BY <1>3
<1>7. \A d \in Date : Answerable(d) => Answerable(d)'
  BY <1>1, <1>6 DEF Answerable, Writing
<1>8. RowsKnow' /\ Closed' /\ Deadlines'
  BY <1>1, <1>7 DEF IInv, RowsKnow, Closed, Deadlines, OpenItems
<1>9. InputKnows'
  BY <1>1, <1>7 DEF IInv, InputKnows, Expects, TypeOK, Pending
<1>10. CallKnows'
  BY <1>1, <1>7 DEF IInv, CallKnows, InCall, TypeOK, Call
<1>11. WorkerKnows'
  <2>1. CASE worker' = Off /\ worker'.at = "off" /\ worker'.now = 0
    BY <2>1, <1>1, <1>4, LeavesKnows
  <2>2. CASE /\ worker.at = "clear" /\ worker'.at = "fail items" /\ worker'.now = worker.now
             /\ worker'.date = worker.date /\ worker'.todo = worker.todo
    <3>1. /\ worker.now <= clock /\ worker.date \in Date /\ worker.now >= Deadline(worker.date)
          /\ Answerable(worker.date) /\ \A d \in worker.todo : d \in Date /\ Answerable(d)
      BY <2>2, <1>2 DEF IInv, WorkerKnows, WorkerState
    <3>2. \A d \in worker'.todo : Answerable(d)'  BY <2>2, <3>1, <1>7
    <3>3. Answerable(worker.date)'
      BY <2>2, <1>1, <3>1 DEF Answerable, Writing
    <3>. QED  BY <2>2, <1>1, <3>1, <3>2, <3>3 DEF WorkerKnows
  <2>. QED  BY <1>3, <2>1, <2>2
<1>. QED  BY <1>5, <1>8, <1>9, <1>10, <1>11 DEF IInv

-----------------------------------------------------------------------------
(* The theorems.                                                           *)

LEMMA Stutter == IInv /\ UNCHANGED vars => IInv'
<1>. SUFFICES ASSUME IInv, UNCHANGED vars PROVE IInv'  OBVIOUS
<1>1. call' \in Call \cup {None}  BY DEF IInv, TypeOK, vars
<1>2. CallKnows'  BY DEF IInv, CallKnows, InCall, Answerable, Writing, vars
<1>. QED  BY <1>1, <1>2, CallStep DEF vars

LEMMA KeptByNext == IInv /\ [Next]_vars => IInv'
<1>. SUFFICES ASSUME IInv, [Next]_vars PROVE IInv'  OBVIOUS
<1>1. CASE Advance  BY <1>1, KeptByAdvance
<1>2. CASE UserActs
  BY <1>2, KeptByConfigure, KeptByPlanArrives, KeptByReasonArrives, KeptByPress DEF UserActs
<1>3. CASE ApiEnds
  BY <1>3, KeptBySetItemStatus, KeptByCommitPlan, KeptByCommitReasonPrompt, KeptByCommitAnswer,
     KeptByAbort DEF ApiEnds
<1>4. CASE TickSteps
  BY <1>4, KeptByTickBegins, KeptByListPlans, KeptByInsertCheckin, KeptByInsertItem, KeptBySkip,
     KeptBySendCard, KeptBySetCard, KeptByListCheckins, KeptByTransit, KeptByClearing,
     KeptByFailItems, KeptByCloseCheckin, KeptByMark, KeptByClaimNotice, KeptBySendNotice,
     KeptByExpireNotices DEF TickSteps
<1>5. CASE Breaks  BY <1>5, KeptByTelegramFails, KeptBySendCard, KeptBySkip DEF Breaks
<1>6. CASE UNCHANGED vars  BY <1>6, Stutter
<1>. QED  BY <1>1, <1>2, <1>3, <1>4, <1>5, <1>6 DEF Next

LEMMA Inductive == Spec => []IInv
BY Start, KeptByNext, PTL DEF Spec

\* Rows, inputs, calls and the worker keep their types.
THEOREM TypeCorrect == Spec => []TypeOK
<1>1. IInv => TypeOK  BY DEF IInv
<1>. QED  BY <1>1, Inductive, PTL

\* A completed check-in has an answer for every item, its morning behind it and, if
\* the worker closed it, its deadline: whatever comes between the statements.
THEOREM ClosuresAreExplained == Spec => []ClosureExplained
<1>1. IInv => ClosureExplained
  BY DEF IInv, RowsKnow, Closed, Deadlines, Answerable, ClosureExplained
<1>. QED  BY <1>1, Inductive, PTL

\* An expected reason is expected for the answer its item holds.
THEOREM ReasonsFit == Spec => []ReasonFitsItem
<1>1. IInv => ReasonFitsItem
  BY DEF IInv, InputKnows, ReasonFitsItem
<1>. QED  BY <1>1, Inductive, PTL

\* What AnswersStay says of one row in one step.
Stays(d) ==
    /\ \A i \in Item : checkin[d].item[i] \in {"done", "partial"} =>
            checkin'[d].item[i] = checkin[d].item[i]
    /\ checkin[d].completed => checkin'[d].completed
    /\ checkin[d].list # 0 => checkin'[d].list = checkin[d].list

\* A commit of the API writes an item that is open, failed or already has its answer.
LEMMA ApiKeepsAnswers ==
    ASSUME IInv, CommitPlan \/ CommitReasonPrompt \/ CommitAnswer, NEW d \in Date
    PROVE  Stays(d)
<1>1. checkin[d] \in Checkin /\ checkin \in [Date -> Checkin]  BY DEF IInv, TypeOK
<1>2. CASE CommitPlan
  <2>1. \/ checkin'[d] = checkin[d]
        \/ checkin[d].list = 0 /\ checkin'[d] = WholeCheckin(call.list)
    BY <1>2 DEF CommitPlan
  <2>2. checkin[d].list = 0 => checkin[d] = NoCheckin  BY DEF IInv, RowsKnow
  <2>3. ~NoCheckin.completed /\ \A i \in Item : NoCheckin.item[i] = "missing"
    BY DEF NoCheckin
  <2>. QED  BY <2>1, <2>2, <2>3 DEF Stays
<1>3. ASSUME CommitReasonPrompt \/ CommitAnswer PROVE Stays(d)
  <2>1. /\ call.date \in Date /\ call.item \in Item /\ call.answer \in Owned
        /\ checkin[call.date].item[call.item] \in {"open", "failed", call.answer}
    BY <1>3, NoneAssumption
    DEF IInv, TypeOK, Call, CallKnows, CommitReasonPrompt, CommitAnswer, InCall
  <2>. DEFINE answered == Answered(checkin[call.date], call.item, call.answer)
  <2>2. checkin[call.date] \in Checkin  BY <2>1 DEF IInv, TypeOK
  <2>3. answered \in Checkin /\ answered.list = checkin[call.date].list
        /\ answered.completed = checkin[call.date].completed
        /\ answered.item[call.item] = call.answer
        /\ \A i \in Item : i # call.item => answered.item[i] = checkin[call.date].item[i]
    BY <2>1, <2>2 DEF Answered, Checkin, Owned
  <2>. HIDE DEF answered
  <2>4. /\ CompletedWhenAnswered(answered).list = answered.list
        /\ CompletedWhenAnswered(answered).item = answered.item
        /\ answered.completed => CompletedWhenAnswered(answered).completed
    BY <2>3 DEF CompletedWhenAnswered, Checkin
  <2>5. \/ checkin' = [checkin EXCEPT ![call.date] = answered]
        \/ checkin' = [checkin EXCEPT ![call.date] = CompletedWhenAnswered(answered)]
    BY <1>3 DEF CommitReasonPrompt, CommitAnswer, answered
  <2>6. CASE d # call.date  BY <2>6, <2>1, <2>5, <1>1 DEF Stays
  <2>7. CASE d = call.date
    <3>1. checkin'[d] \in {answered, CompletedWhenAnswered(answered)}
      BY <2>7, <2>1, <2>5, <1>1
    <3>2. checkin'[d].list = checkin[d].list /\ checkin'[d].item = answered.item
          /\ (checkin[d].completed => checkin'[d].completed)
      BY <2>7, <3>1, <2>3, <2>4
    <3>. QED  BY <2>1, <2>3, <2>7, <3>2 DEF Stays
  <2>. QED  BY <2>6, <2>7
<1>. QED  BY <1>2, <1>3

\* A statement of the worker writes what is missing or open.
LEMMA WorkerKeepsAnswers ==
    ASSUME IInv, NEW d \in Date,
           \/ InsertCheckin \/ InsertItem \/ SetCard \/ FailItems \/ CloseCheckin
           \/ Unremind \/ SetReminder \/ CommitNotice \/ ExpireNotices
    PROVE  Stays(d)
<1>1. checkin[d] \in Checkin /\ checkin \in [Date -> Checkin]  BY DEF IInv, TypeOK
<1>2. CASE InsertCheckin
  <2>1. \/ checkin' = checkin
        \/ /\ checkin[worker.date].list = 0
           /\ checkin' = [checkin EXCEPT ![worker.date] = [NoCheckin EXCEPT !.list = worker.list]]
    BY <1>2 DEF InsertCheckin, Reads
  <2>2. checkin[d].list = 0 => checkin[d] = NoCheckin  BY DEF IInv, RowsKnow
  <2>3. ~NoCheckin.completed /\ \A i \in Item : NoCheckin.item[i] = "missing"
    BY DEF NoCheckin
  <2>. QED  BY <1>1, <2>1, <2>2, <2>3 DEF Stays
<1>3. CASE InsertItem
  <2>1. PICK i \in Item : /\ checkin[worker.date].item[i] = "missing"
                         /\ checkin' = [checkin EXCEPT ![worker.date].item[i] = "open"]
    BY <1>3 DEF InsertItem
  <2>. QED  BY <1>1, <2>1 DEF Stays, Checkin
<1>4. CASE FailItems
  <2>1. checkin' = [checkin EXCEPT ![worker.date] = Failed(checkin[worker.date])]
    BY <1>4 DEF FailItems
  <2>. QED  BY <1>1, <2>1 DEF Stays, Checkin, Failed
<1>5. CASE CloseCheckin  BY <1>1, <1>5 DEF CloseCheckin, Reads, Stays, Checkin
<1>6. CASE SetCard \/ Unremind \/ SetReminder \/ CommitNotice \/ ExpireNotices
  <2>1. CASE SetCard  BY <1>1, <2>1 DEF SetCard, Stays, Checkin
  <2>2. CASE Unremind  BY <1>1, <2>2 DEF Unremind, Stays, Checkin
  <2>3. CASE SetReminder  BY <1>1, <2>3 DEF SetReminder, Stays, Checkin
  <2>4. CASE CommitNotice  BY <1>1, <2>4 DEF CommitNotice, Stays, Checkin
  <2>5. CASE ExpireNotices
    <3>1. checkin'[d] \in {checkin[d], [checkin[d] EXCEPT !.reminder = "cleared"]}
      BY <2>5 DEF ExpireNotices
    <3>. QED  BY <1>1, <3>1 DEF Stays, Checkin
  <2>. QED  BY <1>6, <2>1, <2>2, <2>3, <2>4, <2>5
<1>. QED  BY <1>2, <1>3, <1>4, <1>5, <1>6

\* The steps that write rows.
LEMMA WritersOfRows ==
    ASSUME [Next]_vars
    PROVE  \/ checkin' = checkin
           \/ CommitPlan \/ CommitReasonPrompt \/ CommitAnswer
           \/ InsertCheckin \/ InsertItem \/ SetCard \/ FailItems \/ CloseCheckin
           \/ Unremind \/ SetReminder \/ CommitNotice \/ ExpireNotices
<1>1. UserActs => checkin' = checkin
  BY DEF UserActs, Configure, PlanRejected, PlanArrives, ReasonArrives, ItemPressed, Begin
<1>2. SetItemStatus \/ ApiAborts => checkin' = checkin
  BY DEF SetItemStatus, ApiAborts
<1>3. \/ TickBegins \/ ListPlans \/ SkipCard \/ ListCheckins \/ (\E e \in Date : Transit(e))
      \/ TransitsDone \/ (\E e \in Date : ClaimNotice(e)) \/ NoticesDone \/ SendNotice
      => checkin' = checkin
  BY DEF TickBegins, ListPlans, SkipCard, ListCheckins, Transit, TransitsDone, ClaimNotice,
         NoticesDone, SendNotice, Reads
<1>4. SendCard \/ ClearReason \/ CleanupStale \/ Advance \/ UNCHANGED vars
      => checkin' = checkin
  BY DEF SendCard, ClearReason, CleanupStale, Advance, vars
<1>5. Breaks => checkin' = checkin
  BY DEF Breaks, TelegramFails, CardFails, ReminderFails, NoticeFails, Defers, CardUndone,
         WorkerStops, Reads
<1>. QED  BY <1>1, <1>2, <1>3, <1>4, <1>5 DEF Next, ApiEnds, TickSteps

\* So no step at all overwrites an answer.
LEMMA StepKeepsAnswers ==
    ASSUME IInv, [Next]_vars, NEW d \in Date PROVE Stays(d)
<1>1. CASE checkin' = checkin  BY <1>1 DEF Stays
<1>2. CASE CommitPlan \/ CommitReasonPrompt \/ CommitAnswer  BY <1>2, ApiKeepsAnswers
<1>3. CASE \/ InsertCheckin \/ InsertItem \/ SetCard \/ FailItems \/ CloseCheckin
           \/ Unremind \/ SetReminder \/ CommitNotice \/ ExpireNotices
  BY <1>3, WorkerKeepsAnswers
<1>. QED  BY <1>1, <1>2, <1>3, WritersOfRows

\* done and partial are never overwritten, a check-in is never reopened, and it keeps
\* its list: no statement of the code tests all of that.
THEOREM AnswersAreKept == Spec => AnswersStay
<1>1. IInv /\ [Next]_vars => [\A d \in Date : Stays(d)]_vars  BY StepKeepsAnswers
<1>2. [\A d \in Date : Stays(d)]_vars <=>
      [\A d \in Date :
        /\ \A i \in Item : checkin[d].item[i] \in {"done", "partial"} =>
                checkin'[d].item[i] = checkin[d].item[i]
        /\ checkin[d].completed => checkin'[d].completed
        /\ checkin[d].list # 0 => checkin'[d].list = checkin[d].list]_vars
  BY DEF Stays
<1>. QED  BY <1>1, <1>2, Inductive, PTL DEF Spec, AnswersStay

-----------------------------------------------------------------------------
(* Routine implements CheckinLifecycle.  The abstract guards are about the *)
(* present; RInv says that what a process read before still meets them.    *)

\* Rows with an answer can be answered, and the worker's mark is on closed ones only.
RowsTell ==
    \A d \in Date :
        /\ checkin[d].autoFailed => checkin[d].completed
        /\ (\E i \in Item : checkin[d].item[i] \in Owned) => Answerable(d)

\* A kept list has its day, a press of a failed item comes after the deadline, and a reason
\* is asked for what is not done.
ApiTells ==
    /\ InCall({"plan"}) /\ call.snapshot # 0 => clock >= CheckinHour(call.snapshot)
    /\ InCall({"press", "pressed"}) /\ checkin[call.date].item[call.item] = "failed"
          => clock >= Deadline(call.date)
    /\ InCall({"reason", "reasoned"}) => call.answer # "done"
    /\ Expects("routine_reason") => pending.answer # "done"

\* What the tick is about to write to a row is still to be written.
TickTells ==
    /\ worker.at \in {"transit", "clear", "fail items", "close", "unremind", "set reminder"} =>
          /\ \A d \in worker.todo : checkin[d].card
          /\ \A d \in worker.reminded : checkin[d].reminder # "none"
    /\ worker.at \in {"clear", "fail items", "close", "unremind", "set reminder"} =>
          checkin[worker.date].card
    /\ worker.at = "set card" => ~checkin[worker.date].card
    /\ worker.at = "unremind" => checkin[worker.date].reminder # "none"
    /\ worker.at = "set reminder" =>
          /\ worker.now >= ReminderHour(worker.date)
          /\ checkin[worker.date].reminder = "none"
    /\ worker.at \in {"notice", "commit"} =>
          checkin[worker.date].autoFailed /\ ~checkin[worker.date].noticed

RInv == RowsTell /\ ApiTells /\ TickTells

-----------------------------------------------------------------------------
(* RInv is kept.                                                           *)

LEMMA RStart == Init => RInv
<1>. SUFFICES ASSUME Init PROVE RInv  OBVIOUS
<1>1. \A d \in Date : /\ ~checkin[d].autoFailed
                      /\ \A i \in Item : checkin[d].item[i] = "missing"
  BY DEF Init, NoCheckin
<1>2. RowsTell  BY <1>1 DEF RowsTell, Owned
<1>3. ApiTells  BY DEF Init, ApiTells, InCall, Expects
<1>4. TickTells  BY DEF Init, TickTells, Off
<1>. QED  BY <1>2, <1>3, <1>4 DEF RInv

\* A check-in that may be answered stays so.
LEMMA AnswerableStays ==
    ASSUME IInv, [Next]_vars, NEW d \in Date, Answerable(d) PROVE Answerable(d)'
<1>1. clock \in Nat /\ clock' \in {clock, clock + 1}
  <2>1. clock \in Nat  BY Times DEF IInv, TypeOK
  <2>2. CASE Advance  BY <2>1, <2>2 DEF Advance
  <2>3. CASE UserActs \/ ApiEnds \/ UNCHANGED vars
    BY <2>1, <2>3
    DEF UserActs, Configure, PlanRejected, PlanArrives, ReasonArrives, ItemPressed, Begin, ApiEnds,
        SetItemStatus, CommitPlan, CommitReasonPrompt, CommitAnswer, ApiAborts, vars
  <2>4. CASE TickSteps \/ Breaks
    BY <2>1, <2>4
    DEF TickSteps, TickBegins, ListPlans, InsertCheckin, InsertItem, SkipCard, SendCard, SetCard,
        ListCheckins, Transit, TransitsDone, ClearReason, FailItems, CloseCheckin, Unremind,
        SetReminder, ClaimNotice, NoticesDone, SendNotice, CommitNotice, ExpireNotices,
        CleanupStale, Breaks, TelegramFails, CardFails, ReminderFails, NoticeFails, Defers,
        CardUndone, WorkerStops, Reads, Goes
  <2>. QED  BY <2>2, <2>3, <2>4 DEF Next
<1>2. checkin'[d].list = checkin[d].list /\ checkin[d].list # 0
  BY StepKeepsAnswers DEF Stays, Answerable
<1>3. CheckinHour(d + 1) \in Nat  BY Times
<1>4. ~Writing(d)'
  <2>. SUFFICES ASSUME worker'.at = "items" PROVE worker'.date # d  BY DEF Writing
  <2>1. worker \in WorkerState /\ {"create", "items", "card", "list", "off"} \subseteq Step
    BY DEF IInv, TypeOK, Step
  <2>2. CASE worker' = worker  BY <2>2 DEF Answerable, Writing
  <2>3. CASE InsertItem
    <3>1. worker.at = "items" /\ worker'.date = worker.date
      BY <2>1, <2>3, Places DEF InsertItem, Goes, At
    <3>. QED  BY <3>1 DEF Answerable, Writing
  <2>4. CASE InsertCheckin
    <3>1. worker'.date = worker.date /\ worker.at = "create"
          /\ (worker'.at = "items" => checkin[worker.date].list = 0)
      BY <2>1, <2>4, Places DEF InsertCheckin, Goes, Reads, At
    <3>. QED  BY <1>2, <3>1
  <2>5. \/ worker' = worker \/ InsertItem \/ InsertCheckin \/ worker'.at # "items"
    <3>1. Advance \/ UserActs \/ ApiEnds \/ UNCHANGED vars => worker' = worker
      BY DEF Advance, UserActs, Configure, PlanRejected, PlanArrives, ReasonArrives, ItemPressed,
             Begin, ApiEnds, SetItemStatus, CommitPlan, CommitReasonPrompt, CommitAnswer,
             ApiAborts, vars
    <3>2. \A s \in Step : Leaves(s).at = s /\ GoesTo(s).at = s /\ Off.at = "off"
      BY <2>1, Places
    <3>3. {"plans", "set card", "transit", "claim", "notice", "commit", "expire", "inputs",
           "fail items", "close", "unremind"} \subseteq Step
      BY DEF Step
    <3>4. \/ SkipCard \/ SendCard \/ SetCard \/ ClearReason \/ FailItems \/ CloseCheckin
          \/ Unremind \/ SetReminder \/ SendNotice \/ CommitNotice \/ ExpireNotices
          \/ CleanupStale \/ CardUndone \/ WorkerStops \/ CardFails \/ ReminderFails
          => worker'.at # "items"
      BY <2>1, <3>2, <3>3
      DEF SkipCard, SendCard, SetCard, ClearReason, FailItems, CloseCheckin, Unremind, SetReminder,
          SendNotice, CommitNotice, ExpireNotices, CleanupStale, CardUndone, WorkerStops,
          CardFails, ReminderFails, Defers, Reads, Goes
    <3>5. ListPlans => worker'.at # "items"
      BY <2>1, <3>2 DEF ListPlans, Reads, Goes, WorkerState
    <3>6. TickBegins \/ ListCheckins \/ TransitsDone \/ NoticesDone \/ NoticeFails
          => worker'.at # "items"
      BY <2>1, <3>2, <3>3
      DEF TickBegins, ListCheckins, TransitsDone, NoticesDone, NoticeFails, Defers, Reads, Goes,
          Off, Leaves, GoesTo, WorkerState
    <3>7. (\E e \in Date : Transit(e) \/ ClaimNotice(e)) => worker'.at # "items"
      BY <2>1 DEF Transit, ClaimNotice, Reads, Goes, Taken, GoesTo, WorkerState
    <3>. QED
      BY <3>1, <3>4, <3>5, <3>6, <3>7 DEF Next, TickSteps, Breaks, TelegramFails
  <2>. QED  BY <2>2, <2>3, <2>4, <2>5
<1>. QED  BY <1>1, <1>2, <1>3, <1>4 DEF Answerable

\* A press, a reason and a new list are read under the guards that RInv remembers.
LEMMA ApiStepTells ==
    ASSUME IInv, RInv, Advance \/ UserActs \/ SetItemStatus \/ ApiAborts \/ UNCHANGED vars
    PROVE  ApiTells'
<1>1. clock \in Nat /\ (call # None => call \in Call) /\ (pending # None => pending \in Pending)
  BY Times DEF IInv, TypeOK
<1>2. CASE Advance
  <2>1. InCall({"plan"}) /\ call.snapshot # 0 => CheckinHour(call.snapshot) \in Nat
    <3>. SUFFICES ASSUME InCall({"plan"}), call.snapshot # 0 PROVE CheckinHour(call.snapshot) \in Nat
      OBVIOUS
    <3>1. call.snapshot \in Date  BY <1>1 DEF InCall, Call
    <3>. QED  BY <3>1, BoundsAssumption DEF CheckinHour, Date
  <2>2. InCall({"press", "pressed"}) => Deadline(call.date) \in Nat
    BY <1>1, Times DEF InCall, Call
  <2>. QED  BY <1>1, <1>2, <2>1, <2>2 DEF Advance, RInv, ApiTells, InCall, Expects
<1>3. CASE Configure \/ PlanRejected
  <2>1. call' = None  BY <1>3 DEF Configure, PlanRejected
  <2>2. pending'.kind = "routine_plan"  BY <1>1, <1>3 DEF Configure, PlanRejected, Expects, Pending
  <2>. QED  BY <2>1, <2>2 DEF ApiTells, InCall, Expects
<1>4. CASE PlanArrives
  <2>1. call' = [op |-> "plan", day |-> Today(clock), snapshot |-> SnapshotDate(clock),
                 list |-> Len(saves)] /\ UNCHANGED <<clock, pending>>
    BY <1>4 DEF PlanArrives, Begin
  <2>2. SnapshotDate(clock) # 0 => clock >= CheckinHour(SnapshotDate(clock))
    BY <1>1 DEF SnapshotDate, CheckinHour, Today, BeforeCheckinHour
  <2>. QED  BY <2>1, <2>2 DEF RInv, ApiTells, InCall, Expects
<1>5. ASSUME NEW d \in Date, NEW i \in Item, NEW answer \in Answer, ItemPressed(d, i, answer)
      PROVE  ApiTells'
  <2>1. call' = [op |-> "press", date |-> d, item |-> i, answer |-> answer]
        /\ UNCHANGED <<checkin, pending>> /\ checkin[d].item[i] = "open"
    BY <1>5 DEF ItemPressed, Begin, IsNext, OpenItems
  <2>. QED  BY <2>1 DEF RInv, ApiTells, InCall, Expects
<1>6. CASE ReasonArrives
  <2>1. call' = [op |-> "reason", date |-> pending.date, item |-> pending.item,
                 answer |-> pending.answer] /\ UNCHANGED pending /\ Expects("routine_reason")
    BY <1>6 DEF ReasonArrives, Begin
  <2>. QED  BY <2>1 DEF RInv, ApiTells, InCall, Expects
<1>7. CASE SetItemStatus
  <2>1. UNCHANGED <<clock, checkin, pending>>  BY <1>7 DEF SetItemStatus
  <2>2. \/ call' = None
        \/ call.op = "press" /\ call' = [call EXCEPT !.op = "pressed"]
        \/ call.op = "reason" /\ call' = [call EXCEPT !.op = "reasoned"]
    BY <1>7 DEF SetItemStatus, InCall
  <2>3. call # None /\ call \in Call  BY <1>1, <1>7 DEF SetItemStatus, InCall
  <2>4. \/ call' = None
        \/ call.op = "press" /\ call'.op = "pressed" /\ call'.date = call.date /\ call'.item = call.item
        \/ call.op = "reason" /\ call'.op = "reasoned" /\ call'.answer = call.answer
    BY <2>2, <2>3 DEF Call
  <2>. QED  BY <2>1, <2>3, <2>4 DEF RInv, ApiTells, InCall, Expects
<1>8. CASE ApiAborts \/ UNCHANGED vars
  BY <1>8 DEF ApiAborts, vars, RInv, ApiTells, InCall, Expects
<1>. QED  BY <1>2, <1>3, <1>4, <1>5, <1>6, <1>7, <1>8 DEF UserActs

\* A commit ends the call; the reason it asks for is for an answer that needs one.
LEMMA CommitTells ==
    ASSUME IInv, RInv, CommitPlan \/ CommitReasonPrompt \/ CommitAnswer
    PROVE  ApiTells'
<1>1. call' = None  BY DEF CommitPlan, CommitReasonPrompt, CommitAnswer
<1>2. CASE CommitPlan \/ CommitAnswer
  <2>1. pending' = None \/ pending' = pending  BY <1>2 DEF CommitPlan, CommitAnswer
  <2>. QED  BY <1>1, <2>1 DEF RInv, ApiTells, InCall, Expects
<1>3. CASE CommitReasonPrompt
  <2>1. pending'.answer # "done"  BY <1>3 DEF CommitReasonPrompt
  <2>. QED  BY <1>1, <2>1 DEF ApiTells, InCall
<1>. QED  BY <1>2, <1>3

\* What the worker remembers of a row, and what the lifecycle knows of it but its list, its
\* answers and its end.
MarksStay(d) ==
    /\ checkin'[d].card = checkin[d].card
    /\ checkin'[d].reminder = "none" <=> checkin[d].reminder = "none"
    /\ checkin'[d].autoFailed = checkin[d].autoFailed
    /\ checkin'[d].noticed = checkin[d].noticed

\* A list that is kept makes one row where there was none.
LEMMA CommitPlanRows ==
    ASSUME IInv, CommitPlan, NEW d \in Date
    PROVE  \/ checkin'[d] = checkin[d]
           \/ /\ d = call.snapshot /\ call.list \in 1..MaxSaves
              /\ checkin[d] = NoCheckin /\ checkin'[d] = WholeCheckin(call.list)
<1>1. /\ call \in [op : {"plan"}, day : Date, snapshot : Date \cup {0}, list : 0..MaxSaves]
      /\ (call.snapshot # 0 => call.list # 0)
  BY NoneAssumption DEF IInv, TypeOK, Call, CallKnows, CommitPlan, InCall
<1>2. call.snapshot \in Date => call.list \in 1..MaxSaves  BY <1>1, Times
<1>. QED  BY <1>2 DEF CommitPlan, IInv, RowsKnow

\* A new list or an answer changes none of the worker's marks.
LEMMA ApiKeepsMarks ==
    ASSUME IInv, CommitPlan \/ CommitReasonPrompt \/ CommitAnswer, NEW d \in Date
    PROVE  MarksStay(d)
<1>1. checkin[d] \in Checkin /\ checkin \in [Date -> Checkin]  BY DEF IInv, TypeOK
<1>2. CASE CommitPlan
  <2>1. NoCheckin \in Checkin  BY NoCheckinType
  <2>2. WholeCheckin(call.list).card = NoCheckin.card
        /\ WholeCheckin(call.list).reminder = NoCheckin.reminder
        /\ WholeCheckin(call.list).autoFailed = NoCheckin.autoFailed
        /\ WholeCheckin(call.list).noticed = NoCheckin.noticed
    BY DEF WholeCheckin, NoCheckin
  <2>. QED  BY <1>2, <2>2, CommitPlanRows DEF MarksStay
<1>3. CASE CommitReasonPrompt \/ CommitAnswer
  <2>. DEFINE answered == Answered(checkin[d], call.item, call.answer)
  <2>1. \/ checkin'[d] = checkin[d]
        \/ checkin'[d] \in {answered, CompletedWhenAnswered(answered)}
    BY <1>1, <1>3 DEF CommitReasonPrompt, CommitAnswer
  <2>2. /\ answered.card = checkin[d].card /\ answered.reminder = checkin[d].reminder
        /\ answered.autoFailed = checkin[d].autoFailed /\ answered.noticed = checkin[d].noticed
        /\ answered = [list |-> answered.list, item |-> answered.item, card |-> answered.card,
                       reminder |-> answered.reminder, completed |-> answered.completed,
                       autoFailed |-> answered.autoFailed, noticed |-> answered.noticed]
    BY <1>1 DEF Answered, Checkin
  <2>. HIDE DEF answered
  <2>3. /\ CompletedWhenAnswered(answered).card = answered.card
        /\ CompletedWhenAnswered(answered).reminder = "none" <=> answered.reminder = "none"
        /\ CompletedWhenAnswered(answered).autoFailed = answered.autoFailed
        /\ CompletedWhenAnswered(answered).noticed = answered.noticed
    BY <2>2 DEF CompletedWhenAnswered
  <2>. QED  BY <2>1, <2>2, <2>3 DEF MarksStay
<1>. QED  BY <1>2, <1>3

\* The worker's statements that write rows, all but one, on the row at hand.
LEMMA WorkerWrites ==
    ASSUME IInv, NEW d \in Date
    PROVE  /\ InsertCheckin => \/ checkin'[d] = checkin[d]
                               \/ /\ d = worker.date /\ worker.list \in 1..MaxSaves
                                  /\ checkin[d] = NoCheckin
                                  /\ checkin'[d] = [NoCheckin EXCEPT !.list = worker.list]
           /\ InsertItem => IF d # worker.date THEN checkin'[d] = checkin[d]
                            ELSE \E i \in Item :
                                   /\ checkin[d].item[i] = "missing"
                                   /\ checkin'[d] = [checkin[d] EXCEPT !.item[i] = "open"]
           /\ SetCard => checkin'[d] = IF d # worker.date THEN checkin[d]
                                       ELSE [checkin[d] EXCEPT !.card = TRUE]
           /\ FailItems => checkin'[d] = IF d # worker.date THEN checkin[d] ELSE Failed(checkin[d])
           /\ CloseCheckin => \/ checkin'[d] = checkin[d]
                              \/ /\ d = worker.date /\ ~checkin[d].completed
                                 /\ checkin'[d] = [checkin[d] EXCEPT !.completed = TRUE,
                                                                     !.autoFailed = TRUE]
           /\ Unremind => checkin'[d] = IF d # worker.date THEN checkin[d]
                                        ELSE [checkin[d] EXCEPT !.reminder = "cleared"]
           /\ SetReminder => checkin'[d] = IF d # worker.date THEN checkin[d]
                                           ELSE [checkin[d] EXCEPT !.reminder = "stored"]
           /\ CommitNotice => checkin'[d] = IF d # worker.date THEN checkin[d]
                                            ELSE [checkin[d] EXCEPT !.noticed = TRUE]
           /\ ExpireNotices => \/ checkin'[d] = checkin[d]
                               \/ /\ checkin[d].reminder = "stored"
                                  /\ checkin'[d] = [checkin[d] EXCEPT !.reminder = "cleared"]
<1>1. checkin \in [Date -> Checkin] /\ worker \in WorkerState  BY DEF IInv, TypeOK
<1>2. ASSUME InsertCheckin
      PROVE  \/ checkin'[d] = checkin[d]
             \/ /\ d = worker.date /\ worker.list \in 1..MaxSaves /\ checkin[d] = NoCheckin
                /\ checkin'[d] = [NoCheckin EXCEPT !.list = worker.list]
  <2>1. worker.at = "create"  BY <1>2 DEF InsertCheckin, At
  <2>2. worker.list # 0  BY <2>1 DEF IInv, WorkerKnows
  <2>3. worker.list \in 1..MaxSaves  BY <1>1, <2>2, Times DEF WorkerState
  <2>4. CASE checkin[worker.date].list # 0  BY <1>2, <2>4 DEF InsertCheckin, Reads
  <2>5. CASE checkin[worker.date].list = 0
    <3>1. checkin' = [checkin EXCEPT ![worker.date] = [NoCheckin EXCEPT !.list = worker.list]]
      BY <1>2, <2>5 DEF InsertCheckin
    <3>. QED  BY <1>1, <2>3, <2>5, <3>1 DEF IInv, RowsKnow
  <2>. QED  BY <2>4, <2>5
<1>3. ASSUME InsertItem
      PROVE  IF d # worker.date THEN checkin'[d] = checkin[d]
             ELSE \E i \in Item : /\ checkin[d].item[i] = "missing"
                                  /\ checkin'[d] = [checkin[d] EXCEPT !.item[i] = "open"]
  <2>1. PICK i \in Item : /\ checkin[worker.date].item[i] = "missing"
                         /\ checkin' = [checkin EXCEPT ![worker.date].item[i] = "open"]
    BY <1>3 DEF InsertItem
  <2>. QED  BY <1>1, <2>1
<1>4. SetCard => checkin'[d] = IF d # worker.date THEN checkin[d]
                               ELSE [checkin[d] EXCEPT !.card = TRUE]
  BY <1>1 DEF SetCard
<1>5. FailItems => checkin'[d] = IF d # worker.date THEN checkin[d] ELSE Failed(checkin[d])
  BY <1>1 DEF FailItems
<1>6. CloseCheckin => \/ checkin'[d] = checkin[d]
                      \/ /\ d = worker.date /\ ~checkin[d].completed
                         /\ checkin'[d] = [checkin[d] EXCEPT !.completed = TRUE, !.autoFailed = TRUE]
  BY <1>1 DEF CloseCheckin, Reads
<1>7. /\ Unremind => checkin'[d] = IF d # worker.date THEN checkin[d]
                                   ELSE [checkin[d] EXCEPT !.reminder = "cleared"]
      /\ SetReminder => checkin'[d] = IF d # worker.date THEN checkin[d]
                                      ELSE [checkin[d] EXCEPT !.reminder = "stored"]
      /\ CommitNotice => checkin'[d] = IF d # worker.date THEN checkin[d]
                                       ELSE [checkin[d] EXCEPT !.noticed = TRUE]
  BY <1>1 DEF Unremind, SetReminder, CommitNotice
<1>8. ExpireNotices => \/ checkin'[d] = checkin[d]
                       \/ /\ checkin[d].reminder = "stored"
                          /\ checkin'[d] = [checkin[d] EXCEPT !.reminder = "cleared"]
  BY DEF ExpireNotices, Expired
<1>. QED  BY <1>2, <1>3, <1>4, <1>5, <1>6, <1>7, <1>8

\* The statements that change no mark.
LEMMA WorkerKeepsMarks ==
    ASSUME IInv, NEW d \in Date,
           \/ checkin' = checkin \/ InsertCheckin \/ InsertItem \/ FailItems \/ ExpireNotices
    PROVE  MarksStay(d)
<1>1. checkin[d] \in Checkin  BY DEF IInv, TypeOK
<1>2. CASE checkin' = checkin  BY <1>2 DEF MarksStay
<1>3. CASE InsertCheckin
  <2>1. \/ checkin'[d] = checkin[d]
        \/ checkin[d] = NoCheckin /\ checkin'[d] = [NoCheckin EXCEPT !.list = worker.list]
    BY <1>3, WorkerWrites
  <2>. QED  BY <2>1 DEF MarksStay, NoCheckin
<1>4. CASE InsertItem
  <2>1. CASE d # worker.date  BY <1>4, <2>1, WorkerWrites DEF MarksStay
  <2>2. CASE d = worker.date
    <3>1. PICK i \in Item : /\ checkin[d].item[i] = "missing"
                            /\ checkin'[d] = [checkin[d] EXCEPT !.item[i] = "open"]
      BY <1>4, <2>2, WorkerWrites
    <3>. QED  BY <1>1, <3>1 DEF MarksStay, Checkin
  <2>. QED  BY <2>1, <2>2
<1>5. CASE FailItems
  <2>1. checkin'[d] \in {checkin[d], Failed(checkin[d])}  BY <1>5, WorkerWrites
  <2>. QED  BY <1>1, <2>1 DEF MarksStay, Failed, Checkin
<1>6. CASE ExpireNotices
  <2>1. checkin'[d] = checkin[d] \/ (/\ checkin[d].reminder = "stored"
                                    /\ checkin'[d] = [checkin[d] EXCEPT !.reminder = "cleared"])
    BY <1>6, WorkerWrites
  <2>. QED  BY <1>1, <2>1 DEF MarksStay, Checkin
<1>. QED  BY <1>2, <1>3, <1>4, <1>5, <1>6

\* Where the worker has something in mind that TickTells is about.
Telling == {"transit", "clear", "fail items", "close", "unremind", "set reminder", "set card",
            "notice", "commit"}

\* The places the worker leaves for, and what it remembers there of the reminders.
LEMMA Remembers ==
    ASSUME worker \in WorkerState
    PROVE  /\ Off.at = "off"
           /\ \A step \in Step :
                /\ GoesTo(step).at = step /\ GoesTo(step).date = worker.date
                /\ GoesTo(step).todo = worker.todo /\ GoesTo(step).reminded = worker.reminded
                /\ Leaves(step).at = step
                /\ Leaves(step).todo = worker.todo /\ Leaves(step).reminded = worker.reminded
BY DEF GoesTo, Leaves, WorkerState, Off

\* The API writes nothing that the tick has in mind.
LEMMA TickTellsInStandstill ==
    ASSUME IInv, RInv, worker' = worker, \A d \in Date : MarksStay(d) PROVE TickTells'
<1>1. worker \in WorkerState /\ (worker.at \in Telling \ {"transit"} => worker.date \in Date)
  BY DEF IInv, TypeOK, WorkerKnows, Telling
<1>. QED  BY <1>1 DEF RInv, TickTells, MarksStay, WorkerState, Telling

\* Places where there is nothing to tell.
LEMMA TickTellsNothing ==
    ASSUME IInv,
           \/ TickBegins \/ ListPlans \/ InsertCheckin \/ InsertItem \/ SkipCard \/ SetCard
           \/ TransitsDone \/ NoticesDone \/ CommitNotice \/ ExpireNotices \/ CleanupStale
           \/ CardUndone \/ WorkerStops \/ CardFails \/ NoticeFails
    PROVE  TickTells'
<1>1. worker \in WorkerState  BY DEF IInv, TypeOK
<1>2. {"plans", "create", "items", "card", "list", "claim", "expire", "inputs", "off"} \subseteq Step
  BY DEF Step
<1>3. worker'.at \notin Telling
  <2>1. CASE \/ SkipCard \/ SetCard \/ CommitNotice \/ ExpireNotices \/ CleanupStale \/ CardUndone
             \/ WorkerStops \/ CardFails \/ InsertCheckin \/ InsertItem
    <3>1. worker' \in {Leaves("list"), Leaves("claim"), GoesTo("inputs"), GoesTo("card"),
                       GoesTo("items"), Off}
      BY <2>1 DEF SkipCard, SetCard, CommitNotice, ExpireNotices, CleanupStale, CardUndone,
                  WorkerStops, CardFails, InsertCheckin, InsertItem, Defers, Reads, Goes
    <3>2. /\ Leaves("list").at = "list" /\ Leaves("claim").at = "claim"
          /\ GoesTo("inputs").at = "inputs" /\ GoesTo("card").at = "card"
          /\ GoesTo("items").at = "items" /\ Off.at = "off"
      BY <1>1, <1>2, Remembers
    <3>3. worker'.at \in {"list", "claim", "inputs", "card", "items", "off"}  BY <3>1, <3>2
    <3>. QED  BY <3>3 DEF Telling
  <2>2. CASE TickBegins \/ ListPlans
    <3>1. worker'.at \in {"plans", "create", "list"}
      BY <1>1, <2>2 DEF TickBegins, ListPlans, Reads, Goes, Leaves, Off, WorkerState
    <3>. QED  BY <3>1 DEF Telling
  <2>3. CASE TransitsDone \/ NoticesDone
    <3>1. worker'.at \in {"claim", "expire"}
      BY <1>1, <2>3 DEF TransitsDone, NoticesDone, Reads, Goes, Leaves, GoesTo, WorkerState
    <3>. QED  BY <3>1 DEF Telling
  <2>4. CASE NoticeFails
    <3>. DEFINE next == [Leaves("claim") EXCEPT !.todo = @ \ {worker.date}]
    <3>1. worker' \in {next, Off}  BY <2>4 DEF NoticeFails, Defers
    <3>2. Leaves("claim") \in WorkerState /\ Leaves("claim").at = "claim"  BY <1>1, <1>2, Places
    <3>3. next.at = "claim"  BY <3>2 DEF WorkerState
    <3>. HIDE DEF next
    <3>. QED  BY <1>1, <3>1, <3>3, Remembers DEF Telling
  <2>. QED  BY <2>1, <2>2, <2>3, <2>4
<1>. QED  BY <1>3 DEF TickTells, Telling

\* The tick at one check-in: what it decided on is there when it comes to write it.
LEMMA TickTellsOfTransits ==
    ASSUME IInv, RInv,
           \/ ListCheckins \/ (\E d \in Date : Transit(d)) \/ ClearReason \/ FailItems
           \/ ReminderFails
    PROVE  TickTells'
<1>1. worker \in WorkerState  BY DEF IInv, TypeOK
<1>2. {"transit", "fail items", "close", "off"} \subseteq Step  BY DEF Step
<1>3. (FailItems \/ checkin' = checkin) /\ \A d \in Date : MarksStay(d)
  <2>1. FailItems \/ checkin' = checkin
    BY DEF ListCheckins, Transit, ClearReason, ReminderFails, Defers, Reads
  <2>. QED  BY <2>1, WorkerKeepsMarks
<1>4. CASE ListCheckins
  <2>1. /\ worker'.at = "transit" /\ checkin' = checkin
        /\ worker'.todo = {d \in Date : checkin[d].card /\ ~checkin[d].completed}
        /\ worker'.reminded = {d \in Date : checkin[d].reminder = "stored"}
    BY <1>1, <1>4 DEF ListCheckins, Reads, Goes, Leaves, WorkerState
  <2>. QED  BY <2>1 DEF TickTells
<1>5. ASSUME NEW d \in Date, Transit(d) PROVE TickTells'
  <2>1. /\ checkin' = checkin /\ worker.at = "transit" /\ d \in worker.todo
        /\ worker'.todo = worker.todo \ {d} /\ worker'.reminded = worker.reminded
        /\ worker'.now = worker.now
        /\ \/ worker'.at = "transit"
           \/ worker'.at = "clear" /\ worker'.date = d
           \/ worker'.at = "set reminder" /\ worker'.date = d /\ ReminderDue(d)
    BY <1>1, <1>5 DEF Transit, At, IsFirst, Reads, Goes, Taken, WorkerState
  <2>2. checkin[d].card /\ \A e \in worker.todo : checkin[e].card  BY <2>1 DEF RInv, TickTells
  <2>3. \A e \in worker.reminded : checkin[e].reminder # "none"  BY <2>1 DEF RInv, TickTells
  <2>4. worker.now \in Nat /\ ReminderHour(d) \in Nat
    BY <1>1, Times DEF WorkerState, ReminderHour
  <2>5. ReminderDue(d) => worker.now >= ReminderHour(d) /\ checkin[d].reminder = "none"
    BY <2>4 DEF ReminderDue
  <2>. QED  BY <2>1, <2>2, <2>3, <2>5 DEF TickTells
<1>6. CASE ClearReason \/ FailItems
  <2>1. /\ worker.at \in {"clear", "fail items"} /\ worker'.at \in {"fail items", "close"}
        /\ worker'.date = worker.date /\ worker'.todo = worker.todo
        /\ worker'.reminded = worker.reminded
    <3>1. worker.at \in {"clear", "fail items"} /\ worker' \in {GoesTo("fail items"), GoesTo("close")}
      BY <1>6 DEF ClearReason, FailItems, Goes, At
    <3>2. \A step \in {"fail items", "close"} :
            /\ GoesTo(step).at = step /\ GoesTo(step).date = worker.date
            /\ GoesTo(step).todo = worker.todo /\ GoesTo(step).reminded = worker.reminded
      BY <1>1, <1>2, Remembers
    <3>. QED  BY <3>1, <3>2
  <2>2. worker.date \in Date /\ worker.todo \subseteq Date /\ worker.reminded \subseteq Date
    BY <1>1, <2>1 DEF IInv, WorkerKnows, WorkerState
  <2>. QED  BY <1>3, <2>1, <2>2 DEF RInv, TickTells, MarksStay
<1>7. CASE ReminderFails
  <2>1. /\ worker.at = "set reminder" /\ checkin' = checkin
        /\ \/ worker'.at = "off"
           \/ worker'.at = "transit" /\ worker'.todo = worker.todo
              /\ worker'.reminded = worker.reminded
    <3>1. /\ worker.at = "set reminder" /\ checkin' = checkin
          /\ worker' \in {Leaves("transit"), Off}
      BY <1>7 DEF ReminderFails, Defers, At
    <3>. QED  BY <1>1, <1>2, <3>1, Remembers
  <2>. QED  BY <2>1 DEF RInv, TickTells
<1>. QED  BY <1>4, <1>5, <1>6, <1>7

\* The statements that write a mark.
LEMMA TickTellsOfMarks ==
    ASSUME IInv, RInv, SendCard \/ CloseCheckin \/ Unremind \/ SetReminder
    PROVE  TickTells'
<1>1. worker \in WorkerState /\ checkin \in [Date -> Checkin]
      /\ worker.todo \subseteq Date /\ worker.reminded \subseteq Date
  BY DEF IInv, TypeOK, WorkerState
<1>2. {"transit", "set card", "unremind"} \subseteq Step  BY DEF Step
<1>3. CASE SendCard
  <2>1. worker'.at = "set card" /\ worker'.date = worker.date /\ checkin' = checkin
        /\ ~checkin[worker.date].card
    BY <1>1, <1>2, <1>3, Remembers DEF SendCard, NeedsCard
  <2>. QED  BY <2>1 DEF TickTells
<1>4. CASE CloseCheckin \/ Unremind \/ SetReminder
  <2>1. /\ worker.at \in {"close", "unremind", "set reminder"} /\ worker.date \in Date
        /\ worker'.todo = worker.todo /\ worker'.reminded = worker.reminded
        /\ \/ worker'.at = "transit"
           \/ /\ CloseCheckin /\ worker'.at = "unremind" /\ worker'.date = worker.date
              /\ worker.date \in worker.reminded
    <3>1. worker.at \in {"close", "unremind", "set reminder"}
      BY <1>4 DEF CloseCheckin, Unremind, SetReminder, At
    <3>2. worker.date \in Date  BY <3>1 DEF IInv, WorkerKnows
    <3>3. \/ worker' = Leaves("transit")
          \/ CloseCheckin /\ worker' = GoesTo("unremind") /\ worker.date \in worker.reminded
      BY <1>4 DEF CloseCheckin, Unremind, SetReminder, Reads, Goes
    <3>4. /\ Leaves("transit").at = "transit" /\ Leaves("transit").todo = worker.todo
          /\ Leaves("transit").reminded = worker.reminded
          /\ GoesTo("unremind").at = "unremind" /\ GoesTo("unremind").todo = worker.todo
          /\ GoesTo("unremind").reminded = worker.reminded
          /\ GoesTo("unremind").date = worker.date
      BY <1>1, <1>2, Remembers
    <3>. QED  BY <3>1, <3>2, <3>3, <3>4
  <2>2. ASSUME NEW d \in Date
        PROVE  checkin'[d].card = checkin[d].card
               /\ (checkin[d].reminder # "none" => checkin'[d].reminder # "none")
    <3>1. \/ checkin'[d] = checkin[d]
          \/ checkin'[d] \in {[checkin[d] EXCEPT !.completed = TRUE, !.autoFailed = TRUE],
                              [checkin[d] EXCEPT !.reminder = "cleared"],
                              [checkin[d] EXCEPT !.reminder = "stored"]}
      BY <1>4, WorkerWrites
    <3>2. checkin[d] \in Checkin  BY <1>1
    <3>. QED  BY <3>1, <3>2 DEF Checkin
  <2>3. /\ \A d \in worker.todo : checkin[d].card
        /\ \A d \in worker.reminded : checkin[d].reminder # "none"
        /\ checkin[worker.date].card
    BY <2>1 DEF RInv, TickTells
  <2>4. /\ \A d \in worker'.todo : checkin'[d].card
        /\ \A d \in worker'.reminded : checkin'[d].reminder # "none"
        /\ checkin'[worker.date].card
    BY <1>1, <2>1, <2>2, <2>3
  <2>. QED  BY <2>1, <2>4 DEF TickTells
<1>. QED  BY <1>3, <1>4

LEMMA TickTellsOfNotices ==
    ASSUME IInv, RInv, SendNotice \/ \E d \in Date : ClaimNotice(d) PROVE TickTells'
<1>1. worker \in WorkerState /\ "commit" \in Step  BY DEF IInv, TypeOK, Step
<1>2. CASE SendNotice
  <2>1. worker.at = "notice" /\ checkin' = checkin
        /\ worker'.at = "commit" /\ worker'.date = worker.date
    BY <1>1, <1>2, Remembers DEF SendNotice, At, Reads, Goes
  <2>. QED  BY <2>1 DEF RInv, TickTells
<1>3. ASSUME NEW d \in Date, ClaimNotice(d) PROVE TickTells'
  <2>1. checkin' = checkin /\ checkin[d].autoFailed /\ ~checkin[d].noticed
        /\ worker'.at = "notice" /\ worker'.date = d
    BY <1>1, <1>3 DEF ClaimNotice, AwaitsNotice, Reads, Goes, GoesTo, WorkerState
  <2>. QED  BY <2>1 DEF TickTells
<1>. QED  BY <1>2, <1>3

\* What the worker may do to an item.
LEMMA WorkerItems ==
    ASSUME IInv, TickSteps \/ Breaks, NEW d \in Date, NEW i \in Item
    PROVE  \/ checkin'[d].item[i] = checkin[d].item[i]
           \/ checkin[d].item[i] = "missing" /\ checkin'[d].item[i] = "open"
           \/ /\ checkin[d].item[i] = "open" /\ checkin'[d].item[i] = "failed"
              /\ d = worker.date /\ Answerable(d) /\ clock >= Deadline(d)
<1>1. checkin[d] \in Checkin  BY DEF IInv, TypeOK
<1>2. CASE checkin' = checkin  BY <1>2
<1>3. CASE InsertCheckin
  <2>1. \/ checkin'[d] = checkin[d]
        \/ checkin[d] = NoCheckin /\ checkin'[d] = [NoCheckin EXCEPT !.list = worker.list]
    BY <1>3, WorkerWrites
  <2>. QED  BY <2>1 DEF NoCheckin
<1>4. CASE InsertItem
  <2>1. CASE d # worker.date  BY <1>4, <2>1, WorkerWrites
  <2>2. CASE d = worker.date
    <3>1. PICK j \in Item : /\ checkin[d].item[j] = "missing"
                            /\ checkin'[d] = [checkin[d] EXCEPT !.item[j] = "open"]
      BY <1>4, <2>2, WorkerWrites
    <3>. QED  BY <1>1, <3>1 DEF Checkin
  <2>. QED  BY <2>1, <2>2
<1>5. CASE FailItems
  <2>1. CASE d # worker.date  BY <1>5, <2>1, WorkerWrites
  <2>2. CASE d = worker.date
    <3>1. worker.at = "fail items"  BY <1>5 DEF FailItems, At
    <3>2. worker.now >= Deadline(d) /\ Answerable(d) /\ worker.now <= clock
      BY <2>2, <3>1 DEF IInv, WorkerKnows
    <3>3. worker.now \in Nat /\ clock \in Nat /\ Deadline(d) \in Nat
      BY Times DEF IInv, TypeOK, WorkerState
    <3>4. checkin'[d] = Failed(checkin[d])  BY <1>5, <2>2, WorkerWrites
    <3>. QED  BY <1>1, <2>2, <3>2, <3>3, <3>4 DEF Failed, Checkin
  <2>. QED  BY <2>1, <2>2
<1>6. CASE SetCard \/ CloseCheckin \/ Unremind \/ SetReminder \/ CommitNotice \/ ExpireNotices
  <2>1. \/ checkin'[d] = checkin[d]
        \/ checkin'[d] \in {[checkin[d] EXCEPT !.card = TRUE],
                            [checkin[d] EXCEPT !.completed = TRUE, !.autoFailed = TRUE],
                            [checkin[d] EXCEPT !.reminder = "cleared"],
                            [checkin[d] EXCEPT !.reminder = "stored"],
                            [checkin[d] EXCEPT !.noticed = TRUE]}
    <3>1. CASE SetCard  BY <3>1, WorkerWrites
    <3>2. CASE CloseCheckin  BY <3>2, WorkerWrites
    <3>3. CASE Unremind \/ SetReminder  BY <3>3, WorkerWrites
    <3>4. CASE CommitNotice  BY <3>4, WorkerWrites
    <3>5. CASE ExpireNotices  BY <3>5, WorkerWrites
    <3>. QED  BY <1>6, <3>1, <3>2, <3>3, <3>4, <3>5
  <2>. QED  BY <1>1, <2>1 DEF Checkin
<1>7. \/ checkin' = checkin \/ InsertCheckin \/ InsertItem \/ FailItems
      \/ SetCard \/ CloseCheckin \/ Unremind \/ SetReminder \/ CommitNotice \/ ExpireNotices
  BY DEF TickSteps, TickBegins, ListPlans, SkipCard, SendCard, ListCheckins, Transit, TransitsDone,
         ClearReason, ClaimNotice, NoticesDone, SendNotice, CleanupStale, Breaks, TelegramFails,
         CardFails, ReminderFails, NoticeFails, Defers, CardUndone, WorkerStops, Reads
<1>. QED  BY <1>2, <1>3, <1>4, <1>5, <1>6, <1>7

\* What the API may do to an item.
LEMMA ApiItems ==
    ASSUME IInv, CommitPlan \/ CommitReasonPrompt \/ CommitAnswer, NEW d \in Date, NEW i \in Item
    PROVE  \/ checkin'[d].item[i] = checkin[d].item[i]
           \/ checkin'[d].item[i] = "open"
           \/ d = call.date /\ Answerable(d)
<1>1. checkin[d] \in Checkin /\ checkin \in [Date -> Checkin]  BY DEF IInv, TypeOK
<1>2. CASE CommitPlan
  <2>1. WholeCheckin(call.list).item[i] = "open"  BY DEF WholeCheckin, NoCheckin
  <2>. QED  BY <1>2, <2>1, CommitPlanRows
<1>3. CASE CommitReasonPrompt \/ CommitAnswer
  <2>1. Answerable(call.date)
    BY <1>3 DEF IInv, CallKnows, CommitReasonPrompt, CommitAnswer, InCall
  <2>2. d # call.date => checkin'[d] = checkin[d]
    BY <1>1, <1>3 DEF CommitReasonPrompt, CommitAnswer
  <2>. QED  BY <2>1, <2>2
<1>. QED  BY <1>2, <1>3

\* No step of the worker opens or changes a call.
LEMMA WorkerStepTells ==
    ASSUME IInv, RInv, TickSteps \/ Breaks PROVE ApiTells'
<1>1. UNCHANGED <<clock, call>> /\ pending' \in {pending, None}
  BY DEF TickSteps, TickBegins, ListPlans, InsertCheckin, InsertItem, SkipCard, SendCard, SetCard,
         ListCheckins, Transit, TransitsDone, ClearReason, FailItems, CloseCheckin, Unremind,
         SetReminder, ClaimNotice, NoticesDone, SendNotice, CommitNotice, ExpireNotices,
         CleanupStale, Breaks, TelegramFails, CardFails, ReminderFails, NoticeFails, Defers,
         CardUndone, WorkerStops, Reads, Goes
<1>2. InCall({"press", "pressed"}) => call.date \in Date /\ call.item \in Item
  BY NoneAssumption DEF IInv, TypeOK, Call, InCall
<1>3. ASSUME InCall({"press", "pressed"}), checkin'[call.date].item[call.item] = "failed"
      PROVE  clock >= Deadline(call.date)
  <2>1. checkin[call.date].item[call.item] = "failed" \/ clock >= Deadline(call.date)
    BY <1>2, <1>3, WorkerItems
  <2>. QED  BY <1>3, <2>1 DEF RInv, ApiTells
<1>. QED  BY <1>1, <1>3 DEF RInv, ApiTells, InCall, Expects

\* Answers are written where they may be, and the worker's mark with the end.
LEMMA RowsStillTell == ASSUME IInv, RInv, [Next]_vars PROVE RowsTell'
<1>. SUFFICES ASSUME NEW d \in Date
              PROVE  /\ checkin'[d].autoFailed => checkin'[d].completed
                     /\ (\E i \in Item : checkin'[d].item[i] \in Owned) => Answerable(d)'
  BY DEF RowsTell
<1>1. checkin[d] \in Checkin /\ (checkin[d].autoFailed => checkin[d].completed)
      /\ (checkin[d].completed => checkin'[d].completed)
  BY StepKeepsAnswers DEF RInv, RowsTell, IInv, TypeOK, Stays
<1>2. checkin'[d].autoFailed => checkin'[d].completed
  <2>1. CASE MarksStay(d)  BY <1>1, <2>1 DEF MarksStay
  <2>2. CASE SetCard \/ CloseCheckin \/ Unremind \/ SetReminder \/ CommitNotice
    <3>1. \/ checkin'[d] = checkin[d]
          \/ checkin'[d] \in {[checkin[d] EXCEPT !.card = TRUE],
                              [checkin[d] EXCEPT !.completed = TRUE, !.autoFailed = TRUE],
                              [checkin[d] EXCEPT !.reminder = "cleared"],
                              [checkin[d] EXCEPT !.reminder = "stored"],
                              [checkin[d] EXCEPT !.noticed = TRUE]}
      <4>1. CASE SetCard  BY <4>1, WorkerWrites
      <4>2. CASE CloseCheckin  BY <4>2, WorkerWrites
      <4>3. CASE Unremind \/ SetReminder  BY <4>3, WorkerWrites
      <4>4. CASE CommitNotice  BY <4>4, WorkerWrites
      <4>. QED  BY <2>2, <4>1, <4>2, <4>3, <4>4
    <3>. QED  BY <1>1, <3>1 DEF Checkin
  <2>3. MarksStay(d) \/ SetCard \/ CloseCheckin \/ Unremind \/ SetReminder \/ CommitNotice
    BY WorkerKeepsMarks, ApiKeepsMarks, WritersOfRows
  <2>. QED  BY <2>1, <2>2, <2>3
<1>3. ASSUME NEW i \in Item, checkin'[d].item[i] \in Owned PROVE Answerable(d)
  <2>1. checkin[d].item[i] \in Owned => Answerable(d)  BY DEF RInv, RowsTell
  <2>2. "open" \notin Owned  BY DEF Owned
  <2>3. CASE checkin' = checkin  BY <1>3, <2>1, <2>3
  <2>4. CASE CommitPlan \/ CommitReasonPrompt \/ CommitAnswer  BY <1>3, <2>1, <2>2, <2>4, ApiItems
  <2>5. CASE TickSteps \/ Breaks  BY <1>3, <2>1, <2>2, <2>5, WorkerItems
  <2>. QED  BY <2>3, <2>4, <2>5, WritersOfRows DEF TickSteps
<1>. QED  BY <1>2, <1>3, AnswerableStays

LEMMA RStep == IInv /\ RInv /\ [Next]_vars => RInv'
<1>. SUFFICES ASSUME IInv, RInv, [Next]_vars PROVE ApiTells' /\ TickTells'
  BY RowsStillTell DEF RInv
<1>1. CASE Advance \/ UserActs \/ SetItemStatus \/ ApiAborts \/ UNCHANGED vars
  <2>1. worker' = worker /\ checkin' = checkin
    BY <1>1
    DEF Advance, UserActs, Configure, PlanRejected, PlanArrives, ReasonArrives, ItemPressed, Begin,
        SetItemStatus, ApiAborts, vars
  <2>. QED  BY <1>1, <2>1, ApiStepTells, WorkerKeepsMarks, TickTellsInStandstill
<1>2. CASE CommitPlan \/ CommitReasonPrompt \/ CommitAnswer
  <2>1. worker' = worker  BY <1>2 DEF CommitPlan, CommitReasonPrompt, CommitAnswer
  <2>. QED  BY <1>2, <2>1, CommitTells, ApiKeepsMarks, TickTellsInStandstill
<1>3. CASE TickSteps \/ Breaks
  <2>1. TickTells'
    BY <1>3, TickTellsNothing, TickTellsOfTransits, TickTellsOfMarks, TickTellsOfNotices
    DEF TickSteps, Breaks, TelegramFails
  <2>. QED  BY <1>3, <2>1, WorkerStepTells
<1>. QED  BY <1>1, <1>2, <1>3 DEF Next, ApiEnds

LEMMA RInductive == Spec => [](IInv /\ RInv)
<1>1. Spec => []RInv  BY RStart, RStep, Inductive, PTL DEF Spec
<1>. QED  BY <1>1, Inductive, PTL

-----------------------------------------------------------------------------
(* The mapping.                                                            *)

listBar == [d \in Date |-> checkin[d].list]
askedBar == {d \in Date : checkin[d].card}
remindedBar == {d \in Date : checkin[d].reminder # "none"}
answerBar == [d \in Date |-> checkin[d].item]
closingBar == [d \in Date |-> ClosingOf(checkin[d])]
toldBar == {d \in Date : checkin[d].noticed}
barVars == <<clock, listBar, askedBar, remindedBar, answerBar, closingBar, toldBar>>

LEMMA InitMaps == Init => Lifecycle!Init
<1>. SUFFICES ASSUME Init PROVE Lifecycle!Init  OBVIOUS
<1>1. \A d \in Date :
         /\ checkin[d].list = 0 /\ ~checkin[d].card /\ checkin[d].reminder = "none"
         /\ checkin[d].item = [i \in Item |-> "missing"] /\ ClosingOf(checkin[d]) = "open"
         /\ ~checkin[d].noticed
  BY DEF Init, NoCheckin, ClosingOf
<1>. QED  BY <1>1 DEF Init, Lifecycle!Init

\* What the lifecycle sees of a step that writes one row.
LEMMA OneRowMaps ==
    ASSUME NEW d \in Date, \A e \in Date : e # d => checkin'[e] = checkin[e]
    PROVE  /\ listBar' = [listBar EXCEPT ![d] = checkin'[d].list]
           /\ answerBar' = [answerBar EXCEPT ![d] = checkin'[d].item]
           /\ closingBar' = [closingBar EXCEPT ![d] = ClosingOf(checkin'[d])]
           /\ askedBar' = IF checkin'[d].card THEN askedBar \cup {d} ELSE askedBar \ {d}
           /\ remindedBar' = IF checkin'[d].reminder # "none" THEN remindedBar \cup {d}
                             ELSE remindedBar \ {d}
           /\ toldBar' = IF checkin'[d].noticed THEN toldBar \cup {d} ELSE toldBar \ {d}
<1>1. listBar' = [listBar EXCEPT ![d] = checkin'[d].list]  BY DEF listBar
<1>2. answerBar' = [answerBar EXCEPT ![d] = checkin'[d].item]  BY DEF answerBar
<1>3. closingBar' = [closingBar EXCEPT ![d] = ClosingOf(checkin'[d])]
  <2>1. closingBar' = [e \in Date |-> ClosingOf(checkin'[e])]  BY DEF closingBar, ClosingOf
  <2>. QED  BY <2>1 DEF closingBar
<1>4. askedBar' = IF checkin'[d].card THEN askedBar \cup {d} ELSE askedBar \ {d}
  BY DEF askedBar
<1>5. remindedBar' = IF checkin'[d].reminder # "none" THEN remindedBar \cup {d}
                     ELSE remindedBar \ {d}
  BY DEF remindedBar
<1>6. toldBar' = IF checkin'[d].noticed THEN toldBar \cup {d} ELSE toldBar \ {d}
  BY DEF toldBar
<1>. QED  BY <1>1, <1>2, <1>3, <1>4, <1>5, <1>6

\* ... and of the parts of the rows that a step leaves alone.
LEMMA RestMaps ==
    /\ (\A d \in Date : checkin'[d].list = checkin[d].list) => listBar' = listBar
    /\ (\A d \in Date : checkin'[d].item = checkin[d].item) => answerBar' = answerBar
    /\ (\A d \in Date : ClosingOf(checkin'[d]) = ClosingOf(checkin[d])) => closingBar' = closingBar
    /\ (\A d \in Date : checkin'[d].card = checkin[d].card) => askedBar' = askedBar
    /\ (\A d \in Date : checkin'[d].reminder = "none" <=> checkin[d].reminder = "none")
          => remindedBar' = remindedBar
    /\ (\A d \in Date : checkin'[d].noticed = checkin[d].noticed) => toldBar' = toldBar
<1>1. (\A d \in Date : checkin'[d].list = checkin[d].list) => listBar' = listBar  BY DEF listBar
<1>2. (\A d \in Date : checkin'[d].item = checkin[d].item) => answerBar' = answerBar
  BY DEF answerBar
<1>3. (\A d \in Date : ClosingOf(checkin'[d]) = ClosingOf(checkin[d])) => closingBar' = closingBar
  <2>1. closingBar' = [e \in Date |-> ClosingOf(checkin'[e])]  BY DEF closingBar, ClosingOf
  <2>. QED  BY <2>1 DEF closingBar
<1>4. (\A d \in Date : checkin'[d].card = checkin[d].card) => askedBar' = askedBar
  BY DEF askedBar
<1>5. (\A d \in Date : checkin'[d].reminder = "none" <=> checkin[d].reminder = "none")
         => remindedBar' = remindedBar
  BY DEF remindedBar
<1>6. (\A d \in Date : checkin'[d].noticed = checkin[d].noticed) => toldBar' = toldBar
  BY DEF toldBar
<1>. QED  BY <1>1, <1>2, <1>3, <1>4, <1>5, <1>6

-----------------------------------------------------------------------------
(* Each statement that the lifecycle sees is one step of it.               *)

openBar == [d \in Date |-> CheckinHour(d)]
morningBar == [d \in Date |-> CheckinHour(d + 1)]
eveningBar == [d \in Date |-> ReminderHour(d)]
endBar == [d \in Date |-> Deadline(d)]

\* A new row.
LEMMA MakeMaps ==
    ASSUME IInv, RInv, CommitPlan \/ InsertCheckin
    PROVE  (\E d \in Date, l \in 1..MaxSaves : Lifecycle!Make(d, l)) \/ UNCHANGED barVars
<1>1. UNCHANGED clock  BY DEF CommitPlan, InsertCheckin, Reads, Goes
<1>2. CASE \A d \in Date : checkin'[d] = checkin[d]
  BY <1>1, <1>2, RestMaps DEF barVars
<1>3. ASSUME NEW d \in Date, checkin'[d] # checkin[d]
      PROVE  \E l \in 1..MaxSaves : Lifecycle!Make(d, l)
  <2>1. PICK l \in 1..MaxSaves, a \in {"missing", "open"} :
           /\ checkin[d] = NoCheckin
           /\ checkin'[d].list = l /\ checkin'[d].item = [i \in Item |-> a]
           /\ checkin'[d].card = NoCheckin.card /\ checkin'[d].reminder = NoCheckin.reminder
           /\ checkin'[d].completed = NoCheckin.completed
           /\ checkin'[d].noticed = NoCheckin.noticed
    <3>1. CASE CommitPlan
      <4>1. /\ call.list \in 1..MaxSaves /\ checkin[d] = NoCheckin
            /\ checkin'[d] = WholeCheckin(call.list)
        BY <1>3, <3>1, CommitPlanRows
      <4>. QED  BY <4>1 DEF WholeCheckin, NoCheckin
    <3>2. CASE InsertCheckin
      <4>1. /\ worker.list \in 1..MaxSaves /\ checkin[d] = NoCheckin
            /\ checkin'[d] = [NoCheckin EXCEPT !.list = worker.list]
        BY <1>3, <3>2, WorkerWrites
      <4>. QED  BY <4>1 DEF NoCheckin
    <3>. QED  BY <3>1, <3>2
  <2>2. ASSUME NEW e \in Date, e # d PROVE checkin'[e] = checkin[e]
    <3>1. CASE CommitPlan
      <4>1. d = call.snapshot  BY <1>3, <3>1, CommitPlanRows
      <4>. QED  BY <2>2, <3>1, <4>1, CommitPlanRows
    <3>2. CASE InsertCheckin
      <4>1. d = worker.date  BY <1>3, <3>2, WorkerWrites
      <4>. QED  BY <2>2, <3>2, <4>1, WorkerWrites
    <3>. QED  BY <3>1, <3>2
  <2>3. clock >= CheckinHour(d)
    <3>1. CASE CommitPlan
      <4>1. d = call.snapshot /\ d # 0  BY <1>3, <3>1, CommitPlanRows, Times
      <4>. QED  BY <3>1, <4>1 DEF CommitPlan, RInv, ApiTells
    <3>2. CASE InsertCheckin
      <4>1. d = worker.date  BY <1>3, <3>2, WorkerWrites
      <4>2. worker.at = "create"  BY <3>2 DEF InsertCheckin, At
      <4>3. worker.now >= CheckinHour(d + 1) /\ worker.now <= clock
        BY <4>1, <4>2 DEF IInv, WorkerKnows
      <4>4. worker.now \in Nat /\ clock \in Nat /\ d \in Nat
        BY Times DEF IInv, TypeOK, WorkerState
      <4>. QED  BY <4>3, <4>4 DEF CheckinHour
    <3>. QED  BY <3>1, <3>2
  <2>4. /\ checkin[d].list = 0 /\ checkin'[d].list = l
        /\ checkin'[d].item = [i \in Item |-> a]
        /\ ClosingOf(checkin'[d]) = ClosingOf(checkin[d])
        /\ checkin'[d].card = checkin[d].card /\ checkin'[d].reminder = checkin[d].reminder
        /\ checkin'[d].noticed = checkin[d].noticed
    BY <2>1 DEF NoCheckin, ClosingOf
  <2>5. /\ listBar' = [listBar EXCEPT ![d] = l]
        /\ answerBar' = [answerBar EXCEPT ![d] = [i \in Item |-> a]]
        /\ UNCHANGED <<clock, askedBar, remindedBar, closingBar, toldBar>>
    BY <1>1, <2>2, <2>4, OneRowMaps, RestMaps
  <2>6. listBar[d] = 0 /\ clock >= openBar[d]  BY <2>3, <2>4 DEF listBar, openBar
  <2>7. Lifecycle!Make(d, l)
    BY <2>1, <2>5, <2>6
    DEF Lifecycle!Make, listBar, answerBar, askedBar, remindedBar, closingBar, toldBar, openBar
  <2>. QED  BY <2>7
<1>. QED  BY <1>2, <1>3

\* An item that follows its row, of which nobody has seen anything.
LEMMA AddMaps ==
    ASSUME IInv, RInv, InsertItem
    PROVE  \E d \in Date, i \in Item : Lifecycle!Add(d, i)
<1>. DEFINE d == worker.date
<1>1. d \in Date /\ checkin[d].list # 0 /\ worker.at = "items" /\ UNCHANGED clock
  BY DEF IInv, WorkerKnows, InsertItem, At, Goes
<1>2. ~Answerable(d)  BY <1>1 DEF Answerable, Writing
<1>3. ~checkin[d].card /\ ~checkin[d].completed  BY <1>1, <1>2 DEF IInv, RowsKnow
<1>4. \A j \in Item : checkin[d].item[j] \in {"missing", "open"}
  <2>1. \A j \in Item : checkin[d].item[j] \notin Owned  BY <1>1, <1>2 DEF RInv, RowsTell
  <2>2. checkin[d] \in Checkin  BY <1>1 DEF IInv, TypeOK
  <2>. QED  BY <2>1, <2>2 DEF Checkin
<1>5. PICK i \in Item : /\ checkin[d].item[i] = "missing"
                        /\ checkin'[d] = [checkin[d] EXCEPT !.item[i] = "open"]
  BY <1>1, WorkerWrites
<1>6. \A e \in Date : e # d => checkin'[e] = checkin[e]  BY <1>1, WorkerWrites
<1>7. checkin[d] \in Checkin  BY <1>1 DEF IInv, TypeOK
<1>8. /\ checkin'[d].item = [checkin[d].item EXCEPT ![i] = "open"]
      /\ checkin'[d].list = checkin[d].list /\ checkin'[d].card = checkin[d].card
      /\ checkin'[d].reminder = checkin[d].reminder /\ checkin'[d].noticed = checkin[d].noticed
      /\ checkin'[d].completed = checkin[d].completed
      /\ checkin'[d].autoFailed = checkin[d].autoFailed
  BY <1>5, <1>7 DEF Checkin
<1>. HIDE DEF d
<1>9. /\ answerBar' = [answerBar EXCEPT ![d] = [checkin[d].item EXCEPT ![i] = "open"]]
      /\ UNCHANGED <<listBar, askedBar, remindedBar, closingBar, toldBar>>
  <2>1. ClosingOf(checkin'[d]) = ClosingOf(checkin[d])  BY <1>8 DEF ClosingOf
  <2>. QED  BY <1>1, <1>6, <1>8, <2>1, OneRowMaps, RestMaps
<1>10. answerBar' = [answerBar EXCEPT ![d][i] = "open"]  BY <1>1, <1>9 DEF answerBar
<1>11. /\ listBar[d] # 0 /\ d \notin askedBar /\ closingBar[d] = "open"
       /\ answerBar[d][i] = "missing" /\ \A j \in Item : answerBar[d][j] \in {"missing", "open"}
  BY <1>1, <1>3, <1>4, <1>5 DEF listBar, askedBar, closingBar, answerBar, ClosingOf
<1>12. Lifecycle!Add(d, i)
  BY <1>1, <1>9, <1>10, <1>11
  DEF Lifecycle!Add, listBar, answerBar, askedBar, remindedBar, closingBar, toldBar
<1>. QED  BY <1>1, <1>12

\* The row at hand, and what the lifecycle sees of a statement that leaves its list, its items
\* and its end alone.
LEMMA MarkMaps ==
    ASSUME IInv, NEW d \in Date, \A e \in Date : e # d => checkin'[e] = checkin[e],
           \/ checkin'[d] = [checkin[d] EXCEPT !.card = TRUE]
           \/ checkin'[d] = [checkin[d] EXCEPT !.reminder = "stored"]
           \/ checkin'[d] = [checkin[d] EXCEPT !.noticed = TRUE]
    PROVE  /\ UNCHANGED <<listBar, answerBar, closingBar>>
           /\ askedBar' = IF checkin'[d].card THEN askedBar \cup {d} ELSE askedBar \ {d}
           /\ remindedBar' = IF checkin'[d].reminder # "none" THEN remindedBar \cup {d}
                             ELSE remindedBar \ {d}
           /\ toldBar' = IF checkin'[d].noticed THEN toldBar \cup {d} ELSE toldBar \ {d}
<1>1. checkin[d] \in Checkin  BY DEF IInv, TypeOK
<1>2. /\ checkin'[d].list = checkin[d].list /\ checkin'[d].item = checkin[d].item
      /\ checkin'[d].completed = checkin[d].completed
      /\ checkin'[d].autoFailed = checkin[d].autoFailed
  BY <1>1 DEF Checkin
<1>3. ClosingOf(checkin'[d]) = ClosingOf(checkin[d])  BY <1>2 DEF ClosingOf
<1>4. UNCHANGED <<listBar, answerBar, closingBar>>  BY <1>2, <1>3, RestMaps
<1>. QED  BY <1>4, OneRowMaps

\* The card's id.
LEMMA AskMaps ==
    ASSUME IInv, RInv, SetCard PROVE \E d \in Date : Lifecycle!Ask(d)
<1>1. /\ worker.date \in Date /\ checkin[worker.date].list # 0 /\ UNCHANGED clock
      /\ worker.now >= CheckinHour(worker.date + 1) /\ worker.now <= clock
      /\ ~checkin[worker.date].card
  BY DEF IInv, WorkerKnows, RInv, TickTells, SetCard, At, Goes
<1>2. PICK d \in Date : d = worker.date  BY <1>1
<1>3. clock >= CheckinHour(d + 1)
  <2>1. worker.now \in Nat /\ clock \in Nat /\ CheckinHour(d + 1) \in Nat
    BY Times DEF IInv, TypeOK, WorkerState
  <2>. QED  BY <1>1, <1>2, <2>1
<1>4. /\ checkin'[d] = [checkin[d] EXCEPT !.card = TRUE]
      /\ \A e \in Date : e # d => checkin'[e] = checkin[e]
  BY <1>2, WorkerWrites
<1>5. /\ checkin'[d].card /\ checkin'[d].reminder = checkin[d].reminder
      /\ checkin'[d].noticed = checkin[d].noticed
  <2>1. checkin[d] \in Checkin  BY DEF IInv, TypeOK
  <2>. QED  BY <1>4, <2>1 DEF Checkin
<1>6. /\ askedBar' = askedBar \cup {d}
      /\ UNCHANGED <<listBar, remindedBar, answerBar, closingBar, toldBar>>
  <2>1. /\ askedBar' = askedBar \cup {d} /\ UNCHANGED <<listBar, answerBar, closingBar>>
        /\ remindedBar' = IF checkin[d].reminder # "none" THEN remindedBar \cup {d}
                          ELSE remindedBar \ {d}
        /\ toldBar' = IF checkin[d].noticed THEN toldBar \cup {d} ELSE toldBar \ {d}
    BY <1>4, <1>5, MarkMaps
  <2>. QED  BY <2>1 DEF remindedBar, toldBar
<1>7. listBar[d] # 0 /\ clock >= morningBar[d] /\ d \notin askedBar
  BY <1>1, <1>2, <1>3 DEF listBar, morningBar, askedBar
<1>8. Lifecycle!Ask(d)
  BY <1>1, <1>6, <1>7
  DEF Lifecycle!Ask, Lifecycle!Answerable, listBar, answerBar, askedBar, remindedBar, closingBar,
      toldBar, morningBar
<1>. QED  BY <1>8

\* The reminder's id.
LEMMA RemindMaps ==
    ASSUME IInv, RInv, SetReminder PROVE \E d \in Date : Lifecycle!Remind(d)
<1>1. /\ worker.date \in Date /\ UNCHANGED clock
      /\ worker.now >= ReminderHour(worker.date) /\ worker.now <= clock
      /\ checkin[worker.date].card /\ checkin[worker.date].reminder = "none"
  BY DEF IInv, WorkerKnows, RInv, TickTells, SetReminder, At, Goes
<1>2. PICK d \in Date : d = worker.date  BY <1>1
<1>3. clock >= ReminderHour(d)
  <2>1. worker.now \in Nat /\ clock \in Nat /\ ReminderHour(d) \in Nat
    BY Times DEF IInv, TypeOK, WorkerState, ReminderHour
  <2>. QED  BY <1>1, <1>2, <2>1
<1>4. /\ checkin'[d] = [checkin[d] EXCEPT !.reminder = "stored"]
      /\ \A e \in Date : e # d => checkin'[e] = checkin[e]
  BY <1>2, WorkerWrites
<1>5. /\ checkin'[d].card = checkin[d].card /\ checkin'[d].reminder # "none"
      /\ checkin'[d].noticed = checkin[d].noticed
  <2>1. checkin[d] \in Checkin  BY DEF IInv, TypeOK
  <2>. QED  BY <1>4, <2>1 DEF Checkin
<1>6. /\ remindedBar' = remindedBar \cup {d}
      /\ UNCHANGED <<listBar, askedBar, answerBar, closingBar, toldBar>>
  <2>1. /\ remindedBar' = remindedBar \cup {d} /\ UNCHANGED <<listBar, answerBar, closingBar>>
        /\ askedBar' = IF checkin[d].card THEN askedBar \cup {d} ELSE askedBar \ {d}
        /\ toldBar' = IF checkin[d].noticed THEN toldBar \cup {d} ELSE toldBar \ {d}
    BY <1>4, <1>5, MarkMaps
  <2>. QED  BY <2>1 DEF askedBar, toldBar
<1>7. d \in askedBar \ remindedBar /\ clock >= eveningBar[d]
  BY <1>1, <1>2, <1>3 DEF askedBar, remindedBar, eveningBar
<1>8. Lifecycle!Remind(d)
  BY <1>1, <1>6, <1>7
  DEF Lifecycle!Remind, listBar, answerBar, askedBar, remindedBar, closingBar, toldBar, eveningBar
<1>. QED  BY <1>8

\* The notice's mark.
LEMMA TellMaps ==
    ASSUME IInv, RInv, CommitNotice PROVE \E d \in Date : Lifecycle!Tell(d)
<1>1. /\ worker.date \in Date /\ UNCHANGED clock
      /\ checkin[worker.date].autoFailed /\ ~checkin[worker.date].noticed
  BY DEF IInv, WorkerKnows, RInv, TickTells, CommitNotice, At, Goes
<1>2. PICK d \in Date : d = worker.date  BY <1>1
<1>3. ClosingOf(checkin[d]) = "deadline"
  BY <1>1, <1>2 DEF RInv, RowsTell, ClosingOf
<1>4. /\ checkin'[d] = [checkin[d] EXCEPT !.noticed = TRUE]
      /\ \A e \in Date : e # d => checkin'[e] = checkin[e]
  BY <1>2, WorkerWrites
<1>5. /\ checkin'[d].card = checkin[d].card /\ checkin'[d].reminder = checkin[d].reminder
      /\ checkin'[d].noticed
  <2>1. checkin[d] \in Checkin  BY DEF IInv, TypeOK
  <2>. QED  BY <1>4, <2>1 DEF Checkin
<1>6. /\ toldBar' = toldBar \cup {d}
      /\ UNCHANGED <<listBar, askedBar, remindedBar, answerBar, closingBar>>
  <2>1. /\ toldBar' = toldBar \cup {d} /\ UNCHANGED <<listBar, answerBar, closingBar>>
        /\ askedBar' = IF checkin[d].card THEN askedBar \cup {d} ELSE askedBar \ {d}
        /\ remindedBar' = IF checkin[d].reminder # "none" THEN remindedBar \cup {d}
                          ELSE remindedBar \ {d}
    BY <1>4, <1>5, MarkMaps
  <2>. QED  BY <2>1 DEF askedBar, remindedBar
<1>7. closingBar[d] = "deadline" /\ d \notin toldBar
  BY <1>1, <1>2, <1>3 DEF closingBar, toldBar
<1>8. Lifecycle!Tell(d)
  BY <1>1, <1>6, <1>7
  DEF Lifecycle!Tell, listBar, answerBar, askedBar, remindedBar, closingBar, toldBar
<1>. QED  BY <1>8

\* The tick's instant is not after the clock's.
LEMMA Later == \A now, time, due \in Nat : now >= due /\ now <= time => time >= due
OBVIOUS

\* The deadline has passed where the worker fails and closes.
LEMMA OverdueWhere ==
    ASSUME IInv, RInv, At("fail items") \/ At("close")
    PROVE  /\ worker.date \in Date /\ checkin[worker.date].card
           /\ clock >= Deadline(worker.date)
<1>1. /\ worker.date \in Date /\ checkin[worker.date].card
      /\ worker.now >= Deadline(worker.date) /\ worker.now <= clock
  BY DEF At, IInv, WorkerKnows, RInv, TickTells
<1>2. PICK d \in Date : d = worker.date  BY <1>1
<1>3. worker.now \in Nat /\ clock \in Nat /\ Deadline(d) \in Nat
  BY Times DEF IInv, TypeOK, WorkerState
<1>4. clock >= Deadline(d)
  <2>1. worker.now >= Deadline(d) /\ worker.now <= clock  BY <1>1, <1>2
  <2>. QED  BY <1>3, <2>1, Later, Zenon
<1>. QED  BY <1>1, <1>2, <1>4

\* The deadline fails what is open, if anything is.
LEMMA FailMaps ==
    ASSUME IInv, RInv, FailItems
    PROVE  (\E d \in Date : Lifecycle!Fail(d)) \/ UNCHANGED barVars
<1>1. At("fail items") /\ UNCHANGED clock  BY DEF FailItems, Goes
<1>2. PICK d \in Date : d = worker.date  BY <1>1, OverdueWhere
<1>3. checkin[d].card /\ clock >= Deadline(d)  BY <1>1, <1>2, OverdueWhere
<1>4. /\ checkin'[d] = Failed(checkin[d]) /\ \A e \in Date : e # d => checkin'[e] = checkin[e]
  BY <1>2, WorkerWrites
<1>5. checkin[d] \in Checkin  BY DEF IInv, TypeOK
<1>6. /\ checkin'[d].item
             = [i \in Item |-> IF checkin[d].item[i] = "open" THEN "failed" ELSE checkin[d].item[i]]
      /\ checkin'[d].list = checkin[d].list /\ checkin'[d].card = checkin[d].card
      /\ checkin'[d].reminder = checkin[d].reminder /\ checkin'[d].noticed = checkin[d].noticed
      /\ checkin'[d].completed = checkin[d].completed
      /\ checkin'[d].autoFailed = checkin[d].autoFailed
  BY <1>4, <1>5 DEF Failed, Checkin
<1>7. ClosingOf(checkin'[d]) = ClosingOf(checkin[d])  BY <1>6 DEF ClosingOf
<1>8. UNCHANGED <<clock, listBar, askedBar, remindedBar, closingBar, toldBar>>
  BY <1>1, <1>4, <1>6, <1>7, RestMaps
<1>9. CASE OpenItems(d) = {}
  <2>1. checkin'[d].item = checkin[d].item
    <3>1. \A i \in Item : checkin[d].item[i] # "open"  BY <1>9 DEF OpenItems
    <3>. QED  BY <1>5, <1>6, <3>1 DEF Checkin
  <2>. QED  BY <1>4, <1>8, <2>1, RestMaps DEF barVars
<1>10. CASE OpenItems(d) # {}
  <2>1. ~checkin[d].completed  BY <1>10 DEF IInv, Closed
  <2>2. d \in askedBar /\ closingBar[d] = "open" /\ clock >= endBar[d]
    BY <1>3, <2>1 DEF askedBar, closingBar, ClosingOf, endBar
  <2>3. answerBar' = [answerBar EXCEPT ![d] =
                        [i \in Item |-> IF @[i] = "open" THEN "failed" ELSE @[i]]]
    <3>1. answerBar' = [answerBar EXCEPT ![d] = checkin'[d].item]  BY <1>4, OneRowMaps
    <3>. QED  BY <1>6, <3>1 DEF answerBar
  <2>4. Lifecycle!Fail(d)
    BY <1>8, <2>2, <2>3
    DEF Lifecycle!Fail, Lifecycle!Overdue, listBar, answerBar, askedBar, remindedBar, closingBar,
        toldBar, endBar
  <2>. QED  BY <2>4
<1>. QED  BY <1>9, <1>10

\* The deadline closes what is not closed.
LEMMA ExpireMaps ==
    ASSUME IInv, RInv, CloseCheckin
    PROVE  (\E d \in Date : Lifecycle!Expire(d)) \/ UNCHANGED barVars
<1>1. At("close") /\ UNCHANGED clock  BY DEF CloseCheckin, Reads, Goes
<1>2. PICK d \in Date : d = worker.date  BY <1>1, OverdueWhere
<1>3. checkin[d].card /\ clock >= Deadline(d) /\ OpenItems(d) = {}
  BY <1>1, <1>2, OverdueWhere DEF At, IInv, WorkerKnows
<1>4. CASE \A e \in Date : checkin'[e] = checkin[e]
  BY <1>1, <1>4, RestMaps DEF barVars
<1>5. CASE \E e \in Date : checkin'[e] # checkin[e]
  <2>1. /\ ~checkin[d].completed
        /\ checkin'[d] = [checkin[d] EXCEPT !.completed = TRUE, !.autoFailed = TRUE]
        /\ \A e \in Date : e # d => checkin'[e] = checkin[e]
    BY <1>2, <1>5, WorkerWrites
  <2>2. checkin[d] \in Checkin  BY DEF IInv, TypeOK
  <2>3. /\ checkin'[d].item = checkin[d].item /\ checkin'[d].list = checkin[d].list
        /\ checkin'[d].card = checkin[d].card /\ checkin'[d].reminder = checkin[d].reminder
        /\ checkin'[d].noticed = checkin[d].noticed
        /\ checkin'[d].completed /\ checkin'[d].autoFailed
    BY <2>1, <2>2 DEF Checkin
  <2>4. ClosingOf(checkin[d]) = "open" /\ ClosingOf(checkin'[d]) = "deadline"
    BY <2>1, <2>3 DEF ClosingOf
  <2>5. /\ closingBar' = [closingBar EXCEPT ![d] = "deadline"]
        /\ UNCHANGED <<clock, listBar, askedBar, remindedBar, answerBar, toldBar>>
    <3>1. closingBar' = [closingBar EXCEPT ![d] = "deadline"]  BY <2>1, <2>4, OneRowMaps
    <3>2. UNCHANGED <<listBar, askedBar, remindedBar, answerBar, toldBar>>
      BY <2>1, <2>3, RestMaps
    <3>. QED  BY <1>1, <3>1, <3>2
  <2>6. /\ d \in askedBar /\ closingBar[d] = "open" /\ clock >= endBar[d]
        /\ \A i \in Item : answerBar[d][i] # "open"
    BY <1>3, <2>4 DEF askedBar, closingBar, endBar, answerBar, OpenItems
  <2>7. Lifecycle!Expire(d)
    BY <2>5, <2>6
    DEF Lifecycle!Expire, Lifecycle!Overdue, Lifecycle!Closes, Lifecycle!AllAnswered, listBar,
        answerBar, askedBar, remindedBar, closingBar, toldBar, endBar
  <2>. QED  BY <2>7
<1>. QED  BY <1>4, <1>5

\* A reminder that is closed was there.
LEMMA RemindersEndMaps ==
    ASSUME IInv, RInv, Unremind \/ ExpireNotices PROVE UNCHANGED barVars
<1>1. UNCHANGED clock  BY DEF Unremind, ExpireNotices, Goes
<1>2. ASSUME NEW d \in Date
      PROVE  \/ checkin'[d] = checkin[d]
             \/ /\ checkin[d].reminder # "none"
                /\ checkin'[d] = [checkin[d] EXCEPT !.reminder = "cleared"]
  <2>1. CASE Unremind
    <3>1. worker.at = "unremind"  BY <2>1 DEF Unremind, At
    <3>2. checkin[worker.date].reminder # "none"  BY <3>1 DEF RInv, TickTells
    <3>. QED  BY <2>1, <3>2, WorkerWrites
  <2>2. CASE ExpireNotices  BY <2>2, WorkerWrites
  <2>. QED  BY <2>1, <2>2
<1>3. ASSUME NEW d \in Date
      PROVE  /\ checkin'[d].item = checkin[d].item /\ checkin'[d].list = checkin[d].list
             /\ checkin'[d].card = checkin[d].card /\ checkin'[d].noticed = checkin[d].noticed
             /\ checkin'[d].reminder = "none" <=> checkin[d].reminder = "none"
             /\ ClosingOf(checkin'[d]) = ClosingOf(checkin[d])
  <2>1. checkin[d] \in Checkin  BY DEF IInv, TypeOK
  <2>. QED  BY <1>2, <2>1 DEF Checkin, ClosingOf
<1>. QED  BY <1>1, <1>3, RestMaps DEF barVars

\* What the API knows of the check-in whose item it has updated.
LEMMA CalledWhere ==
    ASSUME IInv, RInv, InCall({"pressed", "reasoned"})
    PROVE  \E d \in Date, i \in Item :
             /\ call.date = d /\ call.item = i /\ call.answer \in Owned
             /\ listBar[d] # 0 /\ clock >= morningBar[d]
             /\ call.op = "pressed" => \/ answerBar[d][i] = "open"
                                       \/ answerBar[d][i] = "failed" /\ clock >= endBar[d]
             /\ call.op = "reasoned" => /\ answerBar[d][i] = call.answer
                                        /\ answerBar[d][i] \in {"partial", "failed"}
<1>1. call.date \in Date /\ call.item \in Item /\ call.answer \in Owned
  BY NoneAssumption, AnswerAssumption DEF IInv, TypeOK, Call, InCall
<1>2. PICK d \in Date, i \in Item : call.date = d /\ call.item = i  BY <1>1
<1>3. checkin[d].list # 0 /\ clock >= CheckinHour(d + 1)
  BY <1>2 DEF IInv, CallKnows, Answerable, InCall
<1>4. call.op = "pressed" => \/ checkin[d].item[i] = "open"
                             \/ checkin[d].item[i] = "failed" /\ clock >= Deadline(d)
  BY <1>2 DEF IInv, CallKnows, RInv, ApiTells, InCall
<1>5. call.op = "reasoned" => checkin[d].item[i] = call.answer /\ call.answer # "done"
  BY <1>2 DEF IInv, CallKnows, RInv, ApiTells, InCall
<1>6. listBar[d] # 0 /\ clock >= morningBar[d]  BY <1>3 DEF listBar, morningBar
<1>7. answerBar[d][i] = checkin[d].item[i] /\ endBar[d] = Deadline(d)  BY DEF answerBar, endBar
<1>. QED  BY <1>1, <1>2, <1>4, <1>5, <1>6, <1>7 DEF Owned

\* What the lifecycle sees of an answer.
LEMMA AnsweredMaps ==
    ASSUME IInv, CommitReasonPrompt \/ CommitAnswer, NEW d \in Date, NEW i \in Item,
           call.date = d, call.item = i
    PROVE  /\ answerBar' = [answerBar EXCEPT ![d][i] = call.answer]
           /\ UNCHANGED <<clock, listBar, askedBar, remindedBar, toldBar>>
           /\ \A e \in Date : e # d => checkin'[e] = checkin[e]
<1>1. checkin[d] \in Checkin /\ checkin \in [Date -> Checkin]  BY DEF IInv, TypeOK
<1>2. /\ \A e \in Date : e # d => checkin'[e] = checkin[e]
      /\ \/ checkin'[d] = Answered(checkin[d], i, call.answer)
         \/ checkin'[d] = CompletedWhenAnswered(Answered(checkin[d], i, call.answer))
  BY <1>1 DEF CommitReasonPrompt, CommitAnswer
<1>3. checkin'[d].list = checkin[d].list
      /\ checkin'[d].item = [checkin[d].item EXCEPT ![i] = call.answer]
  <2>1. /\ Answered(checkin[d], i, call.answer).list = checkin[d].list
        /\ Answered(checkin[d], i, call.answer).item = [checkin[d].item EXCEPT ![i] = call.answer]
    BY <1>1 DEF Answered, Checkin
  <2>2. call.answer \in Owned
    BY NoneAssumption, AnswerAssumption
    DEF IInv, TypeOK, Call, CommitReasonPrompt, CommitAnswer, InCall
  <2>3. Answered(checkin[d], i, call.answer) \in Checkin  BY <1>1, <2>2, RowTypes
  <2>. QED  BY <1>2, <2>1, <2>3, RowTypes
<1>4. UNCHANGED <<askedBar, remindedBar, toldBar>>  BY ApiKeepsMarks, RestMaps DEF MarksStay
<1>5. UNCHANGED clock  BY DEF CommitReasonPrompt, CommitAnswer
<1>6. UNCHANGED listBar  BY <1>2, <1>3, RestMaps
<1>7. answerBar' = [answerBar EXCEPT ![d] = [checkin[d].item EXCEPT ![i] = call.answer]]
  BY <1>2, <1>3, OneRowMaps
<1>8. answerBar' = [answerBar EXCEPT ![d][i] = call.answer]  BY <1>7 DEF answerBar
<1>. QED  BY <1>2, <1>4, <1>5, <1>6, <1>8

\* An answer whose reason is asked for.
LEMMA NotDoneMaps ==
    ASSUME IInv, RInv, CommitReasonPrompt
    PROVE  \E d \in Date, i \in Item : \/ Lifecycle!NotDone(d, i, "partial")
                                       \/ Lifecycle!NotDone(d, i, "failed")
<1>1. call.op = "pressed" /\ InCall({"pressed", "reasoned"}) /\ call.answer # "done"
  BY DEF CommitReasonPrompt, InCall
<1>2. PICK d \in Date, i \in Item :
         /\ call.date = d /\ call.item = i /\ call.answer \in Owned
         /\ listBar[d] # 0 /\ clock >= morningBar[d]
         /\ \/ answerBar[d][i] = "open"
            \/ answerBar[d][i] = "failed" /\ clock >= endBar[d]
  BY <1>1, CalledWhere
<1>3. /\ answerBar' = [answerBar EXCEPT ![d][i] = call.answer]
      /\ UNCHANGED <<clock, listBar, askedBar, remindedBar, toldBar>>
      /\ \A e \in Date : e # d => checkin'[e] = checkin[e]
  BY <1>2, AnsweredMaps
<1>4. UNCHANGED closingBar
  <2>1. checkin[d] \in Checkin /\ checkin \in [Date -> Checkin]  BY DEF IInv, TypeOK
  <2>2. checkin'[d] = Answered(checkin[d], i, call.answer)
    BY <1>2, <2>1 DEF CommitReasonPrompt
  <2>3. ClosingOf(checkin'[d]) = ClosingOf(checkin[d])
    BY <2>1, <2>2 DEF Answered, Checkin, ClosingOf
  <2>. QED  BY <1>3, <2>3, RestMaps
<1>5. ASSUME NEW a \in {"partial", "failed"}, call.answer = a PROVE Lifecycle!NotDone(d, i, a)
  BY <1>2, <1>3, <1>4, <1>5
  DEF Lifecycle!NotDone, Lifecycle!Answerable, Lifecycle!MayAnswer, listBar, answerBar, askedBar,
      remindedBar, closingBar, toldBar, morningBar, endBar
<1>6. call.answer = "partial" \/ call.answer = "failed"  BY <1>1, <1>2 DEF Owned
<1>7. Lifecycle!NotDone(d, i, "partial") \/ Lifecycle!NotDone(d, i, "failed")
  BY <1>5, <1>6
<1>. QED  BY <1>7, Zenon

\* The last answer closes what was not closed; an earlier one, or one more, closes nothing.
LEMMA AnswerCloses ==
    ASSUME IInv, RInv, CommitAnswer, NEW d \in Date, NEW i \in Item,
           call.date = d, call.item = i
    PROVE  closingBar' = [closingBar EXCEPT ![d] =
                            IF @ = "open" /\ (\A j \in Item : answerBar'[d][j] # "open")
                            THEN "owner" ELSE @]
<1>1. checkin[d] \in Checkin /\ checkin \in [Date -> Checkin] /\ call.answer \in Owned
  BY NoneAssumption, AnswerAssumption DEF IInv, TypeOK, Call, CommitAnswer, InCall
<1>. DEFINE c == Answered(checkin[d], i, call.answer)
<1>2. checkin'[d] = CompletedWhenAnswered(c)  BY <1>1 DEF CommitAnswer
<1>3. c \in Checkin /\ c.completed = checkin[d].completed /\ c.autoFailed = checkin[d].autoFailed
  BY <1>1 DEF Answered, Checkin, Owned
<1>. HIDE DEF c
<1>4. checkin'[d].item = c.item /\ checkin'[d].autoFailed = c.autoFailed
  BY <1>2, <1>3, RowTypes
<1>5. checkin'[d].completed = IF \A j \in Item : checkin'[d].item[j] # "open" THEN TRUE ELSE c.completed
  BY <1>2, <1>3, <1>4 DEF CompletedWhenAnswered, Checkin
<1>6. answerBar'[d] = checkin'[d].item  BY DEF answerBar
<1>7. checkin[d].autoFailed => checkin[d].completed  BY DEF RInv, RowsTell
<1>8. ClosingOf(checkin'[d]) = IF ClosingOf(checkin[d]) = "open"
                                  /\ (\A j \in Item : answerBar'[d][j] # "open")
                               THEN "owner" ELSE ClosingOf(checkin[d])
  BY <1>3, <1>4, <1>5, <1>6, <1>7 DEF ClosingOf
<1>9. closingBar' = [closingBar EXCEPT ![d] = ClosingOf(checkin'[d])]
  BY <1>1, AnsweredMaps, OneRowMaps
<1>10. closingBar[d] = ClosingOf(checkin[d])  BY DEF closingBar
<1>. QED  BY <1>8, <1>9, <1>10 DEF closingBar

\* "done", or the reason of the answer before.
LEMMA AnswerMaps ==
    ASSUME IInv, RInv, CommitAnswer
    PROVE  \/ \E d \in Date, i \in Item : Lifecycle!Done(d, i)
           \/ \E d \in Date : Lifecycle!Explain(d)
           \/ UNCHANGED barVars
<1>1. \/ call.op = "pressed" /\ call.answer = "done"
      \/ call.op = "reasoned"
  BY DEF CommitAnswer, InCall
<1>2. InCall({"pressed", "reasoned"})  BY DEF CommitAnswer, InCall
<1>3. PICK d \in Date, i \in Item :
         /\ call.date = d /\ call.item = i
         /\ listBar[d] # 0 /\ clock >= morningBar[d]
         /\ call.op = "pressed" => \/ answerBar[d][i] = "open"
                                   \/ answerBar[d][i] = "failed" /\ clock >= endBar[d]
         /\ call.op = "reasoned" => /\ answerBar[d][i] = call.answer
                                    /\ answerBar[d][i] \in {"partial", "failed"}
  BY <1>2, CalledWhere
<1>4. /\ answerBar' = [answerBar EXCEPT ![d][i] = call.answer]
      /\ UNCHANGED <<clock, listBar, askedBar, remindedBar, toldBar>>
  BY <1>3, AnsweredMaps
<1>5. closingBar' = [closingBar EXCEPT ![d] =
                       IF @ = "open" /\ (\A j \in Item : answerBar'[d][j] # "open")
                       THEN "owner" ELSE @]
  BY <1>3, AnswerCloses
<1>6. CASE call.op = "pressed" /\ call.answer = "done"
  <2>1. Lifecycle!Done(d, i)
    BY <1>3, <1>4, <1>5, <1>6
    DEF Lifecycle!Done, Lifecycle!Answerable, Lifecycle!MayAnswer, Lifecycle!AllAnswered, listBar,
        answerBar, askedBar, remindedBar, closingBar, toldBar, morningBar, endBar
  <2>. QED  BY <2>1, Zenon
<1>7. CASE call.op = "reasoned"
  <2>1. checkin[d] \in Checkin  BY DEF IInv, TypeOK
  <2>2. UNCHANGED answerBar
    <3>1. answerBar \in [Date -> [Item -> {"missing", "open"} \cup Owned]]
      BY DEF IInv, TypeOK, Checkin, answerBar
    <3>. QED  BY <1>3, <1>4, <1>7, <3>1
  <2>3. closingBar = [e \in Date |-> closingBar[e]]  BY DEF closingBar
  <2>4. CASE closingBar[d] = "open" /\ \A j \in Item : answerBar[d][j] # "open"
    <3>1. closingBar' = [closingBar EXCEPT ![d] = "owner"]  BY <1>5, <2>2, <2>4
    <3>2. \E j \in Item : answerBar[d][j] \in {"partial", "failed"}  BY <1>3, <1>7
    <3>3. Lifecycle!Explain(d)
      BY <1>3, <1>4, <2>2, <2>4, <3>1, <3>2
      DEF Lifecycle!Explain, Lifecycle!Closes, Lifecycle!Answerable, Lifecycle!AllAnswered, listBar,
          answerBar, askedBar, remindedBar, closingBar, toldBar, morningBar
    <3>. QED  BY <3>3, Zenon
  <2>5. CASE ~(closingBar[d] = "open" /\ \A j \in Item : answerBar[d][j] # "open")
    <3>1. UNCHANGED closingBar  BY <1>5, <2>2, <2>3, <2>5
    <3>. QED  BY <1>4, <2>2, <3>1 DEF barVars
  <2>. QED  BY <2>4, <2>5
<1>. QED  BY <1>1, <1>6, <1>7

\* Time.
LEMMA AdvanceMaps == ASSUME Advance PROVE Lifecycle!Advance
<1>1. clock < MaxClock /\ clock' = clock + 1 /\ checkin' = checkin  BY DEF Advance
<1>2. UNCHANGED <<listBar, askedBar, remindedBar, answerBar, closingBar, toldBar>>
  BY <1>1, RestMaps
<1>. QED
  BY <1>1, <1>2
  DEF Lifecycle!Advance, listBar, askedBar, remindedBar, answerBar, closingBar, toldBar

\* Every step is one of the lifecycle, or none.
LEMMA StepMaps == IInv /\ RInv /\ [Next]_vars => [Lifecycle!Next]_barVars
<1>. SUFFICES ASSUME IInv, RInv, [Next]_vars PROVE Lifecycle!Next \/ UNCHANGED barVars
  OBVIOUS
<1>1. CASE Advance
  BY <1>1, AdvanceMaps DEF Lifecycle!Next
<1>2. CASE checkin' = checkin /\ clock' = clock
  BY <1>2, RestMaps DEF barVars
<1>3. CASE CommitPlan \/ InsertCheckin
  BY <1>3, MakeMaps DEF Lifecycle!Next
<1>4. CASE InsertItem
  BY <1>4, AddMaps DEF Lifecycle!Next
<1>5. CASE SetCard
  BY <1>5, AskMaps DEF Lifecycle!Next
<1>6. CASE SetReminder
  BY <1>6, RemindMaps DEF Lifecycle!Next
<1>7. CASE CommitNotice
  BY <1>7, TellMaps DEF Lifecycle!Next
<1>8. CASE FailItems
  BY <1>8, FailMaps DEF Lifecycle!Next
<1>9. CASE CloseCheckin
  BY <1>9, ExpireMaps DEF Lifecycle!Next
<1>10. CASE CommitReasonPrompt
  BY <1>10, NotDoneMaps DEF Lifecycle!Next
<1>11. CASE CommitAnswer
  BY <1>11, AnswerMaps DEF Lifecycle!Next
<1>12. CASE Unremind \/ ExpireNotices
  BY <1>12, RemindersEndMaps
<1>13. CASE UserActs \/ SetItemStatus \/ ApiAborts \/ UNCHANGED vars
  <2>1. checkin' = checkin /\ clock' = clock
    BY <1>13
    DEF UserActs, Configure, PlanRejected, PlanArrives, ReasonArrives, ItemPressed, Begin,
        SetItemStatus, ApiAborts, vars
  <2>. QED  BY <1>2, <2>1
<1>14. CASE \/ TickBegins \/ ListPlans \/ SkipCard \/ SendCard \/ ListCheckins
            \/ (\E d \in Date : Transit(d) \/ ClaimNotice(d)) \/ TransitsDone \/ ClearReason
            \/ NoticesDone \/ SendNotice \/ CleanupStale \/ Breaks
  <2>1. checkin' = checkin /\ clock' = clock
    BY <1>14
    DEF TickBegins, ListPlans, SkipCard, SendCard, ListCheckins, Transit, ClaimNotice,
        TransitsDone, ClearReason, NoticesDone, SendNotice, CleanupStale, Breaks, TelegramFails,
        CardFails, ReminderFails, NoticeFails, Defers, CardUndone, WorkerStops, Reads, Goes
  <2>. QED  BY <1>2, <2>1
<1>. QED
  BY <1>1, <1>3, <1>4, <1>5, <1>6, <1>7, <1>8, <1>9, <1>10, <1>11, <1>12, <1>13, <1>14
  DEF Next, ApiEnds, TickSteps

\* The rows live as CheckinLifecycle says: ImplementsCheckin.
THEOREM RefinesCheckin == Spec => ImplementsCheckin
<1>1. Spec => [][Lifecycle!Next]_barVars  BY RInductive, StepMaps, PTL DEF Spec
<1>2. Spec => Lifecycle!Init  BY InitMaps DEF Spec
<1>3. ImplementsCheckin <=> Lifecycle!Init /\ [][Lifecycle!Next]_barVars
  BY DEF ImplementsCheckin, Lifecycle!Spec, Lifecycle!vars, barVars, listBar, askedBar,
         remindedBar, answerBar, closingBar, toldBar
<1>. QED  BY <1>1, <1>2, <1>3
=============================================================================
