-------------------------- MODULE DailyTasksProofs --------------------------
(***************************************************************************)
(* Theorems about DailyTasks for every set of participants, every number   *)
(* of days, every set of outcomes and every zone: West is any set of days. *)
(* The deadlines that the claims are about are the promised ones; of the   *)
(* days in West WestClosesOnItsDay says what the code does with them.      *)
(***************************************************************************)
EXTENDS DailyTasks, TLAPS

\* An expected task text, or a handler about to store or to use one, excludes an
\* open task: what today:add read stays true until the text is consumed.
PendingExcludesOpenTask ==
    /\ \A p \in Participant :
          pending[p] # None /\ pending[p].kind = "daily_task_text" => ~HasOpenTask(p)
    /\ InCall({"prompt", "text"}) => ~HasOpenTask(call.who)

\* What the row of an entry says about its history.
RowHistory ==
    \A k \in Key :
        /\ entry[k].status \in Open \cup {Absent} =>
              /\ entry[k].report = Absent /\ ~entry[k].autoFailed
              /\ closed[k] = 0 /\ autoFail[k] = 0
        /\ entry[k].status \in Final /\ ~entry[k].autoFailed =>
              entry[k].report = entry[k].status /\ closed[k] = 1
        /\ entry[k].autoFailed =>
              /\ entry[k].status = "failed" /\ clock >= NoonAfter(k[2])
              /\ autoFail[k] = 1 /\ alert[k]["overdue_task_failed"] # Absent
              /\ entry[k].kind = "summary" => entry[k].report = Absent
        /\ closed[k] <= 1 /\ autoFail[k] <= 1

\* What the report handler in progress knows of its entry.
CallKnows ==
    call # None =>
        LET k == <<call.who, call.day>> IN
        /\ call.op = "submit" =>
              closed[k] = 0 /\ (IsOpen(k) \/ (entry[k].autoFailed /\ entry[k].report = Absent))
        /\ call.op = "written" => IsOpen(k) /\ k \notin locked
        /\ call.op = "missed" => closed[k] = 0 /\ entry[k].autoFailed
        /\ call.op = "late" =>
              entry[k].kind = "task" /\ entry[k].autoFailed /\ entry[k].report = Absent

\* What the transition transaction in progress knows of the entries it listed.
TickKnows ==
    /\ locked \cap todo = {}
    /\ ~ticking => todo = {} /\ locked = {} /\ \A k \in Key : plan[k] = Absent
    /\ \A k \in todo : plan[k] # Absent
    /\ \A k \in Key : plan[k] = "failed" => autoFail[k] = 0 /\ clock >= NoonAfter(k[2])
    /\ \A k \in Key : plan[k] = "awaiting_report" => clock >= NextMidnight(k[2])
    /\ \A k \in Key : plan[k] # Absent => entry[k].status # Absent /\ ~entry[k].autoFailed
    /\ \A k \in Key : plan[k] = "failed" /\ k \notin todo => k \in locked \/ ~IsOpen(k)
    /\ \A k \in locked : plan[k] # Absent /\ Transitionable(k)

IInv == TypeOK /\ OneOpenTask /\ PendingExcludesOpenTask /\ RowHistory /\ CallKnows /\ TickKnows

-----------------------------------------------------------------------------
LEMMA InitInv == Init => IInv
<1> SUFFICES ASSUME Init PROVE IInv
  OBVIOUS
<1>1. 0 \in Instant /\ NoEntry \in Entry
  BY DayAssumption DEF Instant, MaxClock, NoEntry, Entry
<1>2. TypeOK
  BY <1>1 DEF Init, TypeOK
<1>3. QED
  BY <1>2 DEF Init, IInv, OneOpenTask, PendingExcludesOpenTask, RowHistory, CallKnows,
              TickKnows, IsOpen, Open, Final, Absent, NoEntry, InCall, Key

\* The operation in progress has the fields of its kind.
LEMMA CallType ==
    ASSUME TypeOK, NEW ops, InCall(ops),
           ops \subseteq {"status", "submit", "written", "missed", "late", "rejected"}
    PROVE  /\ call.who \in Participant /\ call.day \in Day /\ call.outcome \in Final
           /\ <<call.who, call.day>> \in Key /\ call \in Call
  BY NoneAssumption DEF TypeOK, InCall, Call, Key

\* The row of an entry, and the row after a report or a late report is written to it.
LEMMA RowType == ASSUME TypeOK, NEW k \in Key PROVE entry[k] \in Entry
  BY DEF TypeOK

LEMMA RowWithReport ==
    ASSUME NEW e \in Entry, NEW o \in Final
    PROVE  LET row  == [e EXCEPT !.status = o, !.report = o]
               late == [e EXCEPT !.report = o]
           IN  /\ row \in Entry /\ row.kind = e.kind /\ row.autoFailed = e.autoFailed
               /\ row.status = o /\ row.report = o
               /\ late \in Entry /\ late.kind = e.kind /\ late.autoFailed = e.autoFailed
               /\ late.status = e.status
  BY DEF Entry

\* Closing an entry with a row of the right type keeps every type.
LEMMA CommitWithType ==
    ASSUME TypeOK, NEW k \in Key, NEW row \in Entry, NEW n \in {0, 1},
           CommitWith(k, row, n)
    PROVE  TypeOK'
<1>1. entry' \in [Key -> Entry] /\ closed' \in [Key -> Nat]
  BY DEF CommitWith, TypeOK
<1>2. alert' \in [Key -> [AlertKind -> {Absent, "raised", "acked"}]]
  BY DEF CommitWith, AckAll, TypeOK
<1>3. pending' \in [Participant -> Prompt \cup {None}]
  BY DEF CommitWith, TypeOK
<1>4. QED
  BY <1>1, <1>2, <1>3 DEF CommitWith, TypeOK, tick

\* The type invariant is inductive by itself.
LEMMA TypeStep == TypeOK /\ [Next]_vars => TypeOK'
<1> SUFFICES ASSUME TypeOK, [Next]_vars PROVE TypeOK'
  OBVIOUS
<1> USE DEF table, tick
<1>1. CASE Advance
  BY <1>1, DayAssumption DEF Advance, TypeOK, Instant, MaxClock
<1>2. ASSUME NEW p \in Participant, AddPressed(p) PROVE TypeOK'
  BY <1>2 DEF AddPressed, Begin, TypeOK, Call
<1>3. ASSUME NEW p \in Participant, TextArrives(p) PROVE TypeOK'
  BY <1>3 DEF TextArrives, Begin, TypeOK, Call
<1>4. ASSUME NEW p \in Participant, ReportArrives(p) PROVE TypeOK'
  BY <1>4 DEF ReportArrives, ReportBranch, ReportKind, Begin, TypeOK, Call, Prompt
<1>5. ASSUME NEW k \in Key, NEW outcome \in Outcome, StatusPressed(k, outcome) PROVE TypeOK'
  BY <1>5, OutcomeAssumption DEF StatusPressed, Begin, TypeOK, Call, Key
<1>6. ASSUME NEW k \in Key, ReportPressedTooLate(k) PROVE TypeOK'
  BY <1>6 DEF ReportPressedTooLate, AckAll, TypeOK
<1>7. ASSUME NEW k \in Key, NEW a \in AlertKind, AlertAcknowledged(k, a) PROVE TypeOK'
  BY <1>7 DEF AlertAcknowledged, TypeOK
<1>8. CASE SubmitUpdate
  BY <1>8 DEF SubmitUpdate, InCall, TypeOK, Call
<1>9. CASE CommitPrompt
  BY <1>9 DEF CommitPrompt, InCall, TypeOK, Prompt, Call
<1>10. CASE CommitSummary
  BY <1>10 DEF CommitSummary, CreateEntry, InCall, TypeOK, Call, Entry, NoEntry, Open, Key
<1>11. CASE CommitText
  BY <1>11 DEF CommitText, CreateEntry, InCall, TypeOK, Call, Entry, NoEntry, Open, Key
<1>12. CASE CommitStatus
  BY <1>12 DEF CommitStatus, ReportKindOf, ReportKind, InCall, TypeOK, Call, Prompt
<1>13. CASE CommitReport
  <2> DEFINE k == <<call.who, call.day>>
  <2>1. k \in Key /\ call.outcome \in Final
    BY <1>13, CallType DEF CommitReport
  <2>2. entry[k] \in Entry /\ Reported(k) \in Entry
    BY <2>1, RowType, RowWithReport DEF Reported
  <2>3. CommitWith(k, IF call.op = "written" THEN Reported(k) ELSE entry[k], 1)
    BY <1>13 DEF CommitReport
  <2>4. QED
    BY <2>1, <2>2, <2>3, CommitWithType
<1>14. CASE CommitLateReport
  <2> DEFINE k == <<call.who, call.day>>
  <2>1. k \in Key /\ call.outcome \in Final
    BY <1>14, CallType DEF CommitLateReport
  <2>2. [entry[k] EXCEPT !.report = call.outcome] \in Entry
    BY <2>1, RowType, RowWithReport
  <2>3. CommitWith(k, [entry[k] EXCEPT !.report = call.outcome], 0)
    BY <1>14 DEF CommitLateReport
  <2>4. QED
    BY <2>1, <2>2, <2>3, CommitWithType
<1>15. CASE CommitRejected
  BY <1>15 DEF CommitRejected, InCall, TypeOK, Call
<1>16. CASE ApiAborts
  BY <1>16 DEF ApiAborts, TypeOK
<1>17. CASE TickBegins
  BY <1>17 DEF TickBegins, Decision, NextDailyTaskTransition, TypeOK
<1>18. ASSUME NEW k \in Key, TickUpdates(k) PROVE TypeOK'
  BY <1>18 DEF TickUpdates, TypeOK
<1>19. CASE TickCommits
  <2>1. \A k \in Key : plan[k] \in Open \cup Final \cup {Absent}
    BY DEF TypeOK, Open, Final
  <2>2. ASSUME NEW k \in Key PROVE Moved(k) \in Entry
    <3>1. entry[k] \in Entry
      BY DEF TypeOK
    <3>2. CASE plan[k] = "failed"
      <4>1. Moved(k) = [entry[k] EXCEPT !.status = plan[k], !.autoFailed = TRUE]
        BY <3>2 DEF Moved
      <4>2. QED
        BY <2>1, <3>1, <4>1 DEF Entry
    <3>3. CASE plan[k] # "failed"
      <4>1. Moved(k) = [entry[k] EXCEPT !.status = plan[k], !.autoFailed = FALSE]
        BY <3>3 DEF Moved
      <4>2. QED
        BY <2>1, <3>1, <4>1 DEF Entry
    <3>4. QED
      BY <3>2, <3>3
  <2>3. entry' \in [Key -> Entry]
    BY <1>19, <2>2 DEF TickCommits, TypeOK
  <2>4. alert' \in [Key -> [AlertKind -> {Absent, "raised", "acked"}]]
    BY <1>19 DEF TickCommits, RaisedAlert, TypeOK
  <2>5. autoFail' \in [Key -> Nat]
    BY <1>19 DEF TickCommits, TypeOK
  <2>6. plan' \in [Key -> {Absent, "awaiting_report", "failed"}]
    BY <1>19 DEF TickCommits, TickIdle
  <2>7. QED
    BY <1>19, <2>3, <2>4, <2>5, <2>6 DEF TickCommits, TickIdle, TypeOK
<1>20. CASE TickAborts
  BY <1>20 DEF TickAborts, TickIdle, TypeOK
<1>21. ASSUME NEW p \in Participant, CleanupStale(p) PROVE TypeOK'
  BY <1>21 DEF CleanupStale, TypeOK
<1>22. CASE UNCHANGED vars
  BY <1>22 DEF vars, TypeOK
<1>23. QED
  BY <1>1, <1>2, <1>3, <1>4, <1>5, <1>6, <1>7, <1>8, <1>9, <1>10, <1>11, <1>12, <1>13,
     <1>14, <1>15, <1>16, <1>17, <1>18, <1>19, <1>20, <1>21, <1>22
     DEF Next, UserActs, ApiCommits, WorkerActs

\* Every variable keeps its type, whatever the interleaving.
THEOREM TypeCorrect == Spec => []TypeOK
<1>1. Init => TypeOK
  BY InitInv DEF IInv
<1>2. QED
  BY <1>1, TypeStep, PTL DEF Spec

-----------------------------------------------------------------------------
(* Preservation of IInv.  Most actions leave the tables and the tick alone, *)
(* so their invariants are framed once.                                     *)

LEMMA KeyParts ==
    /\ \A k \in Key : k[1] \in Participant /\ k[2] \in Day /\ k = <<k[1], k[2]>>
    /\ \A p \in Participant, d \in Day : <<p, d>> \in Key
  BY DEF Key

\* The code's deadlines keep what is promised of the day.
LEMMA PromisesKept ==
    ASSUME NEW d \in Day
    PROVE  NextMidnight(d) = PromisedMidnight(d) /\ NoonAfter(d) = PromisedNoon(d)
  BY DEF NextMidnight, NoonAfter, DateInZone, PromisedMidnight, PromisedNoon, DayEnd

\* Time only runs forward, and a deadline that has passed stays passed.
LEMMA DeadlinesPass ==
    ASSUME TypeOK, NEW d \in Day, clock' \in Instant, clock' >= clock
    PROVE  /\ clock >= NoonAfter(d) => clock' >= NoonAfter(d)
           /\ clock >= NextMidnight(d) => clock' >= NextMidnight(d)
<1>1. NextMidnight(d) \in Int /\ NoonAfter(d) \in Int
  BY DayAssumption DEF Day, DateInZone, NoonAfter, NextMidnight
<1>2. clock \in Int /\ clock' \in Int
  BY DayAssumption DEF TypeOK, Instant, MaxClock
<1>3. QED
  BY <1>1, <1>2

LEMMA FrameTables ==
    ASSUME IInv, UNCHANGED table, UNCHANGED tick, clock' \in Instant, clock' >= clock
    PROVE  OneOpenTask' /\ RowHistory' /\ TickKnows'
<1>1. \A k \in Key : /\ clock >= NoonAfter(k[2]) => clock' >= NoonAfter(k[2])
                     /\ clock >= NextMidnight(k[2]) => clock' >= NextMidnight(k[2])
  BY DeadlinesPass, KeyParts DEF IInv
<1>2. OneOpenTask'
  BY DEF IInv, OneOpenTask, IsOpen, table
<1>3. RowHistory'
  BY <1>1 DEF IInv, RowHistory, table
<1>4. TickKnows'
  BY <1>1 DEF IInv, TickKnows, Transitionable, IsOpen, table, tick
<1>5. QED
  BY <1>2, <1>3, <1>4

LEMMA ClockStays == TypeOK /\ UNCHANGED clock => clock' \in Instant /\ clock' >= clock
  BY DayAssumption DEF TypeOK, Instant, MaxClock

\* What is known of the expected input and of the call depends on neither the
\* clock nor the alerts.
LEMMA FrameCall ==
    ASSUME IInv, UNCHANGED <<entry, closed, pending, call, locked>>
    PROVE  PendingExcludesOpenTask' /\ CallKnows'
  BY DEF IInv, PendingExcludesOpenTask, CallKnows, HasOpenTask, InCall, IsOpen

LEMMA AdvanceInv == IInv /\ Advance => IInv'
<1> SUFFICES ASSUME IInv, Advance PROVE IInv'
  OBVIOUS
<1>1. TypeOK'
  BY TypeStep DEF IInv, Next
<1>2. clock' \in Instant /\ clock' >= clock
  BY DayAssumption DEF IInv, TypeOK, Advance, Instant, MaxClock
<1>3. OneOpenTask' /\ RowHistory' /\ TickKnows'
  BY <1>2, FrameTables DEF Advance
<1>4. PendingExcludesOpenTask' /\ CallKnows'
  BY FrameCall DEF Advance, table, tick
<1>5. QED
  BY <1>1, <1>3, <1>4 DEF IInv

\* A handler starts: it knows what its first reads said.
LEMMA BeginInv ==
    ASSUME IInv, NEW c \in Call, Begin(c),
           c.op \in {"prompt", "text"} => ~HasOpenTask(c.who),
           c.op = "submit" => IsOpen(<<c.who, c.day>>),
           c.op = "late" =>
              LET k == <<c.who, c.day>> IN
              entry[k].kind = "task" /\ entry[k].autoFailed /\ entry[k].report = Absent,
           c.op \notin {"written", "missed"}
    PROVE  OneOpenTask' /\ RowHistory' /\ TickKnows' /\ PendingExcludesOpenTask' /\ CallKnows'
<1>1. OneOpenTask' /\ RowHistory' /\ TickKnows'
  BY ClockStays, FrameTables DEF Begin, IInv
<1>2. call' = c /\ UNCHANGED <<table, pending, tick>>
  BY DEF Begin
<1>3. PendingExcludesOpenTask'
  BY <1>2 DEF IInv, PendingExcludesOpenTask, HasOpenTask, InCall, IsOpen, table
<1>4. <<c.who, c.day>> \in Key
  BY DEF Call, Key
<1>5. c.op = "submit" => closed[<<c.who, c.day>>] = 0
  BY <1>4 DEF IInv, RowHistory, IsOpen
<1>6. CallKnows'
  BY <1>2, <1>4, <1>5 DEF CallKnows, IsOpen, table
<1>7. QED
  BY <1>1, <1>3, <1>6

LEMMA AddPressedInv == ASSUME IInv, NEW p \in Participant, AddPressed(p) PROVE IInv'
<1> DEFINE c == [op |-> IF IsDailySummaryTime(clock) THEN "summary" ELSE "prompt",
                 who |-> p, day |-> LocalTaskDate(clock)]
<1>1. TypeOK'
  BY TypeStep DEF IInv, Next, UserActs
<1>2. Begin(c) /\ c \in Call /\ c.op \in {"summary", "prompt"} /\ c.who = p
  BY DEF AddPressed, Call
<1>3. ~HasOpenTask(p)
  BY DEF AddPressed, MayAdd
<1>4. QED
  BY <1>1, <1>2, <1>3, BeginInv DEF IInv

LEMMA TextArrivesInv == ASSUME IInv, NEW p \in Participant, TextArrives(p) PROVE IInv'
<1> DEFINE c == [op |-> "text", who |-> p, day |-> LocalTaskDate(clock)]
<1>1. TypeOK'
  BY TypeStep DEF IInv, Next, UserActs
<1>2. Begin(c) /\ c \in Call /\ c.op = "text" /\ c.who = p
  BY DEF TextArrives, Call
<1>3. ~HasOpenTask(p)
  BY DEF TextArrives, IInv, PendingExcludesOpenTask
<1>4. QED
  BY <1>1, <1>2, <1>3, BeginInv DEF IInv

LEMMA ReportArrivesInv == ASSUME IInv, NEW p \in Participant, ReportArrives(p) PROVE IInv'
<1> DEFINE k == <<p, pending[p].day>>
           c == [op |-> ReportBranch(k), who |-> p,
                 day |-> pending[p].day, outcome |-> pending[p].outcome]
<1>1. TypeOK'
  BY TypeStep DEF IInv, Next, UserActs
<1>2. c.op \in {"rejected", "submit", "late"} /\ c.who = p /\ c.day = pending[p].day
  BY DEF ReportBranch
<1>3. pending[p].day \in Day /\ pending[p].outcome \in Final
  BY DEF ReportArrives, IInv, TypeOK, Prompt, ReportKind
<1>4. Begin(c) /\ c \in Call
  BY <1>2, <1>3 DEF ReportArrives, Call
<1>5. c.op = "submit" => IsOpen(k)
  BY DEF ReportBranch
<1>6. c.op = "late" => entry[k].kind = "task" /\ entry[k].autoFailed /\ entry[k].report = Absent
  BY DEF ReportBranch, AcceptsReport
<1>7. QED
  BY <1>1, <1>2, <1>4, <1>5, <1>6, BeginInv DEF IInv

LEMMA StatusPressedInv ==
    ASSUME IInv, NEW k \in Key, NEW outcome \in Outcome, StatusPressed(k, outcome) PROVE IInv'
<1> DEFINE c == [op |-> "status", who |-> k[1], day |-> k[2], outcome |-> outcome]
<1>1. TypeOK'
  BY TypeStep DEF IInv, Next, UserActs
<1>2. Begin(c) /\ c \in Call /\ c.op = "status"
  BY OutcomeAssumption, KeyParts DEF StatusPressed, Call
<1>3. QED
  BY <1>1, <1>2, BeginInv DEF IInv

\* An alert row only moves away from absent.
LEMMA AlertStepInv ==
    ASSUME IInv, TypeOK', UNCHANGED <<clock, entry, closed, autoFail, pending, call, tick>>,
           \A k \in Key : alert[k]["overdue_task_failed"] # Absent
                             => alert'[k]["overdue_task_failed"] # Absent
    PROVE  IInv'
<1>1. OneOpenTask'
  BY DEF IInv, OneOpenTask, IsOpen
<1>2. RowHistory'
  BY DEF IInv, RowHistory
<1>3. TickKnows'
  BY DEF IInv, TickKnows, Transitionable, IsOpen, tick
<1>4. PendingExcludesOpenTask' /\ CallKnows'
  BY FrameCall DEF tick
<1>5. QED
  BY <1>1, <1>2, <1>3, <1>4 DEF IInv

LEMMA ReportPressedTooLateInv ==
    ASSUME IInv, NEW k \in Key, ReportPressedTooLate(k) PROVE IInv'
<1>1. TypeOK'
  BY TypeStep DEF IInv, Next, UserActs
<1>2. \A l \in Key : alert[l]["overdue_task_failed"] # Absent
                        => alert'[l]["overdue_task_failed"] # Absent
  BY DEF ReportPressedTooLate, AckAll, IInv, TypeOK, AlertKind, Absent
<1>3. QED
  BY <1>1, <1>2, AlertStepInv DEF ReportPressedTooLate

LEMMA AlertAcknowledgedInv ==
    ASSUME IInv, NEW k \in Key, NEW a \in AlertKind, AlertAcknowledged(k, a) PROVE IInv'
<1>1. TypeOK'
  BY TypeStep DEF IInv, Next, UserActs
<1>2. \A l \in Key : alert[l]["overdue_task_failed"] # Absent
                        => alert'[l]["overdue_task_failed"] # Absent
  BY DEF AlertAcknowledged, IInv, TypeOK, AlertKind, Absent
<1>3. QED
  BY <1>1, <1>2, AlertStepInv DEF AlertAcknowledged

\* A rollback, and every commit that touches the inputs only, ends the call.
LEMMA EndCallInv ==
    ASSUME IInv, TypeOK', call' = None, UNCHANGED <<clock, table, tick>>,
           \A p \in Participant : pending'[p] # None /\ pending'[p].kind = "daily_task_text"
                                     => ~HasOpenTask(p)
    PROVE  IInv'
<1>1. OneOpenTask' /\ RowHistory' /\ TickKnows'
  BY ClockStays, FrameTables DEF IInv
<1>2. PendingExcludesOpenTask' /\ CallKnows'
  BY DEF PendingExcludesOpenTask, CallKnows, HasOpenTask, InCall, IsOpen, table
<1>3. QED
  BY <1>1, <1>2 DEF IInv

LEMMA CommitPromptInv == ASSUME IInv, CommitPrompt PROVE IInv'
<1>1. TypeOK'
  BY TypeStep DEF IInv, Next, ApiCommits
<1>2. \A p \in Participant : pending'[p] # None /\ pending'[p].kind = "daily_task_text"
                                => ~HasOpenTask(p)
  BY DEF CommitPrompt, IInv, PendingExcludesOpenTask, TypeOK, InCall
<1>3. QED
  BY <1>1, <1>2, EndCallInv DEF CommitPrompt

LEMMA CommitStatusInv == ASSUME IInv, CommitStatus PROVE IInv'
<1>1. TypeOK'
  BY TypeStep DEF IInv, Next, ApiCommits
<1>2. \A p \in Participant : pending'[p] # None /\ pending'[p].kind = "daily_task_text"
                                => ~HasOpenTask(p)
  BY DEF CommitStatus, ReportKindOf, IInv, PendingExcludesOpenTask, TypeOK
<1>3. QED
  BY <1>1, <1>2, EndCallInv DEF CommitStatus

LEMMA CommitRejectedInv == ASSUME IInv, CommitRejected PROVE IInv'
<1>1. TypeOK'
  BY TypeStep DEF IInv, Next, ApiCommits
<1>2. \A p \in Participant : pending'[p] # None /\ pending'[p].kind = "daily_task_text"
                                => ~HasOpenTask(p)
  BY DEF CommitRejected, IInv, PendingExcludesOpenTask, TypeOK
<1>3. QED
  BY <1>1, <1>2, EndCallInv DEF CommitRejected

LEMMA ApiAbortsInv == ASSUME IInv, ApiAborts PROVE IInv'
<1>1. TypeOK'
  BY TypeStep DEF IInv, Next
<1>2. \A p \in Participant : pending'[p] # None /\ pending'[p].kind = "daily_task_text"
                                => ~HasOpenTask(p)
  BY DEF ApiAborts, IInv, PendingExcludesOpenTask
<1>3. QED
  BY <1>1, <1>2, EndCallInv DEF ApiAborts

LEMMA CleanupStaleInv == ASSUME IInv, NEW p \in Participant, CleanupStale(p) PROVE IInv'
<1>1. TypeOK'
  BY TypeStep DEF IInv, Next, WorkerActs
<1>2. OneOpenTask' /\ RowHistory' /\ TickKnows'
  BY ClockStays, FrameTables DEF IInv, CleanupStale
<1>3. PendingExcludesOpenTask'
  BY DEF CleanupStale, IInv, PendingExcludesOpenTask, TypeOK, HasOpenTask, InCall, IsOpen, table
<1>4. CallKnows'
  BY DEF CleanupStale, IInv, CallKnows, IsOpen, table, tick
<1>5. QED
  BY <1>1, <1>2, <1>3, <1>4 DEF IInv

\* The UPDATE of an open entry: the entry it misses is one the deadline has failed.
LEMMA SubmitUpdateInv == ASSUME IInv, SubmitUpdate PROVE IInv'
<1> DEFINE k == <<call.who, call.day>>
<1>1. TypeOK'
  BY TypeStep DEF IInv, Next
<1>2. OneOpenTask' /\ RowHistory' /\ TickKnows'
  BY ClockStays, FrameTables DEF IInv, SubmitUpdate
<1>3. call.op = "submit" /\ call # None /\ k \in Key /\ call \in Call
  BY CallType DEF SubmitUpdate, InCall, IInv
<1>4. /\ call'.op = IF IsOpen(k) THEN "written" ELSE "missed"
      /\ <<call'.who, call'.day>> = k
  BY <1>3 DEF SubmitUpdate, Call
<1>5. PendingExcludesOpenTask'
  BY <1>4 DEF SubmitUpdate, IInv, PendingExcludesOpenTask, HasOpenTask, InCall, IsOpen, table
<1>6. closed[k] = 0 /\ (IsOpen(k) \/ (entry[k].autoFailed /\ entry[k].report = Absent))
  BY <1>3 DEF IInv, CallKnows
<1>7. CallKnows'
  BY <1>3, <1>4, <1>6 DEF SubmitUpdate, CallKnows, IsOpen, table, tick
<1>8. QED
  BY <1>1, <1>2, <1>5, <1>7 DEF IInv

\* The row INSERT ... ON CONFLICT DO NOTHING leaves.
LEMMA CreateEntryRow ==
    ASSUME IInv, NEW k \in Key, NEW kind \in {"task", "summary"}, CreateEntry(k, kind)
    PROVE  /\ entry[k].status = Absent =>
                 /\ entry'[k].status = "active" /\ entry'[k].kind = kind
                 /\ entry'[k].report = Absent /\ entry'[k].autoFailed = FALSE
           /\ entry[k].status # Absent => entry'[k] = entry[k]
           /\ \A l \in Key : l # k => entry'[l] = entry[l]
  BY DEF CreateEntry, IInv, TypeOK, NoEntry

\* An entry is created: a task only while its owner has no other open one.
LEMMA CreateInv ==
    ASSUME IInv, TypeOK', NEW k \in Key, NEW kind \in {"task", "summary"},
           CreateEntry(k, kind), call' = None, UNCHANGED <<clock, tick>>,
           kind = "task" => ~HasOpenTask(k[1]) /\ pending' = [pending EXCEPT ![k[1]] = None],
           kind = "summary" => pending' = pending
    PROVE  IInv'
<1>1. /\ entry[k].status = Absent =>
                 /\ entry'[k].status = "active" /\ entry'[k].kind = kind
                 /\ entry'[k].report = Absent /\ entry'[k].autoFailed = FALSE
      /\ entry[k].status # Absent => entry'[k] = entry[k]
      /\ \A l \in Key : l # k => entry'[l] = entry[l]
  BY CreateEntryRow
<1>2. UNCHANGED <<alert, closed, autoFail>>
  BY DEF CreateEntry
<1>3. \A l \in Key : IsOpen(l)' /\ entry'[l].kind = "task"
                        => \/ IsOpen(l) /\ entry[l].kind = "task"
                           \/ l = k /\ kind = "task"
  BY <1>1 DEF IsOpen
<1>4. kind = "task" => \A l \in Key : l[1] = k[1] => ~(IsOpen(l) /\ entry[l].kind = "task")
  BY KeyParts DEF HasOpenTask
<1>5. OneOpenTask'
  BY <1>3, <1>4 DEF IInv, OneOpenTask
<1>6. PendingExcludesOpenTask'
  <2>1. ASSUME NEW p \in Participant, pending'[p] # None,
               pending'[p].kind = "daily_task_text", HasOpenTask(p)'
        PROVE FALSE
    <3>1. pending'[p] = pending[p] /\ (kind = "task" => p # k[1])
      BY <2>1, KeyParts DEF IInv, TypeOK
    <3>2. ~HasOpenTask(p)
      BY <2>1, <3>1 DEF IInv, PendingExcludesOpenTask
    <3>3. QED
      BY <1>3, <2>1, <3>1, <3>2, KeyParts DEF HasOpenTask
  <2>2. QED
    BY <2>1 DEF PendingExcludesOpenTask, InCall
<1>7. RowHistory'
  BY <1>1, <1>2 DEF IInv, RowHistory, Open, Final, Absent
<1>8. CallKnows'
  BY DEF CallKnows
<1>9. TickKnows'
  <2>1. \A l \in Key : plan[l] # Absent => entry'[l] = entry[l]
    BY <1>1 DEF IInv, TickKnows
  <2>2. locked \subseteq Key /\ \A l \in locked : Transitionable(l) => Transitionable(l)'
    BY <2>1 DEF IInv, TypeOK, TickKnows, Transitionable, IsOpen, tick
  <2>3. QED
    BY <1>2, <2>1, <2>2 DEF IInv, TickKnows, IsOpen, tick, Absent
<1>10. QED
  BY <1>5, <1>6, <1>7, <1>8, <1>9 DEF IInv

LEMMA CommitSummaryInv == ASSUME IInv, CommitSummary PROVE IInv'
<1> DEFINE k == <<call.who, call.day>>
<1>1. TypeOK'
  BY TypeStep DEF IInv, Next, ApiCommits
<1>2. k \in Key
  BY DEF CommitSummary, IInv, TypeOK, InCall, Call, Key
<1>3. QED
  BY <1>1, <1>2, CreateInv DEF CommitSummary

LEMMA CommitTextInv == ASSUME IInv, CommitText PROVE IInv'
<1> DEFINE k == <<call.who, call.day>>
<1>1. TypeOK'
  BY TypeStep DEF IInv, Next, ApiCommits
<1>2. k \in Key /\ k[1] = call.who
  BY DEF CommitText, IInv, TypeOK, InCall, Call, Key
<1>3. ~HasOpenTask(k[1])
  BY <1>2 DEF CommitText, IInv, PendingExcludesOpenTask, InCall
<1>4. QED
  BY <1>1, <1>2, <1>3, CreateInv DEF CommitText

\* What a report's commit does to the rows, the events and the alerts.
LEMMA CommitWithEffect ==
    ASSUME IInv, NEW k \in Key, NEW row \in Entry, NEW n \in {0, 1}, CommitWith(k, row, n)
    PROVE  /\ entry'[k] = row /\ closed'[k] = closed[k] + n
           /\ \A l \in Key : l # k => entry'[l] = entry[l] /\ closed'[l] = closed[l]
           /\ \A l \in Key : alert[l]["overdue_task_failed"] # Absent
                                => alert'[l]["overdue_task_failed"] # Absent
           /\ call' = None /\ UNCHANGED <<clock, autoFail, tick>>
           /\ \A p \in Participant : pending'[p] = IF p = k[1] THEN None ELSE pending[p]
  BY KeyParts DEF CommitWith, AckAll, IInv, TypeOK, AlertKind, Absent

\* Storing a row that is no more open than the old one, with a history to match.
LEMMA CommitWithInv ==
    ASSUME IInv, TypeOK', NEW k \in Key, NEW row \in Entry, NEW n \in {0, 1},
           CommitWith(k, row, n),
           row.kind = entry[k].kind, row.autoFailed = entry[k].autoFailed,
           row.status # Absent, row.status \notin Open,
           ~row.autoFailed => row.report = row.status /\ closed[k] + n = 1,
           row.autoFailed => /\ entry[k].autoFailed /\ row.status = "failed"
                             /\ row.kind = "summary" => row.report = Absent
                             /\ closed[k] + n <= 1,
           k \notin locked
    PROVE  IInv'
<1>1. /\ entry'[k] = row /\ closed'[k] = closed[k] + n
      /\ \A l \in Key : l # k => entry'[l] = entry[l] /\ closed'[l] = closed[l]
      /\ \A l \in Key : alert[l]["overdue_task_failed"] # Absent
                           => alert'[l]["overdue_task_failed"] # Absent
      /\ call' = None /\ UNCHANGED <<clock, autoFail, tick>>
      /\ \A p \in Participant : pending'[p] = IF p = k[1] THEN None ELSE pending[p]
  BY CommitWithEffect
<1>2. \A l \in Key : IsOpen(l)' => l # k /\ IsOpen(l)
  BY <1>1 DEF IsOpen
<1>3. OneOpenTask'
  BY <1>1, <1>2 DEF IInv, OneOpenTask
<1>4. PendingExcludesOpenTask'
  <2>1. \A p \in Participant : HasOpenTask(p)' => HasOpenTask(p)
    BY <1>1, <1>2, KeyParts DEF HasOpenTask
  <2>2. QED
    BY <1>1, <2>1 DEF IInv, PendingExcludesOpenTask, InCall
<1>5. RowHistory'
  <2>1. ASSUME NEW l \in Key, l # k
        PROVE  /\ entry'[l] = entry[l] /\ closed'[l] = closed[l]
               /\ autoFail' = autoFail /\ clock' = clock
    BY <1>1, <2>1
  <2>2. /\ row.status \in Final /\ closed[k] + n <= 1
        /\ autoFail[k] <= 1
        /\ row.autoFailed => /\ clock >= NoonAfter(k[2]) /\ autoFail[k] = 1
                             /\ alert[k]["overdue_task_failed"] # Absent
    BY DEF IInv, RowHistory, Entry
  <2>3. QED
    BY <1>1, <2>1, <2>2 DEF IInv, RowHistory
<1>6. CallKnows'
  BY <1>1 DEF CallKnows
<1>7. TickKnows'
  <2>1. \A l \in Key : plan[l] # Absent => entry'[l].status # Absent /\ ~entry'[l].autoFailed
    BY <1>1 DEF IInv, TickKnows
  <2>2. locked \subseteq Key /\ \A l \in locked : Transitionable(l) => Transitionable(l)'
    <3>1. locked \subseteq Key
      BY DEF IInv, TypeOK
    <3>2. \A l \in locked : l # k /\ l \in Key
      BY <3>1
    <3>3. clock' = clock /\ plan' = plan
      BY <1>1 DEF tick
    <3>4. \A l \in locked : entry'[l] = entry[l]
      BY <1>1, <3>2
    <3>5. QED
      BY <3>1, <3>3, <3>4 DEF Transitionable, IsOpen
  <2>3. QED
    BY <1>1, <1>2, <2>1, <2>2 DEF IInv, TickKnows, tick
<1>8. QED
  BY <1>3, <1>4, <1>5, <1>6, <1>7 DEF IInv

LEMMA CommitReportInv == ASSUME IInv, CommitReport PROVE IInv'
<1> DEFINE k == <<call.who, call.day>>
           row == IF call.op = "written" THEN Reported(k) ELSE entry[k]
<1>1. TypeOK'
  BY TypeStep DEF IInv, Next, ApiCommits
<1>2. k \in Key /\ call.outcome \in Final /\ call # None /\ call.op \in {"written", "missed"}
  BY CallType DEF CommitReport, InCall, IInv
<1>3. CommitWith(k, row, 1)
  BY DEF CommitReport
<1>4. CASE call.op = "written"
  <2>1. IsOpen(k) /\ k \notin locked
    BY <1>2, <1>4 DEF IInv, CallKnows
  <2>2. closed[k] = 0 /\ ~entry[k].autoFailed
    BY <1>2, <2>1 DEF IInv, RowHistory, IsOpen
  <2>3. /\ row \in Entry /\ row.kind = entry[k].kind /\ row.autoFailed = entry[k].autoFailed
        /\ row.status = call.outcome /\ row.report = call.outcome
    <3>1. entry[k] \in Entry
      BY <1>2, RowType DEF IInv
    <3>2. row = [entry[k] EXCEPT !.status = call.outcome, !.report = call.outcome]
      BY <1>4 DEF Reported
    <3> HIDE DEF row
    <3>3. QED
      BY <1>2, <3>1, <3>2, RowWithReport
  <2>4. row.status # Absent /\ row.status \notin Open
    BY <1>2, <2>3 DEF Final, Open, Absent
  <2>5. QED
    BY <1>1, <1>2, <1>3, <2>1, <2>2, <2>3, <2>4, CommitWithInv
<1>5. CASE call.op = "missed"
  <2>1. closed[k] = 0 /\ entry[k].autoFailed
    BY <1>2, <1>5 DEF IInv, CallKnows
  <2>2. entry[k].status = "failed" /\ (entry[k].kind = "summary" => entry[k].report = Absent)
    BY <1>2, <2>1 DEF IInv, RowHistory
  <2>3. row = entry[k] /\ row \in Entry
    BY <1>2, <1>5 DEF IInv, TypeOK
  <2>4. k \notin locked
    BY <1>2, <2>2 DEF IInv, TickKnows, Transitionable, IsOpen, Open
  <2>5. QED
    BY <1>1, <1>2, <1>3, <2>1, <2>2, <2>3, <2>4, CommitWithInv DEF Open, Absent
<1>6. QED
  BY <1>2, <1>4, <1>5

LEMMA CommitLateReportInv == ASSUME IInv, CommitLateReport PROVE IInv'
<1> DEFINE k == <<call.who, call.day>>
           row == [entry[k] EXCEPT !.report = call.outcome]
<1>1. TypeOK'
  BY TypeStep DEF IInv, Next, ApiCommits
<1>2. k \in Key /\ call.outcome \in Final /\ call # None /\ call.op = "late"
  BY CallType DEF CommitLateReport, InCall, IInv
<1>3. CommitWith(k, row, 0)
  BY DEF CommitLateReport
<1>4. entry[k].kind = "task" /\ entry[k].autoFailed
  BY <1>2 DEF IInv, CallKnows
<1>5. entry[k].status = "failed" /\ closed[k] <= 1 /\ closed[k] \in Nat
  BY <1>2, <1>4 DEF IInv, RowHistory, TypeOK
<1>6. /\ row \in Entry /\ row.kind = entry[k].kind /\ row.autoFailed = entry[k].autoFailed
      /\ row.status = entry[k].status
  <2>1. entry[k] \in Entry
    BY <1>2, RowType DEF IInv
  <2>2. QED
    BY <1>2, <2>1, RowWithReport
<1>7. k \notin locked
  BY <1>2, <1>5 DEF IInv, TickKnows, Transitionable, IsOpen, Open
<1>8. /\ row.status # Absent /\ row.status \notin Open /\ row.autoFailed
      /\ row.kind # "summary" /\ closed[k] + 0 <= 1
  BY <1>4, <1>5, <1>6 DEF Open, Absent
<1>9. QED
  <2> HIDE DEF row
  <2> QED
    BY <1>1, <1>2, <1>3, <1>4, <1>5, <1>6, <1>7, <1>8, CommitWithInv

\* The tick: what its transaction decides, changes and commits.
LEMMA TickIdleKnows ==
    ASSUME TickIdle PROVE TickKnows'
  BY DEF TickIdle, TickKnows, Absent

LEMMA TickBeginsInv == ASSUME IInv, TickBegins PROVE IInv'
<1>1. TypeOK'
  BY TypeStep DEF IInv, Next, WorkerActs
<1>2. OneOpenTask' /\ RowHistory'
  BY DEF TickBegins, IInv, OneOpenTask, RowHistory, IsOpen, table
<1>3. PendingExcludesOpenTask' /\ CallKnows'
  BY FrameCall DEF TickBegins, table
<1>4. TickKnows'
  <2>1. locked' = {} /\ ticking'
    BY DEF TickBegins, IInv, TickKnows
  <2>2. \A k \in Key : plan'[k] = Decision(k)
    BY DEF TickBegins
  <2>3. \A k \in Key : Decision(k) # Absent <=> k \in todo'
    BY DEF TickBegins
  <2>4. ASSUME NEW k \in Key
        PROVE  /\ Decision(k) = "failed" => IsOpen(k) /\ clock >= NoonAfter(k[2])
               /\ Decision(k) = "awaiting_report" => IsOpen(k) /\ clock >= NextMidnight(k[2])
               /\ Decision(k) \in {"failed", "awaiting_report", Absent}
    BY KeyParts DEF Decision, NextDailyTaskTransition, IsOpen, Open, Absent
  <2>5. ASSUME NEW k \in Key, IsOpen(k)
        PROVE  entry[k].status # Absent /\ ~entry[k].autoFailed /\ autoFail[k] = 0
    BY <2>5 DEF IInv, RowHistory, IsOpen, Open, Absent
  <2>6. \A k \in Key : Decision(k) = "failed" => k \in todo'
    BY <2>3 DEF Absent
  <2>7. QED
    BY <2>1, <2>2, <2>3, <2>4, <2>5, <2>6 DEF TickKnows, TickBegins, table
<1>5. QED
  BY <1>1, <1>2, <1>3, <1>4 DEF IInv

LEMMA TickUpdatesInv == ASSUME IInv, NEW k \in Key, TickUpdates(k) PROVE IInv'
<1>1. TypeOK'
  BY TypeStep DEF IInv, Next, WorkerActs
<1>2. OneOpenTask' /\ RowHistory'
  BY DEF TickUpdates, IInv, OneOpenTask, RowHistory, IsOpen, table
<1>3. PendingExcludesOpenTask'
  BY DEF TickUpdates, IInv, PendingExcludesOpenTask, HasOpenTask, InCall, IsOpen, table
<1>4. CallKnows'
  BY DEF TickUpdates, IInv, CallKnows, HoldsEntry, InCall, IsOpen, table
<1>5. TickKnows'
  <2>1. plan[k] # Absent /\ k \notin locked /\ ticking
    BY DEF TickUpdates, IInv, TickKnows
  <2>2. plan[k] = "failed" /\ ~Transitionable(k) => ~IsOpen(k)
    BY DEF Transitionable
  <2>3. \A l \in locked' : plan[l] # Absent /\ Transitionable(l)
    BY <2>1 DEF TickUpdates, IInv, TickKnows
  <2>4. \A l \in Key : plan[l] = "failed" /\ l \notin todo' => l \in locked' \/ ~IsOpen(l)
    BY <2>2 DEF TickUpdates, IInv, TickKnows
  <2>5. locked' \cap todo' = {}
    BY <2>1 DEF TickUpdates, IInv, TickKnows
  <2>6. \A l \in todo' : plan[l] # Absent
    BY DEF TickUpdates, IInv, TickKnows
  <2>7. QED
    BY <2>1, <2>3, <2>4, <2>5, <2>6 DEF TickUpdates, IInv, TickKnows, Transitionable, IsOpen, table
<1>6. QED
  BY <1>1, <1>2, <1>3, <1>4, <1>5 DEF IInv

LEMMA TickAbortsInv == ASSUME IInv, TickAborts PROVE IInv'
<1>1. TypeOK'
  BY TypeStep DEF IInv, Next, WorkerActs
<1>2. OneOpenTask' /\ RowHistory'
  BY DEF TickAborts, IInv, OneOpenTask, RowHistory, IsOpen, table
<1>3. PendingExcludesOpenTask'
  BY DEF TickAborts, IInv, PendingExcludesOpenTask, HasOpenTask, InCall, IsOpen, table
<1>4. CallKnows'
  BY DEF TickAborts, TickIdle, IInv, CallKnows, IsOpen, table
<1>5. QED
  BY <1>1, <1>2, <1>3, <1>4, TickIdleKnows DEF IInv, TickAborts

\* The row a moved entry ends with.
LEMMA MovedRow ==
    ASSUME IInv, NEW k \in Key, k \in locked
    PROVE  /\ IsOpen(k) /\ plan[k] \in {"awaiting_report", "failed"}
           /\ Moved(k).status = plan[k] /\ Moved(k).kind = entry[k].kind
           /\ Moved(k).report = Absent /\ (Moved(k).autoFailed <=> plan[k] = "failed")
           /\ plan[k] = "failed" =>
                 clock >= NoonAfter(k[2]) /\ autoFail[k] = 0 /\ closed[k] = 0
<1>1. plan[k] # Absent /\ Transitionable(k)
  BY DEF IInv, TickKnows
<1>2. plan[k] \in {"awaiting_report", "failed"} /\ entry[k] \in Entry
  BY <1>1 DEF IInv, TypeOK
<1>3. IsOpen(k)
  BY <1>1 DEF Transitionable, IsOpen, Open
<1>4. entry[k].report = Absent /\ closed[k] = 0
  BY <1>3 DEF IInv, RowHistory, IsOpen
<1>5. Moved(k).status = plan[k] /\ Moved(k).kind = entry[k].kind /\ Moved(k).report = Absent
  BY <1>2, <1>4 DEF Moved, Entry
<1>6. Moved(k).autoFailed <=> plan[k] = "failed"
  BY <1>2, Zenon DEF Moved, Entry
<1>7. plan[k] = "failed" => clock >= NoonAfter(k[2]) /\ autoFail[k] = 0
  BY DEF IInv, TickKnows
<1>8. QED
  BY <1>2, <1>3, <1>4, <1>5, <1>6, <1>7

LEMMA TickCommitsInv == ASSUME IInv, TickCommits PROVE IInv'
<1>1. TypeOK'
  BY TypeStep DEF IInv, Next, WorkerActs
<1>2. /\ \A k \in Key : entry'[k] = IF k \in locked THEN Moved(k) ELSE entry[k]
      /\ \A k \in Key : autoFail'[k] = autoFail[k] + IF plan[k] = "failed" THEN 1 ELSE 0
      /\ todo = {} /\ ticking /\ UNCHANGED <<clock, closed, pending, call>>
  BY DEF TickCommits
<1>3. \A k \in Key : /\ IsOpen(k)' => IsOpen(k)
                     /\ entry'[k].kind = entry[k].kind
  BY <1>2, MovedRow DEF IsOpen
<1>4. OneOpenTask'
  BY <1>3 DEF IInv, OneOpenTask
<1>5. PendingExcludesOpenTask'
  <2>1. \A p \in Participant : HasOpenTask(p)' => HasOpenTask(p)
    BY <1>3, KeyParts DEF HasOpenTask
  <2>2. call # None => call.who \in Participant
    BY DEF IInv, TypeOK, Call
  <2>3. QED
    BY <1>2, <2>1, <2>2 DEF IInv, PendingExcludesOpenTask, InCall
<1>6. \A k \in Key : alert[k]["overdue_task_failed"] # Absent \/ plan[k] = "failed"
                        => alert'[k]["overdue_task_failed"] # Absent
  BY DEF TickCommits, RaisedAlert, AlertFor, AlertKind, Absent
<1>7. RowHistory'
  <2>1. ASSUME NEW k \in Key, k \in locked
        PROVE  /\ Moved(k).status \in {"awaiting_report", "failed"} /\ Moved(k).report = Absent
               /\ Moved(k).kind = entry[k].kind /\ closed[k] = 0 /\ autoFail[k] = 0
               /\ Moved(k).autoFailed <=> Moved(k).status = "failed"
               /\ Moved(k).autoFailed => /\ clock >= NoonAfter(k[2]) /\ plan[k] = "failed"
    <3>1. IsOpen(k) /\ plan[k] \in {"awaiting_report", "failed"}
      BY <2>1, MovedRow
    <3>2. closed[k] = 0 /\ autoFail[k] = 0
      BY <3>1 DEF IInv, RowHistory, IsOpen
    <3>3. QED
      BY <2>1, <3>1, <3>2, MovedRow
  <2>2. ASSUME NEW k \in Key, k \notin locked, plan[k] = "failed"
        PROVE  entry[k].status \in Final /\ ~entry[k].autoFailed /\ autoFail[k] = 0
    BY <1>2, <2>2 DEF IInv, TickKnows, IsOpen, TypeOK, Entry, Absent
  <2>3. ASSUME NEW k \in Key
        PROVE /\ entry'[k].status \in Open \cup {Absent} =>
                   /\ entry'[k].report = Absent /\ ~entry'[k].autoFailed
                   /\ closed'[k] = 0 /\ autoFail'[k] = 0
              /\ entry'[k].status \in Final /\ ~entry'[k].autoFailed =>
                   entry'[k].report = entry'[k].status /\ closed'[k] = 1
              /\ entry'[k].autoFailed =>
                   /\ entry'[k].status = "failed" /\ clock' >= NoonAfter(k[2])
                   /\ autoFail'[k] = 1 /\ alert'[k]["overdue_task_failed"] # Absent
                   /\ entry'[k].kind = "summary" => entry'[k].report = Absent
              /\ closed'[k] <= 1 /\ autoFail'[k] <= 1
    <3>1. CASE k \in locked
      <4>1. entry'[k] = Moved(k) /\ closed'[k] = 0 /\ clock' = clock
        BY <1>2, <2>1, <3>1
      <4>2. CASE Moved(k).autoFailed
        <5>1. autoFail'[k] = 1 /\ alert'[k]["overdue_task_failed"] # Absent
          BY <1>2, <1>6, <2>1, <3>1, <4>2
        <5>2. QED
          BY <2>1, <3>1, <4>1, <4>2, <5>1 DEF Open, Absent
      <4>3. CASE ~Moved(k).autoFailed
        <5>1. Moved(k).status = "awaiting_report" /\ plan[k] # "failed"
          BY <2>1, <3>1, <4>3, MovedRow
        <5>2. autoFail'[k] = 0
          BY <1>2, <2>1, <3>1, <5>1
        <5>3. QED
          BY <2>1, <3>1, <4>1, <4>3, <5>1, <5>2 DEF Open, Final, Absent
      <4>4. QED
        BY <4>2, <4>3
    <3>2. CASE k \notin locked /\ plan[k] = "failed"
      <4>1. entry'[k] = entry[k] /\ autoFail'[k] = 1 /\ closed' = closed
        BY <1>2, <2>2, <3>2
      <4>2. QED
        BY <2>2, <3>2, <4>1 DEF IInv, RowHistory, Open, Final, Absent
    <3>3. CASE k \notin locked /\ plan[k] # "failed"
      <4>1. entry'[k] = entry[k] /\ autoFail'[k] = autoFail[k]
        BY <1>2, <3>3 DEF IInv, TypeOK
      <4>2. QED
        BY <1>2, <1>6, <4>1 DEF IInv, RowHistory
    <3>4. QED
      BY <3>1, <3>2, <3>3
  <2>4. QED
    BY <2>3 DEF RowHistory
<1>8. CallKnows'
  <2>1. ASSUME NEW k \in Key, k \in locked
        PROVE  /\ IsOpen(k) /\ ~entry[k].autoFailed
               /\ IsOpen(k)' \/ (entry'[k].autoFailed /\ entry'[k].report = Absent)
    BY <1>2, <2>1, MovedRow DEF IInv, RowHistory, IsOpen, Open
  <2>2. \A k \in Key : k \notin locked => entry'[k] = entry[k]
    BY <1>2
  <2>3. locked' = {}
    BY DEF TickCommits, TickIdle
  <2>4. call # None /\ call.op \in {"submit", "written", "missed", "late"}
           => <<call.who, call.day>> \in Key
    BY CallType DEF IInv, InCall
  <2>5. QED
    BY <1>2, <2>1, <2>2, <2>3, <2>4 DEF IInv, CallKnows, IsOpen
<1>9. TickKnows'
  BY TickIdleKnows DEF TickCommits
<1>10. QED
  BY <1>1, <1>4, <1>5, <1>7, <1>8, <1>9 DEF IInv

LEMMA StutterInv == ASSUME IInv, UNCHANGED vars PROVE IInv'
<1>1. TypeOK' /\ OneOpenTask' /\ RowHistory' /\ TickKnows'
  BY TypeStep, ClockStays, FrameTables DEF IInv, vars, table, tick
<1>2. PendingExcludesOpenTask' /\ CallKnows'
  BY FrameCall DEF vars
<1>3. QED
  BY <1>1, <1>2 DEF IInv

LEMMA StepInv == IInv /\ [Next]_vars => IInv'
  BY AdvanceInv, AddPressedInv, TextArrivesInv, ReportArrivesInv, StatusPressedInv,
     ReportPressedTooLateInv, AlertAcknowledgedInv, SubmitUpdateInv, CommitPromptInv,
     CommitSummaryInv, CommitTextInv, CommitStatusInv, CommitReportInv, CommitLateReportInv,
     CommitRejectedInv, ApiAbortsInv, TickBeginsInv, TickUpdatesInv, TickCommitsInv,
     TickAbortsInv, CleanupStaleInv, StutterInv
     DEF Next, UserActs, ApiCommits, WorkerActs

LEMMA Invariance == Spec => []IInv
  BY InitInv, StepInv, PTL DEF Spec

\* No interleaving of handlers and ticks gives a participant two open tasks: the
\* guard read by today:add still holds when the text is stored.
THEOREM OneTaskAtATime == Spec => []OneOpenTask
<1>1. IInv => OneOpenTask
  BY DEF IInv
<1>2. QED
  BY <1>1, Invariance, PTL

\* A closed row is always backed by its report or by its deadline, and told; the
\* deadline is the promised one of its day (PromisedNoon).
THEOREM ClosuresAreRecorded == Spec => []ClosureRecorded
<1>1. IInv => ClosureRecorded
  BY KeyParts, PromisesKept DEF IInv, RowHistory, ClosureRecorded, Final
<1>2. QED
  BY <1>1, Invariance, PTL

\* What rules.go:378 makes of an active entry on its own day.
LEMMA OnItsDay ==
    ASSUME NEW t \in Instant, NEW d \in Day, d = LocalTaskDate(t)
    PROVE  NextDailyTaskTransition(d, "active", t) =
              IF d \notin West THEN Absent
              ELSE IF t % 3 = 0 THEN "awaiting_report" ELSE "failed"
<1> DEFINE q == t \div 3
           r == t % 3
<1>1. t \in Nat /\ q \in Nat /\ r \in 0..2 /\ t = 3 * q + r /\ d = q + 1
  BY DayAssumption DEF Instant, MaxClock, LocalTaskDate
<1> HIDE DEF q, r
<1>2. CASE d \notin West
  <2>1. NextMidnight(d) = 3 * q + 3 /\ NoonAfter(d) = 3 * q + 4
    BY <1>1, <1>2 DEF NextMidnight, NoonAfter, DateInZone
  <2>2. t < NextMidnight(d) /\ t < NoonAfter(d)
    BY <1>1, <2>1
  <2>3. ~(t >= NoonAfter(d)) /\ t \notin NextMidnight(d)..(NoonAfter(d) - 1)
    BY <1>1, <2>1, <2>2
  <2>4. QED
    BY <1>2, <2>3 DEF NextDailyTaskTransition
<1>3. CASE d \in West
  <2>1. NextMidnight(d) = 3 * q /\ NoonAfter(d) = 3 * q + 1
    BY <1>1, <1>3 DEF NextMidnight, NoonAfter, DateInZone
  <2>2. /\ t >= NoonAfter(d) <=> r # 0
        /\ t \in NextMidnight(d)..(NoonAfter(d) - 1) <=> r = 0
    BY <1>1, <2>1
  <2>3. QED
    BY <1>3, <2>2 DEF NextDailyTaskTransition, Open, r
<1>4. QED
  BY <1>2, <1>3

\* A tick that lists an active entry on the entry's own day leaves it alone, except
\* on a day of a zone west of UTC: there it asks for the report before noon and
\* fails the entry from noon on, which docs/architecture.md:258-268 has on the
\* day after.
DecidesOnItsDay(k) ==
    entry[k].status = "active" /\ k[2] = LocalTaskDate(clock) =>
        plan'[k] = IF k[2] \notin West THEN Absent
                   ELSE IF clock % 3 = 0 THEN "awaiting_report" ELSE "failed"
TickOnItsDay == TickBegins => \A k \in Key : DecidesOnItsDay(k)

THEOREM WestClosesOnItsDay == Spec => [][TickOnItsDay]_vars
<1>1. ASSUME IInv PROVE TickOnItsDay
  <2>1. SUFFICES ASSUME TickBegins, NEW k \in Key,
                        entry[k].status = "active", k[2] = LocalTaskDate(clock)
                 PROVE  plan'[k] = IF k[2] \notin West THEN Absent
                                   ELSE IF clock % 3 = 0 THEN "awaiting_report" ELSE "failed"
    BY DEF TickOnItsDay, DecidesOnItsDay
  <2>2. clock \in Instant /\ k[2] \in Day
    BY <1>1, KeyParts DEF IInv, TypeOK
  <2>3. plan'[k] = NextDailyTaskTransition(k[2], "active", clock)
    BY <2>1 DEF TickBegins, Decision
  <2>4. QED
    BY <2>1, <2>2, <2>3, OnItsDay
<1>2. QED
  BY <1>1, Invariance, PTL DEF Spec

\* At most one closed and one auto_failed event per entry.
THEOREM EventsAreUnique == Spec => []NoEventTwice
<1>1. IInv => NoEventTwice
  BY DEF IInv, RowHistory, NoEventTwice
<1>2. QED
  BY <1>1, Invariance, PTL

\* What a step may change of a closed row: nothing but an absent report.
LEMMA ClosedRowStep ==
    ASSUME IInv, [Next]_vars, NEW k \in Key
    PROVE  /\ entry[k].status \in Final => entry'[k].status = entry[k].status
           /\ entry[k].report # Absent => entry'[k].report = entry[k].report
<1>1. CASE UNCHANGED entry
  BY <1>1
<1>2. ASSUME NEW l \in Key, NEW kind \in {"task", "summary"}, CreateEntry(l, kind)
      PROVE  entry[k].status # Absent => entry'[k] = entry[k]
  BY <1>2, CreateEntryRow
<1>3. entry[k].report # Absent => entry[k].status \in Final
  BY DEF IInv, TypeOK, Entry, RowHistory
<1>4. CASE CommitSummary \/ CommitText
  <2>1. <<call.who, call.day>> \in Key
    BY <1>4 DEF CommitSummary, CommitText, IInv, TypeOK, InCall, Call, Key
  <2>2. entry[k].status # Absent => entry'[k] = entry[k]
    BY <1>2, <1>4, <2>1 DEF CommitSummary, CommitText
  <2>3. QED
    BY <1>3, <2>2 DEF Final, Absent
<1>5. CASE CommitReport
  <2> DEFINE l == <<call.who, call.day>>
  <2>1. l \in Key /\ call # None /\ call.op \in {"written", "missed"}
    BY <1>5, CallType DEF CommitReport, InCall, IInv
  <2>2. entry' = [entry EXCEPT ![l] = IF call.op = "written" THEN Reported(l) ELSE entry[l]]
    BY <1>5 DEF CommitReport, CommitWith
  <2>3. call.op = "written" => IsOpen(l)
    BY <2>1 DEF IInv, CallKnows
  <2>4. k # l \/ call.op = "missed" => entry'[k] = entry[k]
    BY <2>1, <2>2 DEF IInv, TypeOK
  <2>5. IsOpen(k) => entry[k].status \notin Final /\ entry[k].report = Absent
    BY DEF IInv, RowHistory, IsOpen, Open, Final
  <2>6. QED
    BY <2>1, <2>3, <2>4, <2>5
<1>6. CASE CommitLateReport
  <2> DEFINE l == <<call.who, call.day>>
  <2>1. l \in Key /\ call # None /\ call.op = "late"
    BY <1>6, CallType DEF CommitLateReport, InCall, IInv
  <2>2. entry' = [entry EXCEPT ![l] = [entry[l] EXCEPT !.report = call.outcome]]
    BY <1>6 DEF CommitLateReport, CommitWith
  <2>3. entry[l].report = Absent
    BY <2>1 DEF IInv, CallKnows
  <2>4. k # l => entry'[k] = entry[k]
    BY <2>1, <2>2 DEF IInv, TypeOK
  <2>5. entry'[l].status = entry[l].status
    BY <2>1, <2>2 DEF IInv, TypeOK, Entry
  <2>6. QED
    BY <2>3, <2>4, <2>5
<1>7. CASE TickCommits
  <2>1. entry'[k] = IF k \in locked THEN Moved(k) ELSE entry[k]
    BY <1>7 DEF TickCommits
  <2>2. k \in locked => entry[k].status \notin Final /\ entry[k].report = Absent
    BY MovedRow DEF IInv, RowHistory, IsOpen, Open, Final
  <2>3. QED
    BY <2>1, <2>2
<1>8. QED
  BY <1>1, <1>4, <1>5, <1>6, <1>7
     DEF Next, UserActs, ApiCommits, WorkerActs, Advance, AddPressed, TextArrives,
         ReportArrives, StatusPressed, Begin, ReportPressedTooLate, AlertAcknowledged,
         SubmitUpdate, CommitPrompt, CommitStatus, CommitRejected, ApiAborts, TickBegins,
         TickUpdates, TickAborts, CleanupStale, table, vars

\* No handler and no tick ever reopens a closed row, changes its outcome or
\* replaces the report it holds.
THEOREM ClosedRowsAreFinal == Spec => ClosedStays
<1>1. IInv /\ [Next]_vars =>
        [\A k \in Key :
           /\ entry[k].status \in Final => entry'[k].status = entry[k].status
           /\ entry[k].report # Absent => entry'[k].report = entry[k].report]_vars
  BY ClosedRowStep
<1>2. QED
  BY <1>1, Invariance, PTL DEF Spec, ClosedStays

-----------------------------------------------------------------------------
(* Whose event it is.  The report and the tick each read an entry before    *)
(* they change it, and AutoFailedHasNoClosedEvent is violated when one      *)
(* overtakes the other in between.  Without such an overlap each closing    *)
(* event is the event of what happened to the row.                          *)

\* No report has read or written an entry that the tick has listed or changed.
Uncontended == InCall({"submit", "written"}) => <<call.who, call.day>> \notin todo \cup locked

\* Neither UPDATE will find its row closed by the other process.
NobodyOvertaken ==
    /\ ~InCall({"missed"})
    /\ InCall({"submit"}) => IsOpen(<<call.who, call.day>>)
    /\ \A k \in Key : plan[k] = "failed" => IF k \in todo THEN IsOpen(k) ELSE k \in locked

OneKindOfEvent ==
    \A k \in Key : /\ closed[k] # 0 => ~entry[k].autoFailed
                   /\ autoFail[k] # 0 => entry[k].autoFailed

\* A closed event tells of a report, an auto_failed event of the deadline, and nothing else.
EventsTellTruth ==
    \A k \in Key :
        /\ closed[k] = 1 <=> entry[k].status \in Final /\ ~entry[k].autoFailed
        /\ autoFail[k] = 1 <=> entry[k].autoFailed

LEMMA UncontendedStep ==
    IInv /\ Uncontended /\ NobodyOvertaken /\ OneKindOfEvent /\ [Next]_vars
        => NobodyOvertaken' /\ OneKindOfEvent'
<1> SUFFICES ASSUME IInv, Uncontended, NobodyOvertaken, OneKindOfEvent, [Next]_vars
             PROVE  NobodyOvertaken' /\ OneKindOfEvent'
  OBVIOUS
<1> USE DEF table, tick
<1>1. CASE UNCHANGED <<entry, closed, autoFail, call, tick>>
  BY <1>1 DEF NobodyOvertaken, OneKindOfEvent, InCall, IsOpen
<1>2. ASSUME NEW c, Begin(c), c.op \notin {"submit", "missed"}
      PROVE  NobodyOvertaken' /\ OneKindOfEvent'
  BY <1>2 DEF Begin, NobodyOvertaken, OneKindOfEvent, InCall, IsOpen
<1>3. ASSUME NEW p \in Participant, AddPressed(p) \/ TextArrives(p)
      PROVE  NobodyOvertaken' /\ OneKindOfEvent'
  BY <1>2, <1>3 DEF AddPressed, TextArrives
<1>4. ASSUME NEW k \in Key, NEW o \in Outcome, StatusPressed(k, o)
      PROVE  NobodyOvertaken' /\ OneKindOfEvent'
  BY <1>2, <1>4 DEF StatusPressed
<1>5. ASSUME NEW p \in Participant, ReportArrives(p)
      PROVE  NobodyOvertaken' /\ OneKindOfEvent'
  <2> DEFINE k == <<p, pending[p].day>>
  <2>1. /\ call'.op = ReportBranch(k) /\ <<call'.who, call'.day>> = k
        /\ UNCHANGED <<table, tick>>
    BY <1>5 DEF ReportArrives, Begin
  <2>2. ReportBranch(k) # "missed" /\ (ReportBranch(k) = "submit" => IsOpen(k))
    BY DEF ReportBranch
  <2>3. QED
    BY <2>1, <2>2 DEF NobodyOvertaken, OneKindOfEvent, InCall, IsOpen
<1>6. CASE call' = None /\ UNCHANGED <<table, tick>>
  BY <1>6 DEF NobodyOvertaken, OneKindOfEvent, InCall, IsOpen
<1>7. CASE SubmitUpdate
  <2>1. call'.op = "written"
    BY <1>7, CallType DEF SubmitUpdate, NobodyOvertaken, IInv, InCall, Call
  <2>2. QED
    BY <1>7, <2>1 DEF SubmitUpdate, NobodyOvertaken, OneKindOfEvent, InCall, IsOpen
<1>8. CASE TickBegins
  <2>1. \A k \in Key : plan'[k] = "failed" => k \in todo' /\ IsOpen(k)
    BY <1>8 DEF TickBegins, Decision, NextDailyTaskTransition, IsOpen, Absent
  <2>2. QED
    BY <1>8, <2>1 DEF TickBegins, NobodyOvertaken, OneKindOfEvent, InCall, IsOpen
<1>9. ASSUME NEW k \in Key, TickUpdates(k) PROVE NobodyOvertaken' /\ OneKindOfEvent'
  <2>1. plan[k] = "failed" => k \in locked'
    BY <1>9 DEF TickUpdates, Transitionable, NobodyOvertaken
  <2>2. locked \subseteq locked' /\ todo' = todo \ {k}
    BY <1>9 DEF TickUpdates
  <2>3. QED
    BY <1>9, <2>1, <2>2 DEF TickUpdates, NobodyOvertaken, OneKindOfEvent, InCall, IsOpen
<1>10. CASE TickAborts
  BY <1>10 DEF TickAborts, TickIdle, Absent, NobodyOvertaken, OneKindOfEvent, InCall, IsOpen
<1>11. CASE TickCommits
  <2>1. \A k \in Key : /\ entry'[k] = IF k \in locked THEN Moved(k) ELSE entry[k]
                       /\ autoFail'[k] = autoFail[k] + IF plan[k] = "failed" THEN 1 ELSE 0
        /\ closed' = closed /\ call' = call
    BY <1>11 DEF TickCommits
  <2>2. \A k \in Key : plan[k] = "failed" => k \in locked
    BY <1>11 DEF TickCommits, NobodyOvertaken
  <2>3. ASSUME NEW k \in Key
        PROVE  /\ closed'[k] # 0 => ~entry'[k].autoFailed
               /\ autoFail'[k] # 0 => entry'[k].autoFailed
    <3>1. CASE k \in locked
      <4>1. IsOpen(k) /\ (entry'[k].autoFailed <=> plan[k] = "failed")
        BY <2>1, <3>1, MovedRow
      <4>2. closed[k] = 0 /\ autoFail[k] = 0
        BY <4>1 DEF IInv, RowHistory, IsOpen
      <4>3. QED
        BY <2>1, <4>1, <4>2
    <3>2. CASE k \notin locked
      <4>1. plan[k] # "failed" /\ entry'[k] = entry[k] /\ autoFail[k] \in Nat
        BY <2>1, <2>2, <3>2 DEF IInv, TypeOK
      <4>2. QED
        BY <2>1, <4>1 DEF OneKindOfEvent
    <3>3. QED
      BY <3>1, <3>2
  <2>4. InCall({"submit"}) => <<call.who, call.day>> \in Key /\ <<call.who, call.day>> \notin locked
    BY CallType DEF Uncontended, InCall, IInv
  <2>5. InCall({"submit"}) => entry'[<<call.who, call.day>>].status \in Open
    BY <2>1, <2>4 DEF NobodyOvertaken, IsOpen
  <2>6. (\A k \in Key : plan'[k] # "failed") /\ call' = call
    BY <1>11 DEF TickCommits, TickIdle, Absent
  <2>7. NobodyOvertaken'
    <3>1. ~InCall({"missed"})'
      BY <2>6 DEF NobodyOvertaken, InCall
    <3>2. (InCall({"submit"}) => IsOpen(<<call.who, call.day>>))'
      BY <2>5, <2>6 DEF InCall, IsOpen
    <3>3. (\A k \in Key : plan[k] = "failed" => IF k \in todo THEN IsOpen(k) ELSE k \in locked)'
      BY <2>6
    <3>4. QED
      BY <3>1, <3>2, <3>3 DEF NobodyOvertaken
  <2>8. OneKindOfEvent'
    BY <2>3 DEF OneKindOfEvent
  <2>9. QED
    BY <2>7, <2>8
<1>12. CASE CommitSummary \/ CommitText
  <2>1. <<call.who, call.day>> \in Key
    BY <1>12 DEF CommitSummary, CommitText, IInv, TypeOK, InCall, Call, Key
  <2>2. PICK k \in Key, kind \in {"task", "summary"} : CreateEntry(k, kind)
    BY <1>12, <2>1 DEF CommitSummary, CommitText
  <2>3. /\ entry[k].status = Absent => entry'[k].status = "active" /\ ~entry'[k].autoFailed
        /\ entry[k].status # Absent => entry'[k] = entry[k]
        /\ \A l \in Key : l # k => entry'[l] = entry[l]
    BY <2>2, CreateEntryRow
  <2>4. \A l \in Key : entry[l].status = Absent => closed[l] = 0 /\ autoFail[l] = 0
    BY DEF IInv, RowHistory
  <2>5. call' = None /\ UNCHANGED <<closed, autoFail, tick>>
    BY <1>12, <2>2 DEF CommitSummary, CommitText, CreateEntry
  <2>6. \A l \in Key : IsOpen(l) => IsOpen(l)'
    BY <2>3 DEF IsOpen, Open, Absent
  <2>7. OneKindOfEvent'
    BY <2>3, <2>4, <2>5 DEF OneKindOfEvent
  <2>8. NobodyOvertaken'
    BY <2>5, <2>6 DEF NobodyOvertaken, InCall
  <2>9. QED
    BY <2>7, <2>8
<1>13. CASE CommitReport
  <2>1. call # None /\ call.op = "written"
    BY <1>13 DEF CommitReport, InCall, NobodyOvertaken
  <2>2. <<call.who, call.day>> \in Key /\ call.outcome \in Final
    BY <1>13, CallType DEF CommitReport, InCall, IInv
  <2> PICK k \in Key : k = <<call.who, call.day>>
    BY <2>2
  <2>3. IsOpen(k) /\ k \notin todo \cup locked
    BY <2>1 DEF IInv, CallKnows, Uncontended, InCall
  <2>4. autoFail[k] = 0 /\ ~entry[k].autoFailed
    BY <2>3 DEF IInv, RowHistory, IsOpen
  <2>5. /\ entry' = [entry EXCEPT ![k] = Reported(k)] /\ closed' = [closed EXCEPT ![k] = @ + 1]
        /\ call' = None /\ UNCHANGED <<autoFail, tick>>
    BY <1>13, <2>1 DEF CommitReport, CommitWith
  <2>6. ~entry'[k].autoFailed /\ \A l \in Key : l # k => entry'[l] = entry[l] /\ closed'[l] = closed[l]
    <3>1. entry[k] \in Entry /\ entry'[k] = Reported(k)
      BY <2>5 DEF IInv, TypeOK
    <3>2. ~Reported(k).autoFailed
      BY <2>2, <2>4, <3>1, RowWithReport DEF Reported
    <3>3. QED
      BY <2>5, <3>1, <3>2 DEF IInv, TypeOK
  <2>7. OneKindOfEvent'
    BY <2>4, <2>5, <2>6 DEF OneKindOfEvent
  <2>8. NobodyOvertaken'
    BY <2>3, <2>5, <2>6 DEF NobodyOvertaken, InCall, IsOpen
  <2>9. QED
    BY <2>7, <2>8
<1>14. CASE CommitLateReport
  <2>1. <<call.who, call.day>> \in Key /\ call.outcome \in Final
    BY <1>14, CallType DEF CommitLateReport, InCall, IInv
  <2> PICK k \in Key : k = <<call.who, call.day>>
    BY <2>1
  <2>2. /\ entry' = [entry EXCEPT ![k] = [entry[k] EXCEPT !.report = call.outcome]]
        /\ closed' = [closed EXCEPT ![k] = @ + 0]
        /\ call' = None /\ UNCHANGED <<autoFail, tick>>
    BY <1>14 DEF CommitLateReport, CommitWith
  <2>3. \A l \in Key : /\ entry'[l].status = entry[l].status
                       /\ entry'[l].autoFailed = entry[l].autoFailed
                       /\ closed'[l] = closed[l]
    <3>1. entry[k] \in Entry /\ entry'[k] = [entry[k] EXCEPT !.report = call.outcome]
      BY <2>2 DEF IInv, TypeOK
    <3>2. entry'[k].status = entry[k].status /\ entry'[k].autoFailed = entry[k].autoFailed
      BY <3>1 DEF Entry
    <3>3. \A l \in Key : l # k => entry'[l] = entry[l]
      BY <2>2 DEF IInv, TypeOK
    <3>4. closed' = closed
      BY <2>2 DEF IInv, TypeOK
    <3>5. QED
      BY <3>2, <3>3, <3>4
  <2>4. QED
    BY <2>2, <2>3 DEF NobodyOvertaken, OneKindOfEvent, InCall, IsOpen
<1>15. QED
  BY <1>1, <1>3, <1>4, <1>5, <1>6, <1>7, <1>8, <1>9, <1>10, <1>11, <1>12, <1>13, <1>14
     DEF Next, UserActs, ApiCommits, WorkerActs, Advance, ReportPressedTooLate,
         AlertAcknowledged, CommitPrompt, CommitStatus, CommitRejected, ApiAborts,
         CleanupStale, vars

\* Every event tells what happened to its entry, and a failed one has no closed event, unless
\* a report and the tick were at work on the same entry at the same time.
THEOREM OnlyOverlapsMixEvents ==
    Spec /\ []Uncontended => [](EventsTellTruth /\ AutoFailedHasNoClosedEvent)
<1>1. Init => NobodyOvertaken /\ OneKindOfEvent
  BY DEF Init, NobodyOvertaken, OneKindOfEvent, InCall, Absent
<1>2. IInv /\ OneKindOfEvent => EventsTellTruth /\ AutoFailedHasNoClosedEvent
  <2> SUFFICES ASSUME IInv, OneKindOfEvent, NEW k \in Key
               PROVE  /\ closed[k] = 1 <=> entry[k].status \in Final /\ ~entry[k].autoFailed
                      /\ autoFail[k] = 1 <=> entry[k].autoFailed
                      /\ entry[k].autoFailed => closed[k] = 0
    BY DEF EventsTellTruth, AutoFailedHasNoClosedEvent
  <2>1. entry[k].status \in Open \cup Final \cup {Absent} /\ closed[k] \in Nat /\ autoFail[k] \in Nat
    BY DEF IInv, TypeOK, Entry
  <2>2. QED
    BY <2>1 DEF IInv, RowHistory, OneKindOfEvent
<1>3. QED
  BY <1>1, <1>2, UncontendedStep, Invariance, PTL DEF Spec

-----------------------------------------------------------------------------
(* DailyTasks implements DailyLifecycle.  A commit that changes no row, or  *)
(* only rows the abstract state does not see, is a stutter.                 *)

kindBar == [k \in Key |-> entry[k].kind]
stageBar == [k \in Key |-> StageOf(k)]
barVars == <<clock, kindBar, stageBar>>

LEMMA StageValues ==
    ASSUME IInv, NEW k \in Key
    PROVE  /\ StageOf(k) \in Lifecycle!Stage
           /\ StageOf(k) \in Lifecycle!OpenStage <=> IsOpen(k)
           /\ IsOpen(k) => StageOf(k) = entry[k].status
           /\ entry[k].status = Absent <=> StageOf(k) = "absent"
<1>1. entry[k].status \in Open \cup Final \cup {Absent}
  BY DEF IInv, TypeOK, Entry
<1>2. entry[k].autoFailed => entry[k].status = "failed"
  BY DEF IInv, RowHistory
<1>3. QED
  BY <1>1, <1>2 DEF StageOf, IsOpen, Open, Final, Absent, Lifecycle!Stage, Lifecycle!OpenStage,
                    Lifecycle!OwnerOutcome, Lifecycle!Overdue

LEMMA InitMaps == Init => Lifecycle!Init
<1> SUFFICES ASSUME Init PROVE Lifecycle!Init
  OBVIOUS
<1>1. \A k \in Key : entry[k].kind = "task" /\ StageOf(k) = "absent"
  BY DEF Init, NoEntry, StageOf, Absent
<1>2. QED
  BY <1>1 DEF Init, Lifecycle!Init, Key, Lifecycle!Key

\* A step that leaves the rows alone is a stutter, or time passing.
LEMMA QuietStep ==
    ASSUME UNCHANGED <<entry, clock>> PROVE UNCHANGED barVars
  BY DEF barVars, kindBar, stageBar, StageOf

LEMMA OneRowChanges ==
    ASSUME NEW k \in Key, \A l \in Key : l # k => entry'[l] = entry[l]
    PROVE  /\ stageBar' = [stageBar EXCEPT ![k] = StageOf(k)']
           /\ kindBar' = [kindBar EXCEPT ![k] = entry'[k].kind]
  BY DEF stageBar, kindBar, StageOf

LEMMA CreateMaps ==
    ASSUME IInv, NEW k \in Key, NEW kind \in {"task", "summary"}, CreateEntry(k, kind),
           UNCHANGED clock, kind = "task" => ~HasOpenTask(k[1])
    PROVE  Lifecycle!OpenEntry(k, kind) \/ UNCHANGED barVars
<1>1. /\ entry[k].status = Absent =>
                 /\ entry'[k].status = "active" /\ entry'[k].kind = kind
                 /\ entry'[k].report = Absent /\ entry'[k].autoFailed = FALSE
      /\ entry[k].status # Absent => entry'[k] = entry[k]
      /\ \A l \in Key : l # k => entry'[l] = entry[l]
  BY CreateEntryRow
<1>2. CASE entry[k].status = Absent
  <2>1. stageBar[k] = "absent"
    BY <1>2, StageValues DEF stageBar
  <2>2. StageOf(k)' = "active"
    BY <1>1, <1>2 DEF StageOf
  <2>3. Lifecycle!MayOpen(k, kind)
    <3>1. ASSUME kind = "task", NEW d \in Day, entry[<<k[1], d>>].kind = "task"
          PROVE  StageOf(<<k[1], d>>) \notin Lifecycle!OpenStage
      BY <3>1, KeyParts, StageValues DEF HasOpenTask
    <3>2. QED
      BY <3>1, KeyParts DEF Lifecycle!MayOpen, stageBar, kindBar
  <2>4. QED
    BY <1>1, <1>2, <2>1, <2>2, <2>3, OneRowChanges
       DEF Lifecycle!OpenEntry, stageBar, kindBar
<1>3. CASE entry[k].status # Absent
  BY <1>1, <1>3 DEF barVars, stageBar, kindBar, StageOf
<1>4. QED
  BY <1>2, <1>3

LEMMA ReportMaps ==
    ASSUME IInv, CommitReport
    PROVE  (\E k \in Key, o \in Final : Lifecycle!Report(k, o)) \/ UNCHANGED barVars
<1>0. /\ <<call.who, call.day>> \in Key /\ call.outcome \in Final
      /\ call # None /\ call.op \in {"written", "missed"}
  BY CallType DEF CommitReport, InCall, IInv
<1> PICK k \in Key : k = <<call.who, call.day>>
  BY <1>0
<1>1. k \in Key /\ call.outcome \in Final /\ call # None /\ call.op \in {"written", "missed"}
  BY <1>0
<1>2. entry' = [entry EXCEPT ![k] = IF call.op = "written" THEN Reported(k) ELSE entry[k]]
  BY DEF CommitReport, CommitWith
<1>3. \A l \in Key : l # k => entry'[l] = entry[l]
  BY <1>1, <1>2 DEF IInv, TypeOK
<1>4. UNCHANGED clock
  BY DEF CommitReport, CommitWith
<1>5. CASE call.op = "written"
  <2>1. IsOpen(k)
    BY <1>1, <1>5 DEF IInv, CallKnows
  <2>2. entry'[k] = Reported(k) /\ entry[k] \in Entry
    BY <1>1, <1>2, <1>5 DEF IInv, TypeOK
  <2>3. ~entry[k].autoFailed
    BY <1>1, <2>1 DEF IInv, RowHistory, IsOpen
  <2>4. /\ entry'[k].status = call.outcome /\ entry'[k].kind = entry[k].kind
        /\ ~entry'[k].autoFailed
    BY <2>2, <2>3 DEF Reported, Entry
  <2>5. StageOf(k)' = call.outcome /\ stageBar[k] \in Lifecycle!OpenStage
    BY <1>1, <2>1, <2>3, <2>4, StageValues DEF StageOf, stageBar
  <2>6. kindBar' = kindBar
    BY <1>1, <1>3, <2>4 DEF kindBar
  <2>7. stageBar' = [stageBar EXCEPT ![k] = call.outcome]
    BY <1>1, <1>3, <2>5, OneRowChanges
  <2>8. Lifecycle!Report(k, call.outcome)
    BY <1>4, <2>5, <2>6, <2>7 DEF Lifecycle!Report, stageBar, kindBar
  <2>9. QED
    BY <1>1, <2>8
<1>6. CASE call.op = "missed"
  BY <1>1, <1>2, <1>4, <1>6, QuietStep DEF IInv, TypeOK
<1>7. QED
  BY <1>1, <1>5, <1>6

LEMMA LateReportMaps ==
    ASSUME IInv, CommitLateReport
    PROVE  \E k \in Key : Lifecycle!LateReport(k)
<1>1. <<call.who, call.day>> \in Key /\ call.outcome \in Final /\ call # None /\ call.op = "late"
  BY CallType DEF CommitLateReport, InCall, IInv
<1> PICK k \in Key : k = <<call.who, call.day>>
  BY <1>1
<1>2. entry' = [entry EXCEPT ![k] = [entry[k] EXCEPT !.report = call.outcome]] /\ UNCHANGED clock
  BY DEF CommitLateReport, CommitWith
<1>3. \A l \in Key : l # k => entry'[l] = entry[l]
  BY <1>2 DEF IInv, TypeOK
<1>4. entry[k].kind = "task" /\ entry[k].autoFailed /\ entry[k].report = Absent
  BY <1>1 DEF IInv, CallKnows
<1>5. entry'[k].report = call.outcome /\ entry'[k].kind = "task" /\ entry'[k].autoFailed
  BY <1>2, <1>4 DEF IInv, TypeOK, Entry
<1>6. stageBar[k] = "auto_failed" /\ StageOf(k)' = "auto_failed_reported"
  BY <1>1, <1>4, <1>5 DEF StageOf, stageBar, Final, Absent
<1>7. stageBar' = [stageBar EXCEPT ![k] = "auto_failed_reported"] /\ kindBar' = kindBar
  <2>1. stageBar' = [stageBar EXCEPT ![k] = StageOf(k)']
    BY <1>3, OneRowChanges
  <2>2. \A l \in Key : entry'[l].kind = entry[l].kind
    BY <1>3, <1>4, <1>5
  <2>3. QED
    BY <1>6, <2>1, <2>2 DEF kindBar
<1>8. Lifecycle!LateReport(k)
  BY <1>2, <1>4, <1>6, <1>7 DEF Lifecycle!LateReport, stageBar, kindBar
<1>9. QED
  BY <1>8

LEMMA TickMaps ==
    ASSUME IInv, TickCommits, IInv'
    PROVE  Lifecycle!DeadlinePass
<1>1. /\ \A k \in Key : entry'[k] = IF k \in locked THEN Moved(k) ELSE entry[k]
      /\ UNCHANGED clock
  BY DEF TickCommits
<1>2. \A k \in Key : StageOf(k)' \in Lifecycle!Stage
  <2>1. TypeOK' /\ RowHistory'
    BY DEF IInv
  <2>2. ASSUME NEW k \in Key PROVE StageOf(k)' \in Lifecycle!Stage
    <3>1. entry'[k].status \in Open \cup Final \cup {Absent}
      BY <2>1 DEF TypeOK, Entry
    <3>2. QED
      BY <3>1 DEF StageOf, Open, Final, Absent, Lifecycle!Stage, Lifecycle!OpenStage,
                  Lifecycle!OwnerOutcome, Lifecycle!Overdue
  <2>3. QED
    BY <2>2
<1>3. ASSUME NEW k \in Key, k \notin locked PROVE stageBar'[k] = stageBar[k]
  BY <1>1, <1>3 DEF stageBar, StageOf
<1>4. ASSUME NEW k \in Key, k \in locked PROVE Lifecycle!Due(k, stageBar'[k])
  <2>1. /\ IsOpen(k) /\ plan[k] \in {"awaiting_report", "failed"}
        /\ entry'[k].status = plan[k] /\ entry'[k].report = Absent
        /\ entry'[k].autoFailed <=> plan[k] = "failed"
    BY <1>1, <1>4, MovedRow
  <2>2. stageBar[k] = entry[k].status /\ stageBar[k] \in Lifecycle!OpenStage
    BY <2>1, StageValues DEF stageBar
  <2>3. k[2] \in Day
    BY KeyParts
  <2>4. CASE plan[k] = "failed"
    <3>1. clock >= PromisedNoon(k[2])
      BY <1>4, <2>3, <2>4, MovedRow, PromisesKept
    <3>2. StageOf(k)' = "auto_failed"
      BY <2>1, <2>4 DEF StageOf
    <3>3. QED
      BY <2>2, <2>3, <3>1, <3>2 DEF Lifecycle!Due, stageBar
  <2>5. CASE plan[k] = "awaiting_report"
    <3>1. clock >= PromisedMidnight(k[2]) /\ entry[k].status = "active"
      BY <1>4, <2>3, <2>5, PromisesKept DEF IInv, TickKnows, Transitionable
    <3>2. StageOf(k)' = "awaiting_report"
      BY <2>1, <2>5 DEF StageOf
    <3>3. QED
      BY <2>2, <2>3, <3>1, <3>2 DEF Lifecycle!Due, stageBar
  <2>6. QED
    BY <2>1, <2>4, <2>5
<1>5. kindBar' = kindBar
  BY <1>1, MovedRow DEF kindBar
<1>6. stageBar' \in [Key -> Lifecycle!Stage]
  BY <1>2 DEF stageBar
<1>7. QED
  BY <1>1, <1>3, <1>4, <1>5, <1>6 DEF Lifecycle!DeadlinePass, Lifecycle!Key, Key, stageBar, kindBar

LEMMA StepMaps == IInv /\ IInv' /\ [Next]_vars => [Lifecycle!Next]_barVars
<1> SUFFICES ASSUME IInv, IInv', [Next]_vars PROVE [Lifecycle!Next]_barVars
  OBVIOUS
<1> USE DEF Lifecycle!Next
<1>1. CASE UNCHANGED <<entry, clock>>
  BY <1>1, QuietStep
<1>2. CASE Advance
  <2>1. kindBar' = kindBar /\ stageBar' = stageBar
    BY <1>2 DEF Advance, table, kindBar, stageBar, StageOf
  <2>2. Lifecycle!Advance
    BY <1>2, <2>1 DEF Advance, Lifecycle!Advance, kindBar, stageBar
  <2>3. QED
    BY <2>2
<1>3. CASE CommitSummary
  <2>1. <<call.who, call.day>> \in Key
    BY <1>3 DEF CommitSummary, IInv, TypeOK, InCall, Call, Key
  <2>2. PICK k \in Key : CreateEntry(k, "summary") /\ UNCHANGED clock
    BY <1>3, <2>1 DEF CommitSummary
  <2>3. QED
    BY <2>2, CreateMaps DEF Key, Lifecycle!Key
<1>4. CASE CommitText
  <2>1. <<call.who, call.day>> \in Key /\ ~HasOpenTask(call.who)
    BY <1>4 DEF CommitText, IInv, TypeOK, InCall, Call, Key, PendingExcludesOpenTask
  <2>2. PICK k \in Key : CreateEntry(k, "task") /\ UNCHANGED clock /\ ~HasOpenTask(k[1])
    BY <1>4, <2>1 DEF CommitText
  <2>3. QED
    BY <2>2, CreateMaps DEF Key, Lifecycle!Key
<1>5. CASE CommitReport
  BY <1>5, ReportMaps DEF Key, Lifecycle!Key, Final, Lifecycle!OwnerOutcome
<1>6. CASE CommitLateReport
  BY <1>6, LateReportMaps DEF Key, Lifecycle!Key
<1>7. CASE TickCommits
  BY <1>7, TickMaps
<1>8. QED
  BY <1>1, <1>2, <1>3, <1>4, <1>5, <1>6, <1>7
     DEF Next, UserActs, ApiCommits, WorkerActs, AddPressed, TextArrives,
         ReportArrives, StatusPressed, Begin, ReportPressedTooLate, AlertAcknowledged,
         SubmitUpdate, CommitPrompt, CommitStatus, CommitRejected, ApiAborts, TickBegins,
         TickUpdates, TickAborts, CleanupStale, table, vars

\* Two processes that race over the rows still implement the one-step lifecycle,
\* with the promised deadlines.
THEOREM RefinesLifecycle == Spec => ImplementsLifecycle
<1>1. Spec => [][Lifecycle!Next]_barVars
  BY StepMaps, Invariance, PTL DEF Spec
<1>2. QED
  BY <1>1, InitMaps, PTL
     DEF Spec, ImplementsLifecycle, Lifecycle!Spec, barVars, kindBar, stageBar
=============================================================================
