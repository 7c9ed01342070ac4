----------------------------- MODULE RetryProofs -----------------------------
(***************************************************************************)
(* Proofs about the two loops that try again: UpdatePoller, for any number *)
(* of updates and restarts, and DeliveryRetry, for a clock of any length.  *)
(*                                                                         *)
(* UpdatePoller.  The inductive invariant: every update below the offset,  *)
(* below what Telegram keeps and before the rest of the batch is completed *)
(* (Below), and what this process has completed lies below its offset      *)
(* (Past).  A process that is down has a restart left (DownIsCounted).     *)
(*                                                                         *)
(* DeliveryRetry.  The clock and the wait in progress cover the waits of   *)
(* all failures so far (Waited); a pass that finds its delivery due has    *)
(* them behind it, and its own length besides (DueKnown).                  *)
(***************************************************************************)
EXTENDS UpdatePoller, DeliveryRetry, TLAPS

-----------------------------------------------------------------------------
(* The loop over updates.                                                  *)

Below ==
    /\ \A u \in 1..kept - 1 : Handled(u)
    /\ \A u \in 1..offset - 1 : Handled(u)
    /\ Batched => \A u \in 1..first - 1 : Handled(u)

Past ==
    \A i \in 1..Len(log) :
        log[i].run <= restarts /\ (up /\ log[i].run = restarts => log[i].id < offset)

\* One process completes an update once: only a restart can repeat it.
RepeatsNeedRestart ==
    \A i, j \in 1..Len(log) : i < j /\ log[i].run = log[j].run => log[i].id < log[j].id

DownIsCounted == ~up => restarts < MaxRestarts

IInv == TypeOK /\ DownIsCounted /\ Below /\ Past /\ InOrder /\ RepeatsNeedRestart

LEMMA InitIInv == Init => IInv
<1> SUFFICES ASSUME Init PROVE IInv  OBVIOUS
<1> USE DEF Init
<1>1. TypeOK  BY BoundsAssumption DEF TypeOK
<1>2. Below  BY DEF Below, Batched
<1>3. Past /\ InOrder /\ RepeatsNeedRestart /\ DownIsCounted
  BY DEF Past, InOrder, RepeatsNeedRestart, DownIsCounted
<1>4. QED  BY <1>1, <1>2, <1>3 DEF IInv

\* A shorter prefix of the updates is part of a longer one.
LEMMA Prefix ==
    ASSUME NEW a \in Int, NEW b \in Int, a <= b
    PROVE  \A u \in 1..a - 1 : u \in 1..b - 1
OBVIOUS

\* A step that leaves the log alone need only mind the numbers.
LEMMA SilentKeepsIInv ==
    ASSUME IInv, UNCHANGED log, TypeOK', DownIsCounted',
           kept' <= kept \/ kept' <= offset,
           offset' <= offset,
           Batched' => first' <= kept' \/ first' <= offset \/ (Batched /\ first' = first),
           \/ UNCHANGED <<restarts, up, offset>>
           \/ restarts' = restarts /\ ~up'
           \/ restarts' = restarts + 1
    PROVE  IInv'
<1> USE DEF IInv, TypeOK
<1>1. \A u : Handled(u)' <=> Handled(u)  BY DEF Handled
<1>0. /\ kept \in Int /\ kept' \in Int /\ offset \in Int /\ offset' \in Int
      /\ first \in Int /\ first' \in Int
  BY BoundsAssumption
<1>2. \A u \in 1..kept' - 1 : Handled(u)
  <2>1. CASE kept' <= kept  BY <1>0, <2>1, Prefix DEF Below
  <2>2. CASE kept' <= offset  BY <1>0, <2>2, Prefix DEF Below
  <2>3. QED  BY <2>1, <2>2
<1>3. \A u \in 1..offset' - 1 : Handled(u)  BY <1>0, Prefix DEF Below
<1>4. Batched' => \A u \in 1..first' - 1 : Handled(u)
  <2> SUFFICES ASSUME Batched' PROVE \A u \in 1..first' - 1 : Handled(u)  OBVIOUS
  <2>1. CASE first' <= kept'  BY <1>0, <1>2, <2>1, Prefix
  <2>2. CASE first' <= offset  BY <1>0, <2>2, Prefix DEF Below
  <2>3. CASE Batched /\ first' = first  BY <2>3 DEF Below
  <2>4. QED  BY <2>1, <2>2, <2>3
<1>5. Below'  BY <1>1, <1>2, <1>3, <1>4 DEF Below
<1>6. Past'
  <2> SUFFICES ASSUME NEW i \in 1..Len(log)
               PROVE  log[i].run <= restarts'
                      /\ (up' /\ log[i].run = restarts' => log[i].id < offset')
    BY DEF Past
  <2>1. log[i].run \in 0..MaxRestarts
    <3>1. log[i] \in Entry
      <4>1. log \in Seq(Entry)  OBVIOUS
      <4>2. i \in 1..Len(log)  OBVIOUS
      <4> HIDE DEF IInv, TypeOK
      <4>. QED  BY <4>1, <4>2
    <3>2. QED  BY <3>1 DEF Entry
  <2>2. log[i].run <= restarts /\ (up /\ log[i].run = restarts => log[i].id < offset)
    BY DEF Past
  <2>3. QED  BY <2>1, <2>2, BoundsAssumption
<1>7. InOrder' /\ RepeatsNeedRestart'  BY DEF InOrder, RepeatsNeedRestart
<1>8. QED  BY <1>5, <1>6, <1>7

LEMMA PollKeepsIInv == ASSUME IInv, Poll PROVE IInv'
<1> USE BoundsAssumption DEF Poll, IInv
<1>1. PICK begin \in kept..Last + 1 :
        /\ begin = kept \/ begin <= offset
        /\ kept' = begin /\ first' = begin
        /\ last' \in (begin - 1)..sent
  OBVIOUS
<1>2. TypeOK' /\ DownIsCounted'  BY <1>1 DEF TypeOK, DownIsCounted
<1>3. QED  BY <1>1, <1>2, SilentKeepsIInv DEF TypeOK

LEMMA SkipKeepsIInv == ASSUME IInv, Skip PROVE IInv'
<1> USE BoundsAssumption DEF Skip, IInv, Batched
<1>1. TypeOK' /\ DownIsCounted'
  <2>1. first' \in 1..Last + 1  BY DEF TypeOK
  <2>2. QED  BY <2>1 DEF TypeOK, DownIsCounted
<1>2. first' <= offset /\ kept' <= kept /\ offset' <= offset  BY DEF TypeOK
<1>3. QED  BY <1>1, <1>2, SilentKeepsIInv

LEMMA EndOfBatchKeepsIInv ==
    ASSUME IInv, Fails \/ Dies \/ Starts \/ Sends PROVE IInv'
<1> USE BoundsAssumption DEF IInv, Fails, Dies, Starts, Sends, Drops, Batched
<1>1. TypeOK' /\ DownIsCounted'
  <2>1. first' \in 1..Last + 1  BY DEF TypeOK
  <2>2. restarts' \in 0..MaxRestarts  BY DEF TypeOK, DownIsCounted
  <2>3. sent' \in 0..Last /\ offset' \in 0..Last + 1  BY DEF TypeOK
  <2>4. up' \in BOOLEAN /\ UNCHANGED <<kept, last, log>>  BY DEF TypeOK
  <2>5. TypeOK'  BY <2>1, <2>2, <2>3, <2>4 DEF TypeOK
  <2>6. DownIsCounted'  BY DEF TypeOK, DownIsCounted
  <2>7. QED  BY <2>5, <2>6
<1>2. Batched' => Batched /\ first' = first  BY DEF TypeOK
<1>3. UNCHANGED <<log, kept>> /\ kept' <= kept /\ offset' <= offset  BY DEF TypeOK
<1>4. \/ UNCHANGED <<restarts, up, offset>>
      \/ restarts' = restarts /\ ~up'
      \/ restarts' = restarts + 1
  OBVIOUS
<1>5. QED  BY <1>1, <1>2, <1>3, <1>4, SilentKeepsIInv

\* The update handled is the first one not completed by this process.
LEMMA HandlesKeepsIInv == ASSUME IInv, Handles PROVE IInv'
<1> USE DEF IInv
<1>1. first \in Update /\ first <= last
  BY BoundsAssumption DEF Handles, Batched, TypeOK, Update
<1>2. PICK e \in Entry : e = [run |-> restarts, id |-> first]  BY <1>1 DEF Entry, TypeOK
<1>3. e.run = restarts /\ e.id = first  BY <1>2
<1>4. log \in Seq(Entry) /\ log' = Append(log, e)  BY <1>2 DEF Handles, TypeOK
<1>5. /\ log' \in Seq(Entry) /\ Len(log') = Len(log) + 1
      /\ log'[Len(log) + 1] = e
      /\ \A i \in 1..Len(log) : log'[i] = log[i]
  BY <1>4
<1>6. Len(log) \in Nat  BY <1>4
<1>7. UNCHANGED <<sent, kept, up, restarts, last>> /\ up /\ first >= offset
      /\ offset' = first + 1 /\ first' = first + 1 /\ Batched
  BY DEF Handles
<1>8. TypeOK' /\ DownIsCounted'
  BY <1>1, <1>5, <1>7, BoundsAssumption DEF TypeOK, DownIsCounted, Update
<1>9. \A u : Handled(u) => Handled(u)'  BY <1>5, <1>6 DEF Handled
<1>10. \E i \in 1..Len(log') : log'[i].id = first  BY <1>3, <1>5, <1>6
<1>11. \A u \in 1..first - 1 : Handled(u)  BY <1>7 DEF Below
<1>12. \A u \in 1..first : Handled(u)'
  <2> TAKE u \in 1..first
  <2>1. CASE u = first  BY <1>10, <2>1 DEF Handled
  <2>2. CASE u # first
    <3>1. u \in 1..first - 1  BY <1>1, <2>2 DEF Update
    <3>2. QED  BY <1>9, <1>11, <3>1
  <2>3. QED  BY <2>1, <2>2
<1>13. \A u \in 1..kept - 1 : Handled(u)'  BY <1>9 DEF Below
<1>14. Below'
  <2>1. \A u \in 1..kept' - 1 : Handled(u)'  BY <1>7, <1>13
  <2>2. \A u \in 1..offset' - 1 : Handled(u)'  BY <1>1, <1>7, <1>12 DEF Update
  <2>3. \A u \in 1..first' - 1 : Handled(u)'  BY <1>1, <1>7, <1>12 DEF Update
  <2>4. QED  BY <2>1, <2>2, <2>3 DEF Below
<1>15. \A i \in 1..Len(log) : log[i].run <= restarts
                              /\ (log[i].run = restarts => log[i].id < first)
  <2> TAKE i \in 1..Len(log)
  <2>1. log[i] \in Entry  BY <1>4
  <2>2. log[i].id \in Nat  BY <2>1 DEF Entry, Update
  <2>3. QED  BY <1>1, <1>7, <2>2 DEF Past, TypeOK, Update
<1>16. \A i \in 1..Len(log') : i \in 1..Len(log) \/ i = Len(log) + 1  BY <1>5, <1>6
<1>17. Past'
  <2> SUFFICES ASSUME NEW i \in 1..Len(log')
               PROVE  log'[i].run <= restarts /\ (log'[i].run = restarts => log'[i].id < first + 1)
    BY <1>7 DEF Past
  <2>1. CASE i \in 1..Len(log)
    <3>1. log[i] \in Entry  BY <1>4, <2>1
    <3>2. log[i].id \in Nat  BY <3>1 DEF Entry, Update
    <3>3. QED  BY <1>1, <1>5, <1>15, <2>1, <3>2 DEF Update
  <2>2. CASE i = Len(log) + 1  BY <1>1, <1>3, <1>5, <2>2 DEF Update, TypeOK
  <2>3. QED  BY <1>16, <2>1, <2>2
<1>18. InOrder'
  <2> SUFFICES ASSUME NEW i \in 1..Len(log'), NEW u \in 1..log'[i].id - 1
               PROVE  \E j \in 1..i - 1 : log'[j].id = u
    BY DEF InOrder
  <2>1. CASE i \in 1..Len(log)
    <3>1. PICK j \in 1..i - 1 : log[j].id = u  BY <1>5, <2>1 DEF InOrder
    <3>2. j \in 1..Len(log)  BY <1>6, <2>1
    <3>3. QED  BY <1>5, <3>1, <3>2
  <2>2. CASE i = Len(log) + 1
    <3>1. u \in 1..first - 1  BY <1>3, <1>5, <2>2
    <3>2. PICK j \in 1..Len(log) : log[j].id = u  BY <1>11, <3>1 DEF Handled
    <3>3. QED  BY <1>5, <1>6, <2>2, <3>2
  <2>3. QED  BY <1>16, <2>1, <2>2
<1>19. RepeatsNeedRestart'
  <2> SUFFICES ASSUME NEW i \in 1..Len(log'), NEW j \in 1..Len(log'), i < j,
                      log'[i].run = log'[j].run
               PROVE  log'[i].id < log'[j].id
    BY DEF RepeatsNeedRestart
  <2>1. i \in 1..Len(log)  BY <1>5, <1>6
  <2>2. CASE j \in 1..Len(log)  BY <1>5, <2>1, <2>2 DEF RepeatsNeedRestart
  <2>3. CASE j = Len(log) + 1  BY <1>3, <1>5, <1>15, <2>1, <2>3
  <2>4. QED  BY <1>16, <2>2, <2>3
<1>20. QED  BY <1>8, <1>14, <1>17, <1>18, <1>19

LEMMA NextIInv == IInv /\ [Next]_vars => IInv'
<1> SUFFICES ASSUME IInv, [Next]_vars PROVE IInv'  OBVIOUS
<1>1. CASE Fails \/ Dies \/ Starts \/ Sends  BY <1>1, EndOfBatchKeepsIInv
<1>2. CASE Poll  BY <1>2, PollKeepsIInv
<1>3. CASE Skip  BY <1>3, SkipKeepsIInv
<1>4. CASE Handles  BY <1>4, HandlesKeepsIInv
<1>5. CASE UNCHANGED vars
  <2> USE <1>5 DEF vars
  <2>1. TypeOK' /\ DownIsCounted'  BY DEF IInv, TypeOK, DownIsCounted
  <2>2. Below'  BY DEF IInv, Below, Batched, Handled
  <2>3. Past' /\ InOrder' /\ RepeatsNeedRestart'
    BY DEF IInv, Past, InOrder, RepeatsNeedRestart
  <2>4. QED  BY <2>1, <2>2, <2>3 DEF IInv
<1>6. QED  BY <1>1, <1>2, <1>3, <1>4, <1>5 DEF Next

\* Every reachable state satisfies the inductive invariant.
THEOREM Inductive == Spec => []IInv
BY InitIInv, NextIInv, PTL DEF Spec

\* The loop's state keeps its types.
THEOREM TypeCorrect == Spec => []TypeOK
<1>1. IInv => TypeOK  BY DEF IInv
<1>2. QED  BY <1>1, Inductive, PTL

\* Telegram may forget only completed updates.
THEOREM NothingIsLost == Spec => []ForgottenIsHandled
<1>1. IInv => ForgottenIsHandled  BY DEF IInv, Below, ForgottenIsHandled
<1>2. QED  BY <1>1, Inductive, PTL

\* Updates complete in their order.
THEOREM CompletesInOrder == Spec => []InOrder
<1>1. IInv => InOrder  BY DEF IInv
<1>2. QED  BY <1>1, Inductive, PTL

\* One process completes an update once.
THEOREM OncePerProcess == Spec => []RepeatsNeedRestart
<1>1. IInv => RepeatsNeedRestart  BY DEF IInv
<1>2. QED  BY <1>1, Inductive, PTL

\* What Telegram keeps begins no later than where the process is to go on, and the rest
\* of the batch too; and it lies in what was sent.
BatchInPlace ==
    /\ offset = 0 \/ (offset >= 2 /\ kept <= offset)
    /\ Batched => /\ last <= sent
                  /\ IF offset = 0 THEN first = kept ELSE first <= offset

\* Some number of updates is the one that has been completed.
SomeCompleted == \E n \in 0..Last : IsGreatest(n)

QInv == BatchInPlace /\ SomeCompleted

LEMMA CompletedIs ==
    TypeOK => \A n \in 0..Last : IsGreatest(n) => Completed = n
<1> SUFFICES ASSUME TypeOK, NEW n \in 0..Last, IsGreatest(n) PROVE Completed = n  OBVIOUS
<1>1. PICK m \in 0..Last : m = Completed /\ IsGreatest(m)  BY DEF Completed
<1>2. ASSUME NEW a \in 0..Last, NEW b \in 0..Last, IsGreatest(a), IsGreatest(b) PROVE a <= b
  <2>1. CASE a = 0  BY <2>1, BoundsAssumption
  <2>2. CASE Handled(a)  BY <1>2, <2>2 DEF Handled, IsGreatest
  <2>3. QED  BY <1>2, <2>1, <2>2 DEF IsGreatest
<1>3. n <= m /\ m <= n  BY <1>1, <1>2
<1>4. n \in Int /\ m \in Int  BY BoundsAssumption
<1>5. QED  BY <1>1, <1>3, <1>4

LEMMA CompletedIsThen ==
    TypeOK' => (\A n \in 0..Last : IsGreatest(n) => Completed = n)'
BY CompletedIs, PTL

LEMMA InitQInv == Init => QInv
<1> SUFFICES ASSUME Init PROVE QInv  OBVIOUS
<1>1. BatchInPlace  BY DEF Init, BatchInPlace, Batched
<1>2. IsGreatest(0)  BY DEF Init, IsGreatest
<1>3. QED  BY <1>1, <1>2, BoundsAssumption DEF QInv, SomeCompleted

\* The completion of the update whose turn it is.
LEMMA HandlesKeepsQInv ==
    ASSUME IInv, IInv', QInv, Handles
    PROVE  /\ QInv' /\ first = Queue!Turn /\ first <= sent /\ Acknowledged' = first
           /\ Completed' = IF first > Completed THEN first ELSE Completed
<1>1. TypeOK /\ TypeOK' /\ BatchInPlace /\ SomeCompleted  BY DEF IInv, QInv
<1>2. UNCHANGED <<sent, kept, up, restarts, last>> /\ first >= offset /\ first <= last
      /\ offset' = first + 1 /\ first' = first + 1
  BY DEF Handles, Batched
<1>3. first \in Update /\ offset \in 0..Last + 1 /\ sent \in 0..Last /\ last \in 0..Last
      /\ kept \in 1..Last + 1
  BY <1>1, <1>2, BoundsAssumption DEF TypeOK, Update
<1>4. /\ last <= sent /\ IF offset = 0 THEN first = kept ELSE first <= offset
      /\ offset = 0 \/ (offset >= 2 /\ kept <= offset)
  BY <1>1, <1>2 DEF BatchInPlace, Batched
<1>5. Acknowledged' = first  BY <1>2, <1>3 DEF Acknowledged, Update
<1>6. first = Queue!Turn /\ first <= sent
  BY <1>2, <1>3, <1>4 DEF Acknowledged, Queue!Turn, Update
<1>7. PICK e \in Entry : e = [run |-> restarts, id |-> first]
  BY <1>1, <1>3 DEF Entry, TypeOK
<1>0. PICK f \in Update : f = first  BY <1>3
<1>8. log \in Seq(Entry) /\ log' = Append(log, e) /\ e.id = f
  BY <1>0, <1>1, <1>7 DEF Handles, TypeOK
<1>9. /\ Len(log') = Len(log) + 1 /\ log'[Len(log) + 1].id = f
      /\ \A i \in 1..Len(log) : log'[i] = log[i]
      /\ Len(log) \in Nat
  BY <1>8
<1>10. \A i \in 1..Len(log') : i \in 1..Len(log) \/ i = Len(log) + 1  BY <1>9
<1>11. PICK c \in 0..Last : IsGreatest(c)  BY <1>1 DEF SomeCompleted
<1>12. Completed = c  BY <1>1, <1>11, CompletedIs
<1>13. Handled(f)'  BY <1>9 DEF Handled
<1>14. Handled(c) => Handled(c)'  BY <1>9 DEF Handled
<1>15. PICK n \in 0..Last : n = IF f > c THEN f ELSE c
  BY BoundsAssumption DEF Update
<1>16. IsGreatest(n)'
  <2>1. n = 0 \/ Handled(n)'  BY <1>11, <1>13, <1>14, <1>15 DEF IsGreatest
  <2>2. ASSUME NEW i \in 1..Len(log') PROVE log'[i].id <= n
    <3>1. CASE i \in 1..Len(log)
      <4>1. log[i] \in Entry  BY <1>8, <3>1
      <4>2. log[i].id \in Int  BY <4>1 DEF Entry, Update
      <4>3. log[i].id <= c  BY <1>11, <3>1 DEF IsGreatest
      <4>4. log'[i].id = log[i].id  BY <1>9, <3>1
      <4>5. QED  BY <1>15, <4>2, <4>3, <4>4, BoundsAssumption DEF Update
    <3>2. CASE i = Len(log) + 1  BY <1>9, <1>15, <3>2, BoundsAssumption DEF Update
    <3>3. QED  BY <1>10, <3>1, <3>2
  <2>3. QED  BY <2>1, <2>2 DEF IsGreatest
<1>17. Completed' = n  BY <1>1, <1>16, CompletedIsThen
<1>18. BatchInPlace'
  BY <1>2, <1>3, <1>4 DEF BatchInPlace, Batched, Update
<1>19. QED  BY <1>5, <1>6, <1>12, <1>15, <1>16, <1>17, <1>18, <1>0 DEF QInv, SomeCompleted

\* Every other step leaves the log alone.
LEMMA SilentKeepsQInv ==
    ASSUME IInv, IInv', QInv, UNCHANGED log, BatchInPlace' PROVE QInv' /\ Completed' = Completed
<1>1. TypeOK /\ TypeOK' /\ SomeCompleted  BY DEF IInv, QInv
<1>2. PICK c \in 0..Last : IsGreatest(c)  BY <1>1 DEF SomeCompleted
<1>3. IsGreatest(c)'  BY <1>2 DEF IsGreatest, Handled
<1>4. Completed = c  BY <1>1, <1>2, CompletedIs
<1>5. Completed' = c  BY <1>1, <1>3, CompletedIsThen
<1>6. QED  BY <1>3, <1>4, <1>5 DEF QInv, SomeCompleted

LEMMA StepOfQueue ==
    ASSUME IInv, IInv', QInv, [Next]_vars
    PROVE  QInv' /\ [Queue!QueueNext]_(Queue!queue)
<1> USE BoundsAssumption DEF Queue!QueueNext, Queue!queue
<1>1. TypeOK /\ TypeOK' /\ BatchInPlace  BY DEF IInv, QInv
<1>2. CASE Sends
  <2>1. BatchInPlace'  BY <1>1, <1>2 DEF Sends, BatchInPlace, Batched, TypeOK
  <2>2. QInv' /\ Completed' = Completed  BY <1>2, <2>1, SilentKeepsQInv DEF Sends
  <2>3. Queue!Arrives  BY <1>2, <2>2 DEF Sends, Queue!Arrives, Acknowledged
  <2>4. QED  BY <2>2, <2>3
<1>3. CASE Poll
  <2>1. PICK begin \in kept..Last + 1 :
          /\ begin = kept \/ begin <= offset
          /\ kept' = begin /\ first' = begin
          /\ last' \in (begin - 1)..sent
    BY <1>3 DEF Poll
  <2>2. UNCHANGED <<sent, up, restarts, offset, log>>  BY <1>3 DEF Poll
  <2>3. BatchInPlace'  BY <1>1, <2>1, <2>2 DEF BatchInPlace, Batched, TypeOK
  <2>4. QInv' /\ Completed' = Completed  BY <2>2, <2>3, SilentKeepsQInv
  <2>5. CASE kept' = kept  BY <2>2, <2>4, <2>5 DEF Acknowledged
  <2>6. CASE kept' # kept
    <3>1. kept' - 1 \in kept - 1..Acknowledged  BY <1>1, <2>1, <2>6 DEF Acknowledged, TypeOK
    <3>2. Queue!Forgets  BY <2>2, <2>4, <3>1 DEF Queue!Forgets, Acknowledged
    <3>3. QED  BY <2>4, <3>2
  <2>7. QED  BY <2>5, <2>6
<1>4. CASE Skip
  <2>1. BatchInPlace'  BY <1>1, <1>4 DEF Skip, BatchInPlace, Batched, TypeOK
  <2>2. QInv' /\ Completed' = Completed  BY <1>4, <2>1, SilentKeepsQInv DEF Skip
  <2>3. QED  BY <1>4, <2>2 DEF Skip, Acknowledged
<1>5. CASE Handles
  <2>1. /\ QInv' /\ first = Queue!Turn /\ first <= sent /\ Acknowledged' = first
        /\ Completed' = IF first > Completed THEN first ELSE Completed
    BY <1>5, HandlesKeepsQInv
  <2>2. UNCHANGED <<sent, kept>>  BY <1>5 DEF Handles
  <2>3. Queue!Completes  BY <2>1, <2>2 DEF Queue!Completes
  <2>4. QED  BY <2>1, <2>3
<1>6. CASE Fails
  <2>1. BatchInPlace'  BY <1>1, <1>6 DEF Fails, Drops, BatchInPlace, Batched, TypeOK
  <2>2. QInv' /\ Completed' = Completed  BY <1>6, <2>1, SilentKeepsQInv DEF Fails
  <2>3. QED  BY <1>6, <2>2 DEF Fails, Acknowledged
<1>7. CASE Dies
  <2>1. BatchInPlace'  BY <1>1, <1>7 DEF Dies, Drops, BatchInPlace, Batched, TypeOK
  <2>2. QInv' /\ Completed' = Completed  BY <1>7, <2>1, SilentKeepsQInv DEF Dies
  <2>3. Queue!StartsOver  BY <1>7, <2>2 DEF Dies, Queue!StartsOver, Acknowledged
  <2>4. QED  BY <2>2, <2>3
<1>8. CASE Starts
  <2>1. BatchInPlace'  BY <1>1, <1>8 DEF Starts, BatchInPlace, Batched
  <2>2. QInv' /\ Completed' = Completed  BY <1>8, <2>1, SilentKeepsQInv DEF Starts
  <2>3. QED  BY <1>8, <2>2 DEF Starts, Acknowledged
<1>9. CASE UNCHANGED vars
  <2>1. BatchInPlace'  BY <1>1, <1>9 DEF vars, BatchInPlace, Batched
  <2>2. QInv' /\ Completed' = Completed  BY <1>9, <2>1, SilentKeepsQInv DEF vars
  <2>3. QED  BY <1>9, <2>2 DEF vars, Acknowledged
<1>10. QED  BY <1>2, <1>3, <1>4, <1>5, <1>6, <1>7, <1>8, <1>9 DEF Next

LEMMA InitOfQueue == Init => Queue!QueueInit
<1> SUFFICES ASSUME Init PROVE Queue!QueueInit  OBVIOUS
<1>1. TypeOK  BY InitIInv DEF IInv
<1>2. IsGreatest(0)  BY DEF Init, IsGreatest
<1>3. Completed = 0  BY <1>1, <1>2, CompletedIs, BoundsAssumption
<1>4. QED  BY <1>3 DEF Init, Queue!QueueInit, Acknowledged

\* The polling loop implements the queue: whatever answers are lost, handlers fail and
\* processes die, each process completes the updates one after another from the first
\* that is not forgotten, and only what it has completed itself is forgotten.
THEOREM RefinesQueue == Spec => ImplementsQueue
<1>1. IInv /\ IInv' /\ QInv /\ [Next]_vars => QInv' /\ [Queue!QueueNext]_(Queue!queue)
  BY StepOfQueue
<1>2. QED  BY <1>1, Inductive, InitQInv, InitOfQueue, PTL DEF Spec, ImplementsQueue, Queue!QueueSpec

-----------------------------------------------------------------------------
(* The retries of a delivery.                                              *)

Times ==
    /\ clock \in 0..MaxClock /\ left \in 0..LongestWait
    /\ age \in 0..LongestWait \cup {None}
    /\ attempts \in 0..Budget

\* Minutes that n failures of a delivery that is run take at least.
Spent(n) == 2 ^ n - 1

\* The time that has passed since the clock began, up to its bound, is at least n.
Passed(n) == clock >= n \/ clock = MaxClock

PassKnown == age # None => Passed(age)

\* With the wait in progress, n failures have taken their time.
Waited ==
    /\ attempts = Budget => exhausted /\ GivesUpLate
    /\ attempts < Budget /\ ~claimed => clock + left >= Spent(attempts)
    /\ attempts = Budget - 1 /\ claimed => clock + left >= LongestWait

\* A delivery found due has waited, and the pass has taken its time besides.
DueKnown == due /\ attempts < Budget => ~claimed /\ age # None /\ Passed(Spent(attempts) + age)

RetryIInv == Times /\ PassKnown /\ Waited /\ DueKnown

LEMMA SmallerOfTwo == ASSUME NEW a \in Int, NEW b \in Int
                      PROVE  Min({a, b}) = IF a <= b THEN a ELSE b
BY DEF Min

LEMMA LargerOfTwo == ASSUME NEW a \in Int, NEW b \in Int
                     PROVE  Max({a, b}) = IF a >= b THEN a ELSE b
BY DEF Max

\* The waits double up to 64 minutes, and n of them add up.
LEMMA WaitsAddUp ==
    ASSUME NEW n \in 0..Budget - 1
    PROVE  /\ Spent(n) \in 0..127 /\ Wait(n) \in 1..LongestWait
           /\ n < Budget - 1 => Spent(n + 1) = Spent(n) + Wait(n)
           /\ n >= Budget - 2 => Wait(n) = LongestWait
<1>1. Spent(0) = 0 /\ Spent(1) = 1 /\ Spent(2) = 3 /\ Spent(3) = 7 /\ Spent(4) = 15
      /\ Spent(5) = 31 /\ Spent(6) = 63 /\ Spent(7) = 127
  BY DEF Spent
<1>2. /\ \A k \in 0..6 : Min({k, 6}) = k
      /\ Min({7, 6}) = 6
  BY SmallerOfTwo
<1>3. Min({0, 6}) = 0 /\ Min({1, 6}) = 1 /\ Min({2, 6}) = 2 /\ Min({3, 6}) = 3
      /\ Min({4, 6}) = 4 /\ Min({5, 6}) = 5 /\ Min({6, 6}) = 6
  BY <1>2
<1>4. Wait(0) = 1 /\ Wait(1) = 2 /\ Wait(2) = 4 /\ Wait(3) = 8 /\ Wait(4) = 16
      /\ Wait(5) = 32 /\ Wait(6) = 64 /\ Wait(7) = 64
  <2>1. 2 ^ 0 = 1 /\ 2 ^ 1 = 2 /\ 2 ^ 2 = 4 /\ 2 ^ 3 = 8 /\ 2 ^ 4 = 16 /\ 2 ^ 5 = 32 /\ 2 ^ 6 = 64
    OBVIOUS
  <2>2. QED  BY <1>2, <1>3, <2>1, Zenon DEF Wait
<1>5. n = 0 \/ n = 1 \/ n = 2 \/ n = 3 \/ n = 4 \/ n = 5 \/ n = 6 \/ n = 7
  BY DEF Budget
<1>6. QED  BY <1>1, <1>4, <1>5 DEF Budget, LongestWait

LEMMA InitRetryIInv == RetryInit => RetryIInv
<1> SUFFICES ASSUME RetryInit PROVE RetryIInv  OBVIOUS
<1> USE DEF RetryInit
<1>1. Times  BY ClockAssumption DEF Times, Budget, LongestWait
<1>2. Spent(0) = 0  BY DEF Spent
<1>3. clock >= age /\ clock >= Spent(attempts) + age /\ clock + left >= Spent(attempts)
      /\ attempts # Budget /\ attempts # Budget - 1 /\ age # None
  BY <1>2, ClockAssumption DEF Budget
<1>4. PassKnown /\ Waited /\ DueKnown
  BY <1>3, Zenon DEF PassKnown, Waited, DueKnown, Passed
<1>5. QED  BY <1>1, <1>4 DEF RetryIInv

\* A minute more on the clock makes up for the minute less to wait.
LEMMA TimePasses ==
    ASSUME NEW c \in Int, NEW cc \in Int, NEW l \in Int, NEW ll \in Nat, NEW s \in Int,
           NEW m \in Int, s <= m, c + l >= s, ll + 1 >= l, cc = m \/ cc = c + 1
    PROVE  cc + ll >= s
OBVIOUS

\* What the pass has taken of the longest wait is on the clock.
LEMMA LongestOfThem ==
    ASSUME NEW c \in Int, NEW a \in Int, NEW l \in Nat, l + a >= LongestWait, c >= a \/ c >= 127
    PROVE  c + l >= LongestWait
BY DEF LongestWait

LEMMA MinuteKeepsRetryIInv == ASSUME RetryIInv, Minute PROVE RetryIInv'
<1> USE ClockAssumption
<1>1. Times /\ PassKnown /\ Waited /\ DueKnown  BY DEF RetryIInv
<1>2. clock' = IF clock + 1 <= MaxClock THEN clock + 1 ELSE MaxClock
  BY <1>1, SmallerOfTwo DEF Minute, Times
<1>3. age' = IF age = None THEN None ELSE IF age + 1 <= LongestWait THEN age + 1 ELSE LongestWait
  BY <1>1, SmallerOfTwo DEF Minute, Times, LongestWait
<1>4. left' = IF left - 1 >= 0 THEN left - 1 ELSE 0
  BY <1>1, LargerOfTwo DEF Minute, Times, LongestWait
<1>5. UNCHANGED <<claimed, attempts, exhausted, due, delivered>>  BY DEF Minute
<1>6. Times'  BY <1>1, <1>2, <1>3, <1>4, <1>5 DEF Times, LongestWait
<1>7. clock' >= clock /\ (clock' = MaxClock \/ clock' = clock + 1) /\ left' + 1 >= left
  BY <1>1, <1>2, <1>4 DEF Times, LongestWait
<1>0. clock \in Int /\ clock' \in Int /\ left \in Int /\ left' \in Nat /\ MaxClock \in Int
  BY <1>1, <1>6 DEF Times, LongestWait
<1>8. attempts < Budget => Spent(attempts) \in 0..127
  BY <1>1, WaitsAddUp DEF Times, Budget
<1>9. age # None => age \in 0..LongestWait /\ age' # None /\ age' <= age + 1
  BY <1>1, <1>3 DEF Times, LongestWait
<1>10. PassKnown'
  BY <1>1, <1>3, <1>6, <1>7, <1>9 DEF PassKnown, Passed, Times, LongestWait
<1>11. Waited'
  <2>1. attempts = Budget => exhausted /\ GivesUpLate'
    BY <1>1, <1>5, <1>7 DEF Waited, GivesUpLate, Times
  <2>2. attempts < Budget /\ ~claimed => clock' + left' >= Spent(attempts)
    <3> SUFFICES ASSUME attempts < Budget, ~claimed PROVE clock' + left' >= Spent(attempts)
      OBVIOUS
    <3>1. clock + left >= Spent(attempts)  BY <1>1 DEF Waited
    <3>2. Spent(attempts) \in Int /\ Spent(attempts) <= MaxClock  BY <1>8
    <3>3. QED  BY <1>0, <1>7, <3>1, <3>2, TimePasses, Zenon
  <2>3. attempts = Budget - 1 /\ claimed => clock' + left' >= LongestWait
    <3> SUFFICES ASSUME attempts = Budget - 1, claimed PROVE clock' + left' >= LongestWait
      OBVIOUS
    <3>1. clock + left >= LongestWait  BY <1>1 DEF Waited
    <3>2. LongestWait \in Int /\ LongestWait <= MaxClock  BY DEF LongestWait
    <3>3. QED  BY <1>0, <1>7, <3>1, <3>2, TimePasses, Zenon
  <2>4. QED  BY <1>5, <2>1, <2>2, <2>3 DEF Waited, Spent
<1>12. DueKnown'
  <2>1. due /\ attempts < Budget => ~claimed /\ age' # None
                                    /\ (clock' >= Spent(attempts) + age' \/ clock' = MaxClock)
    BY <1>1, <1>6, <1>7, <1>8, <1>9 DEF DueKnown, Passed, Times, LongestWait
  <2>2. QED  BY <1>5, <2>1 DEF DueKnown, Passed, Spent
<1>13. QED  BY <1>6, <1>10, <1>11, <1>12 DEF RetryIInv

LEMMA PassKeepsRetryIInv == ASSUME RetryIInv, PassBegins \/ PassEnds PROVE RetryIInv'
<1> USE ClockAssumption
<1>1. Times /\ PassKnown /\ Waited /\ DueKnown  BY DEF RetryIInv
<1>2. UNCHANGED <<claimed, attempts, left, exhausted, delivered>>
  BY DEF PassBegins, PassEnds
<1>3. Times'  BY <1>1 DEF PassBegins, PassEnds, Times, LongestWait
<1>4. attempts < Budget => Spent(attempts) \in 0..127
  BY <1>1, WaitsAddUp DEF Times, Budget
<1>5. Spent(0) = 0  BY DEF Spent
<1>6. CASE PassBegins
  <2>1. age' = 0 /\ due' = (~claimed /\ left = 0) /\ clock' = IF attempts = 0 THEN 0 ELSE clock
    BY <1>6 DEF PassBegins
  <2>2. PassKnown'  BY <1>3, <2>1 DEF PassKnown, Passed, Times
  <2>3. attempts = Budget => exhausted /\ GivesUpLate'
    BY <1>1, <1>2, <2>1 DEF Waited, GivesUpLate, Budget
  <2>4. attempts < Budget /\ ~claimed => clock' + left >= Spent(attempts)
    BY <1>1, <1>5, <2>1 DEF Waited, Times, LongestWait
  <2>5. attempts = Budget - 1 /\ claimed => clock' + left >= LongestWait
    BY <1>1, <2>1 DEF Waited, Budget
  <2>6. Waited'  BY <1>2, <2>3, <2>4, <2>5 DEF Waited, Spent
  <2>7. due' /\ attempts < Budget => ~claimed /\ age' # None
                                     /\ (clock' >= Spent(attempts) + age' \/ clock' = MaxClock)
    <3> SUFFICES ASSUME due', attempts < Budget
                 PROVE  ~claimed /\ age' # None /\ clock' >= Spent(attempts) + age'
      OBVIOUS
    <3>1. ~claimed /\ left = 0  BY <2>1
    <3>2. clock' + left >= Spent(attempts) /\ Spent(attempts) \in 0..127  BY <1>4, <2>4, <3>1
    <3>3. clock' \in Int  BY <1>3 DEF Times
    <3>4. QED  BY <2>1, <3>1, <3>2, <3>3
  <2>8. DueKnown'  BY <1>2, <2>7 DEF DueKnown, Passed, Spent
  <2>9. QED  BY <1>3, <2>2, <2>6, <2>8 DEF RetryIInv
<1>7. CASE PassEnds
  <2>1. age' = None /\ due' = FALSE /\ clock' = clock  BY <1>7 DEF PassEnds
  <2>2. PassKnown' /\ DueKnown'  BY <2>1 DEF PassKnown, DueKnown
  <2>3. Waited'  BY <1>1, <1>2, <2>1 DEF Waited, GivesUpLate, Spent
  <2>4. QED  BY <1>3, <2>2, <2>3 DEF RetryIInv
<1>8. QED  BY <1>6, <1>7

\* A refusal adds a wait to the time its delivery has taken; what the pass has taken of the
\* wait is on the clock.
LEMMA DeferKeepsRetryIInv ==
    ASSUME RetryIInv, NEW suspend \in BOOLEAN, Defer(suspend) PROVE RetryIInv'
<1> USE ClockAssumption
<1>1. Times /\ PassKnown /\ Waited /\ DueKnown  BY DEF RetryIInv
<1>2. /\ age # None /\ ~exhausted /\ (claimed => left = 0) /\ (~claimed => due)
      /\ UNCHANGED <<claimed, clock, age, delivered>> /\ due' = FALSE
      /\ exhausted' = (suspend \/ attempts + 1 >= Budget)
  BY DEF Defer, Ready, Attempted
<1>3. attempts \in 0..Budget - 1
  BY <1>1, <1>2 DEF Waited, Times, Budget
<1>4. attempts' = attempts + 1
  <2>1. attempts' = Min({attempts + 1, Budget})  BY DEF Defer
  <2>2. attempts + 1 \in Int /\ Budget \in Int /\ attempts + 1 <= Budget  BY <1>3 DEF Budget
  <2>3. QED  BY <2>1, <2>2, SmallerOfTwo
<1>5. /\ Spent(attempts) \in 0..127 /\ Wait(attempts) \in 1..LongestWait
      /\ attempts < Budget - 1 => Spent(attempts + 1) = Spent(attempts) + Wait(attempts)
      /\ attempts >= Budget - 2 => Wait(attempts) = LongestWait
  BY <1>3, WaitsAddUp
<1>6. age \in 0..LongestWait  BY <1>1, <1>2 DEF Times
<1>7. left' = IF Wait(attempts) - age >= 0 THEN Wait(attempts) - age ELSE 0
  <2>1. left' = Max({Wait(attempts) - age, 0})  BY DEF Defer
  <2>2. Wait(attempts) - age \in Int  BY <1>5, <1>6 DEF LongestWait
  <2>3. QED  BY <2>1, <2>2, LargerOfTwo
<1>8. left' \in 0..LongestWait /\ left' + age >= Wait(attempts)
  BY <1>5, <1>6, <1>7 DEF LongestWait
<1>9. clock \in 0..MaxClock /\ Passed(age) /\ (~claimed => Passed(Spent(attempts) + age))
  BY <1>1, <1>2, <1>3 DEF PassKnown, DueKnown, Times, Budget
<1>10. Times'
  BY <1>1, <1>2, <1>3, <1>4, <1>8 DEF Times, Budget
<1>11. PassKnown'  BY <1>1, <1>2 DEF PassKnown, Passed
<1>12. DueKnown'  BY <1>2 DEF DueKnown
<1>13. Waited'
  <2>1. attempts' = Budget => exhausted' /\ GivesUpLate'
    <3> SUFFICES ASSUME attempts' = Budget PROVE exhausted' /\ GivesUpLate'  OBVIOUS
    <3>1. attempts = Budget - 1  BY <1>3, <1>4 DEF Budget
    <3>2. Spent(Budget - 1) = 127  BY DEF Spent, Budget
    <3>3. claimed => clock >= 64
      BY <1>1, <1>2, <1>9, <3>1 DEF Waited, LongestWait
    <3>4. ~claimed => clock >= 127
      BY <1>6, <1>9, <3>1, <3>2 DEF Passed, LongestWait
    <3>8. attempts + 1 >= Budget  BY <3>1 DEF Budget
    <3>5. exhausted'  BY <1>2, <3>8, Zenon
    <3>6. clock >= IF claimed THEN 64 ELSE 127  BY <3>3, <3>4
    <3>7. QED  BY <1>2, <3>5, <3>6 DEF GivesUpLate
  <2>2. attempts' < Budget /\ ~claimed => clock + left' >= Spent(attempts')
    <3> SUFFICES ASSUME attempts' < Budget, ~claimed PROVE clock + left' >= Spent(attempts')
      OBVIOUS
    <3>1. attempts < Budget - 1  BY <1>3, <1>4 DEF Budget
    <3>2. attempts + 1 \in 0..Budget - 1  BY <1>3, <3>1 DEF Budget
    <3>3. Spent(attempts + 1) \in 0..127  BY <3>2, WaitsAddUp
    <3>4. Spent(attempts + 1) = Spent(attempts) + Wait(attempts)  BY <1>5, <3>1
    <3>5. QED  BY <1>4, <1>5, <1>6, <1>8, <1>9, <3>3, <3>4 DEF Passed, LongestWait
  <2>3. attempts' = Budget - 1 /\ claimed => clock + left' >= LongestWait
    <3>1. clock \in Int /\ age \in Int /\ left' \in Nat  BY <1>6, <1>8, <1>9 DEF LongestWait
    <3>2. clock >= age \/ clock >= 127  BY <1>9 DEF Passed
    <3>3. left' + age >= LongestWait => clock + left' >= LongestWait
      BY <3>1, <3>2, LongestOfThem, Zenon
    <3>4. attempts' = Budget - 1 => Wait(attempts) = LongestWait
      BY <1>3, <1>4, <1>5 DEF Budget
    <3>5. QED  BY <1>8, <3>3, <3>4
  <2>4. QED  BY <1>2, <2>1, <2>2, <2>3 DEF Waited, Spent
<1>14. QED  BY <1>10, <1>11, <1>12, <1>13 DEF RetryIInv

LEMMA SucceedsKeepsRetryIInv == ASSUME RetryIInv, Succeeds PROVE RetryIInv'
<1> USE ClockAssumption
<1>1. Times /\ PassKnown  BY DEF RetryIInv
<1>2. /\ attempts' = 0 /\ left' = 0 /\ exhausted' = FALSE /\ delivered' = TRUE /\ due' = FALSE
      /\ UNCHANGED <<claimed, clock, age>>
  BY DEF Succeeds, Attempted
<1>3. Times'  BY <1>1, <1>2 DEF Times, Budget, LongestWait
<1>4. Spent(0) = 0  BY DEF Spent
<1>5. clock + 0 >= 0  BY <1>1 DEF Times
<1>6. Waited'  BY <1>2, <1>4, <1>5 DEF Waited, Budget, Spent
<1>7. PassKnown' /\ DueKnown'  BY <1>1, <1>2 DEF PassKnown, DueKnown, Passed
<1>8. QED  BY <1>3, <1>6, <1>7 DEF RetryIInv

LEMMA NextRetryIInv == RetryIInv /\ [RetryNext]_retryVars => RetryIInv'
<1> SUFFICES ASSUME RetryIInv, [RetryNext]_retryVars PROVE RetryIInv'  OBVIOUS
<1>1. CASE Minute  BY <1>1, MinuteKeepsRetryIInv
<1>2. CASE PassBegins \/ PassEnds  BY <1>2, PassKeepsRetryIInv
<1>3. CASE \E suspend \in BOOLEAN : Defer(suspend)  BY <1>3, DeferKeepsRetryIInv
<1>4. CASE Succeeds  BY <1>4, SucceedsKeepsRetryIInv
<1>5. CASE UNCHANGED retryVars
  BY <1>5 DEF retryVars, RetryIInv, Times, PassKnown, Waited, GivesUpLate, DueKnown,
              Passed, Spent
<1>6. QED  BY <1>1, <1>2, <1>3, <1>4, <1>5 DEF RetryNext, Attempt

\* Whatever the passes are like, a delivery is given up for its failures only after the waits
\* of docs/architecture.md:282, or after the longest of them if it is claimed.
THEOREM BudgetLasts == RetrySpec => []GivesUpLate
<1>1. RetryIInv => GivesUpLate  BY DEF RetryIInv, Waited, GivesUpLate
<1>2. QED  BY <1>1, InitRetryIInv, NextRetryIInv, PTL DEF RetrySpec
=============================================================================
