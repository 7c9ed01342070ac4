---------------------------- MODULE GoalsProofs ----------------------------
(***************************************************************************)
(* Proofs about Goals, for any number of seasons and reviews and any       *)
(* distance between them.                                                  *)
(*                                                                         *)
(* SubmitGoalWeeklyReview does not look for an earlier answer, and no      *)
(* statement compares the input with the review it is for.  Both stay      *)
(* right because an input is written and deleted together with what it     *)
(* waits for, by whoever holds the review, and because a season that has   *)
(* its final prompt gets no more reviews.  These facts make IInv.          *)
(*                                                                         *)
(* That the rows implement SeasonLifecycle needs more: what the tick chose *)
(* to do with a review is still right when it does it.  RInv adds that.    *)
(***************************************************************************)
EXTENDS Goals, TLAPS

-----------------------------------------------------------------------------
(* The inductive invariant.                                                *)

\* The season has ended with no review open, and the tick knows that it has ended.
Over(s) ==
    /\ OpenWeeks(s) = {} /\ EndsOn(s) <= clock
    /\ worker.at # "off" => EndsOn(s) <= worker.now

FinalsOver == \A s \in posted : Over(s)

CallKnows ==
    /\ InCall({"weekly", "submitted"}) => ExpectsReview(call.set, call.week)
    /\ InCall({"submitted"}) => ~WorkerHoldsReview(call.set, call.week)
    /\ InCall({"status", "fallback"}) => Over(call.set) /\ ~final[call.set].completed
    /\ InCall({"fallback"}) => final[call.set].status

\* Places of the tick at which it has a review, and a final review, at hand.
WithReview == {"pending", "create", "send", "lock", "store", "skip", "clear"}
WithFinal == {"final pending", "final send", "final set"}

WorkerKnows ==
    /\ worker.now <= clock
    /\ worker.at \in WithReview => worker.set \in Set /\ worker.week \in Week
    /\ worker.at \in {"send", "lock", "store"} => worker.job \in {"goal_weekly", "goal_reminder"}
    /\ worker.at = "pending" => worker.job # "none"
    /\ worker.at = "create" => worker.job = "create"
    /\ worker.at \in {"pending", "create"} /\ worker.job = "create" => worker.now < EndsOn(worker.set)
    /\ worker.at \in {"store", "clear"} => review[worker.set][worker.week].state = "open"
    /\ worker.at \in WithFinal => worker.set \in Set /\ Over(worker.set)

IInv == TypeOK /\ InputAnswerable /\ FinalsOver /\ CallKnows /\ WorkerKnows

-----------------------------------------------------------------------------
(* Facts about the data.                                                   *)

\* The ends of the seasons and the last instant are naturals.
LEMMA Ends == MaxClock \in Nat /\ (\A s \in Set : EndsOn(s) \in Nat) /\ 0 \in Instant
<1>1. \A a, b \in Nat : a * b \in Nat  OBVIOUS
<1>2. \A s \in Nat : EndsOn(s) \in Nat  BY <1>1, BoundsAssumption DEF EndsOn
<1>3. Seasons \in Nat /\ Set \subseteq Nat  BY BoundsAssumption DEF Set
<1>4. MaxClock \in Nat  BY <1>2, <1>3 DEF MaxClock, SkipAfter
<1>. QED  BY <1>2, <1>3, <1>4 DEF Instant

LEMMA Times == /\ \A t \in Instant : t \in Nat
               /\ 0 \notin Set /\ 0 \notin Week
BY Ends DEF Instant, Set, Week

\* What the statements make of a review is a review.
LEMMA ReviewTypes ==
    /\ NoReview \in Review /\ NoFinalReview \in FinalReview
    /\ \A r \in Review : TypeOK => WithPrompt(r) \in Review /\ Skipped(r) \in Review
                                   /\ [r EXCEPT !.state = "answered"] \in Review
<1>1. NoReview \in Review /\ NoFinalReview \in FinalReview
  BY Ends DEF NoReview, Review, NoFinalReview, FinalReview
<1>2. ASSUME NEW r \in Review, TypeOK
      PROVE WithPrompt(r) \in Review /\ Skipped(r) \in Review
            /\ [r EXCEPT !.state = "answered"] \in Review
  <2>1. worker.now \in Instant  BY <1>2 DEF TypeOK, WorkerState
  <2>. QED  BY <2>1 DEF WithPrompt, Skipped, Review
<1>. QED  BY <1>1, <1>2

\* A write to one review.
LEMMA WrittenReview ==
    ASSUME TypeOK, NEW s \in Set, NEW w \in Week, NEW r \in Review,
           review' = [review EXCEPT ![s][w] = r]
    PROVE  /\ review' \in [Set -> [Week -> Review]]
           /\ \A t \in Set, v \in Week :
                review'[t][v] = IF t = s /\ v = w THEN r ELSE review[t][v]
<1>1. review \in [Set -> [Week -> Review]]  BY DEF TypeOK
<1>2. [review[s] EXCEPT ![w] = r] \in [Week -> Review]  BY <1>1
<1>3. review' = [review EXCEPT ![s] = [review[s] EXCEPT ![w] = r]]  OBVIOUS
<1>4. review' \in [Set -> [Week -> Review]]  BY <1>1, <1>2, <1>3
<1>5. review'[s] = [review[s] EXCEPT ![w] = r]  BY <1>1, <1>3
<1>6. \A t \in Set : t # s => review'[t] = review[t]  BY <1>1, <1>3
<1>7. \A v \in Week : review'[s][v] = IF v = w THEN r ELSE review[s][v]  BY <1>1, <1>5
<1>. QED  BY <1>4, <1>6, <1>7

-----------------------------------------------------------------------------
(* Steps that change one variable.                                         *)

\* A step that opens, advances or ends the API's transaction.
LEMMA CallStep ==
    ASSUME IInv, UNCHANGED <<clock, goals, review, final, posted, pending, suspended, worker>>,
           call' \in Call \cup {None}, CallKnows'
    PROVE  IInv'
<1>1. TypeOK'  BY DEF IInv, TypeOK
<1>2. InputAnswerable'  BY DEF IInv, InputAnswerable, Expects, Accepts
<1>3. FinalsOver'  BY DEF IInv, FinalsOver, Over, OpenWeeks
<1>4. WorkerKnows'  BY DEF IInv, WorkerKnows, Over, OpenWeeks
<1>. QED  BY <1>1, <1>2, <1>3, <1>4 DEF IInv

\* A step in which the worker reads: it keeps the time it has read, or has read it now.
LEMMA WorkerStep ==
    ASSUME IInv, UNCHANGED <<clock, goals, review, final, posted, pending, suspended, call>>,
           worker' \in WorkerState, WorkerKnows',
           worker'.at # "off" => \/ worker.at # "off" /\ worker'.now = worker.now
                                 \/ worker'.now = clock,
           \/ worker'.at \notin {"store", "clear"}
           \/ ~ApiHoldsReview(worker'.set, worker'.week)
    PROVE  IInv'
<1>1. TypeOK'  BY DEF IInv, TypeOK
<1>2. InputAnswerable'  BY DEF IInv, InputAnswerable, Expects, Accepts
<1>3. \A s : Over(s) => Over(s)'  BY DEF Over, OpenWeeks
<1>4. FinalsOver'  BY <1>3 DEF IInv, FinalsOver
<1>5. CallKnows'
  <2>1. InCall({"weekly", "submitted"})' => ExpectsReview(call.set, call.week)'
    BY DEF IInv, CallKnows, InCall, ExpectsReview, Expects
  <2>2. InCall({"submitted"})' => ~WorkerHoldsReview(call.set, call.week)'
    BY DEF InCall, WorkerHoldsReview, ApiHoldsReview
  <2>3. InCall({"status", "fallback"})' => Over(call.set)' /\ ~final'[call.set].completed
    BY <1>3 DEF IInv, CallKnows, InCall
  <2>4. InCall({"fallback"})' => final'[call.set].status
    BY DEF IInv, CallKnows, InCall
  <2>. QED  BY <2>1, <2>2, <2>3, <2>4 DEF CallKnows
<1>. QED  BY <1>1, <1>2, <1>4, <1>5 DEF IInv

-----------------------------------------------------------------------------
(* The start, time, and the API.                                           *)

LEMMA Start == Init => IInv
<1>. SUFFICES ASSUME Init PROVE IInv  OBVIOUS
<1>1. TypeOK  BY ReviewTypes, Ends DEF Init, TypeOK, WorkerState, Off, Step, Job
<1>2. InputAnswerable /\ FinalsOver
  BY DEF Init, InputAnswerable, Expects, FinalsOver
<1>3. CallKnows  BY DEF Init, CallKnows, InCall
<1>4. WorkerKnows  BY DEF Init, WorkerKnows, Off, WithReview, WithFinal
<1>. QED  BY <1>1, <1>2, <1>3, <1>4 DEF IInv

LEMMA KeptByAdvance == IInv /\ Advance => IInv'
<1>. SUFFICES ASSUME IInv, Advance PROVE IInv'  OBVIOUS
<1>1. /\ UNCHANGED <<goals, review, final, posted, pending, suspended, call, worker>>
      /\ clock' = clock + 1 /\ clock < MaxClock
  BY DEF Advance
<1>2. clock \in Nat /\ worker.now \in Nat /\ clock' \in Instant
  <2>1. clock \in Instant /\ worker.now \in Instant  BY DEF IInv, TypeOK, WorkerState
  <2>2. clock \in Nat /\ worker.now \in Nat  BY <2>1, Times
  <2>. QED  BY <1>1, <2>2, Ends DEF Instant
<1>3. TypeOK'  BY <1>1, <1>2 DEF IInv, TypeOK
<1>4. InputAnswerable'  BY <1>1 DEF IInv, InputAnswerable, Expects, Accepts
<1>5. \A s \in Set : Over(s) => Over(s)'
  BY <1>1, <1>2, Ends DEF Over, OpenWeeks
<1>6. FinalsOver'  BY <1>1, <1>5 DEF IInv, TypeOK, FinalsOver
<1>7. CallKnows'
  <2>1. InCall({"status", "fallback"}) => call.set \in Set
    BY NoneAssumption DEF IInv, TypeOK, Call, InCall
  <2>. QED
    BY <1>1, <1>5, <2>1
    DEF IInv, CallKnows, InCall, ExpectsReview, Expects, WorkerHoldsReview
<1>8. worker.now <= clock'  BY <1>1, <1>2 DEF IInv, WorkerKnows
<1>9. worker.at \in WithFinal => Over(worker.set)'
  <2>1. worker.at \in WithFinal => worker.set \in Set /\ Over(worker.set)  BY DEF IInv, WorkerKnows
  <2>. QED  BY <1>1, <1>2, <2>1, Ends DEF Over, OpenWeeks
<1>10. WorkerKnows'  BY <1>1, <1>8, <1>9 DEF IInv, WorkerKnows
<1>. QED  BY <1>3, <1>4, <1>6, <1>7, <1>10 DEF IInv

LEMMA KeptByAbort == IInv /\ ApiAborts => IInv'
BY CallStep DEF ApiAborts, CallKnows, InCall

LEMMA KeptByConfigure == IInv /\ Configure => IInv'
<1>. SUFFICES ASSUME IInv, Configure PROVE IInv'  OBVIOUS
<1>1. call' \in Call /\ call' = [op |-> "setup"]  BY DEF Configure, Begin, Call
<1>2. CallKnows'  BY <1>1 DEF CallKnows, InCall
<1>. QED  BY <1>1, <1>2, CallStep DEF Configure, Begin

LEMMA KeptByReviewArrives == IInv /\ ReviewArrives => IInv'
<1>. SUFFICES ASSUME IInv, ReviewArrives PROVE IInv'  OBVIOUS
<1>1. pending.set \in Set /\ pending.week \in Week
  BY NoneAssumption DEF IInv, TypeOK, ReviewArrives, Expects, Pending
<1>2. call' \in Call /\ call'.op = "weekly" /\ call'.set = pending.set /\ call'.week = pending.week
  BY <1>1 DEF ReviewArrives, Begin, Call
<1>3. CallKnows'
  BY <1>2 DEF ReviewArrives, Begin, CallKnows, InCall, ExpectsReview, Expects
<1>. QED  BY <1>2, <1>3, CallStep DEF ReviewArrives, Begin

LEMMA KeptByStatusPressed ==
    ASSUME IInv, NEW s \in Set, StatusPressed(s)
    PROVE  IInv'
<1>1. call' \in Call /\ call'.op = "status" /\ call'.set = s
  BY DEF StatusPressed, Begin, Call
<1>2. Over(s) /\ ~final[s].completed
  BY DEF IInv, FinalsOver, StatusPressed, MayChoose
<1>3. CallKnows'
  BY <1>1, <1>2 DEF StatusPressed, Begin, CallKnows, InCall, Over, OpenWeeks
<1>. QED  BY <1>1, <1>3, CallStep DEF StatusPressed, Begin

LEMMA KeptBySubmitReview == IInv /\ SubmitReview => IInv'
<1>. SUFFICES ASSUME IInv, SubmitReview PROVE IInv'  OBVIOUS
<1>1. call \in [op : {"weekly", "submitted"}, set : Set, week : Week]
  BY DEF IInv, TypeOK, Call, SubmitReview, InCall
<1>2. CASE call' = None  BY <1>2, CallStep DEF SubmitReview, CallKnows, InCall
<1>3. CASE call' = [call EXCEPT !.op = "submitted"]
  <2>1. call' \in Call /\ call'.op = "submitted" /\ call'.set = call.set /\ call'.week = call.week
    BY <1>1, <1>3 DEF Call
  <2>2. CallKnows'
    BY <2>1 DEF IInv, SubmitReview, CallKnows, InCall, ExpectsReview, Expects, WorkerHoldsReview
  <2>. QED  BY <2>1, <2>2, CallStep DEF SubmitReview
<1>. QED  BY <1>2, <1>3 DEF SubmitReview

\* Writing or ending the setup's input leaves the reviews as they are.
LEMMA KeptByGoals == IInv /\ (CommitSetup \/ GoalsRejected \/ GoalsArrive) => IInv'
<1>. SUFFICES ASSUME IInv, CommitSetup \/ GoalsRejected \/ GoalsArrive PROVE IInv'  OBVIOUS
<1>1. /\ UNCHANGED <<clock, review, final, posted, suspended, worker>>
      /\ call' = None
  BY DEF CommitSetup, GoalsRejected, GoalsArrive
<1>2. pending' = None \/ pending' \in [kind : {"goals"}, at : Instant]
  <2>1. clock \in Instant  BY DEF IInv, TypeOK
  <2>2. CASE CommitSetup  BY <2>1, <2>2 DEF CommitSetup
  <2>3. CASE GoalsRejected
    <3>1. pending \in [kind : {"goals"}, at : Instant]
      BY <2>3 DEF IInv, TypeOK, GoalsRejected, Expects, Pending
    <3>. QED  BY <2>1, <2>3, <3>1 DEF GoalsRejected
  <2>4. CASE GoalsArrive  BY <2>4 DEF GoalsArrive
  <2>. QED  BY <2>2, <2>3, <2>4
<1>3. goals' \in SUBSET Set  BY DEF IInv, TypeOK, CommitSetup, GoalsRejected, GoalsArrive
<1>4. TypeOK'  BY <1>1, <1>2, <1>3 DEF IInv, TypeOK, Pending
<1>5. InputAnswerable'  BY <1>2 DEF InputAnswerable, Expects
<1>6. FinalsOver'  BY <1>1 DEF IInv, FinalsOver, Over, OpenWeeks
<1>7. CallKnows'  BY <1>1 DEF CallKnows, InCall
<1>8. WorkerKnows'  BY <1>1 DEF IInv, WorkerKnows, Over, OpenWeeks
<1>. QED  BY <1>4, <1>5, <1>6, <1>7, <1>8 DEF IInv

LEMMA KeptByCommitReview == IInv /\ CommitReview => IInv'
<1>. SUFFICES ASSUME IInv, CommitReview PROVE IInv'  OBVIOUS
<1>1. /\ UNCHANGED <<clock, goals, final, posted, suspended, worker>>
      /\ pending' = None /\ call' = None
      /\ review' = [review EXCEPT ![call.set][call.week].state = "answered"]
  BY DEF CommitReview
<1>2. call.set \in Set /\ call.week \in Week
  BY DEF IInv, TypeOK, Call, CommitReview, InCall
<1>. DEFINE r == [review[call.set][call.week] EXCEPT !.state = "answered"]
<1>3. r \in Review /\ r.state = "answered"
  <2>1. review[call.set][call.week] \in Review  BY <1>2 DEF IInv, TypeOK
  <2>. QED  BY <2>1, ReviewTypes DEF IInv, Review
<1>4. review' = [review EXCEPT ![call.set][call.week] = r]  BY <1>1
<1>. HIDE DEF r
<1>5. /\ TypeOK'
      /\ \A s \in Set, w \in Week :
           \/ review'[s][w] = review[s][w]
           \/ s = call.set /\ w = call.week /\ review'[s][w].state = "answered"
  <2>1. /\ review' \in [Set -> [Week -> Review]]
        /\ \A s \in Set, w \in Week :
             review'[s][w] = IF s = call.set /\ w = call.week THEN r ELSE review[s][w]
    <3>1. TypeOK  BY DEF IInv
    <3>. QED  BY <1>2, <1>3, <1>4, <3>1, WrittenReview, ZenonT(60)
  <2>. QED  BY <1>1, <1>3, <2>1 DEF IInv, TypeOK
<1>6. \A s \in Set : Over(s) => Over(s)'
  BY <1>1, <1>5 DEF Over, OpenWeeks
<1>7. InputAnswerable' /\ CallKnows'
  BY <1>1 DEF InputAnswerable, Expects, CallKnows, InCall
<1>8. FinalsOver'  BY <1>1, <1>6 DEF IInv, TypeOK, FinalsOver
<1>9. WorkerKnows'
  <2>1. ~WorkerHoldsReview(call.set, call.week)  BY DEF IInv, CallKnows, CommitReview
  <2>2. worker.at \in {"store", "clear"} =>
          worker.set \in Set /\ worker.week \in Week
          /\ review'[worker.set][worker.week].state = "open"
    BY <2>1, <1>5 DEF IInv, WorkerKnows, WorkerHoldsReview, WithReview
  <2>3. worker.at \in WithFinal => worker.set \in Set /\ Over(worker.set)'
    <3>1. worker.at \in WithFinal => worker.set \in Set /\ Over(worker.set)
      BY DEF IInv, WorkerKnows
    <3>. QED  BY <3>1, <1>1, <1>5 DEF Over, OpenWeeks
  <2>. QED  BY <1>1, <2>2, <2>3 DEF IInv, WorkerKnows
<1>. QED  BY <1>5, <1>7, <1>8, <1>9 DEF IInv

\* A step of the API on final reviews: reviews and the worker are as they were.
LEMMA FinalStep ==
    ASSUME IInv, UNCHANGED <<clock, goals, review, suspended, worker>>,
           final' \in [Set -> FinalReview], pending' \in Pending \cup {None},
           call' \in Call \cup {None}, posted' \in SUBSET Set,
           \A s \in posted' : s \in posted \/ Over(s),
           InputAnswerable', CallKnows'
    PROVE  IInv'
<1>1. TypeOK'  BY DEF IInv, TypeOK
<1>2. FinalsOver'  BY DEF IInv, FinalsOver, Over, OpenWeeks
<1>3. WorkerKnows'  BY DEF IInv, WorkerKnows, Over, OpenWeeks
<1>. QED  BY <1>1, <1>2, <1>3 DEF IInv

LEMMA KeptByCommitStatus == IInv /\ (CommitStatus \/ CommitFallback) => IInv'
<1>. SUFFICES ASSUME IInv, CommitStatus \/ CommitFallback PROVE IInv'  OBVIOUS
<1>1. /\ call \in [op : {"status", "fallback"}, set : Set]
      /\ Over(call.set) /\ ~final[call.set].completed
      /\ call.op = "fallback" => final[call.set].status
  BY DEF IInv, TypeOK, Call, CallKnows, CommitStatus, CommitFallback, InCall
<1>2. /\ UNCHANGED <<clock, goals, review, suspended, worker>>
      /\ pending' = [kind |-> "final", set |-> call.set]
  BY DEF CommitStatus, CommitFallback
<1>3. final' \in [Set -> FinalReview] /\ ~final'[call.set].completed
      /\ final'[call.set].status
  <2>1. final \in [Set -> FinalReview] /\ final[call.set] \in FinalReview
    BY <1>1 DEF IInv, TypeOK
  <2>2. \/ final' = [final EXCEPT ![call.set] = [@ EXCEPT !.status = TRUE]]
        \/ /\ call.op = "fallback"
           /\ final' = [final EXCEPT ![call.set] = [@ EXCEPT !.prompted = TRUE]]
    BY DEF CommitStatus, CommitFallback, InCall
  <2>3. /\ [final[call.set] EXCEPT !.status = TRUE] \in FinalReview
        /\ [final[call.set] EXCEPT !.prompted = TRUE] \in FinalReview
    BY <2>1 DEF FinalReview
  <2>4. /\ [final[call.set] EXCEPT !.status = TRUE].status
        /\ [final[call.set] EXCEPT !.status = TRUE].completed = final[call.set].completed
        /\ [final[call.set] EXCEPT !.prompted = TRUE].status = final[call.set].status
        /\ [final[call.set] EXCEPT !.prompted = TRUE].completed = final[call.set].completed
    BY <2>1 DEF FinalReview
  <2>. QED  BY <1>1, <2>1, <2>2, <2>3, <2>4
<1>4. pending' \in Pending  BY <1>1, <1>2 DEF Pending
<1>5. call' = None \/ (call' \in Call /\ call'.op = "fallback" /\ call'.set = call.set)
  BY <1>1 DEF CommitStatus, CommitFallback, Call
<1>6. posted' \in SUBSET Set /\ \A s \in posted' : s \in posted \/ Over(s)
  BY <1>1 DEF IInv, TypeOK, CommitStatus, CommitFallback
<1>7. InputAnswerable'
  BY <1>1, <1>2, <1>3 DEF InputAnswerable, Expects, Accepts
<1>8. CallKnows'
  <2>1. CASE call' = None  BY <2>1 DEF CallKnows, InCall
  <2>2. CASE call' \in Call /\ call'.op = "fallback" /\ call'.set = call.set
    <3>1. Over(call.set)'  BY <1>1, <1>2, <2>2 DEF Over, OpenWeeks
    <3>. QED  BY <1>3, <2>2, <3>1 DEF CallKnows, InCall
  <2>. QED  BY <1>5, <2>1, <2>2
<1>. QED  BY <1>2, <1>3, <1>4, <1>5, <1>6, <1>7, <1>8, FinalStep

LEMMA KeptByReflection == IInv /\ ReflectionArrives => IInv'
<1>. SUFFICES ASSUME IInv, ReflectionArrives PROVE IInv'  OBVIOUS
<1>1. pending.set \in Set /\ pending.kind = "final"
  BY NoneAssumption DEF IInv, TypeOK, ReflectionArrives, Expects, Pending
<1>2. final' \in [Set -> FinalReview] /\ final'[pending.set].status = final[pending.set].status
      /\ final'[pending.set].completed = final[pending.set].completed
  BY <1>1 DEF IInv, TypeOK, FinalReview, ReflectionArrives
<1>3. InputAnswerable'
  BY <1>1, <1>2 DEF IInv, InputAnswerable, Expects, Accepts, ReflectionArrives
<1>4. CallKnows'  BY DEF ReflectionArrives, CallKnows, InCall
<1>. QED  BY <1>2, <1>3, <1>4, FinalStep DEF ReflectionArrives, IInv, TypeOK

LEMMA KeptByComplete ==
    ASSUME IInv, NEW s \in Set, CompletePressed(s)
    PROVE  IInv'
<1>1. final' \in [Set -> FinalReview]  BY DEF IInv, TypeOK, FinalReview, CompletePressed
<1>2. InputAnswerable' /\ CallKnows'
  BY DEF CompletePressed, InputAnswerable, Expects, CallKnows, InCall
<1>. QED  BY <1>1, <1>2, FinalStep DEF CompletePressed, IInv, TypeOK

-----------------------------------------------------------------------------
(* The worker.                                                             *)

\* The worker's state, and the numbers it is made of.
LEMMA WorkerTypes ==
    ASSUME IInv
    PROVE  /\ worker \in WorkerState /\ worker.now \in Nat /\ clock \in Nat /\ 0 <= clock
           /\ clock \in Instant /\ Off \in WorkerState /\ 0 \in Instant
<1>1. worker \in WorkerState /\ clock \in Instant /\ worker.now \in Instant
  BY DEF IInv, TypeOK, WorkerState
<1>2. worker.now \in Nat /\ clock \in Nat  BY <1>1, Times
<1>3. 0 \in Instant /\ Off \in WorkerState  BY Ends DEF Off, WorkerState, Step, Job
<1>. QED  BY <1>1, <1>2, <1>3

\* The tick stops, with or without the statement it was at.
LEMMA KeptByStop ==
    ASSUME IInv, worker' = Off,
           UNCHANGED <<clock, goals, review, final, posted, pending, suspended, call>>
    PROVE  IInv'
<1>1. worker' \in WorkerState /\ worker'.at = "off" /\ worker'.now = 0
  BY WorkerTypes DEF Off
<1>2. WorkerKnows'  BY <1>1, WorkerTypes DEF WorkerKnows, WithReview, WithFinal
<1>. QED  BY <1>1, <1>2, WorkerStep

\* The tick goes on, or leaves its review, to a place where it has none at hand.
LEMMA KeptByLeaving ==
    ASSUME IInv, UNCHANGED <<clock, goals, review, final, posted, pending, suspended, call>>,
           worker' \in WorkerState, worker.at # "off", worker'.now = worker.now,
           worker'.at \notin WithReview \cup WithFinal
    PROVE  IInv'
<1>1. WorkerKnows'  BY DEF IInv, WorkerKnows, WithReview
<1>2. worker'.at \notin {"store", "clear"}  BY DEF WithReview
<1>. QED  BY <1>1, <1>2, WorkerStep

LEMMA KeptByTickBegins == IInv /\ TickBegins => IInv'
<1>. SUFFICES ASSUME IInv, TickBegins PROVE IInv'  OBVIOUS
<1>1. worker' \in WorkerState /\ worker'.at = "inputs" /\ worker'.now = clock
  BY WorkerTypes DEF TickBegins, Reads, Off, WorkerState, Step
<1>2. WorkerKnows'  BY <1>1, WorkerTypes DEF TickBegins, Reads, WorkerKnows, WithReview, WithFinal
<1>. QED  BY <1>1, <1>2, WorkerStep DEF TickBegins, Reads

\* Between two sets the tick has no review at hand.
LEMMA KeptByPassing ==
    ASSUME IInv, \/ ListSets \/ WeekliesDone
                 \/ \E s \in Set : (At("weekly") \/ At("final")) /\ Reads(Passed(s))
    PROVE  IInv'
<1>1. /\ worker' \in WorkerState /\ worker.at # "off" /\ worker'.now = worker.now
      /\ worker'.at \notin WithReview \cup WithFinal
  <2>1. CASE ListSets
    BY <2>1 DEF IInv, TypeOK, WorkerState, Step, ListSets, Reads, WithReview, WithFinal
  <2>2. CASE WeekliesDone
    <3>1. worker \in WorkerState /\ worker.at = "weekly" /\ worker' = GoesTo("final sets")
      <4>1. worker \in WorkerState  BY WorkerTypes
      <4>. QED  BY <2>2, <4>1 DEF WeekliesDone, At, Reads
    <3>. QED  BY <3>1 DEF GoesTo, WorkerState, Step, WithReview, WithFinal
  <2>3. CASE \E s \in Set : (At("weekly") \/ At("final")) /\ Reads(Passed(s))
    <3>1. PICK s \in Set : worker.at \in {"weekly", "final"} /\ worker' = Passed(s)
      BY <2>3 DEF At, Reads
    <3>2. worker \in WorkerState  BY WorkerTypes
    <3>3. worker.todo \ {s} \in SUBSET Set  BY <3>2 DEF WorkerState
    <3>. QED  BY <3>1, <3>2, <3>3 DEF Passed, WorkerState, WithReview, WithFinal
  <2>. QED  BY <2>1, <2>2, <2>3
<1>. QED  BY <1>1, KeptByLeaving DEF ListSets, WeekliesDone, Reads

LEMMA KeptByAdvanceReview ==
    ASSUME IInv, NEW s \in Set, AdvanceReview(s)
    PROVE  IInv'
<1>1. /\ UNCHANGED <<clock, goals, review, final, posted, pending, suspended, call>>
      /\ worker.at = "weekly"
      /\ \/ worker' = Passed(s)
         \/ \E w \in Week, step \in {"skip", "pending"}, job \in {"none", "goal_weekly", "goal_reminder"} :
              worker' = Taken(s, w, step, job) /\ (step = "pending" => job # "none")
  BY DEF AdvanceReview, Reads, At, OpenWeeks
<1>2. CASE worker' = Passed(s)  BY <1>1, <1>2, KeptByPassing DEF At, Reads
<1>3. ASSUME NEW w \in Week, NEW step \in {"skip", "pending"},
             NEW job \in {"none", "goal_weekly", "goal_reminder"},
             worker' = Taken(s, w, step, job), step = "pending" => job # "none"
      PROVE  IInv'
  <2>1. /\ worker' \in WorkerState /\ worker'.now = worker.now /\ worker'.at = step
        /\ worker'.set = s /\ worker'.week = w /\ worker'.job = job
    BY <1>3, WorkerTypes DEF WorkerState, Taken, Step, Job
  <2>2. WorkerKnows'  BY <1>1, <1>3, <2>1 DEF IInv, WorkerKnows, WithReview, WithFinal
  <2>. QED  BY <1>1, <2>1, <2>2, WorkerStep
<1>. QED  BY <1>1, <1>2, <1>3

LEMMA KeptByNewReview ==
    ASSUME IInv, NEW s \in Set, NewReview(s)
    PROVE  IInv'
<1>1. CASE Reads(Passed(s))  BY <1>1, KeptByPassing DEF NewReview
<1>2. ASSUME NEW w \in Week, ReviewDue(s, w), Reads(Taken(s, w, "pending", "create"))
      PROVE  IInv'
  <2>1. /\ worker' \in WorkerState /\ worker'.now = worker.now /\ worker'.at = "pending"
        /\ worker'.set = s /\ worker'.week = w /\ worker'.job = "create"
    BY <1>2, WorkerTypes DEF WorkerState, Taken, Step, Job, Reads
  <2>2. worker'.now < EndsOn(worker'.set)  BY <1>2, <2>1 DEF ReviewDue
  <2>3. WorkerKnows'
    BY <1>2, <2>1, <2>2 DEF IInv, WorkerKnows, WithReview, WithFinal, Reads, EndsOn
  <2>. QED  BY <1>2, <2>1, <2>3, WorkerStep DEF NewReview, At, Reads
<1>. QED  BY <1>1, <1>2 DEF NewReview

LEMMA KeptByReadFinal ==
    ASSUME IInv, NEW s \in Set, ReadFinal(s)
    PROVE  IInv'
<1>1. CASE Reads(Passed(s))  BY <1>1, KeptByPassing DEF ReadFinal
<1>2. CASE FinalDue(s) /\ Reads(Taken(s, 0, "final pending", "none"))
  <2>1. /\ worker' \in WorkerState /\ worker'.now = worker.now /\ worker'.at = "final pending"
        /\ worker'.set = s /\ worker'.week = 0 /\ worker'.job = "none"
    BY <1>2, WorkerTypes DEF WorkerState, Taken, Step, Job, Reads
  <2>2. EndsOn(s) <= worker.now /\ EndsOn(s) <= clock
    <3>1. EndsOn(s) <= worker.now /\ worker.now <= clock /\ EndsOn(s) \in Nat
      BY <1>2, Ends DEF FinalDue, IInv, WorkerKnows
    <3>. QED  BY <3>1, WorkerTypes
  <2>3. Over(worker.set)'
    BY <1>2, <2>1, <2>2 DEF FinalDue, Over, OpenWeeks, EndsOn, Reads
  <2>4. WorkerKnows'
    BY <1>2, <2>1, <2>3 DEF IInv, WorkerKnows, WithReview, WithFinal, Reads
  <2>. QED  BY <1>2, <2>1, <2>4, WorkerStep DEF ReadFinal, At, Reads
<1>. QED  BY <1>1, <1>2 DEF ReadFinal

\* At the review at hand: a check that ends in a step or in leaving the review.
LEMMA Leaving ==
    ASSUME IInv, worker.at # "off", NEW step \in {"weekly", "final"}, Reads(Leaves(step))
    PROVE  IInv'
<1>1. /\ worker' \in WorkerState /\ worker'.now = worker.now
      /\ worker'.at \notin WithReview \cup WithFinal
  BY WorkerTypes DEF WorkerState, Leaves, Step, Job, Reads, WithReview, WithFinal
<1>. QED  BY <1>1, KeptByLeaving DEF Reads

\* The tick has its review at hand and goes on with it.
LEMMA GoingOn ==
    ASSUME IInv, NEW step \in WithReview \cup WithFinal, Reads(GoesTo(step)),
           worker.at \in WithReview \/ worker.at \in WithFinal,
           worker.at \in WithReview <=> step \in WithReview,
           worker.at # "create", step # "pending",
           step \in {"send", "lock", "store"} => worker.job \in {"goal_weekly", "goal_reminder"},
           step = "create" => worker.at = "pending" /\ worker.job = "create",
           step \in {"store", "clear"} =>
               /\ review[worker.set][worker.week].state = "open"
               /\ ~ApiHoldsReview(worker.set, worker.week)
    PROVE  IInv'
<1>1. /\ worker' \in WorkerState /\ worker'.now = worker.now /\ worker'.at = step
      /\ worker'.set = worker.set /\ worker'.week = worker.week /\ worker'.job = worker.job
  BY WorkerTypes DEF WorkerState, GoesTo, Step, Reads, WithReview, WithFinal
<1>2. step \in WithFinal => worker.set \in Set /\ Over(worker.set)'
  <2>1. step \in WithFinal => worker.at \in WithFinal  BY DEF WithReview, WithFinal
  <2>2. worker.at \in WithFinal => worker.set \in Set /\ Over(worker.set)  BY DEF IInv, WorkerKnows
  <2>3. worker.at \in WithFinal => worker.at # "off"  BY DEF WithFinal
  <2>. QED  BY <1>1, <2>1, <2>2, <2>3 DEF Over, OpenWeeks, Reads
<1>3. step \in WithReview => worker.set \in Set /\ worker.week \in Week
  BY DEF IInv, WorkerKnows
<1>4. step = "create" => worker.job = "create" /\ worker.now < EndsOn(worker.set)
  BY DEF IInv, WorkerKnows
<1>5. worker'.now <= clock' /\ review' = review  BY <1>1 DEF IInv, WorkerKnows, Reads
<1>6. WorkerKnows'  BY <1>1, <1>2, <1>3, <1>4, <1>5 DEF WorkerKnows, WithReview, WithFinal
<1>7. worker.at # "off"  BY DEF WithReview, WithFinal
<1>. QED  BY <1>1, <1>6, <1>7, WorkerStep DEF Reads

LEMMA KeptByReadInput == IInv /\ ReadInput => IInv'
<1>. SUFFICES ASSUME IInv, ReadInput PROVE IInv'  OBVIOUS
<1>1. worker.at = "pending" /\ worker.job \in Job \ {"none"} /\ worker.at \in WithReview
  BY WorkerTypes DEF ReadInput, At, IInv, WorkerKnows, WithReview, WorkerState
<1>2. CASE Reads(Leaves("weekly"))  BY <1>1, <1>2, Leaving
<1>3. CASE worker.job = "create" /\ Reads(GoesTo("create"))
  BY <1>1, <1>3, GoingOn DEF WithReview, WithFinal
<1>4. CASE worker.job # "create" /\ Reads(GoesTo("send"))
  BY <1>1, <1>4, GoingOn DEF WithReview, WithFinal, Job
<1>. QED  BY <1>2, <1>3, <1>4 DEF ReadInput

LEMMA KeptBySendPrompt == IInv /\ SendPrompt => IInv'
<1>. SUFFICES ASSUME IInv, SendPrompt PROVE IInv'  OBVIOUS
<1>1. worker.at = "send" /\ worker.job \in {"goal_weekly", "goal_reminder"}
  BY DEF SendPrompt, At, IInv, WorkerKnows
<1>2. CASE Reads(Leaves("weekly"))  BY <1>1, <1>2, Leaving
<1>3. CASE Reads(GoesTo("lock"))  BY <1>1, <1>3, GoingOn DEF WithReview, WithFinal
<1>. QED  BY <1>2, <1>3 DEF SendPrompt

LEMMA KeptByLockReview == IInv /\ LockReview => IInv'
<1>. SUFFICES ASSUME IInv, LockReview PROVE IInv'  OBVIOUS
<1>1. worker.at = "lock" /\ worker.job \in {"goal_weekly", "goal_reminder"}
  BY DEF LockReview, At, IInv, WorkerKnows
<1>2. CASE Reads(Leaves("weekly"))  BY <1>1, <1>2, Leaving
<1>3. CASE Storable(review[worker.set][worker.week]) /\ Reads(GoesTo("store"))
  BY <1>1, <1>3, GoingOn DEF LockReview, Storable, WithReview, WithFinal
<1>. QED  BY <1>2, <1>3 DEF LockReview

LEMMA KeptBySkipReview == IInv /\ SkipReview => IInv'
<1>. SUFFICES ASSUME IInv, SkipReview PROVE IInv'  OBVIOUS
<1>1. worker.at = "skip"  BY DEF SkipReview, At
<1>2. CASE Reads(Leaves("weekly"))  BY <1>1, <1>2, Leaving
<1>3. CASE worker.week \in OpenWeeks(worker.set) /\ Reads(GoesTo("clear"))
  BY <1>1, <1>3, GoingOn DEF SkipReview, OpenWeeks, WithReview, WithFinal
<1>. QED  BY <1>2, <1>3 DEF SkipReview

LEMMA KeptByFinalReads == IInv /\ (FinalsDone \/ ReadFinalInput \/ SkipFinal \/ WorkerStops) => IInv'
<1>1. ASSUME IInv, FinalsDone \/ WorkerStops PROVE IInv'
  BY <1>1, KeptByStop DEF FinalsDone, WorkerStops, Reads
<1>2. ASSUME IInv, SkipFinal PROVE IInv'  BY <1>2, Leaving DEF SkipFinal, At
<1>3. ASSUME IInv, ReadFinalInput PROVE IInv'
  <2>1. worker.at = "final pending"  BY <1>3 DEF ReadFinalInput, At
  <2>2. CASE Reads(Leaves("final"))  BY <1>3, <2>1, <2>2, Leaving
  <2>3. CASE Reads(GoesTo("final send"))  BY <1>3, <2>1, <2>3, GoingOn DEF WithReview, WithFinal
  <2>. QED  BY <1>3, <2>2, <2>3 DEF ReadFinalInput
<1>. QED  BY <1>1, <1>2, <1>3

LEMMA KeptByCleanup == IInv /\ CleanupStale => IInv'
<1>. SUFFICES ASSUME IInv, CleanupStale PROVE IInv'  OBVIOUS
<1>1. UNCHANGED <<clock, goals, review, final, posted, suspended, call>>
  BY DEF CleanupStale
<1>2. /\ worker' \in WorkerState /\ worker.at = "inputs"
      /\ worker'.now = worker.now /\ worker'.at = "sets"
  BY WorkerTypes DEF CleanupStale, At, GoesTo, WorkerState, Step
<1>3. pending' = pending \/ (pending' = None /\ pending.kind = "goals")
  BY DEF CleanupStale, Stale, Expects
<1>4. TypeOK'  BY <1>1, <1>2, <1>3 DEF IInv, TypeOK
<1>5. InputAnswerable'  BY <1>1, <1>3 DEF IInv, InputAnswerable, Expects, Accepts
<1>6. \A s : Over(s) => Over(s)'  BY <1>1, <1>2 DEF Over, OpenWeeks
<1>7. FinalsOver'  BY <1>1, <1>6 DEF IInv, FinalsOver
<1>8. CallKnows'
  <2>1. InCall({"weekly", "submitted"})' => ExpectsReview(call.set, call.week)'
    BY <1>1, <1>3 DEF IInv, CallKnows, InCall, ExpectsReview, Expects
  <2>2. InCall({"submitted"})' => ~WorkerHoldsReview(call.set, call.week)'
    BY <1>2 DEF InCall, WorkerHoldsReview
  <2>3. InCall({"status", "fallback"})' => Over(call.set)' /\ ~final'[call.set].completed
    BY <1>1, <1>6 DEF IInv, CallKnows, InCall
  <2>4. InCall({"fallback"})' => final'[call.set].status
    BY <1>1 DEF IInv, CallKnows, InCall
  <2>. QED  BY <1>1, <2>1, <2>2, <2>3, <2>4 DEF CallKnows, InCall
<1>9. WorkerKnows'  BY <1>1, <1>2 DEF IInv, WorkerKnows, WithReview, WithFinal
<1>. QED  BY <1>4, <1>5, <1>7, <1>8, <1>9 DEF IInv

-----------------------------------------------------------------------------
(* What the worker writes.                                                 *)

\* A step on a final review: the reviews, the input and the API's transaction stay.
LEMMA FinalWrites ==
    ASSUME IInv, UNCHANGED <<clock, goals, review, pending, call>>,
           final' \in [Set -> FinalReview],
           \A s \in Set : final'[s].status = final[s].status /\ final'[s].completed = final[s].completed,
           posted' \in SUBSET Set, \A s \in posted' : s \in posted \/ Over(s),
           suspended' \in SUBSET Delivery, worker.at # "off",
           \/ worker' = Off
           \/ /\ worker' \in WorkerState /\ worker'.now = worker.now
              /\ worker'.at \notin WithReview
              /\ worker'.at \in WithFinal => worker.at \in WithFinal /\ worker'.set = worker.set
    PROVE  IInv'
<1>. DEFINE Goes == /\ worker' \in WorkerState /\ worker'.now = worker.now
                    /\ worker'.at \notin WithReview
                    /\ worker'.at \in WithFinal => worker.at \in WithFinal /\ worker'.set = worker.set
<1>0. Off.at = "off" /\ Off.now = 0  BY DEF Off
<1>1. worker' \in WorkerState /\ (worker'.at # "off" => worker'.now = worker.now)
      /\ worker'.at \notin WithReview
  <2>1. CASE worker' = Off  BY <1>0, <2>1, WorkerTypes DEF WithReview
  <2>2. CASE Goes  BY <2>2
  <2>. QED  BY <2>1, <2>2
<1>2. TypeOK'  BY <1>1 DEF IInv, TypeOK
<1>3. \A s \in Set : Over(s) => Over(s)'  BY <1>1 DEF Over, OpenWeeks
<1>4. pending # None /\ pending.kind = "final" => pending.set \in Set
  BY DEF IInv, TypeOK, Pending
<1>5. InputAnswerable'  BY <1>4 DEF IInv, InputAnswerable, Expects, Accepts
<1>6. FinalsOver'  BY <1>3 DEF IInv, TypeOK, FinalsOver
<1>7. CallKnows'
  <2>1. InCall({"weekly", "submitted"})' => ExpectsReview(call.set, call.week)'
    BY DEF IInv, CallKnows, InCall, ExpectsReview, Expects
  <2>2. InCall({"submitted"})' => ~WorkerHoldsReview(call.set, call.week)'
    BY <1>1 DEF InCall, WorkerHoldsReview, WithReview
  <2>3. InCall({"status", "fallback"}) => call.set \in Set
    BY DEF IInv, TypeOK, Call, InCall
  <2>4. InCall({"status", "fallback"})' => Over(call.set)' /\ ~final'[call.set].completed
    BY <1>3, <2>3 DEF IInv, CallKnows, InCall
  <2>5. InCall({"fallback"})' => final'[call.set].status
    BY <2>3 DEF IInv, CallKnows, InCall
  <2>. QED  BY <2>1, <2>2, <2>4, <2>5 DEF CallKnows
<1>8. worker'.now <= clock'
  <2>1. CASE worker' = Off  BY <1>0, <2>1, WorkerTypes
  <2>2. CASE Goes  BY <2>2 DEF IInv, WorkerKnows
  <2>. QED  BY <2>1, <2>2
<1>9. worker'.at \in WithFinal => worker'.set \in Set /\ Over(worker.set)'
  <2>1. CASE worker' = Off  BY <1>0, <2>1 DEF WithFinal
  <2>2. CASE Goes
    <3>1. worker.at \in WithFinal => worker.set \in Set /\ Over(worker.set)
      BY DEF IInv, WorkerKnows
    <3>. QED  BY <2>2, <3>1 DEF Over, OpenWeeks
  <2>. QED  BY <2>1, <2>2
<1>10. WorkerKnows'  BY <1>1, <1>8, <1>9 DEF WorkerKnows, WithReview
<1>. QED  BY <1>2, <1>5, <1>6, <1>7, <1>10 DEF IInv

\* A step on a review: no season that is over gets an open one.
LEMMA ReviewWrites ==
    ASSUME IInv, UNCHANGED <<clock, goals, final, posted, suspended, call>>,
           TypeOK', InputAnswerable', WorkerKnows',
           worker'.at \notin {"store", "clear"},
           \A s \in Set : Over(s) => Over(s)',
           pending' = pending \/ ~ApiHoldsInput
    PROVE  IInv'
<1>1. FinalsOver'  BY DEF IInv, TypeOK, FinalsOver
<1>2. CallKnows'
  <2>1. InCall({"weekly", "submitted"})' => ExpectsReview(call.set, call.week)'
    BY DEF IInv, CallKnows, InCall, ExpectsReview, Expects, ApiHoldsInput
  <2>2. InCall({"submitted"})' => ~WorkerHoldsReview(call.set, call.week)'
    BY DEF InCall, WorkerHoldsReview
  <2>3. InCall({"status", "fallback"}) => call.set \in Set
    BY DEF IInv, TypeOK, Call, InCall
  <2>4. InCall({"status", "fallback"})' => Over(call.set)' /\ ~final'[call.set].completed
    BY <2>3 DEF IInv, CallKnows, InCall
  <2>5. InCall({"fallback"})' => final'[call.set].status
    BY DEF IInv, CallKnows, InCall
  <2>. QED  BY <2>1, <2>2, <2>4, <2>5 DEF CallKnows
<1>. QED  BY <1>1, <1>2 DEF IInv

LEMMA KeptBySendFinal == IInv /\ SendFinal => IInv'
<1>. SUFFICES ASSUME IInv, SendFinal PROVE IInv'  OBVIOUS
<1>1. /\ UNCHANGED <<clock, goals, review, final, pending, suspended, call>>
      /\ worker.at = "final send" /\ worker.at \in WithFinal
      /\ posted' = posted \cup {worker.set}
  BY DEF SendFinal, At, WithFinal
<1>2. /\ worker' \in WorkerState /\ worker'.now = worker.now
      /\ worker'.at = "final set" /\ worker'.set = worker.set
  BY WorkerTypes DEF SendFinal, GoesTo, WorkerState, Step
<1>3. posted' \in SUBSET Set /\ \A s \in posted' : s \in posted \/ Over(s)
  BY <1>1 DEF IInv, TypeOK, WorkerKnows
<1>. QED  BY <1>1, <1>2, <1>3, FinalWrites DEF IInv, TypeOK, WithReview

LEMMA KeptBySetFinal == IInv /\ SetFinal => IInv'
<1>. SUFFICES ASSUME IInv, SetFinal PROVE IInv'  OBVIOUS
<1>1. /\ UNCHANGED <<clock, goals, review, posted, pending, suspended, call>>
      /\ worker.at = "final set"
      /\ final' = [final EXCEPT ![worker.set] = [@ EXCEPT !.prompted = TRUE]]
  BY DEF SetFinal, At
<1>2. /\ worker' \in WorkerState /\ worker'.now = worker.now /\ worker'.at = "final"
  BY WorkerTypes DEF SetFinal, Leaves, WorkerState, Step, Job
<1>3. worker.set \in Set /\ final \in [Set -> FinalReview] /\ final[worker.set] \in FinalReview
  BY <1>1 DEF IInv, TypeOK, WorkerKnows, WithFinal
<1>4. /\ [final[worker.set] EXCEPT !.prompted = TRUE] \in FinalReview
      /\ [final[worker.set] EXCEPT !.prompted = TRUE].status = final[worker.set].status
      /\ [final[worker.set] EXCEPT !.prompted = TRUE].completed = final[worker.set].completed
  BY <1>3 DEF FinalReview
<1>5. /\ final' \in [Set -> FinalReview]
      /\ \A s \in Set : final'[s].status = final[s].status /\ final'[s].completed = final[s].completed
  BY <1>1, <1>3, <1>4
<1>. QED  BY <1>1, <1>2, <1>5, FinalWrites DEF IInv, TypeOK, WithReview, WithFinal

LEMMA KeptByFinalUndone == IInv /\ FinalUndone => IInv'
BY FinalWrites DEF FinalUndone, At, IInv, TypeOK

\* Whether a failed delivery ends the tick or not.
LEMMA LeavingTypes ==
    ASSUME IInv, NEW step \in {"weekly", "final"}
    PROVE  /\ Leaves(step) \in WorkerState /\ Leaves(step).now = worker.now
           /\ Leaves(step).at = step
BY WorkerTypes DEF WorkerState, Leaves, Step, Job

LEMMA KeptByPromptFails == IInv /\ PromptFails => IInv'
<1>. SUFFICES ASSUME IInv, PromptFails PROVE IInv'  OBVIOUS
<1>1. worker.at \in {"send", "lock"} /\ worker.at \in WithReview
  BY DEF PromptFails, At, WithReview
<1>2. /\ UNCHANGED <<clock, goals, review, final, pending, call, posted>>
      /\ suspended' \in {suspended, suspended \cup {ThisDelivery}}
      /\ worker' \in {Leaves("weekly"), Off}
  BY <1>1 DEF PromptFails, Defers, At
<1>3. ThisDelivery \in Delivery
  BY <1>1 DEF IInv, WorkerKnows, ThisDelivery, Delivery
<1>. QED
  BY <1>1, <1>2, <1>3, LeavingTypes, FinalWrites DEF IInv, TypeOK, WithReview, WithFinal

LEMMA KeptByFinalFails == IInv /\ FinalFails => IInv'
<1>. SUFFICES ASSUME IInv, FinalFails PROVE IInv'  OBVIOUS
<1>1. worker.at = "final send" /\ worker.set \in Set /\ Over(worker.set)
  BY DEF FinalFails, At, IInv, WorkerKnows, WithFinal
<1>2. /\ UNCHANGED <<clock, goals, review, final, pending, call>>
      /\ suspended' \in {suspended, suspended \cup {FinalDelivery}}
      /\ worker' \in {Leaves("final"), Off}
      /\ posted' \in {posted, posted \cup {worker.set}}
  BY <1>1 DEF FinalFails, Defers, At
<1>3. FinalDelivery \in Delivery  BY <1>1 DEF FinalDelivery, Delivery
<1>. QED
  BY <1>1, <1>2, <1>3, LeavingTypes, FinalWrites DEF IInv, TypeOK, WithReview, WithFinal

\* The worker knows what it needs once it has left its review.
LEMMA LeftKnows ==
    ASSUME IInv, clock' = clock, worker' = Leaves("weekly")
    PROVE  /\ worker' \in WorkerState /\ worker'.at = "weekly" /\ worker'.now = worker.now
           /\ WorkerKnows'
<1>1. worker' \in WorkerState /\ worker'.at = "weekly" /\ worker'.now = worker.now
  BY LeavingTypes
<1>. QED  BY <1>1 DEF IInv, WorkerKnows, WithReview, WithFinal

\* A new review is one of a season that has not ended: no final review waits for it.
LEMMA KeptByCreateReview == IInv /\ CreateReview => IInv'
<1>. SUFFICES ASSUME IInv, CreateReview PROVE IInv'  OBVIOUS
<1>1. /\ worker.at = "create" /\ worker.job = "create" /\ worker.now < EndsOn(worker.set)
      /\ worker.set \in Set /\ worker.week \in Week /\ worker.at # "off"
  BY DEF CreateReview, At, IInv, WorkerKnows, WithReview
<1>2. CASE review[worker.set][worker.week].state # "none"
  BY <1>1, <1>2, Leaving DEF CreateReview
<1>3. CASE review[worker.set][worker.week].state = "none"
  <2>. DEFINE r == [NoReview EXCEPT !.state = "open", !.requested = worker.now]
  <2>1. /\ UNCHANGED <<clock, goals, final, posted, pending, suspended, call>>
        /\ review' = [review EXCEPT ![worker.set][worker.week] = r]
        /\ worker' = [GoesTo("send") EXCEPT !.job = "goal_weekly"]
    BY <1>3 DEF CreateReview
  <2>2. r \in Review
    <3>1. worker.now \in Instant  BY WorkerTypes DEF WorkerState
    <3>. QED  BY <3>1, ReviewTypes DEF Review, NoReview
  <2>. HIDE DEF r
  <2>3. /\ review' \in [Set -> [Week -> Review]]
        /\ \A s \in Set, w \in Week :
             review'[s][w] = IF s = worker.set /\ w = worker.week THEN r ELSE review[s][w]
    <3>1. TypeOK  BY DEF IInv
    <3>. QED  BY <1>1, <2>1, <2>2, <3>1, WrittenReview, ZenonT(60)
  <2>4. /\ worker' \in WorkerState /\ worker'.now = worker.now /\ worker'.at = "send"
        /\ worker'.set = worker.set /\ worker'.week = worker.week /\ worker'.job = "goal_weekly"
    BY <2>1, WorkerTypes DEF WorkerState, GoesTo, Step, Job
  <2>5. TypeOK'  BY <2>1, <2>3, <2>4 DEF IInv, TypeOK
  <2>6. InputAnswerable'
    <3>1. Expects("weekly") => pending.set \in Set /\ pending.week \in Week
      BY NoneAssumption DEF IInv, TypeOK, Expects, Pending
    <3>2. Expects("weekly") => review'[pending.set][pending.week] = review[pending.set][pending.week]
      BY <1>3, <2>3, <3>1 DEF IInv, InputAnswerable
    <3>. QED  BY <2>1, <3>2 DEF IInv, InputAnswerable, Expects, Accepts
  <2>7. \A s \in Set : Over(s) => Over(s)'
    <3>1. ASSUME NEW s \in Set, Over(s) PROVE Over(s)'
      <4>1. EndsOn(s) <= worker.now /\ EndsOn(s) \in Nat /\ EndsOn(worker.set) \in Nat
        BY <1>1, <3>1, Ends DEF Over
      <4>2. s # worker.set  BY <1>1, <4>1, WorkerTypes
      <4>3. \A w \in Week : review'[s][w] = review[s][w]  BY <2>3, <4>2
      <4>. QED  BY <2>1, <2>4, <3>1, <4>1, <4>3 DEF Over, OpenWeeks
    <3>. QED  BY <3>1
  <2>8. WorkerKnows'
    BY <1>1, <2>1, <2>4 DEF IInv, WorkerKnows, WithReview, WithFinal
  <2>. QED  BY <2>1, <2>4, <2>5, <2>6, <2>7, <2>8, ReviewWrites
<1>. QED  BY <1>2, <1>3

\* The input is written while the review it is for is open, with that review's prompt.
LEMMA KeptByStorePrompt == IInv /\ StorePrompt => IInv'
<1>. SUFFICES ASSUME IInv, StorePrompt PROVE IInv'  OBVIOUS
<1>1. /\ worker.at = "store" /\ worker.job \in {"goal_weekly", "goal_reminder"}
      /\ worker.set \in Set /\ worker.week \in Week
      /\ review[worker.set][worker.week].state = "open"
  BY DEF StorePrompt, At, IInv, WorkerKnows, WithReview
<1>. DEFINE r == WithPrompt(review[worker.set][worker.week])
<1>2. /\ UNCHANGED <<clock, goals, final, posted, suspended, call>>
      /\ review' = [review EXCEPT ![worker.set][worker.week] = r]
      /\ pending' = [kind |-> "weekly", set |-> worker.set, week |-> worker.week, prompt |-> r.prompt]
      /\ worker' = Leaves("weekly") /\ ~ApiHoldsInput
  BY DEF StorePrompt
<1>3. r \in Review /\ r.state = "open" /\ r.prompt \in {"first", "second"}
  <2>1. review[worker.set][worker.week] \in Review  BY <1>1 DEF IInv, TypeOK
  <2>. QED  BY <1>1, <2>1, ReviewTypes DEF IInv, WithPrompt, Review
<1>. HIDE DEF r
<1>4. /\ review' \in [Set -> [Week -> Review]]
      /\ \A s \in Set, w \in Week :
           review'[s][w] = IF s = worker.set /\ w = worker.week THEN r ELSE review[s][w]
  BY <1>1, <1>2, <1>3, WrittenReview DEF IInv
<1>5. worker' \in WorkerState /\ worker'.at = "weekly" /\ worker'.now = worker.now /\ WorkerKnows'
  BY <1>2, LeftKnows
<1>6. pending' \in Pending  BY <1>1, <1>2, <1>3 DEF Pending
<1>7. TypeOK'  BY <1>2, <1>4, <1>5, <1>6 DEF IInv, TypeOK
<1>8. InputAnswerable'  BY <1>1, <1>2, <1>3, <1>4 DEF InputAnswerable, Expects
<1>9. \A s \in Set : Over(s) => Over(s)'
  <2>1. \A s \in Set, w \in Week : review'[s][w].state = review[s][w].state
    BY <1>1, <1>3, <1>4
  <2>. QED  BY <1>1, <1>2, <1>5, <2>1 DEF Over, OpenWeeks
<1>. QED  BY <1>2, <1>5, <1>7, <1>8, <1>9, ReviewWrites

\* A skipped review takes its input along.
LEMMA KeptByCommitSkip == IInv /\ CommitSkip => IInv'
<1>. SUFFICES ASSUME IInv, CommitSkip PROVE IInv'  OBVIOUS
<1>1. /\ worker.at = "clear" /\ worker.set \in Set /\ worker.week \in Week
      /\ review[worker.set][worker.week].state = "open"
  BY DEF CommitSkip, At, IInv, WorkerKnows, WithReview
<1>. DEFINE r == Skipped(review[worker.set][worker.week])
<1>2. /\ UNCHANGED <<clock, goals, final, posted, suspended, call>>
      /\ review' = [review EXCEPT ![worker.set][worker.week] = r]
      /\ pending' = WithoutReview(worker.set, worker.week)
      /\ worker' = Leaves("weekly") /\ ~ApiHoldsInput
  BY DEF CommitSkip, ClearedInput
<1>3. r \in Review /\ r.state = "skipped"
  <2>1. review[worker.set][worker.week] \in Review  BY <1>1 DEF IInv, TypeOK
  <2>. QED  BY <2>1, ReviewTypes DEF IInv, Skipped, Review
<1>. HIDE DEF r
<1>4. /\ review' \in [Set -> [Week -> Review]]
      /\ \A s \in Set, w \in Week :
           review'[s][w] = IF s = worker.set /\ w = worker.week THEN r ELSE review[s][w]
  BY <1>1, <1>2, <1>3, WrittenReview DEF IInv
<1>5. worker' \in WorkerState /\ worker'.at = "weekly" /\ worker'.now = worker.now /\ WorkerKnows'
  BY <1>2, LeftKnows
<1>6. \/ pending' = None
      \/ pending' = pending /\ ~ExpectsReview(worker.set, worker.week)
  BY <1>2 DEF WithoutReview
<1>7. TypeOK'  BY <1>2, <1>4, <1>5, <1>6 DEF IInv, TypeOK
<1>8. InputAnswerable'
  <2>1. CASE pending' = None  BY <2>1 DEF InputAnswerable, Expects
  <2>2. CASE pending' = pending /\ ~ExpectsReview(worker.set, worker.week)
    <3>1. Expects("weekly") => pending.set \in Set /\ pending.week \in Week
      BY NoneAssumption DEF IInv, TypeOK, Expects, Pending
    <3>2. Expects("weekly") => review'[pending.set][pending.week] = review[pending.set][pending.week]
      BY <1>4, <2>2, <3>1 DEF ExpectsReview
    <3>. QED  BY <1>2, <2>2, <3>2 DEF IInv, InputAnswerable, Expects, Accepts
  <2>. QED  BY <1>6, <2>1, <2>2
<1>9. \A s \in Set : Over(s) => Over(s)'
  <2>1. \A s \in Set, w \in Week : review'[s][w].state = "open" => review[s][w].state = "open"
    BY <1>1, <1>3, <1>4
  <2>. QED  BY <1>1, <1>2, <1>5, <2>1 DEF Over, OpenWeeks
<1>. QED  BY <1>2, <1>5, <1>7, <1>8, <1>9, ReviewWrites

-----------------------------------------------------------------------------
(* Every step, and the invariant.                                          *)

LEMMA KeptByNext == IInv /\ [Next]_vars => IInv'
<1>. SUFFICES ASSUME IInv, [Next]_vars PROVE IInv'  OBVIOUS
<1>1. CASE Advance  BY <1>1, KeptByAdvance
<1>2. CASE UserActs
  <2>1. CASE Configure  BY <2>1, KeptByConfigure
  <2>2. CASE GoalsRejected \/ GoalsArrive  BY <2>2, KeptByGoals
  <2>3. CASE ReviewArrives  BY <2>3, KeptByReviewArrives
  <2>4. CASE ReflectionArrives  BY <2>4, KeptByReflection
  <2>5. CASE \E s \in Set : StatusPressed(s) \/ CompletePressed(s)
    BY <2>5, KeptByStatusPressed, KeptByComplete
  <2>. QED  BY <1>2, <2>1, <2>2, <2>3, <2>4, <2>5 DEF UserActs
<1>3. CASE ApiEnds
  BY <1>3, KeptByGoals, KeptBySubmitReview, KeptByCommitReview, KeptByCommitStatus, KeptByAbort
  DEF ApiEnds
<1>4. CASE TickSteps
  <2>1. CASE TickBegins \/ CleanupStale  BY <2>1, KeptByTickBegins, KeptByCleanup
  <2>2. CASE ListSets \/ WeekliesDone  BY <2>2, KeptByPassing
  <2>3. CASE \E s \in Set : AdvanceReview(s) \/ NewReview(s) \/ ReadFinal(s)
    BY <2>3, KeptByAdvanceReview, KeptByNewReview, KeptByReadFinal
  <2>4. CASE ReadInput \/ CreateReview \/ SendPrompt \/ LockReview \/ SkipReview
    BY <2>4, KeptByReadInput, KeptByCreateReview, KeptBySendPrompt, KeptByLockReview, KeptBySkipReview
  <2>5. CASE StorePrompt \/ CommitSkip  BY <2>5, KeptByStorePrompt, KeptByCommitSkip
  <2>6. CASE FinalsDone \/ ReadFinalInput \/ SkipFinal \/ SendFinal \/ SetFinal
    BY <2>6, KeptByFinalReads, KeptBySendFinal, KeptBySetFinal
  <2>. QED  BY <1>4, <2>1, <2>2, <2>3, <2>4, <2>5, <2>6 DEF TickSteps
<1>5. CASE Breaks
  BY <1>5, KeptByPromptFails, KeptByFinalFails, KeptByFinalUndone, KeptByFinalReads DEF Breaks
<1>6. CASE UNCHANGED vars
  <2>1. CallKnows'
    BY <1>6 DEF vars, IInv, CallKnows, InCall, ExpectsReview, Expects, WorkerHoldsReview, Over, OpenWeeks
  <2>. QED  BY <1>6, <2>1, CallStep DEF vars, IInv, TypeOK
<1>. QED  BY <1>1, <1>2, <1>3, <1>4, <1>5, <1>6 DEF Next

LEMMA Inductive == Spec => []IInv
BY Start, KeptByNext, PTL DEF Spec

\* The types of the state.
THEOREM TypeCorrect == Spec => []TypeOK
<1>1. IInv => TypeOK  BY DEF IInv
<1>. QED  BY <1>1, Inductive, PTL

\* The input the API or the worker leaves behind can be accepted, whichever of them
\* wrote it and whatever the other was doing.
THEOREM InputsAreAnswerable == Spec => []InputAnswerable
<1>1. IInv => InputAnswerable  BY DEF IInv
<1>. QED  BY <1>1, Inductive, PTL

\* The prompt of a final review is in the chat only while no review of its season is
\* open, although the worker looks for open ones several statements before it sends.
THEOREM FinalReviewsWait == Spec => []FinalWaits
<1>1. IInv => FinalWaits  BY DEF IInv, FinalsOver, Over, FinalWaits
<1>. QED  BY <1>1, Inductive, PTL

-----------------------------------------------------------------------------
(* What a step never does.                                                 *)

\* A step that writes a review writes one that is open, or not there yet.
LEMMA WritesOpenReviews ==
    ASSUME IInv, [Next]_vars, NEW s \in Set, NEW w \in Week,
           review[s][w].state \in {"answered", "skipped"}
    PROVE  review'[s][w] = review[s][w]
<1>1. CASE CommitReview
  <2>1. /\ call.set \in Set /\ call.week \in Week
        /\ review' = [review EXCEPT ![call.set][call.week].state = "answered"]
    BY <1>1 DEF IInv, TypeOK, Call, CommitReview, InCall
  <2>2. review[call.set][call.week].state = "open"
    BY <1>1 DEF IInv, CallKnows, InputAnswerable, ExpectsReview, CommitReview, InCall
  <2>. QED  BY <2>1, <2>2 DEF IInv, TypeOK
<1>2. CASE CreateReview
  <2>1. /\ worker.set \in Set /\ worker.week \in Week
        /\ \/ review' = review
           \/ /\ review[worker.set][worker.week].state = "none"
              /\ review' = [review EXCEPT ![worker.set][worker.week] =
                               [NoReview EXCEPT !.state = "open", !.requested = worker.now]]
    BY <1>2 DEF IInv, WorkerKnows, WithReview, CreateReview, At, Reads
  <2>. QED  BY <2>1 DEF IInv, TypeOK
<1>3. CASE StorePrompt \/ CommitSkip
  <2>1. /\ worker.set \in Set /\ worker.week \in Week
        /\ review[worker.set][worker.week].state = "open"
        /\ \E r : review' = [review EXCEPT ![worker.set][worker.week] = r]
    BY <1>3 DEF IInv, WorkerKnows, WithReview, StorePrompt, CommitSkip, At
  <2>. QED  BY <2>1 DEF IInv, TypeOK
<1>4. CASE ~CommitReview /\ ~CreateReview /\ ~StorePrompt /\ ~CommitSkip
  BY <1>4
  DEF Next, vars, Advance, UserActs, ApiEnds, TickSteps, Breaks, Configure, GoalsRejected,
      GoalsArrive, ReviewArrives, ReflectionArrives, StatusPressed, CompletePressed, Begin,
      CommitSetup, SubmitReview, CommitStatus, CommitFallback, ApiAborts, TickBegins,
      CleanupStale, ListSets, AdvanceReview, NewReview, ReadFinal, WeekliesDone, ReadInput,
      SendPrompt, LockReview, SkipReview, FinalsDone, ReadFinalInput, SkipFinal, SendFinal,
      SetFinal, PromptFails, FinalFails, Defers, FinalUndone, WorkerStops, Reads
<1>. QED  BY <1>1, <1>2, <1>3, <1>4

\* A step that writes a final review writes one that is not completed, but for the
\* prompt's mark.
LEMMA WritesUncompletedFinals ==
    ASSUME IInv, [Next]_vars, NEW s \in Set, final[s].completed
    PROVE  final'[s].completed /\ final'[s].status = final[s].status
<1>0. final \in [Set -> FinalReview] /\ final[s] \in FinalReview  BY DEF IInv, TypeOK
<1>1. CASE CommitStatus \/ CommitFallback
  <2>1. call.set \in Set /\ ~final[call.set].completed
    BY <1>1 DEF IInv, TypeOK, Call, CallKnows, CommitStatus, CommitFallback, InCall
  <2>2. \E f : final' = [final EXCEPT ![call.set] = f]
    BY <1>1 DEF CommitStatus, CommitFallback
  <2>. QED  BY <1>0, <2>1, <2>2
<1>2. CASE ReflectionArrives
  <2>1. ~final[pending.set].completed /\ \E f : final' = [final EXCEPT ![pending.set] = f]
    BY <1>2 DEF ReflectionArrives, Accepts
  <2>. QED  BY <1>0, <2>1
<1>3. ASSUME NEW t \in Set, CompletePressed(t) PROVE final'[s].completed /\ final'[s].status = final[s].status
  <2>1. ~final[t].completed /\ \E f : final' = [final EXCEPT ![t] = f]
    BY <1>3 DEF CompletePressed, Accepts
  <2>. QED  BY <1>0, <2>1
<1>4. CASE SetFinal
  <2>1. final' = [final EXCEPT ![worker.set] = [@ EXCEPT !.prompted = TRUE]]  BY <1>4 DEF SetFinal
  <2>. QED  BY <1>0, <2>1 DEF FinalReview
<1>5. CASE ~CommitStatus /\ ~CommitFallback /\ ~ReflectionArrives /\ ~SetFinal
           /\ \A t \in Set : ~CompletePressed(t)
  BY <1>5
  DEF Next, vars, Advance, UserActs, ApiEnds, TickSteps, Breaks, Configure, GoalsRejected,
      GoalsArrive, ReviewArrives, StatusPressed, Begin, CommitSetup, SubmitReview, CommitReview,
      ApiAborts, TickBegins, CleanupStale, ListSets, AdvanceReview, NewReview, ReadFinal,
      WeekliesDone, ReadInput, CreateReview, SendPrompt, LockReview, StorePrompt, SkipReview,
      CommitSkip, FinalsDone, ReadFinalInput, SkipFinal, SendFinal, PromptFails, FinalFails,
      Defers, FinalUndone, WorkerStops, Reads
<1>. QED  BY <1>1, <1>2, <1>3, <1>4, <1>5

\* A review that is over, answered or skipped, stays as it is, and a completed final
\* review stays completed.
THEOREM ReviewsAreKept == Spec => ReviewsStay
<1>1. IInv /\ [Next]_vars =>
        [\A s \in Set :
            /\ \A w \in Week : review[s][w].state \in {"answered", "skipped"} =>
                    review'[s][w] = review[s][w]
            /\ final[s].completed => final'[s].completed /\ final'[s].status = final[s].status]_vars
  BY WritesOpenReviews, WritesUncompletedFinals
<1>. QED  BY <1>1, Inductive, PTL DEF Spec, ReviewsStay

-----------------------------------------------------------------------------
(* Goals implements SeasonLifecycle.  The tick acts on rows it read in     *)
(* earlier statements, so what it knows of them must have lasted: a review *)
(* that is still open is as old, and was asked for as often, as it was     *)
(* when the tick chose what to do with it.                                 *)

\* The review the worker has at hand.
AtHand == review[worker.set][worker.week]

Verdict(s) == final[s].status \/ final[s].summary \/ final[s].completed

ReviewsKnow ==
    /\ \A s \in Set : Verdict(s) => Over(s)
    /\ worker.at \in {"pending", "create"} /\ worker.job = "create" =>
         OpenWeeks(worker.set) = {} /\ DueOn(worker.set, worker.week) <= worker.now
    /\ worker.at \in {"skip", "clear"} /\ AtHand.state = "open" => SkipDue(AtHand)
    /\ worker.at \in {"pending", "send", "lock", "store"} /\ worker.job = "goal_reminder"
         /\ AtHand.state = "open" => RemindDue(AtHand) /\ AtHand.prompt = "first"
    /\ worker.at = "store" /\ worker.job = "goal_weekly" => AtHand.prompt = "none"

RInv == IInv /\ ReviewsKnow

\* The steps that write a review.
LEMMA ReviewWriters ==
    ASSUME [Next]_vars
    PROVE  review' = review \/ CommitReview \/ CreateReview \/ StorePrompt \/ CommitSkip
<1>1. CASE ~CommitReview /\ ~CreateReview /\ ~StorePrompt /\ ~CommitSkip
  BY <1>1
  DEF Next, vars, Advance, UserActs, ApiEnds, TickSteps, Breaks, Configure, GoalsRejected,
      GoalsArrive, ReviewArrives, ReflectionArrives, StatusPressed, CompletePressed, Begin,
      CommitSetup, SubmitReview, CommitStatus, CommitFallback, ApiAborts, TickBegins,
      CleanupStale, ListSets, AdvanceReview, NewReview, ReadFinal, WeekliesDone, ReadInput,
      SendPrompt, LockReview, SkipReview, FinalsDone, ReadFinalInput, SkipFinal, SendFinal,
      SetFinal, PromptFails, FinalFails, Defers, FinalUndone, WorkerStops, Reads
<1>. QED  BY <1>1

\* The API writes a review that was asked for.
LEMMA AnswerWrites ==
    ASSUME IInv, CommitReview
    PROVE  /\ call.set \in Set /\ call.week \in Week
           /\ review[call.set][call.week] \in Review
           /\ review[call.set][call.week].state = "open"
           /\ review[call.set][call.week].prompt \in {"first", "second"}
           /\ \A s \in Set, w \in Week :
                review'[s][w] = IF s = call.set /\ w = call.week
                                THEN [review[s][w] EXCEPT !.state = "answered"] ELSE review[s][w]
<1>1. call.set \in Set /\ call.week \in Week
  BY DEF IInv, TypeOK, Call, CommitReview, InCall
<1>2. ExpectsReview(call.set, call.week)
  BY DEF IInv, CallKnows, CommitReview, InCall
<1>3. pending.prompt \in {"first", "second"}
  BY <1>2 DEF IInv, TypeOK, Pending, ExpectsReview, Expects
<1>4. /\ review[call.set][call.week].state = "open"
      /\ review[call.set][call.week].prompt \in {"first", "second"}
  BY <1>2, <1>3 DEF IInv, InputAnswerable, ExpectsReview
<1>. DEFINE r == [review[call.set][call.week] EXCEPT !.state = "answered"]
<1>5. review[call.set][call.week] \in Review /\ r \in Review
  <2>1. review[call.set][call.week] \in Review  BY <1>1 DEF IInv, TypeOK
  <2>. QED  BY <2>1, ReviewTypes DEF IInv, Review
<1>6. review' = [review EXCEPT ![call.set][call.week] = r]  BY DEF CommitReview
<1>. HIDE DEF r
<1>7. \A s \in Set, w \in Week :
        review'[s][w] = IF s = call.set /\ w = call.week THEN r ELSE review[s][w]
  <2>1. TypeOK  BY DEF IInv
  <2>. QED  BY <1>1, <1>5, <1>6, <2>1, WrittenReview, ZenonT(60)
<1>. QED  BY <1>1, <1>4, <1>5, <1>7 DEF r

\* The worker writes the review it has at hand.
LEMMA WorkerWrites ==
    ASSUME IInv, worker.at \in {"create", "store", "clear"}, NEW r \in Review,
           review' = [review EXCEPT ![worker.set][worker.week] = r]
    PROVE  /\ worker.set \in Set /\ worker.week \in Week /\ AtHand \in Review
           /\ worker.at # "create" => AtHand.state = "open"
           /\ \A s \in Set, w \in Week :
                review'[s][w] = IF s = worker.set /\ w = worker.week THEN r ELSE review[s][w]
<1>1. worker.set \in Set /\ worker.week \in Week  BY DEF IInv, WorkerKnows, WithReview
<1>2. AtHand \in Review /\ (worker.at # "create" => AtHand.state = "open")
  BY <1>1 DEF IInv, TypeOK, WorkerKnows, AtHand
<1>3. TypeOK  BY DEF IInv
<1>. QED  BY <1>1, <1>2, <1>3, WrittenReview, ZenonT(60)

NewRow == [NoReview EXCEPT !.state = "open", !.requested = worker.now]

LEMMA CreateWrites ==
    ASSUME IInv, CreateReview, AtHand.state = "none"
    PROVE  /\ NewRow \in Review /\ NewRow.requested = worker.now
           /\ NewRow.state = "open" /\ NewRow.prompt = "none"
           /\ review' = [review EXCEPT ![worker.set][worker.week] = NewRow]
           /\ worker.at = "create"
<1>1. worker.now \in Instant  BY WorkerTypes DEF WorkerState
<1>2. NoReview \in Review /\ NoReview.prompt = "none"  BY ReviewTypes DEF NoReview
<1>3. NewRow \in Review /\ NewRow.requested = worker.now
      /\ NewRow.state = "open" /\ NewRow.prompt = "none"
  BY <1>1, <1>2 DEF NewRow, Review
<1>4. review' = [review EXCEPT ![worker.set][worker.week] = NewRow]
  BY DEF CreateReview, AtHand, NewRow
<1>. QED  BY <1>3, <1>4 DEF CreateReview, At

LEMMA StoreWrites ==
    ASSUME IInv, StorePrompt
    PROVE  LET r == WithPrompt(AtHand) IN
           /\ r \in Review /\ r.state = "open"
           /\ review' = [review EXCEPT ![worker.set][worker.week] = r]
           /\ worker.at = "store" /\ AtHand \in Review /\ AtHand.state = "open"
           /\ worker.set \in Set /\ worker.week \in Week
           /\ worker.job \in {"goal_weekly", "goal_reminder"}
<1>1. worker.at = "store" /\ worker.set \in Set /\ worker.week \in Week
      /\ worker.job \in {"goal_weekly", "goal_reminder"}
  BY DEF StorePrompt, At, IInv, WorkerKnows, WithReview
<1>2. AtHand \in Review /\ AtHand.state = "open"
  BY <1>1 DEF IInv, TypeOK, WorkerKnows, AtHand
<1>3. WithPrompt(AtHand) \in Review  BY <1>2, ReviewTypes DEF IInv
<1>4. WithPrompt(AtHand).state = "open"  BY <1>2 DEF WithPrompt, Review
<1>5. review' = [review EXCEPT ![worker.set][worker.week] = WithPrompt(AtHand)]
  BY DEF StorePrompt, AtHand
<1>. QED  BY <1>1, <1>2, <1>3, <1>4, <1>5

LEMMA SkipWrites ==
    ASSUME IInv, CommitSkip
    PROVE  LET r == Skipped(AtHand) IN
           /\ r \in Review /\ r.state = "skipped" /\ r.requested = AtHand.requested
           /\ review' = [review EXCEPT ![worker.set][worker.week] = r]
           /\ worker.at = "clear" /\ AtHand \in Review /\ AtHand.state = "open"
           /\ worker.set \in Set /\ worker.week \in Week
<1>1. worker.at = "clear" /\ worker.set \in Set /\ worker.week \in Week
  BY DEF CommitSkip, At, IInv, WorkerKnows, WithReview
<1>2. AtHand \in Review /\ AtHand.state = "open"
  BY <1>1 DEF IInv, TypeOK, WorkerKnows, AtHand
<1>3. Skipped(AtHand) \in Review  BY <1>2, ReviewTypes DEF IInv
<1>4. Skipped(AtHand).state = "skipped" /\ Skipped(AtHand).requested = AtHand.requested
  BY <1>2 DEF Skipped, Review
<1>5. review' = [review EXCEPT ![worker.set][worker.week] = Skipped(AtHand)]
  BY DEF CommitSkip, AtHand
<1>. QED  BY <1>1, <1>2, <1>3, <1>4, <1>5

\* Only the worker opens a review, and only one of a season that has not ended.
LEMMA OpensAtHand ==
    ASSUME IInv, [Next]_vars, NEW s \in Set, NEW w \in Week, review'[s][w].state = "open"
    PROVE  \/ review[s][w].state = "open"
           \/ worker.at = "create" /\ s = worker.set /\ worker.now < EndsOn(s) /\ worker' # worker
<1>1. CASE review' = review  BY <1>1
<1>2. CASE CommitReview
  <2>1. review[call.set][call.week] \in Review  BY <1>2, AnswerWrites
  <2>2. [review[call.set][call.week] EXCEPT !.state = "answered"].state = "answered"
    BY <2>1 DEF Review
  <2>. QED  BY <1>2, <2>2, AnswerWrites
<1>3. CASE CreateReview /\ AtHand.state = "none"
  <2>1. worker.at = "create" /\ worker.now < EndsOn(worker.set)
    BY <1>3 DEF CreateReview, At, IInv, WorkerKnows
  <2>2. worker'.at = "send"
    BY <1>3, WorkerTypes DEF CreateReview, AtHand, GoesTo, WorkerState
  <2>3. s # worker.set => review'[s][w] = review[s][w]
    BY <1>3, <2>1, CreateWrites, WorkerWrites
  <2>. QED  BY <2>1, <2>2, <2>3
<1>4. CASE CreateReview /\ AtHand.state # "none"
  BY <1>4 DEF CreateReview, AtHand, Reads
<1>5. CASE StorePrompt  BY <1>5, StoreWrites, WorkerWrites DEF AtHand
<1>6. CASE CommitSkip  BY <1>6, SkipWrites, WorkerWrites DEF AtHand
<1>. QED  BY <1>1, <1>2, <1>3, <1>4, <1>5, <1>6, ReviewWriters

\* Time goes on, and the tick keeps the time it has read.
LEMMA TimesGoOn ==
    ASSUME IInv, [Next]_vars
    PROVE  /\ clock <= clock'
           /\ worker'.at # "off" => \/ worker.at # "off" /\ worker'.now = worker.now
                                    \/ worker'.now = clock
<1>0. worker \in WorkerState /\ clock \in Nat  BY WorkerTypes
<1>1. CASE Advance  BY <1>0, <1>1 DEF Advance
<1>2. CASE UserActs \/ ApiEnds \/ UNCHANGED vars
  BY <1>0, <1>2
  DEF UserActs, ApiEnds, vars, Configure, GoalsRejected, GoalsArrive, ReviewArrives,
      ReflectionArrives, StatusPressed, CompletePressed, Begin, CommitSetup, SubmitReview,
      CommitReview, CommitStatus, CommitFallback, ApiAborts
<1>3. ASSUME NEW step \in Step
      PROVE  GoesTo(step).now = worker.now /\ Leaves(step).now = worker.now
  BY <1>0 DEF GoesTo, Leaves, WorkerState
<1>4. ASSUME NEW s, NEW w, NEW step, NEW job
      PROVE  Taken(s, w, step, job).now = worker.now /\ Passed(s).now = worker.now
  BY <1>0 DEF Taken, Passed, WorkerState
<1>5. Off.at = "off" /\ [Off EXCEPT !.at = "inputs", !.now = clock].now = clock  BY DEF Off
<1>6. CASE TickSteps
  <2>1. CASE TickBegins  BY <1>0, <1>5, <2>1 DEF TickBegins, Reads
  <2>2. CASE ListSets
    <3>1. worker.at # "off" /\ clock' = clock  BY <2>2 DEF ListSets, Reads
    <3>2. worker'.now = worker.now  BY <1>0, <2>2 DEF ListSets, Reads, WorkerState
    <3>. QED  BY <1>0, <3>1, <3>2
  <2>3. ASSUME NEW s \in Set, AdvanceReview(s) \/ NewReview(s) \/ ReadFinal(s)
        PROVE  clock' = clock /\ worker.at # "off" /\ worker'.now = worker.now
    <3>1. clock' = clock /\ worker.at # "off"
      BY <2>3 DEF AdvanceReview, NewReview, ReadFinal, Reads, At
    <3>2. worker' = Passed(s) \/ \E w, step, job : worker' = Taken(s, w, step, job)
      BY <2>3 DEF AdvanceReview, NewReview, ReadFinal, Reads
    <3>. QED  BY <1>4, <3>1, <3>2
  <2>4. CASE CreateReview
    <3>1. clock' = clock /\ worker.at # "off"  BY <2>4 DEF CreateReview, Reads, At
    <3>2. worker'.now = worker.now
      BY <1>0, <2>4 DEF CreateReview, Reads, GoesTo, Leaves, WorkerState
    <3>. QED  BY <1>0, <3>1, <3>2
  <2>5. CASE \/ CleanupStale \/ WeekliesDone \/ ReadInput \/ SendPrompt \/ LockReview
             \/ StorePrompt \/ SkipReview \/ CommitSkip \/ ReadFinalInput \/ SkipFinal
             \/ SendFinal \/ SetFinal
    <3>1. clock' = clock /\ worker.at # "off"
          /\ \E step \in Step : worker' = GoesTo(step) \/ worker' = Leaves(step)
      BY <2>5
      DEF CleanupStale, WeekliesDone, ReadInput, SendPrompt, LockReview, StorePrompt, SkipReview,
          CommitSkip, ReadFinalInput, SkipFinal, SendFinal, SetFinal, Reads, At, Step
    <3>. QED  BY <1>0, <1>3, <3>1
  <2>6. CASE FinalsDone  BY <1>0, <1>5, <2>6 DEF FinalsDone, Reads
  <2>. QED  BY <1>0, <1>6, <2>1, <2>2, <2>3, <2>4, <2>5, <2>6 DEF TickSteps
<1>7. CASE Breaks
  <2>1. /\ clock' = clock
        /\ \/ worker' = Off
           \/ worker.at # "off" /\ \E step \in Step : worker' = Leaves(step)
    BY <1>7
    DEF Breaks, PromptFails, FinalFails, Defers, FinalUndone, WorkerStops, Reads, At, Step
  <2>. QED  BY <1>0, <1>3, <1>5, <2>1
<1>. QED  BY <1>1, <1>2, <1>6, <1>7 DEF Next

\* A season that is over stays so.
LEMMA OverStays ==
    ASSUME IInv, [Next]_vars, NEW s \in Set, Over(s)
    PROVE  Over(s)'
<1>1. EndsOn(s) \in Nat /\ clock \in Nat /\ worker.now \in Nat  BY Ends, WorkerTypes
<1>2. clock' \in Nat  BY KeptByNext, Times DEF IInv, TypeOK
<1>3. EndsOn(s) <= clock' /\ (worker'.at # "off" => EndsOn(s) <= worker'.now)
  BY <1>1, <1>2, TimesGoOn DEF Over
<1>4. ASSUME NEW w \in Week, review'[s][w].state = "open" PROVE FALSE
  <2>1. review[s][w].state # "open"  BY DEF Over, OpenWeeks
  <2>2. worker.at # "off" /\ worker.now < EndsOn(s)  BY <1>4, <2>1, OpensAtHand
  <2>. QED  BY <1>1, <2>2 DEF Over
<1>. QED  BY <1>3, <1>4 DEF Over, OpenWeeks, EndsOn

\* A final review gets its first mark only when its season is over.
LEMMA VerdictsOver ==
    ASSUME IInv, [Next]_vars, NEW s \in Set, Verdict(s)'
    PROVE  Verdict(s) \/ Over(s)
<1>0. final \in [Set -> FinalReview] /\ final[s] \in FinalReview  BY DEF IInv, TypeOK
<1>1. CASE CommitStatus \/ CommitFallback
  <2>1. /\ call.set \in Set /\ Over(call.set)
        /\ \E f : final' = [final EXCEPT ![call.set] = f]
    BY <1>1 DEF IInv, TypeOK, Call, CallKnows, CommitStatus, CommitFallback, InCall
  <2>. QED  BY <1>0, <2>1 DEF Verdict
<1>2. CASE ReflectionArrives
  <2>1. final[pending.set].status /\ \E f : final' = [final EXCEPT ![pending.set] = f]
    BY <1>2 DEF ReflectionArrives, Accepts
  <2>. QED  BY <1>0, <2>1 DEF Verdict
<1>3. ASSUME NEW t \in Set, CompletePressed(t) PROVE Verdict(s)
  <2>1. final[t].status /\ \E f : final' = [final EXCEPT ![t] = f]
    BY <1>3 DEF CompletePressed, Accepts
  <2>. QED  BY <1>0, <2>1 DEF Verdict
<1>4. CASE SetFinal
  <2>1. final' = [final EXCEPT ![worker.set] = [@ EXCEPT !.prompted = TRUE]]  BY <1>4 DEF SetFinal
  <2>. QED  BY <1>0, <2>1 DEF FinalReview, Verdict
<1>5. CASE ~CommitStatus /\ ~CommitFallback /\ ~ReflectionArrives /\ ~SetFinal
           /\ \A t \in Set : ~CompletePressed(t)
  <2>1. final' = final
    BY <1>5
    DEF Next, vars, Advance, UserActs, ApiEnds, TickSteps, Breaks, Configure, GoalsRejected,
        GoalsArrive, ReviewArrives, StatusPressed, Begin, CommitSetup, SubmitReview, CommitReview,
        ApiAborts, TickBegins, CleanupStale, ListSets, AdvanceReview, NewReview, ReadFinal,
        WeekliesDone, ReadInput, CreateReview, SendPrompt, LockReview, StorePrompt, SkipReview,
        CommitSkip, FinalsDone, ReadFinalInput, SkipFinal, SendFinal, PromptFails, FinalFails,
        Defers, FinalUndone, WorkerStops, Reads
  <2>. QED  BY <2>1 DEF Verdict
<1>. QED  BY <1>1, <1>2, <1>3, <1>4, <1>5

-----------------------------------------------------------------------------
(* What the tick knows of its review lasts.                                *)

LEMMA KeptVerdicts ==
    ASSUME RInv, [Next]_vars
    PROVE  (\A s \in Set : Verdict(s) => Over(s))'
<1>1. ASSUME NEW s \in Set, Verdict(s)' PROVE Over(s)'
  <2>1. Over(s)  BY <1>1, VerdictsOver DEF RInv, ReviewsKnow
  <2>. QED  BY <2>1, OverStays DEF RInv
<1>. QED  BY <1>1 DEF Verdict, Over, OpenWeeks, EndsOn

\* Without a step of its own: the API only ends reviews.
LEMMA KnowsInStandstill ==
    ASSUME RInv, [Next]_vars, worker' = worker
    PROVE  ReviewsKnow'
<1>. USE DEF RInv
<1>0. worker \in WorkerState  BY WorkerTypes
<1>1. review' = review \/ CommitReview
  <2>1. ~StorePrompt /\ ~CommitSkip
    BY <1>0 DEF StorePrompt, CommitSkip, At, Leaves, WorkerState
  <2>2. CreateReview => worker'.at \in {"send", "weekly"} /\ worker.at = "create"
    BY <1>0 DEF CreateReview, At, GoesTo, Leaves, Reads, WorkerState
  <2>. QED  BY <2>1, <2>2, ReviewWriters
<1>2. ASSUME worker.at \in WithReview PROVE AtHand' = AtHand \/ (AtHand.state = "open" /\ AtHand'.state = "answered" /\ AtHand.prompt # "none")
  <2>1. worker.set \in Set /\ worker.week \in Week  BY <1>2 DEF IInv, WorkerKnows
  <2>2. CASE review' = review  BY <2>2 DEF AtHand
  <2>3. CASE CommitReview
    <3>1. AtHand \in Review  BY <2>1 DEF IInv, TypeOK, AtHand
    <3>2. [AtHand EXCEPT !.state = "answered"].state = "answered"  BY <3>1 DEF Review
    <3>. QED  BY <2>1, <2>3, <3>2, AnswerWrites DEF AtHand
  <2>. QED  BY <1>1, <2>2, <2>3
<1>3. worker.at \in {"pending", "create"} /\ worker.job = "create" =>
        (OpenWeeks(worker.set) = {})' /\ DueOn(worker.set, worker.week)' <= worker'.now
  <2>1. ASSUME worker.at \in {"pending", "create"}, worker.job = "create", NEW w \in Week,
               review'[worker.set][w].state = "open"
        PROVE FALSE
    <3>1. worker.set \in Set /\ review[worker.set][w].state # "open"
      BY <2>1 DEF IInv, WorkerKnows, WithReview, ReviewsKnow, OpenWeeks
    <3>. QED  BY <2>1, <3>1, OpensAtHand
  <2>2. DueOn(worker.set, worker.week)' = DueOn(worker.set, worker.week)  BY DEF DueOn, StartsOn
  <2>. QED  BY <2>1, <2>2 DEF ReviewsKnow, OpenWeeks
<1>4. /\ worker.at \in {"skip", "clear"} /\ AtHand'.state = "open" => SkipDue(AtHand)'
      /\ worker.at \in {"pending", "send", "lock", "store"} /\ worker.job = "goal_reminder"
           /\ AtHand'.state = "open" => RemindDue(AtHand)' /\ AtHand'.prompt = "first"
      /\ worker.at = "store" /\ worker.job = "goal_weekly" => AtHand'.prompt = "none"
  BY <1>2 DEF ReviewsKnow, SkipDue, RemindDue, WithReview
<1>. QED  BY <1>3, <1>4, KeptVerdicts DEF ReviewsKnow

\* With no review at hand there is nothing to know.
LEMMA KnowsNothing ==
    ASSUME RInv, [Next]_vars, worker'.at \notin WithReview
    PROVE  ReviewsKnow'
BY KeptVerdicts DEF ReviewsKnow, WithReview

LEMMA KnowsByAdvanceReview ==
    ASSUME RInv, [Next]_vars, NEW s \in Set, AdvanceReview(s)
    PROVE  ReviewsKnow'
<1>. USE DEF RInv
<1>1. worker \in WorkerState /\ worker.at = "weekly" /\ UNCHANGED review
  BY WorkerTypes DEF AdvanceReview, At, Reads
<1>2. PICK w \in OpenWeeks(s) :
        worker' = IF SkipDue(review[s][w]) THEN Taken(s, w, "skip", "none")
                  ELSE IF review[s][w].prompt = "none" THEN Taken(s, w, "pending", "goal_weekly")
                  ELSE IF RemindDue(review[s][w]) THEN Taken(s, w, "pending", "goal_reminder")
                  ELSE Passed(s)
  BY DEF AdvanceReview, Reads
<1>3. w \in Week /\ review[s][w] \in Review  BY DEF OpenWeeks, IInv, TypeOK
<1>4. ASSUME NEW step \in {"skip", "pending"},
             NEW job \in {"none", "goal_weekly", "goal_reminder"}, worker' = Taken(s, w, step, job)
      PROVE  /\ worker'.at = step /\ worker'.job = job /\ worker'.now = worker.now
             /\ AtHand' = review[s][w]
  BY <1>1, <1>4 DEF Taken, WorkerState, AtHand
<1>5. CASE worker' = Taken(s, w, "skip", "none") /\ SkipDue(review[s][w])
  <2>1. worker'.at = "skip" /\ SkipDue(AtHand)'  BY <1>4, <1>5 DEF SkipDue
  <2>. QED  BY <2>1, KeptVerdicts DEF ReviewsKnow
<1>6. CASE worker' = Taken(s, w, "pending", "goal_weekly")
  <2>1. worker'.at = "pending" /\ worker'.job = "goal_weekly"  BY <1>4, <1>6
  <2>. QED  BY <2>1, KeptVerdicts DEF ReviewsKnow
<1>7. CASE worker' = Taken(s, w, "pending", "goal_reminder") /\ RemindDue(review[s][w])
           /\ review[s][w].prompt # "none"
  <2>1. worker'.at = "pending" /\ worker'.job = "goal_reminder" /\ RemindDue(AtHand)'
        /\ AtHand' = review[s][w]
    BY <1>4, <1>7 DEF RemindDue
  <2>2. review[s][w].prompt = "first"  BY <1>3, <1>7 DEF RemindDue, Review
  <2>. QED  BY <2>1, <2>2, KeptVerdicts DEF ReviewsKnow
<1>8. CASE worker' = Passed(s)
  <2>1. worker'.at = "weekly"  BY <1>1, <1>8 DEF Passed, WorkerState
  <2>. QED  BY <2>1, KnowsNothing DEF WithReview
<1>. QED  BY <1>2, <1>5, <1>6, <1>7, <1>8

LEMMA KnowsByNewReview ==
    ASSUME RInv, [Next]_vars, NEW s \in Set, NewReview(s)
    PROVE  ReviewsKnow'
<1>. USE DEF RInv
<1>0. worker \in WorkerState  BY WorkerTypes
<1>1. ASSUME NEW w \in Week, ReviewDue(s, w), Reads(Taken(s, w, "pending", "create"))
      PROVE  ReviewsKnow'
  <2>1. /\ worker'.at = "pending" /\ worker'.job = "create" /\ worker'.now = worker.now
        /\ worker'.set = s /\ worker'.week = w
    BY <1>0, <1>1 DEF Taken, WorkerState, Reads
  <2>2. (OpenWeeks(worker.set) = {})'
    <3>1. review' = review /\ OpenWeeks(s) = {}  BY <1>1 DEF NewReview, Reads
    <3>. QED  BY <2>1, <3>1 DEF OpenWeeks
  <2>3. worker.now \in Int /\ (DueOn(worker.set, worker.week) = worker.now)'
    <3>1. worker.now = DueOn(s, w)  BY <1>1 DEF ReviewDue
    <3>. QED  BY <2>1, <3>1, WorkerTypes DEF DueOn, StartsOn
  <2>. QED  BY <2>1, <2>2, <2>3, KeptVerdicts DEF ReviewsKnow
<1>2. CASE Reads(Passed(s))
  <2>1. worker'.at = "weekly"  BY <1>0, <1>2 DEF NewReview, At, Passed, Reads, WorkerState
  <2>. QED  BY <2>1, KnowsNothing DEF WithReview
<1>. QED  BY <1>1, <1>2 DEF NewReview

\* The tick goes on with its review as it is.
LEMMA KnowsGoingOn ==
    ASSUME RInv, [Next]_vars, ReadInput \/ SendPrompt \/ LockReview \/ SkipReview
    PROVE  ReviewsKnow'
<1>. USE DEF RInv
<1>1. worker \in WorkerState /\ UNCHANGED review
  BY WorkerTypes DEF ReadInput, SendPrompt, LockReview, SkipReview, Reads
<1>2. CASE worker' = Leaves("weekly")
  <2>1. worker'.at = "weekly"  BY <1>1, <1>2 DEF Leaves, WorkerState
  <2>. QED  BY <2>1, KnowsNothing DEF WithReview
<1>3. ASSUME NEW step \in Step, worker' = GoesTo(step)
      PROVE  /\ worker'.at = step /\ worker'.job = worker.job /\ worker'.now = worker.now
             /\ worker'.set = worker.set /\ worker'.week = worker.week
             /\ AtHand' = AtHand /\ OpenWeeks(worker.set)' = OpenWeeks(worker.set)
             /\ DueOn(worker.set, worker.week)' = DueOn(worker.set, worker.week)
             /\ SkipDue(AtHand)' = SkipDue(AtHand) /\ RemindDue(AtHand)' = RemindDue(AtHand)
  <2>1. /\ worker'.at = step /\ worker'.job = worker.job /\ worker'.now = worker.now
        /\ worker'.set = worker.set /\ worker'.week = worker.week
    BY <1>1, <1>3 DEF GoesTo, WorkerState
  <2>. QED  BY <1>1, <2>1 DEF AtHand, OpenWeeks, DueOn, StartsOn, SkipDue, RemindDue
<1>4. CASE worker' = GoesTo("create") /\ worker.at = "pending" /\ worker.job = "create"
  <2>1. "create" \in Step  BY DEF Step
  <2>. QED  BY <1>3, <1>4, <2>1, KeptVerdicts DEF ReviewsKnow
<1>5. CASE worker' = GoesTo("send") /\ worker.at = "pending" /\ worker.job # "create"
  <2>1. "send" \in Step  BY DEF Step
  <2>. QED  BY <1>3, <1>5, <2>1, KeptVerdicts DEF ReviewsKnow
<1>6. CASE worker' = GoesTo("lock") /\ worker.at = "send"
  <2>1. "lock" \in Step  BY DEF Step
  <2>. QED  BY <1>3, <1>6, <2>1, KeptVerdicts DEF ReviewsKnow
<1>7. CASE worker' = GoesTo("store") /\ worker.at = "lock" /\ Storable(AtHand)
  <2>1. "store" \in Step  BY DEF Step
  <2>2. worker.job = "goal_weekly" => AtHand.prompt = "none"  BY <1>7 DEF Storable
  <2>. QED  BY <1>3, <1>7, <2>1, <2>2, KeptVerdicts DEF ReviewsKnow
<1>8. CASE worker' = GoesTo("clear") /\ worker.at = "skip"
  <2>1. "clear" \in Step  BY DEF Step
  <2>. QED  BY <1>3, <1>8, <2>1, KeptVerdicts DEF ReviewsKnow
<1>. QED
  BY <1>2, <1>4, <1>5, <1>6, <1>7, <1>8
  DEF ReadInput, SendPrompt, LockReview, SkipReview, AtHand, At, Reads

LEMMA KnowsByCreateReview ==
    ASSUME RInv, [Next]_vars, CreateReview
    PROVE  ReviewsKnow'
<1>1. worker \in WorkerState  BY WorkerTypes DEF RInv
<1>2. \/ worker'.at = "weekly"
      \/ worker'.at = "send" /\ worker'.job = "goal_weekly"
  BY <1>1 DEF CreateReview, GoesTo, Leaves, Reads, WorkerState
<1>3. CASE worker'.at = "weekly"  BY <1>3, KnowsNothing DEF WithReview
<1>4. CASE worker'.at = "send" /\ worker'.job = "goal_weekly"
  BY <1>4, KeptVerdicts DEF ReviewsKnow
<1>. QED  BY <1>2, <1>3, <1>4

\* The steps after which the tick has no review at hand.
LEMMA LeavesReviews ==
    ASSUME IInv, \/ TickBegins \/ CleanupStale \/ ListSets \/ WeekliesDone \/ StorePrompt
                 \/ CommitSkip \/ FinalsDone \/ ReadFinalInput \/ SkipFinal \/ SendFinal
                 \/ SetFinal \/ Breaks \/ \E s \in Set : ReadFinal(s)
    PROVE  worker'.at \notin WithReview
<1>0. worker \in WorkerState  BY WorkerTypes
<1>1. CASE TickBegins  BY <1>1 DEF TickBegins, Off, Reads, WithReview
<1>2. CASE ListSets  BY <1>0, <1>2 DEF ListSets, Reads, WorkerState, WithReview
<1>3. CASE \E s \in Set : ReadFinal(s)
  BY <1>0, <1>3 DEF ReadFinal, At, Taken, Passed, Reads, WorkerState, WithReview
<1>4. ASSUME NEW step \in Step
      PROVE  GoesTo(step).at = step /\ Leaves(step).at = step /\ Off.at = "off"
  BY <1>0 DEF GoesTo, Leaves, Off, WorkerState
<1>5. CASE \/ CleanupStale \/ WeekliesDone \/ StorePrompt \/ CommitSkip \/ ReadFinalInput
           \/ SkipFinal \/ SendFinal \/ SetFinal \/ FinalsDone \/ Breaks
  <2>1. \/ worker' = Off
        \/ \E step \in Step \ WithReview : worker' = GoesTo(step) \/ worker' = Leaves(step)
    BY <1>5
    DEF CleanupStale, WeekliesDone, StorePrompt, CommitSkip, ReadFinalInput, SkipFinal, SendFinal,
        SetFinal, FinalsDone, Breaks, PromptFails, FinalFails, Defers, FinalUndone, WorkerStops,
        Reads, Step, WithReview
  <2>2. "off" \in Step /\ "off" \notin WithReview  BY DEF Step, WithReview
  <2>. QED  BY <1>4, <2>1, <2>2
<1>. QED  BY <1>1, <1>2, <1>3, <1>5

LEMMA RStep == RInv /\ [Next]_vars => RInv'
<1>. SUFFICES ASSUME RInv, [Next]_vars PROVE ReviewsKnow'
  BY KeptByNext DEF RInv
<1>1. CASE Advance \/ UserActs \/ ApiEnds \/ UNCHANGED vars
  <2>1. worker' = worker
    BY <1>1
    DEF Advance, UserActs, ApiEnds, vars, Configure, GoalsRejected, GoalsArrive, ReviewArrives,
        ReflectionArrives, StatusPressed, CompletePressed, Begin, CommitSetup, SubmitReview,
        CommitReview, CommitStatus, CommitFallback, ApiAborts
  <2>. QED  BY <2>1, KnowsInStandstill
<1>2. CASE ReadInput \/ SendPrompt \/ LockReview \/ SkipReview  BY <1>2, KnowsGoingOn
<1>3. CASE CreateReview  BY <1>3, KnowsByCreateReview
<1>4. CASE \E s \in Set : AdvanceReview(s) \/ NewReview(s)
  BY <1>4, KnowsByAdvanceReview, KnowsByNewReview
<1>5. CASE \/ TickBegins \/ CleanupStale \/ ListSets \/ WeekliesDone \/ StorePrompt
           \/ CommitSkip \/ FinalsDone \/ ReadFinalInput \/ SkipFinal \/ SendFinal
           \/ SetFinal \/ Breaks \/ \E s \in Set : ReadFinal(s)
  BY <1>5, LeavesReviews, KnowsNothing DEF RInv
<1>. QED  BY <1>1, <1>2, <1>3, <1>4, <1>5 DEF Next, TickSteps

LEMMA RStart == Init => RInv
<1>. SUFFICES ASSUME Init PROVE ReviewsKnow  BY Start DEF RInv
<1>. QED  BY DEF Init, ReviewsKnow, Verdict, NoFinalReview, Off

LEMMA RInductive == Spec => []RInv
BY RStart, RStep, PTL DEF Spec

-----------------------------------------------------------------------------
(* The mapping: a step that writes no row of the lifecycle is a stutter.   *)

dueBar == [s \in Set |-> [w \in Week |-> DueOn(s, w)]]
endBar == [s \in Set |-> EndsOn(s)]
stageBar == [s \in Set |-> [w \in Week |-> StageOf(review[s][w])]]
sinceBar == [s \in Set |-> [w \in Week |-> review[s][w].requested]]
verdictBar == [s \in Set |-> VerdictOf(final[s])]
barVars == <<clock, stageBar, sinceBar, posted, verdictBar>>

LEMMA InitMaps == Init => Lifecycle!Init
<1>. SUFFICES ASSUME Init PROVE Lifecycle!Init  OBVIOUS
<1>1. \A s \in Set, w \in Week : StageOf(review[s][w]) = "absent" /\ review[s][w].requested = 0
  BY DEF Init, NoReview, StageOf
<1>2. \A s \in Set : VerdictOf(final[s]) = "none"  BY DEF Init, NoFinalReview, VerdictOf
<1>. QED  BY <1>1, <1>2 DEF Init, Lifecycle!Init

\* The stages of a review and of a final review.
LEMMA Stages ==
    /\ \A r \in Review :
         /\ StageOf(r) \in {"created", "asked", "reminded"} <=> r.state = "open"
         /\ r.state = "none" => StageOf(r) = "absent"
         /\ r.state = "answered" => StageOf(r) = "answered"
         /\ r.state = "skipped" => StageOf(r) = "skipped"
         /\ r.state = "open" /\ r.prompt = "none" => StageOf(r) = "created"
         /\ r.state = "open" /\ r.prompt = "first" => StageOf(r) = "asked"
         /\ r.state = "open" /\ r.prompt = "second" => StageOf(r) = "reminded"
    /\ \A s \in Set : Verdict(s) <=> VerdictOf(final[s]) # "none"
BY DEF Review, StageOf, Verdict, VerdictOf

\* A season that is over is over for the lifecycle, too.
LEMMA OverMaps ==
    ASSUME IInv, NEW s \in Set, EndsOn(s) <= clock, OpenWeeks(s) = {}
    PROVE  Lifecycle!Over(s)
<1>1. \A w \in Week : review[s][w] \in Review /\ review[s][w].state # "open"
  BY DEF IInv, TypeOK, OpenWeeks
<1>2. \A w \in Week : stageBar[s][w] \notin {"created", "asked", "reminded"}
  BY <1>1, Stages DEF stageBar
<1>3. clock >= endBar[s]  BY Ends, WorkerTypes DEF endBar
<1>. QED  BY <1>2, <1>3 DEF Lifecycle!Over, Lifecycle!Waiting, stageBar, endBar

\* A write to one review, and what the lifecycle sees of it.
LEMMA OneReviewMaps ==
    ASSUME NEW s \in Set, NEW w \in Week,
           \A t \in Set, v \in Week : t # s \/ v # w => review'[t][v] = review[t][v]
    PROVE  /\ stageBar' = [stageBar EXCEPT ![s][w] = StageOf(review'[s][w])]
           /\ sinceBar' = [sinceBar EXCEPT ![s][w] = review'[s][w].requested]
<1>1. ASSUME NEW t \in Set
      PROVE  /\ [v \in Week |-> StageOf(review'[t][v])] =
                   [v \in Week |-> IF t = s /\ v = w THEN StageOf(review'[s][w])
                                  ELSE StageOf(review[t][v])]
             /\ [v \in Week |-> review'[t][v].requested] =
                   [v \in Week |-> IF t = s /\ v = w THEN review'[s][w].requested
                                  ELSE review[t][v].requested]
  <2>1. \A v \in Week : review'[t][v] = IF t = s /\ v = w THEN review'[s][w] ELSE review[t][v]
    OBVIOUS
  <2>2. \A v \in Week :
          /\ StageOf(review'[t][v]) = IF t = s /\ v = w THEN StageOf(review'[s][w])
                                      ELSE StageOf(review[t][v])
          /\ review'[t][v].requested = IF t = s /\ v = w THEN review'[s][w].requested
                                       ELSE review[t][v].requested
    BY <2>1
  <2>. QED  BY <2>2
<1>2. stageBar' = [t \in Set |-> [v \in Week |-> IF t = s /\ v = w THEN StageOf(review'[s][w])
                                              ELSE StageOf(review[t][v])]]
  <2>1. stageBar' = [t \in Set |-> [v \in Week |-> StageOf(review'[t][v])]]
    BY DEF stageBar, StageOf
  <2>. QED  BY <1>1, <2>1
<1>3. sinceBar' = [t \in Set |-> [v \in Week |-> IF t = s /\ v = w THEN review'[s][w].requested
                                              ELSE review[t][v].requested]]
  <2>1. sinceBar' = [t \in Set |-> [v \in Week |-> review'[t][v].requested]]
    BY DEF sinceBar
  <2>. QED  BY <1>1, <2>1
<1>4. [stageBar EXCEPT ![s][w] = StageOf(review'[s][w])] =
        [t \in Set |-> [v \in Week |-> IF t = s /\ v = w THEN StageOf(review'[s][w])
                                       ELSE StageOf(review[t][v])]]
  BY DEF stageBar
<1>5. [sinceBar EXCEPT ![s][w] = review'[s][w].requested] =
        [t \in Set |-> [v \in Week |-> IF t = s /\ v = w THEN review'[s][w].requested
                                       ELSE review[t][v].requested]]
  BY DEF sinceBar
<1>. QED  BY <1>2, <1>3, <1>4, <1>5

\* ... when the time its reminder is counted from stays.
LEMMA ReviewMoves ==
    ASSUME NEW s \in Set, NEW w \in Week, UNCHANGED <<clock, final, posted>>,
           \A t \in Set, v \in Week : t # s \/ v # w => review'[t][v] = review[t][v],
           review'[s][w].requested = review[s][w].requested
    PROVE  Lifecycle!Moves(s, w, StageOf(review'[s][w])) /\ sinceBar' = sinceBar
<1>1. sinceBar' = sinceBar
  BY DEF sinceBar
<1>2. verdictBar' = verdictBar  BY DEF verdictBar, VerdictOf
<1>. QED  BY <1>1, <1>2, OneReviewMaps DEF Lifecycle!Moves, stageBar, verdictBar

\* ... and when it is set to the time of the tick.
LEMMA ReviewCounts ==
    ASSUME IInv, NEW s \in Set, NEW w \in Week, UNCHANGED <<clock, final, posted>>,
           \A t \in Set, v \in Week : t # s \/ v # w => review'[t][v] = review[t][v],
           review'[s][w].requested = worker.now
    PROVE  Lifecycle!Moves(s, w, StageOf(review'[s][w])) /\ Lifecycle!Counts(s, w)
<1>1. verdictBar' = verdictBar  BY DEF verdictBar, VerdictOf
<1>2. worker.now \in 0..clock
  <2>1. worker.now <= clock  BY DEF IInv, WorkerKnows
  <2>. QED  BY <2>1, WorkerTypes
<1>. QED
  BY <1>1, <1>2, OneReviewMaps DEF Lifecycle!Moves, Lifecycle!Counts, stageBar, sinceBar, verdictBar

-----------------------------------------------------------------------------
(* The steps on a review.                                                  *)

LEMMA AnswerMaps ==
    ASSUME IInv, CommitReview
    PROVE  \E s \in Set, w \in Week : Lifecycle!Answer(s, w)
<1>1. PICK s \in Set, w \in Week : s = call.set /\ w = call.week  BY AnswerWrites
<1>. DEFINE old == review[s][w]
<1>2. /\ old \in Review /\ old.state = "open" /\ old.prompt \in {"first", "second"}
      /\ review'[s][w] = [old EXCEPT !.state = "answered"]
      /\ \A t \in Set, v \in Week : t # s \/ v # w => review'[t][v] = review[t][v]
  BY <1>1, AnswerWrites
<1>3. review'[s][w] \in Review /\ review'[s][w].state = "answered"
      /\ review'[s][w].requested = old.requested
  BY <1>2 DEF Review
<1>4. StageOf(review'[s][w]) = "answered" /\ stageBar[s][w] \in {"asked", "reminded"}
  BY <1>2, <1>3, Stages DEF stageBar
<1>5. UNCHANGED <<clock, final, posted>>  BY DEF CommitReview
<1>6. Lifecycle!Moves(s, w, StageOf(review'[s][w])) /\ sinceBar' = sinceBar
  BY <1>2, <1>3, <1>5, ReviewMoves
<1>7. Lifecycle!Answer(s, w)  BY <1>4, <1>6 DEF Lifecycle!Answer, stageBar, sinceBar
<1>. QED  BY <1>7

LEMMA CreateMaps ==
    ASSUME RInv, CreateReview, AtHand.state = "none"
    PROVE  \E s \in Set, w \in Week : Lifecycle!Create(s, w)
<1>. USE DEF RInv
<1>0. worker.at = "create" /\ worker.job = "create" /\ worker.now < EndsOn(worker.set)
  BY CreateWrites DEF IInv, WorkerKnows
<1>1. PICK s \in Set, w \in Week : s = worker.set /\ w = worker.week
  BY <1>0 DEF IInv, WorkerKnows, WithReview
<1>2. /\ review'[s][w] = NewRow
      /\ \A t \in Set, v \in Week : t # s \/ v # w => review'[t][v] = review[t][v]
  BY <1>1, CreateWrites, WorkerWrites
<1>3. NewRow \in Review /\ StageOf(NewRow) = "created" /\ NewRow.requested = worker.now
  BY CreateWrites, Stages
<1>4. UNCHANGED <<clock, final, posted>>  BY DEF CreateReview, AtHand
<1>5. Lifecycle!Moves(s, w, "created") /\ Lifecycle!Counts(s, w)
  <2>1. Lifecycle!Moves(s, w, StageOf(review'[s][w])) /\ Lifecycle!Counts(s, w)
    BY <1>2, <1>3, <1>4, ReviewCounts
  <2>. QED  BY <1>2, <1>3, <2>1
<1>6. ~Over(s)
  BY <1>0, <1>1, Ends, WorkerTypes DEF Over
<1>7. s \notin posted /\ verdictBar[s] = "none"
  BY <1>6, Stages DEF IInv, FinalsOver, ReviewsKnow, verdictBar
<1>8. stageBar[s][w] = "absent"
  <2>1. review[s][w] \in Review  BY DEF IInv, TypeOK
  <2>. QED  BY <1>1, <2>1, Stages DEF AtHand, stageBar
<1>9. \A v \in Week : stageBar[s][v] \notin {"created", "asked", "reminded"}
  <2>1. OpenWeeks(s) = {}  BY <1>0, <1>1 DEF ReviewsKnow
  <2>2. \A v \in Week : review[s][v] \in Review /\ review[s][v].state # "open"
    BY <2>1 DEF OpenWeeks, IInv, TypeOK
  <2>. QED  BY <2>2, Stages DEF stageBar
<1>10. clock >= dueBar[s][w]
  <2>1. dueBar[s][w] <= worker.now /\ worker.now <= clock
    BY <1>0, <1>1 DEF ReviewsKnow, IInv, WorkerKnows, dueBar
  <2>2. dueBar[s][w] \in Int
    <3>1. \A a, b \in Int : a * b \in Int  OBVIOUS
    <3>2. s \in Int /\ w \in Int /\ Reviews \in Int /\ Fortnight \in Int
      BY BoundsAssumption DEF Set, Week
    <3>3. StartsOn(s) \in Int
      <4>1. (s - 1) * Reviews \in Int  BY <3>1, <3>2
      <4>. QED  BY <3>1, <3>2, <4>1 DEF StartsOn
    <3>4. w * Fortnight \in Int  BY <3>1, <3>2
    <3>5. DueOn(s, w) \in Int  BY <3>3, <3>4 DEF DueOn
    <3>. QED  BY <3>5 DEF dueBar
  <2>. QED  BY <2>1, <2>2, WorkerTypes
<1>11. Lifecycle!Create(s, w)
  BY <1>5, <1>7, <1>8, <1>9, <1>10
  DEF Lifecycle!Create, Lifecycle!Waiting, stageBar, verdictBar, dueBar
<1>. QED  BY <1>11

LEMMA StoreMaps ==
    ASSUME RInv, StorePrompt
    PROVE  \E s \in Set, w \in Week : Lifecycle!Ask(s, w) \/ Lifecycle!Remind(s, w)
<1>. USE DEF RInv
<1>1. PICK s \in Set, w \in Week : s = worker.set /\ w = worker.week  BY StoreWrites
<1>. DEFINE new == WithPrompt(AtHand)
<1>2. /\ AtHand = review[s][w] /\ AtHand \in Review /\ AtHand.state = "open"
      /\ worker.at = "store" /\ worker.job \in {"goal_weekly", "goal_reminder"}
      /\ new \in Review /\ new.state = "open"
      /\ review' = [review EXCEPT ![worker.set][worker.week] = new]
  BY <1>1, StoreWrites DEF AtHand
<1>. HIDE DEF new
<1>3. /\ review'[s][w] = new
      /\ \A t \in Set, v \in Week : t # s \/ v # w => review'[t][v] = review[t][v]
  <2>1. IInv /\ worker.at \in {"create", "store", "clear"}  BY <1>2
  <2>2. \A t \in Set, v \in Week :
          review'[t][v] = IF t = worker.set /\ v = worker.week THEN new ELSE review[t][v]
    BY <1>2, <2>1, WorkerWrites
  <2>. QED  BY <1>1, <2>2
<1>4. UNCHANGED <<clock, final, posted>>  BY DEF StorePrompt
<1>5. CASE worker.job = "goal_weekly"
  <2>1. AtHand.prompt = "none"  BY <1>2, <1>5 DEF ReviewsKnow
  <2>2. new.prompt = "first" /\ new.requested = worker.now
    BY <1>2, <1>5 DEF new, WithPrompt, Review
  <2>3. stageBar[s][w] = "created" /\ StageOf(new) = "asked"
    BY <1>2, <2>1, <2>2, Stages DEF stageBar
  <2>4. Lifecycle!Moves(s, w, StageOf(review'[s][w])) /\ Lifecycle!Counts(s, w)
    BY <1>3, <1>4, <2>2, ReviewCounts
  <2>5. Lifecycle!Ask(s, w)  BY <1>3, <2>3, <2>4 DEF Lifecycle!Ask, stageBar
  <2>. QED  BY <2>5
<1>6. CASE worker.job = "goal_reminder"
  <2>1. AtHand.prompt = "first" /\ worker.now >= AtHand.requested + ReminderDelay
    BY <1>2, <1>6 DEF ReviewsKnow, RemindDue
  <2>2. new.prompt = "second" /\ new.requested = AtHand.requested
    BY <1>2, <1>6 DEF new, WithPrompt, Review
  <2>3. stageBar[s][w] = "asked" /\ StageOf(new) = "reminded"
    BY <1>2, <2>1, <2>2, Stages DEF stageBar
  <2>4. Lifecycle!Moves(s, w, StageOf(review'[s][w])) /\ sinceBar' = sinceBar
    BY <1>2, <1>3, <1>4, <2>2, ReviewMoves
  <2>5. clock >= sinceBar[s][w] + ReminderDelay
    <3>1. worker.now <= clock /\ AtHand.requested \in Nat
      BY <1>2, Times DEF IInv, WorkerKnows, Review
    <3>. QED  BY <1>2, <2>1, <3>1, WorkerTypes DEF sinceBar, ReminderDelay
  <2>6. Lifecycle!Remind(s, w)
    BY <1>3, <2>3, <2>4, <2>5 DEF Lifecycle!Remind, stageBar, sinceBar
  <2>. QED  BY <2>6
<1>. QED  BY <1>2, <1>5, <1>6

LEMMA SkipMaps ==
    ASSUME RInv, CommitSkip
    PROVE  \E s \in Set, w \in Week : Lifecycle!Skip(s, w)
<1>. USE DEF RInv
<1>1. PICK s \in Set, w \in Week : s = worker.set /\ w = worker.week  BY SkipWrites
<1>. DEFINE new == Skipped(AtHand)
<1>2. /\ AtHand = review[s][w] /\ AtHand \in Review /\ AtHand.state = "open"
      /\ worker.at = "clear"
      /\ new \in Review /\ new.state = "skipped" /\ new.requested = AtHand.requested
      /\ review' = [review EXCEPT ![worker.set][worker.week] = new]
  BY <1>1, SkipWrites DEF AtHand
<1>. HIDE DEF new
<1>3. /\ review'[s][w] = new
      /\ \A t \in Set, v \in Week : t # s \/ v # w => review'[t][v] = review[t][v]
  <2>1. IInv /\ worker.at \in {"create", "store", "clear"}  BY <1>2
  <2>2. \A t \in Set, v \in Week :
          review'[t][v] = IF t = worker.set /\ v = worker.week THEN new ELSE review[t][v]
    BY <1>2, <2>1, WorkerWrites
  <2>. QED  BY <1>1, <2>2
<1>4. UNCHANGED <<clock, final, posted>>  BY DEF CommitSkip
<1>5. Lifecycle!Moves(s, w, StageOf(review'[s][w])) /\ sinceBar' = sinceBar
  BY <1>2, <1>3, <1>4, ReviewMoves
<1>6. StageOf(new) = "skipped" /\ stageBar[s][w] \in {"created", "asked", "reminded"}
  BY <1>2, Stages DEF stageBar
<1>7. clock >= sinceBar[s][w] + SkipAfter
  <2>1. worker.now >= AtHand.requested + SkipAfter  BY <1>2 DEF ReviewsKnow, SkipDue
  <2>2. worker.now <= clock /\ AtHand.requested \in Nat
    BY <1>2, Times DEF IInv, WorkerKnows, Review
  <2>. QED  BY <1>2, <2>1, <2>2, WorkerTypes DEF sinceBar, SkipAfter
<1>8. Lifecycle!Skip(s, w)
  BY <1>3, <1>5, <1>6, <1>7 DEF Lifecycle!Skip, Lifecycle!Waiting, stageBar, sinceBar
<1>. QED  BY <1>8

-----------------------------------------------------------------------------
(* The steps on a final review.                                            *)

\* A write to one final review.
LEMMA OneFinalMaps ==
    ASSUME IInv, NEW s \in Set, NEW f \in FinalReview, final' = [final EXCEPT ![s] = f],
           UNCHANGED <<clock, review>>
    PROVE  /\ verdictBar' = [verdictBar EXCEPT ![s] = VerdictOf(f)]
           /\ UNCHANGED <<clock, stageBar, sinceBar>>
           /\ VerdictOf(f) = VerdictOf(final[s]) => verdictBar' = verdictBar
<1>1. final \in [Set -> FinalReview]  BY DEF IInv, TypeOK
<1>2. \A t \in Set : final'[t] = IF t = s THEN f ELSE final[t]  BY <1>1
<1>3. verdictBar' = [t \in Set |-> VerdictOf(final'[t])]  BY DEF verdictBar, VerdictOf
<1>4. \A t \in Set : VerdictOf(final'[t]) = IF t = s THEN VerdictOf(f) ELSE VerdictOf(final[t])
  BY <1>2
<1>5. verdictBar' = [verdictBar EXCEPT ![s] = VerdictOf(f)]
  BY <1>3, <1>4 DEF verdictBar
<1>6. VerdictOf(f) = VerdictOf(final[s]) => verdictBar' = verdictBar
  BY <1>3, <1>4 DEF verdictBar
<1>. QED  BY <1>5, <1>6 DEF stageBar, sinceBar, StageOf

LEMMA StatusMaps ==
    ASSUME IInv, CommitStatus
    PROVE  (\E s \in Set : Lifecycle!Choose(s)) \/ UNCHANGED barVars
<1>1. call.set \in Set /\ Over(call.set) /\ ~final[call.set].completed
  BY DEF IInv, TypeOK, Call, CallKnows, CommitStatus, InCall
<1>. DEFINE s == call.set
            f == [final[s] EXCEPT !.status = TRUE]
<1>2. final[s] \in FinalReview  BY <1>1 DEF IInv, TypeOK
<1>3. /\ f \in FinalReview /\ f.status /\ f.summary = final[s].summary
      /\ f.completed = final[s].completed
  BY <1>2 DEF FinalReview
<1>4. final' = [final EXCEPT ![s] = f] /\ UNCHANGED <<clock, review, posted>>
  BY DEF CommitStatus
<1>. HIDE DEF f
<1>5. /\ verdictBar' = [verdictBar EXCEPT ![s] = VerdictOf(f)]
      /\ UNCHANGED <<clock, stageBar, sinceBar>>
      /\ VerdictOf(f) = VerdictOf(final[s]) => verdictBar' = verdictBar
  BY <1>1, <1>3, <1>4, OneFinalMaps
<1>6. CASE VerdictOf(final[s]) = "none"
  <2>1. VerdictOf(f) = "status" /\ verdictBar[s] = "none"
    BY <1>1, <1>2, <1>3, <1>6 DEF VerdictOf, verdictBar
  <2>2. Lifecycle!Over(s)  BY <1>1, OverMaps DEF Over
  <2>3. Lifecycle!Choose(s)
    BY <1>4, <1>5, <2>1, <2>2
    DEF Lifecycle!Choose, Lifecycle!Judges, stageBar, sinceBar, verdictBar
  <2>. QED  BY <1>1, <2>3
<1>7. CASE VerdictOf(final[s]) # "none"
  <2>1. VerdictOf(f) = VerdictOf(final[s])  BY <1>1, <1>2, <1>3, <1>7 DEF VerdictOf
  <2>. QED  BY <1>4, <1>5, <2>1 DEF barVars
<1>. QED  BY <1>6, <1>7

LEMMA ReflectionMaps ==
    ASSUME IInv, ReflectionArrives
    PROVE  (\E s \in Set : Lifecycle!Reflect(s)) \/ UNCHANGED barVars
<1>1. pending.set \in Set /\ final[pending.set].status /\ ~final[pending.set].completed
  BY NoneAssumption DEF IInv, TypeOK, ReflectionArrives, Expects, Pending, Accepts
<1>. DEFINE s == pending.set
            f == [final[s] EXCEPT !.summary = TRUE]
<1>2. final[s] \in FinalReview  BY <1>1 DEF IInv, TypeOK
<1>3. /\ f \in FinalReview /\ f.status /\ f.summary /\ ~f.completed
  BY <1>1, <1>2 DEF FinalReview
<1>4. final' = [final EXCEPT ![s] = f] /\ UNCHANGED <<clock, review, posted>>
  BY DEF ReflectionArrives
<1>. HIDE DEF f
<1>5. /\ verdictBar' = [verdictBar EXCEPT ![s] = VerdictOf(f)]
      /\ UNCHANGED <<clock, stageBar, sinceBar>>
      /\ VerdictOf(f) = VerdictOf(final[s]) => verdictBar' = verdictBar
  BY <1>1, <1>3, <1>4, OneFinalMaps
<1>6. VerdictOf(f) = "reflected" /\ VerdictOf(final[s]) \in {"status", "reflected"}
  BY <1>1, <1>2, <1>3 DEF VerdictOf
<1>7. CASE VerdictOf(final[s]) = "status"
  <2>1. Lifecycle!Reflect(s)
    BY <1>1, <1>4, <1>5, <1>6, <1>7
    DEF Lifecycle!Reflect, Lifecycle!Judges, stageBar, sinceBar, verdictBar
  <2>. QED  BY <1>1, <2>1
<1>8. CASE VerdictOf(final[s]) = "reflected"
  BY <1>4, <1>5, <1>6, <1>8 DEF barVars
<1>. QED  BY <1>6, <1>7, <1>8

LEMMA CompleteMaps ==
    ASSUME IInv, NEW s \in Set, CompletePressed(s)
    PROVE  Lifecycle!Complete(s)
<1>. DEFINE f == [final[s] EXCEPT !.completed = TRUE]
<1>1. final[s] \in FinalReview /\ final[s].summary /\ ~final[s].completed
  BY DEF IInv, TypeOK, CompletePressed, Accepts
<1>2. f \in FinalReview /\ f.completed  BY <1>1 DEF FinalReview
<1>3. final' = [final EXCEPT ![s] = f] /\ UNCHANGED <<clock, review, posted>>
  BY DEF CompletePressed
<1>. HIDE DEF f
<1>4. /\ verdictBar' = [verdictBar EXCEPT ![s] = VerdictOf(f)]
      /\ UNCHANGED <<clock, stageBar, sinceBar>>
  BY <1>2, <1>3, OneFinalMaps
<1>5. VerdictOf(f) = "completed" /\ verdictBar[s] = "reflected"
  BY <1>1, <1>2 DEF VerdictOf, verdictBar
<1>. QED
  BY <1>3, <1>4, <1>5 DEF Lifecycle!Complete, Lifecycle!Judges, stageBar, sinceBar, verdictBar

\* The prompt's mark is not seen by the lifecycle.
LEMMA MarkMaps ==
    ASSUME IInv, NEW s \in Set, UNCHANGED <<clock, review>>,
           \/ final' = final
           \/ final' = [final EXCEPT ![s].prompted = TRUE]
    PROVE  UNCHANGED <<clock, stageBar, sinceBar, verdictBar>>
<1>1. CASE final' = final  BY <1>1 DEF stageBar, sinceBar, verdictBar, StageOf, VerdictOf
<1>2. CASE final' = [final EXCEPT ![s].prompted = TRUE]
  <2>. DEFINE f == [final[s] EXCEPT !.prompted = TRUE]
  <2>1. final[s] \in FinalReview  BY DEF IInv, TypeOK
  <2>2. /\ f \in FinalReview /\ f.status = final[s].status
        /\ f.summary = final[s].summary /\ f.completed = final[s].completed
    BY <2>1 DEF FinalReview
  <2>3. final' = [final EXCEPT ![s] = f]  BY <1>2
  <2>. HIDE DEF f
  <2>4. VerdictOf(f) = VerdictOf(final[s])  BY <2>2 DEF VerdictOf
  <2>. QED  BY <2>2, <2>3, <2>4, OneFinalMaps
<1>. QED  BY <1>1, <1>2

LEMMA ShowMaps ==
    ASSUME IInv, CommitFallback \/ SendFinal \/ FinalFails
    PROVE  (\E s \in Set : Lifecycle!Show(s)) \/ UNCHANGED barVars
<1>1. PICK s \in Set : /\ Over(s)
                       /\ posted' \in {posted, posted \cup {s}}
                       /\ final' = final \/ final' = [final EXCEPT ![s].prompted = TRUE]
                       /\ UNCHANGED <<clock, review>>
  <2>1. CASE CommitFallback
    BY <2>1 DEF IInv, TypeOK, Call, CallKnows, CommitFallback, InCall
  <2>2. CASE SendFinal \/ FinalFails
    BY <2>2 DEF IInv, WorkerKnows, WithFinal, SendFinal, FinalFails, Defers, At
  <2>. QED  BY <2>1, <2>2
<1>2. UNCHANGED <<clock, stageBar, sinceBar, verdictBar>>  BY <1>1, MarkMaps
<1>3. CASE posted' = posted  BY <1>2, <1>3 DEF barVars
<1>4. CASE posted' = posted \cup {s}
  <2>1. Lifecycle!Over(s)  BY <1>1, OverMaps DEF Over
  <2>2. Lifecycle!Show(s)
    BY <1>2, <1>4, <2>1 DEF Lifecycle!Show, stageBar, sinceBar, verdictBar
  <2>. QED  BY <2>2
<1>. QED  BY <1>1, <1>3, <1>4

LEMMA WithdrawMaps ==
    ASSUME IInv, FinalUndone
    PROVE  \E s \in Set : Lifecycle!Withdraw(s)
<1>1. worker.set \in Set /\ posted' = posted \ {worker.set} /\ UNCHANGED <<clock, review, final>>
  BY DEF FinalUndone, At, IInv, WorkerKnows, WithFinal
<1>2. UNCHANGED <<clock, stageBar, sinceBar, verdictBar>>  BY <1>1, MarkMaps
<1>3. Lifecycle!Withdraw(worker.set)
  BY <1>1, <1>2 DEF Lifecycle!Withdraw, stageBar, sinceBar, verdictBar
<1>. QED  BY <1>1, <1>3

-----------------------------------------------------------------------------
(* Every step, and the refinement.                                         *)

LEMMA StepMaps == RInv /\ [Next]_vars => [Lifecycle!Next]_barVars
<1>. SUFFICES ASSUME RInv, [Next]_vars PROVE Lifecycle!Next \/ UNCHANGED barVars  OBVIOUS
<1>. USE DEF RInv
<1>1. CASE UNCHANGED <<clock, review, final, posted>>
  BY <1>1 DEF barVars, stageBar, sinceBar, verdictBar, StageOf, VerdictOf
<1>2. CASE Advance
  <2>1. UNCHANGED <<stageBar, sinceBar, posted, verdictBar>>
    BY <1>2 DEF Advance, stageBar, sinceBar, verdictBar, StageOf, VerdictOf
  <2>2. Lifecycle!Advance
    BY <1>2, <2>1 DEF Advance, Lifecycle!Advance, stageBar, sinceBar, verdictBar
  <2>. QED  BY <2>2 DEF Lifecycle!Next
<1>3. CASE CommitReview  BY <1>3, AnswerMaps DEF Lifecycle!Next
<1>4. CASE CreateReview /\ AtHand.state = "none"  BY <1>4, CreateMaps DEF Lifecycle!Next
<1>5. CASE StorePrompt  BY <1>5, StoreMaps DEF Lifecycle!Next
<1>6. CASE CommitSkip  BY <1>6, SkipMaps DEF Lifecycle!Next
<1>7. CASE CommitStatus  BY <1>7, StatusMaps DEF Lifecycle!Next
<1>8. CASE ReflectionArrives  BY <1>8, ReflectionMaps DEF Lifecycle!Next
<1>9. ASSUME NEW s \in Set, CompletePressed(s) PROVE Lifecycle!Next
  BY <1>9, CompleteMaps DEF Lifecycle!Next
<1>10. CASE CommitFallback \/ SendFinal \/ FinalFails  BY <1>10, ShowMaps DEF Lifecycle!Next
<1>11. CASE FinalUndone  BY <1>11, WithdrawMaps DEF Lifecycle!Next
<1>12. CASE SetFinal
  <2>1. worker.set \in Set /\ UNCHANGED <<clock, review, posted>>
        /\ final' = [final EXCEPT ![worker.set].prompted = TRUE]
    BY <1>12 DEF SetFinal, At, IInv, WorkerKnows, WithFinal
  <2>. QED  BY <2>1, MarkMaps DEF barVars
<1>13. CASE CreateReview /\ AtHand.state # "none"
  <2>1. UNCHANGED <<clock, review, final, posted>>  BY <1>13 DEF CreateReview, AtHand, Reads
  <2>. QED  BY <1>1, <2>1
<1>14. CASE UNCHANGED vars  BY <1>1, <1>14 DEF vars
<1>15. CASE \/ Configure \/ GoalsRejected \/ GoalsArrive \/ ReviewArrives \/ CommitSetup
            \/ SubmitReview \/ ApiAborts \/ \E s \in Set : StatusPressed(s)
  <2>1. UNCHANGED <<clock, review, final, posted>>
    BY <1>15
    DEF Configure, GoalsRejected, GoalsArrive, ReviewArrives, CommitSetup, SubmitReview,
        ApiAborts, StatusPressed, Begin
  <2>. QED  BY <1>1, <2>1
<1>16. CASE \/ TickBegins \/ CleanupStale \/ ListSets \/ WeekliesDone \/ ReadInput \/ SendPrompt
            \/ LockReview \/ SkipReview \/ FinalsDone \/ ReadFinalInput \/ SkipFinal
            \/ PromptFails \/ WorkerStops
            \/ \E s \in Set : AdvanceReview(s) \/ NewReview(s) \/ ReadFinal(s)
  <2>1. UNCHANGED <<clock, review, final, posted>>
    BY <1>16
    DEF TickBegins, CleanupStale, ListSets, AdvanceReview, NewReview, ReadFinal, WeekliesDone,
        ReadInput, SendPrompt, LockReview, SkipReview, FinalsDone, ReadFinalInput, SkipFinal,
        PromptFails, Defers, At, WorkerStops, Reads
  <2>. QED  BY <1>1, <2>1
<1>. QED
  BY <1>2, <1>3, <1>4, <1>5, <1>6, <1>7, <1>8, <1>9, <1>10, <1>11, <1>12, <1>13, <1>14, <1>15,
     <1>16
  DEF Next, UserActs, ApiEnds, TickSteps, Breaks

\* The tick's steps and the handlers, each on rows read before, implement the lifecycle
\* of a season.
THEOREM RefinesLifecycle == Spec => ImplementsLifecycle
<1>1. Spec => [][Lifecycle!Next]_barVars
  BY StepMaps, RInductive, PTL DEF Spec
<1>. QED
  BY <1>1, InitMaps, PTL
  DEF Spec, ImplementsLifecycle, Lifecycle!Spec, Lifecycle!vars, barVars, stageBar, sinceBar,
      verdictBar
=============================================================================
