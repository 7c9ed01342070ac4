------------------------ MODULE TelegramClientProofs ------------------------
(***************************************************************************)
(* Proofs about TelegramClient, for any number of calls and attempts and   *)
(* any limits.                                                             *)
(*                                                                         *)
(* What a call may still do depends on what its earlier attempts may have  *)
(* done.  The invariant says so of the call in progress: it goes on only   *)
(* while everything it may have sent was answered by a gateway, and a      *)
(* SendMessageOnce only while it has sent nothing.                         *)
(***************************************************************************)
EXTENDS TelegramClient, TLAPS

Sent(c) == done[c] + adrift[c]
Open(c) == c = begun /\ at # "idle"

\* The call in progress has not been told anything, later ones do not exist.
Begun == at # "idle" => begun \in Call /\ result[begun] = "none"
Fresh ==
    \A c \in Call : c > begun =>
        done[c] = 0 /\ adrift[c] = 0 /\ vague[c] = 0 /\ result[c] = "none"

Counted ==
    \A c \in Call : SendsMessage(c) =>
        /\ Sent(c) <= 1 + vague[c]
        /\ call[c].once => Sent(c) <= 1
        /\ Open(c) => Sent(c) <= vague[c] /\ (call[c].once => Sent(c) = 0)

Limits == limit = named /\ (at \in {"request", "flight"} => clock >= named)

IInv == TypeOK /\ Begun /\ Fresh /\ Counted /\ VerdictsAreTrue /\ Limits

-----------------------------------------------------------------------------
LEMMA InitIInv == Init => IInv
<1> SUFFICES ASSUME Init PROVE IInv  OBVIOUS
<1>1. TypeOK
  BY BoundsAssumption DEF Init, TypeOK, Request, Method, Creating, Verdict
<1>2. Begun /\ Fresh /\ Counted /\ VerdictsAreTrue /\ Limits
  BY BoundsAssumption
  DEF Init, Begun, Fresh, Counted, VerdictsAreTrue, Limits, Sent, Open, SendsMessage, Call
<1>3. QED  BY <1>1, <1>2 DEF IInv

\* Steps that tell nobody anything and change no request: the call waits or goes on.
LEMMA GoesOn ==
    ASSUME IInv, TypeOK', UNCHANGED <<limit, named, begun, call, result, done, adrift, vague>>,
           clock' >= clock, at # "idle" <=> at' # "idle",
           at' \in {"request", "flight"} => clock' >= named
    PROVE  IInv'
<1>1. Begun' /\ Fresh' /\ Limits'  BY DEF IInv, Begun, Fresh, Limits
<1>2. Counted'  BY DEF IInv, Counted, Sent, Open, SendsMessage
<1>3. VerdictsAreTrue'  BY DEF IInv, VerdictsAreTrue, SendsMessage
<1>4. QED  BY <1>1, <1>2, <1>3 DEF IInv

\* The end of an attempt: everything that the verdict v says of it is true.
LEMMA AttemptEnds ==
    ASSUME IInv, TypeOK', at # "idle", NEW v \in Verdict,
           UNCHANGED <<clock, begun, call>>,
           \/ at' = "delay" /\ v # "ambiguous" /\ v # "ok" /\ ~call[begun].once /\ result' = result
           \/ at' = "idle" /\ result' = [result EXCEPT ![begun] = v],
           \A c \in Call : c # begun =>
              done'[c] = done[c] /\ adrift'[c] = adrift[c] /\ vague'[c] = vague[c],
           v = "ok" => done'[begun] >= 1,
           vague'[begun] >= vague[begun],
           SendsMessage(begun) => done'[begun] + adrift'[begun] <= Sent(begun) + 1,
           SendsMessage(begun) /\ v \in {"failed", "cancelled"}
              => done'[begun] + adrift'[begun] - Sent(begun) <= vague'[begun] - vague[begun],
           limit' = named'
    PROVE  IInv'
<1>1. /\ begun \in Call /\ begun \in Nat /\ result \in [Call -> Verdict \cup {"none"}]
      /\ done \in [Call -> Nat] /\ adrift \in [Call -> Nat] /\ vague \in [Call -> Nat]
      /\ done' \in [Call -> Nat] /\ adrift' \in [Call -> Nat] /\ vague' \in [Call -> Nat]
  <2>1. begun \in Call  BY DEF IInv, Begun
  <2>2. begun \in Nat  BY <2>1, BoundsAssumption DEF Call
  <2>3. /\ result \in [Call -> Verdict \cup {"none"}]
        /\ done \in [Call -> Nat] /\ adrift \in [Call -> Nat] /\ vague \in [Call -> Nat]
    BY DEF IInv, TypeOK
  <2>4. done' \in [Call -> Nat] /\ adrift' \in [Call -> Nat] /\ vague' \in [Call -> Nat]
    BY DEF TypeOK
  <2>5. QED  BY <2>1, <2>2, <2>3, <2>4
<1>0. Sent(begun)' = done'[begun] + adrift'[begun]  BY DEF Sent
<1>2. \A c \in Call : c # begun => result'[c] = result[c]  BY <1>1
<1>3. at' = "delay" => result' = result /\ v # "ambiguous" /\ v # "ok" /\ ~call[begun].once
  OBVIOUS
<1>4. at' = "idle" \/ at' = "delay"  OBVIOUS
<1>5. at' = "idle" => result'[begun] = v  BY <1>1
<1>6. Begun'  BY <1>1, <1>3, <1>4 DEF IInv, Begun
<1>7. Fresh'  BY <1>1, <1>2 DEF IInv, Fresh, Call
<1>8. SendsMessage(begun) => Sent(begun) <= vague[begun]
                             /\ (call[begun].once => Sent(begun) = 0)
  BY <1>1 DEF IInv, Counted, Open
<1>9. Counted'
  <2>1. ASSUME NEW c \in Call, c # begun, SendsMessage(c)
        PROVE  Sent(c)' <= 1 + vague'[c] /\ (call[c].once => Sent(c)' <= 1)
    BY <2>1 DEF IInv, Counted, Sent
  <2>2. ASSUME SendsMessage(begun)
        PROVE  /\ done'[begun] + adrift'[begun] <= 1 + vague'[begun]
               /\ call[begun].once => done'[begun] + adrift'[begun] <= 1
               /\ at' # "idle" => done'[begun] + adrift'[begun] <= vague'[begun]
                                  /\ ~call[begun].once
    <3>1. /\ Sent(begun) \in Int /\ done'[begun] + adrift'[begun] \in Int
          /\ vague[begun] \in Int /\ vague'[begun] \in Int
      BY <1>1 DEF Sent
    <3>2. /\ done'[begun] + adrift'[begun] <= Sent(begun) + 1
          /\ Sent(begun) <= vague[begun] /\ vague[begun] <= vague'[begun]
          /\ call[begun].once => Sent(begun) = 0
      BY <1>8, <2>2, <3>1
    <3>3. CASE at' = "idle"  BY <3>1, <3>2, <3>3
    <3>4. CASE at' = "delay"
      <4>1. v \in {"failed", "cancelled"} /\ ~call[begun].once  BY <1>3, <3>4 DEF Verdict
      <4>2. done'[begun] + adrift'[begun] - Sent(begun) <= vague'[begun] - vague[begun]
        BY <2>2, <4>1
      <4>3. QED  BY <1>1, <3>1, <3>2, <4>1, <4>2
    <3>5. QED  BY <1>4, <3>3, <3>4
  <2>3. QED
    <3>1. \A c \in Call : SendsMessage(c)' = SendsMessage(c) /\ call'[c] = call[c]
      BY DEF SendsMessage
    <3>2. \A c \in Call : Open(c)' => c = begun /\ at' # "idle"  BY DEF Open
    <3>3. \A c \in Call : c = begun => Sent(c)' = done'[begun] + adrift'[begun]  BY DEF Sent
    <3>4. QED  BY <2>1, <2>2, <3>1, <3>2, <3>3 DEF Counted
<1>10. VerdictsAreTrue'
  <2>1. ASSUME NEW c \in Call, c # begun
        PROVE  /\ result'[c] = "ok" => done'[c] >= 1
               /\ SendsMessage(c)' /\ result'[c] \in {"failed", "cancelled"}
                     => done'[c] + adrift'[c] <= vague'[c]
    BY <1>2, <2>1 DEF IInv, VerdictsAreTrue, SendsMessage
  <2>2. result'[begun] = "none" \/ result'[begun] = v
    BY <1>1, <1>3, <1>4, <1>5 DEF IInv, Begun
  <2>3. SendsMessage(begun) /\ result'[begun] \in {"failed", "cancelled"}
           => done'[begun] + adrift'[begun] <= vague'[begun]
    <3>1. /\ Sent(begun) \in Int /\ done'[begun] + adrift'[begun] \in Int
          /\ vague[begun] \in Int /\ vague'[begun] \in Int
      BY <1>1 DEF Sent
    <3>2. QED  BY <1>1, <1>8, <2>2, <3>1
  <2>4. result'[begun] = "ok" => done'[begun] >= 1  BY <2>2
  <2>5. QED  BY <2>1, <2>3, <2>4 DEF VerdictsAreTrue, SendsMessage
<1>11. Limits'  BY <1>4 DEF Limits
<1>12. QED  BY <1>6, <1>7, <1>9, <1>10, <1>11 DEF IInv

-----------------------------------------------------------------------------
(* Typing, one action at a time.                                           *)

\* What Fails leaves, with its types.
LEMMA FailsEffect ==
    ASSUME IInv, at # "idle", NEW v \in {"failed", "ambiguous"}, NEW t \in BOOLEAN, Fails(v, t)
    PROVE  /\ UNCHANGED <<clock, begun, call>>
           /\ attempt' \in 0..RetryAttempts
           /\ result' \in [Call -> Verdict \cup {"none"}]
           /\ \/ at' = "delay" /\ v # "ambiguous" /\ v # "ok" /\ ~call[begun].once
                 /\ result' = result
              \/ at' = "idle" /\ result' = [result EXCEPT ![begun] = v]
<1>1. result \in [Call -> Verdict \cup {"none"}] /\ attempt \in 0..RetryAttempts
      /\ begun \in Call /\ v \in Verdict
  BY DEF IInv, TypeOK, Begun, Verdict
<1>2. QED  BY <1>1, BoundsAssumption DEF Fails, Retries

LEMMA UnansweredVerdict ==
    Unanswered \in {"failed", "ambiguous"} /\ (SendsMessage(begun) => Unanswered = "ambiguous")
  BY DEF Unanswered

\* An attempt that failed, and what it may have left with Telegram.
LEMMA AttemptFails ==
    ASSUME IInv, TypeOK', at # "idle", NEW t \in BOOLEAN, Fails("failed", t),
           \A c \in Call : c # begun =>
              done'[c] = done[c] /\ adrift'[c] = adrift[c] /\ vague'[c] = vague[c],
           vague'[begun] >= vague[begun],
           done'[begun] + adrift'[begun] <= Sent(begun) + 1,
           done'[begun] + adrift'[begun] - Sent(begun) <= vague'[begun] - vague[begun],
           limit' = named'
    PROVE  IInv'
<1>1. "failed" \in Verdict /\ "failed" # "ok" /\ "failed" # "ambiguous"  BY DEF Verdict
<1>2. /\ UNCHANGED <<clock, begun, call>>
      /\ \/ at' = "delay" /\ ~call[begun].once /\ result' = result
         \/ at' = "idle" /\ result' = [result EXCEPT ![begun] = "failed"]
  BY FailsEffect
<1>3. QED  BY <1>1, <1>2, AttemptEnds

\* Carrying out a request once more.
LEMMA CarriedOutEffect ==
    ASSUME TypeOK, NEW c \in Call, CarriedOut(c)
    PROVE  /\ done' \in [Call -> Nat]
           /\ \A d \in Call : d # c => done'[d] = done[d]
           /\ done'[c] >= 1
           /\ SendsMessage(c) => done'[c] = done[c] + 1
<1>1. done \in [Call -> Nat] /\ done[c] \in Nat  BY DEF TypeOK
<1>2. Times(c) \in Nat /\ Times(c) >= 1 /\ (SendsMessage(c) => Times(c) = done[c] + 1)
  BY <1>1 DEF Times, SendsMessage, Creating
<1>3. QED  BY <1>1, <1>2 DEF CarriedOut

\* A good answer, read or not.
LEMMA ServedEffect ==
    ASSUME TypeOK, begun \in Call,
           IF NothingLeft(begun) THEN UNCHANGED done ELSE CarriedOut(begun)
    PROVE  /\ done' \in [Call -> Nat]
           /\ \A d \in Call : d # begun => done'[d] = done[d]
           /\ done'[begun] >= 1
           /\ SendsMessage(begun) => done'[begun] = done[begun] + 1
<1>1. CASE NothingLeft(begun)
  BY <1>1 DEF NothingLeft, SendsMessage, Creating, TypeOK
<1>2. CASE ~NothingLeft(begun)
  BY <1>2, CarriedOutEffect
<1>3. QED  BY <1>1, <1>2

LEMMA AdriftEffect ==
    ASSUME TypeOK, begun \in Call, SetsAdrift
    PROVE  /\ adrift' \in [Call -> Nat]
           /\ \A d \in Call : d # begun => adrift'[d] = adrift[d]
           /\ adrift'[begun] = adrift[begun] + 1
  BY DEF TypeOK, SetsAdrift

-----------------------------------------------------------------------------
(* One lemma per action that ends an attempt.                              *)

LEMMA InFlight == ASSUME IInv, at # "idle" PROVE begun \in Call /\ TypeOK
  BY DEF IInv, Begun

LEMMA KeptByAnswered == IInv /\ Answered => IInv'
<1> SUFFICES ASSUME IInv, Answered PROVE IInv'  OBVIOUS
<1>1. at # "idle" /\ begun \in Call /\ TypeOK  BY InFlight DEF Answered
<1>2. /\ done' \in [Call -> Nat]
      /\ \A d \in Call : d # begun => done'[d] = done[d]
      /\ done'[begun] >= 1
      /\ SendsMessage(begun) => done'[begun] = done[begun] + 1
  BY <1>1, ServedEffect DEF Answered
<1>3. /\ UNCHANGED <<clock, limit, begun, attempt, call, named, adrift, vague>>
      /\ at' = "idle" /\ result' = [result EXCEPT ![begun] = "ok"]
  BY DEF Answered
<1>4. TypeOK'  BY <1>1, <1>2, <1>3 DEF TypeOK, Verdict
<1>6. SendsMessage(begun) => done'[begun] + adrift'[begun] <= Sent(begun) + 1
  BY <1>1, <1>2, <1>3 DEF Sent, TypeOK
<1>7. "ok" \in Verdict /\ limit' = named' /\ vague'[begun] >= vague[begun]
  BY <1>1, <1>3 DEF Verdict, IInv, Limits, TypeOK
<1>8. QED  BY <1>1, <1>2, <1>3, <1>4, <1>6, <1>7, AttemptEnds

LEMMA KeptByNotWritten == ASSUME IInv, NEW t \in BOOLEAN, NotWritten(t) PROVE IInv'
<1>1. at # "idle" /\ begun \in Call /\ TypeOK  BY InFlight DEF NotWritten
<1>2. Fails("failed", t) /\ UNCHANGED <<limit, named, done, adrift, vague>>
  BY DEF NotWritten, telegram
<1>3. TypeOK'  BY <1>1, <1>2, FailsEffect DEF TypeOK
<1>4. /\ done'[begun] + adrift'[begun] <= Sent(begun) + 1 /\ vague'[begun] >= vague[begun]
      /\ done'[begun] + adrift'[begun] - Sent(begun) <= vague'[begun] - vague[begun]
  BY <1>1, <1>2 DEF Sent, TypeOK
<1>5. limit' = named'  BY <1>2 DEF IInv, Limits
<1>6. QED  BY <1>1, <1>2, <1>3, <1>4, <1>5, AttemptFails

LEMMA KeptByRefused == ASSUME IInv, NEW t \in BOOLEAN, Refused(t) PROVE IInv'
<1>1. at # "idle" /\ begun \in Call /\ TypeOK  BY InFlight DEF Refused
<1>2. Fails("failed", t) /\ UNCHANGED <<limit, named, done, adrift, vague>>
  BY DEF Refused, telegram
<1>3. TypeOK'  BY <1>1, <1>2, FailsEffect DEF TypeOK
<1>4. /\ done'[begun] + adrift'[begun] <= Sent(begun) + 1 /\ vague'[begun] >= vague[begun]
      /\ done'[begun] + adrift'[begun] - Sent(begun) <= vague'[begun] - vague[begun]
  BY <1>1, <1>2 DEF Sent, TypeOK
<1>5. limit' = named'  BY <1>2 DEF IInv, Limits
<1>6. QED  BY <1>1, <1>2, <1>3, <1>4, <1>5, AttemptFails

LEMMA KeptByThrottled == ASSUME IInv, NEW s \in 0..MaxRetryAfter, Throttled(s) PROVE IInv'
<1>1. at # "idle" /\ begun \in Call /\ TypeOK  BY InFlight DEF Throttled
<1>2. Fails("failed", TRUE) /\ UNCHANGED <<done, adrift, vague>>  BY DEF Throttled
<1>3. /\ limit' = named' /\ limit' \in 0..MaxClock
  <2>1. /\ limit = named /\ limit \in 0..MaxClock /\ clock \in 0..MaxClock
        /\ s \in Nat /\ clock + s <= MaxClock
    BY <1>1, BoundsAssumption DEF IInv, Limits, TypeOK, Throttled
  <2>2. QED  BY <2>1, BoundsAssumption DEF Throttled, RecordsLimit
<1>4. TypeOK'  BY <1>1, <1>2, <1>3, FailsEffect DEF TypeOK
<1>5. /\ done'[begun] + adrift'[begun] <= Sent(begun) + 1 /\ vague'[begun] >= vague[begun]
      /\ done'[begun] + adrift'[begun] - Sent(begun) <= vague'[begun] - vague[begun]
  BY <1>1, <1>2 DEF Sent, TypeOK
<1>6. QED  BY <1>1, <1>2, <1>3, <1>4, <1>5, AttemptFails

LEMMA KeptByAnswerBroken == ASSUME IInv, NEW t \in BOOLEAN, AnswerBroken(t) PROVE IInv'
<1>1. at # "idle" /\ begun \in Call /\ TypeOK  BY InFlight DEF AnswerBroken
<1>2. /\ done' \in [Call -> Nat]
      /\ \A d \in Call : d # begun => done'[d] = done[d]
      /\ SendsMessage(begun) => done'[begun] = done[begun] + 1
  BY <1>1, ServedEffect DEF AnswerBroken
<1>3. Fails(Unanswered, t) /\ UNCHANGED <<limit, named, adrift, vague>>  BY DEF AnswerBroken
<1>4. /\ UNCHANGED <<clock, begun, call>> /\ attempt' \in 0..RetryAttempts
      /\ result' \in [Call -> Verdict \cup {"none"}]
      /\ \/ at' = "delay" /\ Unanswered # "ambiguous" /\ Unanswered # "ok"
            /\ ~call[begun].once /\ result' = result
         \/ at' = "idle" /\ result' = [result EXCEPT ![begun] = Unanswered]
  BY <1>1, <1>3, FailsEffect, UnansweredVerdict
<1>5. TypeOK'  BY <1>1, <1>2, <1>3, <1>4 DEF TypeOK
<1>7. SendsMessage(begun) => done'[begun] + adrift'[begun] <= Sent(begun) + 1
  BY <1>1, <1>2, <1>3 DEF Sent, TypeOK
<1>8. Unanswered \in Verdict /\ limit' = named' /\ vague'[begun] >= vague[begun]
      /\ Unanswered # "ok" /\ (SendsMessage(begun) => Unanswered \notin {"failed", "cancelled"})
  BY <1>1, <1>3, UnansweredVerdict DEF Verdict, IInv, Limits, TypeOK
<1>9. QED  BY <1>1, <1>2, <1>3, <1>4, <1>5, <1>7, <1>8, AttemptEnds

LEMMA KeptByLost == ASSUME IInv, NEW t \in BOOLEAN, Lost(t) PROVE IInv'
<1>1. at # "idle" /\ begun \in Call /\ TypeOK  BY InFlight DEF Lost
<1>2. /\ adrift' \in [Call -> Nat]
      /\ \A d \in Call : d # begun => adrift'[d] = adrift[d]
      /\ adrift'[begun] = adrift[begun] + 1
  BY <1>1, AdriftEffect DEF Lost
<1>3. Fails(Unanswered, t) /\ UNCHANGED <<limit, named, done, vague>>  BY DEF Lost
<1>4. /\ UNCHANGED <<clock, begun, call>> /\ attempt' \in 0..RetryAttempts
      /\ result' \in [Call -> Verdict \cup {"none"}]
      /\ \/ at' = "delay" /\ Unanswered # "ambiguous" /\ Unanswered # "ok"
            /\ ~call[begun].once /\ result' = result
         \/ at' = "idle" /\ result' = [result EXCEPT ![begun] = Unanswered]
  BY <1>1, <1>3, FailsEffect, UnansweredVerdict
<1>5. TypeOK'  BY <1>1, <1>2, <1>3, <1>4 DEF TypeOK
<1>6. done'[begun] + adrift'[begun] <= Sent(begun) + 1
  BY <1>1, <1>2, <1>3 DEF Sent, TypeOK
<1>7. Unanswered \in Verdict /\ limit' = named' /\ vague'[begun] >= vague[begun]
      /\ Unanswered # "ok" /\ (SendsMessage(begun) => Unanswered \notin {"failed", "cancelled"})
  BY <1>1, <1>3, UnansweredVerdict DEF Verdict, IInv, Limits, TypeOK
<1>8. QED  BY <1>1, <1>2, <1>3, <1>4, <1>5, <1>6, <1>7, AttemptEnds

LEMMA KeptByGatewayAnswers == ASSUME IInv, NEW t \in BOOLEAN, GatewayAnswers(t) PROVE IInv'
<1>1. at # "idle" /\ begun \in Call /\ TypeOK  BY InFlight DEF GatewayAnswers
<1>2. /\ adrift' \in [Call -> Nat]
      /\ \A d \in Call : d # begun => adrift'[d] = adrift[d]
      /\ adrift'[begun] = adrift[begun] + 1
  BY <1>1, AdriftEffect DEF GatewayAnswers
<1>3. /\ vague' \in [Call -> Nat]
      /\ \A d \in Call : d # begun => vague'[d] = vague[d]
      /\ vague'[begun] = vague[begun] + 1
  BY <1>1 DEF GatewayAnswers, TypeOK
<1>4. Fails("failed", t) /\ UNCHANGED <<limit, named, done>>  BY DEF GatewayAnswers
<1>5. TypeOK'  BY <1>1, <1>2, <1>3, <1>4, FailsEffect DEF TypeOK
<1>6. /\ done'[begun] + adrift'[begun] <= Sent(begun) + 1 /\ vague'[begun] >= vague[begun]
      /\ done'[begun] + adrift'[begun] - Sent(begun) <= vague'[begun] - vague[begun]
  BY <1>1, <1>2, <1>3, <1>4 DEF Sent, TypeOK
<1>7. limit' = named'  BY <1>4 DEF IInv, Limits
<1>8. QED  BY <1>1, <1>2, <1>3, <1>4, <1>5, <1>6, <1>7, AttemptFails

LEMMA KeptByCancelled == IInv /\ Cancelled => IInv'
<1> SUFFICES ASSUME IInv, Cancelled PROVE IInv'  OBVIOUS
<1>1. at # "idle" /\ begun \in Call /\ TypeOK  BY InFlight DEF Cancelled
<1>2. /\ UNCHANGED <<clock, limit, begun, attempt, call, named, done, adrift, vague>>
      /\ at' = "idle" /\ result' = [result EXCEPT ![begun] = "cancelled"]
  BY DEF Cancelled, telegram
<1>3. TypeOK'  BY <1>1, <1>2 DEF TypeOK, Verdict
<1>4. /\ done'[begun] + adrift'[begun] <= Sent(begun) + 1 /\ vague'[begun] >= vague[begun]
      /\ done'[begun] + adrift'[begun] - Sent(begun) <= vague'[begun] - vague[begun]
  BY <1>1, <1>2 DEF Sent, TypeOK
<1>5. "cancelled" \in Verdict /\ "cancelled" # "ok" /\ limit' = named'
  BY <1>2 DEF Verdict, IInv, Limits
<1>6. QED  BY <1>1, <1>2, <1>3, <1>4, <1>5, AttemptEnds

-----------------------------------------------------------------------------
(* The actions outside an attempt.                                         *)

LEMMA KeptByBegins == ASSUME IInv, NEW request \in Request, Begins(request) PROVE IInv'
<1>1. /\ at = "idle" /\ begun' = begun + 1 /\ at' = "limit" /\ attempt' = 1
      /\ call' = [call EXCEPT ![begun + 1] = request]
      /\ UNCHANGED <<clock, limit, named, result, done, adrift, vague>>
      /\ begun \in Nat /\ begun + 1 \in Call /\ call \in [Call -> Request]
  BY BoundsAssumption DEF Begins, telegram, IInv, TypeOK, Call
<1>2. call' \in [Call -> Request] /\ \A c \in Call : c # begun + 1 => call'[c] = call[c]
  BY <1>1
<1>3. TypeOK'  BY <1>1, <1>2, BoundsAssumption DEF IInv, TypeOK, Call
<1>4. /\ done[begun + 1] = 0 /\ adrift[begun + 1] = 0 /\ vague[begun + 1] = 0
      /\ result[begun + 1] = "none"
  BY <1>1 DEF IInv, Fresh
<1>5. Begun' /\ Fresh' /\ Limits'
  BY <1>1, <1>4 DEF IInv, Begun, Fresh, Limits, Call
<1>6. Counted'
  <2>1. \A c \in Call : c # begun + 1 => SendsMessage(c)' = SendsMessage(c)
                                         /\ call'[c].once = call[c].once
    BY <1>2 DEF SendsMessage
  <2>2. QED  BY <1>1, <1>4, <2>1 DEF IInv, Counted, Sent, Open
<1>7. VerdictsAreTrue'
  BY <1>1, <1>2, <1>4 DEF IInv, VerdictsAreTrue, SendsMessage
<1>8. QED  BY <1>3, <1>5, <1>6, <1>7 DEF IInv

LEMMA KeptByArrivesLate == ASSUME IInv, NEW c \in Call, ArrivesLate(c) PROVE IInv'
<1>1. /\ adrift[c] > 0 /\ adrift' = [adrift EXCEPT ![c] = adrift[c] - 1]
      /\ UNCHANGED <<clock, limit, begun, at, attempt, call, result, named, vague>>
      /\ adrift \in [Call -> Nat] /\ done \in [Call -> Nat] /\ vague \in [Call -> Nat] /\ TypeOK
  BY DEF ArrivesLate, process, IInv, TypeOK
<1>2. /\ done' \in [Call -> Nat]
      /\ \A d \in Call : d # c => done'[d] = done[d]
      /\ done'[c] >= 1
      /\ SendsMessage(c) => done'[c] = done[c] + 1
  BY <1>1, CarriedOutEffect DEF ArrivesLate
<1>3. /\ adrift' \in [Call -> Nat] /\ \A d \in Call : d # c => adrift'[d] = adrift[d]
      /\ adrift'[c] = adrift[c] - 1
  BY <1>1
<1>4. TypeOK'  BY <1>1, <1>2, <1>3 DEF TypeOK
<1>5. c <= begun  BY <1>1 DEF IInv, Fresh, TypeOK, Call
<1>6. \A d \in Call : SendsMessage(d) => Sent(d)' = Sent(d)
  BY <1>1, <1>2, <1>3 DEF Sent
<1>7. \A d \in Call : d > begun => d # c  BY <1>1, <1>5 DEF TypeOK, Call
<1>8. Fresh'  BY <1>1, <1>2, <1>3, <1>7 DEF IInv, Fresh
<1>9. Begun' /\ Limits'  BY <1>1 DEF IInv, Begun, Limits
<1>10. Counted'
  BY <1>1, <1>6 DEF IInv, Counted, Open, SendsMessage
<1>11. VerdictsAreTrue'
  <2>1. \A d \in Call : result'[d] = "ok" => done'[d] >= 1
    BY <1>1, <1>2 DEF IInv, VerdictsAreTrue
  <2>2. \A d \in Call : SendsMessage(d)' /\ result'[d] \in {"failed", "cancelled"}
                           => done'[d] + adrift'[d] <= vague'[d]
    BY <1>1, <1>6 DEF IInv, VerdictsAreTrue, SendsMessage, Sent
  <2>3. QED  BY <2>1, <2>2 DEF VerdictsAreTrue
<1>12. QED  BY <1>4, <1>8, <1>9, <1>10, <1>11 DEF IInv

LEMMA KeptByWaiting == IInv /\ (Advance \/ Delays \/ WaitsForLimit \/ Written) => IInv'
<1> SUFFICES ASSUME IInv, Advance \/ Delays \/ WaitsForLimit \/ Written PROVE IInv'  OBVIOUS
<1>1. /\ UNCHANGED <<limit, named, begun, attempt, call, result, done, adrift, vague>>
      /\ \/ clock' = clock + 1 /\ clock < MaxClock /\ at' = at
         \/ clock' = clock /\ at = "delay" /\ at' = "limit"
         \/ clock' = clock /\ at = "limit" /\ clock >= limit /\ at' = "request"
         \/ clock' = clock /\ at = "request" /\ at' = "flight"
  BY DEF Advance, Delays, WaitsForLimit, Written, process, telegram
<1>2. TypeOK'  BY <1>1, BoundsAssumption DEF IInv, TypeOK
<1>3. clock' >= clock /\ (at # "idle" <=> at' # "idle")
  BY <1>1, BoundsAssumption DEF IInv, TypeOK
<1>4. at' \in {"request", "flight"} => clock' >= named
  BY <1>1, BoundsAssumption DEF IInv, TypeOK, Limits
<1>5. QED  BY <1>1, <1>2, <1>3, <1>4, GoesOn

LEMMA IInvStep == IInv /\ [Next]_vars => IInv'
<1> SUFFICES ASSUME IInv, [Next]_vars PROVE IInv'  OBVIOUS
<1>1. CASE Calls \/ SendsOnce
  <2>1. PICK request \in Request : Begins(request)
    BY <1>1 DEF Calls, SendsOnce, Request, Method, Creating
  <2>2. QED  BY <2>1, KeptByBegins
<1>2. CASE Advance \/ Delays \/ WaitsForLimit \/ Written  BY <1>2, KeptByWaiting
<1>3. CASE Cancelled  BY <1>3, KeptByCancelled
<1>4. CASE Attempts  BY <1>4, KeptByNotWritten DEF Attempts
<1>5. CASE Ends
  <2>1. CASE Answered  BY <2>1, KeptByAnswered
  <2>2. ASSUME NEW t \in BOOLEAN,
               AnswerBroken(t) \/ Refused(t) \/ Lost(t) \/ GatewayAnswers(t)
        PROVE  IInv'
    BY <2>2, KeptByAnswerBroken, KeptByRefused, KeptByLost, KeptByGatewayAnswers
  <2>3. ASSUME NEW s \in 0..MaxRetryAfter, Throttled(s) PROVE IInv'
    BY <2>3, KeptByThrottled
  <2>4. QED  BY <1>5, <2>1, <2>2, <2>3 DEF Ends
<1>6. ASSUME NEW c \in Call, ArrivesLate(c) PROVE IInv'  BY <1>6, KeptByArrivesLate
<1>7. CASE UNCHANGED vars
  BY <1>7 DEF vars, process, telegram, IInv, TypeOK, Begun, Fresh, Counted, VerdictsAreTrue,
              Limits, Sent, Open, SendsMessage
<1>8. QED  BY <1>1, <1>2, <1>3, <1>4, <1>5, <1>6, <1>7 DEF Next

-----------------------------------------------------------------------------
\* Holds in every state: the client's state, requests and verdicts keep their types.
THEOREM TypeCorrect == Spec => []TypeOK
<1>1. IInv => TypeOK  BY DEF IInv
<1>2. QED  BY InitIInv, IInvStep, <1>1, PTL DEF Spec

\* One sendMessage call never leaves two messages unless a gateway answered, and a
\* SendMessageOnce never does: callJSON stops at an ambiguous error.
THEOREM OneMessagePerCall == Spec => []OneMessage
<1>1. IInv => OneMessage  BY DEF IInv, Counted, OneMessage, Sent
<1>2. QED  BY InitIInv, IInvStep, <1>1, PTL DEF Spec

\* What the client tells its caller of a call is true when it is told and stays so.
THEOREM VerdictsHold == Spec => []VerdictsAreTrue
<1>1. IInv => VerdictsAreTrue  BY DEF IInv
<1>2. QED  BY InitIInv, IInvStep, <1>1, PTL DEF Spec

\* No request is written before the moment an earlier 429 has named, in any call.
THEOREM LimitIsHeld == Spec => LimitHeld
<1>1. IInv /\ [Next]_vars => [at = "request" /\ at' = "flight" => clock >= named]_vars
  BY DEF IInv, Limits
<1>2. QED  BY InitIInv, IInvStep, <1>1, PTL DEF Spec, LimitHeld
=============================================================================
