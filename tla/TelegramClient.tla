--------------------------- MODULE TelegramClient ---------------------------
(***************************************************************************)
(* The Bot API client a process shares between its calls.  A call makes up *)
(* to three attempts; each waits until the limit named by the latest 429   *)
(* has passed, writes one request, and learns at most what the answer says *)
(* about it.  A request whose answer did not come, and one that a gateway  *)
(* answered for Telegram, may be carried out at any later time or never.   *)
(*                                                                         *)
(* A process makes one call at a time.  Delays between attempts and the    *)
(* length of a request's timeout decide nothing; time is counted only for  *)
(* the limit, in units of retry_after.                                     *)
(* Telegram describes every refusal: an answer with ok false and no        *)
(* description, which the client takes for a success, is left out.         *)
(***************************************************************************)
EXTENDS Integers

CONSTANTS
    RetryAttempts,  \* attempts of one call
    MaxCalls,       \* bound: calls of the process
    MaxClock,       \* bound: time
    MaxRetryAfter   \* bound: the longest retry_after

ASSUME BoundsAssumption ==
    /\ RetryAttempts \in Nat \ {0}
    /\ MaxCalls \in Nat /\ MaxClock \in Nat /\ MaxRetryAfter \in Nat

VARIABLES
    clock,
    limit,      \* rateLimitUntil
    named,      \* the latest moment Telegram has asked to wait for
    begun,      \* calls begun; the latest of them is the one in progress
    at,         \* where the call in progress is
    attempt,
    call,       \* [Call -> what was called]
    result,     \* [Call -> what the caller was told]
    done,       \* [Call -> how often Telegram has carried it out]
    adrift,     \* [Call -> requests it may still carry out]
    vague       \* [Call -> answers given by a gateway]

process == <<limit, begun, at, attempt, call, result>>
telegram == <<named, done, adrift, vague>>
vars == <<clock, process, telegram>>

Call == 1..MaxCalls

\* A message and a topic are new with every request; a deletion and an edit are done once.
Creating == {"sendMessage", "createForumTopic"}
Method == Creating \cup {"deleteMessage", "editMessageText"}
Request == [method : Method, once : BOOLEAN]
Verdict == {"ok", "failed", "ambiguous", "cancelled"}

TypeOK ==
    /\ clock \in 0..MaxClock /\ limit \in 0..MaxClock /\ named \in 0..MaxClock
    /\ begun \in 0..MaxCalls
    /\ at \in {"idle", "delay", "limit", "request", "flight"}
    /\ attempt \in 0..RetryAttempts
    /\ call \in [Call -> Request]
    /\ result \in [Call -> Verdict \cup {"none"}]
    /\ done \in [Call -> Nat] /\ adrift \in [Call -> Nat] /\ vague \in [Call -> Nat]

Init ==
    /\ clock = 0 /\ limit = 0 /\ named = 0
    /\ begun = 0 /\ at = "idle" /\ attempt = 0
    /\ call = [c \in Call |-> [method |-> "sendMessage", once |-> FALSE]]
    /\ result = [c \in Call |-> "none"]
    /\ done = [c \in Call |-> 0] /\ adrift = [c \in Call |-> 0] /\ vague = [c \in Call |-> 0]

Advance ==
    /\ clock < MaxClock
    /\ clock' = clock + 1
    /\ UNCHANGED <<process, telegram>>

-----------------------------------------------------------------------------
(* The call: callJSON and SendMessageOnce.                                 *)

Begins(request) ==
    /\ at = "idle" /\ begun < MaxCalls
    /\ begun' = begun + 1 /\ attempt' = 1 /\ at' = "limit"
    /\ call' = [call EXCEPT ![begun + 1] = request]
    /\ UNCHANGED <<clock, limit, result, telegram>>

Calls == \E m \in Method : Begins([method |-> m, once |-> FALSE])

SendsOnce == Begins([method |-> "sendMessage", once |-> TRUE])

\* sleepContext between two attempts.
Delays ==
    /\ at = "delay" /\ at' = "limit"
    /\ UNCHANGED <<clock, limit, begun, attempt, call, result, telegram>>

\* waitRateLimit.
WaitsForLimit ==
    /\ at = "limit" /\ clock >= limit /\ at' = "request"
    /\ UNCHANGED <<clock, limit, begun, attempt, call, result, telegram>>

\* Both waits end early with the caller's context.
Cancelled ==
    /\ at \in {"delay", "limit"} /\ at' = "idle"
    /\ result' = [result EXCEPT ![begun] = "cancelled"]
    /\ UNCHANGED <<clock, limit, begun, attempt, call, telegram>>

SendsMessage(c) == call[c].method = "sendMessage"

\* Mutant: an ambiguous error is retried like any other.
RetriesAmbiguous(verdict, transient) ==
    ~call[begun].once /\ attempt < RetryAttempts /\ transient

\* Mutant: the attempts are not counted.
RetriesForEver(verdict, transient) ==
    ~call[begun].once /\ verdict # "ambiguous" /\ transient

Retries(verdict, transient) ==
    /\ ~call[begun].once
    /\ attempt < RetryAttempts /\ verdict # "ambiguous" /\ transient

\* The end of an attempt that reports an error.
Fails(verdict, transient) ==
    /\ UNCHANGED <<clock, begun, call>>
    /\ \/ /\ Retries(verdict, transient)
          /\ at' = "delay"
          /\ attempt' = IF attempt < RetryAttempts THEN attempt + 1 ELSE attempt
          /\ UNCHANGED result
       \/ /\ ~Retries(verdict, transient)
          /\ at' = "idle" /\ UNCHANGED attempt
          /\ result' = [result EXCEPT ![begun] = verdict]

\* Mutant: a broken connection is an ordinary failure, reported at once.
UnansweredAsFailed == "failed"

\* Only sendMessage marks its error ambiguous.
Unanswered == IF SendsMessage(begun) THEN "ambiguous" ELSE "failed"

\* No connection, or none of the request written to it.
NotWritten(transient) ==
    /\ at = "request"
    /\ Fails("failed", transient)
    /\ UNCHANGED <<limit, telegram>>

Written ==
    /\ at = "request" /\ at' = "flight"
    /\ UNCHANGED <<clock, limit, begun, attempt, call, result, telegram>>

-----------------------------------------------------------------------------
(* What becomes of a request that was written.                             *)

\* A message is sent again by a repeated request, a deletion has nothing left to do.
Times(c) == IF call[c].method \in Creating THEN done[c] + 1 ELSE 1
CarriedOut(c) == done' = [done EXCEPT ![c] = Times(c)]

\* Telegram says of a repeated deletion or edit that there is nothing to delete or modify.
NothingLeft(c) == call[c].method \notin Creating /\ done[c] > 0

\* A good answer, also when it says that the message is gone or the text is the same.
Answered ==
    /\ at = "flight" /\ at' = "idle"
    /\ IF NothingLeft(begun) THEN UNCHANGED done ELSE CarriedOut(begun)
    /\ result' = [result EXCEPT ![begun] = "ok"]
    /\ UNCHANGED <<clock, limit, begun, attempt, call, named, adrift, vague>>

\* A good answer whose body cannot be decoded.
AnswerBroken(transient) ==
    /\ at = "flight"
    /\ Fails(Unanswered, transient)
    /\ IF NothingLeft(begun) THEN UNCHANGED done ELSE CarriedOut(begun)
    /\ UNCHANGED <<limit, named, adrift, vague>>

\* Telegram refuses and does nothing; some descriptions pass for transient errors.
Refused(transient) ==
    /\ at = "flight"
    /\ Fails("failed", transient)
    /\ UNCHANGED <<limit, telegram>>

\* Mutant: the limit is recorded only when the call goes on.
LimitIfRetried(until) ==
    limit' = IF Retries("failed", TRUE) /\ until > limit THEN until ELSE limit

\* recordRateLimit.
RecordsLimit(until) == limit' = IF until > limit THEN until ELSE limit

\* 429, with or without a usable retry_after.
Throttled(seconds) ==
    /\ at = "flight" /\ clock + seconds <= MaxClock
    /\ Fails("failed", TRUE)
    /\ IF seconds > 0
       THEN RecordsLimit(clock + seconds)
            /\ named' = IF clock + seconds > named THEN clock + seconds ELSE named
       ELSE UNCHANGED <<limit, named>>
    /\ UNCHANGED <<done, adrift, vague>>

SetsAdrift == adrift' = [adrift EXCEPT ![begun] = @ + 1]

\* The connection breaks, the request times out or is cancelled; it may have arrived.
Lost(transient) ==
    /\ at = "flight"
    /\ Fails(Unanswered, transient) /\ SetsAdrift
    /\ UNCHANGED <<limit, named, done, vague>>

\* A 5xx status, by Telegram or by a proxy in front of it, says nothing of the request.
GatewayAnswers(transient) ==
    /\ at = "flight"
    /\ Fails("failed", transient) /\ SetsAdrift
    /\ vague' = [vague EXCEPT ![begun] = @ + 1]
    /\ UNCHANGED <<limit, named, done>>

\* A request adrift is carried out after all.
ArrivesLate(c) ==
    /\ adrift[c] > 0
    /\ adrift' = [adrift EXCEPT ![c] = @ - 1]
    /\ CarriedOut(c)
    /\ UNCHANGED <<clock, process, named, vague>>

-----------------------------------------------------------------------------
Attempts == \E transient \in BOOLEAN : NotWritten(transient)
Ends ==
    \/ Answered
    \/ \E transient \in BOOLEAN : AnswerBroken(transient) \/ Refused(transient)
                                  \/ Lost(transient) \/ GatewayAnswers(transient)
    \/ \E seconds \in 0..MaxRetryAfter : Throttled(seconds)

Next ==
    \/ Advance \/ Calls \/ SendsOnce
    \/ Delays \/ WaitsForLimit \/ Cancelled \/ Attempts \/ Written \/ Ends
    \/ \E c \in Call : ArrivesLate(c)

Spec == Init /\ [][Next]_vars

\* The process runs, time passes, and requestTimeout ends every request.
Fairness ==
    /\ WF_vars(Advance) /\ WF_vars(Delays) /\ WF_vars(WaitsForLimit)
    /\ WF_vars(Attempts \/ Written) /\ WF_vars(Ends)

FairSpec == Spec /\ Fairness

-----------------------------------------------------------------------------
\* docs/architecture.md:286: a send whose outcome is unknown is not repeated.  However
\* its attempts end, one call puts at most one message into the chat, now or later, and
\* one more for each answer that a gateway gave; SendMessageOnce never a second one.
OneMessage ==
    \A c \in Call : SendsMessage(c) =>
        /\ done[c] + adrift[c] <= 1 + vague[c]
        /\ call[c].once => done[c] + adrift[c] <= 1

\* What the callers build on: success means that it was done, and a plain failure of a
\* send that nothing is, or will ever be, in the chat, unless a gateway answered.
VerdictsAreTrue ==
    \A c \in Call :
        /\ result[c] = "ok" => done[c] >= 1
        /\ SendsMessage(c) /\ result[c] \in {"failed", "cancelled"}
              => done[c] + adrift[c] <= vague[c]

\* docs/architecture.md:38: no request leaves before the latest moment named by any 429,
\* of an earlier attempt or of an earlier call that has long given up.
LimitHeld == [][at = "request" /\ at' = "flight" => clock >= named]_vars

\* Every call returns, whatever answers it meets.
CallsEnd == \A c \in Call : begun = c /\ at # "idle" ~> result[c] # "none"
=============================================================================
