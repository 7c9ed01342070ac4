--------------------------- MODULE MonthlyReport ---------------------------
(***************************************************************************)
(* trackmate-report publish, for one month of one workspace: operators run *)
(* the command at any time and at once, each with a text of its own.  The  *)
(* row of monthly_reports is reserved before the only Telegram request and *)
(* is never taken back.                                                    *)
(*                                                                         *)
(* A request is on the wire until Telegram takes it, so it may be taken    *)
(* after its process gave up or died.  A statement may be committed and    *)
(* its answer lost.  Formatting and the report's sources are left out.     *)
(***************************************************************************)
EXTENDS Integers, Sequences

CONSTANTS
    Publisher,  \* processes running the command
    Content,    \* canonical texts, told apart by their hash
    None

ASSUME NoneAssumption == None \notin Content /\ None \notin Nat

VARIABLES
    row,        \* the month's row of monthly_reports
    call,       \* per process, where its Publish is
    wire,       \* requests Telegram has not taken yet
    posts,      \* messages of the topic; a message's id is its place
    told        \* receipts returned as published

vars == <<row, call, wire, posts, told>>

Reserved == {"publishing", "published", "uncertain"}
Working == {"send", "await", "save"}
Verdict == {"published", "uncertain"}
Message == {None} \cup (Nat \ {0})

NoRow == [status |-> "not_published", content |-> None, message |-> None]
Idle == [at |-> "idle", content |-> None, verdict |-> None, message |-> None]

Row == {NoRow} \cup [status : Reserved, content : Content, message : Message]
Call == {Idle} \cup [at : {"validate", "reserve", "reread"} \cup Working,
                     content : Content, verdict : Verdict \cup {None}, message : Message]

TypeOK ==
    /\ row \in Row
    /\ call \in [Publisher -> Call]
    /\ wire \in SUBSET (Publisher \X Content)
    /\ posts \in Seq(Content)
    /\ told \in SUBSET (Content \X Message)

Init ==
    /\ row = NoRow
    /\ call = [p \in Publisher |-> Idle]
    /\ wire = {} /\ posts = <<>> /\ told = {}

At(p, step) == call[p].at = step
Go(p, step) == call' = [call EXCEPT ![p].at = step]
Ends(p) == call' = [call EXCEPT ![p] = Idle]

Publish(p, c) ==
    /\ At(p, "idle")
    /\ call' = [call EXCEPT ![p] = [Idle EXCEPT !.at = "validate", !.content = c]]
    /\ UNCHANGED <<row, wire, posts, told>>

\* The month's row already holds this very text, published: its receipt is returned.
Returns(p) ==
    /\ row.status = "published" /\ row.content = call[p].content
    /\ told' = told \cup {<<row.content, row.message>>}
    /\ Ends(p)

\* Any other row is left to the operator to reconcile.
Refuses(p) ==
    /\ ~(row.status = "published" /\ row.content = call[p].content)
    /\ Ends(p) /\ UNCHANGED told

\* Mutant: a row left publishing is taken over, as after a crash.
MayReserveAgain == row.status \in {"not_published", "publishing"}

\* Status finds no row.
MayReserve == row.status = "not_published"

Validate(p) ==
    /\ At(p, "validate")
    /\ \/ MayReserve /\ Go(p, "reserve") /\ UNCHANGED told
       \/ ~MayReserve /\ (Returns(p) \/ Refuses(p))
    /\ UNCHANGED <<row, wire, posts>>

\* INSERT ... ON CONFLICT DO NOTHING.
Inserts(p) ==
    /\ MayReserve
    /\ row' = [status |-> "publishing", content |-> call[p].content, message |-> None]

Reserve(p) ==
    /\ At(p, "reserve")
    /\ \/ Inserts(p) /\ (Go(p, "send") \/ Ends(p))     \* Ends: the answer is lost
       \/ ~MayReserve /\ Go(p, "reread") /\ UNCHANGED row
    /\ UNCHANGED <<wire, posts, told>>

Reread(p) ==
    /\ At(p, "reread")
    /\ Returns(p) \/ Refuses(p)
    /\ UNCHANGED <<row, wire, posts>>

Send(p) ==
    /\ At(p, "send")
    /\ Go(p, "await")
    /\ wire' = wire \cup {<<p, call[p].content>>}
    /\ UNCHANGED <<row, posts, told>>

Judges(p, verdict, message) ==
    call' = [call EXCEPT ![p].at = "save", ![p].verdict = verdict, ![p].message = message]

\* What the answer to the request says of the message: all of it right, or
\* its text changed, or its recipient not the row's, which hides the id.
Judgement(id) == {<<"published", id>>, <<"uncertain", id>>, <<"uncertain", None>>}

\* Telegram takes a request; its answer reaches the process or does not.
TelegramPosts(p, c) ==
    /\ <<p, c>> \in wire
    /\ wire' = wire \ {<<p, c>>}
    /\ posts' = Append(posts, c)
    /\ \/ At(p, "await") /\ call[p].content = c
          /\ \E j \in Judgement(Len(posts) + 1) : Judges(p, j[1], j[2])
       \/ UNCHANGED call
    /\ UNCHANGED <<row, told>>

\* A refused or lost request.
TelegramDrops(p, c) ==
    /\ <<p, c>> \in wire
    /\ wire' = wire \ {<<p, c>>}
    /\ UNCHANGED <<row, call, posts, told>>

\* Mutant: an error of the only request gives the process a second one.
SendFailsAndRetries(p) ==
    /\ At(p, "await")
    /\ Go(p, "send")
    /\ UNCHANGED <<row, wire, posts, told>>

\* The rate limit outlasts the command, the request is refused, or no answer comes.
SendFails(p) ==
    /\ At(p, "send") \/ At(p, "await")
    /\ Judges(p, "uncertain", None)
    /\ UNCHANGED <<row, wire, posts, told>>

\* The UPDATE of the row, which only a publishing one admits.
Saves(p) ==
    /\ row.status = "publishing"
    /\ row' = [row EXCEPT !.status = call[p].verdict, !.message = call[p].message]

\* Mutant: the receipt is returned although the row could not be saved.
SaveTrustsSend(p) ==
    /\ At(p, "save")
    /\ Saves(p) \/ UNCHANGED row
    /\ \/ call[p].verdict = "published"
          /\ told' = told \cup {<<call[p].content, call[p].message>>}
       \/ UNCHANGED told
    /\ Ends(p)
    /\ UNCHANGED <<wire, posts>>

\* A save that is known to have worked returns the receipt it reads back.
Save(p) ==
    /\ At(p, "save")
    /\ \/ Saves(p) /\ call[p].verdict = "published"
          /\ told' = told \cup {<<row'.content, row'.message>>}
       \/ (Saves(p) \/ UNCHANGED row) /\ UNCHANGED told
    /\ Ends(p)
    /\ UNCHANGED <<wire, posts>>

\* The process dies, or one of its statements fails with nothing done.
Stops(p) ==
    /\ ~At(p, "idle")
    /\ Ends(p)
    /\ UNCHANGED <<row, wire, posts, told>>

Next ==
    \/ \E p \in Publisher :
        \/ Validate(p) \/ Reserve(p) \/ Reread(p) \/ Send(p) \/ SendFails(p)
        \/ Save(p) \/ Stops(p)
    \/ \E p \in Publisher, c \in Content :
        Publish(p, c) \/ TelegramPosts(p, c) \/ TelegramDrops(p, c)

Spec == Init /\ [][Next]_vars

-----------------------------------------------------------------------------
\* The duplicate protection of docs/monthly-reports.md: whatever processes run, die or
\* lose answers, the topic receives the month's report once, and what it receives is
\* the text the row was reserved with.
PostedOnce == Len(posts) <= 1 /\ (posts # <<>> => posts = <<row.content>>)

\* A receipt is proof: whoever was told "published" was told the text and the id of
\* the message that is there, and the row says the same.
ReceiptsAreTrue ==
    \A r \in told : row.status = "published" /\ r = <<row.content, row.message>>
                    /\ r[2] \in 1..Len(posts) /\ posts[r[2]] = r[1]

\* The row's verdict as MonthlyPost keeps it.
Kept == IF row.status \in Verdict THEN row.status ELSE "none"

Promise == INSTANCE MonthlyPost WITH verdict <- Kept

\* Publishing keeps what MonthlyPost promises: one post, one verdict, and a verdict
\* of "published" only about a post that is there.
ImplementsMonthlyPost == Promise!Spec
=============================================================================
