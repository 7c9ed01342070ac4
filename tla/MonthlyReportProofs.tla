------------------------ MODULE MonthlyReportProofs ------------------------
(***************************************************************************)
(* Proofs about MonthlyReport, for any processes and any texts.            *)
(*                                                                         *)
(* The inductive invariant says who may post and when: a process at work   *)
(* on the row is the only one (OneOwner); before it sends there is nothing *)
(* on the wire and nothing posted (NothingSent); what is on the wire is the*)
(* row's text, alone, with nothing posted yet (OneRequest); what is posted *)
(* is the row's text, once (OnePost); and a verdict of "published", held by*)
(* the process or by the row, is about that post (TrueVerdict, TrueRow).   *)
(***************************************************************************)
EXTENDS MonthlyReport, TLAPS

OneOwner ==
    \A p \in Publisher : call[p].at \in Working =>
        /\ row.status = "publishing" /\ call[p].content = row.content
        /\ \A q \in Publisher : call[q].at \in Working => q = p

NothingSent ==
    (row = NoRow \/ \E p \in Publisher : At(p, "send")) => wire = {} /\ posts = <<>>

OneRequest ==
    \A r \in wire : posts = <<>> /\ r[2] = row.content /\ wire = {r}

OnePost == posts = <<>> \/ (row # NoRow /\ posts = <<row.content>>)

TrueVerdict ==
    \A p \in Publisher : At(p, "save") =>
        /\ call[p].verdict \in Verdict
        /\ call[p].verdict = "published" => posts # <<>> /\ call[p].message = 1

TrueRow == row.status = "published" => posts # <<>> /\ row.message = 1

TrueReceipts ==
    \A r \in told : row.status = "published" /\ r = <<row.content, row.message>>

IInv ==
    /\ TypeOK /\ OneOwner /\ NothingSent /\ OneRequest
    /\ OnePost /\ TrueVerdict /\ TrueRow /\ TrueReceipts

-----------------------------------------------------------------------------
\* Go moves one process and leaves what it carries.
LEMMA GoMoves ==
    ASSUME TypeOK, NEW p \in Publisher, call[p] # Idle,
           NEW step \in {"validate", "reserve", "reread"} \cup Working, Go(p, step)
    PROVE  /\ call' \in [Publisher -> Call]
           /\ call'[p].at = step /\ call'[p].content = call[p].content
           /\ call'[p].verdict = call[p].verdict /\ call'[p].message = call[p].message
           /\ \A q \in Publisher \ {p} : call'[q] = call[q]
<1>1. call[p] \in Call /\ call \in [Publisher -> Call]  BY DEF TypeOK
<1>2. call[p] \in [at : {"validate", "reserve", "reread"} \cup Working,
                   content : Content, verdict : Verdict \cup {None}, message : Message]
  BY <1>1 DEF Call
<1>3. [call[p] EXCEPT !.at = step] \in
        [at : {"validate", "reserve", "reread"} \cup Working,
         content : Content, verdict : Verdict \cup {None}, message : Message]
  BY <1>2
<1>4. call' = [call EXCEPT ![p] = [call[p] EXCEPT !.at = step]]  BY <1>1 DEF Go
<1>5. [call[p] EXCEPT !.at = step].at = step  BY <1>2
<1>6. call' \in [Publisher -> Call]  BY <1>1, <1>3, <1>4 DEF Call
<1>7. call'[p] = [call[p] EXCEPT !.at = step]  BY <1>1, <1>4
<1>8. QED  BY <1>1, <1>2, <1>4, <1>5, <1>6, <1>7

\* A judged process is at "save" with the verdict and the id given.
LEMMA JudgesMoves ==
    ASSUME TypeOK, NEW p \in Publisher, call[p] # Idle,
           NEW v \in Verdict, NEW m \in Message, Judges(p, v, m)
    PROVE  /\ call' \in [Publisher -> Call]
           /\ call'[p].at = "save" /\ call'[p].content = call[p].content
           /\ call'[p].verdict = v /\ call'[p].message = m
           /\ \A q \in Publisher \ {p} : call'[q] = call[q]
<1>1. call[p] \in Call /\ call \in [Publisher -> Call]  BY DEF TypeOK
<1>2. call[p] \in [at : {"validate", "reserve", "reread"} \cup Working,
                   content : Content, verdict : Verdict \cup {None}, message : Message]
  BY <1>1 DEF Call
<1>3. PICK r : r = [call[p] EXCEPT !.at = "save", !.verdict = v, !.message = m]  OBVIOUS
<1>4. r \in [at : {"validate", "reserve", "reread"} \cup Working,
             content : Content, verdict : Verdict \cup {None}, message : Message]
  BY <1>2, <1>3 DEF Working
<1>5. r.at = "save" /\ r.content = call[p].content /\ r.verdict = v /\ r.message = m
  BY <1>2, <1>3
<1>6. call' = [call EXCEPT ![p] = r]  BY <1>1, <1>3 DEF Judges
<1>7. call' \in [Publisher -> Call]  BY <1>1, <1>4, <1>6 DEF Call
<1>8. QED  BY <1>1, <1>5, <1>6, <1>7

\* A process that ends is idle and nobody else moves.
LEMMA EndsMoves ==
    ASSUME TypeOK, NEW p \in Publisher, Ends(p)
    PROVE  /\ call' \in [Publisher -> Call]
           /\ call'[p].at = "idle"
           /\ \A q \in Publisher \ {p} : call'[q] = call[q]
BY DEF TypeOK, Ends, Call, Idle

\* Ending a process, with the row, the wire and the posts as they are, disturbs nothing.
LEMMA EndingKeepsIInv ==
    ASSUME IInv, NEW p \in Publisher, Ends(p), UNCHANGED <<row, wire, posts, told>>
    PROVE  IInv'
<1>1. /\ call' \in [Publisher -> Call]
      /\ call'[p].at = "idle"
      /\ \A q \in Publisher \ {p} : call'[q] = call[q]
  BY EndsMoves DEF IInv
<1>2. TypeOK'  BY <1>1 DEF IInv, TypeOK
<1>3. OneOwner'  BY <1>1 DEF IInv, OneOwner, Working
<1>4. NothingSent'  BY <1>1 DEF IInv, NothingSent, At
<1>5. OneRequest' /\ OnePost' /\ TrueRow' /\ TrueReceipts'
  BY DEF IInv, OneRequest, OnePost, TrueRow, TrueReceipts
<1>6. TrueVerdict'  BY <1>1 DEF IInv, TrueVerdict, At
<1>7. QED  BY <1>2, <1>3, <1>4, <1>5, <1>6 DEF IInv

\* The receipt that is read from a published row.
LEMMA ReturningKeepsIInv ==
    ASSUME IInv, NEW p \in Publisher, Returns(p), UNCHANGED <<row, wire, posts>>
    PROVE  IInv'
<1>1. /\ call' \in [Publisher -> Call]
      /\ call'[p].at = "idle"
      /\ \A q \in Publisher \ {p} : call'[q] = call[q]
  BY EndsMoves DEF IInv, Returns
<1>2. row \in [status : Reserved, content : Content, message : Message]
  BY DEF IInv, TypeOK, Row, Returns, NoRow
<1>3. TypeOK'  BY <1>1, <1>2 DEF IInv, TypeOK, Returns
<1>4. OneOwner'  BY <1>1 DEF IInv, OneOwner, Working
<1>5. NothingSent'  BY <1>1 DEF IInv, NothingSent, At
<1>6. OneRequest' /\ OnePost' /\ TrueRow'
  BY DEF IInv, OneRequest, OnePost, TrueRow
<1>7. TrueReceipts'  BY DEF IInv, TrueReceipts, Returns
<1>8. TrueVerdict'  BY <1>1 DEF IInv, TrueVerdict, At
<1>9. QED  BY <1>3, <1>4, <1>5, <1>6, <1>7, <1>8 DEF IInv

-----------------------------------------------------------------------------
LEMMA InitIInv == Init => IInv
<1> SUFFICES ASSUME Init PROVE IInv  OBVIOUS
<1>1. \A p \in Publisher : call[p] = Idle  BY DEF Init
<1>2. TypeOK  BY <1>1 DEF Init, TypeOK, Row, Call
<1>3. OneOwner /\ TrueVerdict  BY <1>1 DEF OneOwner, TrueVerdict, Idle, Working, At
<1>4. NothingSent /\ OneRequest /\ OnePost  BY DEF Init, NothingSent, OneRequest, OnePost
<1>5. TrueRow /\ TrueReceipts  BY DEF Init, TrueRow, TrueReceipts, NoRow
<1>6. QED  BY <1>2, <1>3, <1>4, <1>5 DEF IInv

LEMMA PublishKeepsIInv ==
    ASSUME IInv, NEW p \in Publisher, NEW c \in Content, Publish(p, c)
    PROVE  IInv'
<1>1. PICK r : r = [Idle EXCEPT !.at = "validate", !.content = c]  OBVIOUS
<1>2. r = [at |-> "validate", content |-> c, verdict |-> None, message |-> None]
  BY <1>1 DEF Idle
<1>3. r \in Call /\ r.at = "validate"  BY <1>2 DEF Call, Message
<1>4. call' = [call EXCEPT ![p] = r]  BY <1>1 DEF Publish
<1>5. /\ call' \in [Publisher -> Call]
      /\ call'[p].at = "validate"
      /\ \A q \in Publisher \ {p} : call'[q] = call[q]
  BY <1>3, <1>4 DEF IInv, TypeOK
<1>6. TypeOK'  BY <1>5 DEF IInv, TypeOK, Publish
<1>7. OneOwner'  BY <1>5 DEF IInv, OneOwner, Working, Publish
<1>8. NothingSent'  BY <1>5 DEF IInv, NothingSent, At, Publish
<1>9. OneRequest' /\ OnePost' /\ TrueRow' /\ TrueReceipts'
  BY DEF IInv, OneRequest, OnePost, TrueRow, TrueReceipts, Publish
<1>10. TrueVerdict'  BY <1>5 DEF IInv, TrueVerdict, At, Publish
<1>11. QED  BY <1>6, <1>7, <1>8, <1>9, <1>10 DEF IInv

LEMMA ValidateKeepsIInv ==
    ASSUME IInv, NEW p \in Publisher, Validate(p)
    PROVE  IInv'
<1>1. CASE Go(p, "reserve") /\ UNCHANGED told
  <2>1. call[p] # Idle  BY DEF Validate, At, Idle
  <2>2. /\ call' \in [Publisher -> Call]
        /\ call'[p].at = "reserve"
        /\ \A q \in Publisher \ {p} : call'[q] = call[q]
    BY <1>1, <2>1, GoMoves DEF IInv
  <2>3. UNCHANGED <<row, wire, posts, told>>  BY <1>1 DEF Validate
  <2>4. TypeOK'  BY <2>2, <2>3 DEF IInv, TypeOK
  <2>5. OneOwner'  BY <2>2, <2>3 DEF IInv, OneOwner, Working
  <2>6. NothingSent'  BY <2>2, <2>3 DEF IInv, NothingSent, At
  <2>7. OneRequest' /\ OnePost' /\ TrueRow' /\ TrueReceipts'
    BY <2>3 DEF IInv, OneRequest, OnePost, TrueRow, TrueReceipts
  <2>8. TrueVerdict'  BY <2>2, <2>3 DEF IInv, TrueVerdict, At
  <2>9. QED  BY <2>4, <2>5, <2>6, <2>7, <2>8 DEF IInv
<1>2. CASE Returns(p)
  BY <1>2, ReturningKeepsIInv DEF Validate
<1>3. CASE Refuses(p)
  BY <1>3, EndingKeepsIInv DEF Validate, Refuses
<1>4. QED  BY <1>1, <1>2, <1>3 DEF Validate

LEMMA RereadKeepsIInv ==
    ASSUME IInv, NEW p \in Publisher, Reread(p)
    PROVE  IInv'
<1>1. CASE Returns(p)  BY <1>1, ReturningKeepsIInv DEF Reread
<1>2. CASE Refuses(p)  BY <1>2, EndingKeepsIInv DEF Reread, Refuses
<1>3. QED  BY <1>1, <1>2 DEF Reread

\* The insertion finds nobody at work, nothing sent and nothing told.
LEMMA ReserveKeepsIInv ==
    ASSUME IInv, NEW p \in Publisher, Reserve(p)
    PROVE  IInv'
<1> USE DEF IInv
<1>1. call[p] # Idle /\ call[p] \in Call  BY DEF Reserve, At, Idle, TypeOK
<1>2. call[p].content \in Content  BY <1>1 DEF Call
<1>3. CASE Inserts(p)
  <2>1. row.status = "not_published"  BY <1>3 DEF Inserts, MayReserve
  <2>2. row = NoRow  BY <2>1 DEF TypeOK, Row, Reserved
  <2>3. wire = {} /\ posts = <<>>  BY <2>2 DEF NothingSent
  <2>4. \A q \in Publisher : call[q].at \notin Working  BY <2>1 DEF OneOwner
  <2>5. told = {}  BY <2>1 DEF TrueReceipts
  <2>6. PICK c \in Content : c = call[p].content  BY <1>2
  <2>7. row' = [status |-> "publishing", content |-> c, message |-> None]
    BY <1>3, <2>6 DEF Inserts
  <2>8. row' \in [status : Reserved, content : Content, message : Message]
    BY <2>7 DEF Reserved, Message
  <2>9. UNCHANGED <<wire, posts, told>>  BY DEF Reserve
  <2>10. /\ call' \in [Publisher -> Call]
         /\ \/ call'[p].at = "send" /\ call'[p].content = c
            \/ call'[p].at = "idle"
         /\ \A q \in Publisher \ {p} : call'[q] = call[q]
    <3>1. CASE Go(p, "send")
      BY <3>1, <1>1, <2>6, GoMoves, "send" \in Working DEF Working
    <3>2. CASE Ends(p)  BY <3>2, EndsMoves
    <3>3. QED  BY <1>3, <3>1, <3>2 DEF Reserve, Inserts
  <2>11. TypeOK'  BY <2>8, <2>9, <2>10 DEF TypeOK, Row
  <2>12. OneOwner'  BY <2>4, <2>7, <2>10 DEF OneOwner, Working
  <2>13. NothingSent' /\ OneRequest' /\ OnePost'
    BY <2>3, <2>9 DEF NothingSent, OneRequest, OnePost
  <2>14. TrueVerdict'  BY <2>4, <2>10 DEF TrueVerdict, At, Working
  <2>15. TrueRow' /\ TrueReceipts'  BY <2>5, <2>7, <2>9 DEF TrueRow, TrueReceipts
  <2>16. QED  BY <2>11, <2>12, <2>13, <2>14, <2>15
<1>4. CASE Go(p, "reread") /\ UNCHANGED row
  <2>1. /\ call' \in [Publisher -> Call]
        /\ call'[p].at = "reread"
        /\ \A q \in Publisher \ {p} : call'[q] = call[q]
    BY <1>1, <1>4, GoMoves
  <2>2. UNCHANGED <<row, wire, posts, told>>  BY <1>4 DEF Reserve
  <2>3. TypeOK'  BY <2>1, <2>2 DEF TypeOK
  <2>4. OneOwner'  BY <2>1, <2>2 DEF OneOwner, Working
  <2>5. NothingSent'  BY <2>1, <2>2 DEF NothingSent, At
  <2>6. OneRequest' /\ OnePost' /\ TrueRow' /\ TrueReceipts'
    BY <2>2 DEF OneRequest, OnePost, TrueRow, TrueReceipts
  <2>7. TrueVerdict'  BY <2>1, <2>2 DEF TrueVerdict, At
  <2>8. QED  BY <2>3, <2>4, <2>5, <2>6, <2>7
<1>5. QED  BY <1>3, <1>4 DEF Reserve

-----------------------------------------------------------------------------
LEMMA SendKeepsIInv ==
    ASSUME IInv, NEW p \in Publisher, Send(p)
    PROVE  IInv'
<1> USE DEF IInv
<1>1. call[p] # Idle /\ call[p] \in Call /\ At(p, "send")  BY DEF Send, At, Idle, TypeOK
<1>2. call[p].content \in Content  BY <1>1 DEF Call
<1>3. /\ row.status = "publishing" /\ call[p].content = row.content
      /\ \A q \in Publisher : call[q].at \in Working => q = p
  BY <1>1 DEF OneOwner, At, Working
<1>4. wire = {} /\ posts = <<>>  BY <1>1 DEF NothingSent
<1>5. UNCHANGED <<row, posts, told>>  BY DEF Send
<1>6. wire' = {<<p, row.content>>}  BY <1>3, <1>4 DEF Send
<1>7. /\ call' \in [Publisher -> Call]
      /\ call'[p].at = "await" /\ call'[p].content = call[p].content
      /\ \A q \in Publisher \ {p} : call'[q] = call[q]
  BY <1>1, GoMoves, "await" \in Working DEF Send, Working
<1>8. TypeOK'  BY <1>2, <1>3, <1>5, <1>6, <1>7 DEF TypeOK
<1>9. OneOwner'  BY <1>3, <1>5, <1>7 DEF OneOwner, Working
<1>10. row # NoRow /\ \A q \in Publisher : call'[q].at # "send"
  BY <1>3, <1>7 DEF NoRow, Working
<1>11. NothingSent'  BY <1>5, <1>10 DEF NothingSent, At
<1>12. OneRequest'  BY <1>4, <1>5, <1>6 DEF OneRequest
<1>13. OnePost' /\ TrueRow' /\ TrueReceipts'
  BY <1>5 DEF OnePost, TrueRow, TrueReceipts
<1>14. TrueVerdict'  BY <1>5, <1>7 DEF TrueVerdict, At
<1>15. QED  BY <1>8, <1>9, <1>11, <1>12, <1>13, <1>14

LEMMA SendFailsKeepsIInv ==
    ASSUME IInv, NEW p \in Publisher, SendFails(p)
    PROVE  IInv'
<1> USE DEF IInv
<1>1. call[p] # Idle /\ call[p].at \in Working  BY DEF SendFails, At, Idle, Working
<1>2. /\ row.status = "publishing" /\ call[p].content = row.content
      /\ \A q \in Publisher : call[q].at \in Working => q = p
  BY <1>1 DEF OneOwner
<1>3. UNCHANGED <<row, wire, posts, told>>  BY DEF SendFails
<1>4. /\ call' \in [Publisher -> Call]
      /\ call'[p].at = "save" /\ call'[p].content = call[p].content
      /\ call'[p].verdict = "uncertain"
      /\ \A q \in Publisher \ {p} : call'[q] = call[q]
  BY <1>1, JudgesMoves, "uncertain" \in Verdict, None \in Message
     DEF SendFails, Verdict, Message
<1>5. TypeOK'  BY <1>3, <1>4 DEF TypeOK
<1>6. OneOwner'  BY <1>2, <1>3, <1>4 DEF OneOwner, Working
<1>7. NothingSent'  BY <1>3, <1>4 DEF NothingSent, At
<1>8. OneRequest' /\ OnePost' /\ TrueRow' /\ TrueReceipts'
  BY <1>3 DEF OneRequest, OnePost, TrueRow, TrueReceipts
<1>9. TrueVerdict'  BY <1>3, <1>4 DEF TrueVerdict, At, Verdict
<1>10. QED  BY <1>5, <1>6, <1>7, <1>8, <1>9

\* The request taken is the only one and nothing is posted, so its post is message 1.
LEMMA TelegramPostsKeepsIInv ==
    ASSUME IInv, NEW p \in Publisher, NEW c \in Content, TelegramPosts(p, c)
    PROVE  IInv'
<1> USE DEF IInv
<1>1. /\ <<p, c>> \in wire /\ wire' = wire \ {<<p, c>>}
      /\ posts' = Append(posts, c) /\ UNCHANGED <<row, told>>
  BY DEF TelegramPosts
<1>2. posts = <<>> /\ c = row.content /\ wire = {<<p, c>>}  BY <1>1 DEF OneRequest
<1>3. wire' = {} /\ posts' = <<c>>  BY <1>1, <1>2
<1>4. row # NoRow /\ \A q \in Publisher : call[q].at # "send"
  BY <1>1 DEF NothingSent, At
<1>5. row'.status # "published"  BY <1>1, <1>2 DEF TrueRow
<1>6. OnePost' /\ OneRequest' /\ TrueRow' /\ TrueReceipts'
  BY <1>1, <1>2, <1>3, <1>4, <1>5 DEF OnePost, OneRequest, TrueRow, TrueReceipts
<1>7. Len(posts) + 1 = 1  BY <1>2
<1>8. CASE At(p, "await") /\ \E j \in Judgement(Len(posts) + 1) : Judges(p, j[1], j[2])
  <2>1. PICK j \in Judgement(1) : Judges(p, j[1], j[2])  BY <1>7, <1>8
  <2>2. /\ j[1] \in Verdict /\ j[2] \in Message
        /\ j[1] = "published" => j[2] = 1
    BY <2>1 DEF Judgement, Verdict, Message
  <2>3. call[p] # Idle /\ call[p].at \in Working  BY <1>8 DEF At, Idle, Working
  <2>4. /\ call' \in [Publisher -> Call]
        /\ call'[p].at = "save" /\ call'[p].content = call[p].content
        /\ call'[p].verdict = j[1] /\ call'[p].message = j[2]
        /\ \A q \in Publisher \ {p} : call'[q] = call[q]
    BY <2>1, <2>2, <2>3, JudgesMoves
  <2>5. TypeOK'  BY <1>1, <1>3, <2>4 DEF TypeOK
  <2>6. OneOwner'  BY <1>1, <2>3, <2>4 DEF OneOwner, Working
  <2>7. NothingSent'  BY <1>1, <1>4, <2>4 DEF NothingSent, At
  <2>8. TrueVerdict'  BY <1>3, <2>2, <2>4 DEF TrueVerdict, At
  <2>9. QED  BY <1>6, <2>5, <2>6, <2>7, <2>8
<1>9. CASE UNCHANGED call
  <2>1. TypeOK'  BY <1>1, <1>3, <1>9 DEF TypeOK
  <2>2. OneOwner'  BY <1>1, <1>9 DEF OneOwner
  <2>3. NothingSent'  BY <1>1, <1>4, <1>9 DEF NothingSent, At
  <2>4. TrueVerdict'  BY <1>3, <1>9 DEF TrueVerdict, At
  <2>5. QED  BY <1>6, <2>1, <2>2, <2>3, <2>4
<1>10. QED  BY <1>8, <1>9 DEF TelegramPosts

LEMMA TelegramDropsKeepsIInv ==
    ASSUME IInv, NEW p \in Publisher, NEW c \in Content, TelegramDrops(p, c)
    PROVE  IInv'
<1> USE DEF IInv, TelegramDrops
<1>1. wire' \subseteq wire /\ UNCHANGED <<row, call, posts, told>>  OBVIOUS
<1>2. TypeOK'  BY <1>1 DEF TypeOK
<1>3. OneOwner' /\ TrueVerdict'  BY <1>1 DEF OneOwner, TrueVerdict, At
<1>4. NothingSent' /\ OneRequest'  BY <1>1 DEF NothingSent, OneRequest, At
<1>5. OnePost' /\ TrueRow' /\ TrueReceipts'  BY <1>1 DEF OnePost, TrueRow, TrueReceipts
<1>6. QED  BY <1>2, <1>3, <1>4, <1>5

\* The verdict saved is the one of the only process at work, and nothing was told yet.
LEMMA SaveKeepsIInv ==
    ASSUME IInv, NEW p \in Publisher, Save(p)
    PROVE  IInv'
<1> USE DEF IInv
<1>1. CASE Saves(p)
  <2>1. At(p, "save") /\ Ends(p) /\ UNCHANGED <<wire, posts>>  BY DEF Save
  <2>2. /\ call' \in [Publisher -> Call]
        /\ call'[p].at = "idle"
        /\ \A q \in Publisher \ {p} : call'[q] = call[q]
    BY <2>1, EndsMoves
  <2>3. /\ row.status = "publishing"
        /\ \A q \in Publisher : call[q].at \in Working => q = p
    BY <2>1 DEF OneOwner, At, Working
  <2>4. row \in [status : Reserved, content : Content, message : Message]
    BY <2>3 DEF TypeOK, Row, NoRow
  <2>5. PICK v \in Verdict, m \in Message :
          /\ v = call[p].verdict /\ m = call[p].message
          /\ v = "published" => posts # <<>> /\ m = 1
    <3>1. call[p] \in Call /\ call[p] # Idle  BY <2>1 DEF TypeOK, At, Idle
    <3>2. call[p].message \in Message  BY <3>1 DEF Call
    <3>3. QED  BY <2>1, <3>2 DEF TrueVerdict
  <2>6. row' = [row EXCEPT !.status = v, !.message = m]  BY <1>1, <2>5 DEF Saves
  <2>7. row' \in [status : Reserved, content : Content, message : Message]
    BY <2>4, <2>6 DEF Reserved, Verdict
  <2>8. row'.status = v /\ row'.message = m /\ row'.content = row.content
    BY <2>4, <2>6
  <2>9. row' # NoRow  BY <2>7 DEF NoRow, Reserved
  <2>10. told = {}  BY <2>3 DEF TrueReceipts
  <2>11. told' = {} \/ (v = "published" /\ told' = {<<row'.content, row'.message>>})
    BY <1>1, <2>5, <2>10 DEF Save
  <2>12. TypeOK'
    <3>1. row'.content \in Content /\ row'.message \in Message  BY <2>7
    <3>2. told' \in SUBSET (Content \X Message)  BY <2>11, <3>1
    <3>3. QED  BY <2>1, <2>2, <2>7, <3>2 DEF TypeOK, Row
  <2>13. OneOwner'  BY <2>2, <2>3 DEF OneOwner, Working
  <2>14. \A q \in Publisher : call'[q].at # "send" /\ call'[q].at # "save"
    BY <2>2, <2>3 DEF Working
  <2>15. NothingSent' /\ TrueVerdict'  BY <2>9, <2>14 DEF NothingSent, TrueVerdict, At
  <2>16. OneRequest'  BY <2>1, <2>8 DEF OneRequest
  <2>17. OnePost'  BY <2>1, <2>8, <2>9 DEF OnePost
  <2>18. TrueRow'  BY <2>1, <2>5, <2>8 DEF TrueRow
  <2>19. TrueReceipts'  BY <2>8, <2>11 DEF TrueReceipts
  <2>20. QED  BY <2>12, <2>13, <2>15, <2>16, <2>17, <2>18, <2>19
<1>2. CASE UNCHANGED row /\ UNCHANGED told
  BY <1>2, EndingKeepsIInv DEF Save
<1>3. QED  BY <1>1, <1>2 DEF Save

LEMMA StutterKeepsIInv ==
    ASSUME IInv, UNCHANGED vars
    PROVE  IInv'
BY DEF IInv, vars, TypeOK, OneOwner, NothingSent, OneRequest, OnePost, TrueVerdict,
       TrueRow, TrueReceipts, At

LEMMA NextIInv == IInv /\ [Next]_vars => IInv'
<1> SUFFICES ASSUME IInv, [Next]_vars PROVE IInv'  OBVIOUS
<1>1. ASSUME NEW p \in Publisher, Validate(p) PROVE IInv'  BY <1>1, ValidateKeepsIInv
<1>2. ASSUME NEW p \in Publisher, Reserve(p) PROVE IInv'  BY <1>2, ReserveKeepsIInv
<1>3. ASSUME NEW p \in Publisher, Reread(p) PROVE IInv'  BY <1>3, RereadKeepsIInv
<1>4. ASSUME NEW p \in Publisher, Send(p) PROVE IInv'  BY <1>4, SendKeepsIInv
<1>5. ASSUME NEW p \in Publisher, SendFails(p) PROVE IInv'  BY <1>5, SendFailsKeepsIInv
<1>6. ASSUME NEW p \in Publisher, Save(p) PROVE IInv'  BY <1>6, SaveKeepsIInv
<1>7. ASSUME NEW p \in Publisher, Stops(p) PROVE IInv'
  BY <1>7, EndingKeepsIInv DEF Stops
<1>8. ASSUME NEW p \in Publisher, NEW c \in Content, Publish(p, c) PROVE IInv'
  BY <1>8, PublishKeepsIInv
<1>9. ASSUME NEW p \in Publisher, NEW c \in Content, TelegramPosts(p, c) PROVE IInv'
  BY <1>9, TelegramPostsKeepsIInv
<1>10. ASSUME NEW p \in Publisher, NEW c \in Content, TelegramDrops(p, c) PROVE IInv'
  BY <1>10, TelegramDropsKeepsIInv
<1>11. CASE UNCHANGED vars  BY <1>11, StutterKeepsIInv
<1>12. QED
  BY <1>1, <1>2, <1>3, <1>4, <1>5, <1>6, <1>7, <1>8, <1>9, <1>10, <1>11 DEF Next

\* Every reachable state satisfies the inductive invariant.
THEOREM Inductive == Spec => []IInv
BY InitIInv, NextIInv, PTL DEF Spec

\* Types are kept, whatever the processes and the texts.
THEOREM TypeCorrect == Spec => []TypeOK
<1>1. IInv => TypeOK  BY DEF IInv
<1>2. QED  BY <1>1, Inductive, PTL

\* The month's report is posted at most once, and it is the reserved text.
THEOREM PostsOnce == Spec => []PostedOnce
<1>1. IInv => PostedOnce
  <2> SUFFICES ASSUME IInv PROVE PostedOnce  OBVIOUS
  <2>1. CASE posts = <<>>  BY <2>1 DEF PostedOnce
  <2>2. CASE posts = <<row.content>>  BY <2>2 DEF PostedOnce
  <2>3. QED  BY <2>1, <2>2 DEF IInv, OnePost
<1>2. QED  BY <1>1, Inductive, PTL

\* Every receipt returned as published names the text and the id of the post.
THEOREM ReceiptsHold == Spec => []ReceiptsAreTrue
<1>1. IInv => ReceiptsAreTrue
  <2> SUFFICES ASSUME IInv, NEW r \in told
               PROVE  /\ row.status = "published" /\ r = <<row.content, row.message>>
                      /\ r[2] \in 1..Len(posts) /\ posts[r[2]] = r[1]
    BY DEF ReceiptsAreTrue
  <2>1. row.status = "published" /\ r = <<row.content, row.message>>
    BY DEF IInv, TrueReceipts
  <2>2. posts = <<row.content>> /\ row.message = 1
    BY <2>1 DEF IInv, TrueRow, OnePost
  <2>3. QED  BY <2>1, <2>2
<1>2. QED  BY <1>1, Inductive, PTL

-----------------------------------------------------------------------------
\* A reserved row stays reserved, and its verdict changes only from "publishing".
LEMMA KeptIsUntouched ==
    ASSUME UNCHANGED <<row, posts>>
    PROVE  UNCHANGED <<posts, Kept>>
BY DEF Kept

\* A save is a Judge step of the promise, or a stutter.
LEMMA SaveJudges ==
    ASSUME IInv, NEW p \in Publisher, Save(p)
    PROVE  Promise!Next \/ UNCHANGED <<posts, Kept>>
<1>1. CASE Saves(p)
  <2>1. At(p, "save") /\ UNCHANGED posts  BY DEF Save
  <2>2. row.status = "publishing" /\ Kept = "none"
    BY <1>1 DEF Saves, Kept, Verdict
  <2>3. PICK v \in Verdict : v = call[p].verdict /\ (v = "published" => posts # <<>>)
    BY <2>1 DEF IInv, TrueVerdict
  <2>4. row \in [status : Reserved, content : Content, message : Message]
    BY <2>2 DEF IInv, TypeOK, Row, NoRow
  <2>5. PICK m : m = call[p].message  OBVIOUS
  <2>6. row' = [row EXCEPT !.status = v, !.message = m]  BY <1>1, <2>3, <2>5 DEF Saves
  <2>7. row'.status = v  BY <2>4, <2>6
  <2>8. Kept' = v  BY <2>7 DEF Kept
  <2>9. Promise!Judge(v)  BY <2>1, <2>2, <2>3, <2>8 DEF Promise!Judge
  <2>10. QED  BY <2>9 DEF Promise!Next, Verdict
<1>2. CASE UNCHANGED row  BY <1>2, KeptIsUntouched DEF Save
<1>3. QED  BY <1>1, <1>2 DEF Save

\* Telegram taking the only request is the Post step of the promise.
LEMMA TelegramPostsPosts ==
    ASSUME IInv, NEW p \in Publisher, NEW c \in Content, TelegramPosts(p, c)
    PROVE  Promise!Next
<1>1. posts = <<>>  BY DEF IInv, OneRequest, TelegramPosts
<1>2. posts' = <<c>> /\ UNCHANGED row  BY <1>1 DEF TelegramPosts
<1>3. Kept # "published"  BY <1>1 DEF IInv, TrueRow, Kept
<1>4. UNCHANGED Kept  BY <1>2 DEF Kept
<1>5. Promise!Post(c)  BY <1>1, <1>2, <1>3, <1>4 DEF Promise!Post
<1>6. QED  BY <1>5 DEF Promise!Next

\* Reserving leaves the verdict open.
LEMMA ReserveIsSilent ==
    ASSUME NEW p \in Publisher, Reserve(p)
    PROVE  UNCHANGED <<posts, Kept>>
<1>1. UNCHANGED posts  BY DEF Reserve
<1>2. CASE Inserts(p)
  <2>1. row.status = "not_published" /\ row'.status = "publishing"
    BY <1>2 DEF Inserts, MayReserve
  <2>2. QED  BY <1>1, <2>1 DEF Kept, Verdict
<1>3. CASE UNCHANGED row  BY <1>1, <1>3, KeptIsUntouched
<1>4. QED  BY <1>2, <1>3 DEF Reserve

\* Publishing implements the promise of MonthlyPost: one post, one verdict.
THEOREM RefinesMonthlyPost == Spec => ImplementsMonthlyPost
<1>1. Init => Promise!Init  BY DEF Init, Promise!Init, Kept, NoRow, Verdict
<1>2. IInv /\ [Next]_vars => [Promise!Next]_<<posts, Kept>>
  <2> SUFFICES ASSUME IInv, [Next]_vars
               PROVE  Promise!Next \/ UNCHANGED <<posts, Kept>>
    OBVIOUS
  <2>1. CASE \E p \in Publisher : Reserve(p)  BY <2>1, ReserveIsSilent
  <2>2. CASE \E p \in Publisher : Save(p)  BY <2>2, SaveJudges
  <2>3. CASE \E p \in Publisher, c \in Content : TelegramPosts(p, c)
    BY <2>3, TelegramPostsPosts
  <2>4. CASE \E p \in Publisher : Validate(p) \/ Reread(p) \/ Send(p) \/ SendFails(p) \/ Stops(p)
    BY <2>4, KeptIsUntouched DEF Validate, Reread, Send, SendFails, Stops
  <2>5. CASE \E p \in Publisher, c \in Content : Publish(p, c) \/ TelegramDrops(p, c)
    BY <2>5, KeptIsUntouched DEF Publish, TelegramDrops
  <2>6. CASE UNCHANGED vars  BY <2>6, KeptIsUntouched DEF vars
  <2>7. QED  BY <2>1, <2>2, <2>3, <2>4, <2>5, <2>6 DEF Next
<1>3. QED  BY <1>1, <1>2, Inductive, PTL DEF Spec, ImplementsMonthlyPost, Promise!Spec
=============================================================================
