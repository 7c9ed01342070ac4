------------------------------- MODULE Setup -------------------------------
(***************************************************************************)
(* The setup of a workspace and the topics it keeps.  One press of         *)
(* setup:start binds every topic to a thread of the forum inside one       *)
(* transaction, and then sees to the messages each topic should hold: its  *)
(* control or introduction.  Telegram takes no part in the transaction: a  *)
(* topic created in one that is rolled back stays in the chat.             *)
(*                                                                         *)
(* The leaderboard is such a message too, and two other processes replace  *)
(* it when they find it gone: the worker, and the API process, which       *)
(* handles its updates one by one.                                         *)
(*                                                                         *)
(* Threads and messages are numbered as they appear, 0 stands for none.    *)
(* Left out: titles, texts, pins, and the checklist message itself.        *)
(***************************************************************************)
EXTENDS Integers, Sequences

CONSTANTS
    TopicCount,     \* the topics, in the order in which they are ensured
    Slots,          \* the messages, in the order in which they are ensured
    Board,          \* the leaderboard's topic; the message is its introduction
    MaxThreads, MaxMessages,                            \* bounds: forum
    MaxFaults, MaxDeletions, MaxPresses, MaxRefreshes   \* bounds: events

Topic == 1..TopicCount
Kind == {"intro", "control"}
Slot == [topic : Topic, kind : Kind]

ASSUME SetupAssumption ==
    /\ TopicCount \in Nat /\ Slots \in Seq(Slot) /\ Board \in Topic
    /\ \A i, j \in 1..Len(Slots) : Slots[i] = Slots[j] => i = j
    /\ MaxThreads \in Nat /\ MaxMessages \in Nat
    /\ MaxFaults \in Nat /\ MaxDeletions \in Nat /\ MaxPresses \in Nat /\ MaxRefreshes \in Nat

VARIABLES
    made,       \* the threads ever created, each with the topic it was created for
    gone,       \* threads somebody has deleted
    mail,       \* the messages ever sent
    dead,       \* messages somebody has deleted by themselves
    thread,     \* topic_bindings: [Topic -> thread_id], 0 without a row
    message,    \* topic_bindings: [Topic -> intro_message_id, control_message_id]
    ready,      \* setup_status = 'ready'
    at, index,  \* the handler of setup:start, and the topic or slot it is at
    fresh,      \* threads bound in its open transaction
    seen,       \* the messages it has read
    stage, aim, \* each refresh of the leaderboard, and the row it has read
    note,       \* the message each writer has sent and not yet stored
    astray,     \* threads that a failed step has left without a binding
    strays,     \* messages that a failed step has left without a binding
    whole,      \* the latest transaction began with everything in place
    quiet,      \* and nothing has come in between since
    count       \* how often each bounded event has happened

forum == <<made, gone, mail, dead>>
rows == <<thread, message, ready>>
setup == <<at, index, fresh, seen>>
refresh == <<stage, aim>>
vars == <<forum, rows, setup, refresh, note, astray, strays, whole, quiet, count>>

Thread == 1..MaxThreads
Message == 1..MaxMessages
Refresher == {"worker", "api"}
Writer == Refresher \cup {"setup"}
Event == {"fault", "deletion", "press", "refresh"}
Mail == [home : Thread, kind : Kind]
Messages == [Kind -> 0..MaxMessages]

TypeOK ==
    /\ made \in Seq(Topic) /\ Len(made) <= MaxThreads /\ gone \subseteq Thread
    /\ mail \in Seq(Mail) /\ Len(mail) <= MaxMessages /\ dead \subseteq Message
    /\ thread \in [Topic -> 0..MaxThreads] /\ message \in [Topic -> Messages]
    /\ ready \in BOOLEAN
    /\ at \in {"idle", "begin", "topic", "commit", "list", "slot", "store"}
    /\ index \in Nat
    /\ fresh \in [Topic -> 0..MaxThreads] /\ seen \in [Topic -> Messages]
    /\ stage \in [Refresher -> {"off", "read", "store"}]
    /\ aim \in [Refresher -> [thread : 0..MaxThreads, intro : 0..MaxMessages]]
    /\ note \in [Writer -> 0..MaxMessages]
    /\ astray \subseteq Thread /\ strays \subseteq Message
    /\ whole \in BOOLEAN /\ quiet \in BOOLEAN
    /\ count \in [Event -> Nat]

None == [k \in Topic |-> 0]
NoMessages == [kind \in Kind |-> 0]

Init ==
    /\ made = <<>> /\ gone = {} /\ mail = <<>> /\ dead = {}
    /\ thread = None /\ message = [k \in Topic |-> NoMessages] /\ ready = FALSE
    /\ at = "idle" /\ index = 1 /\ fresh = None /\ seen = [k \in Topic |-> NoMessages]
    /\ stage = [r \in Refresher |-> "off"]
    /\ aim = [r \in Refresher |-> [thread |-> 0, intro |-> 0]]
    /\ note = [w \in Writer |-> 0]
    /\ astray = {} /\ strays = {} /\ whole = FALSE /\ quiet = FALSE
    /\ count = [e \in Event |-> 0]

Live(t) == t # 0 /\ t \notin gone
Alive(m) == m # 0 /\ m \notin dead /\ mail[m].home \notin gone

Happens(e, max) == count[e] < max /\ count' = [count EXCEPT ![e] = @ + 1]

\* A step goes wrong: an error of Telegram or the database, or the death of a process.
Fault == Happens("fault", MaxFaults) /\ quiet' = FALSE

-----------------------------------------------------------------------------
(* The people of the chat.                                                 *)

DeletesTopic(t) ==
    /\ Happens("deletion", MaxDeletions)
    /\ t \in 1..Len(made) /\ t \notin gone /\ gone' = gone \cup {t} /\ quiet' = FALSE
    /\ UNCHANGED <<made, mail, dead, rows, setup, refresh, note, astray, strays, whole>>

DeletesMessage(m) ==
    /\ Happens("deletion", MaxDeletions)
    /\ m \in 1..Len(mail) /\ Alive(m) /\ dead' = dead \cup {m} /\ quiet' = FALSE
    /\ UNCHANGED <<made, gone, mail, rows, setup, refresh, note, astray, strays, whole>>

\* setup:start; an update whose handler fails is handled again, so it waits at "begin".
Presses ==
    /\ at = "idle" /\ stage["api"] = "off" /\ Happens("press", MaxPresses)
    /\ at' = "begin"
    /\ UNCHANGED <<forum, rows, index, fresh, seen, refresh, note, astray, strays, whole, quiet>>

\* The bot lacks a right by now.
Refused ==
    /\ at = "begin" /\ at' = "idle"
    /\ UNCHANGED <<forum, rows, index, fresh, seen, refresh, note, astray, strays, whole, quiet,
                   count>>

-----------------------------------------------------------------------------
(* EnsureWorkspaceTopics.                                                  *)

\* Everything that setup should leave behind is there.
Whole ==
    /\ ready
    /\ \A k \in Topic : Live(thread[k])
    /\ \A n \in 1..Len(Slots) :
          LET m == message[Slots[n].topic][Slots[n].kind]
          IN  m # 0 /\ Alive(m) /\ mail[m].home = thread[Slots[n].topic]

TransactionBegins ==
    /\ at = "begin" /\ at' = "topic" /\ index' = 1
    /\ whole' = Whole /\ quiet' = TRUE
    /\ UNCHANGED <<forum, rows, fresh, seen, refresh, note, astray, strays, count>>

\* Mutant: every error of editForumTopic passes for a missing thread.
MissingIfDoubtful(k) == TRUE

Missing(k) == ~Live(thread[k])

AtTopic(k) == at = "topic" /\ index = k
NextTopic == at' = (IF index < TopicCount THEN "topic" ELSE "commit") /\ index' = index + 1

\* EditForumTopic, answered well or with "not modified".
KeepsTopic(k) ==
    /\ AtTopic(k) /\ Live(thread[k])
    /\ NextTopic
    /\ UNCHANGED <<forum, rows, fresh, seen, refresh, note, astray, strays, whole, quiet, count>>

\* CreateForumTopic for a topic without a row, or whose thread Telegram no longer knows.
CreatesTopic(k) ==
    /\ AtTopic(k) /\ Missing(k) /\ Len(made) < MaxThreads
    /\ made' = Append(made, k)
    /\ fresh' = [fresh EXCEPT ![k] = Len(made) + 1]
    /\ NextTopic
    /\ UNCHANGED <<gone, mail, dead, rows, seen, refresh, note, astray, strays, whole, quiet,
                   count>>

\* A request to create it is carried out and not answered; the call repeats it or fails.
CreatesTopicUnheard(k) ==
    /\ AtTopic(k) /\ Missing(k) /\ Len(made) < MaxThreads /\ Fault
    /\ made' = Append(made, k)
    /\ astray' = astray \cup {Len(made) + 1}
    /\ UNCHANGED <<gone, mail, dead, rows, setup, refresh, note, strays, whole>>

\* Mutant: an INSERT that does nothing where the topic has a row.
BoundIfNew(k) == IF fresh[k] # 0 /\ thread[k] = 0 THEN fresh[k] ELSE thread[k]

\* Mutant: the row keeps the messages of the thread that is gone.
MessagesKept(k) == message[k]

\* UpsertTopicBinding, and SetTopicMessages with both resets.
Bound(k) == IF fresh[k] # 0 THEN fresh[k] ELSE thread[k]
MessagesReset(k) == IF fresh[k] # 0 THEN NoMessages ELSE message[k]

Committed ==
    /\ thread' = [k \in Topic |-> Bound(k)]
    /\ message' = [k \in Topic |-> MessagesReset(k)]
    /\ ready' = TRUE /\ fresh' = None

Commits ==
    /\ at = "commit" /\ at' = "list" /\ Committed
    /\ UNCHANGED <<forum, index, seen, refresh, note, astray, strays, whole, quiet, count>>

\* The COMMIT is carried out and its answer lost.
CommitsUnheard ==
    /\ at = "commit" /\ at' = "begin" /\ Committed /\ Fault
    /\ UNCHANGED <<forum, index, seen, refresh, note, astray, strays, whole>>

\* The transaction fails, or the process dies and takes the update up again.
Breaks ==
    /\ at \notin {"idle", "begin"} /\ Fault
    /\ at' = "begin" /\ fresh' = None
    /\ astray' = astray \cup {fresh[k] : k \in {t \in Topic : fresh[t] # 0}}
    /\ strays' = IF at = "store" THEN strays \cup {note["setup"]} ELSE strays
    /\ UNCHANGED <<forum, rows, index, seen, refresh, note, whole>>

-----------------------------------------------------------------------------
(* handleSetupStart's ensureTopicMessage, one slot after the other.        *)

Lists ==
    /\ at = "list" /\ at' = "slot" /\ index' = 1 /\ seen' = message
    /\ UNCHANGED <<forum, rows, fresh, refresh, note, astray, strays, whole, quiet, count>>

AtSlot(n) == at = "slot" /\ index = n /\ n <= Len(Slots)
Stored(n) == seen[Slots[n].topic][Slots[n].kind]
Home(n) == thread[Slots[n].topic]
NextSlot == at' = "slot" /\ index' = index + 1

\* Mutant: "message is not modified" is an error like any other.
EditableIfChanged(n) == FALSE

\* Mutant: an edit that fails is as good as done.
EditableIfStored(n) == Stored(n) # 0

Editable(n) == Stored(n) # 0 /\ Alive(Stored(n))

KeepsMessage(n) ==
    /\ AtSlot(n) /\ Editable(n)
    /\ NextSlot
    /\ UNCHANGED <<forum, rows, fresh, seen, refresh, note, astray, strays, whole, quiet, count>>

Posted(n) ==
    /\ Live(Home(n)) /\ Len(mail) < MaxMessages
    /\ mail' = Append(mail, [home |-> Home(n), kind |-> Slots[n].kind])

\* There is no message, or it cannot be edited because it is gone.
SendsMessage(n) ==
    /\ AtSlot(n) /\ ~Editable(n)
    /\ Posted(n)
    /\ note' = [note EXCEPT !["setup"] = Len(mail) + 1]
    /\ at' = "store" /\ UNCHANGED index
    /\ UNCHANGED <<made, gone, dead, rows, fresh, seen, refresh, astray, strays, whole, quiet,
                   count>>

\* The message is there, but the edit fails for another reason.
ReplacesMessage(n) ==
    /\ AtSlot(n) /\ Editable(n) /\ Fault
    /\ Posted(n)
    /\ note' = [note EXCEPT !["setup"] = Len(mail) + 1]
    /\ at' = "store" /\ UNCHANGED index
    /\ strays' = strays \cup {Stored(n)}
    /\ UNCHANGED <<made, gone, dead, rows, fresh, seen, refresh, astray, whole>>

\* The send fails, and setup passes over it.
SkipsMessage(n) ==
    /\ AtSlot(n)
    /\ NextSlot
    /\ \/ ~Live(Home(n)) /\ UNCHANGED <<mail, strays, quiet, count>>
       \/ Fault /\ UNCHANGED <<mail, strays>>
       \/ Fault /\ Posted(n) /\ strays' = strays \cup {Len(mail) + 1}
    /\ UNCHANGED <<made, gone, dead, rows, fresh, seen, refresh, note, astray, whole>>

StoresMessage(n) ==
    /\ at = "store" /\ index = n
    /\ message' = [message EXCEPT ![Slots[n].topic][Slots[n].kind] = note["setup"]]
    /\ NextSlot
    /\ UNCHANGED <<forum, thread, ready, fresh, seen, refresh, note, astray, strays, whole, quiet,
                   count>>

\* Nor does it look at the error of this transaction.
LosesMessage ==
    /\ at = "store" /\ Fault
    /\ strays' = strays \cup {note["setup"]}
    /\ NextSlot
    /\ UNCHANGED <<forum, rows, fresh, seen, refresh, note, astray, whole>>

Ends ==
    /\ at = "slot" /\ index > Len(Slots) /\ at' = "idle"
    /\ UNCHANGED <<forum, rows, index, fresh, seen, refresh, note, astray, strays, whole, quiet,
                   count>>

-----------------------------------------------------------------------------
(* RefreshLeaderboard, by the worker and by the handler of a check-in.     *)

RefreshUnchanged == <<made, gone, thread, ready, setup, astray, whole>>

\* It reads the row of its topic, and does nothing before there is one.
Reads(r) ==
    /\ stage[r] = "off" /\ (r = "api" => at = "idle") /\ Happens("refresh", MaxRefreshes)
    /\ thread[Board] # 0
    /\ stage' = [stage EXCEPT ![r] = "read"]
    /\ aim' = [aim EXCEPT ![r] = [thread |-> thread[Board], intro |-> message[Board]["intro"]]]
    /\ UNCHANGED <<RefreshUnchanged, mail, dead, message, note, strays, quiet>>

\* It edits the message, or an error, as of a thread that is gone, leaves it to a later one.
GoesOff(r) ==
    /\ stage[r] = "read"
    /\ stage' = [stage EXCEPT ![r] = "off"]
    /\ UNCHANGED <<RefreshUnchanged, aim, mail, dead, message, note, strays, quiet, count>>

\* There is no message, or it is gone.
SendsBoard(r) ==
    /\ stage[r] = "read" /\ (aim[r].intro = 0 \/ ~Alive(aim[r].intro))
    /\ Live(aim[r].thread) /\ Len(mail) < MaxMessages
    /\ mail' = Append(mail, [home |-> aim[r].thread, kind |-> "intro"])
    /\ note' = [note EXCEPT ![r] = Len(mail) + 1]
    /\ stage' = [stage EXCEPT ![r] = "store"]
    /\ UNCHANGED <<RefreshUnchanged, aim, dead, message, strays, quiet, count>>

\* SetTopicMessages; a row rewritten by the open transaction of setup is locked.
StoresBoard(r) ==
    /\ stage[r] = "store" /\ fresh[Board] = 0
    /\ message' = [message EXCEPT ![Board]["intro"] = note[r]]
    /\ stage' = [stage EXCEPT ![r] = "off"]
    /\ quiet' = FALSE
    /\ UNCHANGED <<RefreshUnchanged, aim, mail, dead, note, strays, count>>

\* The UPDATE fails and the message is deleted, unless that fails as well or is too late.
LosesBoard(r) ==
    /\ stage[r] = "store" /\ Fault
    /\ stage' = [stage EXCEPT ![r] = "off"]
    /\ \/ dead' = dead \cup {note[r]} /\ UNCHANGED strays
       \/ strays' = strays \cup {note[r]} /\ UNCHANGED dead
    /\ UNCHANGED <<RefreshUnchanged, aim, mail, message, note>>

-----------------------------------------------------------------------------
SetupStep ==
    \/ Refused \/ TransactionBegins
    \/ \E k \in Topic : KeepsTopic(k) \/ CreatesTopic(k) \/ CreatesTopicUnheard(k)
    \/ Commits \/ CommitsUnheard \/ Breaks \/ Lists
    \/ \E n \in 1..Len(Slots) : KeepsMessage(n) \/ SendsMessage(n) \/ ReplacesMessage(n)
                                 \/ SkipsMessage(n) \/ StoresMessage(n)
    \/ LosesMessage \/ Ends

RefreshStep(r) == Reads(r) \/ GoesOff(r) \/ SendsBoard(r) \/ StoresBoard(r) \/ LosesBoard(r)

Next ==
    \/ \E t \in Thread : DeletesTopic(t)
    \/ \E m \in Message : DeletesMessage(m)
    \/ Presses \/ SetupStep
    \/ \E r \in Refresher : RefreshStep(r)

Spec == Init /\ [][Next]_vars

\* The poller hands the update to its handler until it succeeds, and the handler runs.
FairSpec == Spec /\ WF_vars(SetupStep)

-----------------------------------------------------------------------------
\* The bindings lose nothing: a topic in the chat is the one its row names, or is being
\* bound, and each control message is the one its row names, unless a step that failed
\* has left it behind.
NothingLost ==
    /\ \A t \in 1..Len(made) : Live(t) =>
          \/ thread[made[t]] = t \/ fresh[made[t]] = t
          \/ t \in astray
    /\ \A m \in 1..Len(mail) : Alive(m) /\ mail[m].kind = "control" =>
          \/ message[made[mail[m].home]]["control"] = m
          \/ at = "store" /\ note["setup"] = m
          \/ m \in strays

\* A stored message is one of the topic's thread.  Only the leaderboard, which another
\* process may store late, can name one of the thread before, and then that thread is
\* gone, so that the next refresh replaces it.
MessagesInTopic ==
    \A k \in Topic : \A kind \in Kind :
        message[k][kind] # 0 =>
            \/ mail[message[k][kind]].home = thread[k]
            \/ k = Board /\ kind = "intro" /\ mail[message[k][kind]].home \in gone

\* A binding moves to another thread only when the one it names has been deleted.
LiveTopicKept == [][\A k \in Topic : thread[k] # 0 /\ thread'[k] # thread[k]
                                        => thread[k] \in gone]_vars

\* docs/architecture.md:73, "Setup is idempotent": begun with everything in place, and
\* with nothing coming in between, it creates no topic and sends no message.
SetupIsIdempotent ==
    [][whole /\ quiet /\ quiet' => made' = made /\ at' # "store"]_vars

\* "It creates or repairs": begun with whatever is missing, it ends with everything in
\* place, unless something comes in between.
SetupRepairs == at = "topic" /\ quiet ~> ~quiet \/ (at = "idle" /\ Whole)
=============================================================================
