---------------------------- MODULE SetupProofs ----------------------------
(***************************************************************************)
(* Proofs about Setup, for any topics and any messages they should hold.   *)
(*                                                                         *)
(* What a row may say depends on what the writers still mean to write: the *)
(* invariant gives the open transaction's threads, setup's reading of the  *)
(* rows while it goes through the slots, the message each writer has in    *)
(* hand, and the row each refresh has read.                                *)
(***************************************************************************)
EXTENDS Setup, SequenceTheorems, TLAPS

\* The rows and the open transaction name threads that were made for their topics.
Placed ==
    \A k \in Topic : thread[k] # 0 => thread[k] \in 1..Len(made) /\ made[thread[k]] = k
Opened ==
    \A k \in Topic : fresh[k] # 0 =>
        /\ fresh[k] \in 1..Len(made) /\ made[fresh[k]] = k /\ ~Live(thread[k])
        /\ at = "commit" \/ (at = "topic" /\ k < index)
TopicsKept ==
    \A t \in 1..Len(made) : Live(t) => thread[made[t]] = t \/ fresh[made[t]] = t \/ t \in astray

\* The messages are in threads of the forum, and the rows name messages.
Written == \A m \in 1..Len(mail) : mail[m].home \in 1..Len(made)
Linked ==
    \A k \in Topic : \A kind \in Kind :
        message[k][kind] # 0 => message[k][kind] \in 1..Len(mail)

\* What setup has sent belongs to the slot it is at, and what it replaces is no longer used.
Noted ==
    at = "store" =>
        /\ index \in 1..Len(Slots)
        /\ note["setup"] \in 1..Len(mail)
        /\ mail[note["setup"]].home = thread[Slots[index].topic]
        /\ mail[note["setup"]].kind = Slots[index].kind
Current ==
    at \in {"slot", "store"} =>
        \A n \in 1..Len(Slots) : n >= index /\ Slots[n].kind = "control" =>
            seen[Slots[n].topic]["control"] = message[Slots[n].topic]["control"]
Used(m) == m # 0 /\ Alive(m) /\ m \notin strays
Replaced ==
    at = "store" /\ Slots[index].kind = "control" =>
        ~Used(message[Slots[index].topic]["control"])
ControlsKept ==
    \A m \in 1..Len(mail) : Alive(m) /\ mail[m].kind = "control" =>
        \/ message[made[mail[m].home]]["control"] = m
        \/ at = "store" /\ note["setup"] = m
        \/ m \in strays

\* A refresh has read the topic's thread, or one that is gone by now.
Aimed ==
    \A r \in Refresher : stage[r] # "off" =>
        /\ aim[r].thread \in 1..Len(made)
        /\ aim[r].thread = thread[Board] \/ aim[r].thread \in gone
Held ==
    \A r \in Refresher : stage[r] = "store" =>
        note[r] \in 1..Len(mail) /\ mail[note[r]].home = aim[r].thread

\* As long as nothing comes in between, what was in place is in place.
Calm ==
    whole /\ quiet => Whole /\ fresh = None /\ at # "store" /\ (at = "slot" => seen = message)

Topics == Placed /\ Opened /\ TopicsKept
Mails == Written /\ Linked /\ MessagesInTopic /\ ControlsKept
Writes == Noted /\ Current /\ Replaced
Refreshes == Aimed /\ Held

IInv == TypeOK /\ Topics /\ Mails /\ Writes /\ Refreshes /\ Calm

-----------------------------------------------------------------------------
LEMMA SlotType == \A n \in 1..Len(Slots) : Slots[n] \in Slot /\ Slots[n].topic \in Topic
                                            /\ Slots[n].kind \in Kind
<1>1. TAKE n \in 1..Len(Slots)
<1>2. Slots[n] \in Slot  BY SetupAssumption, ElementOfSeq
<1>3. QED  BY <1>2 DEF Slot

LEMMA BoardType == Board \in Topic  BY SetupAssumption

LEMMA Appending ==
    ASSUME NEW S, NEW s \in Seq(S), NEW e \in S
    PROVE  /\ Append(s, e) \in Seq(S) /\ Len(Append(s, e)) = Len(s) + 1
           /\ Len(s) \in Nat
           /\ \A i \in 1..Len(s) : Append(s, e)[i] = s[i]
           /\ Append(s, e)[Len(s) + 1] = e
  BY AppendProperties, LenProperties

LEMMA InitIInv == Init => IInv
<1> SUFFICES ASSUME Init PROVE IInv  OBVIOUS
<1>0. Len(made) = 0 /\ Len(mail) = 0 /\ made \in Seq(Topic) /\ mail \in Seq(Mail)
  BY DEF Init
<1>1. TypeOK
  <2>1. /\ thread \in [Topic -> 0..MaxThreads] /\ fresh \in [Topic -> 0..MaxThreads]
        /\ message \in [Topic -> Messages] /\ seen \in [Topic -> Messages]
    BY SetupAssumption DEF Init, None, NoMessages, Messages
  <2>2. /\ stage \in [Refresher -> {"off", "read", "store"}]
        /\ aim \in [Refresher -> [thread : 0..MaxThreads, intro : 0..MaxMessages]]
        /\ note \in [Writer -> 0..MaxMessages] /\ count \in [Event -> Nat]
    BY SetupAssumption DEF Init
  <2>3. /\ gone \subseteq Thread /\ dead \subseteq Message
        /\ astray \subseteq Thread /\ strays \subseteq Message
        /\ ready \in BOOLEAN /\ whole \in BOOLEAN /\ quiet \in BOOLEAN
        /\ at = "idle" /\ index \in Nat
    BY DEF Init
  <2>4. Len(made) <= MaxThreads /\ Len(mail) <= MaxMessages  BY <1>0, SetupAssumption
  <2>5. QED  BY <1>0, <2>1, <2>2, <2>3, <2>4 DEF TypeOK
<1>2. Topics  BY <1>0 DEF Init, Topics, Placed, Opened, TopicsKept, None
<1>3. Mails  BY <1>0 DEF Init, Mails, Written, Linked, MessagesInTopic, ControlsKept, NoMessages
<1>4. Writes /\ Refreshes /\ Calm
  BY DEF Init, Writes, Noted, Current, Replaced, Refreshes, Aimed, Held, Calm
<1>5. QED  BY <1>1, <1>2, <1>3, <1>4 DEF IInv
-----------------------------------------------------------------------------
(* Typing.                                                                 *)

LEMMA Counting ==
    ASSUME TypeOK, NEW e \in Event, NEW max, Happens(e, max) PROVE count' \in [Event -> Nat]
  BY DEF TypeOK, Happens

LEMMA Faulty == ASSUME TypeOK, Fault PROVE count' \in [Event -> Nat] /\ quiet' = FALSE
  BY Counting DEF Fault, Event

\* A message that was just sent.
LEMMA Sending ==
    ASSUME TypeOK, NEW h \in Thread, NEW kind \in Kind, Len(mail) < MaxMessages,
           mail' = Append(mail, [home |-> h, kind |-> kind])
    PROVE  /\ mail' \in Seq(Mail) /\ Len(mail') = Len(mail) + 1 /\ Len(mail') <= MaxMessages
           /\ Len(mail) \in Nat /\ Len(mail) + 1 \in Message
           /\ \A m \in 1..Len(mail) : mail'[m] = mail[m]
           /\ mail'[Len(mail) + 1].home = h /\ mail'[Len(mail) + 1].kind = kind
<1>1. [home |-> h, kind |-> kind] \in Mail /\ mail \in Seq(Mail)  BY DEF Mail, TypeOK
<1>2. QED  BY <1>1, Appending, SetupAssumption DEF Message

LEMMA HomeType ==
    ASSUME TypeOK, NEW n \in 1..Len(Slots), Live(Home(n))
    PROVE  Home(n) \in Thread /\ Slots[n].kind \in Kind /\ Slots[n].topic \in Topic
  BY SlotType, SetupAssumption DEF TypeOK, Home, Live, Thread

\* A topic that was just created.
LEMMA Creating ==
    ASSUME TypeOK, NEW k \in Topic, Len(made) < MaxThreads, made' = Append(made, k)
    PROVE  /\ made' \in Seq(Topic) /\ Len(made') = Len(made) + 1 /\ Len(made') <= MaxThreads
           /\ Len(made) \in Nat /\ Len(made) + 1 \in Thread
           /\ \A t \in 1..Len(made) : made'[t] = made[t]
           /\ made'[Len(made) + 1] = k
<1>1. made \in Seq(Topic)  BY DEF TypeOK
<1>2. QED  BY <1>1, Appending, SetupAssumption DEF Thread

LEMMA CommittedType ==
    ASSUME TypeOK, Committed
    PROVE  /\ thread' \in [Topic -> 0..MaxThreads] /\ message' \in [Topic -> Messages]
           /\ ready' = TRUE /\ fresh' \in [Topic -> 0..MaxThreads]
<1>1. NoMessages \in Messages  BY SetupAssumption DEF NoMessages, Messages
<1>2. None \in [Topic -> 0..MaxThreads]  BY SetupAssumption DEF None
<1>3. \A k \in Topic : Bound(k) \in 0..MaxThreads /\ MessagesReset(k) \in Messages
  BY <1>1 DEF TypeOK, Bound, MessagesReset
<1>4. QED  BY <1>2, <1>3 DEF Committed

LEMMA Noting ==
    ASSUME TypeOK, NEW w \in Writer, NEW m \in Message, note' = [note EXCEPT ![w] = m]
    PROVE  note' \in [Writer -> 0..MaxMessages]
<1>1. m \in 0..MaxMessages  BY SetupAssumption DEF Message
<1>2. QED  BY <1>1 DEF TypeOK

\* The messages in hand are messages.
LEMMA InHand ==
    ASSUME IInv
    PROVE  /\ at = "store" => note["setup"] \in Message
           /\ \A r \in Refresher : stage[r] = "store" => note[r] \in Message
<1>1. mail \in Seq(Mail) /\ Len(mail) <= MaxMessages /\ Len(mail) \in Nat
  BY LenProperties DEF IInv, TypeOK
<1>2. \A m \in 1..Len(mail) : m \in Message  BY <1>1, SetupAssumption DEF Message
<1>3. QED  BY <1>2 DEF IInv, Writes, Noted, Refreshes, Held

LEMMA TypeStep == IInv /\ [Next]_vars => TypeOK'
<1> SUFFICES ASSUME IInv, TypeOK, [Next]_vars PROVE TypeOK'  BY DEF IInv
<1> USE DEF forum, rows, setup, refresh
<1>1. ASSUME NEW t \in Thread, DeletesTopic(t) PROVE TypeOK'
  <2>1. count' \in [Event -> Nat]  BY <1>1, Counting DEF DeletesTopic, Event
  <2>2. QED  BY <1>1, <2>1 DEF DeletesTopic, TypeOK
<1>2. ASSUME NEW m \in Message, DeletesMessage(m) PROVE TypeOK'
  <2>1. count' \in [Event -> Nat]  BY <1>2, Counting DEF DeletesMessage, Event
  <2>2. QED  BY <1>2, <2>1 DEF DeletesMessage, TypeOK
<1>3. CASE Presses
  <2>1. count' \in [Event -> Nat]  BY <1>3, Counting DEF Presses, Event
  <2>2. QED  BY <1>3, <2>1 DEF Presses, TypeOK
<1>4. CASE Refused  BY <1>4 DEF Refused, TypeOK
<1>5. CASE TransactionBegins
  <2>1. Whole \in BOOLEAN  BY DEF Whole
  <2>2. QED  BY <1>5, <2>1 DEF TransactionBegins, TypeOK
<1>6. ASSUME NEW k \in Topic, KeepsTopic(k) PROVE TypeOK'
  BY <1>6 DEF KeepsTopic, NextTopic, TypeOK
<1>7. ASSUME NEW k \in Topic, CreatesTopic(k) PROVE TypeOK'
  <2>1. made' \in Seq(Topic) /\ Len(made') <= MaxThreads /\ Len(made) + 1 \in Thread
    BY <1>7, Creating DEF CreatesTopic
  <2>2. fresh' \in [Topic -> 0..MaxThreads]
    BY <1>7, <2>1, SetupAssumption DEF CreatesTopic, TypeOK, Thread
  <2>3. at' \in {"topic", "commit"} /\ index' \in Nat
    BY <1>7 DEF CreatesTopic, NextTopic, TypeOK
  <2>4. QED  BY <1>7, <2>1, <2>2, <2>3 DEF CreatesTopic, TypeOK
<1>8. ASSUME NEW k \in Topic, CreatesTopicUnheard(k) PROVE TypeOK'
  <2>1. made' \in Seq(Topic) /\ Len(made') <= MaxThreads /\ Len(made) + 1 \in Thread
    BY <1>8, Creating DEF CreatesTopicUnheard
  <2>2. count' \in [Event -> Nat] /\ quiet' = FALSE  BY <1>8, Faulty DEF CreatesTopicUnheard
  <2>3. QED  BY <1>8, <2>1, <2>2 DEF CreatesTopicUnheard, TypeOK
<1>9. CASE Commits  BY <1>9, CommittedType DEF Commits, TypeOK
<1>10. CASE CommitsUnheard  BY <1>10, CommittedType, Faulty DEF CommitsUnheard, TypeOK
<1>11. CASE Breaks
  <2>1. count' \in [Event -> Nat] /\ quiet' = FALSE  BY <1>11, Faulty DEF Breaks
  <2>2. fresh' \in [Topic -> 0..MaxThreads]  BY <1>11, SetupAssumption DEF Breaks, None
  <2>3. astray' \subseteq Thread
    <3>1. \A k \in Topic : fresh[k] # 0 => fresh[k] \in Thread
      BY SetupAssumption DEF TypeOK, Thread
    <3>2. QED  BY <1>11, <3>1 DEF Breaks, TypeOK
  <2>4. strays' \subseteq Message
    BY <1>11, InHand DEF Breaks, TypeOK
  <2>5. QED  BY <1>11, <2>1, <2>2, <2>3, <2>4 DEF Breaks, TypeOK
<1>12. CASE Lists  BY <1>12 DEF Lists, TypeOK
<1>13. ASSUME NEW n \in 1..Len(Slots), KeepsMessage(n) PROVE TypeOK'
  BY <1>13 DEF KeepsMessage, NextSlot, TypeOK
<1>14. ASSUME NEW n \in 1..Len(Slots), Posted(n)
       PROVE  /\ mail' \in Seq(Mail) /\ Len(mail') <= MaxMessages
              /\ Len(mail) + 1 \in Message
  BY <1>14, HomeType, Sending DEF Posted
<1>15. ASSUME NEW n \in 1..Len(Slots), SendsMessage(n) PROVE TypeOK'
  <2>1. note' \in [Writer -> 0..MaxMessages]
    BY <1>14, <1>15, Noting DEF SendsMessage, Writer
  <2>2. QED  BY <1>14, <1>15, <2>1 DEF SendsMessage, TypeOK
<1>16. ASSUME NEW n \in 1..Len(Slots), ReplacesMessage(n) PROVE TypeOK'
  <2>1. note' \in [Writer -> 0..MaxMessages]
    BY <1>14, <1>16, Noting DEF ReplacesMessage, Writer
  <2>2. Stored(n) \in Message
    BY <1>16, SlotType, SetupAssumption
    DEF ReplacesMessage, Editable, Stored, TypeOK, Messages, Message
  <2>3. count' \in [Event -> Nat] /\ quiet' = FALSE  BY <1>16, Faulty DEF ReplacesMessage
  <2>4. QED  BY <1>14, <1>16, <2>1, <2>2, <2>3 DEF ReplacesMessage, TypeOK
<1>17. ASSUME NEW n \in 1..Len(Slots), SkipsMessage(n) PROVE TypeOK'
  <2>1. /\ mail' \in Seq(Mail) /\ Len(mail') <= MaxMessages /\ strays' \subseteq Message
        /\ count' \in [Event -> Nat] /\ quiet' \in BOOLEAN
    BY <1>14, <1>17, Faulty DEF SkipsMessage, TypeOK
  <2>2. QED  BY <1>17, <2>1 DEF SkipsMessage, NextSlot, TypeOK
<1>18. ASSUME NEW n \in 1..Len(Slots), StoresMessage(n) PROVE TypeOK'
  <2>1. message' \in [Topic -> Messages]
    BY <1>18, SlotType DEF StoresMessage, TypeOK, Messages, Writer
  <2>2. QED  BY <1>18, <2>1 DEF StoresMessage, NextSlot, TypeOK
<1>19. CASE LosesMessage
  <2>1. count' \in [Event -> Nat] /\ quiet' = FALSE  BY <1>19, Faulty DEF LosesMessage
  <2>2. strays' \subseteq Message  BY <1>19, InHand DEF LosesMessage, TypeOK
  <2>3. at' = "slot" /\ index' \in Nat  BY <1>19 DEF LosesMessage, NextSlot, TypeOK
  <2>4. QED  BY <1>19, <2>1, <2>2, <2>3 DEF LosesMessage, TypeOK
<1>20. CASE Ends  BY <1>20 DEF Ends, TypeOK
<1>21. ASSUME NEW r \in Refresher, Reads(r) PROVE TypeOK'
  <2>1. count' \in [Event -> Nat]  BY <1>21, Counting DEF Reads, Event
  <2>2. aim' \in [Refresher -> [thread : 0..MaxThreads, intro : 0..MaxMessages]]
    BY <1>21, BoardType DEF Reads, TypeOK, Messages, Kind
  <2>3. stage' \in [Refresher -> {"off", "read", "store"}]  BY <1>21 DEF Reads, TypeOK
  <2>4. QED  BY <1>21, <2>1, <2>2, <2>3 DEF Reads, RefreshUnchanged, TypeOK
<1>22. ASSUME NEW r \in Refresher, GoesOff(r) PROVE TypeOK'
  BY <1>22 DEF GoesOff, RefreshUnchanged, TypeOK
<1>23. ASSUME NEW r \in Refresher, SendsBoard(r) PROVE TypeOK'
  <2>1. aim[r].thread \in Thread /\ "intro" \in Kind
    BY <1>23, SetupAssumption DEF SendsBoard, Live, TypeOK, Thread, Kind
  <2>2. /\ mail' \in Seq(Mail) /\ Len(mail') <= MaxMessages /\ Len(mail) + 1 \in Message
    BY <1>23, <2>1, Sending DEF SendsBoard
  <2>3. note' \in [Writer -> 0..MaxMessages]
    BY <1>23, <2>2, Noting DEF SendsBoard, Writer
  <2>4. QED  BY <1>23, <2>2, <2>3 DEF SendsBoard, RefreshUnchanged, TypeOK
<1>24. ASSUME NEW r \in Refresher, StoresBoard(r) PROVE TypeOK'
  <2>1. note[r] \in 0..MaxMessages  BY DEF TypeOK, Writer
  <2>2. message' \in [Topic -> Messages]
    BY <1>24, <2>1 DEF StoresBoard, TypeOK, Messages
  <2>3. QED  BY <1>24, <2>2 DEF StoresBoard, RefreshUnchanged, TypeOK
<1>25. ASSUME NEW r \in Refresher, LosesBoard(r) PROVE TypeOK'
  <2>1. count' \in [Event -> Nat] /\ quiet' = FALSE  BY <1>25, Faulty DEF LosesBoard
  <2>2. dead' \subseteq Message /\ strays' \subseteq Message
    BY <1>25, InHand DEF LosesBoard, TypeOK
  <2>3. QED  BY <1>25, <2>1, <2>2 DEF LosesBoard, RefreshUnchanged, TypeOK
<1>26. CASE UNCHANGED vars  BY <1>26 DEF vars, TypeOK
<1>27. QED
  BY <1>1, <1>2, <1>3, <1>4, <1>5, <1>6, <1>7, <1>8, <1>9, <1>10, <1>11, <1>12, <1>13, <1>15,
     <1>16, <1>17, <1>18, <1>19, <1>20, <1>21, <1>22, <1>23, <1>24, <1>25, <1>26
  DEF Next, SetupStep, RefreshStep

-----------------------------------------------------------------------------
(* The bindings and the threads.                                           *)

LEMMA TopicsUndisturbed ==
    ASSUME Topics, UNCHANGED <<made, thread, fresh>>,
           gone \subseteq gone', astray \subseteq astray',
           \A k \in Topic : fresh[k] # 0 => at' = "commit" \/ (at' = "topic" /\ k < index')
    PROVE  Topics'
<1>1. Placed'  BY DEF Topics, Placed
<1>2. Opened'  BY DEF Topics, Opened, Live
<1>3. TopicsKept'  BY DEF Topics, TopicsKept, Live
<1>4. QED  BY <1>1, <1>2, <1>3 DEF Topics

\* A topic that is created joins the open transaction or is known to be astray.
LEMMA TopicsByCreation ==
    ASSUME IInv, NEW k \in Topic, AtTopic(k), Missing(k), Len(made) < MaxThreads,
           made' = Append(made, k), UNCHANGED <<thread, gone>>,
           \/ fresh' = [fresh EXCEPT ![k] = Len(made) + 1] /\ NextTopic /\ astray' = astray
           \/ UNCHANGED <<fresh, at, index>> /\ astray' = astray \cup {Len(made) + 1}
    PROVE  Topics'
<1>1. /\ Len(made') = Len(made) + 1 /\ Len(made) \in Nat
      /\ \A t \in 1..Len(made) : made'[t] = made[t]
      /\ made'[Len(made) + 1] = k
  BY Creating DEF IInv
<1>2. fresh[k] = 0 /\ fresh \in [Topic -> 0..MaxThreads] /\ index = k /\ k \in Nat
  BY SetupAssumption DEF IInv, TypeOK, Topics, Opened, AtTopic, Topic
<1>3. \A j \in Topic : j # k => fresh'[j] = fresh[j]  BY <1>2
<1>4. Placed'  BY <1>1 DEF IInv, Topics, Placed
<1>5. ASSUME NEW j \in Topic, fresh'[j] # 0
      PROVE  /\ fresh'[j] \in 1..Len(made') /\ made'[fresh'[j]] = j /\ ~Live(thread[j])
             /\ at' = "commit" \/ (at' = "topic" /\ j < index')
  <2>1. CASE j = k
    <3>1. fresh' = [fresh EXCEPT ![k] = Len(made) + 1] /\ NextTopic  BY <1>2, <1>5, <2>1
    <3>2. fresh'[j] = Len(made) + 1  BY <1>2, <2>1, <3>1
    <3>3. at' = "commit" \/ (at' = "topic" /\ j < index')
      BY <1>2, <2>1, <3>1 DEF NextTopic
    <3>4. QED  BY <1>1, <2>1, <3>2, <3>3 DEF Missing
  <2>2. CASE j # k
    <3>1. fresh[j] # 0 /\ fresh'[j] = fresh[j]  BY <1>3, <1>5, <2>2
    <3>2. /\ fresh[j] \in 1..Len(made) /\ made[fresh[j]] = j /\ ~Live(thread[j])
          /\ at = "commit" \/ (at = "topic" /\ j < index)
      BY <3>1 DEF IInv, Topics, Opened
    <3>3. at' = "commit" \/ (at' = "topic" /\ j < index')
      BY <1>2, <3>2, SetupAssumption DEF NextTopic, AtTopic, Topic
    <3>4. QED  BY <1>1, <3>1, <3>2, <3>3
  <2>3. QED  BY <2>1, <2>2
<1>6. Opened'  BY <1>5 DEF Opened, Live
<1>7. TopicsKept'
  <2>1. ASSUME NEW t \in 1..Len(made'), Live(t)
        PROVE  thread[made'[t]] = t \/ fresh'[made'[t]] = t \/ t \in astray'
    <3>1. CASE t = Len(made) + 1  BY <1>1, <1>2, <3>1
    <3>2. CASE t \in 1..Len(made)
      <4>1. made'[t] = made[t] /\ made[t] \in Topic /\ t # 0
        BY <1>1, <3>2, ElementOfSeq DEF IInv, TypeOK
      <4>2. thread[made[t]] = t \/ fresh[made[t]] = t \/ t \in astray
        BY <2>1, <3>2 DEF IInv, Topics, TopicsKept
      <4>3. fresh[made[t]] = t => fresh'[made[t]] = t  BY <1>2, <1>3, <4>1
      <4>4. QED  BY <4>1, <4>2, <4>3
    <3>3. QED  BY <1>1, <3>1, <3>2
  <2>2. QED  BY <2>1 DEF TopicsKept, Live
<1>8. QED  BY <1>4, <1>6, <1>7 DEF Topics

\* What a commit makes of the rows.
LEMMA CommittedRows ==
    ASSUME IInv, Committed
    PROVE  \A k \in Topic :
              /\ fresh'[k] = 0
              /\ fresh[k] = 0 => thread'[k] = thread[k] /\ message'[k] = message[k]
              /\ fresh[k] # 0 => thread'[k] = fresh[k] /\ message'[k] = NoMessages
                                 /\ ~Live(thread[k])
  BY DEF Committed, Bound, MessagesReset, None, IInv, Topics, Opened

LEMMA TopicsByCommit ==
    ASSUME IInv, Committed, UNCHANGED <<made, gone, astray>> PROVE Topics'
<1>1. Placed'  BY CommittedRows DEF IInv, Topics, Placed, Opened
<1>2. Opened'  BY CommittedRows DEF Opened
<1>3. TopicsKept'
  <2>1. ASSUME NEW t \in 1..Len(made), Live(t) PROVE thread'[made[t]] = t \/ t \in astray
    <3>1. made[t] \in Topic  BY ElementOfSeq DEF IInv, TypeOK
    <3>2. thread[made[t]] = t \/ fresh[made[t]] = t \/ t \in astray
      BY <2>1 DEF IInv, Topics, TopicsKept
    <3>3. t # 0  BY <2>1 DEF Live
    <3>4. QED  BY <2>1, <3>1, <3>2, <3>3, CommittedRows
  <2>2. QED  BY <2>1 DEF TopicsKept, Live
<1>4. QED  BY <1>1, <1>2, <1>3 DEF Topics

LEMMA TopicsByBreak ==
    ASSUME IInv, Breaks PROVE Topics'
<1>1. /\ UNCHANGED <<made, gone, thread>> /\ fresh' = None
      /\ astray' = astray \cup {fresh[k] : k \in {t \in Topic : fresh[t] # 0}}
  BY DEF Breaks, forum, rows
<1>2. Placed'  BY <1>1 DEF IInv, Topics, Placed
<1>3. Opened'  BY <1>1 DEF Opened, None
<1>4. TopicsKept'
  <2>1. ASSUME NEW t \in 1..Len(made), Live(t) PROVE thread[made[t]] = t \/ t \in astray'
    <3>1. made[t] \in Topic /\ t # 0  BY <2>1, ElementOfSeq DEF IInv, TypeOK, Live
    <3>2. thread[made[t]] = t \/ fresh[made[t]] = t \/ t \in astray
      BY <2>1 DEF IInv, Topics, TopicsKept
    <3>3. QED  BY <1>1, <3>1, <3>2
  <2>2. QED  BY <1>1, <2>1 DEF TopicsKept, Live
<1>5. QED  BY <1>2, <1>3, <1>4 DEF Topics

\* Outside the transaction no thread is held by it.
LEMMA NoneOpen ==
    ASSUME IInv, at \notin {"topic", "commit"} PROVE fresh = None /\ \A k \in Topic : fresh[k] = 0
<1>1. \A k \in Topic : fresh[k] = 0  BY DEF IInv, Topics, Opened
<1>2. fresh \in [Topic -> 0..MaxThreads]  BY DEF IInv, TypeOK
<1>3. QED  BY <1>1, <1>2 DEF None

LEMMA TopicsStep == IInv /\ [Next]_vars => Topics'
<1> SUFFICES ASSUME IInv, Topics, [Next]_vars PROVE Topics'  BY DEF IInv
<1> USE DEF forum, rows, setup
<1>1. ASSUME NEW t \in Thread, DeletesTopic(t) PROVE Topics'
  <2>1. /\ UNCHANGED <<made, thread, fresh, astray, at, index>> /\ gone \subseteq gone'
    BY <1>1 DEF DeletesTopic
  <2>2. QED  BY <2>1, TopicsUndisturbed DEF Topics, Opened
<1>2. ASSUME UNCHANGED <<made, gone, thread, fresh, astray>>,
             at \notin {"topic", "commit"} \/ UNCHANGED <<at, index>>
      PROVE  Topics'
  <2>1. \A k \in Topic : fresh[k] # 0 => at' = "commit" \/ (at' = "topic" /\ k < index')
    BY <1>2, NoneOpen DEF Topics, Opened
  <2>2. QED  BY <1>2, <2>1, TopicsUndisturbed
<1>3. ASSUME NEW k \in Topic, KeepsTopic(k) PROVE Topics'
  <2>1. UNCHANGED <<made, gone, thread, fresh, astray>>  BY <1>3 DEF KeepsTopic
  <2>2. ASSUME NEW j \in Topic, fresh[j] # 0 PROVE at' = "commit" \/ (at' = "topic" /\ j < index')
    <3>1. at = "topic" /\ index = k /\ NextTopic  BY <1>3 DEF KeepsTopic, AtTopic
    <3>2. j < k /\ j \in Nat /\ k \in Nat
      BY <2>2, <3>1, SetupAssumption DEF Topics, Opened, Topic
    <3>3. QED  BY <3>1, <3>2 DEF NextTopic
  <2>3. QED  BY <2>1, <2>2, TopicsUndisturbed
<1>4. ASSUME NEW k \in Topic, CreatesTopic(k) PROVE Topics'
  BY <1>4, TopicsByCreation DEF CreatesTopic
<1>5. ASSUME NEW k \in Topic, CreatesTopicUnheard(k) PROVE Topics'
  BY <1>5, TopicsByCreation DEF CreatesTopicUnheard
<1>6. CASE Commits \/ CommitsUnheard  BY <1>6, TopicsByCommit DEF Commits, CommitsUnheard
<1>7. CASE Breaks  BY <1>7, TopicsByBreak
<1>8. ASSUME NEW m \in Message, DeletesMessage(m) PROVE Topics'
  BY <1>2, <1>8 DEF DeletesMessage
<1>9. CASE Presses \/ Refused \/ TransactionBegins \/ Lists \/ LosesMessage \/ Ends
  BY <1>2, <1>9 DEF Presses, Refused, TransactionBegins, Lists, LosesMessage, Ends
<1>10. ASSUME NEW n \in 1..Len(Slots),
              KeepsMessage(n) \/ SendsMessage(n) \/ ReplacesMessage(n) \/ SkipsMessage(n)
              \/ StoresMessage(n)
       PROVE  Topics'
  BY <1>2, <1>10
  DEF KeepsMessage, SendsMessage, ReplacesMessage, SkipsMessage, StoresMessage, AtSlot
<1>11. ASSUME NEW r \in Refresher, RefreshStep(r) PROVE Topics'
  <2>1. UNCHANGED <<made, gone, thread, fresh, astray, at, index>>
    BY <1>11 DEF RefreshStep, Reads, GoesOff, SendsBoard, StoresBoard, LosesBoard,
                 RefreshUnchanged
  <2>2. QED  BY <1>2, <2>1
<1>12. CASE UNCHANGED vars  BY <1>2, <1>12 DEF vars
<1>13. QED
  BY <1>1, <1>3, <1>4, <1>5, <1>6, <1>7, <1>8, <1>9, <1>10, <1>11, <1>12
  DEF Next, SetupStep

-----------------------------------------------------------------------------
(* The messages and the rows.                                              *)

\* Topics and messages may be added and lost; the rows stay, and whoever has a control
\* message in hand keeps it or leaves it behind.
LEMMA MailsGrow ==
    ASSUME IInv, UNCHANGED <<thread, message>>,
           Len(made) \in Nat, Len(made') \in Nat, Len(made) <= Len(made'),
           \A t \in 1..Len(made) : made'[t] = made[t],
           Len(mail) \in Nat, Len(mail') \in Nat, Len(mail) <= Len(mail'),
           \A m \in 1..Len(mail) : mail'[m] = mail[m],
           gone \subseteq gone', dead \subseteq dead', strays \subseteq strays',
           \A m \in 1..Len(mail') : m > Len(mail) =>
              /\ mail'[m].home \in 1..Len(made)
              /\ mail'[m].kind = "control" =>
                    (at' = "store" /\ note'["setup"] = m) \/ m \in strays',
           at = "store" => (at' = "store" /\ note'["setup"] = note["setup"])
                           \/ note["setup"] \in strays'
    PROVE  Mails'
<1>1. ASSUME NEW m \in 1..Len(mail)
      PROVE  /\ mail'[m] = mail[m] /\ mail[m].home \in 1..Len(made)
             /\ made'[mail[m].home] = made[mail[m].home] /\ m \in 1..Len(mail')
  BY <1>1 DEF IInv, Mails, Written
<1>2. Written'
  <2>1. ASSUME NEW m \in 1..Len(mail') PROVE mail'[m].home \in 1..Len(made')
    <3>1. CASE m \in 1..Len(mail)  BY <1>1, <3>1
    <3>2. CASE m > Len(mail)  BY <3>2
    <3>3. QED  BY <3>1, <3>2
  <2>2. QED  BY <2>1 DEF Written
<1>3. Linked'  BY <1>1 DEF IInv, Mails, Linked
<1>4. MessagesInTopic'
  <2>1. ASSUME NEW k \in Topic, NEW kind \in Kind, message[k][kind] # 0
        PROVE  \/ mail'[message[k][kind]].home = thread[k]
               \/ k = Board /\ kind = "intro" /\ mail'[message[k][kind]].home \in gone'
    <3>1. message[k][kind] \in 1..Len(mail)  BY <2>1 DEF IInv, Mails, Linked
    <3>2. mail'[message[k][kind]] = mail[message[k][kind]]  BY <1>1, <3>1
    <3>3. QED  BY <2>1, <3>2 DEF IInv, Mails, MessagesInTopic
  <2>2. QED  BY <2>1 DEF MessagesInTopic
<1>5. ControlsKept'
  <2>1. ASSUME NEW m \in 1..Len(mail'), Alive(m)', mail'[m].kind = "control"
        PROVE  \/ message[made'[mail'[m].home]]["control"] = m
               \/ at' = "store" /\ note'["setup"] = m
               \/ m \in strays'
    <3>1. CASE m \in 1..Len(mail)
      <4>1. Alive(m) /\ mail[m].kind = "control"  BY <1>1, <2>1, <3>1 DEF Alive
      <4>2. \/ message[made[mail[m].home]]["control"] = m
            \/ at = "store" /\ note["setup"] = m
            \/ m \in strays
        BY <3>1, <4>1 DEF IInv, Mails, ControlsKept
      <4>3. QED  BY <1>1, <3>1, <4>2
    <3>2. CASE m > Len(mail)  BY <2>1, <3>2
    <3>3. QED  BY <3>1, <3>2
  <2>2. QED  BY <2>1 DEF ControlsKept
<1>6. QED  BY <1>2, <1>3, <1>4, <1>5 DEF Mails

LEMMA Lengths == ASSUME IInv PROVE Len(made) \in Nat /\ Len(mail) \in Nat
  BY LenProperties DEF IInv, TypeOK

\* Nothing is sent or created.
LEMMA MailsUndisturbed ==
    ASSUME IInv, UNCHANGED <<made, mail, thread, message>>,
           gone \subseteq gone', dead \subseteq dead', strays \subseteq strays',
           at = "store" => (at' = "store" /\ note'["setup"] = note["setup"])
                           \/ note["setup"] \in strays'
    PROVE  Mails'
<1>1. Len(made) \in Nat /\ Len(mail) \in Nat  BY Lengths
<1>2. \A m \in 1..Len(mail') : ~(m > Len(mail))  BY <1>1
<1>3. QED  BY <1>1, <1>2, MailsGrow

LEMMA MailsByCommit ==
    ASSUME IInv, at = "commit", Committed, UNCHANGED <<made, gone, mail, dead, strays>>
    PROVE  Mails'
<1>1. Written'  BY DEF IInv, Mails, Written
<1>2. Linked'  BY CommittedRows DEF IInv, Mails, Linked, NoMessages
<1>3. MessagesInTopic'
  <2>1. ASSUME NEW k \in Topic, NEW kind \in Kind, message'[k][kind] # 0
        PROVE  \/ mail[message'[k][kind]].home = thread'[k]
               \/ k = Board /\ kind = "intro" /\ mail[message'[k][kind]].home \in gone
    <3>1. fresh[k] = 0  BY <2>1, CommittedRows DEF NoMessages
    <3>2. thread'[k] = thread[k] /\ message'[k] = message[k]  BY <3>1, CommittedRows
    <3>3. QED  BY <2>1, <3>2 DEF IInv, Mails, MessagesInTopic
  <2>2. QED  BY <2>1 DEF MessagesInTopic
<1>4. ControlsKept'
  <2>1. ASSUME NEW m \in 1..Len(mail), Alive(m), mail[m].kind = "control"
        PROVE  message'[made[mail[m].home]]["control"] = m \/ m \in strays
    <3>1. mail[m].home \in 1..Len(made)  BY DEF IInv, Mails, Written
    <3>2. PICK k \in Topic : k = made[mail[m].home]
      BY <3>1, ElementOfSeq DEF IInv, TypeOK
    <3>3. message[k]["control"] = m \/ m \in strays
      BY <2>1, <3>2 DEF IInv, Mails, ControlsKept
    <3>4. CASE message[k]["control"] = m
      <4>1. m # 0 /\ mail[m].home \notin gone  BY <2>1 DEF Alive
      <4>2. "control" \in Kind /\ "control" # "intro"  BY DEF Kind
      <4>3. mail[m].home = thread[k]
        BY <3>4, <4>1, <4>2 DEF IInv, Mails, MessagesInTopic
      <4>4. Live(thread[k])  BY <3>1, <4>1, <4>3 DEF Live
      <4>5. QED  BY <3>2, <3>4, <4>4, CommittedRows
    <3>5. QED  BY <3>3, <3>4
  <2>2. QED  BY <2>1 DEF ControlsKept, Alive
<1>5. QED  BY <1>1, <1>2, <1>3, <1>4 DEF Mails

LEMMA MailsByStoring ==
    ASSUME IInv, NEW n \in 1..Len(Slots), StoresMessage(n) PROVE Mails'
<1> DEFINE k == Slots[n].topic
<1> DEFINE slotKind == Slots[n].kind
<1> DEFINE m == note["setup"]
<1>1. /\ k \in Topic /\ slotKind \in Kind /\ at = "store" /\ index = n
      /\ message' = [message EXCEPT ![k][slotKind] = m]
      /\ UNCHANGED <<made, gone, mail, dead, thread, strays>>
      /\ message \in [Topic -> Messages]
  BY SlotType DEF StoresMessage, forum, IInv, TypeOK
<1>2. m \in 1..Len(mail) /\ mail[m].home = thread[k] /\ mail[m].kind = slotKind
  BY <1>1 DEF IInv, Writes, Noted
<1>3. message'[k][slotKind] = m  BY <1>1 DEF Messages
<1>4. \A j \in Topic : \A kind \in Kind :
         j # k \/ kind # slotKind => message'[j][kind] = message[j][kind]
  BY <1>1 DEF Messages
<1> HIDE DEF k, slotKind, m
<1>5. Written'  BY <1>1 DEF IInv, Mails, Written
<1>6. Linked'
  <2>1. ASSUME NEW j \in Topic, NEW kind \in Kind, message'[j][kind] # 0
        PROVE  message'[j][kind] \in 1..Len(mail)
    <3>1. CASE j = k /\ kind = slotKind  BY <1>2, <1>3, <3>1
    <3>2. CASE j # k \/ kind # slotKind  BY <1>4, <2>1, <3>2 DEF IInv, Mails, Linked
    <3>3. QED  BY <3>1, <3>2
  <2>2. QED  BY <1>1, <2>1 DEF Linked
<1>7. MessagesInTopic'
  <2>1. ASSUME NEW j \in Topic, NEW kind \in Kind, message'[j][kind] # 0
        PROVE  \/ mail[message'[j][kind]].home = thread[j]
               \/ j = Board /\ kind = "intro" /\ mail[message'[j][kind]].home \in gone
    <3>1. CASE j = k /\ kind = slotKind  BY <1>2, <1>3, <3>1
    <3>2. CASE j # k \/ kind # slotKind  BY <1>4, <2>1, <3>2 DEF IInv, Mails, MessagesInTopic
    <3>3. QED  BY <3>1, <3>2
  <2>2. QED  BY <1>1, <2>1 DEF MessagesInTopic
<1>8. ControlsKept'
  <2>1. ASSUME NEW c \in 1..Len(mail), Alive(c), mail[c].kind = "control"
        PROVE  message'[made[mail[c].home]]["control"] = c \/ c \in strays
    <3>1. mail[c].home \in 1..Len(made)  BY DEF IInv, Mails, Written
    <3>2. PICK j \in Topic : j = made[mail[c].home]
      BY <3>1, ElementOfSeq DEF IInv, TypeOK
    <3>3. message[j]["control"] = c \/ c = m \/ c \in strays
      BY <2>1, <3>2 DEF IInv, Mails, ControlsKept, m
    <3>4. CASE c = m
      <4>1. thread[k] # 0 /\ made[thread[k]] = k
        BY <1>1, <1>2, <3>1, <3>4 DEF IInv, Topics, Placed
      <4>2. j = k /\ slotKind = "control"  BY <1>2, <2>1, <3>2, <3>4, <4>1
      <4>3. QED  BY <1>3, <3>2, <3>4, <4>2
    <3>5. CASE message[j]["control"] = c
      <4>1. CASE j = k /\ slotKind = "control"
        <5>1. c = 0 \/ ~Alive(c) \/ c \in strays
          BY <1>1, <3>5, <4>1 DEF IInv, Writes, Replaced, Used, k, slotKind
        <5>2. QED  BY <2>1, <5>1 DEF Alive
      <4>2. CASE j # k \/ slotKind # "control"  BY <1>4, <3>2, <3>5, <4>2 DEF Kind
      <4>3. QED  BY <4>1, <4>2
    <3>6. QED  BY <3>3, <3>4, <3>5
  <2>2. QED  BY <1>1, <2>1 DEF ControlsKept, Alive
<1>9. QED  BY <1>5, <1>6, <1>7, <1>8 DEF Mails

LEMMA MailsByBoard ==
    ASSUME IInv, NEW r \in Refresher, StoresBoard(r) PROVE Mails'
<1> DEFINE m == note[r]
<1>1. /\ stage[r] = "store" /\ message' = [message EXCEPT ![Board]["intro"] = m]
      /\ UNCHANGED <<made, gone, mail, dead, thread, strays, at, note>>
      /\ message \in [Topic -> Messages] /\ Board \in Topic /\ "intro" \in Kind
  BY BoardType DEF StoresBoard, RefreshUnchanged, setup, IInv, TypeOK, Kind
<1>2. m \in 1..Len(mail) /\ (mail[m].home = thread[Board] \/ mail[m].home \in gone)
  BY <1>1 DEF IInv, Refreshes, Held, Aimed
<1>3. message'[Board]["intro"] = m  BY <1>1 DEF Messages
<1>4. \A j \in Topic : \A kind \in Kind :
         j # Board \/ kind # "intro" => message'[j][kind] = message[j][kind]
  BY <1>1 DEF Messages
<1> HIDE DEF m
<1>5. Written'  BY <1>1 DEF IInv, Mails, Written
<1>6. Linked'
  <2>1. ASSUME NEW j \in Topic, NEW kind \in Kind, message'[j][kind] # 0
        PROVE  message'[j][kind] \in 1..Len(mail)
    <3>1. CASE j = Board /\ kind = "intro"  BY <1>2, <1>3, <3>1
    <3>2. CASE j # Board \/ kind # "intro"  BY <1>4, <2>1, <3>2 DEF IInv, Mails, Linked
    <3>3. QED  BY <3>1, <3>2
  <2>2. QED  BY <1>1, <2>1 DEF Linked
<1>7. MessagesInTopic'
  <2>1. ASSUME NEW j \in Topic, NEW kind \in Kind, message'[j][kind] # 0
        PROVE  \/ mail[message'[j][kind]].home = thread[j]
               \/ j = Board /\ kind = "intro" /\ mail[message'[j][kind]].home \in gone
    <3>1. CASE j = Board /\ kind = "intro"  BY <1>2, <1>3, <3>1
    <3>2. CASE j # Board \/ kind # "intro"
      BY <1>4, <2>1, <3>2 DEF IInv, Mails, MessagesInTopic
    <3>3. QED  BY <3>1, <3>2
  <2>2. QED  BY <1>1, <2>1 DEF MessagesInTopic
<1>8. ControlsKept'
  <2>1. ASSUME NEW c \in 1..Len(mail), Alive(c), mail[c].kind = "control"
        PROVE  message'[made[mail[c].home]]["control"] = message[made[mail[c].home]]["control"]
    <3>1. mail[c].home \in 1..Len(made)  BY DEF IInv, Mails, Written
    <3>2. made[mail[c].home] \in Topic  BY <3>1, ElementOfSeq DEF IInv, TypeOK
    <3>3. QED  BY <1>4, <3>2 DEF Kind
  <2>2. QED  BY <1>1, <2>1 DEF IInv, Mails, ControlsKept, Alive
<1>9. QED  BY <1>5, <1>6, <1>7, <1>8 DEF Mails

\* A message sent by setup, which is in hand or left behind.
LEMMA MailsByPost ==
    ASSUME IInv, NEW n \in 1..Len(Slots), Posted(n), at = "slot",
           UNCHANGED <<made, gone, dead, thread, message>>, strays \subseteq strays',
           (at' = "store" /\ note'["setup"] = Len(mail) + 1) \/ Len(mail) + 1 \in strays'
    PROVE  Mails'
<1>1. /\ Len(mail') = Len(mail) + 1 /\ Len(mail) \in Nat /\ Len(made) \in Nat
      /\ \A m \in 1..Len(mail) : mail'[m] = mail[m]
      /\ mail'[Len(mail) + 1].home = Home(n)
  BY HomeType, Sending, Lengths DEF Posted, IInv
<1>2. Home(n) \in 1..Len(made)
  BY SlotType DEF Posted, Home, Live, IInv, Topics, Placed
<1>3. \A m \in 1..Len(mail') : m > Len(mail) => m = Len(mail) + 1  BY <1>1
<1>4. QED  BY <1>1, <1>2, <1>3, MailsGrow

LEMMA MailsStep == IInv /\ [Next]_vars => Mails'
<1> SUFFICES ASSUME IInv, [Next]_vars PROVE Mails'  OBVIOUS
<1> USE DEF forum, rows, setup
<1>1. CASE (\E t \in Thread : DeletesTopic(t)) \/ (\E m \in Message : DeletesMessage(m))
  BY <1>1, MailsUndisturbed DEF DeletesTopic, DeletesMessage
<1>2. CASE Presses \/ Refused \/ TransactionBegins \/ Lists \/ Ends
  BY <1>2, MailsUndisturbed DEF Presses, Refused, TransactionBegins, Lists, Ends
<1>3. CASE LosesMessage \/ Breaks
  BY <1>3, MailsUndisturbed DEF LosesMessage, Breaks
<1>4. ASSUME NEW k \in Topic, KeepsTopic(k) PROVE Mails'
  BY <1>4, MailsUndisturbed DEF KeepsTopic, AtTopic
<1>5. ASSUME NEW k \in Topic, CreatesTopic(k) \/ CreatesTopicUnheard(k) PROVE Mails'
  <2>1. /\ Len(made) < MaxThreads /\ made' = Append(made, k) /\ at = "topic"
        /\ UNCHANGED <<mail, gone, dead, thread, message, strays>>
    BY <1>5 DEF CreatesTopic, CreatesTopicUnheard, AtTopic
  <2>2. /\ Len(made') = Len(made) + 1 /\ Len(made) \in Nat /\ Len(mail) \in Nat
        /\ \A t \in 1..Len(made) : made'[t] = made[t]
    BY <2>1, Creating, Lengths DEF IInv
  <2>3. \A m \in 1..Len(mail') : ~(m > Len(mail))  BY <2>1, <2>2
  <2>4. QED  BY <2>1, <2>2, <2>3, MailsGrow
<1>6. CASE Commits \/ CommitsUnheard  BY <1>6, MailsByCommit DEF Commits, CommitsUnheard
<1>7. ASSUME NEW n \in 1..Len(Slots), KeepsMessage(n) PROVE Mails'
  BY <1>7, MailsUndisturbed DEF KeepsMessage, AtSlot
<1>8. ASSUME NEW n \in 1..Len(Slots), SendsMessage(n) \/ ReplacesMessage(n) PROVE Mails'
  <2>1. note' = [note EXCEPT !["setup"] = Len(mail) + 1] /\ at' = "store" /\ at = "slot"
    BY <1>8 DEF SendsMessage, ReplacesMessage, AtSlot
  <2>2. note'["setup"] = Len(mail) + 1  BY <2>1 DEF IInv, TypeOK, Writer
  <2>3. QED  BY <1>8, <2>1, <2>2, MailsByPost DEF SendsMessage, ReplacesMessage
<1>9. ASSUME NEW n \in 1..Len(Slots), SkipsMessage(n) PROVE Mails'
  <2>1. at = "slot" /\ UNCHANGED <<made, gone, dead, thread, message>>
    BY <1>9 DEF SkipsMessage, AtSlot
  <2>2. CASE UNCHANGED <<mail, strays>>  BY <2>1, <2>2, MailsUndisturbed
  <2>3. CASE Posted(n) /\ strays' = strays \cup {Len(mail) + 1}
    BY <2>1, <2>3, MailsByPost
  <2>4. QED  BY <1>9, <2>2, <2>3 DEF SkipsMessage
<1>10. ASSUME NEW n \in 1..Len(Slots), StoresMessage(n) PROVE Mails'  BY <1>10, MailsByStoring
<1>11. ASSUME NEW r \in Refresher, Reads(r) \/ GoesOff(r) \/ LosesBoard(r) PROVE Mails'
  BY <1>11, MailsUndisturbed DEF Reads, GoesOff, LosesBoard, RefreshUnchanged
<1>12. ASSUME NEW r \in Refresher, SendsBoard(r) PROVE Mails'
  <2>1. /\ UNCHANGED <<made, gone, thread, message, dead, strays, at>>
        /\ Live(aim[r].thread) /\ Len(mail) < MaxMessages
        /\ mail' = Append(mail, [home |-> aim[r].thread, kind |-> "intro"])
        /\ note' = [note EXCEPT ![r] = Len(mail) + 1] /\ stage[r] = "read"
    BY <1>12 DEF SendsBoard, RefreshUnchanged
  <2>2. aim[r].thread \in Thread /\ "intro" \in Kind /\ aim[r].thread \in 1..Len(made)
    BY <2>1, SetupAssumption DEF Live, IInv, TypeOK, Thread, Kind, Refreshes, Aimed
  <2>3. /\ Len(mail') = Len(mail) + 1 /\ Len(mail) \in Nat /\ Len(made) \in Nat
        /\ \A m \in 1..Len(mail) : mail'[m] = mail[m]
        /\ mail'[Len(mail) + 1].home = aim[r].thread
        /\ mail'[Len(mail) + 1].kind = "intro"
    BY <2>1, <2>2, Sending, Lengths DEF IInv
  <2>4. note'["setup"] = note["setup"]  BY <2>1 DEF IInv, TypeOK, Writer, Refresher
  <2>5. \A m \in 1..Len(mail') : m > Len(mail) => m = Len(mail) + 1  BY <2>3
  <2>6. QED  BY <2>1, <2>2, <2>3, <2>4, <2>5, MailsGrow
<1>13. ASSUME NEW r \in Refresher, StoresBoard(r) PROVE Mails'  BY <1>13, MailsByBoard
<1>14. CASE UNCHANGED vars  BY <1>14, MailsUndisturbed DEF vars
<1>15. QED
  BY <1>1, <1>2, <1>3, <1>4, <1>5, <1>6, <1>7, <1>8, <1>9, <1>10, <1>11, <1>12, <1>13, <1>14
  DEF Next, SetupStep, RefreshStep

-----------------------------------------------------------------------------
(* What setup and the refreshes mean to write.                             *)

\* The others may send, lose and store messages, except for setup's.
LEMMA WritesUndisturbed ==
    ASSUME IInv, UNCHANGED <<thread, at, index, seen>>, note'["setup"] = note["setup"],
           \A k \in Topic : message'[k]["control"] = message[k]["control"],
           Len(mail) \in Nat, Len(mail') \in Nat, Len(mail) <= Len(mail'),
           \A m \in 1..Len(mail) : mail'[m] = mail[m],
           gone \subseteq gone', dead \subseteq dead', strays \subseteq strays'
    PROVE  Writes'
<1>1. Noted'  BY DEF IInv, Writes, Noted
<1>2. Current'  BY SlotType DEF IInv, Writes, Current
<1>3. Replaced'
  <2>1. ASSUME at = "store", Slots[index].kind = "control"
        PROVE  ~Used(message[Slots[index].topic]["control"])'
    <3>1. index \in 1..Len(Slots)  BY <2>1 DEF IInv, Writes, Noted
    <3>2. Slots[index].topic \in Topic  BY <3>1, SlotType
    <3>3. PICK m : m = message[Slots[index].topic]["control"]  OBVIOUS
    <3>4. m = message'[Slots[index].topic]["control"]  BY <3>2, <3>3
    <3>5. ~Used(m)  BY <2>1, <3>3 DEF IInv, Writes, Replaced
    <3>6. m # 0 => m \in 1..Len(mail)  BY <3>2, <3>3 DEF IInv, Mails, Linked, Kind
    <3>7. ~Used(m)'  BY <3>5, <3>6 DEF Used, Alive
    <3>8. QED  BY <3>4, <3>7
  <2>2. QED  BY <2>1 DEF Replaced
<1>4. QED  BY <1>1, <1>2, <1>3 DEF Writes

LEMMA WritesElsewhere == ASSUME at' \notin {"slot", "store"} PROVE Writes'
  BY DEF Writes, Noted, Current, Replaced

\* Setup goes on to the next slot, having stored the message of this one or not.
LEMMA WritesNext ==
    ASSUME IInv, NEW n \in 1..Len(Slots), at \in {"slot", "store"}, index = n, NextSlot,
           UNCHANGED seen,
           \/ UNCHANGED message
           \/ \E m : message' = [message EXCEPT ![Slots[n].topic][Slots[n].kind] = m]
    PROVE  Writes'
<1>1. at' = "slot" /\ index' = n + 1 /\ n \in Nat  BY DEF NextSlot
<1>2. ASSUME NEW i \in 1..Len(Slots), i >= n + 1, Slots[i].kind = "control"
      PROVE  seen[Slots[i].topic]["control"] = message'[Slots[i].topic]["control"]
  <2>1. i >= n /\ i # n /\ Slots[i].topic \in Topic /\ Slots[n].topic \in Topic
    BY <1>1, <1>2, SlotType
  <2>2. seen[Slots[i].topic]["control"] = message[Slots[i].topic]["control"]
    BY <1>2, <2>1 DEF IInv, Writes, Current
  <2>3. Slots[i].topic # Slots[n].topic \/ Slots[n].kind # "control"
    <3>1. Slots[i] # Slots[n]  BY <2>1, SetupAssumption
    <3>2. Slots[i] \in Slot /\ Slots[n] \in Slot  BY SlotType
    <3>3. QED  BY <1>2, <3>1, <3>2 DEF Slot
  <2>4. message'[Slots[i].topic]["control"] = message[Slots[i].topic]["control"]
    <3>1. message \in [Topic -> Messages]  BY DEF IInv, TypeOK
    <3>2. CASE \E m : message' = [message EXCEPT ![Slots[n].topic][Slots[n].kind] = m]
      <4>1. PICK m : message' = [message EXCEPT ![Slots[n].topic][Slots[n].kind] = m]  BY <3>2
      <4>2. message[Slots[n].topic] \in Messages /\ Slots[n].kind \in Kind
        BY <2>1, <3>1, SlotType
      <4>3. QED  BY <2>1, <2>3, <3>1, <4>1, <4>2 DEF Messages, Kind
    <3>3. QED  BY <3>2
  <2>5. QED  BY <2>2, <2>4
<1>3. Current'  BY <1>1, <1>2 DEF Current
<1>4. QED  BY <1>1, <1>3 DEF Writes, Noted, Replaced

\* Setup has sent a message: the one before it is gone, or left behind.
LEMMA WritesSent ==
    ASSUME IInv, NEW n \in 1..Len(Slots), AtSlot(n), Posted(n), at' = "store",
           UNCHANGED <<index, thread, message, seen, gone, dead>>,
           note' = [note EXCEPT !["setup"] = Len(mail) + 1],
           strays \subseteq strays', ~Editable(n) \/ Stored(n) \in strays'
    PROVE  Writes'
<1>1. /\ Len(mail') = Len(mail) + 1 /\ Len(mail) \in Nat
      /\ \A m \in 1..Len(mail) : mail'[m] = mail[m]
      /\ mail'[Len(mail) + 1].home = Home(n) /\ mail'[Len(mail) + 1].kind = Slots[n].kind
  BY HomeType, Sending, Lengths DEF Posted, IInv
<1>2. note'["setup"] = Len(mail) + 1 /\ index = n /\ at = "slot"
  BY DEF IInv, TypeOK, Writer, AtSlot
<1>3. Noted'  BY <1>1, <1>2 DEF Noted, Home
<1>4. Current'  BY <1>2 DEF IInv, Writes, Current
<1>5. Replaced'
  <2>1. ASSUME Slots[n].kind = "control"
        PROVE  ~Used(message[Slots[n].topic]["control"])'
    <3>1. PICK m : m = message[Slots[n].topic]["control"]  OBVIOUS
    <3>2. Stored(n) = m  BY <1>2, <2>1, <3>1 DEF IInv, Writes, Current, Stored
    <3>3. m = 0 \/ ~Alive(m) \/ m \in strays'  BY <3>2 DEF Editable
    <3>4. m # 0 => m \in 1..Len(mail)  BY <3>1, SlotType DEF IInv, Mails, Linked, Kind
    <3>5. ~Used(m)'  BY <1>1, <3>3, <3>4 DEF Used, Alive
    <3>6. QED  BY <3>1, <3>5
  <2>2. QED  BY <1>2, <2>1 DEF Replaced
<1>6. QED  BY <1>3, <1>4, <1>5 DEF Writes

LEMMA WritesStep == IInv /\ [Next]_vars => Writes'
<1> SUFFICES ASSUME IInv, [Next]_vars PROVE Writes'  OBVIOUS
<1> USE DEF forum, rows, setup
<1>0. Len(mail) \in Nat  BY Lengths
<1>1. CASE (\E t \in Thread : DeletesTopic(t)) \/ (\E m \in Message : DeletesMessage(m))
  BY <1>0, <1>1, WritesUndisturbed DEF DeletesTopic, DeletesMessage
<1>2. CASE Presses \/ Refused \/ TransactionBegins \/ Ends \/ Commits \/ CommitsUnheard \/ Breaks
  BY <1>2, WritesElsewhere
  DEF Presses, Refused, TransactionBegins, Ends, Commits, CommitsUnheard, Breaks
<1>3. ASSUME NEW k \in Topic, KeepsTopic(k) \/ CreatesTopic(k) \/ CreatesTopicUnheard(k)
      PROVE  Writes'
  BY <1>3, WritesElsewhere
  DEF KeepsTopic, CreatesTopic, CreatesTopicUnheard, AtTopic, NextTopic
<1>4. CASE Lists  BY <1>4 DEF Lists, Writes, Noted, Current, Replaced
<1>5. ASSUME NEW n \in 1..Len(Slots), KeepsMessage(n) \/ SkipsMessage(n) PROVE Writes'
  BY <1>5, WritesNext DEF KeepsMessage, SkipsMessage, AtSlot
<1>6. ASSUME NEW n \in 1..Len(Slots), SendsMessage(n) PROVE Writes'
  BY <1>6, WritesSent DEF SendsMessage
<1>7. ASSUME NEW n \in 1..Len(Slots), ReplacesMessage(n) PROVE Writes'
  BY <1>7, WritesSent DEF ReplacesMessage
<1>8. ASSUME NEW n \in 1..Len(Slots), StoresMessage(n) PROVE Writes'
  <2>1. /\ at = "store" /\ index = n /\ NextSlot /\ UNCHANGED seen
        /\ \E m : message' = [message EXCEPT ![Slots[n].topic][Slots[n].kind] = m]
    BY <1>8 DEF StoresMessage
  <2>2. QED  BY <2>1, WritesNext
<1>9. CASE LosesMessage
  <2>1. index \in 1..Len(Slots)  BY <1>9 DEF LosesMessage, IInv, Writes, Noted
  <2>2. QED  BY <1>9, <2>1, WritesNext DEF LosesMessage
<1>10. ASSUME NEW r \in Refresher, Reads(r) \/ GoesOff(r) \/ LosesBoard(r) PROVE Writes'
  BY <1>0, <1>10, WritesUndisturbed DEF Reads, GoesOff, LosesBoard, RefreshUnchanged
<1>11. ASSUME NEW r \in Refresher, SendsBoard(r) PROVE Writes'
  <2>1. /\ UNCHANGED <<gone, thread, message, dead, strays, at, index, seen>>
        /\ Live(aim[r].thread) /\ Len(mail) < MaxMessages
        /\ mail' = Append(mail, [home |-> aim[r].thread, kind |-> "intro"])
        /\ note' = [note EXCEPT ![r] = Len(mail) + 1]
    BY <1>11 DEF SendsBoard, RefreshUnchanged
  <2>2. aim[r].thread \in Thread /\ "intro" \in Kind
    BY <2>1, SetupAssumption DEF Live, IInv, TypeOK, Thread, Kind
  <2>3. /\ Len(mail') = Len(mail) + 1
        /\ \A m \in 1..Len(mail) : mail'[m] = mail[m]
    BY <2>1, <2>2, Sending DEF IInv
  <2>4. note'["setup"] = note["setup"]  BY <2>1 DEF IInv, TypeOK, Writer, Refresher
  <2>5. QED  BY <1>0, <2>1, <2>3, <2>4, WritesUndisturbed
<1>12. ASSUME NEW r \in Refresher, StoresBoard(r) PROVE Writes'
  <2>1. /\ message' = [message EXCEPT ![Board]["intro"] = note[r]]
        /\ UNCHANGED <<gone, mail, dead, thread, strays, at, index, seen, note>>
        /\ message \in [Topic -> Messages]
    BY <1>12 DEF StoresBoard, RefreshUnchanged, IInv, TypeOK
  <2>2. \A k \in Topic : message'[k]["control"] = message[k]["control"]
    BY <2>1, BoardType DEF Messages, Kind
  <2>3. QED  BY <1>0, <2>1, <2>2, WritesUndisturbed
<1>13. CASE UNCHANGED vars  BY <1>0, <1>13, WritesUndisturbed DEF vars
<1>14. QED
  BY <1>1, <1>2, <1>3, <1>4, <1>5, <1>6, <1>7, <1>8, <1>9, <1>10, <1>11, <1>12, <1>13
  DEF Next, SetupStep, RefreshStep

\* A refresh that is under way goes on as it was, while topics and messages are added and a
\* row leaves a thread that is gone.
LEMMA RefreshesUndisturbed ==
    ASSUME IInv,
           \A r \in Refresher : stage'[r] # "off" =>
              stage[r] = stage'[r] /\ aim'[r] = aim[r] /\ note'[r] = note[r],
           Len(made) \in Nat, Len(made') \in Nat, Len(made) <= Len(made'),
           Len(mail) \in Nat, Len(mail') \in Nat, Len(mail) <= Len(mail'),
           \A m \in 1..Len(mail) : mail'[m] = mail[m],
           gone \subseteq gone',
           thread'[Board] = thread[Board] \/ ~Live(thread[Board])
    PROVE  Refreshes'
<1>1. ASSUME NEW r \in Refresher, stage'[r] # "off"
      PROVE  /\ aim'[r].thread \in 1..Len(made')
             /\ aim'[r].thread = thread'[Board] \/ aim'[r].thread \in gone'
  <2>1. /\ aim'[r] = aim[r] /\ aim[r].thread \in 1..Len(made)
        /\ aim[r].thread = thread[Board] \/ aim[r].thread \in gone
    BY <1>1 DEF IInv, Refreshes, Aimed
  <2>2. aim[r].thread # 0  BY <2>1
  <2>3. QED  BY <2>1, <2>2 DEF Live
<1>2. ASSUME NEW r \in Refresher, stage'[r] = "store"
      PROVE  note'[r] \in 1..Len(mail') /\ mail'[note'[r]].home = aim'[r].thread
  <2>1. /\ aim'[r] = aim[r] /\ note'[r] = note[r]
        /\ note[r] \in 1..Len(mail) /\ mail[note[r]].home = aim[r].thread
    BY <1>2 DEF IInv, Refreshes, Held
  <2>2. QED  BY <2>1
<1>3. QED  BY <1>1, <1>2 DEF Refreshes, Aimed, Held

LEMMA RefreshesStep == IInv /\ [Next]_vars => Refreshes'
<1> SUFFICES ASSUME IInv, [Next]_vars PROVE Refreshes'  OBVIOUS
<1> USE DEF forum, rows, setup, refresh
<1>0. Len(made) \in Nat /\ Len(mail) \in Nat  BY Lengths
<1>1. ASSUME UNCHANGED <<made, mail, stage, aim, note>>, gone \subseteq gone',
             UNCHANGED thread
      PROVE  Refreshes'
  BY <1>0, <1>1, RefreshesUndisturbed
<1>2. CASE \/ Presses \/ Refused \/ TransactionBegins \/ Ends \/ Breaks \/ Lists \/ LosesMessage
           \/ (\E t \in Thread : DeletesTopic(t)) \/ (\E m \in Message : DeletesMessage(m))
  BY <1>1, <1>2 DEF Presses, Refused, TransactionBegins, Ends, Breaks, Lists, LosesMessage,
                    DeletesTopic, DeletesMessage
<1>3. ASSUME NEW k \in Topic, KeepsTopic(k) PROVE Refreshes'  BY <1>1, <1>3 DEF KeepsTopic
<1>4. ASSUME NEW k \in Topic, CreatesTopic(k) \/ CreatesTopicUnheard(k) PROVE Refreshes'
  <2>1. /\ Len(made) < MaxThreads /\ made' = Append(made, k)
        /\ UNCHANGED <<mail, gone, thread, stage, aim, note>>
    BY <1>4 DEF CreatesTopic, CreatesTopicUnheard
  <2>2. Len(made') = Len(made) + 1  BY <2>1, Creating DEF IInv
  <2>3. QED  BY <1>0, <2>1, <2>2, RefreshesUndisturbed
<1>5. CASE Commits \/ CommitsUnheard
  <2>1. Committed /\ UNCHANGED <<made, mail, gone, stage, aim, note>>
    BY <1>5 DEF Commits, CommitsUnheard
  <2>2. thread'[Board] = thread[Board] \/ ~Live(thread[Board])
    BY <2>1, CommittedRows, BoardType
  <2>3. QED  BY <1>0, <2>1, <2>2, RefreshesUndisturbed
<1>6. ASSUME NEW n \in 1..Len(Slots), KeepsMessage(n) \/ StoresMessage(n) PROVE Refreshes'
  BY <1>1, <1>6 DEF KeepsMessage, StoresMessage
<1>7. ASSUME NEW n \in 1..Len(Slots), Posted(n), UNCHANGED <<made, gone, thread, stage, aim>>,
             \A r \in Refresher : note'[r] = note[r]
      PROVE  Refreshes'
  <2>1. Len(mail') = Len(mail) + 1 /\ \A m \in 1..Len(mail) : mail'[m] = mail[m]
    BY <1>7, HomeType, Sending DEF Posted, IInv
  <2>2. QED  BY <1>0, <1>7, <2>1, RefreshesUndisturbed
<1>8. ASSUME NEW n \in 1..Len(Slots), SendsMessage(n) \/ ReplacesMessage(n) PROVE Refreshes'
  <2>1. \A r \in Refresher : note'[r] = note[r]
    BY <1>8 DEF SendsMessage, ReplacesMessage, Refresher, Writer, IInv, TypeOK
  <2>2. QED  BY <1>7, <1>8, <2>1 DEF SendsMessage, ReplacesMessage
<1>9. ASSUME NEW n \in 1..Len(Slots), SkipsMessage(n) PROVE Refreshes'
  <2>1. UNCHANGED <<made, gone, thread, stage, aim, note>>  BY <1>9 DEF SkipsMessage
  <2>2. CASE UNCHANGED mail  BY <1>1, <2>1, <2>2
  <2>3. CASE Posted(n)  BY <1>7, <2>1, <2>3
  <2>4. QED  BY <1>9, <2>2, <2>3 DEF SkipsMessage
<1>10. ASSUME NEW r \in Refresher, GoesOff(r) \/ StoresBoard(r) \/ LosesBoard(r) PROVE Refreshes'
  <2>1. /\ UNCHANGED <<made, gone, mail, thread, aim, note>>
        /\ stage' = [stage EXCEPT ![r] = "off"]
    BY <1>10 DEF GoesOff, StoresBoard, LosesBoard, RefreshUnchanged
  <2>2. \A q \in Refresher : stage'[q] # "off" => stage[q] = stage'[q]
    BY <2>1 DEF IInv, TypeOK
  <2>3. QED  BY <1>0, <2>1, <2>2, RefreshesUndisturbed
<1>11. ASSUME NEW r \in Refresher, Reads(r) PROVE Refreshes'
  <2>1. /\ UNCHANGED <<made, gone, mail, thread, note>> /\ thread[Board] # 0
        /\ stage' = [stage EXCEPT ![r] = "read"]
        /\ aim' = [aim EXCEPT ![r] = [thread |-> thread[Board],
                                      intro |-> message[Board]["intro"]]]
    BY <1>11 DEF Reads, RefreshUnchanged
  <2>2. /\ stage'[r] = "read" /\ aim'[r].thread = thread[Board]
        /\ \A q \in Refresher : q # r => stage'[q] = stage[q] /\ aim'[q] = aim[q]
    BY <2>1 DEF IInv, TypeOK
  <2>3. thread[Board] \in 1..Len(made)  BY <2>1, BoardType DEF IInv, Topics, Placed
  <2>4. QED  BY <2>1, <2>2, <2>3 DEF IInv, Refreshes, Aimed, Held
<1>12. ASSUME NEW r \in Refresher, SendsBoard(r) PROVE Refreshes'
  <2>1. /\ UNCHANGED <<made, gone, thread, aim>> /\ stage[r] = "read"
        /\ Live(aim[r].thread) /\ Len(mail) < MaxMessages
        /\ mail' = Append(mail, [home |-> aim[r].thread, kind |-> "intro"])
        /\ note' = [note EXCEPT ![r] = Len(mail) + 1]
        /\ stage' = [stage EXCEPT ![r] = "store"]
    BY <1>12 DEF SendsBoard, RefreshUnchanged
  <2>2. aim[r].thread \in Thread /\ "intro" \in Kind
    BY <2>1, SetupAssumption DEF Live, IInv, TypeOK, Thread, Kind
  <2>3. /\ Len(mail') = Len(mail) + 1
        /\ \A m \in 1..Len(mail) : mail'[m] = mail[m]
        /\ mail'[Len(mail) + 1].home = aim[r].thread
    BY <2>1, <2>2, Sending DEF IInv
  <2>4. /\ note'[r] = Len(mail) + 1
        /\ \A q \in Refresher : q # r => stage'[q] = stage[q] /\ note'[q] = note[q]
    BY <2>1 DEF IInv, TypeOK, Writer
  <2>5. Aimed'  BY <2>1, <2>4 DEF IInv, Refreshes, Aimed
  <2>6. ASSUME NEW q \in Refresher, stage'[q] = "store"
        PROVE  note'[q] \in 1..Len(mail') /\ mail'[note'[q]].home = aim[q].thread
    <3>1. CASE q = r  BY <1>0, <2>3, <2>4, <3>1
    <3>2. CASE q # r
      <4>1. note[q] \in 1..Len(mail) /\ mail[note[q]].home = aim[q].thread
        BY <2>4, <2>6, <3>2 DEF IInv, Refreshes, Held
      <4>2. QED  BY <1>0, <2>3, <2>4, <3>2, <4>1
    <3>3. QED  BY <3>1, <3>2
  <2>7. QED  BY <2>1, <2>5, <2>6 DEF Refreshes, Held
<1>13. CASE UNCHANGED vars  BY <1>1, <1>13 DEF vars
<1>14. QED
  BY <1>2, <1>3, <1>4, <1>5, <1>6, <1>8, <1>9, <1>10, <1>11, <1>12, <1>13
  DEF Next, SetupStep, RefreshStep

-----------------------------------------------------------------------------
(* A setup that finds everything in place.                                 *)

LEMMA WholeStays ==
    ASSUME IInv, Whole, UNCHANGED <<thread, message, ready, gone, dead>>,
           \A m \in 1..Len(mail) : mail'[m] = mail[m]
    PROVE  Whole'
<1>1. ASSUME NEW n \in 1..Len(Slots)
      PROVE  LET m == message[Slots[n].topic][Slots[n].kind]
             IN  m # 0 /\ Alive(m)' /\ mail'[m].home = thread[Slots[n].topic]
  <2>1. PICK m : m = message[Slots[n].topic][Slots[n].kind]  OBVIOUS
  <2>2. m # 0 /\ Alive(m) /\ mail[m].home = thread[Slots[n].topic]  BY <2>1 DEF Whole
  <2>3. m \in 1..Len(mail)  BY <2>1, <2>2, SlotType DEF IInv, Mails, Linked
  <2>4. QED  BY <2>1, <2>2, <2>3 DEF Alive
<1>2. ready' /\ \A k \in Topic : Live(thread[k])'  BY DEF Whole, Live
<1>3. QED  BY <1>1, <1>2 DEF Whole

\* In a calm setup every slot's message can be edited.
LEMMA CalmSlots ==
    ASSUME IInv, whole, quiet, NEW n \in 1..Len(Slots), AtSlot(n)
    PROVE  Editable(n)
  BY DEF IInv, Calm, Whole, AtSlot, Editable, Stored

LEMMA CalmStep == IInv /\ [Next]_vars => Calm'
<1> SUFFICES ASSUME IInv, [Next]_vars PROVE Calm'  OBVIOUS
<1> USE DEF forum, rows, setup
<1>1. ASSUME quiet' = FALSE PROVE Calm'  BY <1>1 DEF Calm
<1>2. ASSUME UNCHANGED <<thread, message, ready, gone, dead, fresh, whole, quiet>>,
             \A m \in 1..Len(mail) : mail'[m] = mail[m],
             at' # "store" \/ at' = at \/ ~whole \/ ~quiet,
             at' = "slot" => (at = "slot" /\ seen' = seen) \/ ~whole \/ ~quiet
      PROVE  Calm'
  BY <1>2, WholeStays DEF IInv, Calm
<1>3. CASE (\E t \in Thread : DeletesTopic(t)) \/ (\E m \in Message : DeletesMessage(m))
  BY <1>1, <1>3 DEF DeletesTopic, DeletesMessage
<1>4. CASE Breaks \/ CommitsUnheard \/ LosesMessage
  BY <1>1, <1>4 DEF Breaks, CommitsUnheard, LosesMessage, Fault
<1>5. CASE Presses \/ Refused \/ Ends  BY <1>2, <1>5 DEF Presses, Refused, Ends
<1>6. CASE TransactionBegins
  <2>1. whole' = Whole /\ at' = "topic" /\ fresh = None
        /\ UNCHANGED <<made, gone, mail, dead, thread, message, ready, fresh>>
    BY <1>6, NoneOpen DEF TransactionBegins
  <2>2. Whole => Whole'  BY <2>1, WholeStays
  <2>3. QED  BY <2>1, <2>2 DEF Calm
<1>7. ASSUME NEW k \in Topic, KeepsTopic(k) PROVE Calm'
  BY <1>2, <1>7 DEF KeepsTopic, NextTopic
<1>8. ASSUME NEW k \in Topic, CreatesTopic(k) \/ CreatesTopicUnheard(k) PROVE Calm'
  <2>1. ~(whole /\ quiet)
    BY <1>8 DEF CreatesTopic, CreatesTopicUnheard, Missing, IInv, Calm, Whole
  <2>2. CASE CreatesTopic(k)  BY <2>1, <2>2 DEF CreatesTopic, Calm
  <2>3. CASE CreatesTopicUnheard(k)  BY <1>1, <2>3 DEF CreatesTopicUnheard, Fault
  <2>4. QED  BY <1>8, <2>2, <2>3
<1>9. CASE Commits
  <2>1. /\ Committed /\ at' = "list"
        /\ UNCHANGED <<made, gone, mail, dead, whole, quiet>>
    BY <1>9 DEF Commits
  <2>2. ASSUME whole, quiet PROVE Whole' /\ fresh' = None
    <3>1. Whole /\ fresh = None  BY <2>2 DEF IInv, Calm
    <3>2. \A k \in Topic : thread'[k] = thread[k] /\ message'[k] = message[k]
      BY <2>1, <3>1, CommittedRows DEF None
    <3>3. thread' = thread /\ message' = message /\ ready' = ready
      BY <2>1, <3>1, <3>2 DEF Committed, IInv, TypeOK, Whole
    <3>4. QED  BY <2>1, <3>1, <3>3, WholeStays DEF Committed
  <2>3. QED  BY <2>1, <2>2 DEF Calm
<1>10. CASE Lists
  <2>1. /\ at' = "slot" /\ seen' = message
        /\ UNCHANGED <<made, gone, mail, dead, thread, message, ready, fresh, whole, quiet>>
    BY <1>10 DEF Lists
  <2>2. QED  BY <2>1, WholeStays DEF IInv, Calm
<1>11. ASSUME NEW n \in 1..Len(Slots), KeepsMessage(n) PROVE Calm'
  BY <1>2, <1>11 DEF KeepsMessage, AtSlot, NextSlot
<1>12. ASSUME NEW n \in 1..Len(Slots), SendsMessage(n) PROVE Calm'
  <2>1. ~(whole /\ quiet)  BY <1>12, CalmSlots DEF SendsMessage
  <2>2. QED  BY <1>12, <2>1 DEF SendsMessage, Calm
<1>13. ASSUME NEW n \in 1..Len(Slots), ReplacesMessage(n) PROVE Calm'
  BY <1>1, <1>13 DEF ReplacesMessage, Fault
<1>14. ASSUME NEW n \in 1..Len(Slots), SkipsMessage(n) PROVE Calm'
  <2>1. CASE Fault  BY <1>1, <2>1 DEF Fault
  <2>2. CASE UNCHANGED <<mail, strays, quiet, count>>
    BY <1>2, <1>14, <2>2 DEF SkipsMessage, AtSlot, NextSlot
  <2>3. QED  BY <1>14, <2>1, <2>2 DEF SkipsMessage
<1>15. ASSUME NEW n \in 1..Len(Slots), StoresMessage(n) PROVE Calm'
  BY <1>15 DEF StoresMessage, IInv, Calm
<1>16. ASSUME NEW r \in Refresher, Reads(r) \/ GoesOff(r) PROVE Calm'
  BY <1>2, <1>16 DEF Reads, GoesOff, RefreshUnchanged
<1>17. ASSUME NEW r \in Refresher, SendsBoard(r) PROVE Calm'
  <2>1. /\ UNCHANGED <<thread, message, ready, gone, dead, fresh, whole, quiet, at, seen>>
        /\ Live(aim[r].thread) /\ Len(mail) < MaxMessages
        /\ mail' = Append(mail, [home |-> aim[r].thread, kind |-> "intro"])
    BY <1>17 DEF SendsBoard, RefreshUnchanged
  <2>2. aim[r].thread \in Thread /\ "intro" \in Kind
    BY <2>1, SetupAssumption DEF Live, IInv, TypeOK, Thread, Kind
  <2>3. \A m \in 1..Len(mail) : mail'[m] = mail[m]  BY <2>1, <2>2, Sending DEF IInv
  <2>4. QED  BY <1>2, <2>1, <2>3
<1>18. ASSUME NEW r \in Refresher, StoresBoard(r) \/ LosesBoard(r) PROVE Calm'
  BY <1>1, <1>18 DEF StoresBoard, LosesBoard, Fault
<1>19. CASE UNCHANGED vars  BY <1>2, <1>19 DEF vars
<1>20. QED
  BY <1>3, <1>4, <1>5, <1>6, <1>7, <1>8, <1>9, <1>10, <1>11, <1>12, <1>13, <1>14, <1>15, <1>16,
     <1>17, <1>18, <1>19
  DEF Next, SetupStep, RefreshStep

-----------------------------------------------------------------------------
LEMMA IInvStep == IInv /\ [Next]_vars => IInv'
  BY TypeStep, TopicsStep, MailsStep, WritesStep, RefreshesStep, CalmStep DEF IInv

\* Holds in every state: the rows, the forum and the processes keep their types.
THEOREM TypeCorrect == Spec => []TypeOK
<1>1. IInv => TypeOK  BY DEF IInv
<1>2. QED  BY InitIInv, IInvStep, <1>1, PTL DEF Spec

\* However setups, refreshes, deletions and failures meet, every topic and every control
\* message in the chat is the one its row names, is in hand, or was left by a failed step.
THEOREM NothingIsLost == Spec => []NothingLost
<1>1. IInv => NothingLost
  BY DEF IInv, Topics, TopicsKept, Mails, ControlsKept, NothingLost
<1>2. QED  BY InitIInv, IInvStep, <1>1, PTL DEF Spec

\* A row's messages are in the row's thread, or in one that is gone.
THEOREM MessagesStayInTopic == Spec => []MessagesInTopic
<1>1. IInv => MessagesInTopic  BY DEF IInv, Mails
<1>2. QED  BY InitIInv, IInvStep, <1>1, PTL DEF Spec

\* A topic that is still there is never replaced.
THEOREM LiveTopicsStay == Spec => LiveTopicKept
<1>1. IInv /\ [Next]_vars
        => [\A k \in Topic : thread[k] # 0 /\ thread'[k] # thread[k] => thread[k] \in gone]_vars
  <2> SUFFICES ASSUME IInv, Next, NEW k \in Topic, thread[k] # 0, thread'[k] # thread[k]
               PROVE  thread[k] \in gone
    OBVIOUS
  <2>1. CASE Commits \/ CommitsUnheard
    BY <2>1, CommittedRows DEF Commits, CommitsUnheard, Live
  <2>2. CASE ~(Commits \/ CommitsUnheard)
    <3>1. thread' = thread
      BY <2>2 DEF Next, SetupStep, RefreshStep, rows, DeletesTopic, DeletesMessage, Presses,
           Refused, TransactionBegins, KeepsTopic, CreatesTopic, CreatesTopicUnheard, Breaks,
           Lists, KeepsMessage, SendsMessage, ReplacesMessage, SkipsMessage, StoresMessage,
           LosesMessage, Ends, Reads, GoesOff, SendsBoard, StoresBoard, LosesBoard,
           RefreshUnchanged
    <3>2. QED  BY <3>1
  <2>3. QED  BY <2>1, <2>2
<1>2. QED  BY InitIInv, IInvStep, <1>1, PTL DEF Spec, LiveTopicKept

\* A setup that finds everything in place, and is not interfered with, changes nothing.
THEOREM SetupIdempotent == Spec => SetupIsIdempotent
<1>1. IInv /\ IInv' /\ [Next]_vars
        => [whole /\ quiet /\ quiet' => made' = made /\ at' # "store"]_vars
  <2> SUFFICES ASSUME IInv, IInv', Next, whole, quiet, quiet'
               PROVE  made' = made /\ at' # "store"
    OBVIOUS
  <2> USE DEF forum, setup
  <2>1. \A k \in Topic : ~Missing(k)  BY DEF IInv, Calm, Whole, Missing
  <2>2. made' = made
    BY <2>1 DEF Next, SetupStep, RefreshStep, DeletesTopic, DeletesMessage, Presses,
         Refused, TransactionBegins, KeepsTopic, CreatesTopic, CreatesTopicUnheard, Breaks,
         Commits, CommitsUnheard, Lists, KeepsMessage, SendsMessage, ReplacesMessage,
         SkipsMessage, StoresMessage, LosesMessage, Ends, Reads, GoesOff, SendsBoard,
         StoresBoard, LosesBoard, RefreshUnchanged
  <2>3. CASE whole'  BY <2>2, <2>3 DEF IInv, Calm
  <2>4. CASE ~whole'
    <3>1. TransactionBegins
      BY <2>4 DEF Next, SetupStep, RefreshStep, DeletesTopic, DeletesMessage, Presses,
           Refused, KeepsTopic, CreatesTopic, CreatesTopicUnheard, Breaks, Commits,
           CommitsUnheard, Lists, KeepsMessage, SendsMessage, ReplacesMessage, SkipsMessage,
           StoresMessage, LosesMessage, Ends, Reads, GoesOff, SendsBoard, StoresBoard,
           LosesBoard, RefreshUnchanged
    <3>2. at' = "topic"  BY <3>1 DEF TransactionBegins
    <3>3. QED  BY <2>2, <3>2
  <2>5. QED  BY <2>2, <2>3, <2>4
<1>2. QED  BY InitIInv, IInvStep, <1>1, PTL DEF Spec, SetupIsIdempotent
=============================================================================
