-------------------------- MODULE DeliveryLifecycle --------------------------
(***************************************************************************)
(* What the outboxes promise of their deliveries while workers take turns, *)
(* with no workers, leases, claims that age or requests.  A delivery is    *)
(* tried only when it is in hand: taken, not waiting after a failure and   *)
(* not suspended.  A failure makes it wait or suspends it, and the last of *)
(* its budget suspends it.  It is settled once, as sent only if a message  *)
(* has reached the chat; a suspended one is nobody's to try again.         *)
(***************************************************************************)
EXTENDS Integers

CONSTANTS Item, Budget

VARIABLES
    stage,      \* of each delivery
    copies,     \* messages of each that have reached the chat
    failures,   \* in a row
    rest        \* why a delivery is left alone: "none", "waits" or "suspended"

delivery == <<stage, copies, failures, rest>>

Init ==
    /\ stage = [i \in Item |-> "absent"]
    /\ copies = [i \in Item |-> 0] /\ failures = [i \in Item |-> 0]
    /\ rest = [i \in Item |-> "none"]

Moves(i, from, to) == stage[i] = from /\ stage' = [stage EXCEPT ![i] = to]

Rests(i, how) == rest' = [rest EXCEPT ![i] = how]

InHand(i) == stage[i] = "claimed" /\ rest[i] = "none"

Appears(i) == Moves(i, "absent", "pending") /\ UNCHANGED <<copies, failures, rest>>

Take(i) ==
    /\ rest[i] = "none" /\ Moves(i, "pending", "claimed")
    /\ UNCHANGED <<copies, failures, rest>>

\* Taken, and left or put back without a verdict.
PutBack(i) == Moves(i, "claimed", "pending") /\ UNCHANGED <<copies, failures, rest>>

Reach(i) ==
    /\ InHand(i)
    /\ copies' = [copies EXCEPT ![i] = @ + 1]
    /\ UNCHANGED <<stage, failures, rest>>

Fail(i) ==
    /\ InHand(i) /\ failures[i] < Budget
    /\ failures' = [failures EXCEPT ![i] = @ + 1]
    /\ Rests(i, "suspended") \/ (failures[i] + 1 < Budget /\ Rests(i, "waits"))
    /\ UNCHANGED <<stage, copies>>

FallDue(i) == rest[i] = "waits" /\ Rests(i, "none") /\ UNCHANGED <<stage, copies, failures>>

Settle(i) ==
    /\ InHand(i)
    /\ Moves(i, "claimed", "failed") \/ (copies[i] > 0 /\ Moves(i, "claimed", "sent"))
    /\ UNCHANGED <<copies, failures, rest>>

Clear(i) ==
    /\ stage[i] = "sent" /\ rest[i] # "suspended"
    /\ failures' = [failures EXCEPT ![i] = 0] /\ Rests(i, "none")
    /\ UNCHANGED <<stage, copies>>

Next ==
    \E i \in Item :
        Appears(i) \/ Take(i) \/ PutBack(i) \/ Reach(i) \/ Fail(i) \/ FallDue(i) \/ Settle(i)
        \/ Clear(i)

Spec == Init /\ [][Next]_delivery
=============================================================================
