---------------------------- MODULE OutboxDelivery ----------------------------
(***************************************************************************)
(* What the outbox promises to the service and to the consumers of the     *)
(* topic, without relays, claims, batches or timeouts.                     *)
(*                                                                         *)
(* A committed event is pending until it gets a verdict.  It is confirmed  *)
(* only once it is in the topic.  An event has an allowance of messages,   *)
(* one when it is committed and one more whenever it is requeued, so that  *)
(* the topic holds no more copies of it than that.  Only a pending event   *)
(* is requeued, and a verdict is never taken back, though a later one may  *)
(* replace it.                                                             *)
(***************************************************************************)
EXTENDS Integers, Sequences

CONSTANTS Events, User

VARIABLES
    verdict,    \* verdict[e]: "absent", "pending", "confirmed" or "rejected"
    allowance,  \* allowance[e]: copies of e that may still be appended
    topic       \* the messages, in order of append

vars == <<verdict, allowance, topic>>

Init ==
    /\ verdict = [e \in Events |-> "absent"]
    /\ allowance = [e \in Events |-> 0]
    /\ topic = <<>>

Published(e) == \E i \in 1 .. Len(topic) : topic[i] = e

Enqueue(e) ==
    /\ verdict[e] = "absent"
    /\ \A f \in Events : f < e /\ User[f] = User[e] => verdict[f] # "absent"
    /\ verdict' = [verdict EXCEPT ![e] = "pending"]
    /\ allowance' = [allowance EXCEPT ![e] = 1]
    /\ UNCHANGED topic

Requeue(S) ==
    /\ \A e \in S : verdict[e] = "pending"
    /\ allowance' = [e \in Events |-> IF e \in S THEN allowance[e] + 1 ELSE allowance[e]]
    /\ UNCHANGED <<verdict, topic>>

Deliver(e) ==
    /\ allowance[e] > 0
    /\ topic' = Append(topic, e)
    /\ allowance' = [allowance EXCEPT ![e] = @ - 1]
    /\ UNCHANGED verdict

Confirm(e) ==
    /\ Published(e)
    /\ verdict' = [verdict EXCEPT ![e] = "confirmed"]
    /\ UNCHANGED <<allowance, topic>>

Reject(e) ==
    /\ verdict[e] # "absent"
    /\ verdict' = [verdict EXCEPT ![e] = "rejected"]
    /\ UNCHANGED <<allowance, topic>>

Next ==
    \/ \E e \in Events : Enqueue(e) \/ Deliver(e) \/ Confirm(e) \/ Reject(e)
    \/ \E S \in SUBSET Events : Requeue(S)

Spec == Init /\ [][Next]_vars
=============================================================================
