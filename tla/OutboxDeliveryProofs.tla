------------------------- MODULE OutboxDeliveryProofs -------------------------
(***************************************************************************)
(* OutboxRelay implements OutboxDelivery.  Verdicts are the statuses with  *)
(* NEW and PROCESSING taken together; the allowance of a row is what its   *)
(* insertion and resets granted less the copies in the topic.  That a      *)
(* relay publishes only within the allowance is the budget of              *)
(* OutboxRelayProofs.                                                      *)
(***************************************************************************)
EXTENDS OutboxRelayProofs

LEMMA MapsInit == Init => Delivery!Init
<1> SUFFICES ASSUME Init PROVE Delivery!Init
  OBVIOUS
<1>1. verdict = [e \in Events |-> "absent"]
  BY DEF Init, verdict, VerdictOf
<1>2. allowance = [e \in Events |-> 0]
  BY DEF Init, allowance
<1>3. topic = <<>>
  BY DEF Init
<1> QED
  BY <1>1, <1>2, <1>3 DEF Delivery!Init

\* Statuses that differ at most within "pending" have the same verdict.
LEMMA SameVerdict ==
  ASSUME \A e \in Events : \/ status'[e] = status[e]
                           \/ {status[e], status'[e]} \subseteq {"NEW", "PROCESSING"}
  PROVE  verdict' = verdict
<1>1. VerdictOf("NEW") = VerdictOf("PROCESSING")
  BY DEF VerdictOf
<1>2. ASSUME NEW e \in Events PROVE VerdictOf(status'[e]) = VerdictOf(status[e])
  BY <1>1
<1> QED
  BY <1>2 DEF verdict

LEMMA SameAllowance ==
  ASSUME UNCHANGED <<topic, resets>>,
         \A e \in Events : status'[e] = "ABSENT" <=> status[e] = "ABSENT"
  PROVE  allowance' = allowance
<1>1. \A e \in Events : Copies(e)' = Copies(e)
  BY SameCopies
<1> QED
  BY <1>1 DEF allowance

\* One mark changes one verdict.
LEMMA VerdictExcept ==
  ASSUME TypeOK, NEW e \in Events, NEW s, status' = [status EXCEPT ![e] = s]
  PROVE  verdict' = [verdict EXCEPT ![e] = VerdictOf(s)]
BY DEF verdict, TypeOK

LEMMA MapsNext == IInv /\ IInv' /\ [Next]_vars => [Delivery!Next]_Delivery!vars
<1> SUFFICES ASSUME IInv, IInv', [Next]_vars
             PROVE  [Delivery!Next]_Delivery!vars
  OBVIOUS
<1> DEFINE Goal == [Delivery!Next]_Delivery!vars
<1>t. TypeOK /\ TypeOK'
  BY DEF IInv
<1>s. ASSUME verdict' = verdict, allowance' = allowance, topic' = topic PROVE Goal
  BY <1>s DEF Delivery!vars
<1>1. ASSUME NEW e \in Events, Insert(e) PROVE Goal
  <2>1. Copies(e)' = 0 /\ resets'[e] = 0
    <3>1. ~Published(e) /\ resets[e] = 0
      BY <1>1 DEF Insert, IInv, AbsentUntouched
    <3>2. Positions(e) = {}
      BY <3>1 DEF Published, Positions
    <3> QED
      BY <1>1, <3>1, <3>2, SameCopies, FS_EmptySet DEF Insert, Copies
  <2>2. verdict' = [verdict EXCEPT ![e] = "pending"]
    BY <1>1, <1>t, VerdictExcept DEF Insert, VerdictOf
  <2>3. allowance' = [allowance EXCEPT ![e] = 1]
    <3>1. \A f \in Events \ {e} : allowance'[f] = allowance[f]
      BY <1>1, <1>t, SameCopies DEF Insert, allowance, TypeOK
    <3>2. allowance'[e] = 1
      BY <1>1, <1>t, <2>1 DEF Insert, allowance, TypeOK
    <3> QED
      BY <3>1, <3>2 DEF allowance
  <2>4. verdict[e] = "absent"
    BY <1>1 DEF Insert, verdict, VerdictOf
  <2>5. \A f \in Events : f < e /\ User[f] = User[e] => verdict[f] # "absent"
    BY <1>1, <1>t DEF Insert, verdict, VerdictOf, TypeOK, Statuses
  <2>6. Delivery!Enqueue(e)
    BY <1>1, <2>2, <2>3, <2>4, <2>5 DEF Delivery!Enqueue, Insert
  <2> QED
    BY <2>6 DEF Delivery!Next
<1>2. ASSUME NEW r \in Relays, Start(r) PROVE Goal
  <2> DEFINE S == {e \in Events : Stale(e)}
  <2>1. verdict' = verdict
    BY <1>2, <1>t, SameVerdict DEF Start, ResetStaleProcessingEvents, Stale, TypeOK
  <2>2. \A e \in S : verdict[e] = "pending"
    BY DEF Stale, verdict, VerdictOf
  <2>3. \A e \in Events : Copies(e)' = Copies(e)
    BY <1>2, SameCopies DEF Start
  <2>4. ASSUME NEW e \in Events
        PROVE  allowance'[e] = IF e \in S THEN allowance[e] + 1 ELSE allowance[e]
    <3>1. resets[e] \in Nat /\ Copies(e) \in Nat
      BY <1>t, CopiesType DEF TypeOK
    <3> QED
      BY <1>2, <1>t, <2>3, <3>1
      DEF Start, ResetStaleProcessingEvents, Stale, allowance, TypeOK
  <2>5. allowance' = [e \in Events |-> IF e \in S THEN allowance[e] + 1 ELSE allowance[e]]
    BY <2>4 DEF allowance
  <2>6. Delivery!Requeue(S)
    BY <1>2, <2>1, <2>2, <2>5 DEF Delivery!Requeue, Start
  <2> QED
    BY <2>6 DEF Delivery!Next
<1>3. ASSUME NEW r \in Relays, stage[r] = "publish", topic' = Append(topic, current[r]),
             UNCHANGED <<status, resets>>
      PROVE  Goal
  <2>1. current[r] \in Events
    BY <1>3 DEF IInv, HoldsEvent
  <2>2. verdict' = verdict
    BY <1>3, <1>t, SameVerdict
  <2>3. ASSUME NEW e \in Events
        PROVE  allowance'[e] = IF e = current[r] THEN allowance[e] - 1 ELSE allowance[e]
    <3>1. resets[e] \in Nat /\ Copies(e) \in Nat
      BY <1>t, CopiesType DEF TypeOK
    <3>2. Copies(e)' = IF e = current[r] THEN Copies(e) + 1 ELSE Copies(e)
      BY <1>3, <1>t, <2>1, AppendCounts
    <3>3. e = current[r] => status[e] # "ABSENT"
      BY DEF IInv, AbsentUntouched
    <3> QED
      BY <1>3, <3>1, <3>2, <3>3 DEF allowance
  <2>4. allowance' = [allowance EXCEPT ![current[r]] = @ - 1]
    BY <2>1, <2>3 DEF allowance
  <2>5. allowance[current[r]] > 0
    <3> DEFINE e == current[r]
    <3>1. r \in Publishers(e) /\ IsFiniteSet(Publishers(e))
      BY <1>3, HoldersType, <2>1, RelaysAssumption, FS_Subset DEF Publishers
    <3>2. Cardinality(Publishers(e)) \in Nat /\ Cardinality(Publishers(e)) # 0
      BY <3>1, FS_EmptySet, FS_CardinalityType
    <3>3. Copies(e) + Cardinality(Publishers(e)) + Unclaimed(e) <= 1 + resets[e]
      BY <2>1 DEF IInv, CopyBudget
    <3>4. resets[e] \in Nat /\ Copies(e) \in Nat
      BY <1>t, <2>1, CopiesType DEF TypeOK
    <3>5. status[e] # "ABSENT"
      BY <2>1 DEF IInv, AbsentUntouched
    <3>6. 1 + resets[e] - Copies(e) > 0
      BY <3>2, <3>3, <3>4 DEF Unclaimed
    <3> QED
      BY <2>1, <3>5, <3>6 DEF allowance
  <2>6. Delivery!Deliver(current[r])
    BY <1>3, <2>2, <2>4, <2>5 DEF Delivery!Deliver
  <2> QED
    BY <2>1, <2>6 DEF Delivery!Next
<1>4. ASSUME NEW r \in Relays, MarkSent(r) PROVE Goal
  <2>1. current[r] \in Events /\ Published(current[r]) /\ status[current[r]] # "ABSENT"
    BY <1>4 DEF MarkSent, IInv, HoldsEvent, SentStagePublished, AbsentUntouched
  <2>2. verdict' = [verdict EXCEPT ![current[r]] = "confirmed"]
    BY <1>4, <1>t, <2>1, VerdictExcept DEF MarkSent, MarkEventAsSent, VerdictOf
  <2>3. allowance' = allowance
    BY <1>4, <1>t, <2>1, SameAllowance DEF MarkSent, MarkEventAsSent, TypeOK
  <2>4. Delivery!Confirm(current[r])
    BY <1>4, <2>1, <2>2, <2>3 DEF MarkSent, Delivery!Confirm, Delivery!Published, Published
  <2> QED
    BY <2>1, <2>4 DEF Delivery!Next
<1>5. ASSUME NEW r \in Relays, MarkFailed(r) PROVE Goal
  <2>1. current[r] \in Events /\ status[current[r]] # "ABSENT"
    BY <1>5 DEF MarkFailed, IInv, HoldsEvent, AbsentUntouched
  <2>2. verdict' = [verdict EXCEPT ![current[r]] = "rejected"]
    BY <1>5, <1>t, <2>1, VerdictExcept DEF MarkFailed, MarkEventAsFailed, VerdictOf
  <2>3. allowance' = allowance
    BY <1>5, <1>t, <2>1, SameAllowance DEF MarkFailed, MarkEventAsFailed, TypeOK
  <2>4. verdict[current[r]] # "absent"
    BY <1>t, <2>1 DEF verdict, VerdictOf, TypeOK, Statuses
  <2>5. Delivery!Reject(current[r])
    BY <1>5, <2>2, <2>3, <2>4 DEF MarkFailed, Delivery!Reject
  <2> QED
    BY <2>1, <2>5 DEF Delivery!Next
<1>6. ASSUME NEW r \in Relays, Claim(r) \/ ClaimUnacknowledged(r) PROVE Goal
  <2>1. \A e \in Events : \/ status'[e] = status[e]
                          \/ status[e] = "NEW" /\ status'[e] = "PROCESSING"
    BY <1>6, <1>t DEF Claim, ClaimUnacknowledged, MarkEventAsProcessing, TypeOK
  <2>2. UNCHANGED <<topic, resets>>
    BY <1>6 DEF Claim, ClaimUnacknowledged
  <2>3. verdict' = verdict
    BY <1>t, <2>1, SameVerdict
  <2>4. allowance' = allowance
    BY <2>1, <2>2, SameAllowance
  <2> QED
    BY <1>s, <2>2, <2>3, <2>4
<1>7. ASSUME UNCHANGED <<status, topic, resets>> PROVE Goal
  BY <1>s, <1>t, <1>7, SameVerdict, SameAllowance
<1> QED
  BY <1>1, <1>2, <1>3, <1>4, <1>5, <1>6, <1>7
  DEF Next, RelayStep, RelayFault, vars, rowVars, Tick, StartWithoutReset, Stop,
      Poll, BeginEvent, ClaimRefused, ClaimFails, Publish, PublishFails, MarkFails

\* Every behaviour of the relays is one the outbox promises.
THEOREM Implementation == Spec => ImplementsDelivery
BY MapsInit, MapsNext, Invariance, PTL DEF Spec, ImplementsDelivery, Delivery!Spec
=============================================================================
