-------------------------- MODULE OutboxRelayProofs --------------------------
(***************************************************************************)
(* Proofs about OutboxRelay, for all sets of rows and relays and all       *)
(* bounds.  The inductive invariant is a budget: a row pays for each copy  *)
(* of its message, each relay about to publish it and for being NEW, out   *)
(* of one unit for its insertion and one for each reset.                   *)
(***************************************************************************)
EXTENDS OutboxRelay, FiniteSetTheorems, TLAPS

\* A relay has an event in hand exactly while it handles one.
HoldsEvent ==
    \A r \in Relays :
        IF stage[r] \in {"down", "loop"} THEN current[r] = NoEvent
                                         ELSE current[r] \in Events

\* Nothing knows of a row that is not committed.
AbsentUntouched ==
    \A e \in Events : status[e] = "ABSENT" =>
        /\ ~Published(e) /\ resets[e] = 0
        /\ \A r \in Relays : current[r] # e /\ \A s \in batch[r] : s.event # e

\* A relay about to mark a row SENT has its message in the topic.
SentStagePublished ==
    \A r \in Relays : stage[r] = "sent" => Published(current[r])

\* No relay polls a row that failed before, so that the guard of processEvent
\* never sees a positive retry count.
FreshSnapshots ==
    \A r \in Relays : \A s \in batch[r] : s.retryCount = 0

Unclaimed(e) == IF status[e] = "NEW" THEN 1 ELSE 0

\* The budget of a row, with k units from elsewhere.
Paid(e, k) ==
    Copies(e) + Cardinality(Publishers(e)) + Unclaimed(e) <= 1 + resets[e] + k

CopyBudget ==
    \A e \in Events :
        Copies(e) + Cardinality(Publishers(e)) + Unclaimed(e) <= 1 + resets[e]

OwnerBudget ==
    \A e \in Events : Cardinality(Holders(e)) + Unclaimed(e) <= 1 + resets[e]

\* Without a reset no relay owns a marked row.
MarkedUnowned ==
    \A e \in Events :
        status[e] \in {"SENT", "FAILED"} /\ resets[e] = 0 => Holders(e) = {}

IInv ==
    /\ TypeOK
    /\ HoldsEvent
    /\ AbsentUntouched
    /\ SentStagePublished
    /\ SentIsPublished
    /\ FailedNeverRequeued
    /\ FreshSnapshots
    /\ CopyBudget
    /\ OwnerBudget
    /\ MarkedUnowned

-----------------------------------------------------------------------------
(* Types.  That a relay appends an event and not NoEvent, and that the event *)
(* it marks is one, needs HoldsEvent, which is proved along.                 *)

Typed == TypeOK /\ HoldsEvent

LEMMA TypedInit == Init => Typed
<1> SUFFICES ASSUME Init PROVE Typed
  OBVIOUS
<1> USE EventsAssumption, ParametersAssumption
<1>1. TypeOK
  BY DEF Init, TypeOK, Statuses, Stages, Snapshot, NoEvent
<1>2. HoldsEvent
  BY DEF Init, HoldsEvent
<1> QED
  BY <1>1, <1>2 DEF Typed

LEMMA TypedNext == Typed /\ [Next]_vars => Typed'
<1> SUFFICES ASSUME Typed, [Next]_vars PROVE Typed'
  OBVIOUS
<1> USE EventsAssumption, ParametersAssumption
<1> USE DEF Typed, TypeOK, HoldsEvent, Statuses, Stages, Snapshot, NoFault,
            rowVars, NoEvent
<1>1. ASSUME NEW e \in Events, Insert(e) PROVE Typed'
  BY <1>1 DEF Insert
<1>2. ASSUME Tick PROVE Typed'
  <2>1. age' \in [Events -> 0 .. ProcessingTimeout + 1]
    <3>1. \A e \in Events : age[e] \in 0 .. ProcessingTimeout + 1
      OBVIOUS
    <3>2. \A e \in Events : age[e] <= ProcessingTimeout =>
                             age[e] + 1 \in 0 .. ProcessingTimeout + 1
      BY <3>1
    <3> QED
      BY <1>2, <3>1, <3>2 DEF Tick
  <2> QED
    BY <1>2, <2>1 DEF Tick
<1>3. ASSUME NEW r \in Relays, Start(r) PROVE Typed'
  BY <1>3 DEF Start, ResetStaleProcessingEvents, Stale
<1>4. ASSUME NEW r \in Relays, Poll(r) PROVE Typed'
  <2>1. PICK B \in SUBSET Pending :
          batch' = [batch EXCEPT ![r] =
                      {[event |-> e, retryCount |-> retryCount[e]] : e \in B}]
    BY <1>4 DEF Poll
  <2>2. {[event |-> e, retryCount |-> retryCount[e]] : e \in B} \subseteq Snapshot
    <3>1. B \subseteq Events
      BY DEF Pending
    <3>2. \A e \in B : retryCount[e] \in Nat
      BY <3>1
    <3>3. \A e \in B : [event |-> e, retryCount |-> retryCount[e]] \in Snapshot
      BY <3>1, <3>2
    <3> QED
      BY <3>3
  <2>3. batch' \in [Relays -> SUBSET Snapshot]
    BY <2>1, <2>2
  <2> QED
    BY <1>4, <2>3 DEF Poll
<1>5. ASSUME NEW r \in Relays, BeginEvent(r) PROVE Typed'
  <2>1. PICK s \in batch[r] :
          /\ batch' = [batch EXCEPT ![r] = @ \ {s}]
          /\ current' = [current EXCEPT ![r] = s.event]
          /\ stage' = [stage EXCEPT ![r] =
                         IF s.retryCount >= MaxRetries THEN "failed" ELSE "claim"]
    BY <1>5 DEF BeginEvent
  <2>2. s.event \in Events
    BY <2>1
  <2> QED
    BY <1>5, <2>1, <2>2 DEF BeginEvent
<1>6. ASSUME NEW r \in Relays, Claim(r) PROVE Typed'
  BY <1>6 DEF Claim, MarkEventAsProcessing
<1>7. ASSUME NEW r \in Relays, ClaimRefused(r) PROVE Typed'
  BY <1>7 DEF ClaimRefused, EndEvent
<1>8. ASSUME NEW r \in Relays, Publish(r) PROVE Typed'
  BY <1>8 DEF Publish
<1>9. ASSUME NEW r \in Relays, MarkSent(r) PROVE Typed'
  BY <1>9 DEF MarkSent, MarkEventAsSent, EndEvent
<1>10. ASSUME NEW r \in Relays, MarkFailed(r) PROVE Typed'
  <2>1. retryCount' \in [Events -> Nat]
    <3>1. current[r] \in Events
      BY <1>10 DEF MarkFailed
    <3>2. \A n \in Nat : n + 1 \in Nat
      OBVIOUS
    <3>3. retryCount[current[r]] \in Nat
      BY <3>1
    <3> QED
      BY <1>10, <3>1, <3>2, <3>3 DEF MarkFailed, MarkEventAsFailed
  <2> QED
    BY <1>10, <2>1 DEF MarkFailed, MarkEventAsFailed, EndEvent
<1>11. ASSUME NEW r \in Relays, StartWithoutReset(r) PROVE Typed'
  BY <1>11 DEF StartWithoutReset, Fault
<1>12. ASSUME NEW r \in Relays, Stop(r) PROVE Typed'
  BY <1>12 DEF Stop, Fault
<1>13. ASSUME NEW r \in Relays, ClaimFails(r) PROVE Typed'
  BY <1>13 DEF ClaimFails, EndEvent, Fault
<1>14. ASSUME NEW r \in Relays, ClaimUnacknowledged(r) PROVE Typed'
  BY <1>14 DEF ClaimUnacknowledged, MarkEventAsProcessing, EndEvent, Fault
<1>15. ASSUME NEW r \in Relays, PublishFails(r) PROVE Typed'
  <2>1. topic' \in Seq(Events)
    <3>1. Append(topic, current[r]) \in Seq(Events)
      BY <1>15 DEF PublishFails
    <3> QED
      BY <1>15, <3>1 DEF PublishFails
  <2> QED
    BY <1>15, <2>1 DEF PublishFails, Fault
<1>16. ASSUME NEW r \in Relays, MarkFails(r) PROVE Typed'
  BY <1>16 DEF MarkFails, EndEvent, Fault
<1>17. ASSUME UNCHANGED vars PROVE Typed'
  BY <1>17 DEF vars
<1> QED
  BY <1>1, <1>2, <1>3, <1>4, <1>5, <1>6, <1>7, <1>8, <1>9, <1>10, <1>11,
     <1>12, <1>13, <1>14, <1>15, <1>16, <1>17
  DEF Next, RelayStep, RelayFault

\* The state of the relays, the table and the topic has the types the code
\* gives it in every behaviour.
THEOREM TypeCorrect == Spec => []TypeOK
<1>1. Typed => TypeOK
  BY DEF Typed
<1> QED
  BY TypedInit, TypedNext, <1>1, PTL DEF Spec

-----------------------------------------------------------------------------
(* What appending to the topic, and moving one relay, does to the counts.    *)

LEMMA CopiesType ==
  ASSUME TypeOK, NEW e \in Events
  PROVE  IsFiniteSet(Positions(e)) /\ Copies(e) \in Nat
<1>1. Len(topic) \in Nat
  BY DEF TypeOK
<1>2. IsFiniteSet(1 .. Len(topic))
  BY <1>1, FS_Interval
<1>3. Positions(e) \subseteq 1 .. Len(topic)
  BY DEF Positions
<1>4. IsFiniteSet(Positions(e))
  BY <1>2, <1>3, FS_Subset
<1> QED
  BY <1>4, FS_CardinalityType DEF Copies

\* Appending x adds one position, to those of x.
LEMMA AppendCounts ==
  ASSUME TypeOK, NEW x \in Events, topic' = Append(topic, x), NEW e \in Events
  PROVE  /\ Published(e)' <=> Published(e) \/ e = x
         /\ Copies(e)' = IF e = x THEN Copies(e) + 1 ELSE Copies(e)
<1> DEFINE n == Len(topic)
<1>1. /\ n \in Nat
      /\ Len(topic') = n + 1
      /\ topic'[n + 1] = x
      /\ \A i \in 1 .. n : topic'[i] = topic[i]
  BY DEF TypeOK
<1>2. 1 .. n + 1 = (1 .. n) \cup {n + 1}
  BY <1>1
<1> HIDE DEF n
<1>3. Published(e)' <=> Published(e) \/ e = x
  BY <1>1, <1>2 DEF Published, n
<1>4. Positions(e)' = IF e = x THEN Positions(e) \cup {n + 1} ELSE Positions(e)
  BY <1>1, <1>2 DEF Positions, n
<1>5. n + 1 \notin Positions(e)
  BY <1>1 DEF Positions, n
<1>6. Copies(e)' = IF e = x THEN Copies(e) + 1 ELSE Copies(e)
  BY <1>4, <1>5, CopiesType, FS_AddElement DEF Copies
<1> QED
  BY <1>3, <1>6

\* Sets of relays are finite, so their sizes follow their elements.
LEMMA RelayCounts ==
  ASSUME NEW S \in SUBSET Relays, NEW T \in SUBSET Relays, NEW r \in Relays
  PROVE  /\ Cardinality(S) \in Nat
         /\ T \subseteq S => Cardinality(T) <= Cardinality(S)
         /\ T \subseteq S \cup {r} => Cardinality(T) <= Cardinality(S) + 1
         /\ T \subseteq S \ {r} /\ r \in S => Cardinality(T) <= Cardinality(S) - 1
<1>1. IsFiniteSet(S) /\ IsFiniteSet(S \cup {r}) /\ IsFiniteSet(S \ {r})
  BY RelaysAssumption, FS_Subset
<1>2. Cardinality(S) \in Nat /\ Cardinality(T) \in Nat
  BY <1>1, RelaysAssumption, FS_Subset, FS_CardinalityType
<1>3. T \subseteq S => Cardinality(T) <= Cardinality(S)
  BY <1>1, FS_Subset
<1>4. ASSUME T \subseteq S \cup {r} PROVE Cardinality(T) <= Cardinality(S) + 1
  <2>1. Cardinality(T) <= Cardinality(S \cup {r})
    BY <1>1, <1>4, FS_Subset
  <2>2. Cardinality(S \cup {r}) \in {Cardinality(S), Cardinality(S) + 1}
    BY <1>1, FS_AddElement
  <2> QED
    BY <1>2, <2>1, <2>2
<1>5. ASSUME T \subseteq S \ {r}, r \in S PROVE Cardinality(T) <= Cardinality(S) - 1
  <2>1. Cardinality(T) <= Cardinality(S \ {r})
    BY <1>1, <1>5, FS_Subset
  <2>2. Cardinality(S \ {r}) = Cardinality(S) - 1
    BY <1>1, <1>5, FS_RemoveElement
  <2> QED
    BY <2>1, <2>2
<1> QED
  BY <1>2, <1>3, <1>4, <1>5

-----------------------------------------------------------------------------
(* The parts of the invariant that do not count.                             *)

LEMMA AbsentUntouchedNext ==
  Typed /\ AbsentUntouched /\ [Next]_vars => AbsentUntouched'
<1> SUFFICES ASSUME Typed, AbsentUntouched, [Next]_vars,
                    NEW e \in Events, status'[e] = "ABSENT"
             PROVE  /\ ~Published(e)' /\ resets'[e] = 0
                    /\ \A r \in Relays :
                          current'[r] # e /\ \A s \in batch'[r] : s.event # e
  BY DEF AbsentUntouched
<1> USE EventsAssumption DEF Typed, TypeOK, HoldsEvent
<1>1. status[e] = "ABSENT"
  BY DEF Next, vars, RelayStep, RelayFault, rowVars, Insert, Tick, Start,
         ResetStaleProcessingEvents, Stale, StartWithoutReset, Stop, Poll,
         BeginEvent, Claim, ClaimRefused, ClaimFails, ClaimUnacknowledged,
         Publish, PublishFails, MarkSent, MarkFailed, MarkFails, EndEvent,
         MarkEventAsProcessing, MarkEventAsSent, MarkEventAsFailed
<1>2. /\ ~Published(e) /\ resets[e] = 0
      /\ \A r \in Relays : current[r] # e /\ \A s \in batch[r] : s.event # e
  BY <1>1 DEF AbsentUntouched
<1>3. ~Published(e)'
  <2>1. CASE topic' = topic
    BY <1>2, <2>1 DEF Published
  <2>2. CASE \E r \in Relays : /\ stage[r] = "publish"
                               /\ topic' = Append(topic, current[r])
    <3>1. PICK r \in Relays : stage[r] = "publish" /\ topic' = Append(topic, current[r])
      BY <2>2
    <3>2. current[r] \in Events /\ current[r] # e
      BY <1>2, <3>1
    <3> QED
      BY <1>2, <3>1, <3>2, AppendCounts
  <2> QED
    BY <2>1, <2>2
    DEF Next, vars, RelayStep, RelayFault, rowVars, Insert, Tick, Start,
        StartWithoutReset, Stop, Poll, BeginEvent, Claim, ClaimRefused,
        ClaimFails, ClaimUnacknowledged, Publish, PublishFails, MarkSent,
        MarkFailed, MarkFails
<1>4. ASSUME NEW r \in Relays
      PROVE  current'[r] # e /\ \A s \in batch'[r] : s.event # e
  <2>1. CASE \E q \in Relays : Poll(q)
    <3>1. PICK q \in Relays : Poll(q)
      BY <2>1
    <3>2. PICK B \in SUBSET Pending :
            batch' = [batch EXCEPT ![q] =
                        {[event |-> f, retryCount |-> retryCount[f]] : f \in B}]
      BY <3>1 DEF Poll
    <3>3. e \notin B
      BY <1>1 DEF Pending
    <3>4. \A s \in batch'[r] : s.event # e
      BY <1>2, <3>2, <3>3
    <3> QED
      BY <1>2, <3>1, <3>4 DEF Poll
  <2>2. CASE \E q \in Relays : BeginEvent(q)
    BY <1>2, <2>2 DEF BeginEvent
  <2>3. CASE batch' = batch /\ current' = current
    BY <1>2, <2>3
  <2>4. CASE \E q \in Relays : Stop(q)
    BY <1>2, <2>4 DEF Stop, NoEvent
  <2>5. CASE \E q \in Relays : EndEvent(q)
    BY <1>2, <2>5 DEF EndEvent, NoEvent
  <2> QED
    BY <2>1, <2>2, <2>3, <2>4, <2>5
    DEF Next, vars, RelayStep, RelayFault, rowVars, Insert, Tick, Start,
        StartWithoutReset, Claim, ClaimRefused, ClaimFails,
        ClaimUnacknowledged, Publish, PublishFails, MarkSent, MarkFailed, MarkFails
<1>5. resets'[e] = 0
  BY <1>1, <1>2
  DEF Next, vars, RelayStep, RelayFault, rowVars, Insert, Tick, Start,
      ResetStaleProcessingEvents, Stale, StartWithoutReset, Stop, Poll,
      BeginEvent, Claim, ClaimRefused, ClaimFails, ClaimUnacknowledged,
      Publish, PublishFails, MarkSent, MarkFailed, MarkFails
<1> QED
  BY <1>3, <1>4, <1>5

\* The topic only grows.
LEMMA PublishedStable ==
  ASSUME Typed, [Next]_vars, NEW e \in Events, Published(e)
  PROVE  Published(e)'
<1> USE DEF Typed, TypeOK, HoldsEvent
<1>1. CASE topic' = topic
  BY <1>1 DEF Published
<1>2. CASE \E r \in Relays : stage[r] = "publish" /\ topic' = Append(topic, current[r])
  BY <1>2, AppendCounts
<1> QED
  BY <1>1, <1>2
  DEF Next, vars, RelayStep, RelayFault, rowVars, Insert, Tick, Start,
      StartWithoutReset, Stop, Poll, BeginEvent, Claim, ClaimRefused,
      ClaimFails, ClaimUnacknowledged, Publish, PublishFails, MarkSent,
      MarkFailed, MarkFails

LEMMA SentStagePublishedNext ==
  Typed /\ SentStagePublished /\ [Next]_vars => SentStagePublished'
<1> SUFFICES ASSUME Typed, SentStagePublished, [Next]_vars,
                    NEW r \in Relays, stage'[r] = "sent"
             PROVE  Published(current[r])' /\ current'[r] = current[r]
  BY DEF SentStagePublished, Published
<1> USE DEF Typed, TypeOK, HoldsEvent, Stages
<1>1. CASE stage[r] = "sent" /\ current'[r] = current[r]
  <2>1. current[r] \in Events
    BY <1>1
  <2> QED
    BY <1>1, <2>1, PublishedStable DEF SentStagePublished
<1>2. CASE Publish(r)
  <2>1. current[r] \in Events
    BY <1>2 DEF Publish
  <2> QED
    BY <1>2, <2>1, AppendCounts DEF Publish
<1> QED
  BY <1>1, <1>2
  DEF Next, vars, RelayStep, RelayFault, rowVars, Insert, Tick, Start,
      StartWithoutReset, Stop, Poll, BeginEvent, Claim, ClaimRefused,
      ClaimFails, ClaimUnacknowledged, Publish, PublishFails, MarkSent,
      MarkFailed, MarkFails, EndEvent

LEMMA SentIsPublishedNext ==
  Typed /\ SentStagePublished /\ SentIsPublished /\ [Next]_vars => SentIsPublished'
<1> SUFFICES ASSUME Typed, SentStagePublished, SentIsPublished, [Next]_vars,
                    NEW e \in Events, status'[e] = "SENT"
             PROVE  Published(e)'
  BY DEF SentIsPublished
<1>1. CASE status[e] = "SENT"
  BY <1>1, PublishedStable DEF SentIsPublished
<1>2. CASE \E r \in Relays : stage[r] = "sent" /\ current[r] = e
  BY <1>2, PublishedStable DEF SentStagePublished
<1> QED
  BY <1>1, <1>2
  DEF Typed, TypeOK, Next, vars, RelayStep, RelayFault, rowVars, Insert, Tick, Start,
      ResetStaleProcessingEvents, Stale, StartWithoutReset, Stop, Poll,
      BeginEvent, Claim, ClaimRefused, ClaimFails, ClaimUnacknowledged,
      Publish, PublishFails, MarkSent, MarkFailed, MarkFails, EndEvent,
      MarkEventAsProcessing, MarkEventAsSent, MarkEventAsFailed

LEMMA FailedNeverRequeuedNext ==
  Typed /\ AbsentUntouched /\ FailedNeverRequeued /\ [Next]_vars => FailedNeverRequeued'
<1> SUFFICES ASSUME Typed, FailedNeverRequeued, [Next]_vars,
                    NEW e \in Events, retryCount'[e] > 0
             PROVE  status'[e] \in {"FAILED", "SENT"}
  BY DEF FailedNeverRequeued
<1> USE DEF Typed, TypeOK, HoldsEvent, FailedNeverRequeued
<1>1. CASE \E r \in Relays : MarkFailed(r) /\ current[r] = e
  BY <1>1 DEF MarkFailed, MarkEventAsFailed
<1>2. CASE retryCount'[e] = retryCount[e]
  <2>1. status[e] \in {"FAILED", "SENT"}
    BY <1>2
  <2> QED
    BY <2>1
    DEF Next, vars, RelayStep, RelayFault, rowVars, Insert, Tick, Start,
        ResetStaleProcessingEvents, Stale, StartWithoutReset, Stop, Poll,
        BeginEvent, Claim, ClaimRefused, ClaimFails, ClaimUnacknowledged,
        Publish, PublishFails, MarkSent, MarkFailed, MarkFails,
        MarkEventAsProcessing, MarkEventAsSent, MarkEventAsFailed
<1> QED
  BY <1>1, <1>2
  DEF Next, vars, RelayStep, RelayFault, rowVars, Insert, Tick, Start,
      ResetStaleProcessingEvents, StartWithoutReset, Stop, Poll, BeginEvent,
      Claim, ClaimRefused, ClaimFails, ClaimUnacknowledged, Publish,
      PublishFails, MarkSent, MarkFailed, MarkFails, MarkEventAsProcessing,
      MarkEventAsSent, MarkEventAsFailed

LEMMA FreshSnapshotsNext ==
  Typed /\ FailedNeverRequeued /\ FreshSnapshots /\ [Next]_vars => FreshSnapshots'
<1> SUFFICES ASSUME Typed, FailedNeverRequeued, FreshSnapshots, [Next]_vars,
                    NEW r \in Relays, NEW s \in batch'[r]
             PROVE  s.retryCount = 0
  BY DEF FreshSnapshots
<1> USE DEF Typed, TypeOK
<1>1. CASE s \in batch[r]
  BY <1>1 DEF FreshSnapshots
<1>2. CASE Poll(r)
  <2>1. PICK e \in Pending : s = [event |-> e, retryCount |-> retryCount[e]]
    BY <1>2 DEF Poll
  <2>2. retryCount[e] \in Nat /\ ~(retryCount[e] > 0)
    BY <2>1 DEF FailedNeverRequeued, Pending
  <2> QED
    BY <2>1, <2>2
<1>3. CASE \E q \in Relays \ {r} : Poll(q)
  BY <1>1, <1>3 DEF Poll
<1>4. CASE \E q \in Relays : BeginEvent(q)
  BY <1>1, <1>4 DEF BeginEvent
<1>5. CASE \E q \in Relays : Stop(q)
  BY <1>1, <1>5 DEF Stop
<1>6. CASE batch' = batch
  BY <1>1, <1>6
<1> QED
  BY <1>2, <1>3, <1>4, <1>5, <1>6
  DEF Next, vars, RelayStep, RelayFault, rowVars, Insert, Tick, Start,
      StartWithoutReset, Claim, ClaimRefused, ClaimFails, ClaimUnacknowledged,
      Publish, PublishFails, MarkSent, MarkFailed, MarkFails, EndEvent

-----------------------------------------------------------------------------
(* The budgets.                                                              *)

LEMMA HoldersType ==
  ASSUME NEW e \in Events
  PROVE  /\ Holders(e) \in SUBSET Relays /\ Holders(e)' \in SUBSET Relays
         /\ Publishers(e) \in SUBSET Relays /\ Publishers(e)' \in SUBSET Relays
BY DEF Holders, Publishers

LEMMA SameCopies ==
  ASSUME topic' = topic, NEW e \in Events
  PROVE  Copies(e)' = Copies(e)
BY DEF Copies, Positions

\* A row that no relay gains, that does not become NEW and whose message is
\* not appended stays within its budget.
LEMMA QuietBudget ==
  ASSUME Typed, OwnerBudget, NEW e \in Events, NEW k \in Nat, Paid(e, k),
         Holders(e)' \subseteq Holders(e), Publishers(e)' \subseteq Publishers(e),
         status'[e] = "NEW" => status[e] = "NEW",
         topic' = topic, resets'[e] = resets[e]
  PROVE  /\ Copies(e)' + Cardinality(Publishers(e)') + Unclaimed(e)' <= 1 + resets'[e] + k
         /\ Cardinality(Holders(e)') + Unclaimed(e)' <= 1 + resets'[e]
<1>1. /\ Copies(e) \in Nat
      /\ Copies(e)' = Copies(e)
  BY CopiesType, SameCopies DEF Typed
<1>2. /\ Copies(e) + Cardinality(Publishers(e)) + Unclaimed(e) <= 1 + resets[e] + k
      /\ Cardinality(Holders(e)) + Unclaimed(e) <= 1 + resets[e]
  BY DEF Paid, OwnerBudget
<1>3. CASE Relays = {}
  <2>1. Holders(e)' = Holders(e) /\ Publishers(e)' = Publishers(e)
    BY <1>3 DEF Holders, Publishers
  <2>2. Holders(e) = {} /\ Publishers(e) = {}
    BY <1>3 DEF Holders, Publishers
  <2> QED
    BY <1>1, <1>2, <2>1, <2>2, FS_EmptySet DEF Unclaimed, Typed, TypeOK
<1>4. CASE Relays # {}
  <2>1. PICK r \in Relays : TRUE
    BY <1>4
  <2>2. /\ Cardinality(Holders(e)) \in Nat
        /\ Cardinality(Holders(e)') \in Nat
        /\ Cardinality(Publishers(e)) \in Nat
        /\ Cardinality(Publishers(e)') \in Nat
        /\ Cardinality(Holders(e)') <= Cardinality(Holders(e))
        /\ Cardinality(Publishers(e)') <= Cardinality(Publishers(e))
    BY <2>1, HoldersType, RelayCounts
  <2>3. resets[e] \in Nat
    BY DEF Typed, TypeOK
  <2> QED
    BY <1>1, <1>2, <2>2, <2>3 DEF Unclaimed
<1> QED
  BY <1>3, <1>4

\* A step of a relay, the service or the clock keeps every row within its
\* budget, whatever else was paid into it.
LEMMA BudgetStep ==
  ASSUME Typed, AbsentUntouched, FreshSnapshots, OwnerBudget, [Next]_vars,
         NEW e \in Events, NEW k \in Nat, Paid(e, k)
  PROVE  /\ Copies(e)' + Cardinality(Publishers(e)') + Unclaimed(e)' <= 1 + resets'[e] + k
         /\ Cardinality(Holders(e)') + Unclaimed(e)' <= 1 + resets'[e]
<1> DEFINE Goal ==
    /\ Copies(e)' + Cardinality(Publishers(e)') + Unclaimed(e)' <= 1 + resets'[e] + k
    /\ Cardinality(Holders(e)') + Unclaimed(e)' <= 1 + resets'[e]
<1>a. /\ Copies(e) + Cardinality(Publishers(e)) + Unclaimed(e) <= 1 + resets[e] + k
      /\ Cardinality(Holders(e)) + Unclaimed(e) <= 1 + resets[e]
  BY DEF Paid, OwnerBudget
<1>b. Copies(e) \in Nat /\ resets[e] \in Nat
  BY CopiesType DEF Typed, TypeOK
<1>1. ASSUME NEW x \in Events, Insert(x) PROVE Goal
  <2>1. CASE x = e
    <3>1. /\ ~Published(e)
          /\ \A r \in Relays : current[r] # e
      BY <1>1, <2>1 DEF Insert, AbsentUntouched
    <3>2. Positions(e) = {} /\ Holders(e) = {} /\ Publishers(e) = {}
      BY <3>1 DEF Published, Positions, Holders, Publishers
    <3>3. /\ Copies(e)' = Copies(e)
          /\ Holders(e)' = Holders(e)
          /\ Publishers(e)' = Publishers(e)
          /\ resets'[e] = resets[e]
      BY <1>1, SameCopies DEF Insert, Holders, Publishers
    <3>4. Copies(e) = 0
      BY <3>2, FS_EmptySet DEF Copies
    <3> QED
      BY <1>b, <3>2, <3>3, <3>4, FS_EmptySet DEF Unclaimed
  <2>2. CASE x # e
    BY <1>1, <2>2, QuietBudget DEF Insert, Holders, Publishers, Typed, TypeOK
  <2> QED
    BY <2>1, <2>2
<1>2. ASSUME Tick PROVE Goal
  BY <1>2, QuietBudget DEF Tick, Holders, Publishers
<1>3. ASSUME NEW r \in Relays, Start(r) PROVE Goal
  <2>1. Holders(e)' = Holders(e) /\ Publishers(e)' = Publishers(e)
    BY <1>3 DEF Start, Holders, Publishers, Typed, TypeOK
  <2>2. Copies(e)' = Copies(e)
    BY <1>3, SameCopies DEF Start
  <2>3. \/ Unclaimed(e)' = Unclaimed(e) /\ resets'[e] = resets[e]
        \/ Unclaimed(e) = 0 /\ Unclaimed(e)' = 1 /\ resets'[e] = resets[e] + 1
    BY <1>3 DEF Start, ResetStaleProcessingEvents, Stale, Unclaimed, Typed, TypeOK
  <2>4. Cardinality(Holders(e)) \in Nat /\ Cardinality(Publishers(e)) \in Nat
    BY HoldersType, RelayCounts
  <2> QED
    BY <1>a, <1>b, <2>1, <2>2, <2>3, <2>4 DEF Unclaimed
<1>4. ASSUME NEW r \in Relays, Poll(r) PROVE Goal
  BY <1>4, QuietBudget DEF Poll, rowVars, Holders, Publishers
<1>5. ASSUME NEW r \in Relays, BeginEvent(r) PROVE Goal
  <2>1. PICK s \in batch[r] :
          stage' = [stage EXCEPT ![r] =
                      IF s.retryCount >= MaxRetries THEN "failed" ELSE "claim"]
    BY <1>5 DEF BeginEvent
  <2>2. s.retryCount = 0
    BY <2>1 DEF FreshSnapshots
  <2>3. stage' = [stage EXCEPT ![r] = "claim"]
    <3>1. ~(s.retryCount >= MaxRetries)
      BY <2>2, ParametersAssumption
    <3> QED
      BY <2>1, <3>1
  <2>4. Holders(e)' \subseteq Holders(e) /\ Publishers(e)' \subseteq Publishers(e)
    BY <1>5, <2>3 DEF BeginEvent, Holders, Publishers, Typed, TypeOK
  <2> QED
    BY <1>5, <2>4, QuietBudget DEF BeginEvent, rowVars
<1>6. ASSUME NEW r \in Relays, Claim(r) PROVE Goal
  <2>1. CASE current[r] = e
    <3>1. Holders(e)' \subseteq Holders(e) \cup {r}
          /\ Publishers(e)' \subseteq Publishers(e) \cup {r}
      BY <1>6 DEF Claim, Holders, Publishers, Typed, TypeOK
    <3>2. /\ Cardinality(Holders(e)') <= Cardinality(Holders(e)) + 1
          /\ Cardinality(Publishers(e)') <= Cardinality(Publishers(e)) + 1
          /\ Cardinality(Holders(e)) \in Nat
          /\ Cardinality(Holders(e)') \in Nat
          /\ Cardinality(Publishers(e)) \in Nat
          /\ Cardinality(Publishers(e)') \in Nat
      BY <3>1, HoldersType, RelayCounts
    <3>3. Unclaimed(e) = 1 /\ Unclaimed(e)' = 0
      BY <1>6, <2>1 DEF Claim, MarkEventAsProcessing, Unclaimed, Typed, TypeOK
    <3>4. Copies(e)' = Copies(e) /\ resets'[e] = resets[e]
      BY <1>6, SameCopies DEF Claim
    <3> QED
      BY <1>a, <1>b, <3>2, <3>3, <3>4
  <2>2. CASE current[r] # e
    BY <1>6, <2>2, QuietBudget
    DEF Claim, MarkEventAsProcessing, Holders, Publishers, Typed, TypeOK, HoldsEvent
  <2> QED
    BY <2>1, <2>2
<1>7. ASSUME NEW r \in Relays, ClaimRefused(r) PROVE Goal
  BY <1>7, QuietBudget
  DEF ClaimRefused, EndEvent, rowVars, Holders, Publishers, Typed, TypeOK
<1>8. ASSUME NEW r \in Relays, Publish(r) \/ PublishFails(r) PROVE Goal
  <2>1. current[r] \in Events /\ stage[r] = "publish"
    BY <1>8 DEF Publish, PublishFails, Typed, HoldsEvent
  <2>2. Holders(e)' = Holders(e)
    BY <1>8, <2>1 DEF Publish, PublishFails, Holders, Typed, TypeOK
  <2>3. Publishers(e)' \subseteq Publishers(e) \ {r}
    BY <1>8, <2>1 DEF Publish, PublishFails, Publishers, Typed, TypeOK
  <2>4. Unclaimed(e)' = Unclaimed(e) /\ resets'[e] = resets[e]
    BY <1>8 DEF Publish, PublishFails, rowVars, Unclaimed
  <2>5. /\ Cardinality(Holders(e)) \in Nat
        /\ Cardinality(Publishers(e)) \in Nat
        /\ Cardinality(Publishers(e)') \in Nat
        /\ Cardinality(Publishers(e)') <= Cardinality(Publishers(e))
        /\ r \in Publishers(e) => Cardinality(Publishers(e)') <= Cardinality(Publishers(e)) - 1
    BY <2>3, HoldersType, RelayCounts
  <2>6. topic' = topic \/ topic' = Append(topic, current[r])
    BY <1>8 DEF Publish, PublishFails
  <2>7. \/ Copies(e)' = Copies(e)
        \/ Copies(e)' = Copies(e) + 1 /\ r \in Publishers(e)
    <3>1. CASE topic' = topic
      BY <3>1, SameCopies
    <3>2. CASE topic' = Append(topic, current[r])
      <4>1. CASE current[r] = e
        BY <2>1, <3>2, <4>1, AppendCounts DEF Publishers, Typed
      <4>2. CASE current[r] # e
        BY <2>1, <3>2, <4>2, AppendCounts DEF Typed
      <4> QED
        BY <4>1, <4>2
    <3> QED
      BY <2>6, <3>1, <3>2
  <2> QED
    BY <1>a, <1>b, <2>2, <2>4, <2>5, <2>7 DEF Unclaimed
<1>9. ASSUME NEW r \in Relays, MarkSent(r) \/ MarkFailed(r) PROVE Goal
  <2>1. Holders(e)' \subseteq Holders(e) /\ Publishers(e)' \subseteq Publishers(e)
    BY <1>9 DEF MarkSent, MarkFailed, EndEvent, Holders, Publishers, Typed, TypeOK
  <2>2. status'[e] = "NEW" => status[e] = "NEW"
    BY <1>9 DEF MarkSent, MarkFailed, MarkEventAsSent, MarkEventAsFailed, Typed, TypeOK
  <2> QED
    BY <1>9, <2>1, <2>2, QuietBudget DEF MarkSent, MarkFailed
<1>10. ASSUME NEW r \in Relays, StartWithoutReset(r) PROVE Goal
  BY <1>10, QuietBudget
  DEF StartWithoutReset, rowVars, Holders, Publishers, Typed, TypeOK
<1>11. ASSUME NEW r \in Relays, Stop(r) PROVE Goal
  BY <1>11, QuietBudget DEF Stop, rowVars, Holders, Publishers, Typed, TypeOK
<1>12. ASSUME NEW r \in Relays, ClaimFails(r) PROVE Goal
  BY <1>12, QuietBudget
  DEF ClaimFails, EndEvent, rowVars, Holders, Publishers, Typed, TypeOK
<1>13. ASSUME NEW r \in Relays, ClaimUnacknowledged(r) PROVE Goal
  BY <1>13, QuietBudget
  DEF ClaimUnacknowledged, MarkEventAsProcessing, EndEvent, Holders, Publishers,
      Typed, TypeOK
<1>14. ASSUME NEW r \in Relays, MarkFails(r) PROVE Goal
  BY <1>14, QuietBudget
  DEF MarkFails, EndEvent, rowVars, Holders, Publishers, Typed, TypeOK
<1>15. ASSUME UNCHANGED vars PROVE Goal
  BY <1>15, QuietBudget DEF vars, Holders, Publishers
<1> QED
  BY <1>1, <1>2, <1>3, <1>4, <1>5, <1>6, <1>7, <1>8, <1>9, <1>10, <1>11,
     <1>12, <1>13, <1>14, <1>15
  DEF Next, RelayStep, RelayFault

LEMMA BudgetNext ==
  /\ Typed /\ AbsentUntouched /\ FreshSnapshots /\ CopyBudget /\ OwnerBudget
  /\ [Next]_vars
  => CopyBudget' /\ OwnerBudget'
<1> SUFFICES ASSUME Typed, AbsentUntouched, FreshSnapshots, CopyBudget,
                    OwnerBudget, [Next]_vars, NEW e \in Events
    PROVE /\ Copies(e)' + Cardinality(Publishers(e)') + Unclaimed(e)' <= 1 + resets'[e]
          /\ Cardinality(Holders(e)') + Unclaimed(e)' <= 1 + resets'[e]
  BY DEF CopyBudget, OwnerBudget
<1>1. resets[e] \in Nat /\ resets'[e] \in Nat
  BY TypedNext DEF Typed, TypeOK
<1>2. Paid(e, 0)
  BY <1>1 DEF CopyBudget, Paid
<1>3. /\ Copies(e)' + Cardinality(Publishers(e)') + Unclaimed(e)' <= 1 + resets'[e] + 0
      /\ Cardinality(Holders(e)') + Unclaimed(e)' <= 1 + resets'[e]
  BY <1>2, BudgetStep
<1> QED
  BY <1>1, <1>3

\* A relay about to mark e owns it; without a reset it is the only one.
LEMMA SoleOwner ==
  ASSUME Typed, OwnerBudget, NEW r \in Relays, NEW e \in Events,
         stage[r] \in {"sent", "failed"}, current[r] = e, resets[e] = 0
  PROVE  status[e] # "NEW" /\ Holders(e) = {r}
<1>1. r \in Holders(e) /\ IsFiniteSet(Holders(e))
  BY HoldersType, RelaysAssumption, FS_Subset DEF Holders
<1>2. Cardinality(Holders(e)) \in Nat /\ Cardinality(Holders(e)) # 0
  BY <1>1, FS_EmptySet, FS_CardinalityType
<1>3. Cardinality(Holders(e)) + Unclaimed(e) <= 1
  BY DEF OwnerBudget
<1>4. Cardinality(Holders(e)) = 1 /\ Unclaimed(e) = 0
  BY <1>2, <1>3 DEF Unclaimed
<1>5. Holders(e) = {r}
  BY <1>1, <1>4, FS_Singleton
<1> QED
  BY <1>4, <1>5 DEF Unclaimed

LEMMA MarkedUnownedNext ==
  Typed /\ FreshSnapshots /\ OwnerBudget /\ MarkedUnowned /\ [Next]_vars
    => MarkedUnowned'
<1> SUFFICES ASSUME Typed, FreshSnapshots, OwnerBudget, MarkedUnowned, [Next]_vars,
                    NEW e \in Events, status'[e] \in {"SENT", "FAILED"}, resets'[e] = 0
             PROVE  Holders(e)' = {}
  BY DEF MarkedUnowned
<1> USE DEF Typed, TypeOK, HoldsEvent
<1>1. resets[e] = 0
  BY DEF Next, vars, RelayStep, RelayFault, rowVars, Insert, Tick, Start,
         ResetStaleProcessingEvents, StartWithoutReset, Stop, Poll, BeginEvent,
         Claim, ClaimRefused, ClaimFails, ClaimUnacknowledged, Publish,
         PublishFails, MarkSent, MarkFailed, MarkFails
<1>2. CASE \E r \in Relays : (MarkSent(r) \/ MarkFailed(r)) /\ current[r] = e
  <2>1. PICK r \in Relays : (MarkSent(r) \/ MarkFailed(r)) /\ current[r] = e
    BY <1>2
  <2>2. Holders(e) = {r}
    BY <1>1, <2>1, SoleOwner DEF MarkSent, MarkFailed
  <2>3. Holders(e)' \subseteq Holders(e) \ {r}
    BY <2>1 DEF MarkSent, MarkFailed, EndEvent, Holders
  <2> QED
    BY <2>2, <2>3
<1>3. CASE ~\E r \in Relays : (MarkSent(r) \/ MarkFailed(r)) /\ current[r] = e
  <2>1. status[e] \in {"SENT", "FAILED"}
    BY <1>3
    DEF Next, vars, RelayStep, RelayFault, rowVars, Insert, Tick, Start,
        ResetStaleProcessingEvents, Stale, StartWithoutReset, Stop, Poll,
        BeginEvent, Claim, ClaimRefused, ClaimFails, ClaimUnacknowledged,
        Publish, PublishFails, MarkSent, MarkFailed, MarkFails,
        MarkEventAsProcessing, MarkEventAsSent, MarkEventAsFailed
  <2>2. Holders(e) = {}
    BY <1>1, <2>1 DEF MarkedUnowned
  <2>3. ASSUME NEW r \in Relays, r \in Holders(e)' PROVE r \in Holders(e)
    <3>1. CASE stage'[r] = stage[r] /\ current'[r] = current[r]
      BY <2>3, <3>1 DEF Holders
    <3>2. CASE BeginEvent(r)
      <4>1. PICK s \in batch[r] :
              stage' = [stage EXCEPT ![r] =
                          IF s.retryCount >= MaxRetries THEN "failed" ELSE "claim"]
        BY <3>2 DEF BeginEvent
      <4>2. ~(s.retryCount >= MaxRetries)
        BY <4>1, ParametersAssumption DEF FreshSnapshots
      <4>3. stage'[r] = "claim"
        BY <4>1, <4>2
      <4> QED
        BY <2>3, <4>3 DEF Holders
    <3>3. CASE Claim(r)
      BY <2>1, <2>3, <3>3 DEF Claim, MarkEventAsProcessing, Holders
    <3>4. CASE Publish(r) \/ PublishFails(r)
      BY <2>3, <3>4 DEF Publish, PublishFails, Holders
    <3>5. CASE stage'[r] \in {"down", "loop"}
      BY <2>3, <3>5 DEF Holders
    <3> QED
      BY <3>1, <3>2, <3>3, <3>4, <3>5
      DEF Next, vars, RelayStep, RelayFault, rowVars, Insert, Tick, Start,
          StartWithoutReset, Stop, Poll, BeginEvent, Claim, ClaimRefused,
          ClaimFails, ClaimUnacknowledged, Publish, PublishFails, MarkSent,
          MarkFailed, MarkFails, EndEvent
  <2> QED
    BY <2>2, <2>3, HoldersType
<1> QED
  BY <1>2, <1>3

-----------------------------------------------------------------------------
(* The invariant and what follows from it.                                   *)

LEMMA InvInit == Init => IInv
<1> SUFFICES ASSUME Init PROVE IInv
  OBVIOUS
<1>1. Typed
  BY TypedInit
<1>2. AbsentUntouched /\ SentStagePublished /\ SentIsPublished
      /\ FailedNeverRequeued /\ FreshSnapshots /\ MarkedUnowned
  BY EventsAssumption
  DEF Init, AbsentUntouched, SentStagePublished, SentIsPublished, Published,
      FailedNeverRequeued, FreshSnapshots, MarkedUnowned, NoEvent
<1>3. CopyBudget /\ OwnerBudget
  <2>1. ASSUME NEW e \in Events
        PROVE  Positions(e) = {} /\ Publishers(e) = {} /\ Holders(e) = {}
    BY DEF Init, Positions, Publishers, Holders
  <2>2. \A e \in Events : Unclaimed(e) = 0 /\ resets[e] = 0
    BY DEF Init, Unclaimed
  <2> QED
    BY <2>1, <2>2, FS_EmptySet DEF CopyBudget, OwnerBudget, Copies
<1> QED
  BY <1>1, <1>2, <1>3 DEF IInv, Typed

LEMMA InvNext == IInv /\ [Next]_vars => IInv'
BY TypedNext, AbsentUntouchedNext, SentStagePublishedNext, SentIsPublishedNext,
   FailedNeverRequeuedNext, FreshSnapshotsNext, BudgetNext, MarkedUnownedNext
DEF IInv, Typed

THEOREM Invariance == Spec => []IInv
BY InvInit, InvNext, PTL DEF Spec

\* A row is SENT only if its message is in the topic, through crashes, lost
\* acknowledgements and unconditional marks of any number of relays.
THEOREM SentImpliesPublished == Spec => []SentIsPublished
<1>1. IInv => SentIsPublished
  BY DEF IInv
<1> QED
  BY Invariance, <1>1, PTL

\* A message is in the topic at most once more than its row was reset.
THEOREM DuplicatesBounded == Spec => []CopiesBounded
<1>1. IInv => CopiesBounded
  <2> SUFFICES ASSUME IInv, NEW e \in Events PROVE Copies(e) <= 1 + resets[e]
    BY DEF CopiesBounded
  <2>1. Copies(e) + Cardinality(Publishers(e)) + Unclaimed(e) <= 1 + resets[e]
    BY DEF IInv, CopyBudget
  <2>2. IsFiniteSet(Publishers(e))
    BY HoldersType, RelaysAssumption, FS_Subset
  <2>3. Copies(e) \in Nat /\ Cardinality(Publishers(e)) \in Nat /\ resets[e] \in Nat
    BY <2>2, CopiesType, FS_CardinalityType DEF IInv, TypeOK
  <2> QED
    BY <2>1, <2>3 DEF Unclaimed
<1> QED
  BY Invariance, <1>1, PTL

\* Relays that own one event at a time are at most one more than its resets.
THEOREM OwnersBounded == Spec => []ClaimExclusive
<1>1. IInv => ClaimExclusive
  <2> SUFFICES ASSUME IInv, NEW e \in Events
               PROVE  Cardinality(Holders(e)) <= 1 + resets[e]
    BY DEF ClaimExclusive
  <2>1. Cardinality(Holders(e)) + Unclaimed(e) <= 1 + resets[e]
    BY DEF IInv, OwnerBudget
  <2>2. IsFiniteSet(Holders(e))
    BY HoldersType, RelaysAssumption, FS_Subset
  <2>3. Cardinality(Holders(e)) \in Nat /\ resets[e] \in Nat
    BY <2>2, FS_CardinalityType DEF IInv, TypeOK
  <2> QED
    BY <2>1, <2>3 DEF Unclaimed
<1> QED
  BY Invariance, <1>1, PTL

\* A row that failed once is never NEW or PROCESSING again.
THEOREM NoRetry == Spec => []FailedNeverRequeued
<1>1. IInv => FailedNeverRequeued
  BY DEF IInv
<1> QED
  BY Invariance, <1>1, PTL

\* Unless its row was reset, a SENT or FAILED mark is never overwritten.
THEOREM MarksFinal == Spec => MarkFinalUnlessReset
<1>1. IInv /\ [Next]_vars =>
        [\A e \in Events :
            status[e] \in {"SENT", "FAILED"} /\ resets[e] = 0
                => status'[e] = status[e]]_vars
  <2> SUFFICES ASSUME IInv, [Next]_vars, NEW e \in Events,
                      status[e] \in {"SENT", "FAILED"}, resets[e] = 0
               PROVE  status'[e] = status[e]
    OBVIOUS
  <2>1. Holders(e) = {}
    BY DEF IInv, MarkedUnowned
  <2>2. ASSUME NEW r \in Relays, stage[r] \in {"sent", "failed"} PROVE current[r] # e
    BY <2>1, <2>2 DEF Holders
  <2> QED
    BY <2>2
    DEF IInv, TypeOK, Next, vars, RelayStep, RelayFault, rowVars, Insert, Tick, Start,
        ResetStaleProcessingEvents, Stale, StartWithoutReset, Stop, Poll,
        BeginEvent, Claim, ClaimRefused, ClaimFails, ClaimUnacknowledged,
        Publish, PublishFails, MarkSent, MarkFailed, MarkFails,
        MarkEventAsProcessing, MarkEventAsSent, MarkEventAsFailed
<1> QED
  BY Invariance, <1>1, PTL DEF Spec, MarkFinalUnlessReset

-----------------------------------------------------------------------------
(* Stranded rows.                                                            *)

\* A row is stranded by a relay that has it in hand and meets a fault.
LEMMA StrandedBy ==
  ASSUME Typed, [Next]_vars, NEW e \in Stranded', e \notin Stranded
  PROVE  \E r \in Relays : /\ current[r] = e
                           /\ Stop(r) \/ ClaimUnacknowledged(r) \/ MarkFails(r)
<1> USE DEF Typed, TypeOK, HoldsEvent, Stages
<1>1. e \in Events /\ status'[e] = "PROCESSING" /\ Holders(e)' = {}
  BY DEF Stranded
<1>2. CASE status[e] # "PROCESSING"
  <2>1. PICK r \in Relays : current[r] = e /\ (Claim(r) \/ ClaimUnacknowledged(r))
    BY <1>1, <1>2
    DEF Next, vars, RelayStep, RelayFault, rowVars, Insert, Tick, Start,
        ResetStaleProcessingEvents, Stale, StartWithoutReset, Stop, Poll,
        BeginEvent, Claim, ClaimRefused, ClaimFails, ClaimUnacknowledged,
        Publish, PublishFails, MarkSent, MarkFailed, MarkFails,
        MarkEventAsProcessing, MarkEventAsSent, MarkEventAsFailed
  <2>2. ~Claim(r)
    BY <1>1, <2>1 DEF Claim, Holders
  <2> QED
    BY <2>1, <2>2
<1>3. CASE status[e] = "PROCESSING"
  <2>1. PICK r \in Relays : current[r] = e /\ stage[r] \in {"publish", "sent", "failed"}
    BY <1>1, <1>3 DEF Stranded, Holders
  <2>2. ~(current'[r] = e /\ stage'[r] \in {"publish", "sent", "failed"})
    BY <1>1, <2>1 DEF Holders
  <2>3. ~MarkSent(r) /\ ~MarkFailed(r)
    BY <1>1, <2>1 DEF MarkSent, MarkFailed, MarkEventAsSent, MarkEventAsFailed
  <2>4. ~Publish(r) /\ ~PublishFails(r)
    BY <2>1, <2>2 DEF Publish, PublishFails
  <2>5. Stop(r) \/ MarkFails(r)
    BY <2>1, <2>2, <2>3, <2>4
    DEF Next, vars, RelayStep, RelayFault, rowVars, Insert, Tick, Start,
        StartWithoutReset, Stop, Poll, BeginEvent, Claim, ClaimRefused,
        ClaimFails, ClaimUnacknowledged, Publish, PublishFails, MarkSent,
        MarkFailed, MarkFails, EndEvent
  <2> QED
    BY <2>1, <2>5
<1> QED
  BY <1>2, <1>3

StrandedInv == IsFiniteSet(Stranded) /\ StrandedBounded

LEMMA StrandedNext == Typed /\ StrandedInv /\ [Next]_vars => StrandedInv'
<1> SUFFICES ASSUME Typed, StrandedInv, [Next]_vars PROVE StrandedInv'
  OBVIOUS
<1>1. /\ IsFiniteSet(Stranded) /\ Cardinality(Stranded) \in Nat
      /\ Cardinality(Stranded) <= faults /\ faults \in Nat /\ faults' \in Nat
  BY TypedNext, FS_CardinalityType DEF StrandedInv, StrandedBounded, Typed, TypeOK
<1>2. CASE Stranded' \subseteq Stranded
  <2>1. IsFiniteSet(Stranded') /\ Cardinality(Stranded') <= Cardinality(Stranded)
    BY <1>1, <1>2, FS_Subset
  <2>2. Cardinality(Stranded') \in Nat
    BY <2>1, FS_CardinalityType
  <2>3. faults' = faults \/ faults' = faults + 1
    BY DEF Next, vars, RelayStep, RelayFault, Insert, Tick, Start, Fault, NoFault,
           StartWithoutReset, Stop, Poll, BeginEvent, Claim, ClaimRefused,
           ClaimFails, ClaimUnacknowledged, Publish, PublishFails, MarkSent,
           MarkFailed, MarkFails
  <2>4. Cardinality(Stranded') <= faults'
    BY <1>1, <2>1, <2>2, <2>3
  <2> QED
    BY <2>1, <2>4 DEF StrandedInv, StrandedBounded
<1>3. CASE ~(Stranded' \subseteq Stranded)
  <2>1. PICK e \in Stranded' : e \notin Stranded
    BY <1>3
  <2>2. PICK r \in Relays : /\ current[r] = e
                            /\ Stop(r) \/ ClaimUnacknowledged(r) \/ MarkFails(r)
    BY <2>1, StrandedBy
  <2>3. faults' = faults + 1
    BY <2>2 DEF Stop, ClaimUnacknowledged, MarkFails, Fault
  <2>4. ASSUME NEW f \in Stranded', f \notin Stranded PROVE f = e
    <3>1. PICK q \in Relays : /\ current[q] = f
                              /\ Stop(q) \/ ClaimUnacknowledged(q) \/ MarkFails(q)
      BY <2>4, StrandedBy
    <3>2. stage'[q] # stage[q] /\ stage'[r] # stage[r]
      BY <2>2, <3>1 DEF Stop, ClaimUnacknowledged, MarkFails, EndEvent, Typed, TypeOK
    <3>3. q = r
      BY <2>2, <3>2 DEF Stop, ClaimUnacknowledged, MarkFails, EndEvent, Typed, TypeOK
    <3> QED
      BY <2>2, <3>1, <3>3
  <2>5. Stranded' \subseteq Stranded \cup {e}
    BY <2>4
  <2>6. /\ IsFiniteSet(Stranded \cup {e})
        /\ Cardinality(Stranded \cup {e}) \in {Cardinality(Stranded), Cardinality(Stranded) + 1}
    BY <1>1, FS_AddElement
  <2>7. IsFiniteSet(Stranded') /\ Cardinality(Stranded') <= Cardinality(Stranded \cup {e})
    BY <2>5, <2>6, FS_Subset
  <2>8. Cardinality(Stranded') \in Nat
    BY <2>7, FS_CardinalityType
  <2>9. Cardinality(Stranded') <= faults'
    BY <1>1, <2>3, <2>6, <2>7, <2>8
  <2> QED
    BY <2>7, <2>9 DEF StrandedInv, StrandedBounded
<1> QED
  BY <1>2, <1>3

\* A fault strands at most one row, however many relays there are and however
\* large their batches.
THEOREM StrandedRowsBounded == Spec => []StrandedBounded
<1>1. Init => StrandedInv
  <2> SUFFICES ASSUME Init PROVE StrandedInv
    OBVIOUS
  <2>1. Stranded = {}
    BY DEF Init, Stranded
  <2>2. IsFiniteSet({}) /\ Cardinality({}) = 0
    BY FS_EmptySet
  <2> QED
    BY <2>1, <2>2 DEF Init, StrandedInv, StrandedBounded
<1>2. StrandedInv => StrandedBounded
  BY DEF StrandedInv
<1> QED
  BY TypedInit, TypedNext, StrandedNext, <1>1, <1>2, PTL DEF Spec
=============================================================================
