-------------------------- MODULE OutboxStreamProofs --------------------------
(***************************************************************************)
(* Proofs about OutboxStream: what was proved of the relays, with the      *)
(* backfill beside them.  The tool writes to no row, so that the parts of  *)
(* the relays' invariant that do not count messages hold as they are; the  *)
(* budget of a row is what its replays pay in addition.  The second part   *)
(* is about order with a single relay: every fault disturbs one event.     *)
(***************************************************************************)
EXTENDS OutboxStream, OutboxRelayProofs

Quiet ==
    /\ Typed
    /\ AbsentUntouched
    /\ SentStagePublished
    /\ SentIsPublished
    /\ FailedNeverRequeued
    /\ FreshSnapshots
    /\ OwnerBudget

StreamBudget == \A e \in Events : Paid(e, replays[e])

SInv ==
    /\ StreamTypeOK
    /\ Quiet
    /\ StreamBudget
    /\ BackfillOnlyRepeats

-----------------------------------------------------------------------------
(* Steps of the relays. *)

LEMMA CopiesGrow ==
  ASSUME Typed, [Next]_vars, NEW e \in Events
  PROVE  Copies(e)' \in Nat /\ Copies(e) <= Copies(e)'
<1>1. Copies(e) \in Nat
  BY CopiesType DEF Typed
<1>2. CASE topic' = topic
  BY <1>1, <1>2, SameCopies
<1>3. CASE \E r \in Relays : stage[r] = "publish" /\ topic' = Append(topic, current[r])
  <2>1. PICK r \in Relays : stage[r] = "publish" /\ topic' = Append(topic, current[r])
    BY <1>3
  <2>2. current[r] \in Events
    BY <2>1 DEF Typed, HoldsEvent
  <2>3. Copies(e)' = IF e = current[r] THEN Copies(e) + 1 ELSE Copies(e)
    BY <2>1, <2>2, AppendCounts DEF Typed
  <2> QED
    BY <1>1, <2>3
<1> QED
  BY <1>2, <1>3
  DEF Next, vars, RelayStep, RelayFault, rowVars, Insert, Tick, Start,
      StartWithoutReset, Stop, Poll, BeginEvent, Claim, ClaimRefused,
      ClaimFails, ClaimUnacknowledged, Publish, PublishFails, MarkSent,
      MarkFailed, MarkFails

LEMMA RelaysKeepSInv ==
  ASSUME SInv, [Next]_vars, UNCHANGED backfillVars
  PROVE  SInv'
<1>1. queue' = queue /\ replays' = replays /\ backfills' = backfills
  BY DEF backfillVars
<1>2. Typed'
  BY TypedNext DEF SInv, Quiet
<1>3. StreamTypeOK'
  BY <1>1, <1>2 DEF SInv, StreamTypeOK, Typed
<1>4. /\ AbsentUntouched' /\ SentStagePublished' /\ SentIsPublished'
      /\ FailedNeverRequeued' /\ FreshSnapshots'
  BY AbsentUntouchedNext, SentStagePublishedNext, SentIsPublishedNext,
     FailedNeverRequeuedNext, FreshSnapshotsNext
  DEF SInv, Quiet
<1>5. ASSUME NEW e \in Events
      PROVE  /\ Paid(e, replays[e])'
             /\ Cardinality(Holders(e)') + Unclaimed(e)' <= 1 + resets'[e]
  <2>1. PICK k \in Nat : k = replays[e]
    BY DEF SInv, StreamTypeOK
  <2>2. Paid(e, k)
    BY <2>1 DEF SInv, StreamBudget
  <2>3. /\ Copies(e)' + Cardinality(Publishers(e)') + Unclaimed(e)' <= 1 + resets'[e] + k
        /\ Cardinality(Holders(e)') + Unclaimed(e)' <= 1 + resets'[e]
    BY <2>2, BudgetStep DEF SInv, Quiet
  <2> QED
    BY <1>1, <2>1, <2>3 DEF Paid
<1>6. StreamBudget' /\ OwnerBudget'
  BY <1>5 DEF StreamBudget, OwnerBudget
<1>7. BackfillOnlyRepeats'
  <2> SUFFICES ASSUME NEW e \in Events, e \in queue \/ replays[e] > 0
               PROVE  Copies(e)' > replays[e]
    BY <1>1 DEF BackfillOnlyRepeats
  <2>1. Copies(e) > replays[e] /\ replays[e] \in Nat
    BY DEF SInv, BackfillOnlyRepeats, StreamTypeOK
  <2>2. Copies(e) \in Nat /\ Copies(e)' \in Nat /\ Copies(e) <= Copies(e)'
    BY CopiesType, CopiesGrow DEF SInv, Quiet, Typed
  <2> QED
    BY <2>1, <2>2
<1> QED
  BY <1>2, <1>3, <1>4, <1>6, <1>7 DEF SInv, Quiet

-----------------------------------------------------------------------------
(* Steps of the backfill. *)

\* The backfill leaves rows and relays alone.
RelaysAlone ==
    UNCHANGED <<status, retryCount, age, stage, batch, current, resets>>

\* What does not count messages holds while the topic only grows, by the
\* messages of rows that have one.
LEMMA QuietKept ==
  ASSUME Quiet, RelaysAlone, faults' \in Nat, topic' \in Seq(Events),
         \A e \in Events : Published(e)' <=> Published(e)
  PROVE  Quiet'
<1>1. Typed'
  BY DEF Quiet, Typed, TypeOK, HoldsEvent, RelaysAlone
<1>2. AbsentUntouched' /\ SentIsPublished'
  BY DEF Quiet, RelaysAlone, AbsentUntouched, SentIsPublished
<1>3. SentStagePublished'
  <2> SUFFICES ASSUME NEW r \in Relays, stage[r] = "sent"
               PROVE  Published(current[r])'
    BY DEF SentStagePublished, RelaysAlone
  <2>1. current[r] \in Events /\ Published(current[r])
    BY DEF Quiet, Typed, HoldsEvent, SentStagePublished
  <2>2. current'[r] = current[r]
    BY DEF RelaysAlone
  <2> QED
    BY <2>1, <2>2 DEF Published
<1>4. FailedNeverRequeued' /\ FreshSnapshots'
  BY DEF Quiet, RelaysAlone, FailedNeverRequeued, FreshSnapshots
<1>5. OwnerBudget'
  BY DEF Quiet, RelaysAlone, OwnerBudget, Holders, Unclaimed
<1> QED
  BY <1>1, <1>2, <1>3, <1>4, <1>5 DEF Quiet

\* The message of a row in the queue is in the topic already.
LEMMA QueuedPublished ==
  ASSUME SInv, NEW e \in queue
  PROVE  e \in Events /\ Copies(e) > replays[e] /\ Published(e)
<1>1. e \in Events /\ replays[e] \in Nat
  BY DEF SInv, StreamTypeOK
<1>2. Copies(e) > replays[e] /\ Copies(e) \in Nat
  BY <1>1, CopiesType DEF SInv, BackfillOnlyRepeats, Quiet, Typed
<1>3. CASE Positions(e) = {}
  BY <1>1, <1>2, <1>3, FS_EmptySet DEF Copies
<1>4. CASE Positions(e) # {}
  BY <1>1, <1>2, <1>4 DEF Positions, Published
<1> QED
  BY <1>1, <1>2, <1>3, <1>4

LEMMA QueryKeepsSInv ==
  ASSUME SInv, BackfillQuery
  PROVE  SInv'
<1>1. PICK B \in SUBSET Events : IsSentRows(B) /\ queue' = B
  BY DEF BackfillQuery
<1>2. UNCHANGED vars /\ replays' = replays /\ backfills' = backfills + 1
  BY DEF BackfillQuery
<1>3. Typed' /\ Quiet'
  BY <1>2 DEF SInv, Quiet, Typed, TypeOK, HoldsEvent, AbsentUntouched, vars,
     SentStagePublished, SentIsPublished, FailedNeverRequeued, FreshSnapshots,
     OwnerBudget, Holders, Unclaimed, Published
<1>4. StreamTypeOK'
  BY <1>1, <1>2, <1>3 DEF SInv, StreamTypeOK, Typed
<1>5. topic' = topic
  BY <1>2 DEF vars
<1>6. StreamBudget'
  BY <1>2 DEF SInv, StreamBudget, Paid, Copies, Positions, Publishers, Unclaimed, vars
<1>7. BackfillOnlyRepeats'
  <2> SUFFICES ASSUME NEW e \in Events, e \in B \/ replays[e] > 0
               PROVE  Copies(e) > replays[e]
    BY <1>1, <1>2, <1>5, SameCopies DEF BackfillOnlyRepeats
  <2>1. CASE replays[e] > 0
    BY <2>1 DEF SInv, BackfillOnlyRepeats
  <2>2. CASE e \in B /\ ~(replays[e] > 0)
    <3>1. Published(e)
      BY <1>1, <2>2 DEF IsSentRows, Sent, SInv, Quiet, SentIsPublished
    <3>2. Positions(e) # {}
      BY <3>1 DEF Published, Positions
    <3>3. IsFiniteSet(Positions(e)) /\ Copies(e) \in Nat
      BY CopiesType DEF SInv, Quiet, Typed
    <3>4. Copies(e) # 0
      BY <3>2, <3>3, FS_EmptySet DEF Copies
    <3>5. replays[e] \in Nat
      BY DEF SInv, StreamTypeOK
    <3> QED
      BY <2>2, <3>3, <3>4, <3>5
  <2> QED
    BY <2>1, <2>2
<1> QED
  BY <1>3, <1>4, <1>6, <1>7 DEF SInv

\* A replay pays for the copy it appends.
LEMMA ReplayKeepsSInv ==
  ASSUME SInv, NEW e \in queue, Replay(e), queue' = queue \ {e},
         RelaysAlone, backfills' = backfills, faults' \in Nat
  PROVE  SInv'
<1>1. e \in Events /\ Published(e) /\ Copies(e) > replays[e]
  BY QueuedPublished
<1>2. /\ topic' = Append(topic, e) /\ topic \in Seq(Events)
      /\ replays' = [replays EXCEPT ![e] = @ + 1] /\ replays \in [Events -> Nat]
  BY DEF Replay, SInv, StreamTypeOK, TypeOK
<1>3. ASSUME NEW f \in Events
      PROVE  /\ Published(f)' <=> Published(f)
             /\ Copies(f) \in Nat
             /\ f = e => /\ Copies(f)' = Copies(f) + 1
                         /\ replays'[f] = replays[f] + 1
             /\ f # e => Copies(f)' = Copies(f) /\ replays'[f] = replays[f]
  BY <1>1, <1>2, AppendCounts, CopiesType DEF SInv, StreamTypeOK
<1>4. Quiet'
  BY <1>1, <1>2, <1>3, QuietKept DEF SInv
<1>5. replays' \in [Events -> Nat]
  BY <1>1, <1>2
<1>6. StreamTypeOK'
  BY <1>4, <1>5 DEF SInv, StreamTypeOK, Quiet, Typed
<1>7. StreamBudget'
  <2> SUFFICES ASSUME NEW f \in Events PROVE Paid(f, replays[f])'
    BY DEF StreamBudget
  <2>1. /\ Copies(f) + Cardinality(Publishers(f)) + Unclaimed(f)
              <= 1 + resets[f] + replays[f]
    BY DEF SInv, StreamBudget, Paid
  <2>2. /\ Publishers(f)' = Publishers(f) /\ Unclaimed(f)' = Unclaimed(f)
        /\ resets'[f] = resets[f]
    BY DEF RelaysAlone, Publishers, Unclaimed
  <2>3. Cardinality(Publishers(f)) \in Nat
    BY HoldersType, RelaysAssumption, FS_Subset, FS_CardinalityType
  <2>4. resets[f] \in Nat /\ replays[f] \in Nat /\ Unclaimed(f) \in Nat
    BY DEF SInv, StreamTypeOK, TypeOK, Unclaimed
  <2>5. Copies(f)' + Cardinality(Publishers(f)) + Unclaimed(f)
              <= 1 + resets[f] + replays'[f]
    BY <1>3, <2>1, <2>3, <2>4
  <2> QED
    BY <2>2, <2>5 DEF Paid
<1>8. BackfillOnlyRepeats'
  <2> SUFFICES ASSUME NEW f \in Events, f \in queue' \/ replays'[f] > 0
               PROVE  Copies(f)' > replays'[f]
    BY DEF BackfillOnlyRepeats
  <2>1. replays[f] \in Nat
    BY <1>2
  <2>2. CASE f = e
    BY <1>1, <1>3, <2>1, <2>2
  <2>3. CASE f # e
    BY <1>3, <2>3 DEF SInv, BackfillOnlyRepeats
  <2> QED
    BY <2>2, <2>3
<1> QED
  BY <1>4, <1>6, <1>7, <1>8 DEF SInv

\* A row that is skipped, or a tool that stops.
LEMMA SkipKeepsSInv ==
  ASSUME SInv, queue' \subseteq queue, topic' = topic, replays' = replays,
         RelaysAlone, backfills' = backfills, faults' \in Nat
  PROVE  SInv'
<1>1. Quiet'
  <2>1. \A e \in Events : Published(e)' <=> Published(e)
    BY DEF Published
  <2>2. topic' \in Seq(Events)
    BY DEF SInv, StreamTypeOK, TypeOK
  <2> QED
    BY <2>1, <2>2, QuietKept DEF SInv
<1>2. StreamTypeOK'
  BY <1>1 DEF SInv, StreamTypeOK, Quiet, Typed
<1>3. StreamBudget'
  BY DEF SInv, StreamBudget, Paid, Copies, Positions, Publishers, Unclaimed, RelaysAlone
<1>4. BackfillOnlyRepeats'
  BY SameCopies DEF SInv, BackfillOnlyRepeats
<1> QED
  BY <1>1, <1>2, <1>3, <1>4 DEF SInv

-----------------------------------------------------------------------------

LEMMA SInvInit == StreamInit => SInv
<1> SUFFICES ASSUME StreamInit PROVE SInv
  OBVIOUS
<1>1. IInv
  BY InvInit DEF StreamInit
<1>2. Quiet
  BY <1>1 DEF IInv, Quiet, Typed
<1>3. StreamTypeOK
  BY <1>1 DEF IInv, StreamInit, StreamTypeOK
<1>4. StreamBudget
  <2> SUFFICES ASSUME NEW e \in Events PROVE Paid(e, replays[e])
    BY DEF StreamBudget
  <2>1. replays[e] = 0 /\ resets[e] \in Nat
    BY <1>3 DEF StreamInit, StreamTypeOK, TypeOK
  <2> QED
    BY <1>1, <2>1 DEF IInv, CopyBudget, Paid
<1>5. BackfillOnlyRepeats
  BY DEF StreamInit, BackfillOnlyRepeats
<1> QED
  BY <1>2, <1>3, <1>4, <1>5 DEF SInv

LEMMA SInvNext == SInv /\ [StreamNext]_streamVars => SInv'
<1> SUFFICES ASSUME SInv, [StreamNext]_streamVars PROVE SInv'
  OBVIOUS
<1>1. CASE Next /\ UNCHANGED backfillVars
  BY <1>1, RelaysKeepSInv
<1>2. CASE BackfillQuery
  BY <1>2, QueryKeepsSInv
<1>3. faults \in Nat
  BY DEF SInv, StreamTypeOK, TypeOK
<1>4. CASE BackfillPublish
  <2>1. PICK e \in queue : queue' = queue \ {e} /\ Replay(e)
    BY <1>4 DEF BackfillPublish
  <2>2. RelaysAlone /\ backfills' = backfills /\ faults' \in Nat
    BY <1>3, <1>4 DEF BackfillPublish, RelaysAlone, rowVars, NoFault
  <2> QED
    BY <2>1, <2>2, ReplayKeepsSInv
<1>5. CASE BackfillPublishFails
  <2>1. PICK e \in queue : /\ queue' = queue \ {e}
                           /\ Replay(e) \/ UNCHANGED <<topic, replays>>
    BY <1>5 DEF BackfillPublishFails
  <2>2. RelaysAlone /\ backfills' = backfills /\ faults' \in Nat
    BY <1>3, <1>5 DEF BackfillPublishFails, RelaysAlone, rowVars, Fault
  <2>3. CASE Replay(e)
    BY <2>1, <2>2, <2>3, ReplayKeepsSInv
  <2>4. CASE UNCHANGED <<topic, replays>>
    BY <2>1, <2>2, <2>4, SkipKeepsSInv
  <2> QED
    BY <2>1, <2>3, <2>4
<1>6. CASE BackfillStops
  <2>1. /\ RelaysAlone /\ backfills' = backfills /\ faults' \in Nat
        /\ queue' \subseteq queue /\ topic' = topic /\ replays' = replays
    BY <1>3, <1>6 DEF BackfillStops, RelaysAlone, rowVars, Fault
  <2> QED
    BY <2>1, SkipKeepsSInv
<1>7. CASE UNCHANGED streamVars
  BY <1>7, RelaysKeepSInv DEF streamVars
<1> QED
  BY <1>1, <1>2, <1>4, <1>5, <1>6, <1>7 DEF StreamNext, BackfillStep

\* Rows, relays, topic and tool keep their types.
THEOREM StreamTypeCorrect == StreamSpec => []StreamTypeOK
<1>1. SInv => StreamTypeOK
  BY DEF SInv
<1> QED
  BY SInvInit, SInvNext, <1>1, PTL DEF StreamSpec

\* The tool publishes only what a relay has published, for any number of runs
\* of the tool beside any number of relays.
THEOREM BackfillRepeats == StreamSpec => []BackfillOnlyRepeats
<1>1. SInv => BackfillOnlyRepeats
  BY DEF SInv
<1> QED
  BY SInvInit, SInvNext, <1>1, PTL DEF StreamSpec

\* The copies of a message are the one it was committed for, one for every
\* reset of its row and one for every replay, at most.
THEOREM StreamCopies == StreamSpec => []StreamCopiesBounded
<1>1. SInv => StreamCopiesBounded
  <2> SUFFICES ASSUME SInv, NEW e \in Events
               PROVE  Copies(e) <= 1 + resets[e] + replays[e]
    BY DEF StreamCopiesBounded
  <2>1. Copies(e) + Cardinality(Publishers(e)) + Unclaimed(e) <= 1 + resets[e] + replays[e]
    BY DEF SInv, StreamBudget, Paid
  <2>2. Cardinality(Publishers(e)) \in Nat
    BY HoldersType, RelaysAssumption, FS_Subset, FS_CardinalityType
  <2>3. Copies(e) \in Nat /\ resets[e] \in Nat /\ replays[e] \in Nat /\ Unclaimed(e) \in Nat
    BY CopiesType DEF SInv, StreamTypeOK, TypeOK, Unclaimed
  <2> QED
    BY <2>1, <2>2, <2>3
<1> QED
  BY SInvInit, SInvNext, <1>1, PTL DEF StreamSpec

-----------------------------------------------------------------------------
(* Order within a user, with a single relay. *)

\* The row has left NEW once.
Passed(e) == status[e] \notin {"ABSENT", "NEW"} \/ resets[e] > 0

InHand(e) == \E r \in Relays : current[r] = e \/ \E s \in batch[r] : s.event = e

\* What a relay knows of its events if it is the only one: nobody changes the
\* rows of its batch, and the event in hand comes before the rest of it.
Alone ==
    /\ \A r \in Relays :
          /\ \A s \in batch[r] : status[s.event] = "NEW" /\ current[r] < s.event
          /\ stage[r] = "claim" => status[current[r]] = "NEW"
          /\ stage[r] \in {"publish", "sent", "failed"} => status[current[r]] = "PROCESSING"
          /\ stage[r] = "down" => batch[r] = {}
    /\ \A e \in Events : Published(e) => Passed(e)
    /\ \A e, f \in Events :
          e < f /\ User[e] = User[f] /\ status[f] # "ABSENT" => status[e] # "ABSENT"

\* The message of e will be behind that of a later event, if it comes.
Overtaken(e) ==
    /\ status[e] = "NEW" \/ \E r \in Relays : stage[r] = "publish" /\ current[r] = e
    /\ \E f \in Events : /\ e < f /\ User[e] = User[f]
                         /\ Passed(f) \/ (InHand(f) /\ ~InHand(e))

\* The events that a fault has put out of order, or may have.
Disturbed ==
    (Displaced \ Replayed) \cup Stranded
        \cup {e \in Events : resets[e] > 0 \/ Overtaken(e)}

\* Where a step takes the rows.
LEMMA RowSteps ==
  ASSUME Typed, AbsentUntouched, [Next]_vars, NEW e \in Events
  PROVE  /\ Passed(e) => Passed(e)'
         /\ status[e] # "ABSENT" => status'[e] # "ABSENT"
         /\ status[e] = "ABSENT" /\ status'[e] # "ABSENT" =>
              \A f \in Events : f < e /\ User[f] = User[e] => status[f] # "ABSENT"
<1> USE DEF Typed, TypeOK, HoldsEvent, Stages, Statuses, Passed
<1>1. CASE \E f \in Events : Insert(f)
  <2>1. PICK f \in Events : Insert(f)
    BY <1>1
  <2> QED
    BY <2>1 DEF Insert
<1>2. CASE \E r \in Relays : Start(r)
  BY <1>2 DEF Start, ResetStaleProcessingEvents, Stale
<1>3. CASE Tick \/ UNCHANGED vars
  BY <1>3 DEF Tick, vars
<1>4. CASE \E r \in Relays : Claim(r) \/ ClaimUnacknowledged(r)
  BY <1>4 DEF Claim, ClaimUnacknowledged, MarkEventAsProcessing
<1>5. CASE \E r \in Relays : MarkSent(r) \/ MarkFailed(r)
  <2>1. PICK r \in Relays : MarkSent(r) \/ MarkFailed(r)
    BY <1>5
  <2>2. current[r] \in Events /\ status[current[r]] # "ABSENT"
    BY <2>1 DEF MarkSent, MarkFailed, AbsentUntouched
  <2>3. \/ status' = [status EXCEPT ![current[r]] = "SENT"]
        \/ status' = [status EXCEPT ![current[r]] = "FAILED"]
    BY <2>1 DEF MarkSent, MarkFailed, MarkEventAsSent, MarkEventAsFailed
  <2>4. resets' = resets
    BY <2>1 DEF MarkSent, MarkFailed
  <2> QED
    BY <2>2, <2>3, <2>4
<1> QED
  BY <1>1, <1>2, <1>3, <1>4, <1>5
  DEF Next, RelayStep, RelayFault, rowVars, StartWithoutReset, Stop, Poll, BeginEvent,
      ClaimRefused, ClaimFails, Publish, PublishFails, MarkFails

\* The only relay's own state.
AloneRelay(r) ==
    /\ \A s \in batch[r] : status[s.event] = "NEW" /\ current[r] < s.event
    /\ stage[r] = "claim" => status[current[r]] = "NEW"
    /\ stage[r] \in {"publish", "sent", "failed"} => status[current[r]] = "PROCESSING"
    /\ stage[r] = "down" => batch[r] = {}

LEMMA AloneRelayNext ==
  ASSUME Typed, FreshSnapshots, AbsentUntouched, NEW r, Relays = {r}, AloneRelay(r), [Next]_vars
  PROVE  AloneRelay(r)'
<1> USE EventsAssumption, ParametersAssumption
<1> USE DEF AloneRelay, Typed, TypeOK, HoldsEvent, Stages, Statuses, Snapshot, NoEvent
<1>a. \A s \in batch[r] : /\ s.event \in Events /\ status[s.event] = "NEW" /\ 0 < s.event
                         /\ current[r] # s.event
  <2> SUFFICES ASSUME NEW s \in batch[r]
               PROVE  /\ s.event \in Events /\ status[s.event] = "NEW" /\ 0 < s.event
                      /\ current[r] # s.event
    OBVIOUS
  <2>1. s \in Snapshot
    OBVIOUS
  <2>2. s.event \in Events /\ s.event \in Nat \ {0}
    BY <2>1
  <2>3. current[r] < s.event
    OBVIOUS
  <2> QED
    BY <2>2, <2>3
<1>1. CASE \E e \in Events : Insert(e)
  BY <1>1 DEF Insert, AbsentUntouched
<1>2. CASE Tick \/ UNCHANGED vars
  BY <1>2 DEF Tick, vars
<1>3. CASE Start(r)
  BY <1>3 DEF Start, ResetStaleProcessingEvents, Stale
<1>4. CASE StartWithoutReset(r) \/ Stop(r)
  BY <1>4 DEF StartWithoutReset, Stop, rowVars
<1>5. CASE Poll(r)
  <2>1. PICK B \in SUBSET Pending :
           batch' = [batch EXCEPT ![r] =
                       {[event |-> e, retryCount |-> retryCount[e]] : e \in B}]
    BY <1>5 DEF Poll
  <2>2. \A s \in batch'[r] : s.event \in Pending
    BY <2>1
  <2> QED
    BY <1>5, <2>2 DEF Poll, rowVars, Pending
<1>6. CASE BeginEvent(r)
  <2>1. PICK s \in batch[r] :
           /\ \A t \in batch[r] : s.event <= t.event
           /\ batch' = [batch EXCEPT ![r] = @ \ {s}]
           /\ current' = [current EXCEPT ![r] = s.event]
           /\ stage' = [stage EXCEPT ![r] =
                          IF s.retryCount >= MaxRetries THEN "failed" ELSE "claim"]
    BY <1>6 DEF BeginEvent
  <2>2. s.retryCount = 0 /\ stage'[r] = "claim" /\ current'[r] = s.event
    BY <2>1 DEF FreshSnapshots
  <2>3. ASSUME NEW t \in batch[r], t # s PROVE s.event < t.event
    <3>1. s \in Snapshot /\ t \in Snapshot /\ t.retryCount = 0
      BY <2>1 DEF FreshSnapshots
    <3>2. s.event # t.event
      BY <2>2, <2>3, <3>1
    <3>3. s.event <= t.event /\ s.event \in Nat /\ t.event \in Nat
      BY <2>1, <3>1
    <3> QED
      BY <3>2, <3>3
  <2>4. status' = status /\ batch'[r] = batch[r] \ {s}
    BY <1>6, <2>1 DEF BeginEvent, rowVars
  <2> QED
    BY <2>1, <2>2, <2>3, <2>4
<1>7. CASE Claim(r) \/ ClaimUnacknowledged(r)
  <2>1. stage[r] = "claim" /\ current[r] \in Events
    BY <1>7 DEF Claim, ClaimUnacknowledged
  <2>2. status' = [status EXCEPT ![current[r]] = "PROCESSING"] /\ batch' = batch
    BY <1>7 DEF Claim, ClaimUnacknowledged, MarkEventAsProcessing, EndEvent
  <2>3. \/ stage'[r] = "publish" /\ current'[r] = current[r]
        \/ stage'[r] = "loop" /\ current'[r] = 0
    BY <1>7 DEF Claim, ClaimUnacknowledged, EndEvent
  <2> QED
    BY <1>a, <2>1, <2>2, <2>3
<1>8. CASE ClaimRefused(r) \/ ClaimFails(r) \/ MarkFails(r)
  <2>1. stage'[r] = "loop" /\ current'[r] = 0 /\ UNCHANGED <<status, batch>>
    BY <1>8 DEF ClaimRefused, ClaimFails, MarkFails, EndEvent, rowVars
  <2> QED
    BY <1>a, <2>1
<1>9. CASE Publish(r) \/ PublishFails(r)
  <2>1. stage'[r] \in {"sent", "failed"} /\ UNCHANGED <<status, batch, current>>
    BY <1>9 DEF Publish, PublishFails, rowVars
  <2> QED
    BY <1>9, <2>1 DEF Publish, PublishFails
<1>10. CASE MarkSent(r) \/ MarkFailed(r)
  <2>1. current[r] \in Events
    BY <1>10 DEF MarkSent, MarkFailed
  <2>2. \E x \in {"SENT", "FAILED"} : status' = [status EXCEPT ![current[r]] = x]
    BY <1>10 DEF MarkSent, MarkFailed, MarkEventAsSent, MarkEventAsFailed
  <2>3. stage'[r] = "loop" /\ current'[r] = 0 /\ batch' = batch
    BY <1>10 DEF MarkSent, MarkFailed, EndEvent
  <2> QED
    BY <1>a, <2>1, <2>2, <2>3
<1> QED
  BY <1>1, <1>2, <1>3, <1>4, <1>5, <1>6, <1>7, <1>8, <1>9, <1>10
  DEF Next, RelayStep, RelayFault

LEMMA AloneNext ==
  ASSUME SInv, NEW r, Relays = {r}, Alone, [Next]_vars
  PROVE  Alone'
<1> USE DEF SInv, Quiet
<1>1. AloneRelay(r)'
  BY AloneRelayNext DEF Alone, AloneRelay
<1>2. ASSUME NEW e \in Events, Published(e)' PROVE Passed(e)'
  <2>1. CASE Published(e)
    BY <2>1, RowSteps DEF Alone
  <2>2. CASE ~Published(e)
    <3>1. CASE topic' = topic
      BY <1>2, <2>2, <3>1 DEF Published
    <3>2. CASE stage[r] = "publish" /\ topic' = Append(topic, current[r])
      <4>1. current[r] \in Events
        BY <3>2 DEF Typed, HoldsEvent
      <4>2. e = current[r]
        BY <1>2, <2>2, <3>2, <4>1, AppendCounts DEF Typed
      <4>3. status[e] = "PROCESSING"
        BY <3>2, <4>2 DEF Alone
      <4> QED
        BY <4>3, RowSteps DEF Passed
    <3> QED
      BY <3>1, <3>2
      DEF Next, vars, RelayStep, RelayFault, rowVars, Insert, Tick, Start,
          StartWithoutReset, Stop, Poll, BeginEvent, Claim, ClaimRefused,
          ClaimFails, ClaimUnacknowledged, Publish, PublishFails, MarkSent,
          MarkFailed, MarkFails
  <2> QED
    BY <2>1, <2>2
<1>3. ASSUME NEW e \in Events, NEW f \in Events, e < f, User[e] = User[f],
             status'[f] # "ABSENT"
      PROVE  status'[e] # "ABSENT"
  BY <1>3, RowSteps DEF Alone
<1> QED
  BY <1>1, <1>2, <1>3 DEF Alone, AloneRelay

LEMMA BackfillKeepsAlone ==
  ASSUME Alone, RelaysAlone, \A e \in Events : Published(e)' => Published(e)
  PROVE  Alone'
BY DEF Alone, RelaysAlone, Passed

\* What is appended behind a later event of its user is displaced, and nothing
\* else becomes so.
LEMMA DisplacedAppend ==
  ASSUME TypeOK, NEW x \in Events, topic' = Append(topic, x),
         NEW e \in Displaced', e \notin Displaced
  PROVE  e = x /\ \E f \in Events : Published(f) /\ e < f /\ User[e] = User[f]
<1> DEFINE n == Len(topic)
<1>1. /\ n \in Nat
      /\ Len(topic') = n + 1
      /\ topic'[n + 1] = x
      /\ \A i \in 1 .. n : topic'[i] = topic[i] /\ topic[i] \in Events
  BY DEF TypeOK
<1>2. PICK k \in 1 .. n + 1 :
         /\ e = topic'[k]
         /\ \E i \in 1 .. k - 1 : User[topic'[i]] = User[topic'[k]] /\ topic'[k] < topic'[i]
  <2> HIDE DEF n
  <2> QED
    BY <1>1 DEF Displaced
<1>6. PICK i \in 1 .. k - 1 : User[topic'[i]] = User[e] /\ e < topic'[i]
  BY <1>2
<1>3. i \in 1 .. n /\ topic'[i] = topic[i]
  BY <1>1, <1>2, <1>6
<1>4. k \notin 1 .. n
  BY <1>1, <1>2, <1>6, <1>3 DEF Displaced
<1>5. k = n + 1
  BY <1>1, <1>2, <1>4
<1> QED
  BY <1>1, <1>2, <1>6, <1>3, <1>5 DEF Published

\* A relay publishes an event behind a later one only if it was overtaken.
LEMMA DisplacedBy ==
  ASSUME SInv, Alone, [Next]_vars, NEW e \in Displaced', e \notin Displaced
  PROVE  e \in Events /\ Overtaken(e)
<1>1. CASE topic' = topic
  BY <1>1 DEF Displaced
<1>2. CASE \E r \in Relays : stage[r] = "publish" /\ topic' = Append(topic, current[r])
  <2>1. PICK r \in Relays : stage[r] = "publish" /\ topic' = Append(topic, current[r])
    BY <1>2
  <2>2. current[r] \in Events /\ TypeOK
    BY <2>1 DEF SInv, Quiet, Typed, HoldsEvent
  <2>3. e = current[r] /\ \E f \in Events : Published(f) /\ e < f /\ User[e] = User[f]
    BY <2>1, <2>2, DisplacedAppend
  <2> QED
    BY <2>1, <2>2, <2>3 DEF Overtaken, Alone
<1> QED
  BY <1>1, <1>2
  DEF Next, vars, RelayStep, RelayFault, rowVars, Insert, Tick, Start,
      StartWithoutReset, Stop, Poll, BeginEvent, Claim, ClaimRefused,
      ClaimFails, ClaimUnacknowledged, Publish, PublishFails, MarkSent,
      MarkFailed, MarkFails

\* With one relay, resets are of stranded rows.
LEMMA ResetBy ==
  ASSUME SInv, NEW r, Relays = {r}, Alone, [Next]_vars,
         NEW e \in Events, resets[e] = 0, resets'[e] # 0
  PROVE  e \in Stranded
<1> USE DEF SInv, Quiet, Typed, TypeOK, HoldsEvent
<1>1. Start(r) /\ Stale(e)
  BY DEF Next, vars, RelayStep, RelayFault, rowVars, Insert, Tick, Start,
      ResetStaleProcessingEvents, StartWithoutReset, Stop, Poll, BeginEvent, Claim,
      ClaimRefused, ClaimFails, ClaimUnacknowledged, Publish, PublishFails, MarkSent,
      MarkFailed, MarkFails
<1> QED
  BY <1>1 DEF Start, Stale, Stranded, Holders

\* The guard of a poll: a row that is left behind is later than those taken.
LEMMA PolledFirst ==
  ASSUME SInv, NEW r, Relays = {r}, Poll(r), NEW e \in Events, NEW f \in Events,
         e < f, status[e] = "NEW", InHand(f)', ~InHand(e)'
  PROVE  FALSE
<1> USE DEF SInv, Quiet, Typed, TypeOK, HoldsEvent
<1>1. PICK B \in SUBSET Pending :
         /\ IsPendingOutboxEvents(B)
         /\ batch' = [batch EXCEPT ![r] =
                        {[event |-> x, retryCount |-> retryCount[x]] : x \in B}]
  BY DEF Poll
<1>2. current'[r] = NoEvent /\ f # NoEvent
  BY EventsAssumption DEF Poll, NoEvent
<1>3. batch'[r] = {[event |-> x, retryCount |-> retryCount[x]] : x \in B}
  BY <1>1
<1>4. f \in B /\ e \notin B
  <2>1. PICK s \in batch'[r] : s.event = f
    BY <1>2 DEF InHand
  <2>2. PICK x \in B : s = [event |-> x, retryCount |-> retryCount[x]]
    BY <1>3
  <2>3. f \in B
    BY <2>1, <2>2
  <2>4. ASSUME e \in B PROVE FALSE
    <3>1. [event |-> e, retryCount |-> retryCount[e]] \in batch'[r]
      BY <1>3, <2>4
    <3> QED
      BY <3>1 DEF InHand
  <2> QED
    BY <2>3, <2>4
<1>5. f < e
  BY <1>1, <1>4 DEF IsPendingOutboxEvents, Pending
<1> QED
  BY <1>5, EventsAssumption

LEMMA OvertakenBy ==
  ASSUME SInv, NEW r, Relays = {r}, Alone, [Next]_vars,
         NEW e \in Events, Overtaken(e)', ~Overtaken(e), resets[e] = 0, e \notin Stranded
  PROVE  current[r] = e /\ ClaimFails(r)
<1> USE DEF SInv, Quiet, Typed, TypeOK, HoldsEvent, NoEvent
<1>1. PICK f \in Events : /\ e < f /\ User[e] = User[f]
                          /\ Passed(f)' \/ (InHand(f)' /\ ~InHand(e)')
  BY DEF Overtaken
<1>2. status'[e] = "NEW" \/ (stage'[r] = "publish" /\ current'[r] = e)
  BY DEF Overtaken
<1>3. /\ e \in Nat \ {0} /\ f \in Nat \ {0} /\ e # f /\ ~(f < e)
  BY <1>1, EventsAssumption
<1>4. ~(/\ status[e] = "NEW" \/ (stage[r] = "publish" /\ current[r] = e)
        /\ Passed(f) \/ (InHand(f) /\ ~InHand(e)))
  BY <1>1 DEF Overtaken
<1>5. ASSUME \E g \in Events : Insert(g) PROVE FALSE
  <2>1. PICK g \in Events : Insert(g)
    BY <1>5
  <2>2. /\ status[g] = "ABSENT" /\ status' = [status EXCEPT ![g] = "NEW"]
        /\ UNCHANGED <<stage, batch, current, resets>>
    BY <2>1 DEF Insert
  <2>3. InHand(e)' = InHand(e) /\ InHand(f)' = InHand(f)
    BY <2>2 DEF InHand
  <2>4. Passed(f)' => Passed(f)
    BY <2>2 DEF Passed
  <2>5. e = g
    BY <1>1, <1>2, <1>4, <2>2, <2>3, <2>4
  <2>6. status[f] = "ABSENT"
    BY <1>1, <2>2, <2>5 DEF Alone
  <2> QED
    BY <1>1, <2>3, <2>4, <2>6 DEF AbsentUntouched, Passed, InHand
<1>6. ASSUME Start(r) PROVE FALSE
  <2>1. /\ UNCHANGED <<batch, current>> /\ stage[r] = "down" /\ stage'[r] = "loop"
        /\ \A x \in Events : status'[x] = IF Stale(x) THEN "NEW" ELSE status[x]
        /\ \A x \in Events : resets'[x] = IF Stale(x) THEN resets[x] + 1 ELSE resets[x]
    BY <1>6 DEF Start, ResetStaleProcessingEvents
  <2>2. ~Stale(e)
    BY <2>1 DEF Stale, Stranded, Holders
  <2>3. Passed(f)' => Passed(f)
    BY <2>1 DEF Passed, Stale
  <2>4. InHand(e)' = InHand(e) /\ InHand(f)' = InHand(f)
    BY <2>1 DEF InHand
  <2> QED
    BY <1>1, <1>2, <1>4, <2>1, <2>2, <2>3, <2>4
<1>7. ASSUME Poll(r) PROVE FALSE
  <2>1. UNCHANGED <<status, stage, current, resets>> /\ stage[r] = "loop"
    BY <1>7 DEF Poll, rowVars
  <2>2. Passed(f)' => Passed(f)
    BY <2>1 DEF Passed
  <2>3. status[e] = "NEW" /\ ~Passed(f)'
    BY <1>1, <1>2, <1>4, <2>1, <2>2
  <2> QED
    BY <1>1, <1>7, <2>3, PolledFirst
<1>8. ASSUME BeginEvent(r) PROVE FALSE
  <2>1. UNCHANGED <<status, resets>> /\ stage'[r] \in {"claim", "failed"} /\ current[r] = NoEvent
    BY <1>8 DEF BeginEvent, rowVars
  <2>2. PICK s \in batch[r] : /\ batch'[r] = batch[r] \ {s} /\ current'[r] = s.event
                              /\ \A t \in batch[r] : t # s => t \in batch'[r]
    BY <1>8 DEF BeginEvent
  <2>3. ASSUME NEW x \in Events PROVE InHand(x)' <=> InHand(x)
    BY <1>3, <2>1, <2>2, EventsAssumption DEF InHand
  <2>4. Passed(f)' => Passed(f)
    BY <2>1 DEF Passed
  <2> QED
    BY <1>1, <1>2, <1>4, <2>1, <2>3, <2>4
<1>9. ASSUME Claim(r) \/ ClaimUnacknowledged(r) PROVE FALSE
  <2>1. /\ stage[r] = "claim" /\ current[r] \in Events /\ status[current[r]] = "NEW"
        /\ status' = [status EXCEPT ![current[r]] = "PROCESSING"]
        /\ UNCHANGED <<batch, resets>>
        /\ \/ stage'[r] = "publish" /\ current'[r] = current[r]
           \/ stage'[r] = "loop" /\ current'[r] = 0
    BY <1>9 DEF Claim, ClaimUnacknowledged, MarkEventAsProcessing, EndEvent
  <2>2. status[e] = "NEW"
    BY <1>2, <1>3, <2>1
  <2>3. InHand(f)' => InHand(f)
    BY <1>3, <2>1 DEF InHand
  <2>4. CASE e = current[r]
    <3>1. status'[e] # "NEW"
      BY <2>1, <2>4
    <3>2. InHand(e)'
      BY <1>2, <2>1, <2>4, <3>1 DEF InHand
    <3>3. Passed(f)' => Passed(f)
      BY <1>3, <2>1, <2>4 DEF Passed
    <3> QED
      BY <1>1, <1>4, <2>2, <3>2, <3>3
  <2>5. CASE e # current[r]
    <3>1. InHand(e)' <=> InHand(e)
      BY <1>3, <2>1, <2>5 DEF InHand
    <3>2. Passed(f)' /\ ~Passed(f)
      BY <1>1, <1>4, <2>2, <2>3, <3>1
    <3>3. f = current[r]
      BY <2>1, <3>2 DEF Passed
    <3>4. InHand(f) /\ InHand(e)
      BY <1>4, <2>2, <3>3 DEF InHand
    <3>5. f < e
      BY <2>5, <3>3, <3>4 DEF InHand, Alone
    <3> QED
      BY <1>3, <3>5
  <2> QED
    BY <2>4, <2>5
<1>10. ASSUME Publish(r) \/ PublishFails(r) PROVE FALSE
  <2>1. UNCHANGED <<status, batch, current, resets>> /\ stage'[r] \in {"sent", "failed"}
    BY <1>10 DEF Publish, PublishFails, rowVars
  <2>2. /\ InHand(e)' = InHand(e) /\ InHand(f)' = InHand(f)
        /\ Passed(f)' => Passed(f)
    BY <2>1 DEF InHand, Passed
  <2> QED
    BY <1>1, <1>2, <1>4, <2>1, <2>2
<1>11. ASSUME MarkSent(r) \/ MarkFailed(r) PROVE FALSE
  <2>1. /\ current[r] \in Events /\ status[current[r]] = "PROCESSING"
        /\ \E x \in {"SENT", "FAILED"} : status' = [status EXCEPT ![current[r]] = x]
        /\ stage'[r] = "loop" /\ current'[r] = 0
        /\ UNCHANGED <<batch, resets>>
    BY <1>11 DEF MarkSent, MarkFailed, MarkEventAsSent, MarkEventAsFailed, EndEvent, Alone
  <2>2. status[e] = "NEW" /\ e # current[r]
    BY <1>2, <2>1
  <2>3. /\ InHand(e)' <=> InHand(e)
        /\ InHand(f)' => InHand(f)
        /\ Passed(f)' => Passed(f)
    BY <1>3, <2>1, <2>2 DEF InHand, Passed
  <2> QED
    BY <1>1, <1>4, <2>2, <2>3
<1>12. ASSUME Stop(r) PROVE FALSE
  <2>1. /\ UNCHANGED <<status, resets>> /\ stage'[r] = "down"
        /\ batch'[r] = {} /\ current'[r] = 0
    BY <1>12 DEF Stop, rowVars
  <2>2. ~InHand(f)' /\ (Passed(f)' => Passed(f))
    BY <1>3, <2>1 DEF InHand, Passed
  <2> QED
    BY <1>1, <1>2, <1>4, <2>1, <2>2
<1>13. ASSUME MarkFails(r) \/ ClaimRefused(r) PROVE FALSE
  <2>1. /\ UNCHANGED <<status, resets, batch>> /\ stage'[r] = "loop" /\ current'[r] = 0
        /\ current[r] \in Events /\ status[current[r]] = "PROCESSING"
    BY <1>13 DEF MarkFails, ClaimRefused, rowVars, EndEvent, Alone
  <2>2. status[e] = "NEW" /\ e # current[r]
    BY <1>2, <2>1
  <2>3. /\ InHand(e)' <=> InHand(e)
        /\ InHand(f)' => InHand(f)
        /\ Passed(f)' => Passed(f)
    BY <1>3, <2>1, <2>2 DEF InHand, Passed
  <2> QED
    BY <1>1, <1>4, <2>2, <2>3
<1>14. ASSUME Tick \/ StartWithoutReset(r) \/ UNCHANGED vars PROVE FALSE
  <2>1. /\ UNCHANGED <<status, batch, current, resets>>
        /\ stage'[r] = stage[r] \/ stage'[r] = "loop"
    BY <1>14 DEF Tick, StartWithoutReset, vars, rowVars
  <2>2. /\ InHand(e)' = InHand(e) /\ InHand(f)' = InHand(f)
        /\ Passed(f)' => Passed(f)
    BY <2>1 DEF InHand, Passed
  <2> QED
    BY <1>1, <1>2, <1>4, <2>1, <2>2
<1>15. ClaimFails(r)
  BY <1>5, <1>6, <1>7, <1>8, <1>9, <1>10, <1>11, <1>12, <1>13, <1>14
  DEF Next, RelayStep, RelayFault
<1>16. ASSUME e # current[r] PROVE FALSE
  <2>1. /\ UNCHANGED <<status, resets, batch>> /\ stage'[r] = "loop" /\ current'[r] = 0
    BY <1>15 DEF ClaimFails, rowVars, EndEvent
  <2>2. /\ InHand(e)' <=> InHand(e)
        /\ InHand(f)' => InHand(f)
        /\ Passed(f)' => Passed(f)
    BY <1>3, <1>16, <2>1 DEF InHand, Passed
  <2> QED
    BY <1>1, <1>2, <1>4, <2>1, <2>2
<1> QED
  BY <1>15, <1>16

-----------------------------------------------------------------------------

\* With one relay, at most one event is newly disturbed in a step: the one the
\* relay has in hand when it meets a fault.
LEMMA DisturbedBy ==
  ASSUME SInv, NEW r, Relays = {r}, Alone, [Next]_vars, UNCHANGED backfillVars,
         NEW e \in Disturbed', e \notin Disturbed
  PROVE  /\ e \in Events /\ current[r] = e
         /\ ClaimFails(r) \/ Stop(r) \/ ClaimUnacknowledged(r) \/ MarkFails(r)
<1>1. Replayed' = Replayed
  BY DEF backfillVars, Replayed
<1>2. e \notin (Displaced \ Replayed) /\ e \notin Stranded
  BY DEF Disturbed
<1>3. e \in Events => resets[e] = 0 /\ ~Overtaken(e)
  BY DEF Disturbed, SInv, StreamTypeOK, TypeOK
<1>4. e \notin Displaced'  \/ e \in Replayed'
  BY <1>1, <1>2, <1>3, DisplacedBy
<1>5. CASE e \in Stranded'
  <2>1. e \in Events /\ Typed
    BY <1>5 DEF Stranded, SInv, Quiet
  <2> DEFINE By(q) == /\ current[q] = e
                      /\ Stop(q) \/ ClaimUnacknowledged(q) \/ MarkFails(q)
  <2>2. \E q \in Relays : By(q)
    BY <1>2, <1>5, <2>1, StrandedBy
  <2>3. By(r)
    <3> HIDE DEF By
    <3> QED
      BY <2>2
  <2> QED
    BY <2>1, <2>3
<1>6. CASE e \in Events /\ resets'[e] > 0
  BY <1>2, <1>3, <1>6, ResetBy
<1>7. CASE e \in Events /\ Overtaken(e)'
  BY <1>2, <1>3, <1>7, OvertakenBy
<1> QED
  BY <1>4, <1>5, <1>6, <1>7 DEF Disturbed

DisorderInv == IsFiniteSet(Disturbed) /\ Cardinality(Disturbed) <= faults

\* Where nothing new is disturbed, the bound holds.
LEMMA DisorderKept ==
  ASSUME DisorderInv, faults \in Nat, faults' \in Nat, faults <= faults',
         Disturbed' \subseteq Disturbed
  PROVE  DisorderInv'
<1>1. /\ IsFiniteSet(Disturbed') /\ Cardinality(Disturbed') <= Cardinality(Disturbed)
      /\ Cardinality(Disturbed) \in Nat /\ Cardinality(Disturbed) <= faults
  BY FS_Subset, FS_CardinalityType DEF DisorderInv
<1>2. Cardinality(Disturbed') \in Nat
  BY <1>1, FS_CardinalityType
<1>3. Cardinality(Disturbed') <= faults'
  BY <1>1, <1>2
<1> QED
  BY <1>1, <1>3 DEF DisorderInv

LEMMA RelayKeepsDisorder ==
  ASSUME SInv, NEW r, Relays = {r}, Alone, DisorderInv, [Next]_vars, UNCHANGED backfillVars
  PROVE  DisorderInv'
<1>1. faults \in Nat /\ (faults' = faults \/ faults' = faults + 1)
  BY DEF SInv, StreamTypeOK, TypeOK, Next, vars, RelayStep, RelayFault, Insert, Tick, Start,
         Fault, NoFault, StartWithoutReset, Stop, Poll, BeginEvent, Claim, ClaimRefused,
         ClaimFails, ClaimUnacknowledged, Publish, PublishFails, MarkSent, MarkFailed, MarkFails
<1>2. CASE Disturbed' \subseteq Disturbed
  BY <1>1, <1>2, DisorderKept
<1>3. CASE ~(Disturbed' \subseteq Disturbed)
  <2>1. /\ Disturbed' \subseteq Disturbed \cup {current[r]}
        /\ ClaimFails(r) \/ Stop(r) \/ ClaimUnacknowledged(r) \/ MarkFails(r)
    BY <1>3, DisturbedBy
  <2>2. faults' = faults + 1
    BY <2>1 DEF ClaimFails, Stop, ClaimUnacknowledged, MarkFails, Fault
  <2>3. /\ IsFiniteSet(Disturbed \cup {current[r]})
        /\ Cardinality(Disturbed \cup {current[r]})
              \in {Cardinality(Disturbed), Cardinality(Disturbed) + 1}
        /\ Cardinality(Disturbed) \in Nat /\ Cardinality(Disturbed) <= faults
    BY FS_AddElement, FS_CardinalityType DEF DisorderInv
  <2>4. /\ IsFiniteSet(Disturbed')
        /\ Cardinality(Disturbed') <= Cardinality(Disturbed \cup {current[r]})
    BY <2>1, <2>3, FS_Subset
  <2>5. Cardinality(Disturbed') \in Nat
    BY <2>4, FS_CardinalityType
  <2>6. Cardinality(Disturbed') <= faults'
    BY <1>1, <2>2, <2>3, <2>4, <2>5
  <2> QED
    BY <2>4, <2>6 DEF DisorderInv
<1> QED
  BY <1>2, <1>3

\* What is replayed is displaced by a replay at worst.
LEMMA ReplayDisturbsNone ==
  ASSUME SInv, NEW e \in queue, Replay(e), RelaysAlone
  PROVE  Disturbed' \subseteq Disturbed
<1>1. e \in Events
  BY QueuedPublished
<1>2. /\ topic' = Append(topic, e) /\ replays' = [replays EXCEPT ![e] = @ + 1]
      /\ replays \in [Events -> Nat] /\ TypeOK
  BY DEF Replay, SInv, StreamTypeOK
<1>3. Replayed' = Replayed \cup {e}
  BY <1>1, <1>2 DEF Replayed
<1>4. Displaced' \subseteq Displaced \cup {e}
  BY <1>1, <1>2, DisplacedAppend
<1>5. Stranded' = Stranded /\ \A f \in Events : Overtaken(f)' <=> Overtaken(f)
  BY DEF RelaysAlone, Stranded, Holders, Overtaken, Passed, InHand
<1> QED
  BY <1>3, <1>4, <1>5 DEF Disturbed, RelaysAlone

LEMMA SkipDisturbsNone ==
  ASSUME topic' = topic, replays' = replays, RelaysAlone
  PROVE  Disturbed' = Disturbed
BY DEF RelaysAlone, Disturbed, Displaced, Replayed, Stranded, Holders, Overtaken, Passed,
       InHand

Ordered == SInv /\ Alone /\ DisorderInv

LEMMA SkipKeepsOrdered ==
  ASSUME Ordered, SInv', topic' = topic, replays' = replays, RelaysAlone,
         faults \in Nat, faults' \in Nat, faults <= faults'
  PROVE  Ordered'
<1>1. Alone'
  BY BackfillKeepsAlone DEF Ordered, Published
<1>2. DisorderInv'
  BY SkipDisturbsNone, DisorderKept DEF Ordered
<1> QED
  BY <1>1, <1>2 DEF Ordered

LEMMA ReplayKeepsOrdered ==
  ASSUME Ordered, SInv', NEW e \in queue, Replay(e), RelaysAlone,
         faults \in Nat, faults' \in Nat, faults <= faults'
  PROVE  Ordered'
<1>1. e \in Events /\ Published(e)
  BY QueuedPublished DEF Ordered
<1>2. topic' = Append(topic, e) /\ TypeOK
  BY DEF Replay, Ordered, SInv, StreamTypeOK
<1>3. Alone'
  BY <1>1, <1>2, AppendCounts, BackfillKeepsAlone DEF Ordered
<1>4. DisorderInv'
  BY ReplayDisturbsNone, DisorderKept DEF Ordered
<1> QED
  BY <1>3, <1>4 DEF Ordered

LEMMA OrderedInit == StreamInit => Ordered
<1> SUFFICES ASSUME StreamInit PROVE Ordered
  OBVIOUS
<1> USE DEF StreamInit, Init
<1>1. SInv
  BY SInvInit
<1>2. \A e \in Events : ~Published(e)
  BY DEF Published
<1>3. Alone
  BY <1>2 DEF Alone
<1>4. Displaced = {} /\ Stranded = {}
  BY DEF Displaced, Stranded
<1>5. Disturbed = {}
  BY <1>4 DEF Disturbed, Overtaken
<1>6. DisorderInv
  BY <1>5, FS_EmptySet DEF DisorderInv
<1> QED
  BY <1>1, <1>3, <1>6 DEF Ordered

LEMMA OrderedNext ==
  ASSUME NEW r, Relays = {r}
  PROVE  Ordered /\ [StreamNext]_streamVars => Ordered'
<1> SUFFICES ASSUME Ordered, [StreamNext]_streamVars PROVE Ordered'
  OBVIOUS
<1> USE DEF Ordered
<1>1. SInv'
  BY SInvNext
<1>2. CASE [Next]_vars /\ UNCHANGED backfillVars
  BY <1>1, <1>2, AloneNext, RelayKeepsDisorder
<1>3. faults \in Nat /\ faults' \in Nat
  BY <1>1 DEF SInv, StreamTypeOK, TypeOK
<1>4. CASE BackfillQuery
  <2>1. topic' = topic /\ replays' = replays /\ RelaysAlone /\ faults' = faults
    BY <1>4 DEF BackfillQuery, vars, RelaysAlone
  <2> QED
    BY <1>1, <1>3, <2>1, SkipKeepsOrdered
<1>5. CASE BackfillPublish \/ BackfillPublishFails \/ BackfillStops
  <2>1. RelaysAlone /\ faults <= faults'
    BY <1>3, <1>5 DEF BackfillPublish, BackfillPublishFails, BackfillStops, RelaysAlone,
                      rowVars, Fault, NoFault
  <2>2. \/ \E e \in queue : Replay(e)
        \/ topic' = topic /\ replays' = replays
    BY <1>5 DEF BackfillPublish, BackfillPublishFails, BackfillStops
  <2>3. CASE \E e \in queue : Replay(e)
    BY <1>1, <1>3, <2>1, <2>3, ReplayKeepsOrdered
  <2> QED
    BY <1>1, <1>3, <2>1, <2>2, <2>3, SkipKeepsOrdered
<1> QED
  BY <1>2, <1>4, <1>5 DEF StreamNext, BackfillStep, streamVars

\* With one relay, whatever its batches, and any number of runs of the backfill,
\* a fault puts at most one event of the relay behind a later one of its user.
THEOREM DisorderLimited ==
  ASSUME NEW r, Relays = {r}
  PROVE  StreamSpec => []DisorderBounded
<1>1. Ordered => DisorderBounded
  <2> SUFFICES ASSUME Ordered PROVE DisorderBounded
    OBVIOUS
  <2>1. /\ IsFiniteSet(Disturbed) /\ Cardinality(Disturbed) \in Nat
        /\ Cardinality(Disturbed) <= faults /\ faults \in Nat
    BY FS_CardinalityType DEF Ordered, DisorderInv, SInv, StreamTypeOK, TypeOK
  <2>2. Displaced \ Replayed \subseteq Disturbed
    BY DEF Disturbed
  <2>3. /\ IsFiniteSet(Displaced \ Replayed)
        /\ Cardinality(Displaced \ Replayed) <= Cardinality(Disturbed)
    BY <2>1, <2>2, FS_Subset
  <2>4. Cardinality(Displaced \ Replayed) \in Nat
    BY <2>3, FS_CardinalityType
  <2> QED
    BY <2>1, <2>3, <2>4 DEF DisorderBounded
<1> QED
  BY OrderedInit, OrderedNext, <1>1, PTL DEF StreamSpec
=============================================================================
