----------------------------- MODULE OutboxRelay -----------------------------
(***************************************************************************)
(* The transactional outbox relay (monolith/internal/relay) over the       *)
(* outbox_events table (monolith/internal/database) and the Kafka topic    *)
(* (monolith/internal/kafka).                                              *)
(*                                                                         *)
(* Relay processes share nothing but the table and the topic.  Each one    *)
(* polls the NEW rows, and for every row of its batch claims it in one     *)
(* transaction, publishes it, and marks it SENT or FAILED in another       *)
(* transaction.  Between two of these steps any other relay, the service   *)
(* that inserts rows, or the end of the process may intervene.  Every      *)
(* transaction holds a single UPDATE, so it is one atomic step here.       *)
(***************************************************************************)
EXTENDS Integers, Sequences, FiniteSets

CONSTANTS
    Events,             \* ids of outbox rows, numbered in order of created_at
    Relays,             \* relay processes
    User,               \* User[e] is the aggregate, and partition key, of e
    MaxRetries,         \* max_retries of every row
    BatchSize,          \* RelayConfig.BatchSize
    ProcessingTimeout,  \* RelayConfig.ProcessingTimeout, in clock ticks
    MaxFaults           \* bound on the faults of a behaviour

ASSUME EventsAssumption == Events \subseteq Nat \ {0}
ASSUME RelaysAssumption == IsFiniteSet(Relays)
ASSUME ParametersAssumption ==
    /\ MaxRetries \in Nat \ {0}
    /\ BatchSize \in Nat
    /\ ProcessingTimeout \in Nat
    /\ MaxFaults \in Nat

\* No event in hand.  Events are numbered from one.
NoEvent == 0

Statuses == {"ABSENT", "NEW", "PROCESSING", "SENT", "FAILED"}

\* Where a relay is in its loop: not running; between events; about to claim
\* current; about to publish it; about to mark it SENT; about to mark it FAILED.
Stages == {"down", "loop", "claim", "publish", "sent", "failed"}

\* What a relay remembers of a polled row and later acts on.
Snapshot == [event : Events, retryCount : Nat]

VARIABLES
    status,     \* outbox_events.status; ABSENT while the row is not committed
    retryCount, \* outbox_events.retry_count
    age,        \* ticks since processed_at of a PROCESSING row, saturating
    stage,      \* stage[r]: where relay r is
    batch,      \* batch[r]: the rows of r's last poll that it has yet to handle
    current,    \* current[r]: the event r is handling
    topic,      \* the messages of the Kafka topic, in order of append
    resets,     \* history: resets[e] counts the times e went back to NEW
    faults      \* the faults so far

vars == <<status, retryCount, age, stage, batch, current, topic, resets, faults>>

rowVars == <<status, retryCount, age>>

TypeOK ==
    /\ status \in [Events -> Statuses]
    /\ retryCount \in [Events -> Nat]
    /\ age \in [Events -> 0 .. ProcessingTimeout + 1]
    /\ stage \in [Relays -> Stages]
    /\ batch \in [Relays -> SUBSET Snapshot]
    /\ current \in [Relays -> Events \cup {NoEvent}]
    /\ topic \in Seq(Events)
    /\ resets \in [Events -> Nat]
    /\ faults \in Nat

Init ==
    /\ status = [e \in Events |-> "ABSENT"]
    /\ retryCount = [e \in Events |-> 0]
    /\ age = [e \in Events |-> 0]
    /\ stage = [r \in Relays |-> "down"]
    /\ batch = [r \in Relays |-> {}]
    /\ current = [r \in Relays |-> NoEvent]
    /\ topic = <<>>
    /\ resets = [e \in Events |-> 0]
    /\ faults = 0

\* A step in which something outside the program goes wrong.
Fault ==
    /\ faults < MaxFaults
    /\ faults' = faults + 1

NoFault == UNCHANGED faults

-----------------------------------------------------------------------------
(* The rest of the world: the service and the clock. *)

\* The service commits a row.  The rows of one user appear in order of
\* created_at: the UPDATE of the users row, made before the event is
\* stamped, keeps a second transaction of that user waiting.
Insert(e) ==
    /\ status[e] = "ABSENT"
    /\ \A f \in Events : f < e /\ User[f] = User[e] => status[f] # "ABSENT"
    /\ status' = [status EXCEPT ![e] = "NEW"]
    /\ NoFault
    /\ UNCHANGED <<retryCount, age, stage, batch, current, topic, resets>>

\* Time passes.  Only processed_at of PROCESSING rows is ever compared with
\* the clock; past the timeout all ages are alike.
Tick ==
    /\ \E e \in Events : status[e] = "PROCESSING" /\ age[e] <= ProcessingTimeout
    /\ age' = [e \in Events |->
                 IF status[e] = "PROCESSING" /\ age[e] <= ProcessingTimeout
                 THEN age[e] + 1 ELSE age[e]]
    /\ NoFault
    /\ UNCHANGED <<status, retryCount, stage, batch, current, topic, resets>>

-----------------------------------------------------------------------------
(* One UPDATE of the table each. *)

Stale(e) == status[e] = "PROCESSING" /\ age[e] > ProcessingTimeout

\* Mutant: the reset takes FAILED rows along.
ResetStaleAndFailed ==
    /\ status' = [e \in Events |->
                    IF Stale(e) \/ status[e] = "FAILED" THEN "NEW" ELSE status[e]]
    /\ age' = [e \in Events |-> IF Stale(e) THEN 0 ELSE age[e]]
    /\ resets' = [e \in Events |-> IF Stale(e) THEN resets[e] + 1 ELSE resets[e]]
    /\ UNCHANGED retryCount

ResetStaleProcessingEvents ==
    /\ status' = [e \in Events |-> IF Stale(e) THEN "NEW" ELSE status[e]]
    /\ age' = [e \in Events |-> IF Stale(e) THEN 0 ELSE age[e]]
    /\ resets' = [e \in Events |-> IF Stale(e) THEN resets[e] + 1 ELSE resets[e]]
    /\ UNCHANGED retryCount

\* Mutant: the claim does not look at the status.
MarkEventAsProcessingUnguarded(e) ==
    /\ status' = [status EXCEPT ![e] = "PROCESSING"]
    /\ age' = [age EXCEPT ![e] = 0]
    /\ UNCHANGED retryCount

\* WHERE status = 'NEW': the row count tells the caller whether it matched.
MarkEventAsProcessing(e) ==
    /\ status[e] = "NEW"
    /\ status' = [status EXCEPT ![e] = "PROCESSING"]
    /\ age' = [age EXCEPT ![e] = 0]
    /\ UNCHANGED retryCount

\* Mutant: the transaction of the mark is not committed.
MarkEventAsSentUncommitted(e) == UNCHANGED rowVars

\* Mutant: the failure counts the attempts that are left.
MarkEventAsFailedCountingDown(e) ==
    /\ status' = [status EXCEPT ![e] = "FAILED"]
    /\ age' = [age EXCEPT ![e] = 0]
    /\ retryCount' = [retryCount EXCEPT ![e] = @ - 1]

\* Neither of the next two looks at the status it replaces.
MarkEventAsSent(e) ==
    /\ status' = [status EXCEPT ![e] = "SENT"]
    /\ age' = [age EXCEPT ![e] = 0]
    /\ UNCHANGED retryCount

MarkEventAsFailed(e) ==
    /\ status' = [status EXCEPT ![e] = "FAILED"]
    /\ age' = [age EXCEPT ![e] = 0]
    /\ retryCount' = [retryCount EXCEPT ![e] = @ + 1]

-----------------------------------------------------------------------------
(* A relay process. *)

\* The process starts and resets stale rows, once.
Start(r) ==
    /\ stage[r] = "down"
    /\ ResetStaleProcessingEvents
    /\ stage' = [stage EXCEPT ![r] = "loop"]
    /\ NoFault
    /\ UNCHANGED <<batch, current, topic>>

\* A failed reset is logged and the loop starts all the same.
StartWithoutReset(r) ==
    /\ stage[r] = "down"
    /\ Fault
    /\ stage' = [stage EXCEPT ![r] = "loop"]
    /\ UNCHANGED <<rowVars, batch, current, topic, resets>>

\* The process ends: killed, or main returns right after cancel(), waiting
\* for no goroutine.  What the relay had in memory is gone.
Stop(r) ==
    /\ stage[r] # "down"
    /\ Fault
    /\ stage' = [stage EXCEPT ![r] = "down"]
    /\ batch' = [batch EXCEPT ![r] = {}]
    /\ current' = [current EXCEPT ![r] = NoEvent]
    /\ UNCHANGED <<rowVars, topic, resets>>

Pending == {e \in Events : status[e] = "NEW"}

\* Mutant: no ORDER BY.
IsPendingUnordered(B) ==
    /\ B \subseteq Pending
    /\ \/ B = Pending /\ Cardinality(B) <= BatchSize
       \/ Cardinality(B) = BatchSize

\* Mutant: LIMIT is one less than the batch size.
IsPendingOneShort(B) ==
    /\ B \subseteq Pending
    /\ \A e \in B, f \in Pending \ B : e < f
    /\ \/ B = Pending /\ Cardinality(B) < BatchSize
       \/ Cardinality(B) = BatchSize - 1

\* B is what ORDER BY created_at LIMIT BatchSize returns of the NEW rows.
IsPendingOutboxEvents(B) ==
    /\ B \subseteq Pending
    /\ \A e \in B, f \in Pending \ B : e < f
    /\ \/ B = Pending /\ Cardinality(B) <= BatchSize
       \/ Cardinality(B) = BatchSize

Poll(r) ==
    /\ stage[r] = "loop"
    /\ batch[r] = {}
    /\ \E B \in SUBSET Pending :
          /\ B # {}
          /\ IsPendingOutboxEvents(B)
          /\ batch' = [batch EXCEPT ![r] =
                         {[event |-> e, retryCount |-> retryCount[e]] : e \in B}]
    /\ NoFault
    /\ UNCHANGED <<rowVars, stage, current, topic, resets>>

\* The next event of the range loop, in polled order.  The guard reads the
\* retry count of the poll, not of the row as it is now.
BeginEvent(r) ==
    /\ stage[r] = "loop"
    /\ \E s \in batch[r] :
          /\ \A t \in batch[r] : s.event <= t.event
          /\ batch' = [batch EXCEPT ![r] = @ \ {s}]
          /\ current' = [current EXCEPT ![r] = s.event]
          /\ stage' = [stage EXCEPT ![r] =
                         IF s.retryCount >= MaxRetries THEN "failed" ELSE "claim"]
    /\ NoFault
    /\ UNCHANGED <<rowVars, topic, resets>>

\* Relay r is done with its event, for better or worse: on to the next.
EndEvent(r) ==
    /\ stage' = [stage EXCEPT ![r] = "loop"]
    /\ current' = [current EXCEPT ![r] = NoEvent]
    /\ UNCHANGED batch

Claim(r) ==
    /\ stage[r] = "claim"
    /\ MarkEventAsProcessing(current[r])
    /\ stage' = [stage EXCEPT ![r] = "publish"]
    /\ NoFault
    /\ UNCHANGED <<batch, current, topic, resets>>

\* No row matched: the transaction is rolled back and the event skipped.
ClaimRefused(r) ==
    /\ stage[r] = "claim"
    /\ status[current[r]] # "NEW"
    /\ EndEvent(r)
    /\ NoFault
    /\ UNCHANGED <<rowVars, topic, resets>>

\* BeginTx, the UPDATE or Commit fails and nothing is written ...
ClaimFails(r) ==
    /\ stage[r] = "claim"
    /\ Fault
    /\ EndEvent(r)
    /\ UNCHANGED <<rowVars, topic, resets>>

\* ... or Commit reports an error although the database committed.
ClaimUnacknowledged(r) ==
    /\ stage[r] = "claim"
    /\ Fault
    /\ MarkEventAsProcessing(current[r])
    /\ EndEvent(r)
    /\ UNCHANGED <<topic, resets>>

\* SendMessage returns nil: all in-sync replicas have the message.
Publish(r) ==
    /\ stage[r] = "publish"
    /\ topic' = Append(topic, current[r])
    /\ stage' = [stage EXCEPT ![r] = "sent"]
    /\ NoFault
    /\ UNCHANGED <<rowVars, batch, current, resets>>

\* Mutant: the error of SendMessage is not looked at.
PublishErrorIgnored(r) ==
    /\ stage[r] = "publish"
    /\ Fault
    /\ topic' \in {topic, Append(topic, current[r])}
    /\ stage' = [stage EXCEPT ![r] = "sent"]
    /\ UNCHANGED <<rowVars, batch, current, resets>>

\* SendMessage returns an error after the producer's own retries; the broker
\* may have appended the message all the same.
PublishFails(r) ==
    /\ stage[r] = "publish"
    /\ Fault
    /\ topic' \in {topic, Append(topic, current[r])}
    /\ stage' = [stage EXCEPT ![r] = "failed"]
    /\ UNCHANGED <<rowVars, batch, current, resets>>

MarkSent(r) ==
    /\ stage[r] = "sent"
    /\ MarkEventAsSent(current[r])
    /\ EndEvent(r)
    /\ NoFault
    /\ UNCHANGED <<topic, resets>>

MarkFailed(r) ==
    /\ stage[r] = "failed"
    /\ MarkEventAsFailed(current[r])
    /\ EndEvent(r)
    /\ NoFault
    /\ UNCHANGED <<topic, resets>>

\* The marking transaction fails: logged, never tried again.
MarkFails(r) ==
    /\ stage[r] \in {"sent", "failed"}
    /\ Fault
    /\ EndEvent(r)
    /\ UNCHANGED <<rowVars, topic, resets>>

-----------------------------------------------------------------------------

\* What relay r does when nothing goes wrong.
RelayStep(r) ==
    \/ Start(r)
    \/ Poll(r)
    \/ BeginEvent(r)
    \/ Claim(r)
    \/ ClaimRefused(r)
    \/ Publish(r)
    \/ MarkSent(r)
    \/ MarkFailed(r)

RelayFault(r) ==
    \/ StartWithoutReset(r)
    \/ Stop(r)
    \/ ClaimFails(r)
    \/ ClaimUnacknowledged(r)
    \/ PublishFails(r)
    \/ MarkFails(r)

Next ==
    \/ \E e \in Events : Insert(e)
    \/ Tick
    \/ \E r \in Relays : RelayStep(r) \/ RelayFault(r)

Spec == Init /\ [][Next]_vars

\* The ticker fires for ever, every call of the loop returns, an ended
\* process is started again, and the clock runs.  Rows and faults may stop.
Fairness ==
    /\ \A r \in Relays : WF_vars(RelayStep(r))
    /\ WF_vars(Tick)

FairSpec == Spec /\ Fairness

-----------------------------------------------------------------------------
(* Safety. *)

Positions(e) == {i \in 1 .. Len(topic) : topic[i] = e}
Copies(e) == Cardinality(Positions(e))

Published(e) == \E i \in 1 .. Len(topic) : topic[i] = e

\* The relays that will append e unless they stop.
Publishers(e) == {r \in Relays : stage[r] = "publish" /\ current[r] = e}

\* The relays that own e: they claimed it and have not marked it yet.
Holders(e) == {r \in Relays : current[r] = e /\ stage[r] \in {"publish", "sent", "failed"}}

\* A row is SENT only if its message is in the topic, whichever relay marked
\* it last: MarkEventAsSent writes unconditionally.
SentIsPublished == \A e \in Events : status[e] = "SENT" => Published(e)

\* Every copy of a message beyond the first was licensed by a reset of its
\* row: crashes, lost acknowledgements and racing relays duplicate nothing
\* by themselves, and one reset duplicates at most once.
CopiesBounded == \A e \in Events : Copies(e) <= 1 + resets[e]

\* Two relays own the same event only if its row was reset under the first.
ClaimExclusive ==
    \A e \in Events : Cardinality(Holders(e)) <= 1 + resets[e]

\* Nothing brings a row that failed back into the polled set: it is FAILED,
\* or SENT by a relay that had claimed it too.
FailedNeverRequeued ==
    \A e \in Events : retryCount[e] > 0 => status[e] \in {"FAILED", "SENT"}

\* A fault strands at most one row, since rows are claimed one at a time: the
\* PROCESSING rows that no relay owns are no more than the faults so far.
Stranded == {e \in Events : status[e] = "PROCESSING" /\ Holders(e) = {}}

StrandedBounded == Cardinality(Stranded) <= faults

-----------------------------------------------------------------------------
(* Refinement: what the outbox promises, in terms of OutboxDelivery. *)

VerdictOf(s) ==
    CASE s = "ABSENT" -> "absent"
      [] s \in {"NEW", "PROCESSING"} -> "pending"
      [] s = "SENT" -> "confirmed"
      [] s = "FAILED" -> "rejected"

verdict == [e \in Events |-> VerdictOf(status[e])]

\* Copies of e that may still be appended.
allowance ==
    [e \in Events |->
        IF status[e] = "ABSENT" THEN 0 ELSE 1 + resets[e] - Copies(e)]

Delivery == INSTANCE OutboxDelivery

ImplementsDelivery == Delivery!Spec

-----------------------------------------------------------------------------
(* Actions. *)

\* The marks of two relays overwrite each other, SENT by FAILED included, only
\* for a row that was reset while its first owner was still at work.
MarkFinalUnlessReset ==
    [][\A e \in Events :
          status[e] \in {"SENT", "FAILED"} /\ resets[e] = 0 => status'[e] = status[e]]_vars

-----------------------------------------------------------------------------
(* Liveness. *)

\* Every NEW row is taken by a relay: small batches starve no row, and a row
\* is not lost by a relay that polled it and stopped.
NewEventuallyTaken ==
    \A e \in Events : status[e] = "NEW" ~> status[e] # "NEW"

\* Without a fault every row ends SENT for good, also when a relay that
\* starts late resets a row another one is working on.
EventuallySent ==
    \A e \in Events : status[e] = "NEW" ~> ([](status[e] = "SENT") \/ faults > 0)

-----------------------------------------------------------------------------
(* What ARCHITECTURE.md says of the relay. *)

\* ARCHITECTURE.md:218 "Same event won't be published twice to Kafka".
PublishedOnce == \A e \in Events : Copies(e) <= 1

\* ARCHITECTURE.md:324 "No events are lost even if the relay crashes
\* mid-processing": an event that a relay has claimed and is about to publish is
\* published or marked as failed in the end, whatever becomes of the relay.
InterruptedReprocessed ==
    \A e \in Events :
        Publishers(e) # {} ~> Published(e) \/ status[e] = "FAILED"

\* ARCHITECTURE.md:244 "Retry failed events 3 times".
FailedRetried ==
    \A e \in Events :
        status[e] = "FAILED" /\ retryCount[e] < MaxRetries ~> status[e] # "FAILED"
=============================================================================
