----------------------------- MODULE OutboxStream -----------------------------
(***************************************************************************)
(* The topic with all who write to it: the relays of OutboxRelay, and the  *)
(* backfill tool (monolith/cmd/backfill), which publishes rows that are    *)
(* SENT once more, to the topic they went to.                              *)
(*                                                                         *)
(* One run of the tool makes one query and then publishes the rows of its  *)
(* result one at a time, while services and relays go on.  It writes to no *)
(* row.  A dry run changes nothing and is no step here.                    *)
(***************************************************************************)
EXTENDS OutboxRelay

CONSTANTS
    BackfillLimit,  \* -batch-size
    MaxBackfills    \* bound on the runs of the tool

ASSUME BackfillAssumption == BackfillLimit \in Nat /\ MaxBackfills \in Nat

VARIABLES
    queue,      \* the rows of the query that the tool has yet to publish
    replays,    \* history: replays[e] counts the messages of e the tool appended
    backfills   \* the runs of the tool so far

backfillVars == <<queue, replays, backfills>>

streamVars == <<vars, backfillVars>>

StreamTypeOK ==
    /\ TypeOK
    /\ queue \in SUBSET Events
    /\ replays \in [Events -> Nat]
    /\ backfills \in Nat

StreamInit ==
    /\ Init
    /\ queue = {}
    /\ replays = [e \in Events |-> 0]
    /\ backfills = 0

-----------------------------------------------------------------------------

Sent == {e \in Events : status[e] = "SENT"}

\* Mutant: the query does not look at the status.
IsAnyRows(B) ==
    /\ B \subseteq {e \in Events : status[e] # "ABSENT"}
    /\ Cardinality(B) = BackfillLimit

\* WHERE status = 'SENT' ORDER BY created_at ASC LIMIT BackfillLimit.
IsSentRows(B) ==
    /\ B \subseteq Sent
    /\ \A e \in B, f \in Sent \ B : e < f
    /\ \/ B = Sent /\ Cardinality(B) <= BackfillLimit
       \/ Cardinality(B) = BackfillLimit

BackfillQuery ==
    /\ queue = {}
    /\ backfills < MaxBackfills
    /\ \E B \in SUBSET Events \ {{}} :
          /\ IsSentRows(B)
          /\ queue' = B
    /\ backfills' = backfills + 1
    /\ UNCHANGED <<vars, replays>>

\* The next row of the result.
IsNext(e) == e \in queue /\ \A f \in queue : e <= f

Replay(e) ==
    /\ topic' = Append(topic, e)
    /\ replays' = [replays EXCEPT ![e] = @ + 1]

BackfillPublish ==
    /\ \E e \in queue :
          /\ IsNext(e)
          /\ queue' = queue \ {e}
          /\ Replay(e)
    /\ NoFault
    /\ UNCHANGED <<rowVars, stage, batch, current, resets, backfills>>

\* The error is logged and the next row published.
BackfillPublishFails ==
    /\ Fault
    /\ \E e \in queue :
          /\ IsNext(e)
          /\ queue' = queue \ {e}
          /\ Replay(e) \/ UNCHANGED <<topic, replays>>
    /\ UNCHANGED <<rowVars, stage, batch, current, resets, backfills>>

\* The tool ends before its last row: killed, or a row that cannot be read.
BackfillStops ==
    /\ queue # {}
    /\ Fault
    /\ queue' = {}
    /\ UNCHANGED <<rowVars, stage, batch, current, topic, resets, replays, backfills>>

BackfillStep ==
    \/ BackfillQuery
    \/ BackfillPublish
    \/ BackfillPublishFails
    \/ BackfillStops

StreamNext ==
    \/ Next /\ UNCHANGED backfillVars
    \/ BackfillStep

StreamSpec == StreamInit /\ [][StreamNext]_streamVars

-----------------------------------------------------------------------------
(* Properties. *)

\* The events with a message behind that of a later event of the same user.
Displaced ==
    {topic[j] : j \in {k \in 1 .. Len(topic) :
        \E i \in 1 .. k - 1 : User[topic[i]] = User[topic[k]] /\ topic[k] < topic[i]}}

Replayed == {e \in Events : replays[e] > 0}

\* With a single relay the messages of a user are in order of created_at but
\* for the faults and the backfill: a fault displaces one event, never the
\* rest of its batch, and the backfill displaces only events it publishes,
\* never one that a relay publishes in between.
DisorderBounded == Cardinality(Displaced \ Replayed) <= faults

\* The backfill only repeats what a relay has published, though relays mark,
\* reset and publish between its query and its messages.
BackfillOnlyRepeats ==
    \A e \in Events : e \in queue \/ replays[e] > 0 => Copies(e) > replays[e]

\* The copies of a message are accounted for: the one it was committed for,
\* one for every reset, one for every replay.
StreamCopiesBounded ==
    \A e \in Events : Copies(e) <= 1 + resets[e] + replays[e]
=============================================================================
