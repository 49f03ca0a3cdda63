# Verification of coding-gym

TLA+ models, TLC configurations and TLAPS proofs for the Go programs of this
repository: a user service with a transactional outbox, a relay that carries the
outbox to Kafka, and rate limiters kept in Redis. `monolith/` is the reference;
`outbox-kafka/` and `redis-token-bucket/` hold earlier copies of its packages
(the bucket package is identical, the others differ in import paths and in how
the relay rolls back a transaction).

## Inventory

| Component (under `monolith/`) | State | Operations | Interacts with | Hard behaviour | Correct if |
|---|---|---|---|---|---|
| user service, `internal/service`, `cmd/server` | rows of `users`, rows of `outbox_events`, the pooled connections | CreateUser, UpdateUser, GetUser, TestCrashScenario | PostgreSQL; the relay reads its events | concurrent requests, failing statements, a lost commit acknowledgement, a crash, a pool used up | row and event appear together, in the same order; what is answered with success is there; nobody waits for ever |
| outbox relay, `internal/relay`, `cmd/relay` | its batch and the event in hand; `status`, `retry_count`, `processed_at` of rows | start with reset, poll, claim, publish, mark | PostgreSQL, Kafka, other relays through the table | several relays, a stop at any step, lost acknowledgements, a timeout that fires under a live owner | SENT means published; copies, stranded rows and disorder are bounded by what went wrong; nothing starves |
| Kafka producer, `internal/kafka/producer.go` | none of its own | PublishEvent, PublishEvents, HealthCheck | Kafka | an error although the message was appended | as above |
| token bucket, `internal/bucket/bucket.go`, `scripts.go` | a hash in Redis with a time stamp and an expiry | TakeTokens, GetBucketState, ResetBucket | any number of callers; the clock of Redis | lazy refill, expiry, clock stepping back, repeated calls, truncated answers | never grants more than filled and refilled; a wait that was told is enough |
| sliding window, `internal/bucket/sliding_window.go` | a sorted set in Redis with an expiry | IsAllowed, GetWindowState, ClearWindow | client processes with clocks of their own | readings of different clocks that meet out of order, late and repeated calls, requests in one millisecond | every stretch of time sees at most MaxRequests; a refused client that waits as told gets in |
| middleware, bucket and user handlers, `cmd/unified-server`, `internal/middleware`, `internal/handler` | none beyond the buckets; the goroutine of each request | one token per request; check, consume, reset, bulk consume; the user API; shutdown | token bucket, user service | concurrent requests of one client, failing calls, deadlines in the middle of a bulk call, a call that never returns, shutdown | a request that is turned away does nothing; a client gets no more than its bucket, as far as the API leaves the bucket alone; answers add up; the server stops |
| backfill, `cmd/backfill` | the result of its query | publish SENT rows once more | the table and Kafka | rows change between query and publish, relays publish in between | it repeats what was published, and disturbs no other event |
| partition strategies, `internal/kafka/partition.go` | the counter of the round robin | GetPartition, GetOptimalPartitionCount | none (no caller) | 32-bit arithmetic | a partition in range |
| configuration, migrations, `cmd/migrate` | none | start-up | | | |

## Modules

| Module | Models | Proved in |
|---|---|---|
| `OutboxRelay` | the relays, the table and the topic | `OutboxRelayProofs` |
| `OutboxDelivery` | abstract: what the outbox promises | `OutboxDeliveryProofs` (OutboxRelay implements it) |
| `OutboxStream` | composition: OutboxRelay with the backfill tool on the same table and topic | `OutboxStreamProofs` |
| `UserService` | requests, transactions, the connection pool | `UserServiceProofs` |
| `UserEvents` | abstract: row and event change together | `UserServiceProofs` (UserService implements it) |
| `TokenBucket` | the three Lua scripts, the clock, expiry | `TokenBucketProofs` |
| `EagerBucket` | abstract: a bucket that refills with every tick | `TokenBucketProofs` (TokenBucket implements it), `UnifiedServerProofs` (limiter and bucket API implement it) |
| `SlidingWindow` | the scripts of the sliding window, clients with clocks of their own | `SlidingWindowProofs` |
| `UnifiedServer` | middleware, handlers and shutdown, over buckets that are EagerBuckets | `UnifiedServerProofs` |
| `Partitioning` | the partition strategies, as functions | `PartitioningProofs` |
| `MCOutboxRelay`, `MCOutboxStream`, `MCUserService`, `MCTokenBucket`, `MCSlidingWindow`, `MCUnifiedServer` | instances for TLC | |

`OutboxStream` extends `OutboxRelay`: its steps are those of the relays and those of the
tool. `UnifiedServer` stands on what the other modules show of the components under it:
`TokenBucket` implements `EagerBucket`, so its buckets are levels that refill, and
`UserService` shows that a success is in the database and a failure may be.

The definitions named `...Unguarded`, `...Uncommitted`, `Retried` and so on, each
introduced by a comment that starts with "Mutant", are not used by any
specification. Each is a plausible bug of the code; put in place of the definition that
follows it, it breaks a property that `PROJECT.json` names.

### OutboxRelay

Relay processes share only the table and the topic. Each transaction of the relay
holds one UPDATE, so that a transaction is one step; between two steps of a relay
anything else may happen. `stage[r]` is the place of relay `r` in `processEvent`,
`batch[r]` what its last poll returned and it has yet to handle (with the
`retry_count` of the poll, which is what the guard of `processEvent` reads).

| Action | Code |
|---|---|
| `Insert` | the service commits a row (`Repository.CreateOutboxEvent`) |
| `Start`, `StartWithoutReset` | `Relay.Start` with `ResetStaleProcessingEvents`, which may fail |
| `Poll`, `BeginEvent` | `processOutboxEvents`, the loop over the batch, the retry guard |
| `Claim`, `ClaimRefused`, `ClaimFails`, `ClaimUnacknowledged` | the claiming transaction: row matched, not matched, an error before the commit, an error reported although committed |
| `Publish`, `PublishFails` | `SendMessage`: acknowledged; an error, with the message appended or not |
| `MarkSent`, `MarkFailed`, `MarkFails` | the marking transactions, and their failure, which is only logged |
| `Stop` | the process ends at any step; so does an orderly shutdown, as `main` waits for no goroutine |
| `Tick` | time passes; a row's age saturates just above the timeout |

A mark whose commit is reported as failed although it happened leaves the state of
`MarkSent` or `MarkFailed`, since the relay goes on to the next event either way.
A poll that fails changes nothing. Rows are numbered in order of `created_at`, and
the rows of one user are committed in that order: `UserService` shows why (it
implements the dates of `UserEvents`), as long as one server dates the events and its clock does not
step back. The UPDATEs that follow the claim are unconditional in the code and in
the model. `topic` is one partition as a sequence; messages of different partitions
are not compared, since properties about order speak of one user's messages and the
key of a message is its user.

`allowance`, `verdict` and `OutboxDelivery` say what is left of the promise of
exactly one delivery: a row has one copy of its message to spend, and one more for
every time a reset brought it back; SENT rows are in the topic; SENT and FAILED rows
never go back to pending.

### UserService

A request goes through its statements one step at a time. A transaction has a
connection of the pool for as long as it is open; `GetUserByID` takes another one
from the pool, also within UpdateUser. PostgreSQL is modelled as far as the code
leans on it: writes appear with the commit, the UNIQUE constraint refuses an email of
another row, and a broken connection rolls back.

An INSERT or UPDATE is two steps, since it can wait twice. `WriteUser` locks the row, once
no open transaction has it; `EnterEmail` or `WriteRefused` comes when no open transaction has
the email in the unique index, be it one that takes the email or one whose row had it and
may yet keep it. Two updates that want the emails of each other's rows wait in a circle
(`InCircle`), of which PostgreSQL rolls one back (`DeadlockDetected`).

| Action | Code |
|---|---|
| `Receive`, `BeginTx` | the handler, and `BeginTx` with its connection |
| `Validate` | `GetUserByID` within UpdateUser, and the early return |
| `WriteUser`, `EnterEmail`, `WriteRefused`, `DeadlockDetected` | the statement on `users`, its two waits and its errors |
| `WriteEvent` | the date of the event and its INSERT |
| `Commit`, `CommitUnacknowledged` | the commit, and one reported as failed although it happened |
| `GetUser` | GET |
| `StatementFails`, `Crash` | any error of a statement with the deferred rollback; the end of the process |

`Tables` are the rows that the service may start on: an empty table, or the rows of its
earlier runs, whose events have been published and cleaned up.

The deferred rollback runs when `err` is not nil; the early return for a user that
does not exist leaves `err` nil, so `Validate` ends the request with the transaction
open. `TestCrashScenario` is the CreateUser of kind `crashTest` (with `crashAfterDB`;
without, it is CreateUser). Fields other than the email are left out.

`handleCrashTest` (`cmd/server/main.go:199-212`) takes every error of such a call for the
simulated crash and answers 202, "User created but simulated crash occurred": after the commit,
but also when the email is taken, a statement fails or no transaction can be opened,
with nothing in the database. `ErrorReply` says so, and `Durable` is
about the creations and updates that are answered with success; a 202 tells nothing. (The unified server
answers 500 to every crash test.)

### TokenBucket

A script is one atomic step, as in Redis. `Level` is what every script computes
first; `Write` is the HMSET and EXPIRE at its end. A refused call writes as well.
Tokens are counted in parts small enough for a tick to add a whole number of them;
the fractions that Redis keeps as decimal text are exact to 17 digits, and the model
has no rounding. `refusal` is the last refused call's amount, time and answer, which
Redis cuts to whole seconds. `TakeUnanswered` is a script whose answer is lost: the
client library sends the call again (one more `TakeTokens`) or the caller gets an
error. An expired key may be deleted later (`Expire`), until when a clock that steps
back brings it to life again; `Forget` is an evicted or lost key. The buckets of
`cmd/unified-server/main.go` satisfy `TTLAssumption` (100 tokens at 10 per second
with 5 minutes, 10 tokens at 0.1 per second with 2 minutes); the code does not check it.

`EagerBucket` has a level that rises with every tick and neither time stamps nor
expiry; a step back of the clock may take refill back and freezes the bucket until
the clock has caught up.

### SlidingWindow

A call reads `time.Now()` in its process and then travels to Redis, whose script cuts
the sorted set by that reading and counts what is left. `Send` is the reading, the
other actions of a client are the script; between the two anything may happen. Time is
counted in milliseconds and the member of the sorted set is the reading, so that two
requests of one reading are one entry, as in the code.

| Action | Code |
|---|---|
| `Send` | the reading of the clock in `IsAllowed` and `GetWindowState` |
| `Allow`, `Refuse` | the two branches of the script of `IsAllowed` |
| `GetWindowState` | its script, which cuts the window as well and does not renew the expiry |
| `Unanswered`, `CallFails` | the script ran and its answer is lost, with the call sent again or not; the call never ran |
| `ClearWindow` | DEL |
| `Tick` | a millisecond; the key may expire |

`admitted` is a history of the calls let through within the last `Window - Spread`
milliseconds, where `Spread` is what clocks and delays may differ by. That is the stretch
for which the limit can hold: a call whose reading is ahead by `Spread` cuts entries that
are `Spread` younger than the window. `own` says whether a call got an entry to itself. `WindowBounded` says that the limit is exceeded
only by calls that share their entry: `sliding_window_test.go:217` expects "exactly 50
successes" of 100 concurrent requests, which holds only when no two of them read
the same millisecond. `TTLAssumption` and `SpreadAssumption` are not checked by the code;
its default TTL is five windows. No server uses the sliding window.

### UnifiedServer

A request runs in a goroutine of its own. `stage[q]` is where it is, every call it makes
to Redis or the service is a step of its own, and `reply[q]` its answer.

| Action | Code |
|---|---|
| `Receive` | the router; a request without a route is answered there. A connection that was accepted may still bring one while the server drains |
| `LimiterAllows`, `LimiterRefuses`, `LimiterFails`, `LimiterRetries` | `RateLimitMiddleware`: a token, none, or an error, with the token taken or not; a call that go-redis sends again after its script ran |
| `Panics` | `RecoveryMiddleware` |
| `RejectInput` | the checks of the handlers before their first call |
| `CheckRate`, `ConsumeTokens`, `ResetBucket`, `BucketError`, `BucketTooLate` | the handlers of the bucket API with one call, which may fail or come after the deadline |
| `BucketRetries` | a call of the bucket API, a turn of the bulk loop included, that go-redis sends again after its script ran |
| `BulkAttempt`, `BulkAttemptFails`, `BulkAttemptTooLate`, `BulkConsume` | the loop of `BulkConsume`, an attempt a step, and its answer |
| `ContextDone` | the deadline of a bucket handler, or a client that hangs up |
| `ServiceSucceeds`, `ServiceFails`, `ServiceHangs` | the user handlers over the outcomes of `UserService`; a stuck pool never answers |
| `Health` | the health checks |
| `Tick`, `RedisLosesBuckets` | refill; Redis starts again empty |
| `Shutdown`, `Exit`, `ForcedExit` | the signal, `Shutdown` that returns, the grace period that ends |

`ClientKey` is the order of the headers in `getClientKey`; the API key headers name the same
client, and so do the address headers. The limiter runs in front of every route,
health checks included; the handler of OPTIONS in the CORS middleware is not reached, since
every route names its methods. Amounts asked for are whole numbers; `None` stands for
what is no number. `called` is a history of the requests whose handler has called a bucket or the user
service.

*Shared buckets.* The limiter and the bucket API have configurations of their own
(`cmd/unified-server/main.go:66-89`), but one Redis database and one prefix, `token_bucket:`
(`bucket.go:98`). The limiter's bucket of a client is the key `api_rate_limit:` and the client
(`middleware.go:56`), and the API takes whatever key it is sent (`handler.go:96`, `additional.go:16`
and `:50`). So "separate token bucket" (`main.go:81`) is a separate configuration only: a request that
names a limiter's key to `/reset`, `/consume` or `/bulk-consume` fills or drains the bucket of that
client. In the model the key of a limiter's bucket is the client itself, and `Keys`, what
requests name to the API, may contain clients. `limit[c]` is what the next call of the limiter would compute
for the bucket of `c`, and `api[k]` what the next call of the API would compute for
`k`; for a key in both they are two views of the same hash, and `Writes` sets both. The views are exact
under the constants of `main.go`: either TTL is long enough for either rate to fill either
bucket (120 s at 0.1 per second give 12, more than 10; at 10 per second 1200, more than 100; 300 s more
still), so that a key that expires is full for both. The properties say what is left of
the limit: `LimiterIsBucket` is about clients whose bucket no request names to the API,
`ApiIsBucket` about keys that are no client's bucket, and `AdmissionsBounded` and `ApiGrantsBounded` about all. A shared bucket
admits a burst more for every reset, and refills at the rate of the API, never over the
burst.

*Documentation.* `RATE_LIMITING.md:142` says of errors of the token bucket "Logs warning and
allows request". The code answers 500 and the request ends there (`middleware.go:61-65`), which
`RATE_LIMITING.md:141` says of an unavailable Redis. The model follows the code, and `RejectedUntouched`
shows that a request whose limiter fails ("unavailable") gets no further. What that line describes
is the mutant `LimiterFailsOpen`, which breaks `LimiterIsBucket`.

### OutboxStream and Partitioning

One run of the backfill queries SENT rows (`BackfillQuery`) and publishes them in order of
`created_at`, one message at a time (`BackfillPublish`, `BackfillPublishFails`), or ends
before (`BackfillStops`). It writes no row. A dry run changes nothing and is no
step. `-start`, `-end` and `-max-retries` are parsed and never used; a run is a single
batch. `topic` holds the messages of relays and tool; the properties about order and
copies are those of `OutboxRelay`, with what the tool replays set apart.

`Partitioning` has the strategies as functions over integers of a width (`Half` is 2^31 in
the code): conversion to int32 wraps, and the remainder has the sign of the dividend.
Partition numbers may be negative: for the hash strategy with half of the
hashes, for the user id strategy with a single hash, whose absolute value overflows, and for the round robin
from the wrap of its counter until it is back at zero. No producer calls a strategy; the Kafka client
partitions by key.

## Runs

| Run | Instance | Shows |
|---|---|---|
| `relay_safety` | 2 relays, 3 rows of one user, batches of 2, 2 faults | types, `SentIsPublished`, `CopiesBounded`, `ClaimExclusive`, `FailedNeverRequeued`, `StrandedBounded`, `MarkFinalUnlessReset`, and that `OutboxDelivery` is implemented |
| `relay_single` | 1 relay and 2 runs of the backfill with 2 rows each, 3 rows of one user, 4 faults | `DisorderBounded`: a fault displaces one event of a user, never the rest of its batch, and the backfill only what it publishes (with two relays order is not kept even without a fault, since each may hold one event of the user); `BackfillOnlyRepeats`, `StreamCopiesBounded`; and `Partitioning` evaluated for integers of four bits, as assumptions |
| `relay_live` | 2 fair relays, 2 rows, batches of 1, a fault | `NewEventuallyTaken`, `EventuallySent` |
| `relay_published_once` | 2 relays, 1 row | violated: the documented "won't be published twice" |
| `relay_interrupted` | 1 relay, 1 row, a fault | violated: the documented reprocessing of events whose relay crashed. The relay stops between claim and publish and starts again before the row is stale |
| `relay_failed_retried` | 1 relay, 1 row, a failed publish | violated: the documented three retries |
| `user_service` | 3 requests, 2 users, 2 emails, an empty or a full table, a pool of 3, 1 fault | `Durable` (of creations and updates), `LatestEventIsRow`, `UserEvents` implemented; `LeakedByNotFound`, `NoCircularWait`, `StuckUntilFault`: what can and cannot keep a request waiting; `AnsweredUnlessPoolStuck` |
| `user_service_leak` | 1 request | violated: the transaction of an UpdateUser that finds no user is never ended |
| `token_bucket` | 2 tokens of 2 parts, 1 part per half second, the shortest TTL allowed, 8 ticks, 1 reset, 2 faults | types, `GrantBounded`, `WaitSuffices`, `EagerBucket` implemented |
| `token_bucket_retry_after` | the same, one token per call | violated: the retry_after of a refused call is positive |
| `sliding_window` | 2 clients a millisecond apart, delays of a millisecond, a window of 4, 2 requests, a TTL of 2, a fault | types, `WindowBounded`, `RetrySuffices` |
| `unified_server` | 2 requests of 2 clients (address, API key) in 4 ways to name them, a key and the bucket of the address as keys of the API, a bulk of 2, a tick, a fault | types, `RejectedUntouched`, `AdmissionsBounded`, `ApiGrantsBounded`, limiter and bucket API each implement `EagerBucket` where they do not share the bucket, `Answered`, `Drains` |

**Bounds.** `MaxFaults` bounds what goes wrong; two faults are enough for a stop or
lost acknowledgement during the recovery from another one. Three rows with batches of
two give a full batch, a rest, and a row that another relay took from a polled batch;
a third relay adds no kind of step, and the proofs cover any number. A timeout of one
tick lets rows be younger than, as old as, and older than it. In the service two updates that wait
for each other's emails need two rows and three connections (the second one validates
while both transactions are open), hence the full table and the pool of three; three updates
that validate use the pool up, and so do leaked transactions with one that validates. Eight ticks with a TTL of four let a key expire and be created
again. `MaxTime` and `MaxResets` bound only how long a behaviour of the bucket is.
A backfill of two of three rows leaves one that relays publish in between; a second run
repeats or extends it.
A window of four milliseconds with a skew and a delay of one has two milliseconds for
which the limit holds, and entries at, within and beyond each edge; a TTL of two is the
least the assumption allows. `MaxCalls` stops new calls when four are in `admitted`, twice
the limit. In the server a token is two parts, a limiter's bucket holds three and a tick adds one,
so that a bucket is full, short of a token by a part, and made whole by a tick; a bucket of the
API holds four and gets two, more than the limiter can find in it. Two
requests meet at a bucket, at the pool and at the shutdown, and one of them may fill or drain the
bucket that limits the other. Two attempts stand for the ten of a
bulk request (deadline before, between and after them). The instance asks each kind of
route from one or two origins; reads and updates of users answer like creations and are
left to the proofs, which cover every request.

**Deadlock.** A relay run may stop when every row has a verdict and the faults are
used up, a service run when all requests are answered: so may the sliding window once `MaxTime` has come and
`MaxCalls` is reached, and a server that has exited: these say `CHECK_DEADLOCK FALSE`.
The token bucket runs check deadlock.

**Fairness.** `OutboxRelay!FairSpec`: each relay eventually takes the step it can
take, since its ticker fires for ever, its calls return (all clients have timeouts),
and an ended process is started again by whoever runs it; and the clock runs. Faults, stops and
insertions are not fair. `UserService!FairSpec`: a request whose statement can run
eventually runs it, and PostgreSQL looks for deadlocks (`deadlock_timeout`); a request that
waits for a lock or a connection has no step but that.
Requests are finite in number, so weak fairness does not ask the pool to be first come
first served. `UnifiedServer!FairSpec`: every goroutine runs on (a call that never returns is the fault
`ServiceHangs`, after which the request has no step), `Shutdown` returns when the last
request is answered, and its grace period ends. Arrivals, deadlines, ticks, faults and the
signal are not fair. The violations of relay promises of the form "eventually" are found under
`FairSpec`.

## Proofs

All theorems hold for all values of the constants under the assumptions named in
the modules (finite set of relays, positive parameters, a TTL that fills the bucket,
a spread of clocks and delays below the window).

`OutboxRelayProofs`: `Invariance` proves the inductive invariant `IInv`, from which
`TypeCorrect`, `SentImpliesPublished`, `DuplicatesBounded`, `OwnersBounded`, `NoRetry` and
`MarksFinal` follow. `SentIsPublished` and the bounds are not inductive by
themselves. `CopyBudget` is the core of the strengthening: the copies of an event,
the relays about to append one more, and one if the row is NEW (and may yet be claimed) are
together at most one plus its resets. A claim moves the unit of the NEW row to the
relay, a publish moves it to the topic, a reset pays for the row it makes NEW.
`OwnerBudget` says the same of the relays that hold the event, `SentStagePublished`
that a relay about to mark SENT has published, `FreshSnapshots` that no polled row
failed before, `MarkedUnowned` that a row with a verdict and no reset has no owner.
`StrandedRowsBounded` counts: `StrandedBy` shows that a row becomes stranded only by a relay
that has it in hand and meets a fault, and a relay has one event in hand, so that the set of
stranded rows grows by one at most, and only with `faults`.
`OutboxDeliveryProofs` shows from `IInv` that every step is one of `OutboxDelivery` or a stutter
under the mapping (`verdict`, `allowance`, `topic`).

`OutboxStreamProofs` carries the budget over to the composition. With the backfill the
bound of `CopyBudget` no longer holds, so the lemmas of `OutboxRelayProofs` are about
`Paid(e, k)`, the budget with `k` units from elsewhere; here `k` is the number of replays, and a
replay pays for the copy it appends. `BackfillOnlyRepeats` needs that SENT rows are published and that
copies are never taken back, so that it does not matter what relays do to a row
between the query and the replay. `DisorderLimited` is about one relay. `Alone` says what
that relay knows: the rows of its batch are NEW and later than the event in hand. An event
is `Disturbed` if it is displaced but by a replay, stranded, was reset, or waits while a later event of its
user is ahead of it (`Overtaken`). An event is `Overtaken` before it is displaced
(`DisplacedBy`) and stranded before it is reset (`ResetBy`), so that only the event in hand is newly
disturbed, and only by a fault (`DisturbedBy`).

`UserServiceProofs`: everything rests on what a request has between its write and its
commit. `Exclusive` and `Reserved` say what the row locks and the UNIQUE constraint give
it: no other request is changing its user or taking its email. `DatedLast`
follows: the date taken under the lock is later than all events of the user and stays
so until the commit. `RowsAsSeen` and `OneInsert` say that what was read before the lock
still holds where the code relies on it. From these the commit is a step of `UserEvents`
(`Implementation`), a creation or update that was answered with success is durable (`SuccessDurable`), and the latest event carries the
email of the row (`LatestEvent`).

What keeps requests waiting is proved next to it. `LeaksAreNotFound`: of all ways to end, only
the early return of UpdateUser leaves a transaction open, which needs `Pooled`: only updates
validate. `StuckForGood`: in a stuck pool no request has a step. `CircleOnlyByPool`
(`NoCircularWait`): unless the pool is stuck, somebody goes on or PostgreSQL has a circle to break. Who has
its email waits for nothing more; if nobody has, those in front of the index wait for each other,
and `CircleAmongWaiters` finds the circle as a smallest set in which everybody waits for a
member: one that nobody waits for could be left out. There is a smallest since the open
transactions are finitely many (`OpenNext`). Only updates are in a circle
(`CircleOfUpdates`), since only a row that exists has an email to give up.

`TokenBucketProofs`: three lemmas say what a write, a tick and a step back do to
`Level` (`LevelAfterTick` is where the TTL assumption is needed: a key that expires
had a full bucket). `GrantBounded` is inductive with the renewal of the expiry.
`WaitSuffices` needs `RefusalKept`: with every tick a refused caller gets nearer by
one rate. `Implementation` maps every script to a step of `EagerBucket`.

`SlidingWindowProofs`: `SentRecently` bounds how far the reading of a call under way may be
from true time. From it `AdmittedHeld`: the entry of every call that counts in
`admitted` is in the sorted set and its key lives, since no reading can cut it. `OwnDistinct`
says that calls with an entry of their own have different entries. Together they map these calls one to
one into a set of at most `MaxRequests` entries (`WindowKept`). `RetryIsEnough` is inductive
with the types: cuts, losses and expiry only make room (`RoomStays`).

`UnifiedServerProofs`: every step of a request is described three times: `StepMoves` says how it
moves the request (only `LimiterAllows` brings it to its handler, and takes the token
in the same step), `StepCalls` what it adds to calls and attempts, `StepBuckets` that it
lowers one bucket, fills one up or leaves them alone. `RejectionsHarmless` needs `Unhandled`: no
handler has called anything before the limiter let its request through and its input was
accepted. `LimiterImplements` is about the buckets that only the limiter uses (`PrivateMoves`). For
`AdmissionsLimited` the bound is not inductive in the level of a shared bucket: a call of the
limiter leaves the API as many tokens as it found itself, but the API may leave a hundred in a bucket in which
the limiter then finds ten. Inductive is the bound of `Reach`, what the API finds in it up to the
burst of the limiter, with `Shared`: the limiter never finds more than the API, since rate
and capacity of the API are no less (`ParametersAssumption`, from `main.go`).

For the bucket API the parts granted at a key are the size of a set, the union of
what each request got (`Granted`). `Shares` and `MoreParts` say how that set grows when one request gets more and the
others nothing (`Ledger`); a request has no reply before it is answered, and only bulk requests have attempts (`Silent`). From these every
step of any request is, for every key that is no client's bucket, a step of `EagerBucket` or a stutter (`ApiImplements`), also in the
middle of a bulk request; and the parts granted at any key stay within a filling, one more for every
reset or loss, and the refill (`ApiGrantsLimited`): what the limiter takes there only lowers the level
(`GrantsAndLevel`).

`PartitioningProofs`: for every width, which hashes leave the range of partitions, and
what the round robin names before its counter wraps and until it is back at zero (`RoundRobin`; the counter
is a recursive function, whose values `CounterValue` gets from a least argument at which they would
differ).

**Model-checked only.** Liveness (`NewEventuallyTaken`, `EventuallySent`,
`AnsweredUnlessPoolStuck`, `Answered`, `Drains`), which this prover does not reach.
`CountIsLeastPower`, which is about a recursion that doubles, and about powers, of
which the provers know nothing.

## Not modelled

Field validation, JSON, CORS headers and log texts; `PublishEvents`, which has no caller;
`HealthCheck` and `GetStats`, which change nothing (the health check of the producer dials
`localhost:9092` whatever brokers are configured); `PartitionAnalyzer`, a report, and
`CustomPartitionStrategy` being changed while it is used, since nothing uses it; configuration and migrations,
whose constraints appear as guards and constants.

The stand-alone copies: `outbox-kafka/` has the packages of the outbox with other import
paths; its relay rolls back with a plain `defer tx.Rollback()`, which does nothing after a
commit. `redis-token-bucket/` has the bucket package as it is; its `main.go` leaves
Capacity, RefillRate and TTL zero, which is outside the assumptions of `TokenBucket`.

## Plan

1. The outbox as a whole: `UserService` and `OutboxRelay` composed over one table,
   with a consumer that keeps the latest event of each user.
2. Larger instances: a third request in `unified_server`, a third client in
   `sliding_window`, a ten-attempt bulk request.
3. `CustomPartitionStrategy` with a producer, should one come to call it.
