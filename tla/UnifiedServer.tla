----------------------------- MODULE UnifiedServer -----------------------------
(***************************************************************************)
(* The unified server (monolith/cmd/unified-server): the middleware stack  *)
(* (monolith/internal/middleware), the bucket API (internal/handler) and   *)
(* the user API over the services behind them.                             *)
(*                                                                         *)
(* A request runs in a goroutine of its own: it passes the rate limiter,   *)
(* which takes a token of its client's bucket, and then its handler, which *)
(* calls the token buckets of the API or the user service.  Every call is  *)
(* a step of its own.  The server drains its requests when it is told to   *)
(* stop, for as long as the grace period lasts.                            *)
(*                                                                         *)
(* A bucket here is eager as in EagerBucket, which TokenBucket implements: *)
(* it holds what the next script will compute.  The limiter and the API    *)
(* compute it with a rate and a capacity of their own, and both keep their *)
(* buckets in one database under one prefix; a request of the API names    *)
(* any key it likes, that of a client's limiter bucket, too.  What the     *)
(* calls of the user service do to the database is in UserService.         *)
(***************************************************************************)
EXTENDS Integers, Sequences, FiniteSetsExt

CONSTANTS
    Requests,       \* the requests of a behaviour, numbered in order of arrival
    Origins,        \* what a request says of where it comes from
    None,           \* no such header, no such parameter
    Keys,           \* the keys that requests name to the bucket API; the
                    \* limiter's bucket of a client has the client for a key
    Token,          \* parts of a token: one tick adds whole parts
    Amounts,        \* the amounts asked of /consume, in parts; the handler
                    \* fills in 1 token where there is none, None is no number
    Asked,          \* what requests ask for
    LimitCapacity,  \* Capacity of the rate limiter's buckets, in parts
    LimitRate,      \* their RefillRate, in parts per tick
    ApiCapacity,    \* the same of the buckets of the API
    ApiRate,
    BulkSize,       \* attempts of /bulk-consume
    MaxTicks,       \* bound on the ticks of a behaviour
    MaxFaults       \* bound on its faults

ASSUME RequestsAssumption == Requests \subseteq Nat
ASSUME OriginsAssumption ==
    \A o \in Origins : DOMAIN o = {"authorization", "xApiKey", "forwardedFor",
                                   "realIP", "remoteAddr"}
ASSUME NoneAssumption == None \notin Keys /\ None \notin Amounts
ASSUME ParametersAssumption ==
    /\ Token \in Nat \ {0}
    /\ Amounts \subseteq Nat \ {0}
    /\ LimitCapacity \in Nat \ {0}
    /\ LimitRate \in Nat \ {0}
    /\ ApiCapacity \in Nat \ {0}
    /\ ApiRate \in Nat \ {0}
    /\ LimitCapacity <= ApiCapacity
    /\ LimitRate <= ApiRate
    /\ BulkSize \in Nat \ {0}
    /\ MaxTicks \in Nat
    /\ MaxFaults \in Nat

\* The header that decides.  Both API key headers name the same client; an
\* address is one client wherever it was found.
ClientKey(o) ==
    IF o.authorization # None THEN <<"api_key", o.authorization>>
    ELSE IF o.xApiKey # None THEN <<"api_key", o.xApiKey>>
    ELSE IF o.forwardedFor # None THEN <<"ip", o.forwardedFor>>
    ELSE IF o.realIP # None THEN <<"ip", o.realIP>>
    ELSE <<"ip", o.remoteAddr>>

Clients == {ClientKey(o) : o \in Origins}

\* What the router knows.  "other" has no route: a wrong path or method, a
\* preflight request included, since every route names its methods.
Op ==
    [route : {"check", "reset", "bulk"}, from : Origins, key : Keys \cup {None}]
    \cup [route : {"consume"}, from : Origins, key : Keys \cup {None},
          amount : Amounts \cup {None}]
    \cup [route : {"createUser", "updateUser", "getUser", "crashTest"},
          from : Origins, valid : BOOLEAN]
    \cup [route : {"health", "other"}, from : Origins]

BucketRoutes == {"check", "reset", "bulk", "consume"}

UserRoutes == {"createUser", "updateUser", "getUser", "crashTest"}

NoOp == [route |-> "none"]

Stages == {"new", "limiter", "handler", "hung", "done"}

Replies == {"none", "ok", "unrouted", "limited", "unavailable", "badRequest",
            "notFound", "tooMany", "bucketError", "failed", "panicked"}

ASSUME AskedAssumption == Asked \subseteq Op

Results == {"allowed", "refused", "error"}

VARIABLES
    phase,    \* "up", "draining" after the signal, "exited" or "killed"
    op,       \* op[q]: what request q asks for
    stage,    \* stage[q]: where q is
    reply,    \* reply[q]: the answer to q
    results,  \* results[q]: the attempts of a bulk request
    gone,     \* the requests whose context is done: too late, or client gone
    limit,    \* limit[c]: what a call of the limiter finds in bucket c
    api,      \* api[k]: what a call of the API finds in bucket k
    called,   \* history: the requests whose handler has called a bucket or
              \* the user service
    resets,   \* history: resets[k] counts the times the API filled k up
    lost,     \* history: the times Redis lost the buckets
    ticks,    \* the ticks so far
    faults    \* the faults so far

requestVars == <<op, stage, reply, results, gone>>

bucketVars == <<limit, api, resets, lost>>

vars == <<phase, op, stage, reply, results, gone, limit, api, resets, lost,
          called, ticks, faults>>

TypeOK ==
    /\ phase \in {"up", "draining", "exited", "killed"}
    /\ op \in [Requests -> Asked \cup {NoOp}]
    /\ stage \in [Requests -> Stages]
    /\ reply \in [Requests -> Replies]
    /\ results \in [Requests -> Seq(Results)]
    /\ gone \in SUBSET Requests
    /\ limit \in [Clients -> 0 .. LimitCapacity]
    /\ api \in [Keys -> 0 .. ApiCapacity]
    /\ called \in SUBSET Requests
    /\ resets \in [Keys -> Nat]
    /\ lost \in Nat
    /\ ticks \in Nat
    /\ faults \in Nat

Init ==
    /\ phase = "up"
    /\ op = [q \in Requests |-> NoOp]
    /\ stage = [q \in Requests |-> "new"]
    /\ reply = [q \in Requests |-> "none"]
    /\ results = [q \in Requests |-> <<>>]
    /\ gone = {}
    /\ limit = [c \in Clients |-> LimitCapacity]
    /\ api = [k \in Keys |-> ApiCapacity]
    /\ called = {}
    /\ resets = [k \in Keys |-> 0]
    /\ lost = 0
    /\ ticks = 0
    /\ faults = 0

Fault ==
    /\ faults < MaxFaults
    /\ faults' = faults + 1

NoFault == UNCHANGED faults

\* Request q is at stage s of a process that runs.
At(q, s) == phase \in {"up", "draining"} /\ stage[q] = s

Answer(q, a) ==
    /\ stage' = [stage EXCEPT ![q] = "done"]
    /\ reply' = [reply EXCEPT ![q] = a]

\* Nothing changes but the request.
AnswerOnly(q, a) ==
    /\ Answer(q, a)
    /\ NoFault
    /\ UNCHANGED <<phase, op, results, gone, bucketVars, called, ticks>>

Client(q) == ClientKey(op[q].from)

-----------------------------------------------------------------------------
(* The buckets. *)

\* Mutant: the refill has no limit.
Uncapped(n, capacity) == n

Capped(n, capacity) == IF n <= capacity THEN n ELSE capacity

\* A script leaves n parts in bucket b, whoever reads it next.
Writes(b, n) ==
    /\ limit' = [c \in Clients |-> IF c = b THEN Capped(n, LimitCapacity) ELSE limit[c]]
    /\ api' = [k \in Keys |-> IF k = b THEN Capped(n, ApiCapacity) ELSE api[k]]

Unwritten == UNCHANGED <<limit, api>>

\* The script of the limiter for client c: a token, or none.  Either way it
\* writes what it computed.
LimiterTakes(c) ==
    /\ limit[c] >= Token
    /\ Writes(c, limit[c] - Token)

LimiterTakesNone(c) ==
    /\ limit[c] < Token
    /\ Writes(c, limit[c])

\* The scripts of the API for key k.
Take(k, n) ==
    /\ api[k] >= n
    /\ Writes(k, api[k] - n)

TakeRefused(k, n) ==
    /\ api[k] < n
    /\ Writes(k, api[k])

\* GetBucketState writes the refill that is due.
Look(k) == Writes(k, api[k])

FillUp(k) ==
    /\ Writes(k, ApiCapacity)
    /\ resets' = [resets EXCEPT ![k] = @ + 1]

-----------------------------------------------------------------------------
(* The router and the middleware. *)

\* A request without a route is answered before any middleware runs.  While
\* the server drains, a connection it has accepted may still bring a request.
Receive(q, o) ==
    /\ At(q, "new")
    /\ \A p \in Requests : p < q => stage[p] # "new"
    /\ op' = [op EXCEPT ![q] = o]
    /\ IF o.route = "other"
       THEN Answer(q, "unrouted")
       ELSE /\ stage' = [stage EXCEPT ![q] = "limiter"]
            /\ UNCHANGED reply
    /\ NoFault
    /\ UNCHANGED <<phase, results, gone, bucketVars, called, ticks>>

\* Mutant: any positive level lets a request through.
LimiterAllowsFraction(q) ==
    /\ At(q, "limiter")
    /\ limit[Client(q)] > 0
    /\ Writes(Client(q), IF limit[Client(q)] < Token THEN 0 ELSE limit[Client(q)] - Token)
    /\ stage' = [stage EXCEPT ![q] = "handler"]
    /\ NoFault
    /\ UNCHANGED <<phase, op, reply, results, gone, resets, lost, called, ticks>>

LimiterAllows(q) ==
    /\ At(q, "limiter")
    /\ LimiterTakes(Client(q))
    /\ stage' = [stage EXCEPT ![q] = "handler"]
    /\ NoFault
    /\ UNCHANGED <<phase, op, reply, results, gone, resets, lost, called, ticks>>

LimiterRefuses(q) ==
    /\ At(q, "limiter")
    /\ LimiterTakesNone(Client(q))
    /\ Answer(q, "limited")
    /\ NoFault
    /\ UNCHANGED <<phase, op, results, gone, resets, lost, called, ticks>>

\* The script has run and its answer is lost.
LimiterRuns(q) == LimiterTakes(Client(q)) \/ LimiterTakesNone(Client(q))

\* Mutant: the error is answered and the handler runs all the same.
LimiterFailsOpen(q) ==
    /\ At(q, "limiter")
    /\ Fault
    /\ Unwritten \/ LimiterRuns(q)
    /\ stage' = [stage EXCEPT ![q] = "handler"]
    /\ reply' = [reply EXCEPT ![q] = "unavailable"]
    /\ UNCHANGED <<phase, op, results, gone, resets, lost, called, ticks>>

\* TakeTokens returns an error, the script run or not.
LimiterFails(q) ==
    /\ At(q, "limiter")
    /\ Fault
    /\ Unwritten \/ LimiterRuns(q)
    /\ Answer(q, "unavailable")
    /\ UNCHANGED <<phase, op, results, gone, resets, lost, called, ticks>>

\* The Redis client sends the call again.
LimiterRetries(q) ==
    /\ At(q, "limiter")
    /\ Fault
    /\ LimiterRuns(q)
    /\ UNCHANGED <<phase, requestVars, resets, lost, called, ticks>>

\* The handler panics between two of its calls.
Panics(q) ==
    /\ At(q, "handler")
    /\ Fault
    /\ Answer(q, "panicked")
    /\ UNCHANGED <<phase, op, results, gone, bucketVars, called, ticks>>

-----------------------------------------------------------------------------
(* The bucket API. *)

\* The parameters of q are refused before any call.
Invalid(q) ==
    IF op[q].route \in BucketRoutes
    THEN op[q].key = None \/ (op[q].route = "consume" /\ op[q].amount = None)
    ELSE op[q].route \in UserRoutes /\ ~op[q].valid

\* Mutant: the error is answered and the handler goes on to its call.
RejectInputGoesOn(q) ==
    /\ At(q, "handler")
    /\ Invalid(q)
    /\ Answer(q, "badRequest")
    /\ called' = called \cup {q}
    /\ NoFault
    /\ UNCHANGED <<phase, op, results, gone, bucketVars, ticks>>

RejectInput(q) ==
    /\ At(q, "handler")
    /\ Invalid(q)
    /\ AnswerOnly(q, "badRequest")

\* The handler of q makes a call.
Calls(q) ==
    /\ At(q, "handler")
    /\ ~Invalid(q)
    /\ called' = called \cup {q}

\* A call of a bucket that reaches Redis: the context of q is still good.
CallsBucket(q, routes) ==
    /\ Calls(q)
    /\ op[q].route \in routes
    /\ q \notin gone

CheckRate(q) ==
    /\ CallsBucket(q, {"check"})
    /\ Look(op[q].key)
    /\ Answer(q, "ok")
    /\ NoFault
    /\ UNCHANGED <<phase, op, results, gone, resets, lost, ticks>>

\* Mutant: the answer to a call that was refused is taken for a success.
ConsumeTokensUnread(q) ==
    /\ CallsBucket(q, {"consume"})
    /\ Take(op[q].key, op[q].amount) \/ TakeRefused(op[q].key, op[q].amount)
    /\ Answer(q, "ok")
    /\ NoFault
    /\ UNCHANGED <<phase, op, results, gone, resets, lost, ticks>>

ConsumeTokens(q) ==
    /\ CallsBucket(q, {"consume"})
    /\ \/ Take(op[q].key, op[q].amount) /\ Answer(q, "ok")
       \/ TakeRefused(op[q].key, op[q].amount) /\ Answer(q, "tooMany")
    /\ NoFault
    /\ UNCHANGED <<phase, op, results, gone, resets, lost, ticks>>

ResetBucket(q) ==
    /\ CallsBucket(q, {"reset"})
    /\ FillUp(op[q].key)
    /\ Answer(q, "ok")
    /\ NoFault
    /\ UNCHANGED <<phase, op, results, gone, lost, ticks>>

\* One turn of the loop of /bulk-consume.
Attempt(q, result) ==
    /\ Len(results[q]) < BulkSize
    /\ results' = [results EXCEPT ![q] = Append(@, result)]
    /\ UNCHANGED <<phase, op, stage, reply, gone, resets, lost, ticks>>

\* Mutant: the rest of the loop goes by the answer to its first attempt.
BulkAttemptOnce(q) ==
    /\ CallsBucket(q, {"bulk"})
    /\ \/ results[q] = <<>> /\ Take(op[q].key, Token) /\ Attempt(q, "allowed")
       \/ results[q] = <<>> /\ TakeRefused(op[q].key, Token) /\ Attempt(q, "refused")
       \/ results[q] # <<>> /\ Unwritten /\ Attempt(q, results[q][1])
    /\ NoFault

BulkAttempt(q) ==
    /\ CallsBucket(q, {"bulk"})
    /\ \/ Take(op[q].key, Token) /\ Attempt(q, "allowed")
       \/ TakeRefused(op[q].key, Token) /\ Attempt(q, "refused")
    /\ NoFault

\* The rest of the loop runs after the deadline, too: every call returns the
\* error of the context before it reaches Redis.
BulkAttemptTooLate(q) ==
    /\ Calls(q)
    /\ op[q].route = "bulk"
    /\ q \in gone
    /\ Attempt(q, "error")
    /\ NoFault
    /\ Unwritten

\* The script of q has run and its answer is lost.
Runs(q) ==
    \/ op[q].route = "check" /\ Look(op[q].key) /\ UNCHANGED resets
    \/ /\ op[q].route \in {"consume", "bulk"}
       /\ LET n == IF op[q].route = "bulk" THEN Token ELSE op[q].amount
          IN  Take(op[q].key, n) \/ TakeRefused(op[q].key, n)
       /\ UNCHANGED resets
    \/ op[q].route = "reset" /\ FillUp(op[q].key)

Lost(q) == Runs(q) \/ UNCHANGED <<limit, api, resets>>

BulkAttemptFails(q) ==
    /\ CallsBucket(q, {"bulk"})
    /\ Fault
    /\ Lost(q)
    /\ Attempt(q, "error")

\* Mutant: the loop is left only with an attempt that was allowed.
BulkConsumeInsists(q) ==
    /\ At(q, "handler")
    /\ op[q].route = "bulk"
    /\ Len(results[q]) = BulkSize
    /\ results[q][BulkSize] = "allowed"
    /\ AnswerOnly(q, "ok")

\* The answer is a success whatever the attempts came to.
BulkConsume(q) ==
    /\ At(q, "handler")
    /\ op[q].route = "bulk"
    /\ Len(results[q]) = BulkSize
    /\ AnswerOnly(q, "ok")

\* The call of check, consume or reset comes when the context is done ...
BucketTooLate(q) ==
    /\ Calls(q)
    /\ op[q].route \in BucketRoutes \ {"bulk"}
    /\ q \in gone
    /\ Answer(q, "bucketError")
    /\ NoFault
    /\ UNCHANGED <<phase, op, results, gone, bucketVars, ticks>>

\* ... or fails, before or after Redis ran it ...
BucketError(q) ==
    /\ CallsBucket(q, BucketRoutes \ {"bulk"})
    /\ Fault
    /\ Lost(q)
    /\ Answer(q, "bucketError")
    /\ UNCHANGED <<phase, op, results, gone, lost, ticks>>

\* ... or the Redis client sends it again, a turn of the bulk loop, too.
BucketRetries(q) ==
    /\ CallsBucket(q, BucketRoutes)
    /\ Fault
    /\ Runs(q)
    /\ UNCHANGED <<phase, requestVars, lost, ticks>>

\* The deadline of the handler passes, or its client hangs up.  A call that is
\* under way then is one of the failing calls above.
ContextDone(q) ==
    /\ At(q, "handler")
    /\ op[q].route \in BucketRoutes
    /\ gone' = gone \cup {q}
    /\ q \notin gone
    /\ NoFault
    /\ UNCHANGED <<phase, op, stage, reply, results, bucketVars, called, ticks>>

-----------------------------------------------------------------------------
(* The user API and the health checks. *)

CallsService(q) ==
    /\ Calls(q)
    /\ op[q].route \in UserRoutes

\* The service returns no error.
ServiceSucceeds(q) ==
    /\ CallsService(q)
    /\ Answer(q, "ok")
    /\ NoFault
    /\ UNCHANGED <<phase, op, results, gone, bucketVars, ticks>>

\* It returns one: an email that is taken, no such user, a failing statement, a
\* commit that is not acknowledged, or TestCrashScenario after its commit.  A
\* get says of every error that there is no such user.
ServiceFails(q) ==
    /\ CallsService(q)
    /\ Answer(q, IF op[q].route = "getUser" THEN "notFound" ELSE "failed")
    /\ NoFault
    /\ UNCHANGED <<phase, op, results, gone, bucketVars, ticks>>

\* The connection pool of the user service is stuck: no call returns.
ServiceHangs(q) ==
    /\ CallsService(q)
    /\ Fault
    /\ stage' = [stage EXCEPT ![q] = "hung"]
    /\ UNCHANGED <<phase, op, reply, results, gone, bucketVars, ticks>>

Health(q) ==
    /\ At(q, "handler")
    /\ op[q].route = "health"
    /\ AnswerOnly(q, "ok")

-----------------------------------------------------------------------------
(* The clock and the end of the process. *)

Tick ==
    /\ ticks < MaxTicks
    /\ ticks' = ticks + 1
    /\ limit' = [c \in Clients |-> Capped(limit[c] + LimitRate, LimitCapacity)]
    /\ api' = [k \in Keys |-> Capped(api[k] + ApiRate, ApiCapacity)]
    /\ NoFault
    /\ UNCHANGED <<phase, requestVars, resets, lost, called>>

\* Redis starts again without its data: every bucket is full.
RedisLosesBuckets ==
    /\ Fault
    /\ limit' = [c \in Clients |-> LimitCapacity]
    /\ api' = [k \in Keys |-> ApiCapacity]
    /\ lost' = lost + 1
    /\ UNCHANGED <<phase, requestVars, resets, called, ticks>>

Becomes(p) ==
    /\ phase' = p
    /\ NoFault
    /\ UNCHANGED <<requestVars, bucketVars, called, ticks>>

\* SIGTERM: the listener is closed.
Shutdown ==
    /\ phase = "up"
    /\ Becomes("draining")

InFlight == {q \in Requests : stage[q] \notin {"new", "done"}}

\* Shutdown returns when the last request is answered ...
Exit ==
    /\ phase = "draining"
    /\ InFlight = {}
    /\ Becomes("exited")

\* Mutant: the grace period has no end.
WaitForAll ==
    /\ phase = "draining"
    /\ \E q \in InFlight : stage[q] # "hung"
    /\ Becomes("killed")

\* ... or with an error when the grace period is over, and main ends the
\* process under the requests that are left.
ForcedExit ==
    /\ phase = "draining"
    /\ InFlight # {}
    /\ Becomes("killed")

-----------------------------------------------------------------------------

\* The goroutine of q goes on; nothing outside fails.
RequestStep(q) ==
    \/ LimiterAllows(q) \/ LimiterRefuses(q)
    \/ RejectInput(q)
    \/ CheckRate(q) \/ ConsumeTokens(q) \/ ResetBucket(q) \/ BucketTooLate(q)
    \/ BulkAttempt(q) \/ BulkAttemptTooLate(q) \/ BulkConsume(q)
    \/ ServiceSucceeds(q) \/ ServiceFails(q)
    \/ Health(q)

RequestFault(q) ==
    \/ LimiterFails(q) \/ LimiterRetries(q)
    \/ Panics(q)
    \/ BucketError(q) \/ BulkAttemptFails(q) \/ BucketRetries(q)
    \/ ServiceHangs(q)

Next ==
    \/ \E q \in Requests :
          \/ \E o \in Asked : Receive(q, o)
          \/ RequestStep(q)
          \/ RequestFault(q)
          \/ ContextDone(q)
    \/ Tick
    \/ RedisLosesBuckets
    \/ Shutdown \/ Exit \/ ForcedExit

\* Goroutines run on, and the grace period of a shutdown ends.
Fairness ==
    /\ \A q \in Requests : WF_vars(RequestStep(q))
    /\ WF_vars(Exit)
    /\ WF_vars(ForcedExit)

Spec == Init /\ [][Next]_vars

FairSpec == Spec /\ Fairness

-----------------------------------------------------------------------------
(* Properties. *)

\* The limiter let q through to its handler.
Passed(q) ==
    \/ stage[q] \in {"handler", "hung"}
    \/ stage[q] = "done" /\ reply[q] \notin {"unrouted", "limited", "unavailable"}

PassedOf(c) == {q \in Requests : Passed(q) /\ Client(q) = c}

\* The parts q was told it got, each under the attempt that got it.
Got(q) ==
    IF op[q].route = "consume" /\ reply[q] = "ok" THEN {0} \X (1 .. op[q].amount)
    ELSE {i \in DOMAIN results[q] : results[q][i] = "allowed"} \X (1 .. Token)

Uses(q, k) == op[q].route \in {"consume", "bulk"} /\ op[q].key = k

\* The parts of bucket k that were granted, over all requests.
Granted(k) == UNION {{q} \X Got(q) : q \in {r \in Requests : Uses(r, k)}}

GrantedOf(k) == Cardinality(Granted(k))

\* A request that is turned away - no route, no token, no answer of the limiter,
\* a parameter that is missing or wrong - is over, and its handler has called
\* neither a bucket nor the user service: with Redis down, too, nothing gets
\* past the limiter.
RejectedUntouched ==
    \A q \in Requests :
        reply[q] \in {"unrouted", "limited", "unavailable", "badRequest"} =>
            stage[q] = "done" /\ q \notin called

\* What the API adds to the bucket of a client that a request may name to it.
RefillOf(c) == IF c \in Keys THEN ApiRate ELSE LimitRate

ResetsOf(c) == IF c \in Keys THEN resets[c] ELSE 0

\* Whatever the headers that name a client, and however its requests
\* interleave, the handlers see no more of them than the burst and what the
\* refill adds, and a burst more for each loss of the data.  A request that
\* names the client's bucket to the API weakens the limit so far and no
\* further: a reset gives the burst again, a call refills at the rate of the
\* API, and never over the burst.
AdmissionsBounded ==
    \A c \in Clients :
        Token * Cardinality(PassedOf(c)) + limit[c]
            <= LimitCapacity * (1 + ResetsOf(c) + lost) + RefillOf(c) * ticks

LimiterBucket(c) ==
    INSTANCE EagerBucket WITH
        Capacity <- LimitCapacity, Rate <- LimitRate, Amounts <- {Token},
        level <- limit[c], frozen <- FALSE,
        granted <- Token * Cardinality(PassedOf(c)), resets <- lost

\* The requests that reach the handlers are the tokens taken of the bucket of
\* their client, if no request names it to the API: none comes through without
\* its token, also when Redis fails, and no other client's request touches it.
LimiterIsBucket ==
    /\ \A c \in Clients \ Keys : LimiterBucket(c)!Init
    /\ [][\A c \in Clients \ Keys :
              [LimiterBucket(c)!Next]_(LimiterBucket(c)!vars)]_vars

\* Over all answers together, an API key gets no more than its burst and what
\* the refill adds, and a burst more for each reset and each loss of the data,
\* also when it is the bucket of a client that the limiter uses meanwhile.
ApiGrantsBounded ==
    \A k \in Keys :
        GrantedOf(k) + api[k]
            <= ApiCapacity * (1 + resets[k] + lost) + ApiRate * ticks

ApiBucket(k) ==
    INSTANCE EagerBucket WITH
        Capacity <- ApiCapacity, Rate <- ApiRate, Amounts <- Amounts \cup {Token},
        level <- api[k], frozen <- FALSE,
        granted <- GrantedOf(k), resets <- resets[k] + lost

\* What the bucket API answers adds up: over all requests that use a key at the
\* same time, bulk requests cut short by their deadline included, every amount
\* they were told they got was taken of the bucket, and nothing else was but
\* what a lost answer says nothing about.  (A key that is the bucket of a client
\* also loses the tokens of the limiter.)
ApiIsBucket ==
    /\ \A k \in Keys \ Clients : ApiBucket(k)!Init
    /\ [][\A k \in Keys \ Clients : [ApiBucket(k)!Next]_(ApiBucket(k)!vars)]_vars

\* A request the server took is answered, whatever became of the others and
\* also while the server drains, unless its own service call hangs or the
\* grace period ends first.
Answered ==
    \A q \in Requests :
        stage[q] = "limiter" ~> stage[q] \in {"hung", "done"} \/ phase = "killed"

\* A server that is told to stop does, also with a request that hangs.
Drains == phase = "draining" ~> phase \in {"exited", "killed"}
=============================================================================
