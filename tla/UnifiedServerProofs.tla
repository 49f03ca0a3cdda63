-------------------------- MODULE UnifiedServerProofs --------------------------
(***************************************************************************)
(* Proofs about UnifiedServer, for any requests, origins, keys, capacities *)
(* and rates, and for any number of faults.  A step of a request does one  *)
(* thing to the request (StepMoves), at most one to its calls and attempts *)
(* (StepCalls) and at most one to one bucket (StepBuckets).  What the      *)
(* limiter admits and what the API grants follows from these three.        *)
(***************************************************************************)
EXTENDS UnifiedServer, FiniteSetTheorems, TLAPS

\* A request that has arrived asks for something the program knows.
Known == \A q \in Requests : stage[q] # "new" => op[q] \in Asked

\* A request that has not reached its handler has called nothing, and none
\* whose input its handler refuses has.
Unhandled ==
    \A q \in Requests :
        /\ stage[q] \in {"new", "limiter"} => q \notin called /\ results[q] = <<>>
        /\ q \in called => ~Invalid(q)

Typed == TypeOK /\ Known

IInv == Typed /\ Unhandled /\ RejectedUntouched

-----------------------------------------------------------------------------
(* How a step moves a request. *)

Moves(q) == RequestStep(q) \/ RequestFault(q) \/ ContextDone(q)

Turned == {"unrouted", "limited", "unavailable"}

\* The limiter answers q itself, or calls its bucket again.
Limits(q) ==
    /\ stage[q] = "limiter"
    /\ \/ UNCHANGED <<stage, reply>>
       \/ \E a \in {"limited", "unavailable"} : Answer(q, a)
    /\ UNCHANGED <<op, results, called>>

\* The handler of q goes on, answers or hangs.
Handles(q) ==
    /\ stage[q] = "handler"
    /\ \/ UNCHANGED <<stage, reply>>
       \/ \E a \in Replies \ (Turned \cup {"none"}) :
             Answer(q, a) /\ (a = "badRequest" => Invalid(q) /\ UNCHANGED called)
       \/ stage' = [stage EXCEPT ![q] = "hung"] /\ UNCHANGED reply
    /\ UNCHANGED op

LEMMA StepMoves ==
    ASSUME NEW q \in Requests, Moves(q)
    PROVE  LimiterAllows(q) \/ Limits(q) \/ Handles(q)
  <1> USE DEF AnswerOnly, At, Calls, CallsBucket, CallsService, Attempt, requestVars,
              Handles, Limits, Replies, Turned
  <1>1. CASE RequestStep(q)
    <2>1. CASE LimiterRefuses(q)
      BY <2>1 DEF LimiterRefuses
    <2>2. CASE RejectInput(q) \/ CheckRate(q) \/ ConsumeTokens(q) \/ ResetBucket(q)
               \/ BucketTooLate(q)
      BY <2>2 DEF RejectInput, CheckRate, ConsumeTokens, ResetBucket, BucketTooLate
    <2>3. CASE BulkAttempt(q) \/ BulkAttemptTooLate(q) \/ BulkConsume(q)
      BY <2>3 DEF BulkAttempt, BulkAttemptTooLate, BulkConsume
    <2>4. CASE ServiceSucceeds(q) \/ ServiceFails(q) \/ Health(q)
      BY <2>4 DEF ServiceSucceeds, ServiceFails, Health
    <2> QED
      BY <1>1, <2>1, <2>2, <2>3, <2>4 DEF RequestStep
  <1>2. CASE RequestFault(q)
    <2>1. CASE LimiterFails(q) \/ LimiterRetries(q)
      BY <2>1 DEF LimiterFails, LimiterRetries
    <2>2. CASE Panics(q) \/ BucketError(q) \/ BulkAttemptFails(q) \/ BucketRetries(q)
      BY <2>2 DEF Panics, BucketError, BulkAttemptFails, BucketRetries
    <2>3. CASE ServiceHangs(q)
      BY <2>3 DEF ServiceHangs
    <2> QED
      BY <1>2, <2>1, <2>2, <2>3 DEF RequestFault
  <1>3. CASE ContextDone(q)
    BY <1>3 DEF ContextDone
  <1> QED
    BY <1>1, <1>2, <1>3 DEF Moves

\* A request that calls something has good input; only a bulk request has
\* attempts; and a request touches neither the clock nor the process.
LEMMA StepCalls ==
    ASSUME NEW q \in Requests, Moves(q)
    PROVE  /\ called' = called \/ (called' = called \cup {q} /\ ~Invalid(q))
           /\ \/ results' = results
              \/ /\ \E r \in Results : Attempt(q, r)
                 /\ op[q].route = "bulk" /\ stage[q] = "handler"
           /\ gone' \in {gone, gone \cup {q}}
           /\ faults' \in {faults, faults + 1}
           /\ UNCHANGED <<phase, lost, ticks>>
  <1> USE DEF AnswerOnly, At, Calls, CallsBucket, CallsService, Attempt, requestVars,
              bucketVars, Fault, NoFault, Results
  <1>1. CASE LimiterAllows(q) \/ LimiterRefuses(q) \/ LimiterFails(q) \/ LimiterRetries(q)
             \/ Panics(q) \/ RejectInput(q)
    BY <1>1 DEF LimiterAllows, LimiterRefuses, LimiterFails, LimiterRetries, Panics, RejectInput
  <1>2. CASE CheckRate(q) \/ ConsumeTokens(q) \/ ResetBucket(q) \/ BucketTooLate(q)
             \/ BucketError(q) \/ BucketRetries(q)
    BY <1>2 DEF CheckRate, ConsumeTokens, ResetBucket, BucketTooLate, BucketError, BucketRetries
  <1>3. CASE BulkAttempt(q) \/ BulkAttemptTooLate(q) \/ BulkAttemptFails(q) \/ BulkConsume(q)
    BY <1>3 DEF BulkAttempt, BulkAttemptTooLate, BulkAttemptFails, BulkConsume
  <1>4. CASE ServiceSucceeds(q) \/ ServiceFails(q) \/ ServiceHangs(q) \/ Health(q)
             \/ ContextDone(q)
    BY <1>4 DEF ServiceSucceeds, ServiceFails, ServiceHangs, Health, ContextDone
  <1> QED
    BY <1>1, <1>2, <1>3, <1>4 DEF Moves, RequestStep, RequestFault

-----------------------------------------------------------------------------
(* Types. *)

LEMMA ConstantTypes ==
    /\ Token \in Nat \ {0} /\ Amounts \subseteq Nat \ {0}
    /\ LimitCapacity \in Nat \ {0} /\ LimitRate \in Nat \ {0}
    /\ ApiCapacity \in Nat \ {0} /\ ApiRate \in Nat \ {0}
    /\ LimitCapacity <= ApiCapacity /\ LimitRate <= ApiRate
    /\ MaxTicks \in Nat /\ MaxFaults \in Nat
    /\ None \notin Keys /\ None \notin Amounts /\ Asked \subseteq Op
  BY ParametersAssumption, NoneAssumption, AskedAssumption

\* What a request that has arrived comes with.
LEMMA Input ==
    ASSUME Typed, NEW q \in Requests, stage[q] # "new"
    PROVE  /\ op[q] \in Asked
           /\ Client(q) \in Clients
           /\ op[q].route \in BucketRoutes /\ ~Invalid(q) => op[q].key \in Keys
           /\ op[q].route = "consume" /\ ~Invalid(q) => op[q].amount \in Amounts
  <1>1. op[q] \in Asked /\ op[q] \in Op
    BY ConstantTypes DEF Typed, Known
  <1>2. op[q].from \in Origins
    BY <1>1 DEF Op
  <1>3. Client(q) \in Clients
    BY <1>2 DEF Client, Clients
  <1>4. op[q].route \in BucketRoutes /\ ~Invalid(q) => op[q].key \in Keys
    BY <1>1 DEF Op, Invalid, BucketRoutes
  <1>5. op[q].route = "consume" => op[q].amount \in Amounts \cup {None}
    BY <1>1 DEF Op
  <1>6. op[q].route = "consume" /\ ~Invalid(q) => op[q].amount \in Amounts
    BY <1>5 DEF Invalid, BucketRoutes
  <1> QED
    BY <1>1, <1>3, <1>4, <1>6

LEMMA CappedTypes ==
    ASSUME NEW n \in Nat, NEW capacity \in Nat
    PROVE  /\ Capped(n, capacity) \in 0 .. capacity
           /\ Capped(n, capacity) <= n
           /\ n <= capacity => Capped(n, capacity) = n
  BY DEF Capped

\* What is in a bucket is in it for the limiter and for the API, as far as
\* each of their capacities goes.
LEMMA WritesTypes ==
    ASSUME Typed, NEW b, NEW n \in Nat, Writes(b, n)
    PROVE  /\ limit' \in [Clients -> 0 .. LimitCapacity]
           /\ api' \in [Keys -> 0 .. ApiCapacity]
           /\ \A c \in Clients : limit'[c] = IF c = b THEN Capped(n, LimitCapacity) ELSE limit[c]
           /\ \A k \in Keys : api'[k] = IF k = b THEN Capped(n, ApiCapacity) ELSE api[k]
  <1>1. limit \in [Clients -> 0 .. LimitCapacity] /\ api \in [Keys -> 0 .. ApiCapacity]
    BY DEF Typed, TypeOK
  <1>2. /\ Capped(n, LimitCapacity) \in 0 .. LimitCapacity
        /\ Capped(n, ApiCapacity) \in 0 .. ApiCapacity
    BY CappedTypes, ConstantTypes
  <1> QED
    BY <1>1, <1>2 DEF Writes

-----------------------------------------------------------------------------
(* What a step does to the buckets. *)

\* A call of /consume is answered with what it asked for, a turn of the bulk
\* loop with a token.
GrantsAmount(q) ==
    /\ CallsBucket(q, {"consume"}) /\ NoFault
    /\ Take(op[q].key, op[q].amount) /\ Answer(q, "ok")
    /\ UNCHANGED <<op, results, resets, lost>>

GrantsToken(q) ==
    /\ CallsBucket(q, {"bulk"}) /\ NoFault
    /\ Take(op[q].key, Token) /\ Attempt(q, "allowed")

\* q is told nothing, or that it got nothing.
GetsNothing(q) ==
    /\ stage[q] # "done"
    /\ UNCHANGED op
    /\ \/ \E r \in {"refused", "error"} : Attempt(q, r)
       \/ UNCHANGED <<reply, results>>
       \/ /\ \E a \in Replies : Answer(q, a) /\ (op[q].route = "consume" => a # "ok")
          /\ UNCHANGED results

\* A script writes what it found in bucket b, or takes some of it for an answer
\* that is lost.
Lowers(b, found) ==
    /\ \E n \in 0 .. found : Writes(b, n) /\ (n = found \/ faults' = faults + 1)
    /\ UNCHANGED resets

LeavesBuckets == Unwritten /\ UNCHANGED resets

LEMMA FoundTypes ==
    ASSUME Typed
    PROVE  /\ limit \in [Clients -> 0 .. LimitCapacity]
           /\ api \in [Keys -> 0 .. ApiCapacity]
           /\ resets \in [Keys -> Nat]
           /\ \A c \in Clients : limit[c] \in Nat /\ limit[c] <= LimitCapacity
           /\ \A k \in Keys : api[k] \in Nat /\ api[k] <= ApiCapacity /\ resets[k] \in Nat
           /\ lost \in Nat /\ ticks \in Nat /\ faults \in Nat
  <1>1. /\ limit \in [Clients -> 0 .. LimitCapacity]
        /\ api \in [Keys -> 0 .. ApiCapacity]
        /\ resets \in [Keys -> Nat]
        /\ lost \in Nat /\ ticks \in Nat /\ faults \in Nat
    BY DEF Typed, TypeOK
  <1>2. LimitCapacity \in Nat /\ ApiCapacity \in Nat
    BY ConstantTypes
  <1> QED
    BY <1>1, <1>2

LEMMA StepBuckets ==
    ASSUME Typed, NEW q \in Requests, Moves(q)
    PROVE  \/ LimiterAllows(q)
           \/ GrantsAmount(q)
           \/ GrantsToken(q)
           \/ /\ GetsNothing(q)
              /\ \/ Client(q) \in Clients /\ Lowers(Client(q), limit[Client(q)])
                 \/ \E k \in Keys : Lowers(k, api[k]) \/ FillUp(k)
                 \/ LeavesBuckets
  <1> USE DEF AnswerOnly, At, Calls, GetsNothing, Replies, bucketVars, requestVars
  <1>k. ASSUME CallsBucket(q, BucketRoutes)
        PROVE  /\ op[q].key \in Keys
               /\ op[q].route = "consume" => op[q].amount \in Amounts
    BY <1>k, Input DEF CallsBucket
  <1>n. Token \in Nat \ {0} /\ Amounts \subseteq Nat \ {0}
    BY ConstantTypes
  <1>f. Fault => faults' = faults + 1
    BY DEF Fault
  <1>c. stage[q] = "limiter" => Client(q) \in Clients
    BY Input
  <1>r. ASSUME stage[q] = "limiter", LimiterTakesNone(Client(q))
        PROVE  \E n \in 0 .. limit[Client(q)] : Writes(Client(q), n) /\ n = limit[Client(q)]
    BY <1>r, <1>c, FoundTypes DEF LimiterTakesNone
  <1>s. ASSUME stage[q] = "limiter", LimiterTakes(Client(q))
        PROVE  \E n \in 0 .. limit[Client(q)] : Writes(Client(q), n)
    <2>1. limit[Client(q)] - Token \in 0 .. limit[Client(q)]
      BY <1>s, <1>c, <1>n, FoundTypes DEF LimiterTakes
    <2> QED
      BY <1>s, <2>1 DEF LimiterTakes
  <1>v. ASSUME stage[q] = "limiter", LimiterRuns(q), Fault, UNCHANGED resets
        PROVE  Client(q) \in Clients /\ Lowers(Client(q), limit[Client(q)])
    BY <1>v, <1>f, <1>c, <1>r, <1>s DEF LimiterRuns, Lowers
  <1>u. ASSUME NEW k \in Keys, NEW n \in Nat, TakeRefused(k, n), UNCHANGED resets
        PROVE  Lowers(k, api[k])
    BY <1>u, FoundTypes DEF TakeRefused, Lowers
  <1>l. ASSUME NEW k \in Keys, Look(k), UNCHANGED resets
        PROVE  Lowers(k, api[k])
    BY <1>l, FoundTypes DEF Look, Lowers
  <1>t. ASSUME NEW k \in Keys, NEW n \in Nat, Take(k, n), Fault, UNCHANGED resets
        PROVE  Lowers(k, api[k])
    <2>1. api[k] - n \in 0 .. api[k]
      BY <1>t, FoundTypes DEF Take
    <2> QED
      BY <1>t, <1>f, <2>1 DEF Take, Lowers
  <1>x. ASSUME CallsBucket(q, BucketRoutes), Fault, Runs(q)
        PROVE  \E k \in Keys : Lowers(k, api[k]) \/ FillUp(k)
    <2>1. CASE op[q].route = "check" /\ Look(op[q].key) /\ UNCHANGED resets
      BY <1>x, <1>k, <1>l, <2>1
    <2>2. CASE op[q].route = "reset" /\ FillUp(op[q].key)
      BY <1>x, <1>k, <2>2
    <2>3. CASE op[q].route = "bulk" /\ (Take(op[q].key, Token) \/ TakeRefused(op[q].key, Token))
               /\ UNCHANGED resets
      BY <1>x, <1>k, <1>n, <1>u, <1>t, <2>3
    <2>4. CASE /\ op[q].route = "consume" /\ UNCHANGED resets
               /\ Take(op[q].key, op[q].amount) \/ TakeRefused(op[q].key, op[q].amount)
      <3>1. op[q].amount \in Nat /\ op[q].key \in Keys
        BY <1>x, <1>k, <1>n, <2>4
      <3> QED
        BY <1>x, <1>u, <1>t, <2>4, <3>1
    <2> QED
      BY <1>x, <2>1, <2>2, <2>3, <2>4 DEF Runs
  <1>1. CASE LimiterRefuses(q)
    BY <1>1, <1>c, <1>r DEF LimiterRefuses, Lowers
  <1>2. CASE LimiterFails(q)
    <2>1. GetsNothing(q)
      BY <1>2 DEF LimiterFails
    <2> QED
      BY <1>2, <1>v, <2>1 DEF LimiterFails, LeavesBuckets
  <1>3. CASE LimiterRetries(q)
    BY <1>3, <1>v DEF LimiterRetries
  <1>4. CASE CheckRate(q)
    <2>1. GetsNothing(q)
      BY <1>4 DEF CheckRate, CallsBucket
    <2> QED
      BY <1>4, <1>k, <1>l, <2>1 DEF CheckRate, CallsBucket, BucketRoutes
  <1>5. CASE ConsumeTokens(q)
    <2>1. op[q].key \in Keys /\ op[q].amount \in Nat /\ UNCHANGED resets
      BY <1>5, <1>k, <1>n DEF ConsumeTokens, CallsBucket, BucketRoutes
    <2>2. CASE Take(op[q].key, op[q].amount) /\ Answer(q, "ok")
      BY <1>5, <2>2 DEF ConsumeTokens, GrantsAmount
    <2>3. CASE TakeRefused(op[q].key, op[q].amount) /\ Answer(q, "tooMany")
      <3>1. GetsNothing(q)
        BY <1>5, <2>3 DEF ConsumeTokens, CallsBucket
      <3> QED
        BY <1>u, <2>1, <2>3, <3>1
    <2> QED
      BY <1>5, <2>2, <2>3 DEF ConsumeTokens
  <1>6. CASE ResetBucket(q)
    <2>1. GetsNothing(q)
      BY <1>6 DEF ResetBucket, CallsBucket
    <2> QED
      BY <1>6, <1>k, <2>1 DEF ResetBucket, CallsBucket, BucketRoutes
  <1>7. CASE BulkAttempt(q)
    <2>1. op[q].key \in Keys /\ stage[q] # "done"
      BY <1>7, <1>k DEF BulkAttempt, CallsBucket, BucketRoutes
    <2>2. CASE Take(op[q].key, Token) /\ Attempt(q, "allowed")
      BY <1>7, <2>2 DEF BulkAttempt, GrantsToken
    <2>3. CASE TakeRefused(op[q].key, Token) /\ Attempt(q, "refused")
      BY <1>u, <1>n, <2>1, <2>3 DEF Attempt
    <2> QED
      BY <1>7, <2>2, <2>3 DEF BulkAttempt
  <1>8. CASE BulkAttemptFails(q)
    <2>1. GetsNothing(q) /\ CallsBucket(q, BucketRoutes)
      BY <1>8 DEF BulkAttemptFails, CallsBucket, Attempt, BucketRoutes
    <2> QED
      BY <1>8, <1>x, <2>1 DEF BulkAttemptFails, Lost, LeavesBuckets, Unwritten
  <1>9. CASE BucketError(q) \/ BucketRetries(q)
    <2>1. GetsNothing(q) /\ CallsBucket(q, BucketRoutes)
      BY <1>9 DEF BucketError, BucketRetries, CallsBucket, BucketRoutes
    <2> QED
      BY <1>9, <1>x, <2>1 DEF BucketError, BucketRetries, Lost, LeavesBuckets, Unwritten
  <1>10. CASE Panics(q) \/ RejectInput(q) \/ BulkConsume(q) \/ BucketTooLate(q)
              \/ ContextDone(q) \/ Health(q)
    BY <1>10 DEF Panics, RejectInput, BulkConsume, BucketTooLate, ContextDone, Health,
                 LeavesBuckets, Unwritten
  <1>11. CASE BulkAttemptTooLate(q)
    BY <1>11 DEF BulkAttemptTooLate, Attempt, LeavesBuckets
  <1>12. CASE ServiceSucceeds(q) \/ ServiceFails(q) \/ ServiceHangs(q)
    BY <1>12 DEF ServiceSucceeds, ServiceFails, ServiceHangs, CallsService, UserRoutes,
                 LeavesBuckets, Unwritten
  <1> QED
    BY <1>1, <1>2, <1>3, <1>4, <1>5, <1>6, <1>7, <1>8, <1>9, <1>10, <1>11, <1>12
    DEF Moves, RequestStep, RequestFault

LEMMA StepWrites ==
    ASSUME Typed, NEW q \in Requests, Moves(q)
    PROVE  /\ Unwritten \/ \E b : \E n \in Nat : Writes(b, n)
           /\ resets' \in [Keys -> Nat]
  <1>n. Token \in Nat /\ Amounts \subseteq Nat /\ ApiCapacity \in Nat
    BY ConstantTypes
  <1>1. CASE LimiterAllows(q)
    <2>1. Client(q) \in Clients /\ limit[Client(q)] - Token \in Nat
      BY <1>1, <1>n, Input, FoundTypes DEF LimiterAllows, LimiterTakes, At
    <2> QED
      BY <1>1, <2>1, FoundTypes DEF LimiterAllows, LimiterTakes
  <1>2. CASE GrantsAmount(q) \/ GrantsToken(q)
    <2>1. op[q].key \in Keys /\ (op[q].route = "consume" => op[q].amount \in Nat)
      BY <1>2, <1>n, Input
      DEF GrantsAmount, GrantsToken, CallsBucket, Calls, At, BucketRoutes
    <2>2. PICK n \in Nat : Take(op[q].key, n)
      BY <1>2, <1>n, <2>1 DEF GrantsAmount, GrantsToken, CallsBucket
    <2>3. api[op[q].key] - n \in Nat
      BY <2>1, <2>2, FoundTypes DEF Take
    <2>4. UNCHANGED resets
      BY <1>2 DEF GrantsAmount, GrantsToken, Attempt
    <2> QED
      BY <2>2, <2>3, <2>4, FoundTypes DEF Take
  <1>3. ASSUME NEW b, NEW found \in Nat, Lowers(b, found)
        PROVE  (\E n \in Nat : Writes(b, n)) /\ resets' \in [Keys -> Nat]
    <2>1. PICK n \in 0 .. found : Writes(b, n)
      BY <1>3 DEF Lowers
    <2> QED
      BY <1>3, <2>1, FoundTypes DEF Lowers
  <1>4. ASSUME NEW k \in Keys, FillUp(k)
        PROVE  Writes(k, ApiCapacity) /\ resets' \in [Keys -> Nat]
    BY <1>4, FoundTypes DEF FillUp
  <1>5. CASE LeavesBuckets
    BY <1>5, FoundTypes DEF LeavesBuckets
  <1>6. CASE Client(q) \in Clients /\ Lowers(Client(q), limit[Client(q)])
    BY <1>3, <1>6, FoundTypes
  <1>7. CASE \E k \in Keys : Lowers(k, api[k]) \/ FillUp(k)
    BY <1>3, <1>4, <1>7, <1>n, FoundTypes
  <1> QED
    BY <1>1, <1>2, <1>5, <1>6, <1>7, StepBuckets

LEMMA BucketTypes ==
    ASSUME Typed, NEW q \in Requests, Moves(q)
    PROVE  /\ limit' \in [Clients -> 0 .. LimitCapacity]
           /\ api' \in [Keys -> 0 .. ApiCapacity]
  <1>1. CASE Unwritten
    BY <1>1, FoundTypes DEF Unwritten
  <1>2. CASE \E b : \E n \in Nat : Writes(b, n)
    BY <1>2, WritesTypes
  <1> QED
    BY <1>1, <1>2, StepWrites

LEMMA InitTyped == Init => Typed
  BY ConstantTypes DEF Init, Typed, TypeOK, Known, Stages, Replies

LEMMA NextTyped == Typed /\ [Next]_vars => Typed'
  <1> SUFFICES ASSUME Typed, [Next]_vars PROVE Typed'
    OBVIOUS
  <1>t. /\ phase \in {"up", "draining", "exited", "killed"}
        /\ op \in [Requests -> Asked \cup {NoOp}]
        /\ stage \in [Requests -> Stages]
        /\ reply \in [Requests -> Replies]
        /\ results \in [Requests -> Seq(Results)]
        /\ gone \in SUBSET Requests
        /\ limit \in [Clients -> 0 .. LimitCapacity]
        /\ api \in [Keys -> 0 .. ApiCapacity]
        /\ called \in SUBSET Requests
        /\ resets \in [Keys -> Nat]
        /\ lost \in Nat /\ ticks \in Nat /\ faults \in Nat
    BY DEF Typed, TypeOK
  <1>k. ASSUME UNCHANGED op, \A q \in Requests : stage'[q] # "new" => stage[q] # "new"
        PROVE  Known'
    BY <1>k DEF Typed, Known
  <1>1. ASSUME NEW q \in Requests, NEW o \in Asked, Receive(q, o) PROVE Typed'
    <2>1. /\ stage' \in [Requests -> Stages] /\ reply' \in [Requests -> Replies]
          /\ op' \in [Requests -> Asked \cup {NoOp}]
      BY <1>t, <1>1 DEF Receive, Answer, Stages, Replies
    <2>2. \A p \in Requests : p # q => op'[p] = op[p] /\ stage'[p] = stage[p]
      BY <1>t, <1>1 DEF Receive, Answer
    <2>3. op'[q] \in Asked
      BY <1>t, <1>1 DEF Receive
    <2>4. Known'
      BY <2>2, <2>3 DEF Typed, Known
    <2> QED
      BY <1>t, <1>1, <2>1, <2>4 DEF Receive, Typed, TypeOK, bucketVars, NoFault
  <1>2. ASSUME NEW q \in Requests, Moves(q) PROVE Typed'
    <2>1. /\ UNCHANGED op /\ stage[q] # "new"
          /\ \/ UNCHANGED <<stage, reply>>
             \/ \E a \in Replies : Answer(q, a)
             \/ stage' = [stage EXCEPT ![q] = "handler"] /\ UNCHANGED reply
             \/ stage' = [stage EXCEPT ![q] = "hung"] /\ UNCHANGED reply
      BY <1>2, StepMoves DEF LimiterAllows, At, Limits, Handles, Replies
    <2>2. stage' \in [Requests -> Stages] /\ reply' \in [Requests -> Replies]
      BY <1>t, <2>1 DEF Answer, Stages
    <2>3. Known'
      BY <1>t, <1>k, <2>1 DEF Answer
    <2>4. results' \in [Requests -> Seq(Results)]
      <3>1. CASE results' = results
        BY <1>t, <3>1
      <3>2. CASE \E r \in Results : Attempt(q, r)
        <4>1. PICK r \in Results : Attempt(q, r)
          BY <3>2
        <4>2. Append(results[q], r) \in Seq(Results)
          BY <1>t
        <4> QED
          BY <1>t, <4>1, <4>2 DEF Attempt
      <3> QED
        BY <1>2, <3>1, <3>2, StepCalls
    <2>5. called' \in SUBSET Requests /\ gone' \in SUBSET Requests
      BY <1>t, <1>2, StepCalls
    <2>6. phase' = phase /\ lost' \in Nat /\ ticks' \in Nat /\ faults' \in Nat
      BY <1>t, <1>2, StepCalls
    <2> QED
      BY <1>t, <1>2, <2>1, <2>2, <2>3, <2>4, <2>5, <2>6, BucketTypes, StepWrites
      DEF Typed, TypeOK
  <1>3. ASSUME Tick PROVE Typed'
    <2>1. limit' \in [Clients -> 0 .. LimitCapacity] /\ api' \in [Keys -> 0 .. ApiCapacity]
      <3>1. ASSUME NEW c \in Clients
            PROVE  Capped(limit[c] + LimitRate, LimitCapacity) \in 0 .. LimitCapacity
        <4>1. limit[c] + LimitRate \in Nat /\ LimitCapacity \in Nat
          BY FoundTypes, ConstantTypes
        <4> QED
          BY <4>1, CappedTypes
      <3>2. ASSUME NEW k \in Keys
            PROVE  Capped(api[k] + ApiRate, ApiCapacity) \in 0 .. ApiCapacity
        <4>1. api[k] + ApiRate \in Nat /\ ApiCapacity \in Nat
          BY FoundTypes, ConstantTypes
        <4> QED
          BY <4>1, CappedTypes
      <3> QED
        BY <1>3, <3>1, <3>2 DEF Tick
    <2>2. ticks' \in Nat
      BY <1>t, <1>3 DEF Tick
    <2> QED
      BY <1>t, <1>3, <1>k, <2>1, <2>2 DEF Tick, Typed, TypeOK, requestVars, NoFault
  <1>4. ASSUME RedisLosesBuckets PROVE Typed'
    <2>1. limit' \in [Clients -> 0 .. LimitCapacity] /\ api' \in [Keys -> 0 .. ApiCapacity]
      BY <1>4, ConstantTypes DEF RedisLosesBuckets
    <2>2. lost' \in Nat /\ faults' \in Nat
      BY <1>t, <1>4 DEF RedisLosesBuckets, Fault
    <2> QED
      BY <1>t, <1>4, <1>k, <2>1, <2>2 DEF RedisLosesBuckets, Typed, TypeOK, requestVars
  <1>5. ASSUME Shutdown \/ Exit \/ ForcedExit PROVE Typed'
    BY <1>t, <1>5, <1>k
    DEF Shutdown, Exit, ForcedExit, Becomes, Typed, TypeOK, requestVars, bucketVars, NoFault
  <1>6. ASSUME UNCHANGED vars PROVE Typed'
    BY <1>t, <1>6, <1>k DEF vars, Typed, TypeOK
  <1> QED
    BY <1>1, <1>2, <1>3, <1>4, <1>5, <1>6 DEF Next, Moves

\* The types of the server's state: levels within the capacities, replies and
\* stages the code has.
THEOREM TypeCorrect == Spec => []TypeOK
  <1>1. Typed => TypeOK
    BY DEF Typed
  <1> QED
    BY InitTyped, NextTyped, <1>1, PTL DEF Spec

-----------------------------------------------------------------------------
(* Requests that are turned away. *)

LEMMA InitInv == Init => IInv
  <1> SUFFICES ASSUME Init PROVE IInv
    OBVIOUS
  <1>1. Unhandled /\ RejectedUntouched
    BY DEF Init, Unhandled, RejectedUntouched
  <1> QED
    BY <1>1, InitTyped DEF IInv

\* A step from outside changes no request.
LEMMA OutsideSteps ==
    ASSUME Tick \/ RedisLosesBuckets \/ Shutdown \/ Exit \/ ForcedExit \/ UNCHANGED vars
    PROVE  UNCHANGED <<requestVars, called>>
  BY DEF Tick, RedisLosesBuckets, Shutdown, Exit, ForcedExit, Becomes, vars, requestVars

LEMMA NextInv == IInv /\ [Next]_vars => IInv'
  <1> SUFFICES ASSUME IInv, [Next]_vars PROVE IInv'
    OBVIOUS
  <1>1. Typed'
    BY NextTyped DEF IInv
  <1>t. /\ op \in [Requests -> Asked \cup {NoOp}]
        /\ stage \in [Requests -> Stages]
        /\ reply \in [Requests -> Replies]
        /\ results \in [Requests -> Seq(Results)]
    BY DEF IInv, Typed, TypeOK
  <1> DEFINE Good(p) ==
        /\ stage[p] \in {"new", "limiter"} => p \notin called /\ results[p] = <<>>
        /\ p \in called => ~Invalid(p)
        /\ reply[p] \in Turned \cup {"badRequest"} => stage[p] = "done" /\ p \notin called
  <1>2. \A p \in Requests : Good(p)
    BY DEF IInv, Unhandled, RejectedUntouched, Turned
  <1>3. ASSUME NEW p \in Requests, op'[p] = op[p], stage'[p] = stage[p],
               reply'[p] = reply[p], results'[p] = results[p],
               p \in called' <=> p \in called
        PROVE  Good(p)'
    BY <1>2, <1>3 DEF Invalid
  <1>4. ASSUME NEW q \in Requests, NEW o \in Asked, Receive(q, o)
        PROVE  \A p \in Requests : Good(p)'
    <2>1. /\ stage[q] = "new" /\ results' = results /\ called' = called
          /\ \A p \in Requests : p # q =>
                op'[p] = op[p] /\ stage'[p] = stage[p] /\ reply'[p] = reply[p]
      BY <1>t, <1>4 DEF Receive, Answer, At
    <2>2. results'[q] = <<>> /\ q \notin called'
      BY <1>2, <2>1
    <2>3. reply'[q] = reply[q] \/ stage'[q] = "done"
      BY <1>t, <1>4 DEF Receive, Answer
    <2>4. Good(q)'
      BY <1>2, <2>1, <2>2, <2>3
    <2> QED
      BY <1>3, <2>1, <2>4
  <1>5. ASSUME NEW q \in Requests, Moves(q)
        PROVE  \A p \in Requests : Good(p)'
    <2>1. op' = op /\ (Invalid(q)' <=> Invalid(q))
      BY <1>5, StepMoves DEF LimiterAllows, Limits, Handles, Invalid
    <2>2. \A p \in Requests : p # q => stage'[p] = stage[p] /\ reply'[p] = reply[p]
      BY <1>t, <1>5, StepMoves DEF LimiterAllows, Limits, Handles, Answer
    <2>3. \A p \in Requests : p # q => results'[p] = results[p]
      BY <1>t, <1>5, StepCalls DEF Attempt
    <2>4. called' = called \/ (called' = called \cup {q} /\ ~Invalid(q))
      BY <1>5, StepCalls
    <2>5. \A p \in Requests : p # q => Good(p)'
      BY <1>3, <2>1, <2>2, <2>3, <2>4
    <2>6. Good(q)'
      <3>1. CASE LimiterAllows(q)
        <4>1. stage[q] = "limiter" /\ stage'[q] = "handler" /\ reply'[q] = reply[q]
              /\ called' = called
          BY <1>t, <3>1 DEF LimiterAllows, At
        <4> QED
          BY <1>2, <2>1, <4>1
      <3>2. CASE Limits(q)
        <4>1. /\ stage[q] = "limiter" /\ UNCHANGED <<results, called>>
              /\ stage'[q] = "done" \/ (stage'[q] = stage[q] /\ reply'[q] = reply[q])
          BY <1>t, <3>2 DEF Limits, Answer
        <4> QED
          BY <1>2, <2>1, <4>1
      <3>3. CASE Handles(q)
        <4>1. /\ stage[q] = "handler" /\ stage'[q] \notin {"new", "limiter"}
              /\ reply[q] \notin Turned \cup {"badRequest"}
              /\ reply'[q] \notin Turned
              /\ reply'[q] = "badRequest" => /\ Invalid(q) /\ called' = called
                                             /\ stage'[q] = "done"
          BY <1>t, <1>2, <3>3 DEF Handles, Answer, Turned
        <4> QED
          BY <1>2, <2>1, <2>4, <4>1
      <3> QED
        BY <1>5, <3>1, <3>2, <3>3, StepMoves
    <2> QED
      BY <2>5, <2>6
  <1>6. \A p \in Requests : Good(p)'
    <2>1. CASE Tick \/ RedisLosesBuckets \/ Shutdown \/ Exit \/ ForcedExit \/ UNCHANGED vars
      BY <1>3, <2>1, OutsideSteps DEF requestVars
    <2> QED
      BY <1>4, <1>5, <2>1 DEF Next, Moves
  <1>7. Unhandled' /\ RejectedUntouched'
    BY <1>6 DEF Unhandled, RejectedUntouched, Turned
  <1> QED
    BY <1>1, <1>7 DEF IInv

\* A request that is turned away by the router, the limiter or the checks of
\* its handler is over, and its handler has called neither a bucket nor the
\* user service.
THEOREM RejectionsHarmless == Spec => []RejectedUntouched
  <1>1. IInv => RejectedUntouched
    BY DEF IInv
  <1> QED
    BY InitInv, NextInv, <1>1, PTL DEF Spec

-----------------------------------------------------------------------------
(* Requests that reach a handler. *)

\* The limiter lets a request of client c through.
Admits(q, c) == LimiterAllows(q) /\ Client(q) = c

LEMMA PassedStep ==
    ASSUME Typed, [Next]_vars, NEW c \in Clients
    PROVE  \/ /\ PassedOf(c)' = PassedOf(c)
              /\ ~\E q \in Requests : Admits(q, c)
           \/ \E q \in Requests : /\ Admits(q, c)
                                  /\ q \notin PassedOf(c)
                                  /\ PassedOf(c)' = PassedOf(c) \cup {q}
  <1>t. /\ op \in [Requests -> Asked \cup {NoOp}]
        /\ stage \in [Requests -> Stages]
        /\ reply \in [Requests -> Replies]
    BY DEF Typed, TypeOK
  <1> DEFINE In(p) == Passed(p) /\ Client(p) = c
  <1>1. ASSUME NEW p \in Requests, op'[p] = op[p], stage'[p] = stage[p], reply'[p] = reply[p]
        PROVE  In(p)' <=> In(p)
    BY <1>1 DEF Passed, Client
  <1>2. ASSUME UNCHANGED requestVars PROVE \A p \in Requests : In(p)' <=> In(p)
    BY <1>1, <1>2 DEF requestVars
  <1>3. ASSUME NEW q \in Requests, NEW o \in Asked, Receive(q, o)
        PROVE  \A p \in Requests : In(p)' <=> In(p)
    <2>1. /\ stage[q] = "new"
          /\ \A p \in Requests : p # q =>
                op'[p] = op[p] /\ stage'[p] = stage[p] /\ reply'[p] = reply[p]
      BY <1>t, <1>3 DEF Receive, Answer, At
    <2>2. ~Passed(q)
      BY <2>1 DEF Passed
    <2>3. ~Passed(q)'
      BY <1>t, <1>3 DEF Receive, Answer, Passed
    <2> QED
      BY <1>1, <2>1, <2>2, <2>3
  <1>4. ASSUME NEW q \in Requests, Limits(q) \/ Handles(q)
        PROVE  \A p \in Requests : In(p)' <=> In(p)
    <2>1. op' = op /\ \A p \in Requests : p # q =>
            stage'[p] = stage[p] /\ reply'[p] = reply[p]
      BY <1>t, <1>4 DEF Limits, Handles, Answer
    <2>2. Passed(q)' <=> Passed(q)
      BY <1>t, <1>4 DEF Limits, Handles, Answer, Passed, Turned
    <2>3. Client(q)' = Client(q)
      BY <2>1 DEF Client
    <2> QED
      BY <1>1, <2>1, <2>2, <2>3
  <1>5. ASSUME NEW q \in Requests, LimiterAllows(q)
        PROVE  /\ ~Passed(q) /\ Passed(q)' /\ Client(q)' = Client(q)
               /\ \A p \in Requests : p # q => (In(p)' <=> In(p))
    BY <1>1, <1>t, <1>5 DEF LimiterAllows, At, Passed, Client
  <1>6. PassedOf(c) = {p \in Requests : In(p)} /\ PassedOf(c)' = {p \in Requests : In(p)'}
    BY DEF PassedOf
  <1> HIDE DEF In
  <1>7. CASE \E q \in Requests : Admits(q, c)
    <2>1. PICK q \in Requests : Admits(q, c)
      BY <1>7
    <2>2. ~In(q) /\ In(q)' /\ \A p \in Requests : p # q => (In(p)' <=> In(p))
      BY <1>5, <2>1 DEF Admits, In
    <2> QED
      BY <1>6, <2>1, <2>2
  <1>8. CASE ~\E q \in Requests : Admits(q, c)
    <2>1. \A p \in Requests : In(p)' <=> In(p)
      <3>1. CASE \E q \in Requests : LimiterAllows(q)
        <4>1. PICK q \in Requests : LimiterAllows(q)
          BY <3>1
        <4>2. ~In(q) /\ ~In(q)'
          BY <1>5, <1>8, <4>1 DEF Admits, In
        <4> QED
          BY <1>5, <4>1, <4>2
      <3>2. CASE Tick \/ RedisLosesBuckets \/ Shutdown \/ Exit \/ ForcedExit \/ UNCHANGED vars
        BY <1>2, <3>2, OutsideSteps
      <3> QED
        BY <1>3, <1>4, <3>1, <3>2, StepMoves DEF Next, Moves
    <2> QED
      BY <1>6, <1>8, <2>1
  <1> QED
    BY <1>7, <1>8

-----------------------------------------------------------------------------
(* A bucket that both the limiter and the API use. *)

\* The API finds in it what the limiter does, or more.
Shared == \A c \in Clients \cap Keys : limit[c] <= api[c]

LEMMA CappedOrder ==
    ASSUME NEW m \in Nat, NEW n \in Nat, m <= n,
           NEW a \in Nat, NEW b \in Nat, a <= b
    PROVE  Capped(m, a) <= Capped(n, b)
  BY DEF Capped

LEMMA SharedInit == Init => Shared
  BY ConstantTypes DEF Init, Shared

LEMMA SharedNext == Typed /\ Shared /\ [Next]_vars => Shared'
  <1> SUFFICES ASSUME Typed, Shared, [Next]_vars, NEW c \in Clients, c \in Keys
               PROVE  limit'[c] <= api'[c]
    BY DEF Shared
  <1>n. /\ LimitCapacity \in Nat /\ ApiCapacity \in Nat /\ LimitCapacity <= ApiCapacity
        /\ LimitRate \in Nat /\ ApiRate \in Nat /\ LimitRate <= ApiRate
    BY ConstantTypes
  <1>i. limit[c] \in Nat /\ api[c] \in Nat /\ limit[c] <= api[c]
    BY FoundTypes DEF Shared
  <1>1. CASE \E q \in Requests : Moves(q)
    <2>1. CASE \E b : \E n \in Nat : Writes(b, n)
      <3>0. PICK b : \E n \in Nat : Writes(b, n)
        BY <2>1
      <3>1. PICK n \in Nat : Writes(b, n)
        BY <3>0
      <3>2. Capped(n, LimitCapacity) <= Capped(n, ApiCapacity)
        BY <1>n, CappedOrder
      <3> QED
        BY <1>i, <3>1, <3>2, WritesTypes
    <2> QED
      BY <1>1, <1>i, <2>1, StepWrites DEF Unwritten
  <1>2. CASE Tick
    <2>1. /\ limit'[c] = Capped(limit[c] + LimitRate, LimitCapacity)
          /\ api'[c] = Capped(api[c] + ApiRate, ApiCapacity)
      BY <1>2 DEF Tick
    <2>2. /\ limit[c] + LimitRate \in Nat /\ api[c] + ApiRate \in Nat
          /\ limit[c] + LimitRate <= api[c] + ApiRate
      BY <1>n, <1>i
    <2> QED
      BY <1>n, <2>1, <2>2, CappedOrder
  <1>3. CASE RedisLosesBuckets
    BY <1>3, <1>n DEF RedisLosesBuckets
  <1>4. CASE (\E q \in Requests : \E o \in Asked : Receive(q, o))
             \/ Shutdown \/ Exit \/ ForcedExit \/ UNCHANGED vars
    BY <1>4, <1>i DEF Receive, Shutdown, Exit, ForcedExit, Becomes, vars, bucketVars
  <1> QED
    BY <1>1, <1>2, <1>3, <1>4 DEF Next, Moves

\* A request takes from the bucket of a key, or fills it up as a reset.
LEMMA ApiMoves ==
    ASSUME Typed, Shared, NEW q \in Requests, Moves(q), NEW k \in Keys
    PROVE  \/ api'[k] \in 0 .. api[k] /\ resets'[k] = resets[k]
           \/ api'[k] = ApiCapacity /\ resets'[k] = resets[k] + 1
  <1>n. /\ Token \in Nat /\ Amounts \subseteq Nat /\ ApiCapacity \in Nat
        /\ api[k] \in Nat /\ api[k] <= ApiCapacity
    BY ConstantTypes, FoundTypes
  <1>w. ASSUME NEW b, NEW n \in Nat, Writes(b, n), b = k => n <= api[k]
        PROVE  api'[k] \in 0 .. api[k]
    <2>1. api'[k] = IF k = b THEN Capped(n, ApiCapacity) ELSE api[k]
      BY <1>w, WritesTypes
    <2>2. Capped(n, ApiCapacity) \in Nat /\ Capped(n, ApiCapacity) <= n
      BY <1>n, CappedTypes
    <2> QED
      BY <1>n, <1>w, <2>1, <2>2
  <1>c. ASSUME NEW c \in Clients, c = k PROVE limit[c] \in Nat /\ limit[c] <= api[k]
    BY <1>c, FoundTypes DEF Shared
  <1>1. CASE LimiterAllows(q)
    <2>1. /\ Client(q) \in Clients /\ Writes(Client(q), limit[Client(q)] - Token)
          /\ limit[Client(q)] >= Token /\ resets' = resets
      BY <1>1, Input DEF LimiterAllows, LimiterTakes, At
    <2>2. limit[Client(q)] - Token \in Nat /\ limit[Client(q)] - Token <= limit[Client(q)]
      BY <1>n, <2>1, FoundTypes
    <2>3. Client(q) = k => limit[Client(q)] - Token <= api[k]
      BY <1>n, <1>c, <2>1, <2>2
    <2> QED
      BY <1>w, <2>1, <2>2, <2>3
  <1>2. CASE GrantsAmount(q) \/ GrantsToken(q)
    <2>1. op[q].key \in Keys /\ (op[q].route = "consume" => op[q].amount \in Nat)
      BY <1>2, <1>n, Input
      DEF GrantsAmount, GrantsToken, CallsBucket, Calls, At, BucketRoutes
    <2>2. PICK n \in Nat : Take(op[q].key, n)
      BY <1>2, <1>n, <2>1 DEF GrantsAmount, GrantsToken, CallsBucket
    <2>3. api[op[q].key] - n \in Nat /\ api[op[q].key] - n <= api[op[q].key]
      BY <2>1, <2>2, FoundTypes DEF Take
    <2>4. UNCHANGED resets
      BY <1>2 DEF GrantsAmount, GrantsToken, Attempt
    <2> QED
      BY <1>w, <2>2, <2>3, <2>4 DEF Take
  <1>3. ASSUME NEW b, NEW found \in Nat, Lowers(b, found), b = k => found <= api[k]
        PROVE  api'[k] \in 0 .. api[k] /\ resets'[k] = resets[k]
    <2>1. PICK n \in 0 .. found : Writes(b, n)
      BY <1>3 DEF Lowers
    <2>2. n \in Nat /\ (b = k => n <= api[k])
      BY <1>n, <1>3
    <2> QED
      BY <1>3, <1>w, <2>1, <2>2 DEF Lowers
  <1>4. CASE Client(q) \in Clients /\ Lowers(Client(q), limit[Client(q)])
    BY <1>3, <1>4, <1>c, FoundTypes
  <1>5. ASSUME NEW j \in Keys, Lowers(j, api[j])
        PROVE  api'[k] \in 0 .. api[k] /\ resets'[k] = resets[k]
    <2>1. api[j] \in Nat /\ (j = k => api[j] <= api[k])
      BY <1>n, FoundTypes
    <2> QED
      BY <1>3, <1>5, <2>1
  <1>6. ASSUME NEW j \in Keys, FillUp(j)
        PROVE  \/ api'[k] \in 0 .. api[k] /\ resets'[k] = resets[k]
               \/ api'[k] = ApiCapacity /\ resets'[k] = resets[k] + 1
    <2>1. Writes(j, ApiCapacity) /\ resets' = [resets EXCEPT ![j] = @ + 1]
      BY <1>6 DEF FillUp
    <2>2. api'[k] = IF k = j THEN Capped(ApiCapacity, ApiCapacity) ELSE api[k]
      BY <1>n, <2>1, WritesTypes
    <2>3. Capped(ApiCapacity, ApiCapacity) = ApiCapacity
      BY <1>n DEF Capped
    <2> QED
      BY <1>n, <2>1, <2>2, <2>3, FoundTypes
  <1>7. CASE LeavesBuckets
    BY <1>7, <1>n DEF LeavesBuckets, Unwritten
  <1> QED
    BY <1>1, <1>2, <1>4, <1>5, <1>6, <1>7, StepBuckets

-----------------------------------------------------------------------------
(* The bucket of a client. *)

LEMMA AdmitStep ==
    ASSUME Typed, NEW q \in Requests, NEW c \in Clients, Admits(q, c)
    PROVE  /\ limit[c] >= Token /\ limit'[c] = limit[c] - Token
           /\ c \in Keys => api'[c] = limit[c] - Token
           /\ UNCHANGED <<resets, lost, ticks, faults>>
  <1>1. /\ limit[c] >= Token /\ Writes(c, limit[c] - Token)
        /\ UNCHANGED <<resets, lost, ticks, faults>>
    BY DEF Admits, LimiterAllows, LimiterTakes, NoFault
  <1>2. /\ limit[c] - Token \in Nat
        /\ limit[c] - Token <= LimitCapacity /\ limit[c] - Token <= ApiCapacity
        /\ LimitCapacity \in Nat /\ ApiCapacity \in Nat
    BY <1>1, FoundTypes, ConstantTypes
  <1>3. /\ Capped(limit[c] - Token, LimitCapacity) = limit[c] - Token
        /\ Capped(limit[c] - Token, ApiCapacity) = limit[c] - Token
    BY <1>2, CappedTypes
  <1> QED
    BY <1>1, <1>2, <1>3, WritesTypes

\* A client's bucket that no request names to the API is the limiter's alone:
\* what it loses without an admission goes with a lost answer.
LEMMA PrivateMoves ==
    ASSUME Typed, NEW q \in Requests, Moves(q), NEW c \in Clients, c \notin Keys,
           ~Admits(q, c)
    PROVE  limit'[c] \in 0 .. limit[c] /\ (limit'[c] = limit[c] \/ faults' = faults + 1)
  <1>n. /\ limit[c] \in Nat /\ limit[c] <= LimitCapacity /\ LimitCapacity \in Nat
        /\ Token \in Nat /\ Amounts \subseteq Nat /\ ApiCapacity \in Nat
    BY ConstantTypes, FoundTypes
  <1>o. ASSUME NEW b, NEW n \in Nat, Writes(b, n), b # c
        PROVE  limit'[c] \in 0 .. limit[c] /\ limit'[c] = limit[c]
    BY <1>n, <1>o, WritesTypes
  <1>1. CASE LimiterAllows(q)
    <2>1. /\ Client(q) \in Clients /\ Writes(Client(q), limit[Client(q)] - Token)
          /\ limit[Client(q)] >= Token /\ Client(q) # c
      BY <1>1, Input DEF LimiterAllows, LimiterTakes, At, Admits
    <2>2. limit[Client(q)] - Token \in Nat
      BY <1>n, <2>1, FoundTypes
    <2> QED
      BY <1>o, <2>1, <2>2
  <1>2. CASE GrantsAmount(q) \/ GrantsToken(q)
    <2>1. op[q].key \in Keys /\ (op[q].route = "consume" => op[q].amount \in Nat)
      BY <1>2, <1>n, Input
      DEF GrantsAmount, GrantsToken, CallsBucket, Calls, At, BucketRoutes
    <2>2. PICK n \in Nat : Take(op[q].key, n)
      BY <1>2, <1>n, <2>1 DEF GrantsAmount, GrantsToken, CallsBucket
    <2>3. api[op[q].key] - n \in Nat
      BY <2>1, <2>2, FoundTypes DEF Take
    <2> QED
      BY <1>o, <2>1, <2>2, <2>3 DEF Take
  <1>3. CASE Lowers(c, limit[c])
    <2>1. PICK n \in 0 .. limit[c] : Writes(c, n) /\ (n = limit[c] \/ faults' = faults + 1)
      BY <1>3 DEF Lowers
    <2>2. n \in Nat /\ n <= limit[c] /\ n <= LimitCapacity
      BY <1>n
    <2>3. limit'[c] = Capped(n, LimitCapacity)
      BY <2>1, <2>2, WritesTypes
    <2>4. limit'[c] = n
      BY <1>n, <2>2, <2>3, CappedTypes
    <2> QED
      BY <1>n, <2>1, <2>4
  <1>4. ASSUME NEW b, NEW found \in Nat, Lowers(b, found), b # c
        PROVE  limit'[c] \in 0 .. limit[c] /\ limit'[c] = limit[c]
    <2>1. PICK n \in 0 .. found : Writes(b, n)
      BY <1>4 DEF Lowers
    <2> QED
      BY <1>4, <1>o, <2>1
  <1>5. CASE Client(q) \in Clients /\ Lowers(Client(q), limit[Client(q)])
    BY <1>3, <1>4, <1>5, FoundTypes
  <1>6. CASE \E k \in Keys : Lowers(k, api[k]) \/ FillUp(k)
    BY <1>4, <1>o, <1>n, <1>6, FoundTypes DEF FillUp
  <1>7. CASE LeavesBuckets
    BY <1>7, <1>n DEF LeavesBuckets, Unwritten
  <1> QED
    BY <1>1, <1>2, <1>5, <1>6, <1>7, StepBuckets

\* What the limiter can still admit without refill: the API can leave more than
\* a burst in a bucket, but the limiter finds no more.
Reach(c) == IF c \in Keys THEN Capped(api[c], LimitCapacity) ELSE limit[c]

LEMMA ReachTypes ==
    ASSUME Typed, Shared, NEW c \in Clients
    PROVE  /\ Reach(c) \in Nat /\ Reach(c) <= LimitCapacity /\ limit[c] <= Reach(c)
           /\ ResetsOf(c) \in Nat /\ RefillOf(c) \in Nat
  <1>1. /\ limit[c] \in Nat /\ limit[c] <= LimitCapacity /\ LimitCapacity \in Nat
        /\ ApiRate \in Nat /\ LimitRate \in Nat
    BY ConstantTypes, FoundTypes
  <1>2. CASE c \in Keys
    <2>1. api[c] \in Nat /\ limit[c] <= api[c]
      BY <1>2, FoundTypes DEF Shared
    <2> QED
      BY <1>1, <1>2, <2>1, FoundTypes DEF Reach, Capped, ResetsOf, RefillOf
  <1> QED
    BY <1>1, <1>2 DEF Reach, ResetsOf, RefillOf

LEMMA ReachMoves ==
    ASSUME Typed, Shared, NEW q \in Requests, Moves(q), NEW c \in Clients, ~Admits(q, c)
    PROVE  \/ Reach(c)' <= Reach(c) /\ ResetsOf(c)' = ResetsOf(c)
           \/ Reach(c)' <= LimitCapacity /\ ResetsOf(c)' = ResetsOf(c) + 1
  <1>n. LimitCapacity \in Nat /\ ApiCapacity \in Nat
    BY ConstantTypes
  <1>1. CASE c \in Keys
    <2>1. /\ api[c] \in Nat /\ api'[c] \in Nat
          /\ \/ api'[c] <= api[c] /\ resets'[c] = resets[c]
             \/ resets'[c] = resets[c] + 1
      BY <1>1, <1>n, ApiMoves, FoundTypes
    <2>2. api'[c] <= api[c] => Capped(api'[c], LimitCapacity) <= Capped(api[c], LimitCapacity)
      BY <1>n, <2>1, CappedOrder
    <2>3. Capped(api'[c], LimitCapacity) <= LimitCapacity
      BY <1>n, <2>1 DEF Capped
    <2> QED
      BY <1>1, <2>1, <2>2, <2>3 DEF Reach, ResetsOf
  <1>2. CASE c \notin Keys
    BY <1>2, PrivateMoves, FoundTypes DEF Reach, ResetsOf
  <1> QED
    BY <1>1, <1>2

LEMMA ReachStep ==
    ASSUME Typed, Shared, [Next]_vars, NEW c \in Clients
    PROVE  \/ /\ \E q \in Requests : Admits(q, c)
              /\ Reach(c)' + Token <= Reach(c)
              /\ ResetsOf(c)' + lost' = ResetsOf(c) + lost /\ ticks' = ticks
           \/ /\ ~\E q \in Requests : Admits(q, c)
              /\ \/ /\ Reach(c)' <= Reach(c)
                    /\ ResetsOf(c)' + lost' = ResetsOf(c) + lost /\ ticks' = ticks
                 \/ /\ Reach(c)' <= LimitCapacity
                    /\ ResetsOf(c)' + lost' = ResetsOf(c) + lost + 1 /\ ticks' = ticks
                 \/ /\ Reach(c)' <= Reach(c) + RefillOf(c)
                    /\ ResetsOf(c)' + lost' = ResetsOf(c) + lost /\ ticks' = ticks + 1
  <1>n. /\ LimitCapacity \in Nat /\ Token \in Nat /\ LimitRate \in Nat /\ ApiRate \in Nat
        /\ ApiCapacity \in Nat
        /\ limit[c] \in Nat /\ limit[c] <= LimitCapacity /\ lost \in Nat
        /\ Reach(c) \in Nat /\ limit[c] <= Reach(c) /\ ResetsOf(c) \in Nat
    BY ConstantTypes, FoundTypes, ReachTypes
  <1>p. Reach(c)' \in Nat /\ Reach(c)' <= LimitCapacity
    <2>1. Typed' /\ Shared'
      BY NextTyped, SharedNext
    <2>2. LimitCapacity' = LimitCapacity /\ (c \in Clients)'
      OBVIOUS
    <2>3. CASE c \in Keys
      <3>1. api'[c] \in Nat
        BY <2>1, <2>3 DEF Typed, TypeOK
      <3> QED
        BY <1>n, <2>3, <3>1, CappedTypes DEF Reach
    <2>4. CASE c \notin Keys
      BY <1>n, <2>1, <2>4 DEF Typed, TypeOK, Reach
    <2> QED
      BY <2>3, <2>4
  <1>1. CASE \E q \in Requests : Admits(q, c)
    <2>1. PICK q \in Requests : Admits(q, c)
      BY <1>1
    <2>2. Reach(c)' = limit[c] - Token /\ limit[c] >= Token
      <3>1. CASE c \in Keys
        <4>1. /\ limit[c] - Token \in Nat /\ limit[c] - Token <= LimitCapacity
              /\ api'[c] = limit[c] - Token
          BY <1>n, <2>1, <3>1, AdmitStep
        <4>2. Capped(limit[c] - Token, LimitCapacity) = limit[c] - Token
          BY <1>n, <4>1, CappedTypes
        <4> QED
          BY <2>1, <3>1, <4>1, <4>2, AdmitStep DEF Reach
      <3>2. CASE c \notin Keys
        BY <2>1, <3>2, AdmitStep DEF Reach
      <3> QED
        BY <3>1, <3>2
    <2>3. ResetsOf(c)' = ResetsOf(c) /\ lost' = lost /\ ticks' = ticks
      BY <2>1, AdmitStep DEF ResetsOf
    <2> QED
      BY <1>1, <1>n, <2>2, <2>3
  <1>2. CASE ~\E q \in Requests : Admits(q, c)
    <2>1. CASE \E q \in Requests : Moves(q)
      BY <1>2, <1>n, <2>1, ReachMoves, StepCalls
    <2>2. CASE Tick
      <3>1. ResetsOf(c)' + lost' = ResetsOf(c) + lost /\ ticks' = ticks + 1
        BY <2>2 DEF Tick, ResetsOf
      <3>2. Reach(c)' <= Reach(c) + RefillOf(c)
        <4>1. CASE c \in Keys
          <5>1. api'[c] = Capped(api[c] + ApiRate, ApiCapacity) /\ api[c] \in Nat
            BY <2>2, <4>1, FoundTypes DEF Tick
          <5>2. api'[c] \in Nat /\ api'[c] <= api[c] + ApiRate
            BY <1>n, <5>1 DEF Capped
          <5>3. ASSUME NEW x \in Nat, NEW y \in Nat, x <= y + ApiRate
                PROVE  Capped(x, LimitCapacity) <= Capped(y, LimitCapacity) + ApiRate
            BY <1>n, <5>3 DEF Capped
          <5> QED
            BY <4>1, <5>1, <5>2, <5>3 DEF Reach, RefillOf
        <4>2. CASE c \notin Keys
          <5>1. limit'[c] = Capped(limit[c] + LimitRate, LimitCapacity)
            BY <2>2 DEF Tick
          <5>2. limit[c] + LimitRate \in Nat
            BY <1>n
          <5>3. limit'[c] <= limit[c] + LimitRate
            BY <1>n, <5>1, <5>2 DEF Capped
          <5> QED
            BY <4>2, <5>3 DEF Reach, RefillOf
        <4> QED
          BY <4>1, <4>2
      <3> QED
        BY <1>2, <3>1, <3>2
    <2>3. CASE RedisLosesBuckets
      <3>1. ResetsOf(c)' = ResetsOf(c) /\ lost' = lost + 1 /\ ticks' = ticks
        BY <2>3 DEF RedisLosesBuckets, ResetsOf
      <3> QED
        BY <1>2, <1>n, <1>p, <3>1
    <2>4. CASE (\E q \in Requests : \E o \in Asked : Receive(q, o))
               \/ Shutdown \/ Exit \/ ForcedExit \/ UNCHANGED vars
      <3>1. UNCHANGED <<bucketVars, ticks>>
        BY <2>4 DEF Receive, Shutdown, Exit, ForcedExit, Becomes, vars, bucketVars
      <3>2. Reach(c)' = Reach(c) /\ ResetsOf(c)' = ResetsOf(c)
        BY <3>1 DEF bucketVars, Reach, ResetsOf
      <3> QED
        BY <1>2, <1>n, <3>1, <3>2 DEF bucketVars
    <2> QED
      BY <2>1, <2>2, <2>3, <2>4 DEF Next, Moves
  <1> QED
    BY <1>1, <1>2

\* Products of natural numbers.
LEMMA Products ==
    ASSUME NEW m \in Nat, NEW n \in Nat
    PROVE  m * n \in Nat /\ m * (n + 1) = m * n + m
  OBVIOUS

Finite == \A c \in Clients : IsFiniteSet(PassedOf(c))

\* The bound holds of what is within reach, not only of what is there.
ReachBounded ==
    \A c \in Clients :
        Token * Cardinality(PassedOf(c)) + Reach(c)
            <= LimitCapacity * (1 + ResetsOf(c) + lost) + RefillOf(c) * ticks

Admissions == Shared /\ Finite /\ ReachBounded

LEMMA FiniteNext == Typed /\ Finite /\ [Next]_vars => Finite'
  <1> SUFFICES ASSUME Typed, Finite, [Next]_vars, NEW c \in Clients
               PROVE  IsFiniteSet(PassedOf(c)')
    BY DEF Finite
  <1> QED
    BY PassedStep, FS_AddElement DEF Finite

LEMMA AdmissionsNext == Typed /\ Admissions /\ [Next]_vars => Admissions'
  <1> SUFFICES ASSUME Typed, Admissions, [Next]_vars, NEW c \in Clients
               PROVE  Token * Cardinality(PassedOf(c)') + Reach(c)'
                        <= LimitCapacity * (1 + ResetsOf(c)' + lost') + RefillOf(c) * ticks'
    BY FiniteNext, SharedNext DEF Admissions, ReachBounded, RefillOf
  <1> DEFINE n == Cardinality(PassedOf(c))
             m == Cardinality(PassedOf(c)')
  <1>1. IsFiniteSet(PassedOf(c)) /\ IsFiniteSet(PassedOf(c)')
    BY FiniteNext DEF Admissions, Finite
  <1>2. n \in Nat /\ m \in Nat
    BY <1>1, FS_CardinalityType
  <1>3. \/ m = n /\ ~\E q \in Requests : Admits(q, c)
        \/ m = n + 1 /\ \E q \in Requests : Admits(q, c)
    BY <1>1, PassedStep, FS_AddElement
  <1>4. /\ Reach(c) \in Nat /\ ResetsOf(c) \in Nat /\ RefillOf(c) \in Nat
        /\ lost \in Nat /\ ticks \in Nat
    BY ReachTypes, FoundTypes DEF Admissions
  <1>5. Reach(c)' \in Int /\ ResetsOf(c)' \in Nat /\ lost' \in Nat
    <2>1. TypeOK' /\ LimitCapacity \in Nat
      BY NextTyped, ConstantTypes DEF Typed
    <2>2. /\ c \in Keys => api'[c] \in Nat /\ resets'[c] \in Nat
          /\ limit'[c] \in Nat /\ lost' \in Nat
      BY <2>1 DEF TypeOK
    <2> QED
      BY <2>1, <2>2 DEF Reach, ResetsOf, Capped
  <1>6. PICK f, A, B, P, a \in Nat :
          /\ f = 1 + ResetsOf(c) + lost
          /\ A = LimitCapacity * f /\ B = RefillOf(c) * ticks /\ P = Token * n
          /\ a = Reach(c)
    <2>1. 1 + ResetsOf(c) + lost \in Nat
      BY <1>4
    <2> QED
      BY <1>2, <1>4, <2>1, ConstantTypes, Products
  <1>7. PICK b \in Int : b = Reach(c)'
    BY <1>5
  <1>8. P + a <= A + B
    BY <1>6 DEF Admissions, ReachBounded
  <1>9. Token \in Nat /\ LimitCapacity \in Nat
    BY ConstantTypes
  <1>10. /\ Token * (n + 1) = P + Token
         /\ LimitCapacity * (f + 1) = A + LimitCapacity
         /\ RefillOf(c) * (ticks + 1) = B + RefillOf(c)
    BY <1>2, <1>4, <1>6, <1>9, Products
  <1>s. Shared
    BY DEF Admissions
  <1> HIDE DEF n, m
  <1>11. CASE /\ \E q \in Requests : Admits(q, c)
              /\ Reach(c)' + Token <= Reach(c)
              /\ ResetsOf(c)' + lost' = ResetsOf(c) + lost /\ ticks' = ticks
    <2>1. m = n + 1
      BY <1>3, <1>11
    <2>2. 1 + ResetsOf(c)' + lost' = f
      BY <1>4, <1>5, <1>6, <1>11
    <2>3. P + Token + b <= A + B
      BY <1>6, <1>7, <1>8, <1>9, <1>11
    <2> QED
      BY <1>6, <1>7, <1>10, <1>11, <2>1, <2>2, <2>3 DEF m
  <1>12. CASE ~\E q \in Requests : Admits(q, c)
    <2>1. m = n
      BY <1>3, <1>12
    <2>2. CASE /\ Reach(c)' <= Reach(c)
               /\ ResetsOf(c)' + lost' = ResetsOf(c) + lost /\ ticks' = ticks
      <3>1. 1 + ResetsOf(c)' + lost' = f
        BY <1>4, <1>5, <1>6, <2>2
      <3>2. P + b <= A + B
        BY <1>6, <1>7, <1>8, <2>2
      <3> QED
        BY <1>6, <1>7, <2>1, <2>2, <3>1, <3>2 DEF m
    <2>3. CASE /\ Reach(c)' <= LimitCapacity
               /\ ResetsOf(c)' + lost' = ResetsOf(c) + lost + 1 /\ ticks' = ticks
      <3>1. 1 + ResetsOf(c)' + lost' = f + 1
        BY <1>4, <1>5, <1>6, <2>3
      <3>2. P + b <= (A + LimitCapacity) + B
        BY <1>6, <1>7, <1>8, <1>9, <2>3
      <3> QED
        BY <1>6, <1>7, <1>10, <2>1, <2>3, <3>1, <3>2 DEF m
    <2>4. CASE /\ Reach(c)' <= Reach(c) + RefillOf(c)
               /\ ResetsOf(c)' + lost' = ResetsOf(c) + lost /\ ticks' = ticks + 1
      <3>1. 1 + ResetsOf(c)' + lost' = f
        BY <1>4, <1>5, <1>6, <2>4
      <3>2. P + b <= A + (B + RefillOf(c))
        BY <1>4, <1>6, <1>7, <1>8, <2>4
      <3> QED
        BY <1>6, <1>7, <1>10, <2>1, <2>4, <3>1, <3>2 DEF m
    <2> QED
      BY <1>12, <1>s, <2>2, <2>3, <2>4, ReachStep
  <1> QED
    BY <1>11, <1>12, <1>s, ReachStep

LEMMA AdmissionsInit == Init => Admissions
  <1> SUFFICES ASSUME Init PROVE Admissions
    OBVIOUS
  <1>1. ASSUME NEW c \in Clients PROVE PassedOf(c) = {}
    BY DEF Init, PassedOf, Passed
  <1>2. Finite
    BY <1>1, FS_EmptySet DEF Finite
  <1>3. ASSUME NEW c \in Clients
        PROVE  Token * Cardinality(PassedOf(c)) + Reach(c)
                 <= LimitCapacity * (1 + ResetsOf(c) + lost) + RefillOf(c) * ticks
    <2>1. Cardinality(PassedOf(c)) = 0
      BY <1>1, FS_EmptySet
    <2>2. /\ ResetsOf(c) = 0 /\ lost = 0 /\ ticks = 0
          /\ Reach(c) \in Nat /\ Reach(c) <= LimitCapacity /\ RefillOf(c) \in Nat
      BY InitTyped, SharedInit, ReachTypes DEF Init, ResetsOf
    <2>3. Token * 0 = 0 /\ RefillOf(c) * 0 = 0 /\ LimitCapacity * (1 + 0 + 0) = LimitCapacity
      BY <2>2, ConstantTypes
    <2> QED
      BY <2>1, <2>2, <2>3, ConstantTypes
  <1> QED
    BY <1>2, <1>3, SharedInit DEF Admissions, ReachBounded

\* However the requests of a client interleave, whatever headers name it and
\* whichever calls fail, its requests reach handlers no more often than one
\* burst, one more for each loss of the buckets, and the refill allow.  Where
\* requests name its bucket to the API, each reset adds one burst more, and the
\* refill is that of the API.
THEOREM AdmissionsLimited == Spec => []AdmissionsBounded
  <1>1. Typed /\ Admissions => AdmissionsBounded
    <2> SUFFICES ASSUME Typed, Admissions, NEW c \in Clients
                 PROVE  Token * Cardinality(PassedOf(c)) + limit[c]
                          <= LimitCapacity * (1 + ResetsOf(c) + lost) + RefillOf(c) * ticks
      BY DEF AdmissionsBounded
    <2> DEFINE P == Token * Cardinality(PassedOf(c))
               R == LimitCapacity * (1 + ResetsOf(c) + lost) + RefillOf(c) * ticks
    <2>1. /\ Reach(c) \in Nat /\ limit[c] \in Nat /\ limit[c] <= Reach(c)
          /\ ResetsOf(c) \in Nat /\ RefillOf(c) \in Nat /\ lost \in Nat /\ ticks \in Nat
      BY ReachTypes, FoundTypes DEF Admissions
    <2>2. P \in Nat /\ R \in Nat
      <3>1. Cardinality(PassedOf(c)) \in Nat
        BY FS_CardinalityType DEF Admissions, Finite
      <3>2. 1 + ResetsOf(c) + lost \in Nat
        BY <2>1
      <3>3. LimitCapacity * (1 + ResetsOf(c) + lost) \in Nat /\ RefillOf(c) * ticks \in Nat
        BY <2>1, <3>2, ConstantTypes, Products
      <3> QED
        BY <3>1, <3>3, ConstantTypes, Products
    <2>3. P + Reach(c) <= R
      BY DEF Admissions, ReachBounded
    <2> HIDE DEF P, R
    <2>4. P + limit[c] <= R
      BY <2>1, <2>2, <2>3
    <2> QED
      BY <2>4 DEF P, R
  <1> QED
    BY InitTyped, NextTyped, AdmissionsInit, AdmissionsNext, <1>1, PTL DEF Spec

-----------------------------------------------------------------------------
(* The limiter is a bucket. *)

LEMMA LimiterInit ==
    Init => \A c \in Clients \ Keys : LimiterBucket(c)!Init
  <1> SUFFICES ASSUME Init, NEW c \in Clients PROVE LimiterBucket(c)!Init
    OBVIOUS
  <1>1. Admissions /\ PassedOf(c) = {}
    BY AdmissionsInit DEF Init, PassedOf, Passed
  <1>2. Token * Cardinality(PassedOf(c)) = 0
    BY <1>1, FS_EmptySet, ConstantTypes
  <1> QED
    BY <1>2 DEF Init, LimiterBucket!Init

\* What a step does to the bucket of a client that only the limiter uses.
LEMMA PrivateStep ==
    ASSUME Typed, [Next]_vars, NEW c \in Clients, c \notin Keys,
           ~\E q \in Requests : Admits(q, c)
    PROVE  \/ limit'[c] \in 0 .. limit[c] /\ faults' = faults + 1 /\ lost' = lost
           \/ UNCHANGED <<limit[c], lost, faults>>
           \/ limit'[c] = Capped(limit[c] + LimitRate, LimitCapacity) /\ UNCHANGED <<lost, faults>>
           \/ limit'[c] = LimitCapacity /\ lost' = lost + 1 /\ faults' = faults + 1
  <1>1. CASE \E q \in Requests : Moves(q)
    <2>1. PICK q \in Requests : Moves(q)
      BY <1>1
    <2>2. limit'[c] \in 0 .. limit[c] /\ (limit'[c] = limit[c] \/ faults' = faults + 1)
      BY <2>1, PrivateMoves
    <2>3. lost' = lost /\ faults' \in {faults, faults + 1}
      BY <2>1, StepCalls
    <2> QED
      BY <2>2, <2>3
  <1>2. CASE Tick
    BY <1>2 DEF Tick, NoFault
  <1>3. CASE RedisLosesBuckets
    BY <1>3 DEF RedisLosesBuckets, Fault
  <1>4. CASE (\E q \in Requests : \E o \in Asked : Receive(q, o))
             \/ Shutdown \/ Exit \/ ForcedExit \/ UNCHANGED vars
    BY <1>4 DEF Receive, Shutdown, Exit, ForcedExit, Becomes, NoFault, vars, bucketVars
  <1> QED
    BY <1>1, <1>2, <1>3, <1>4 DEF Next, Moves

\* A step of the server is one of the bucket of each client, or none.
LEMMA LimiterNext ==
    Typed /\ Finite /\ [Next]_vars
        => \A c \in Clients \ Keys : [LimiterBucket(c)!Next]_(LimiterBucket(c)!vars)
  <1> SUFFICES ASSUME Typed, Finite, [Next]_vars, NEW c \in Clients \ Keys
               PROVE  [LimiterBucket(c)!Next]_(LimiterBucket(c)!vars)
    OBVIOUS
  <1> USE DEF LimiterBucket!vars, LimiterBucket!Next, LimiterBucket!Take,
              LimiterBucket!Refill, LimiterBucket!Lose, LimiterBucket!Slip,
              LimiterBucket!Capped
  <1> DEFINE n == Cardinality(PassedOf(c))
             m == Cardinality(PassedOf(c)')
  <1>1. n \in Nat /\ m \in Nat /\ IsFiniteSet(PassedOf(c))
    BY FiniteNext, FS_CardinalityType DEF Finite
  <1>2. Token \in Nat \ {0}
    BY ConstantTypes
  <1>3. CASE \E q \in Requests : Admits(q, c)
    <2>1. m = n + 1
      BY <1>1, <1>3, PassedStep, FS_AddElement
    <2>2. Token * m = Token * n + Token
      BY <1>1, <1>2, <2>1, Products
    <2>3. limit[c] >= Token /\ limit'[c] = limit[c] - Token /\ UNCHANGED <<lost, faults>>
      BY <1>3, AdmitStep
    <2>4. LimiterBucket(c)!Take(Token)
      BY <2>2, <2>3
    <2> QED
      BY <2>4
  <1>4. CASE ~\E q \in Requests : Admits(q, c)
    <2>1. (Token * n)' = Token * n
      BY <1>4, PassedStep
    <2>2. CASE limit'[c] \in 0 .. limit[c] /\ faults' = faults + 1 /\ lost' = lost
      <3>1. LimiterBucket(c)!Slip
        BY <2>1, <2>2
      <3> QED
        BY <3>1
    <2>3. CASE UNCHANGED <<limit[c], lost, faults>>
      BY <2>1, <2>3
    <2>4. CASE /\ limit'[c] = Capped(limit[c] + LimitRate, LimitCapacity)
               /\ UNCHANGED <<lost, faults>>
      <3>1. LimiterBucket(c)!Refill
        BY <2>1, <2>4 DEF Capped
      <3> QED
        BY <3>1
    <2>5. CASE limit'[c] = LimitCapacity /\ lost' = lost + 1 /\ faults' = faults + 1
      <3>1. LimiterBucket(c)!Lose
        BY <2>1, <2>5
      <3> QED
        BY <3>1
    <2> QED
      BY <1>4, <2>2, <2>3, <2>4, <2>5, PrivateStep
  <1> QED
    BY <1>3, <1>4

\* The requests that reach handlers are the tokens granted by an eager bucket
\* for each client whose bucket no request names to the API: every step of the
\* server takes, refuses, refills or loses as that bucket may.
THEOREM LimiterImplements == Spec => LimiterIsBucket
  <1>1. Admissions => Finite
    BY DEF Admissions
  <1>2. Spec => [](Typed /\ Finite)
    BY <1>1, InitTyped, NextTyped, AdmissionsInit, AdmissionsNext, PTL DEF Spec
  <1>3. Typed /\ Finite /\ [Next]_vars
          => [\A c \in Clients \ Keys : [LimiterBucket(c)!Next]_(LimiterBucket(c)!vars)]_vars
    BY LimiterNext
  <1> QED
    BY <1>2, <1>3, LimiterInit, PTL DEF Spec, LimiterIsBucket

-----------------------------------------------------------------------------
(* Answers that grant. *)

\* Before it is answered a request has no reply, and only the loop of a bulk
\* request has attempts.
Silent ==
    \A q \in Requests :
        /\ stage[q] # "done" => reply[q] = "none"
        /\ results[q] # <<>> => op[q].route = "bulk"

LEMMA SilentInit == Init => Silent
  BY DEF Init, Silent

LEMMA SilentNext == IInv /\ Silent /\ [Next]_vars => Silent'
  <1> SUFFICES ASSUME IInv, Silent, [Next]_vars PROVE Silent'
    OBVIOUS
  <1>t. /\ op \in [Requests -> Asked \cup {NoOp}]
        /\ stage \in [Requests -> Stages]
        /\ reply \in [Requests -> Replies]
        /\ results \in [Requests -> Seq(Results)]
    BY DEF IInv, Typed, TypeOK
  <1> DEFINE Quiet(p) == /\ stage[p] # "done" => reply[p] = "none"
                         /\ results[p] # <<>> => op[p].route = "bulk"
  <1>s. \A p \in Requests : Quiet(p)
    BY DEF Silent
  <1>1. ASSUME NEW q \in Requests, NEW o \in Asked, Receive(q, o)
        PROVE  \A p \in Requests : Quiet(p)'
    <2>1. /\ stage[q] = "new" /\ results' = results
          /\ \A p \in Requests : p # q =>
                op'[p] = op[p] /\ stage'[p] = stage[p] /\ reply'[p] = reply[p]
      BY <1>t, <1>1 DEF Receive, Answer, At
    <2>2. results[q] = <<>>
      BY <2>1 DEF IInv, Unhandled
    <2>3. stage'[q] = "done" \/ reply'[q] = reply[q]
      BY <1>t, <1>1 DEF Receive, Answer
    <2> QED
      BY <1>s, <2>1, <2>2, <2>3
  <1>2. ASSUME NEW q \in Requests, Moves(q)
        PROVE  \A p \in Requests : Quiet(p)'
    <2>1. op' = op /\ stage[q] \in {"limiter", "handler"}
      BY <1>2, StepMoves DEF LimiterAllows, Limits, Handles, At
    <2>2. /\ \A p \in Requests : p # q => stage'[p] = stage[p] /\ reply'[p] = reply[p]
          /\ stage'[q] = "done" \/ reply'[q] = reply[q]
      BY <1>2, <1>t, StepMoves DEF LimiterAllows, Limits, Handles, Answer, At
    <2>3. \/ results' = results
          \/ op[q].route = "bulk" /\ \A p \in Requests : p # q => results'[p] = results[p]
      BY <1>t, <1>2, StepCalls DEF Attempt
    <2> QED
      BY <1>s, <2>1, <2>2, <2>3
  <1>3. ASSUME Tick \/ RedisLosesBuckets \/ Shutdown \/ Exit \/ ForcedExit \/ UNCHANGED vars
        PROVE  \A p \in Requests : Quiet(p)'
    BY <1>s, <1>3, OutsideSteps DEF requestVars
  <1>4. \A p \in Requests : Quiet(p)'
    BY <1>1, <1>2, <1>3 DEF Next, Moves
  <1> QED
    BY <1>4 DEF Silent

-----------------------------------------------------------------------------
(* The parts that were granted. *)

\* What of bucket k request q was told it got.
Share(q, k) == IF Uses(q, k) THEN {q} \X Got(q) ELSE {}

LEMMA Shares ==
    ASSUME NEW k
    PROVE  /\ \A x : x \in Granted(k) <=> \E q \in Requests : x \in Share(q, k)
           /\ \A x : x \in Granted(k)' <=> \E q \in Requests : x \in Share(q, k)'
  BY DEF Granted, Share

LEMMA SameShares ==
    ASSUME NEW k, \A q \in Requests : Share(q, k)' = Share(q, k)
    PROVE  Granted(k)' = Granted(k)
  BY Shares

\* The share of one request grows by n parts of a new attempt.
LEMMA MoreParts ==
    ASSUME NEW k, IsFiniteSet(Granted(k)),
           NEW q \in Requests, NEW i, NEW n \in Nat,
           \A p \in Requests : p # q => Share(p, k)' = Share(p, k),
           Share(q, k)' = Share(q, k) \cup ({q} \X ({i} \X (1 .. n))),
           \A g \in Got(q) : g[1] # i
    PROVE  /\ IsFiniteSet(Granted(k)')
           /\ Cardinality(Granted(k)') = Cardinality(Granted(k)) + n
  <1> DEFINE new == {q} \X ({i} \X (1 .. n))
  <1>1. Granted(k)' = Granted(k) \cup new
    BY Shares
  <1>2. Granted(k) \cap new = {}
    <2> SUFFICES ASSUME NEW x \in Granted(k), x \in new PROVE FALSE
      OBVIOUS
    <2>1. PICK p \in Requests : x \in Share(p, k)
      BY Shares
    <2>2. PICK g \in Got(p) : x = <<p, g>>
      <3>1. x \in {p} \X Got(p)
        BY <2>1 DEF Share
      <3> HIDE DEF Got
      <3> QED
        BY <3>1
    <2>3. PICK h \in {i} \X (1 .. n) : x = <<q, h>>
      OBVIOUS
    <2>4. PICK j \in 1 .. n : h = <<i, j>>
      OBVIOUS
    <2> QED
      BY <2>2, <2>3, <2>4
  <1>3. IsFiniteSet(new) /\ Cardinality(new) = n
    <2>1. IsFiniteSet(1 .. n) /\ Cardinality(1 .. n) = n
      BY FS_Interval
    <2>2. ASSUME NEW x, NEW S, IsFiniteSet(S), Cardinality(S) = n
          PROVE  IsFiniteSet({x} \X S) /\ Cardinality({x} \X S) = n
      <3>1. IsFiniteSet({x}) /\ Cardinality({x}) = 1
        BY FS_Singleton
      <3>2. /\ IsFiniteSet({x} \X S)
            /\ Cardinality({x} \X S) = Cardinality({x}) * Cardinality(S)
        BY <2>2, <3>1, FS_Product, Zenon
      <3> QED
        BY <2>2, <3>1, <3>2
    <2>3. IsFiniteSet({i} \X (1 .. n)) /\ Cardinality({i} \X (1 .. n)) = n
      BY <2>1, <2>2
    <2> QED
      BY <2>2, <2>3
  <1>4. Cardinality(Granted(k)) \in Nat
    BY FS_CardinalityType
  <1> HIDE DEF new
  <1>5. /\ IsFiniteSet(Granted(k) \cup new)
        /\ Cardinality(Granted(k) \cup new)
             = Cardinality(Granted(k)) + Cardinality(new) - Cardinality(Granted(k) \cap new)
    BY <1>3, FS_Union
  <1>6. Cardinality(Granted(k) \cap new) = 0
    BY <1>2, FS_EmptySet
  <1>7. Cardinality(Granted(k) \cup new) = Cardinality(Granted(k)) + n
    BY <1>3, <1>4, <1>5, <1>6
  <1> QED
    BY <1>1, <1>5, <1>7

FiniteGrants == \A k \in Keys : IsFiniteSet(Granted(k))

Ledger == IInv /\ Silent /\ Shared /\ FiniteGrants

\* Bucket k grants n parts to an answer.
Grants(k, n) ==
    /\ IsFiniteSet(Granted(k)')
    /\ GrantedOf(k)' = GrantedOf(k) + n
    /\ api[k] >= n /\ api'[k] = api[k] - n
    /\ UNCHANGED <<resets, lost, faults>>

\* A take leaves the rest in its bucket, and every other key alone.
LEMMA TakeStep ==
    ASSUME Typed, NEW j \in Keys, NEW n \in Nat, Take(j, n), NEW k \in Keys
    PROVE  /\ k = j => api[k] >= n /\ api'[k] = api[k] - n
           /\ k # j => api'[k] = api[k]
  <1>1. /\ api[j] - n \in Nat /\ api[j] - n <= ApiCapacity /\ ApiCapacity \in Nat
        /\ Writes(j, api[j] - n) /\ api[j] >= n
    BY FoundTypes, ConstantTypes DEF Take
  <1>2. Capped(api[j] - n, ApiCapacity) = api[j] - n
    BY <1>1, CappedTypes
  <1> QED
    BY <1>1, <1>2, WritesTypes

\* The shares of all requests but q are what they were.
LEMMA OtherShares ==
    ASSUME NEW k, NEW q \in Requests, UNCHANGED op,
           \A p \in Requests : p # q => reply'[p] = reply[p] /\ results'[p] = results[p]
    PROVE  \A p \in Requests : p # q => Share(p, k)' = Share(p, k)
  BY DEF Share, Uses, Got

LEMMA ConsumeGrants ==
    ASSUME Ledger, NEW q \in Requests, CallsBucket(q, {"consume"}), NoFault,
           Take(op[q].key, op[q].amount), Answer(q, "ok"),
           UNCHANGED <<op, results, resets, lost>>, NEW k \in Keys
    PROVE  \/ \E n \in Amounts : Grants(k, n)
           \/ UNCHANGED <<Granted(k), api[k], resets, lost, faults>>
  <1>t. /\ stage \in [Requests -> Stages] /\ reply \in [Requests -> Replies]
        /\ api \in [Keys -> 0 .. ApiCapacity]
    BY DEF Ledger, IInv, Typed, TypeOK
  <1>1. stage[q] = "handler" /\ op[q].route = "consume" /\ ~Invalid(q)
    BY DEF CallsBucket, Calls, At
  <1>2. op[q].key \in Keys /\ op[q].amount \in Amounts /\ op[q].amount \in Nat
    BY <1>1, Input, ConstantTypes DEF Ledger, IInv, BucketRoutes
  <1>3. \A p \in Requests : p # q => Share(p, k)' = Share(p, k)
    BY <1>t, OtherShares DEF Answer
  <1>4. CASE op[q].key = k
    <2>1. Got(q) = {} \X (1 .. Token)
      BY <1>1 DEF Got, Ledger, Silent
    <2>2. Got(q)' = {0} \X (1 .. op[q].amount)
      BY <1>1, <1>t DEF Got, Answer
    <2>3. Uses(q, k) /\ Uses(q, k)'
      BY <1>1, <1>4 DEF Uses
    <2>4. /\ Share(q, k)' = Share(q, k) \cup ({q} \X ({0} \X (1 .. op[q].amount)))
          /\ \A g \in Got(q) : g[1] # 0
      BY <2>1, <2>2, <2>3 DEF Share
    <2>5. op[q].amount \in Nat /\ IsFiniteSet(Granted(k))
      BY <1>2, ConstantTypes DEF Ledger, FiniteGrants
    <2>6. /\ IsFiniteSet(Granted(k)')
          /\ Cardinality(Granted(k)') = Cardinality(Granted(k)) + op[q].amount
      BY <1>3, <2>4, <2>5, MoreParts
    <2>7. Grants(k, op[q].amount)
      BY <1>2, <1>4, <2>6, TakeStep DEF Grants, GrantedOf, NoFault, Ledger, IInv
    <2> QED
      BY <1>2, <2>7
  <1>5. CASE op[q].key # k
    <2>1. Share(q, k)' = Share(q, k)
      BY <1>5 DEF Share, Uses
    <2>2. Granted(k)' = Granted(k)
      BY <1>3, <2>1, SameShares
    <2> QED
      BY <1>2, <1>5, <2>2, TakeStep DEF NoFault, Ledger, IInv
  <1> QED
    BY <1>4, <1>5

LEMMA BulkGrants ==
    ASSUME Ledger, NEW q \in Requests, CallsBucket(q, {"bulk"}), NoFault,
           Take(op[q].key, Token), Attempt(q, "allowed"), NEW k \in Keys
    PROVE  \/ Grants(k, Token)
           \/ UNCHANGED <<Granted(k), api[k], resets, lost, faults>>
  <1>t. /\ results \in [Requests -> Seq(Results)] /\ api \in [Keys -> 0 .. ApiCapacity]
    BY DEF Ledger, IInv, Typed, TypeOK
  <1>1. op[q].route = "bulk" /\ ~Invalid(q) /\ stage[q] = "handler"
    BY DEF CallsBucket, Calls, At
  <1>2. op[q].key \in Keys
    BY <1>1, Input DEF Ledger, IInv, BucketRoutes
  <1>3. \A p \in Requests : p # q => Share(p, k)' = Share(p, k)
    BY <1>t, OtherShares DEF Attempt
  <1>4. CASE op[q].key = k
    <2> DEFINE n == Len(results[q])
    <2>1. /\ n \in Nat /\ DOMAIN results[q] = 1 .. n
          /\ results'[q] = Append(results[q], "allowed")
      BY <1>t DEF Attempt
    <2>2. /\ DOMAIN results'[q] = 1 .. n + 1
          /\ results'[q][n + 1] = "allowed"
          /\ \A i \in 1 .. n : results'[q][i] = results[q][i]
      BY <1>t, <2>1
    <2>3. {i \in DOMAIN results'[q] : results'[q][i] = "allowed"}
            = {i \in DOMAIN results[q] : results[q][i] = "allowed"} \cup {n + 1}
      BY <2>1, <2>2
    <2>4. /\ Got(q) = {i \in DOMAIN results[q] : results[q][i] = "allowed"} \X (1 .. Token)
          /\ Got(q)' = {i \in DOMAIN results'[q] : results'[q][i] = "allowed"} \X (1 .. Token)
      BY <1>1 DEF Got, Attempt
    <2>5. Got(q)' = Got(q) \cup ({n + 1} \X (1 .. Token))
      BY <2>3, <2>4
    <2>6. Uses(q, k) /\ Uses(q, k)'
      BY <1>1, <1>4 DEF Uses, Attempt
    <2>7. /\ Share(q, k)' = Share(q, k) \cup ({q} \X ({n + 1} \X (1 .. Token)))
      BY <2>5, <2>6 DEF Share
    <2>8. \A g \in Got(q) : g[1] # n + 1
      BY <2>1, <2>4
    <2>9. Token \in Nat /\ IsFiniteSet(Granted(k))
      BY ConstantTypes DEF Ledger, FiniteGrants
    <2>10. /\ IsFiniteSet(Granted(k)')
           /\ Cardinality(Granted(k)') = Cardinality(Granted(k)) + Token
      BY <1>3, <2>7, <2>8, <2>9, MoreParts
    <2> QED
      BY <1>2, <1>4, <2>9, <2>10, TakeStep
      DEF Grants, GrantedOf, NoFault, Attempt, Ledger, IInv
  <1>5. CASE op[q].key # k
    <2>1. Share(q, k)' = Share(q, k)
      BY <1>5 DEF Share, Uses, Attempt
    <2>2. Granted(k)' = Granted(k)
      BY <1>3, <2>1, SameShares
    <2> QED
      BY <1>2, <1>5, <2>2, TakeStep, ConstantTypes DEF NoFault, Attempt, Ledger, IInv
  <1> QED
    BY <1>4, <1>5

-----------------------------------------------------------------------------
(* The buckets of the API are buckets. *)

LEMMA NothingShared ==
    ASSUME Ledger, NEW q \in Requests, GetsNothing(q), NEW k
    PROVE  Granted(k)' = Granted(k)
  <1>t. /\ reply \in [Requests -> Replies] /\ results \in [Requests -> Seq(Results)]
    BY DEF Ledger, IInv, Typed, TypeOK
  <1>1. \A p \in Requests : p # q => Share(p, k)' = Share(p, k)
    BY <1>t, OtherShares DEF GetsNothing, Answer, Attempt
  <1>2. Got(q)' = Got(q)
    <2>1. CASE \E r \in {"refused", "error"} : Attempt(q, r)
      <3>1. PICK r \in {"refused", "error"} : Attempt(q, r)
        BY <2>1
      <3> DEFINE n == Len(results[q])
      <3>2. /\ n \in Nat /\ DOMAIN results[q] = 1 .. n
            /\ results'[q] = Append(results[q], r)
        BY <1>t, <3>1 DEF Attempt
      <3>3. /\ DOMAIN results'[q] = 1 .. n + 1 /\ results'[q][n + 1] = r
            /\ \A i \in 1 .. n : results'[q][i] = results[q][i]
        BY <1>t, <3>2
      <3>4. {i \in DOMAIN results'[q] : results'[q][i] = "allowed"}
              = {i \in DOMAIN results[q] : results[q][i] = "allowed"}
        BY <3>2, <3>3
      <3> QED
        BY <3>1, <3>4 DEF Got, Attempt, GetsNothing
    <2>2. CASE UNCHANGED <<reply, results>>
      BY <2>2 DEF Got, GetsNothing
    <2>3. CASE /\ \E a \in Replies : Answer(q, a) /\ (op[q].route = "consume" => a # "ok")
               /\ UNCHANGED results
      <3>1. reply[q] = "none"
        BY DEF Ledger, Silent, GetsNothing
      <3> QED
        BY <1>t, <2>3, <3>1 DEF Got, Answer, GetsNothing
    <2> QED
      BY <2>1, <2>2, <2>3 DEF GetsNothing
  <1>3. Uses(q, k)' <=> Uses(q, k)
    BY DEF Uses, GetsNothing
  <1>4. Share(q, k)' = Share(q, k)
    BY <1>2, <1>3 DEF Share
  <1> QED
    BY <1>1, <1>4, SameShares

LEMMA ReceivedShares ==
    ASSUME Ledger, NEW q \in Requests, NEW o \in Asked, Receive(q, o), NEW k
    PROVE  Granted(k)' = Granted(k)
  <1>t. /\ op \in [Requests -> Asked \cup {NoOp}] /\ reply \in [Requests -> Replies]
    BY DEF Ledger, IInv, Typed, TypeOK
  <1>1. /\ stage[q] = "new" /\ results' = results
        /\ \A p \in Requests : p # q => op'[p] = op[p] /\ reply'[p] = reply[p]
    BY <1>t DEF Receive, Answer, At
  <1>2. results[q] = <<>> /\ reply[q] = "none"
    BY <1>1 DEF Ledger, IInv, Unhandled, Silent
  <1>3. reply'[q] # "ok"
    BY <1>t, <1>2 DEF Receive, Answer
  <1>4. Got(q) = {} \X (1 .. Token) /\ Got(q)' = {} \X (1 .. Token)
    BY <1>1, <1>2, <1>3 DEF Got
  <1>5. Share(q, k) = {} /\ Share(q, k)' = {}
    BY <1>4 DEF Share
  <1>6. \A p \in Requests : p # q => Share(p, k)' = Share(p, k)
    BY <1>1 DEF Share, Uses, Got
  <1> QED
    BY <1>5, <1>6, SameShares

LEMMA OutsideShares ==
    ASSUME Tick \/ RedisLosesBuckets \/ Shutdown \/ Exit \/ ForcedExit \/ UNCHANGED vars,
           NEW k \in Keys
    PROVE  Granted(k)' = Granted(k)
  <1>1. UNCHANGED <<op, reply, results>>
    BY OutsideSteps DEF requestVars
  <1> QED
    BY <1>1, SameShares DEF Share, Uses, Got

-----------------------------------------------------------------------------
(* The buckets of the API are buckets. *)

LEMMA GrantsTyped ==
    ASSUME Ledger, NEW k \in Keys
    PROVE  /\ Typed /\ Shared
           /\ api[k] \in Nat /\ resets[k] \in Nat /\ lost \in Nat /\ faults \in Nat
           /\ IsFiniteSet(Granted(k)) /\ GrantedOf(k) \in Nat
           /\ Amounts \subseteq Nat /\ Token \in Nat /\ ApiCapacity \in Nat /\ ApiRate \in Nat
  <1>1. Typed /\ Shared /\ IsFiniteSet(Granted(k))
    BY DEF Ledger, IInv, FiniteGrants
  <1> QED
    BY <1>1, FoundTypes, ConstantTypes, FS_CardinalityType DEF GrantedOf

\* What a request that grants nothing does to the bucket of key k, if it is not
\* the bucket of a client: what it takes goes with a lost answer.
LEMMA KeyStep ==
    ASSUME Typed, NEW q \in Requests, NEW k \in Keys, k \notin Clients,
           faults' \in {faults, faults + 1},
           \/ LimiterAllows(q)
           \/ Client(q) \in Clients /\ Lowers(Client(q), limit[Client(q)])
           \/ \E j \in Keys : Lowers(j, api[j]) \/ FillUp(j)
           \/ LeavesBuckets
    PROVE  \/ api'[k] \in 0 .. api[k] /\ faults' = faults + 1 /\ resets'[k] = resets[k]
           \/ UNCHANGED <<api[k], resets[k]>>
           \/ api'[k] = ApiCapacity /\ resets'[k] = resets[k] + 1
  <1>n. /\ api[k] \in Nat /\ api[k] <= ApiCapacity /\ ApiCapacity \in Nat /\ Token \in Nat
        /\ resets \in [Keys -> Nat]
    BY FoundTypes, ConstantTypes
  <1>o. ASSUME NEW b, NEW n \in Nat, Writes(b, n), b # k
        PROVE  api'[k] = api[k]
    BY <1>o, WritesTypes
  <1>1. CASE LimiterAllows(q)
    <2>1. /\ Client(q) \in Clients /\ Writes(Client(q), limit[Client(q)] - Token)
          /\ limit[Client(q)] >= Token /\ resets' = resets
      BY <1>1, Input DEF LimiterAllows, LimiterTakes, At
    <2>2. limit[Client(q)] - Token \in Nat
      BY <1>n, <2>1, FoundTypes
    <2> QED
      BY <1>o, <2>1, <2>2
  <1>2. ASSUME NEW b, NEW found \in Nat, Lowers(b, found), b # k
        PROVE  api'[k] = api[k] /\ resets' = resets
    <2>1. PICK n \in 0 .. found : Writes(b, n)
      BY <1>2 DEF Lowers
    <2> QED
      BY <1>2, <1>o, <2>1 DEF Lowers
  <1>3. CASE Client(q) \in Clients /\ Lowers(Client(q), limit[Client(q)])
    BY <1>2, <1>3, FoundTypes
  <1>4. CASE Lowers(k, api[k])
    <2>1. PICK n \in 0 .. api[k] : Writes(k, n) /\ (n = api[k] \/ faults' = faults + 1)
      BY <1>4 DEF Lowers
    <2>2. n \in Nat /\ n <= ApiCapacity
      BY <1>n
    <2>3. api'[k] = Capped(n, ApiCapacity)
      BY <2>1, <2>2, WritesTypes
    <2>4. api'[k] = n
      BY <1>n, <2>2, <2>3, CappedTypes
    <2> QED
      BY <1>4, <1>n, <2>1, <2>4 DEF Lowers
  <1>5. ASSUME NEW j \in Keys, FillUp(j)
        PROVE  \/ UNCHANGED <<api[k], resets[k]>>
               \/ api'[k] = ApiCapacity /\ resets'[k] = resets[k] + 1
    <2>1. /\ api'[k] = IF k = j THEN Capped(ApiCapacity, ApiCapacity) ELSE api[k]
          /\ resets' = [resets EXCEPT ![j] = @ + 1]
      BY <1>5, <1>n, WritesTypes DEF FillUp
    <2>2. Capped(ApiCapacity, ApiCapacity) = ApiCapacity
      BY <1>n DEF Capped
    <2> QED
      BY <1>n, <2>1, <2>2
  <1>6. CASE \E j \in Keys : Lowers(j, api[j]) \/ FillUp(j)
    BY <1>2, <1>4, <1>5, <1>6, FoundTypes
  <1>7. CASE LeavesBuckets
    BY <1>7 DEF LeavesBuckets, Unwritten
  <1> QED
    BY <1>1, <1>3, <1>6, <1>7

LEMMA AdmittedShares ==
    ASSUME Ledger, NEW q \in Requests, LimiterAllows(q), NEW k
    PROVE  Granted(k)' = Granted(k)
  <1>1. GetsNothing(q)
    BY DEF LimiterAllows, At, GetsNothing
  <1> QED
    BY <1>1, NothingShared

\* A step of the server is one of each bucket of the API, or none, if the
\* limiter does not use the bucket, too.
LEMMA ApiNext ==
    ASSUME Ledger, [Next]_vars, NEW k \in Keys, k \notin Clients
    PROVE  [ApiBucket(k)!Next]_(ApiBucket(k)!vars)
  <1> USE DEF ApiBucket!vars, ApiBucket!Next, ApiBucket!Refill, ApiBucket!Lose,
              ApiBucket!Reset, ApiBucket!Slip, ApiBucket!Capped
  <1>t. /\ Typed /\ api[k] \in Nat /\ resets[k] \in Nat /\ lost \in Nat /\ faults \in Nat
        /\ Amounts \subseteq Nat /\ Token \in Nat
    BY GrantsTyped
  <1>1. ASSUME NEW n \in Amounts \cup {Token}, Grants(k, n)
        PROVE  [ApiBucket(k)!Next]_(ApiBucket(k)!vars)
    <2>1. ApiBucket(k)!Take(n)
      BY <1>1 DEF Grants, ApiBucket!Take
    <2> QED
      BY <2>1
  <1>2. ASSUME Granted(k)' = Granted(k), UNCHANGED <<api[k], resets[k], lost, faults>>
        PROVE  [ApiBucket(k)!Next]_(ApiBucket(k)!vars)
    BY <1>t, <1>2 DEF GrantedOf
  <1>3. CASE \E q \in Requests : GrantsAmount(q) \/ GrantsToken(q)
    BY <1>1, <1>2, <1>3, ConsumeGrants, BulkGrants DEF GrantsAmount, GrantsToken
  <1>4. ASSUME Granted(k)' = Granted(k), lost' = lost, faults' \in {faults, faults + 1},
               \/ api'[k] \in 0 .. api[k] /\ faults' = faults + 1 /\ resets'[k] = resets[k]
               \/ UNCHANGED <<api[k], resets[k]>>
               \/ api'[k] = ApiCapacity /\ resets'[k] = resets[k] + 1
        PROVE  [ApiBucket(k)!Next]_(ApiBucket(k)!vars)
    <2>1. GrantedOf(k)' = GrantedOf(k)
      BY <1>4 DEF GrantedOf
    <2>2. CASE api'[k] \in 0 .. api[k] /\ faults' = faults + 1 /\ resets'[k] = resets[k]
      <3>1. ApiBucket(k)!Slip
        BY <1>t, <1>4, <2>1, <2>2
      <3> QED
        BY <3>1
    <2>3. CASE UNCHANGED <<api[k], resets[k]>>
      <3>1. api[k] \in 0 .. api[k]
        BY <1>t
      <3>2. ApiBucket(k)!Slip \/ UNCHANGED ApiBucket(k)!vars
        BY <1>4, <2>1, <2>3, <3>1
      <3> QED
        BY <3>2
    <2>4. CASE api'[k] = ApiCapacity /\ resets'[k] = resets[k] + 1
      <3>1. (resets[k] + lost)' = resets[k] + lost + 1
        BY <1>t, <1>4, <2>4
      <3>2. ApiBucket(k)!Reset \/ ApiBucket(k)!Lose
        BY <1>4, <2>1, <2>4, <3>1
      <3> QED
        BY <3>2
    <2> QED
      BY <1>4, <2>2, <2>3, <2>4
  <1>5. CASE \E q \in Requests : Moves(q)
    <2>1. PICK q \in Requests : Moves(q)
      BY <1>5
    <2>2. lost' = lost /\ faults' \in {faults, faults + 1}
      BY <2>1, StepCalls
    <2>3. CASE LimiterAllows(q)
      <3>1. Granted(k)' = Granted(k)
        BY <2>3, AdmittedShares
      <3> QED
        BY <1>t, <1>4, <2>2, <2>3, <3>1, KeyStep
    <2>4. CASE /\ GetsNothing(q)
               /\ \/ Client(q) \in Clients /\ Lowers(Client(q), limit[Client(q)])
                  \/ \E j \in Keys : Lowers(j, api[j]) \/ FillUp(j)
                  \/ LeavesBuckets
      <3>1. Granted(k)' = Granted(k)
        BY <2>4, NothingShared
      <3> QED
        BY <1>t, <1>4, <2>2, <2>4, <3>1, KeyStep
    <2> QED
      BY <1>t, <1>3, <2>1, <2>3, <2>4, StepBuckets
  <1>6. CASE Tick
    <2>1. Granted(k)' = Granted(k) /\ GrantedOf(k)' = GrantedOf(k)
      BY <1>6, OutsideShares DEF GrantedOf
    <2>2. ApiBucket(k)!Refill
      BY <1>6, <2>1 DEF Tick, Capped, NoFault
    <2> QED
      BY <2>2
  <1>7. CASE RedisLosesBuckets
    <2>1. Granted(k)' = Granted(k) /\ GrantedOf(k)' = GrantedOf(k)
      BY <1>7, OutsideShares DEF GrantedOf
    <2>2. ApiBucket(k)!Lose
      BY <1>t, <1>7, <2>1 DEF RedisLosesBuckets, Fault
    <2> QED
      BY <2>2
  <1>8. CASE Shutdown \/ Exit \/ ForcedExit \/ UNCHANGED vars
    <2>1. Granted(k)' = Granted(k)
      BY <1>8, OutsideShares
    <2>2. UNCHANGED <<api, resets, lost, faults>>
      BY <1>8 DEF Shutdown, Exit, ForcedExit, Becomes, bucketVars, vars, NoFault
    <2> QED
      BY <1>2, <2>1, <2>2
  <1>9. CASE \E q \in Requests : \E o \in Asked : Receive(q, o)
    <2>1. PICK q \in Requests : \E o \in Asked : Receive(q, o)
      BY <1>9
    <2>2. PICK o \in Asked : Receive(q, o)
      BY <2>1
    <2>3. UNCHANGED <<api, resets, lost, faults>>
      BY <2>2 DEF Receive, bucketVars, NoFault
    <2>4. Granted(k)' = Granted(k)
      BY <2>2, ReceivedShares
    <2> QED
      BY <1>2, <2>3, <2>4
  <1> QED
    BY <1>5, <1>6, <1>7, <1>8, <1>9 DEF Next, Moves

LEMMA GrantsInit == Init => \A k \in Keys : Granted(k) = {} /\ GrantedOf(k) = 0
  <1> SUFFICES ASSUME Init, NEW k \in Keys PROVE Granted(k) = {} /\ GrantedOf(k) = 0
    OBVIOUS
  <1>1. Granted(k) = {}
    BY DEF Init, Granted, Got, Uses, NoOp
  <1> QED
    BY <1>1, FS_EmptySet DEF GrantedOf

LEMMA LedgerInit == Init => Ledger
  BY GrantsInit, FS_EmptySet, InitInv, SilentInit, SharedInit DEF Ledger, FiniteGrants

\* A step of a request grants from one bucket at most; the API finds more in no
\* bucket but one that it fills up.
LEMMA GrantsMove ==
    ASSUME Ledger, NEW q \in Requests, Moves(q), NEW k \in Keys
    PROVE  /\ IsFiniteSet(Granted(k)')
           /\ \/ \E n \in Amounts \cup {Token} : Grants(k, n)
              \/ /\ GrantedOf(k)' = GrantedOf(k)
                 /\ \/ api'[k] \in 0 .. api[k] /\ resets'[k] = resets[k]
                    \/ api'[k] = ApiCapacity /\ resets'[k] = resets[k] + 1
  <1>t. Typed /\ Shared /\ IsFiniteSet(Granted(k))
    BY GrantsTyped
  <1>1. ASSUME Granted(k)' = Granted(k)
        PROVE  /\ IsFiniteSet(Granted(k)')
               /\ GrantedOf(k)' = GrantedOf(k)
               /\ \/ api'[k] \in 0 .. api[k] /\ resets'[k] = resets[k]
                  \/ api'[k] = ApiCapacity /\ resets'[k] = resets[k] + 1
    BY <1>t, <1>1, ApiMoves DEF GrantedOf
  <1>2. ASSUME NEW n \in Amounts \cup {Token}, Grants(k, n) PROVE IsFiniteSet(Granted(k)')
    BY <1>2 DEF Grants
  <1>3. CASE GrantsAmount(q)
    BY <1>1, <1>2, <1>3, ConsumeGrants DEF GrantsAmount
  <1>4. CASE GrantsToken(q)
    BY <1>1, <1>2, <1>4, BulkGrants DEF GrantsToken
  <1>5. CASE GetsNothing(q)
    BY <1>1, <1>5, NothingShared
  <1>6. CASE LimiterAllows(q)
    BY <1>1, <1>6, AdmittedShares
  <1> QED
    BY <1>t, <1>3, <1>4, <1>5, <1>6, StepBuckets

LEMMA LedgerNext == Ledger /\ [Next]_vars => Ledger'
  <1> SUFFICES ASSUME Ledger, [Next]_vars PROVE Ledger'
    OBVIOUS
  <1>1. ASSUME NEW k \in Keys PROVE IsFiniteSet(Granted(k)')
    <2>1. CASE \E q \in Requests : Moves(q)
      BY <2>1, GrantsMove
    <2>2. CASE \E q \in Requests : \E o \in Asked : Receive(q, o)
      BY <2>2, ReceivedShares DEF Ledger, FiniteGrants
    <2>3. CASE Tick \/ RedisLosesBuckets \/ Shutdown \/ Exit \/ ForcedExit \/ UNCHANGED vars
      BY <2>3, OutsideShares DEF Ledger, FiniteGrants
    <2> QED
      BY <2>1, <2>2, <2>3 DEF Next, Moves
  <1>2. FiniteGrants'
    BY <1>1 DEF FiniteGrants
  <1>3. IInv' /\ Silent' /\ Shared'
    BY NextInv, SilentNext, SharedNext DEF Ledger, IInv
  <1> QED
    BY <1>2, <1>3 DEF Ledger

\* Over all requests that use a key which is no client's bucket, bulk requests
\* cut short included, every amount an answer grants is taken of the bucket of
\* that key in the step that grants it, and what else leaves the bucket goes
\* with an answer that was lost.
THEOREM ApiImplements == Spec => ApiIsBucket
  <1>1. Spec => []Ledger
    BY LedgerInit, LedgerNext, PTL DEF Spec
  <1>2. Ledger /\ [Next]_vars
          => [\A k \in Keys \ Clients : [ApiBucket(k)!Next]_(ApiBucket(k)!vars)]_vars
    BY ApiNext
  <1>3. Init => \A k \in Keys \ Clients : ApiBucket(k)!Init
    BY GrantsInit DEF Init, ApiBucket!Init
  <1> QED
    BY <1>1, <1>2, <1>3, PTL DEF Spec, ApiIsBucket

-----------------------------------------------------------------------------
(* What the answers of a key add up to. *)

\* A step moves tokens from the level to the grants or takes them away; it
\* fills the bucket up and is counted; or it refills the bucket by a tick.
LEMMA GrantsAndLevel ==
    ASSUME Ledger, [Next]_vars, NEW k \in Keys
    PROVE  \/ /\ GrantedOf(k)' + api'[k] <= GrantedOf(k) + api[k]
              /\ resets'[k] + lost' = resets[k] + lost /\ ticks' = ticks
           \/ /\ GrantedOf(k)' = GrantedOf(k) /\ api'[k] = ApiCapacity
              /\ resets'[k] + lost' = resets[k] + lost + 1 /\ ticks' = ticks
           \/ /\ GrantedOf(k)' = GrantedOf(k) /\ api'[k] <= api[k] + ApiRate
              /\ resets'[k] + lost' = resets[k] + lost /\ ticks' = ticks + 1
  <1>t. /\ api[k] \in Nat /\ resets[k] \in Nat /\ lost \in Nat /\ GrantedOf(k) \in Nat
        /\ Amounts \subseteq Nat /\ Token \in Nat /\ ApiRate \in Nat /\ ApiCapacity \in Nat
    BY GrantsTyped
  <1>1. ASSUME NEW n \in Amounts \cup {Token}, Grants(k, n)
        PROVE  /\ GrantedOf(k)' + api'[k] <= GrantedOf(k) + api[k]
               /\ resets'[k] + lost' = resets[k] + lost
    BY <1>t, <1>1 DEF Grants
  <1>2. ASSUME Granted(k)' = Granted(k), UNCHANGED <<api, resets, lost>>
        PROVE  /\ GrantedOf(k)' + api'[k] <= GrantedOf(k) + api[k]
               /\ resets'[k] + lost' = resets[k] + lost
    BY <1>t, <1>2 DEF GrantedOf
  <1>3. CASE \E q \in Requests : Moves(q)
    <2>1. PICK q \in Requests : Moves(q)
      BY <1>3
    <2>2. lost' = lost /\ ticks' = ticks
      BY <2>1, StepCalls
    <2>3. CASE \E n \in Amounts \cup {Token} : Grants(k, n)
      BY <1>1, <2>2, <2>3
    <2>4. CASE /\ GrantedOf(k)' = GrantedOf(k)
               /\ \/ api'[k] \in 0 .. api[k] /\ resets'[k] = resets[k]
                  \/ api'[k] = ApiCapacity /\ resets'[k] = resets[k] + 1
      BY <1>t, <2>2, <2>4
    <2> QED
      BY <2>1, <2>3, <2>4, GrantsMove
  <1>4. CASE Tick
    <2>1. GrantedOf(k)' = GrantedOf(k)
      BY <1>4, OutsideShares DEF GrantedOf
    <2>2. api'[k] <= api[k] + ApiRate
      BY <1>t, <1>4 DEF Tick, Capped
    <2> QED
      BY <1>4, <2>1, <2>2 DEF Tick
  <1>5. CASE RedisLosesBuckets
    <2>1. GrantedOf(k)' = GrantedOf(k)
      BY <1>5, OutsideShares DEF GrantedOf
    <2> QED
      BY <1>t, <1>5, <2>1 DEF RedisLosesBuckets
  <1>6. CASE Shutdown \/ Exit \/ ForcedExit \/ UNCHANGED vars
    <2>1. Granted(k)' = Granted(k)
      BY <1>6, OutsideShares
    <2>2. UNCHANGED <<api, resets, lost, ticks>>
      BY <1>6 DEF Shutdown, Exit, ForcedExit, Becomes, bucketVars, vars
    <2> QED
      BY <1>2, <2>1, <2>2
  <1>7. ASSUME NEW q \in Requests, NEW o \in Asked, Receive(q, o)
        PROVE  /\ GrantedOf(k)' + api'[k] <= GrantedOf(k) + api[k]
               /\ resets'[k] + lost' = resets[k] + lost /\ ticks' = ticks
    <2>1. UNCHANGED <<api, resets, lost, ticks>>
      BY <1>7 DEF Receive, bucketVars
    <2> QED
      BY <1>2, <1>7, <2>1, ReceivedShares
  <1> QED
    BY <1>3, <1>4, <1>5, <1>6, <1>7 DEF Next, Moves

LEMMA ApiGrantsNext == Ledger /\ ApiGrantsBounded /\ [Next]_vars => ApiGrantsBounded'
  <1> SUFFICES ASSUME Ledger, ApiGrantsBounded, [Next]_vars, NEW k \in Keys
               PROVE  GrantedOf(k)' + api'[k]
                        <= ApiCapacity * (1 + resets'[k] + lost') + ApiRate * ticks'
    BY DEF ApiGrantsBounded
  <1>1. /\ GrantedOf(k) \in Nat /\ GrantedOf(k)' \in Nat
        /\ api[k] \in Nat /\ api'[k] \in Nat
        /\ resets[k] \in Nat /\ resets'[k] \in Nat /\ lost \in Nat /\ lost' \in Nat
        /\ ticks \in Nat
        /\ ApiCapacity \in Nat /\ ApiRate \in Nat
    BY LedgerNext, ConstantTypes, FS_CardinalityType
    DEF Ledger, IInv, Typed, TypeOK, FiniteGrants, GrantedOf
  <1>2. PICK f, A, B \in Nat :
          /\ f = 1 + resets[k] + lost
          /\ A = ApiCapacity * f /\ B = ApiRate * ticks
    <2>1. 1 + resets[k] + lost \in Nat
      BY <1>1
    <2> QED
      BY <1>1, <2>1, Products
  <1>3. GrantedOf(k) + api[k] <= A + B
    BY <1>2 DEF ApiGrantsBounded
  <1>4. ApiCapacity * (f + 1) = A + ApiCapacity /\ ApiRate * (ticks + 1) = B + ApiRate
    BY <1>1, <1>2, Products
  <1>5. CASE /\ GrantedOf(k)' + api'[k] <= GrantedOf(k) + api[k]
             /\ resets'[k] + lost' = resets[k] + lost /\ ticks' = ticks
    <2>1. resets'[k] + lost' = resets[k] + lost /\ ticks' = ticks
      BY <1>5
    <2>2. 1 + resets'[k] + lost' = f
      BY <1>1, <1>2, <2>1
    <2>3. GrantedOf(k)' + api'[k] <= A + B
      BY <1>1, <1>3, <1>5
    <2> QED
      BY <1>2, <2>1, <2>2, <2>3
  <1>6. CASE /\ GrantedOf(k)' = GrantedOf(k) /\ api'[k] = ApiCapacity
             /\ resets'[k] + lost' = resets[k] + lost + 1 /\ ticks' = ticks
    <2>1. 1 + resets'[k] + lost' = f + 1
      BY <1>1, <1>2, <1>6
    <2>2. GrantedOf(k) + ApiCapacity <= A + ApiCapacity + B
      BY <1>1, <1>3
    <2> QED
      BY <1>2, <1>4, <1>6, <2>1, <2>2
  <1>7. CASE /\ GrantedOf(k)' = GrantedOf(k) /\ api'[k] <= api[k] + ApiRate
             /\ resets'[k] + lost' = resets[k] + lost /\ ticks' = ticks + 1
    <2>1. resets'[k] + lost' = resets[k] + lost
      BY <1>7
    <2>2. 1 + resets'[k] + lost' = f
      BY <1>1, <1>2, <2>1
    <2>3. GrantedOf(k)' + api'[k] <= A + (B + ApiRate)
      BY <1>1, <1>3, <1>7
    <2> QED
      BY <1>2, <1>4, <1>7, <2>2, <2>3
  <1> QED
    BY <1>5, <1>6, <1>7, GrantsAndLevel

\* However many requests consume a key at once, one by one or in bulk, what
\* they are told they got stays within the bursts, the refill and the resets,
\* also when the key is the bucket of a client that the limiter uses.
THEOREM ApiGrantsLimited == Spec => []ApiGrantsBounded
  <1>1. Init => ApiGrantsBounded
    <2> SUFFICES ASSUME Init, NEW k \in Keys
                 PROVE  GrantedOf(k) + api[k]
                          <= ApiCapacity * (1 + resets[k] + lost) + ApiRate * ticks
      BY DEF ApiGrantsBounded
    <2>1. GrantedOf(k) = 0
      BY GrantsInit
    <2>2. api[k] = ApiCapacity /\ resets[k] = 0 /\ lost = 0 /\ ticks = 0
      BY DEF Init
    <2> QED
      BY <2>1, <2>2, ConstantTypes
  <1> QED
    BY <1>1, LedgerInit, LedgerNext, ApiGrantsNext, PTL DEF Spec
=============================================================================
