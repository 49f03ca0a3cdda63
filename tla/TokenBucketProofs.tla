-------------------------- MODULE TokenBucketProofs --------------------------
(***************************************************************************)
(* Theorems about the token bucket, for every capacity, rate, TTL and set  *)
(* of amounts.  Products of a time and the rate are the only arithmetic    *)
(* that the backend does not do by itself; three lemmas say what is used   *)
(* of it, and three more what a write, a tick and a step back of the clock *)
(* do to the level.  The theorems use nothing else of the scripts.         *)
(***************************************************************************)
EXTENDS TokenBucket, TLAPS

-----------------------------------------------------------------------------
(* Products. *)

\* A product of natural numbers is one.
LEMMA ProductIsNat ==
    ASSUME NEW a \in Nat, NEW r \in Nat
    PROVE  a * r \in Nat
  OBVIOUS

\* One tick more adds one rate more.
LEMMA ProductStep ==
    ASSUME NEW a \in Nat, NEW r \in Nat
    PROVE  (a + 1) * r = a * r + r
  OBVIOUS

\* More time never refills less.
LEMMA ProductMonotone ==
    ASSUME NEW a \in Nat, NEW b \in Nat, NEW r \in Nat, a <= b
    PROVE  a * r <= b * r
  <1>1. (b - a) * r >= 0
    BY b - a \in Nat, ProductIsNat
  <1>2. b * r = a * r + (b - a) * r
    OBVIOUS
  <1>3. a * r \in Int /\ (b - a) * r \in Int
    OBVIOUS
  <1> QED
    BY <1>1, <1>2, <1>3

-----------------------------------------------------------------------------
(* The invariant. *)

\* Every write renews the expiry: a key lives a full TTL after its last write.
ExpiryRenewed == present => expires = lastRefill + TTL

\* With l in the bucket at time t the caller refused by r has what it asked
\* for, or will have it when its wait is over.
Nearing(r, l, t) ==
    r.amount <= Capacity =>
        \/ l >= r.amount
        \/ l + (r.retryAfter + 1) * Second * Rate >= r.amount + (t - r.at) * Rate

\* Until somebody takes tokens a refused caller gets nearer to its amount by
\* one rate with every tick, or the bucket already has it.
RefusalKept ==
    refusal # NoRefusal =>
        /\ now >= refusal.at
        /\ present => now >= lastRefill
        /\ Nearing(refusal, Level, now)

IInv == TypeOK /\ ExpiryRenewed /\ GrantBounded /\ RefusalKept

-----------------------------------------------------------------------------
(* What a write, a tick and a step back do to the level. *)

\* More in the bucket is not less when it is full.
LEMMA CappedMonotone ==
    ASSUME NEW m \in Nat, NEW n \in Nat, m <= n
    PROVE  Capped(m) \in 0 .. Capped(n) /\ Capped(n) \in 0 .. Capacity
  BY ParametersAssumption DEF Capped

\* The level is that of a bucket.
LEMMA LevelRange ==
    ASSUME TypeOK
    PROVE  Level \in 0 .. Capacity
  <1>1. Elapsed \in Nat
    BY DEF TypeOK, Elapsed
  <1>2. Elapsed * Rate \in Nat
    BY <1>1, ProductIsNat, ParametersAssumption
  <1> QED
    BY <1>2, ParametersAssumption DEF TypeOK, Level, Capped

\* A script that writes n leaves a bucket with n in it that is not frozen.
LEMMA LevelAfterWrite ==
    ASSUME TypeOK, NEW n \in 0 .. Capacity, Write(n), now' = now
    PROVE  Level' = n /\ ~Frozen' /\ ExpiryRenewed'
  <1>1. Alive' /\ Elapsed' = 0
    BY ParametersAssumption DEF TypeOK, Write, Alive, Elapsed
  <1>2. 0 * Rate = 0
    BY ParametersAssumption
  <1> QED
    BY <1>1, <1>2, ParametersAssumption DEF TypeOK, Write, Level, Capped, Frozen, ExpiryRenewed

\* A tick adds one rate to a bucket that is neither full nor frozen: also when
\* the key expires at it, because the bucket is full by then.
LEMMA LevelAfterTick ==
    ASSUME TypeOK, ExpiryRenewed, now' = now + 1, UNCHANGED bucketVars
    PROVE  /\ Level' = IF Frozen THEN Level ELSE Capped(Level + Rate)
           /\ Frozen' => Frozen
  <1>1. Elapsed \in Nat /\ Elapsed * Rate \in Nat
    BY ProductIsNat, ParametersAssumption DEF TypeOK, Elapsed
  <1>2. CASE ~Alive
    BY <1>2, ParametersAssumption
       DEF TypeOK, bucketVars, Alive, Level, Capped, Frozen
  <1>3. CASE Frozen
    <2>1. Elapsed = 0 /\ Elapsed' = 0
      BY <1>3 DEF TypeOK, bucketVars, Frozen, Elapsed
    <2>2. Alive'
      BY <1>3, ParametersAssumption DEF TypeOK, bucketVars, Frozen, Alive, ExpiryRenewed
    <2> QED
      BY <1>3, <2>1, <2>2 DEF bucketVars, Frozen, Level, Capped
  <1>4. CASE Alive /\ ~Frozen
    <2>1. Elapsed = now - lastRefill /\ Elapsed' = Elapsed + 1 /\ ~Frozen'
      BY <1>4 DEF TypeOK, bucketVars, Frozen, Elapsed, Alive
    <2>2. Elapsed' * Rate = Elapsed * Rate + Rate
      BY <2>1, <1>1, ProductStep, ParametersAssumption
    <2>3. CASE Alive'
      BY <1>4, <1>1, <2>1, <2>2, <2>3, ParametersAssumption
         DEF TypeOK, bucketVars, Level, Capped
    <2>4. CASE ~Alive'
      <3>1. Elapsed = TTL
        BY <1>4, <2>1, <2>4, ParametersAssumption
           DEF TypeOK, bucketVars, Alive, ExpiryRenewed
      <3>2. Elapsed * Rate >= Capacity
        BY <3>1, TTLAssumption
      <3>3. Level = Capacity /\ Level' = Capacity
        BY <1>1, <1>4, <2>4, <3>2, ParametersAssumption DEF TypeOK, Level, Capped, bucketVars
      <3> QED
        BY <1>4, <2>1, <3>3, ParametersAssumption DEF Capped
    <2> QED
      BY <2>3, <2>4
  <1> QED
    BY <1>2, <1>3, <1>4

\* A step back of the clock never adds to the level.
LEMMA LevelAfterSlip ==
    ASSUME TypeOK, NEW m \in Nat, m < now, now' = m, UNCHANGED bucketVars
    PROVE  Level' \in 0 .. Level
  <1>0. /\ now \in Nat
        /\ lastRefill \in Nat /\ lastRefill' = lastRefill
    BY DEF TypeOK, bucketVars
  <1>1. /\ Elapsed \in Nat /\ Elapsed * Rate \in Nat
        /\ Elapsed' \in Nat /\ Elapsed' * Rate \in Nat
    <2>1. Elapsed \in Nat /\ Elapsed' \in Nat
      BY <1>0 DEF Elapsed
    <2> QED
      BY <2>1, ProductIsNat, ParametersAssumption
  <1>2. Elapsed' <= Elapsed
    BY <1>0 DEF Elapsed
  <1>3. Elapsed' * Rate <= Elapsed * Rate
    BY <1>1, <1>2, ProductMonotone, ParametersAssumption
  <1>4. tokens' = tokens /\ tokens \in 0 .. Capacity
    BY DEF TypeOK, bucketVars
  <1>5. Capped(tokens + Elapsed' * Rate) \in 0 .. Capped(tokens + Elapsed * Rate)
    BY <1>1, <1>3, <1>4, CappedMonotone
  <1>6. CASE Alive
    <2>1. Alive'
      BY <1>6 DEF TypeOK, Alive, bucketVars
    <2> QED
      BY <1>4, <1>5, <1>6, <2>1 DEF Level
  <1>7. CASE ~Alive
    <2>1. Capped(tokens + Elapsed' * Rate) \in 0 .. Capacity
      BY <1>1, <1>4, CappedMonotone
    <2>2. Capacity \in 0 .. Capacity
      BY ParametersAssumption
    <2>3. Level = Capacity
      BY <1>7 DEF Level
    <2> QED
      BY <1>4, <2>1, <2>2, <2>3 DEF Level
  <1> QED
    BY <1>6, <1>7

-----------------------------------------------------------------------------
(* The invariant holds, action by action. *)

\* A wait told in whole seconds, plus one, covers the tokens that are missing.
LEMMA WaitCovers ==
    ASSUME NEW x \in Nat
    PROVE  /\ x \div (Rate * Second) \in Nat
           /\ x <= (x \div (Rate * Second) + 1) * Second * Rate
  <1> DEFINE d == Rate * Second
             q == x \div d
  <1>1. d \in Nat \ {0}
    BY ParametersAssumption
  <1> HIDE DEF d
  <1>2. q \in Nat /\ x < (q + 1) * d
    BY <1>1
  <1> HIDE DEF q
  <1>3. (q + 1) * Second * Rate = (q + 1) * (Rate * Second)
    BY <1>2, ParametersAssumption
  <1>4. (q + 1) * d = (q + 1) * Second * Rate
    BY <1>3 DEF d
  <1>5. (q + 1) * d \in Int
    BY <1>1, <1>2
  <1>6. x <= (q + 1) * Second * Rate
    BY <1>2, <1>4, <1>5
  <1> QED
    BY <1>2, <1>6 DEF q, d

\* The bound is a number, and grows with a reset and with a tick.
LEMMA BoundGrows ==
    ASSUME TypeOK
    PROVE  /\ Capacity * (1 + resets) \in Nat /\ Rate * forward \in Nat
           /\ Capacity * (1 + (resets + 1)) = Capacity * (1 + resets) + Capacity
           /\ Rate * (forward + 1) = Rate * forward + Rate
  BY ParametersAssumption DEF TypeOK

\* What a refused call was asked and told.
LEMMA RefusalFields ==
    ASSUME refusal \in Refusal
    PROVE  refusal.amount \in Nat /\ refusal.retryAfter \in Nat /\ refusal.at \in Nat
  <1>1. Amounts \cup {0} \subseteq Nat
    BY AmountsAssumption
  <1>2. refusal.amount \in Amounts \cup {0} /\ refusal.retryAfter \in Nat /\ refusal.at \in Nat
    BY DEF Refusal
  <1> QED
    BY <1>1, <1>2

\* A call that is allowed moves its amount from the bucket to the grants.
LEMMA AllowStep ==
    ASSUME IInv, NEW n \in Amounts, Allow(n)
    PROVE  IInv'
  <1>1. n \in Nat /\ Level \in 0 .. Capacity /\ Level >= n
    BY AmountsAssumption, LevelRange DEF IInv, Allow
  <1>2. Level - n \in 0 .. Capacity /\ Write(Level - n) /\ now' = now
    BY <1>1, ParametersAssumption DEF Allow
  <1>3. Level' = Level - n /\ ExpiryRenewed'
    BY <1>2, LevelAfterWrite DEF IInv
  <1>4. TypeOK'
    BY <1>1, <1>2, ParametersAssumption DEF IInv, TypeOK, Allow, Write, NoFault, NoRefusal, Refusal
  <1>5. GrantBounded'
    BY <1>1, <1>3, BoundGrows DEF IInv, TypeOK, GrantBounded, Allow
  <1>6. RefusalKept'
    BY DEF Allow, RefusalKept
  <1> QED
    BY <1>3, <1>4, <1>5, <1>6 DEF IInv

\* A call that is refused leaves the level alone, and is told to wait for
\* what is missing.
LEMMA RefuseStep ==
    ASSUME IInv, NEW n \in Amounts, Refuse(n)
    PROVE  IInv'
  <1>1. n \in Nat /\ Level \in 0 .. Capacity /\ n - Level \in Nat
    BY AmountsAssumption, LevelRange, ParametersAssumption DEF IInv, Refuse
  <1>2. Level' = Level /\ ExpiryRenewed'
    BY <1>1, LevelAfterWrite DEF IInv, Refuse
  <1>3. /\ RetryAfter(n) \in Nat
        /\ n - Level <= (RetryAfter(n) + 1) * Second * Rate
    BY <1>1, WaitCovers DEF RetryAfter
  <1>4. refusal' = [amount |-> n, retryAfter |-> RetryAfter(n), at |-> now]
    BY DEF Refuse
  <1>5. TypeOK'
    BY <1>1, <1>3, <1>4, ParametersAssumption DEF IInv, TypeOK, Refuse, Write, NoFault, Refusal
  <1>6. GrantBounded'
    BY <1>2 DEF IInv, GrantBounded, Refuse
  <1>7. RefusalKept'
    <2>1. /\ refusal'.amount = n /\ refusal'.at = now
          /\ refusal'.retryAfter = RetryAfter(n)
      BY <1>4
    <2>2. now' = now /\ lastRefill' = now /\ now \in Nat
      BY DEF IInv, TypeOK, Refuse, Write
    <2>3. (now - now) * Rate = 0
      BY <2>2, ParametersAssumption
    <2>4. (RetryAfter(n) + 1) * Second * Rate \in Int
      BY <1>3, ParametersAssumption
    <2>5. Level + (RetryAfter(n) + 1) * Second * Rate >= n + (now - now) * Rate
      BY <1>1, <1>3, <2>3, <2>4
    <2> QED
      BY <1>2, <2>1, <2>2, <2>5 DEF RefusalKept, Nearing
  <1> QED
    BY <1>2, <1>5, <1>6, <1>7 DEF IInv

\* A call whose answer is lost grants nothing and adds nothing.
LEMMA TakeUnansweredStep ==
    ASSUME IInv, NEW n \in Amounts, TakeUnanswered(n)
    PROVE  IInv'
  <1> DEFINE m == IF Level >= n THEN Level - n ELSE Level
  <1>1. n \in Nat /\ Level \in 0 .. Capacity
    BY AmountsAssumption, LevelRange DEF IInv
  <1>2. m \in 0 .. Capacity /\ m <= Level
    BY <1>1, ParametersAssumption
  <1>3. Write(m) /\ now' = now
    BY DEF TakeUnanswered
  <1> HIDE DEF m
  <1>4. Level' = m /\ ExpiryRenewed'
    BY <1>2, <1>3, LevelAfterWrite DEF IInv
  <1>5. TypeOK'
    BY <1>2, <1>3, ParametersAssumption
       DEF IInv, TypeOK, TakeUnanswered, Write, Fault, NoRefusal, Refusal
  <1>6. GrantBounded'
    BY <1>1, <1>2, <1>4, BoundGrows DEF IInv, TypeOK, GrantBounded, TakeUnanswered
  <1>7. RefusalKept'
    BY DEF TakeUnanswered, RefusalKept
  <1> QED
    BY <1>4, <1>5, <1>6, <1>7 DEF IInv

\* Looking at the bucket saves its level and changes nothing.
LEMMA GetBucketStateStep ==
    ASSUME IInv, GetBucketState
    PROVE  IInv'
  <1>1. Level \in 0 .. Capacity /\ Write(Level) /\ now' = now
    BY LevelRange DEF IInv, GetBucketState
  <1>2. Level' = Level /\ ExpiryRenewed'
    BY <1>1, LevelAfterWrite DEF IInv
  <1>3. TypeOK'
    BY <1>1, ParametersAssumption DEF IInv, TypeOK, GetBucketState, Write, NoFault
  <1>4. GrantBounded'
    BY <1>2 DEF IInv, GrantBounded, GetBucketState
  <1>5. RefusalKept'
    BY <1>1, <1>2 DEF IInv, TypeOK, RefusalKept, GetBucketState, Write
  <1> QED
    BY <1>2, <1>3, <1>4, <1>5 DEF IInv

\* A reset fills the bucket and is counted.
LEMMA ResetBucketStep ==
    ASSUME IInv, ResetBucket
    PROVE  IInv'
  <1>1. Capacity \in 0 .. Capacity /\ Write(Capacity) /\ now' = now
    BY ParametersAssumption DEF ResetBucket
  <1>2. Level' = Capacity /\ ExpiryRenewed' /\ Level \in 0 .. Capacity
    BY <1>1, LevelAfterWrite, LevelRange DEF IInv
  <1>3. TypeOK'
    BY <1>1, ParametersAssumption DEF IInv, TypeOK, ResetBucket, Write, NoFault
  <1>4. GrantBounded'
    BY <1>2, BoundGrows, ParametersAssumption DEF IInv, TypeOK, GrantBounded, ResetBucket
  <1>5. RefusalKept'
    BY <1>1, <1>2, RefusalFields DEF IInv, TypeOK, RefusalKept, Nearing, ResetBucket, Write
  <1> QED
    BY <1>2, <1>3, <1>4, <1>5 DEF IInv

\* A key that is deleted counts as a full bucket.
LEMMA LevelAfterDeletion ==
    ASSUME Deleted
    PROVE  Level' = Capacity /\ ~Frozen' /\ ExpiryRenewed'
  BY DEF Deleted, Level, Alive, Frozen, ExpiryRenewed

\* Expiry changes nothing: the bucket counted as full already.
LEMMA ExpireStep ==
    ASSUME IInv, Expire
    PROVE  IInv'
  <1>1. Level = Capacity
    BY DEF IInv, TypeOK, Expire, Level, Alive
  <1>2. Level' = Level /\ ExpiryRenewed'
    BY <1>1, LevelAfterDeletion DEF Expire
  <1>3. TypeOK'
    <2>1. present' \in BOOLEAN
      BY DEF Expire, Deleted
    <2>2. tokens' \in 0 .. Capacity /\ lastRefill' \in Nat /\ expires' \in Nat
      BY ParametersAssumption DEF Expire, Deleted
    <2> QED
      BY <2>1, <2>2 DEF IInv, TypeOK, Expire, NoFault
  <1>4. GrantBounded'
    BY <1>2 DEF IInv, GrantBounded, Expire
  <1>5. RefusalKept'
    BY <1>2 DEF IInv, RefusalKept, Expire, Deleted
  <1> QED
    BY <1>2, <1>3, <1>4, <1>5 DEF IInv

\* A bucket that Redis loses is a reset.
LEMMA ForgetStep ==
    ASSUME IInv, Forget
    PROVE  IInv'
  <1>1. Level' = Capacity /\ ExpiryRenewed' /\ Level \in 0 .. Capacity
    BY LevelAfterDeletion, LevelRange DEF IInv, Forget
  <1>2. TypeOK'
    <2>1. present' \in BOOLEAN
      BY DEF Forget, Deleted
    <2>2. tokens' \in 0 .. Capacity /\ lastRefill' \in Nat /\ expires' \in Nat
      BY ParametersAssumption DEF Forget, Deleted
    <2> QED
      BY <2>1, <2>2 DEF IInv, TypeOK, Forget, Fault
  <1>3. GrantBounded'
    BY <1>1, BoundGrows, ParametersAssumption DEF IInv, TypeOK, GrantBounded, Forget
  <1>4. RefusalKept'
    BY <1>1, RefusalFields DEF IInv, TypeOK, RefusalKept, Nearing, Forget, Deleted
  <1> QED
    BY <1>1, <1>2, <1>3, <1>4 DEF IInv

\* A tick refills at most one rate, which the bound has room for, and brings
\* a refused caller nearer by one rate.
LEMMA TickStep ==
    ASSUME IInv, Tick
    PROVE  IInv'
  <1>1. now' = now + 1 /\ UNCHANGED bucketVars /\ UNCHANGED <<refusal, granted, resets>>
    BY DEF Tick
  <1>2. /\ Level' = IF Frozen THEN Level ELSE Capped(Level + Rate)
        /\ Level \in 0 .. Capacity
    BY <1>1, LevelAfterTick, LevelRange DEF IInv
  <1>3. TypeOK'
    BY DEF IInv, TypeOK, Tick, bucketVars, NoFault
  <1>4. ExpiryRenewed'
    BY DEF IInv, ExpiryRenewed, Tick, bucketVars
  <1>5. GrantBounded'
    <2>1. Level' <= Level + Rate /\ Level' \in Int
      BY <1>2, ParametersAssumption DEF Capped
    <2>2. Capacity * (1 + resets) \in Nat /\ Rate * forward \in Nat
          /\ Rate * (forward + 1) = Rate * forward + Rate
      BY BoundGrows DEF IInv
    <2>3. forward' = forward + 1 /\ granted' = granted /\ resets' = resets
      BY DEF Tick
    <2>4. granted \in Nat /\ granted + Level <= Capacity * (1 + resets) + Rate * forward
      BY DEF IInv, TypeOK, GrantBounded
    <2>5. granted + Level' <= Capacity * (1 + resets) + Rate * (forward + 1)
      BY <1>2, <2>1, <2>2, <2>4, ParametersAssumption
    <2> QED
      BY <2>3, <2>5 DEF GrantBounded
  <1>6. RefusalKept'
    <2> SUFFICES ASSUME refusal # NoRefusal
                 PROVE  RefusalKept'
      BY <1>1 DEF RefusalKept
    <2>1. /\ now \in Nat /\ lastRefill \in Nat
          /\ refusal.at \in Nat /\ refusal.amount \in Nat /\ refusal.retryAfter \in Nat
      BY RefusalFields DEF IInv, TypeOK
    <2>2. /\ now >= refusal.at
          /\ present => now >= lastRefill
          /\ Nearing(refusal, Level, now)
      BY DEF IInv, RefusalKept
    <2>3. (refusal.retryAfter + 1) * Second * Rate \in Int
      BY <2>1, ParametersAssumption
    <2>4. now + 1 - refusal.at = (now - refusal.at) + 1 /\ now - refusal.at \in Nat
      BY <2>1, <2>2
    <2>5. /\ (now + 1 - refusal.at) * Rate = (now - refusal.at) * Rate + Rate
          /\ (now - refusal.at) * Rate \in Nat
      BY <2>4, ProductStep, ProductIsNat, ParametersAssumption
    <2>6. Level' = Capped(Level + Rate)
      BY <1>2, <2>1, <2>2 DEF Frozen, Alive
    <2>7. refusal.amount <= Capacity /\ Level' < refusal.amount => Level' = Level + Rate
      BY <1>2, <2>1, <2>6, ParametersAssumption DEF Capped
    <2>8. now + 1 >= refusal.at /\ (present => now + 1 >= lastRefill)
      BY <2>1, <2>2
    <2>9. Nearing(refusal, Level', now + 1)
      BY <1>2, <2>1, <2>2, <2>3, <2>5, <2>6, <2>7, ParametersAssumption DEF Nearing, Capped
    <2>10. /\ refusal' = refusal /\ now' = now + 1
           /\ present' = present /\ lastRefill' = lastRefill
      BY <1>1 DEF bucketVars
    <2> QED
      BY <2>8, <2>9, <2>10 DEF RefusalKept
  <1> QED
    BY <1>3, <1>4, <1>5, <1>6 DEF IInv

\* A step back of the clock adds nothing, and lets no wait stand.
LEMMA StepBackStep ==
    ASSUME IInv, StepBack
    PROVE  IInv'
  <1>1. PICK m \in 0 .. now - 1 : now' = m
    BY DEF StepBack
  <1>2. m \in Nat /\ m < now /\ UNCHANGED bucketVars
    BY <1>1 DEF IInv, TypeOK, StepBack
  <1>3. Level' \in 0 .. Level /\ Level \in 0 .. Capacity
    BY <1>1, <1>2, LevelAfterSlip, LevelRange DEF IInv
  <1>4. TypeOK'
    BY <1>1, <1>2 DEF IInv, TypeOK, StepBack, bucketVars, Fault, NoRefusal, Refusal
  <1>5. ExpiryRenewed'
    BY <1>2 DEF IInv, ExpiryRenewed, bucketVars
  <1>6. GrantBounded'
    <2>1. granted' = granted /\ resets' = resets /\ forward' = forward
      BY DEF StepBack
    <2>2. Level' <= Level /\ Level' \in Int /\ Level \in Int /\ granted \in Int
      BY <1>3, ParametersAssumption DEF IInv, TypeOK
    <2>3. Capacity * (1 + resets) \in Int /\ Rate * forward \in Int
      BY BoundGrows DEF IInv
    <2>4. granted + Level' <= Capacity * (1 + resets) + Rate * forward
      BY <2>2, <2>3 DEF IInv, GrantBounded
    <2> QED
      BY <2>1, <2>4 DEF GrantBounded
  <1>7. RefusalKept'
    BY DEF StepBack, RefusalKept
  <1> QED
    BY <1>4, <1>5, <1>6, <1>7 DEF IInv

LEMMA InitIInv == Init => IInv
  <1> SUFFICES ASSUME Init PROVE IInv
    OBVIOUS
  <1>1. TypeOK
    <2>1. present \in BOOLEAN
      BY DEF Init
    <2>2. refusal \in Refusal
      BY DEF Init, NoRefusal, Refusal
    <2> QED
      BY <2>1, <2>2, ParametersAssumption DEF Init, TypeOK
  <1>0. ExpiryRenewed /\ RefusalKept
    BY DEF Init, ExpiryRenewed, RefusalKept
  <1>2. Level = Capacity
    BY DEF Init, Level, Alive
  <1>3. Capacity * (1 + 0) = Capacity /\ Rate * 0 = 0
    BY ParametersAssumption
  <1>4. GrantBounded
    BY <1>2, <1>3, ParametersAssumption DEF Init, GrantBounded
  <1> QED
    BY <1>0, <1>1, <1>4 DEF IInv

LEMMA NextIInv == IInv /\ [Next]_vars => IInv'
  <1> SUFFICES ASSUME IInv, [Next]_vars PROVE IInv'
    OBVIOUS
  <1>1. ASSUME NEW n \in Amounts, TakeTokens(n) PROVE IInv'
    BY <1>1, AllowStep, RefuseStep DEF TakeTokens
  <1>2. ASSUME NEW n \in Amounts, TakeUnanswered(n) PROVE IInv'
    BY <1>2, TakeUnansweredStep
  <1>3. CASE GetBucketState
    BY <1>3, GetBucketStateStep
  <1>4. CASE ResetBucket
    BY <1>4, ResetBucketStep
  <1>5. CASE Tick
    BY <1>5, TickStep
  <1>6. CASE Expire
    BY <1>6, ExpireStep
  <1>7. CASE StepBack
    BY <1>7, StepBackStep
  <1>8. CASE Forget
    BY <1>8, ForgetStep
  <1>9. CASE UNCHANGED vars
    BY <1>9 DEF vars, IInv, TypeOK, ExpiryRenewed, GrantBounded, RefusalKept,
                Level, Elapsed, Alive, Capped
  <1> QED
    BY <1>1, <1>2, <1>3, <1>4, <1>5, <1>6, <1>7, <1>8, <1>9 DEF Next

-----------------------------------------------------------------------------
(* The theorems. *)

THEOREM Invariance == Spec => []IInv
  BY InitIInv, NextIInv, PTL DEF Spec

\* Every variable keeps its type; the tokens stay between none and Capacity.
THEOREM TypeCorrect == Spec => []TypeOK
  <1>1. IInv => TypeOK
    BY DEF IInv
  <1> QED
    BY Invariance, <1>1, PTL

\* The grants are bounded by the fillings and the refill of the time passed.
THEOREM GrantsBounded == Spec => []GrantBounded
  <1>1. IInv => GrantBounded
    BY DEF IInv
  <1> QED
    BY Invariance, <1>1, PTL

\* A refused caller that waits a second longer than told gets its tokens.
THEOREM WaitIsEnough == Spec => []WaitSuffices
  <1>1. IInv => WaitSuffices
    <2> SUFFICES ASSUME IInv, refusal # NoRefusal, refusal.amount <= Capacity,
                        now >= refusal.at + (refusal.retryAfter + 1) * Second
                 PROVE  Level >= refusal.amount
      BY DEF WaitSuffices
    <2> DEFINE w == (refusal.retryAfter + 1) * Second
               d == now - refusal.at
    <2>1. /\ now \in Nat /\ refusal.at \in Nat /\ refusal.amount \in Nat
          /\ refusal.retryAfter \in Nat /\ Level \in 0 .. Capacity
      BY RefusalFields, LevelRange DEF IInv, TypeOK
    <2>2. w \in Nat /\ d \in Nat /\ w <= d
      <3>1. w \in Nat
        BY <2>1, ParametersAssumption
      <3> QED
        BY <2>1, <3>1
    <2>3. Level >= refusal.amount \/ Level + w * Rate >= refusal.amount + d * Rate
      BY DEF IInv, RefusalKept, Nearing
    <2> HIDE DEF w, d
    <2>4. w * Rate <= d * Rate /\ w * Rate \in Nat /\ d * Rate \in Nat
      BY <2>2, ProductMonotone, ProductIsNat, ParametersAssumption
    <2> QED
      BY <2>1, <2>3, <2>4, ParametersAssumption
  <1> QED
    BY Invariance, <1>1, PTL

\* The scripts, computing from time stamps, are a bucket that refills with
\* every tick: each step is one of EagerBucket or changes nothing it sees.
THEOREM Implementation == Spec => ImplementsEagerBucket
  <1>1. Init => Eager!Init
    BY DEF Init, Eager!Init, Level, Alive, Frozen
  <1>2. IInv /\ [Next]_vars => [Eager!Next]_(Eager!vars)
    <2> SUFFICES ASSUME IInv, [Next]_vars
                 PROVE  [Eager!Next]_(Eager!vars)
      OBVIOUS
    <2>0. Level \in 0 .. Capacity
      BY LevelRange DEF IInv
    <2>1. ASSUME NEW n \in Amounts, Allow(n) PROVE Eager!Take(n)
      <3>1. Level - n \in 0 .. Capacity
        BY <2>0, <2>1, AmountsAssumption, ParametersAssumption DEF Allow
      <3>2. Level' = Level - n /\ ~Frozen'
        BY <2>1, <3>1, LevelAfterWrite DEF IInv, Allow
      <3> QED
        BY <2>1, <3>2 DEF Allow, Eager!Take, NoFault
    <2>2. ASSUME NEW n \in Amounts, Refuse(n) PROVE Eager!Refuse
      <3>1. Level' = Level /\ ~Frozen'
        BY <2>0, <2>2, LevelAfterWrite DEF IInv, Refuse
      <3> QED
        BY <2>2, <3>1 DEF Refuse, Eager!Refuse, NoFault
    <2>3. ASSUME NEW n \in Amounts, TakeUnanswered(n) PROVE Eager!Charge(n)
      <3> DEFINE m == IF Level >= n THEN Level - n ELSE Level
      <3>1. m \in 0 .. Capacity
        BY <2>0, AmountsAssumption, ParametersAssumption
      <3>2. Level' = m /\ ~Frozen'
        BY <2>3, <3>1, LevelAfterWrite DEF IInv, TakeUnanswered
      <3> QED
        BY <2>3, <3>2 DEF TakeUnanswered, Eager!Charge, Fault
    <2>4. CASE GetBucketState
      <3>1. Level' = Level /\ ~Frozen'
        BY <2>0, <2>4, LevelAfterWrite DEF IInv, GetBucketState
      <3>2. Eager!Refuse
        BY <2>4, <3>1 DEF GetBucketState, Eager!Refuse, NoFault
      <3> QED
        BY <3>2 DEF Eager!Next
    <2>5. CASE ResetBucket
      <3>1. Level' = Capacity /\ ~Frozen'
        BY <2>5, LevelAfterWrite, ParametersAssumption DEF IInv, ResetBucket
      <3>2. Eager!Reset
        BY <2>5, <3>1 DEF ResetBucket, Eager!Reset, NoFault
      <3> QED
        BY <3>2 DEF Eager!Next
    <2>6. CASE Tick
      <3>1. /\ Level' = IF Frozen THEN Level ELSE Capped(Level + Rate)
            /\ Frozen' => Frozen
        BY <2>6, LevelAfterTick DEF IInv, Tick
      <3>2. Frozen' \in {Frozen, FALSE}
        BY <3>1 DEF Frozen
      <3>3. Eager!Refill
        BY <2>6, <3>1, <3>2 DEF Tick, Eager!Refill, Eager!Capped, Capped, NoFault
      <3> QED
        BY <3>3 DEF Eager!Next
    <2>7. CASE Expire
      <3>1. Level = Capacity /\ ~Frozen
        BY <2>7 DEF IInv, TypeOK, Expire, Level, Frozen, Alive
      <3>2. Level' = Level /\ Frozen' = Frozen
        BY <2>7, <3>1, LevelAfterDeletion DEF Expire, Frozen
      <3> QED
        BY <2>7, <3>2 DEF Expire, Eager!vars, NoFault
    <2>8. CASE StepBack
      <3>1. PICK m \in 0 .. now - 1 : now' = m
        BY <2>8 DEF StepBack
      <3>2. m \in Nat /\ m < now /\ UNCHANGED bucketVars
        BY <2>8, <3>1 DEF IInv, TypeOK, StepBack
      <3>3. Level' \in 0 .. Level /\ Frozen' \in BOOLEAN
        BY <3>1, <3>2, LevelAfterSlip DEF IInv, Frozen
      <3>4. Eager!Slip
        BY <2>8, <3>3 DEF StepBack, Eager!Slip, Fault
      <3> QED
        BY <3>4 DEF Eager!Next
    <2>9. CASE Forget
      <3>1. Level' = Capacity /\ ~Frozen'
        BY <2>9, LevelAfterDeletion DEF Forget
      <3>2. Eager!Lose
        BY <2>9, <3>1 DEF Forget, Eager!Lose, Fault
      <3> QED
        BY <3>2 DEF Eager!Next
    <2>10. CASE UNCHANGED vars
      BY <2>10 DEF vars, Eager!vars, Level, Elapsed, Alive, Capped, Frozen
    <2>11. ASSUME NEW n \in Amounts, TakeTokens(n) \/ TakeUnanswered(n)
           PROVE  Eager!Next
      BY <2>1, <2>2, <2>3, <2>11 DEF TakeTokens, Eager!Next
    <2> QED
      BY <2>4, <2>5, <2>6, <2>7, <2>8, <2>9, <2>10, <2>11 DEF Next
  <1> QED
    BY <1>1, <1>2, Invariance, PTL DEF Spec, ImplementsEagerBucket, Eager!Spec
=============================================================================
