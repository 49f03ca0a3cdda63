----------------------------- MODULE TokenBucket -----------------------------
(***************************************************************************)
(* The Redis token bucket (monolith/internal/bucket/bucket.go and          *)
(* scripts.go): one key, any number of callers.                            *)
(*                                                                         *)
(* Nothing refills the bucket.  A script computes, from the time stamp of  *)
(* the last write and the clock of Redis, what the level is now.  Redis    *)
(* runs a script as one atomic step, so callers meet between scripts only: *)
(* with the clock, which may step back, with the expiry of the key, and    *)
(* with answers that do not arrive.                                        *)
(*                                                                         *)
(* Tokens are counted in parts so small that one tick of the clock adds a  *)
(* whole number of them; an amount may be a fraction of a token.           *)
(***************************************************************************)
EXTENDS Integers

CONSTANTS
    Capacity,   \* Config.Capacity
    Rate,       \* Config.RefillRate, per tick
    Second,     \* ticks in a second
    TTL,        \* Config.TTL, in ticks
    Amounts,    \* the amounts callers ask for
    MaxTime,    \* bound on the ticks of a behaviour
    MaxResets,  \* bound on its resets
    MaxFaults   \* bound on its faults

ASSUME ParametersAssumption ==
    /\ Capacity \in Nat \ {0}
    /\ Rate \in Nat \ {0}
    /\ Second \in Nat \ {0}
    /\ TTL \in Nat \ {0}
    /\ MaxTime \in Nat
    /\ MaxResets \in Nat
    /\ MaxFaults \in Nat

\* TakeTokens returns an error for an amount that is not positive.
ASSUME AmountsAssumption == Amounts \subseteq Nat \ {0}

\* A bucket that is left alone is full before its key expires.  The code does
\* not check it; the two buckets of cmd/unified-server/main.go satisfy it.
ASSUME TTLAssumption == TTL * Rate >= Capacity

VARIABLES
    present,    \* Redis holds the key
    tokens,     \* its field 'tokens'
    lastRefill, \* its field 'last_refill'
    expires,    \* the time until which the key lives
    now,        \* the clock of Redis
    refusal,    \* the last refused call, if no call has taken tokens since
    forward,    \* history: the ticks so far
    granted,    \* history: the tokens of the calls answered with allowed
    resets,     \* history: how often the bucket was reset or forgotten
    faults      \* the faults so far

bucketVars == <<present, tokens, lastRefill, expires>>

vars == <<present, tokens, lastRefill, expires, now, refusal, forward, granted,
          resets, faults>>

NoRefusal == [amount |-> 0, retryAfter |-> 0, at |-> 0]

Refusal == [amount : Amounts \cup {0}, retryAfter : Nat, at : Nat]

TypeOK ==
    /\ present \in BOOLEAN
    /\ tokens \in 0 .. Capacity
    /\ lastRefill \in Nat
    /\ expires \in Nat
    /\ now \in Nat
    /\ refusal \in Refusal
    /\ forward \in Nat
    /\ granted \in Nat
    /\ resets \in Nat
    /\ faults \in Nat

Init ==
    /\ present = FALSE
    /\ tokens = 0
    /\ lastRefill = 0
    /\ expires = 0
    /\ now = 0
    /\ refusal = NoRefusal
    /\ forward = 0
    /\ granted = 0
    /\ resets = 0
    /\ faults = 0

Fault ==
    /\ faults < MaxFaults
    /\ faults' = faults + 1

NoFault == UNCHANGED faults

-----------------------------------------------------------------------------
(* What a script computes. *)

\* HMGET finds the hash: the key is there and has not expired.
Alive == present /\ now <= expires

\* The time since last_refill, none if the clock stepped back behind it.
Elapsed == IF now >= lastRefill THEN now - lastRefill ELSE 0

\* Mutant: no math.min.
Uncapped(n) == n

Capped(n) == IF n <= Capacity THEN n ELSE Capacity

\* new_tokens of all scripts; a missing hash counts as a full bucket.
Level == IF Alive THEN Capped(tokens + Elapsed * Rate) ELSE Capacity

\* The clock is behind the last write: no refill until it has caught up.
Frozen == Alive /\ now < lastRefill

\* Mutant: the key keeps the expiry it was created with.
WriteWithoutExpire(n) ==
    /\ present' = TRUE
    /\ tokens' = n
    /\ lastRefill' = now
    /\ expires' = IF Alive THEN expires ELSE now + TTL

\* Mutant: last_refill is written with the first write only.
WriteWithoutTime(n) ==
    /\ present' = TRUE
    /\ tokens' = n
    /\ lastRefill' = IF Alive THEN lastRefill ELSE now
    /\ expires' = now + TTL

\* HMSET and EXPIRE.
Write(n) ==
    /\ present' = TRUE
    /\ tokens' = n
    /\ lastRefill' = now
    /\ expires' = now + TTL

\* retry_after, cut to whole seconds like every number a script returns.
RetryAfter(n) == (n - Level) \div (Rate * Second)

-----------------------------------------------------------------------------
(* The scripts. *)

\* Mutant: a refused call is charged what there is.
RefuseAndDrain(n) ==
    /\ Level < n
    /\ Write(0)
    /\ refusal' = [amount |-> n, retryAfter |-> RetryAfter(n), at |-> now]
    /\ NoFault
    /\ UNCHANGED <<now, forward, granted, resets>>

Allow(n) ==
    /\ Level >= n
    /\ Write(Level - n)
    /\ refusal' = NoRefusal
    /\ granted' = granted + n
    /\ NoFault
    /\ UNCHANGED <<now, forward, resets>>

\* A refused call writes what it computed, and the time.
Refuse(n) ==
    /\ Level < n
    /\ Write(Level)
    /\ refusal' = [amount |-> n, retryAfter |-> RetryAfter(n), at |-> now]
    /\ NoFault
    /\ UNCHANGED <<now, forward, granted, resets>>

TakeTokens(n) == Allow(n) \/ Refuse(n)

\* The script runs and its answer is lost.  The client library sends the call
\* again, which is one more TakeTokens, or the caller gets an error.
TakeUnanswered(n) ==
    /\ Fault
    /\ Write(IF Level >= n THEN Level - n ELSE Level)
    /\ refusal' = NoRefusal
    /\ UNCHANGED <<now, forward, granted, resets>>

\* Writes only if there is something to add.  The script's branch for a key
\* without expiry is never taken, since every write sets one.
GetBucketState ==
    /\ Alive
    /\ Elapsed > 0
    /\ Write(Level)
    /\ NoFault
    /\ UNCHANGED <<now, refusal, forward, granted, resets>>

ResetBucket ==
    /\ resets < MaxResets
    /\ Write(Capacity)
    /\ resets' = resets + 1
    /\ NoFault
    /\ UNCHANGED <<now, refusal, forward, granted>>

-----------------------------------------------------------------------------
(* Redis. *)

Tick ==
    /\ forward < MaxTime
    /\ now' = now + 1
    /\ forward' = forward + 1
    /\ NoFault
    /\ UNCHANGED <<bucketVars, refusal, granted, resets>>

Deleted ==
    /\ present' = FALSE
    /\ tokens' = 0
    /\ lastRefill' = 0
    /\ expires' = 0

\* Redis deletes an expired key when it comes across it.  Until then a step
\* back of the clock brings the key back.
Expire ==
    /\ present
    /\ now > expires
    /\ Deleted
    /\ NoFault
    /\ UNCHANGED <<now, refusal, forward, granted, resets>>

StepBack ==
    /\ Fault
    /\ now' \in 0 .. now - 1
    /\ refusal' = NoRefusal
    /\ UNCHANGED <<bucketVars, forward, granted, resets>>

\* Redis loses the key: evicted, or not saved before a restart.
Forget ==
    /\ Fault
    /\ present
    /\ Deleted
    /\ resets' = resets + 1
    /\ UNCHANGED <<now, refusal, forward, granted>>

Next ==
    \/ \E n \in Amounts : TakeTokens(n) \/ TakeUnanswered(n)
    \/ GetBucketState \/ ResetBucket
    \/ Tick \/ Expire \/ StepBack \/ Forget

Spec == Init /\ [][Next]_vars

-----------------------------------------------------------------------------
(* Properties. *)

\* Callers never get more than the first filling, one filling for each reset,
\* and the refill of the time that passed; what is in the bucket counts as
\* given away.  Neither expiry nor a clock that steps back nor a repeated call
\* makes tokens.
GrantBounded ==
    granted + Level <= Capacity * (1 + resets) + Rate * forward

\* A caller that waits one second longer than it was told, with nobody taking
\* tokens meanwhile, finds the tokens it asked for, if the bucket can hold
\* them at all.
WaitSuffices ==
    refusal # NoRefusal
        /\ refusal.amount <= Capacity
        /\ now >= refusal.at + (refusal.retryAfter + 1) * Second
        => Level >= refusal.amount

\* Seen from outside, the bucket is one that refills with every tick.
Eager == INSTANCE EagerBucket
            WITH level <- Level, frozen <- Frozen

ImplementsEagerBucket == Eager!Spec

\* bucket_test.go:112-113: a call refused by an empty bucket is told to wait,
\* "Expected RetryAfter to be positive when bucket is empty".
DeniedHasRetryAfter == refusal # NoRefusal => refusal.retryAfter > 0
=============================================================================
