----------------------------- MODULE EagerBucket -----------------------------
(***************************************************************************)
(* What a token bucket promises: a level that rises with every tick of the *)
(* clock, whether or not anybody looks at it, and from which tokens are    *)
(* granted only while they are there.  Nothing is computed from time       *)
(* stamps and nothing expires.  What goes wrong outside the bucket is      *)
(* counted, so that nothing else can pass for it.                          *)
(***************************************************************************)
EXTENDS Integers

CONSTANTS Capacity, Rate, Amounts

VARIABLES
    level,   \* the tokens in the bucket
    frozen,  \* the clock is behind the last write: no refill
    granted, \* the tokens granted so far
    resets,  \* how often the bucket was filled up
    faults   \* the lost answers, lost buckets and steps back of the clock

vars == <<level, frozen, granted, resets, faults>>

Capped(n) == IF n <= Capacity THEN n ELSE Capacity

Init ==
    /\ level = Capacity
    /\ frozen = FALSE
    /\ granted = 0
    /\ resets = 0
    /\ faults = 0

\* A tick refills the bucket unless the clock has yet to catch up.
Refill ==
    /\ level' = IF frozen THEN level ELSE Capped(level + Rate)
    /\ frozen' \in {frozen, FALSE}
    /\ UNCHANGED <<granted, resets, faults>>

\* A call that is answered: the caller may go on.
Take(n) ==
    /\ level >= n
    /\ level' = level - n
    /\ granted' = granted + n
    /\ frozen' = FALSE
    /\ UNCHANGED <<resets, faults>>

\* A call whose answer is lost: the tokens are gone all the same.
Charge(n) ==
    /\ level' = IF level >= n THEN level - n ELSE level
    /\ frozen' = FALSE
    /\ faults' = faults + 1
    /\ UNCHANGED <<granted, resets>>

\* A call that grants nothing takes nothing.
Refuse ==
    /\ frozen' = FALSE
    /\ UNCHANGED <<level, granted, resets, faults>>

Reset ==
    /\ level' = Capacity
    /\ frozen' = FALSE
    /\ resets' = resets + 1
    /\ UNCHANGED <<granted, faults>>

\* A bucket that is lost starts again full.
Lose ==
    /\ level' = Capacity
    /\ frozen' = FALSE
    /\ resets' = resets + 1
    /\ faults' = faults + 1
    /\ UNCHANGED granted

\* The clock steps back: refill may be taken back, nothing is added.
Slip ==
    /\ level' \in 0 .. level
    /\ frozen' \in BOOLEAN
    /\ faults' = faults + 1
    /\ UNCHANGED <<granted, resets>>

Next ==
    \/ \E n \in Amounts : Take(n) \/ Charge(n)
    \/ Refill \/ Refuse \/ Reset \/ Lose \/ Slip

Spec == Init /\ [][Next]_vars
=============================================================================
