----------------------------- MODULE SlidingWindow -----------------------------
(***************************************************************************)
(* The Redis sliding window (monolith/internal/bucket/sliding_window.go):  *)
(* one key, several client processes.                                      *)
(*                                                                         *)
(* Unlike the token bucket, the window goes by the clocks of its clients.  *)
(* A call reads the clock of its process, and only then travels to Redis,  *)
(* where its script cuts the window by that reading.  Calls of clients     *)
(* whose clocks differ, or that were under way for different times, meet   *)
(* in the sorted set in another order than that of their readings.         *)
(*                                                                         *)
(* Time is counted in milliseconds.  The member of the sorted set is the   *)
(* reading itself, so that the set is a set of readings.                   *)
(***************************************************************************)
EXTENDS Integers, FiniteSets

CONSTANTS
    Clients,     \* processes that use the key
    Skew,        \* Skew[c]: how far c's clock is ahead of the slowest one
    MaxSkew,     \* the most of these
    MaxDelay,    \* how long a call may be under way
    Window,      \* SlidingWindowConfig.WindowSize
    MaxRequests, \* SlidingWindowConfig.MaxRequests
    TTL,         \* SlidingWindowConfig.TTL
    MaxTime,     \* bound on the clock
    MaxCalls,    \* no call is made once so many are in admitted
    MaxFaults    \* bound on the faults of a behaviour

ASSUME ParametersAssumption ==
    /\ MaxSkew \in Nat
    /\ Skew \in [Clients -> 0 .. MaxSkew]
    /\ MaxDelay \in Nat
    /\ Window \in Nat \ {0}
    /\ MaxRequests \in Nat \ {0}
    /\ TTL \in Nat \ {0}
    /\ MaxTime \in Nat
    /\ MaxCalls \in Nat
    /\ MaxFaults \in Nat

\* How much two readings taken to be of the same time may be apart.
Spread == MaxSkew + MaxDelay

\* The key outlives the stretch of time for which the limit holds.  The code
\* does not check it; the default has a TTL of five windows.
ASSUME TTLAssumption == TTL + Spread >= Window

\* Clocks and delays differ by less than the window.
ASSUME SpreadAssumption == Spread < Window

VARIABLES
    entries,  \* the sorted set
    expires,  \* the time until which the key lives
    now,      \* true time, also the clock of Redis
    sent,     \* sent[c]: the call of c that is under way
    admitted, \* history: the calls let through in the last Window - Spread
              \* milliseconds and since the key was last deleted
    refusal,  \* the last refused call, if no call has got an entry since
    faults    \* the faults so far

vars == <<entries, expires, now, sent, admitted, refusal, faults>>

Ops == {"IsAllowed", "GetWindowState"}

NoCall == [op |-> "none"]

Call == [op : Ops, reading : Nat, since : Nat]

\* own: the call has an entry to itself.
Admission == [call : Nat, reading : Nat, at : Nat, own : BOOLEAN]

NoRefusal == [op |-> "none"]

Refusal == [reading : Nat, retryAfter : Nat]

TypeOK ==
    /\ entries \in SUBSET Nat
    /\ IsFiniteSet(entries)
    /\ Cardinality(entries) <= MaxRequests
    /\ expires \in Nat
    /\ now \in Nat
    /\ sent \in [Clients -> Call \cup {NoCall}]
    /\ admitted \in SUBSET Admission
    /\ refusal \in Refusal \cup {NoRefusal}
    /\ faults \in Nat

Init ==
    /\ entries = {}
    /\ expires = 0
    /\ now = 0
    /\ sent = [c \in Clients |-> NoCall]
    /\ admitted = {}
    /\ refusal = NoRefusal
    /\ faults = 0

Fault ==
    /\ faults < MaxFaults
    /\ faults' = faults + 1

NoFault == UNCHANGED faults

-----------------------------------------------------------------------------
(* The scripts, for a call whose clock read t. *)

\* What Redis holds under the key.
Live == IF now <= expires THEN entries ELSE {}

\* Mutant: the entry on the edge of the window is kept.
KeptWithEdge(t) == {e \in Live : e >= t - Window}

\* What ZREMRANGEBYSCORE -inf window_start leaves.
Kept(t) == {e \in Live : e > t - Window}

\* Mutant: one call too many.
HasRoomForOneMore(t) == Cardinality(Kept(t)) <= MaxRequests

HasRoom(t) == Cardinality(Kept(t)) < MaxRequests

\* Mutant: the call is entered before the window is cut and counted.
EnterWithoutCut(t) ==
    /\ HasRoom(t)
    /\ entries' = Live \cup {t}
    /\ expires' = now + TTL

\* ZADD and EXPIRE.  An entry that is there already is not added again.
Enter(t) ==
    /\ HasRoom(t)
    /\ entries' = Kept(t) \cup {t}
    /\ expires' = now + TTL

\* A refused call cuts the window and renews the expiry as well.
TurnAway(t) ==
    /\ ~HasRoom(t)
    /\ entries' = Kept(t)
    /\ expires' = now + TTL

\* retry_after: until the oldest entry leaves the window.
RetryAfter(oldest, t) ==
    IF oldest + Window < t THEN 0 ELSE oldest + Window - t

-----------------------------------------------------------------------------
(* Calls. *)

\* time.Now() in the client.
Send(c, op) ==
    /\ sent[c] = NoCall
    /\ Cardinality(admitted) < MaxCalls
    /\ sent' = [sent EXCEPT ![c] = [op |-> op, reading |-> now + Skew[c], since |-> now]]
    /\ NoFault
    /\ UNCHANGED <<entries, expires, now, admitted, refusal>>

Return(c) == sent' = [sent EXCEPT ![c] = NoCall]

Allow(c) ==
    /\ sent[c].op = "IsAllowed"
    /\ Enter(sent[c].reading)
    /\ admitted' = admitted \cup
         {[call |-> Cardinality({a \in admitted : a.at = now}),
           reading |-> sent[c].reading, at |-> now,
           own |-> sent[c].reading \notin Kept(sent[c].reading)]}
    /\ refusal' = NoRefusal
    /\ Return(c)
    /\ NoFault
    /\ UNCHANGED now

Refuse(c) ==
    /\ sent[c].op = "IsAllowed"
    /\ TurnAway(sent[c].reading)
    /\ \E oldest \in Kept(sent[c].reading) :
          /\ \A e \in Kept(sent[c].reading) : oldest <= e
          /\ refusal' = [reading |-> sent[c].reading,
                         retryAfter |-> RetryAfter(oldest, sent[c].reading)]
    /\ Return(c)
    /\ NoFault
    /\ UNCHANGED <<now, admitted>>

\* Asking for the state cuts the window too, and leaves the expiry alone.
GetWindowState(c) ==
    /\ sent[c].op = "GetWindowState"
    /\ entries' = Kept(sent[c].reading)
    /\ Return(c)
    /\ NoFault
    /\ UNCHANGED <<expires, now, admitted, refusal>>

\* The script runs and its answer is lost: the client library sends the call
\* again, with the reading it had, or the caller gets an error.
Unanswered(c) ==
    /\ sent[c].op = "IsAllowed"
    /\ Fault
    /\ \/ Enter(sent[c].reading) /\ refusal' = NoRefusal
       \/ TurnAway(sent[c].reading) /\ UNCHANGED refusal
    /\ UNCHANGED sent \/ Return(c)
    /\ UNCHANGED <<now, admitted>>

\* The call does not reach Redis in time.
CallFails(c) ==
    /\ sent[c] # NoCall
    /\ Fault
    /\ Return(c)
    /\ UNCHANGED <<entries, expires, now, admitted, refusal>>

\* DEL: the count starts again.
ClearWindow ==
    /\ entries # {}
    /\ entries' = {}
    /\ admitted' = {}
    /\ NoFault
    /\ UNCHANGED <<expires, now, sent, refusal>>

\* Time passes; no call is under way for longer than MaxDelay.
Tick ==
    /\ now < MaxTime
    /\ \A c \in Clients : sent[c] # NoCall => now < sent[c].since + MaxDelay
    /\ now' = now + 1
    /\ admitted' = {a \in admitted : now' + Spread < a.at + Window}
    /\ NoFault
    /\ UNCHANGED <<entries, expires, sent, refusal>>

Next ==
    \/ \E c \in Clients :
          \/ \E op \in Ops : Send(c, op)
          \/ Allow(c) \/ Refuse(c) \/ GetWindowState(c)
          \/ Unanswered(c) \/ CallFails(c)
    \/ ClearWindow
    \/ Tick

Spec == Init /\ [][Next]_vars

-----------------------------------------------------------------------------
(* Properties. *)

\* In every stretch that is shorter than the window by what clocks and delays
\* may differ, at most MaxRequests calls are let through, and one more for
\* every call that shares its millisecond with another one: the sorted set
\* has one entry for both.
WindowBounded ==
    Cardinality(admitted) <= MaxRequests + Cardinality({a \in admitted : ~a.own})

\* A refused client that waits as long as it was told, by its own clock, is
\* let through unless another call got an entry meanwhile.
RetrySuffices ==
    refusal # NoRefusal => HasRoom(refusal.reading + refusal.retryAfter)
=============================================================================
