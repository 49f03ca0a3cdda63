------------------------- MODULE SlidingWindowProofs -------------------------
(***************************************************************************)
(* Proofs about SlidingWindow, for any clients, skews, delays, windows and *)
(* limits under the assumptions of the module.                             *)
(*                                                                         *)
(* The limit rests on two facts.  No clock and no delay can cut the entry  *)
(* of a call that was let through within the last Window - Spread          *)
(* milliseconds.  And calls with an entry of their own have different      *)
(* entries, of which there are never more than MaxRequests.                *)
(***************************************************************************)
EXTENDS SlidingWindow, FiniteSetTheorems, TLAPS

\* A call under way was sent at most MaxDelay ago, by a clock at most MaxSkew
\* ahead.
SentRecently ==
    \A c \in Clients : sent[c] # NoCall =>
        /\ sent[c].since <= now
        /\ now <= sent[c].since + MaxDelay
        /\ sent[c].since <= sent[c].reading
        /\ sent[c].reading <= sent[c].since + MaxSkew

\* The entry of a call that counts is there, and the key lives.
AdmittedHeld ==
    \A a \in admitted :
        /\ a.reading \in entries
        /\ a.at <= now
        /\ now + Spread < a.at + Window
        /\ a.at <= a.reading + MaxDelay
        /\ a.at + TTL <= expires

OwnDistinct ==
    \A a, b \in admitted : a.own /\ b.own /\ a.reading = b.reading => a = b

IInv ==
    /\ TypeOK
    /\ IsFiniteSet(admitted)
    /\ SentRecently
    /\ AdmittedHeld
    /\ OwnDistinct

-----------------------------------------------------------------------------
(* The scripts. *)

\* A cut leaves some of the entries.
LEMMA KeptIsPart ==
    ASSUME TypeOK, NEW t
    PROVE  /\ Kept(t) \subseteq entries
           /\ Kept(t) \in SUBSET Nat
           /\ IsFiniteSet(Kept(t))
           /\ Cardinality(Kept(t)) \in Nat
           /\ Cardinality(Kept(t)) <= MaxRequests
  <1>1. Kept(t) \in SUBSET entries
    BY DEF Kept, Live
  <1>2. IsFiniteSet(entries) /\ entries \in SUBSET Nat /\ Cardinality(entries) <= MaxRequests
    BY DEF TypeOK
  <1>3. IsFiniteSet(Kept(t)) /\ Cardinality(Kept(t)) <= Cardinality(entries)
    BY <1>1, <1>2, FS_Subset
  <1>4. Cardinality(Kept(t)) \in Nat /\ Cardinality(entries) \in Nat
    BY <1>2, <1>3, FS_CardinalityType
  <1>5. MaxRequests \in Nat
    BY ParametersAssumption
  <1>6. \A l, m, n \in Nat : l <= m /\ m <= n => l <= n
    OBVIOUS
  <1>7. Cardinality(Kept(t)) <= MaxRequests
    BY <1>2, <1>3, <1>4, <1>5, <1>6
  <1>8. Kept(t) \in SUBSET Nat
    BY <1>1, <1>2
  <1> QED
    BY <1>1, <1>3, <1>4, <1>7, <1>8

LEMMA ConstantTypes ==
    /\ MaxSkew \in Nat /\ MaxDelay \in Nat /\ Window \in Nat \ {0}
    /\ MaxRequests \in Nat \ {0} /\ TTL \in Nat \ {0} /\ Spread = MaxSkew + MaxDelay
    /\ TTL + Spread >= Window /\ Spread < Window
    /\ \A c \in Clients : Skew[c] \in 0 .. MaxSkew
  BY ParametersAssumption, TTLAssumption, SpreadAssumption DEF Spread

\* How far the reading of a call that arrives may be from the time.
LEMMA ReadingNearNow ==
    ASSUME IInv, NEW c \in Clients, sent[c] # NoCall
    PROVE  /\ sent[c] \in Call
           /\ sent[c].reading \in Nat
           /\ sent[c].reading <= now + MaxSkew
           /\ now <= sent[c].reading + MaxDelay
  <1>1. sent[c] \in Call /\ now \in Nat
    BY DEF IInv, TypeOK
  <1>2. sent[c].reading \in Nat /\ sent[c].since \in Nat
    BY <1>1 DEF Call
  <1> QED
    BY <1>1, <1>2, ConstantTypes DEF IInv, SentRecently

\* No call that arrives can cut the entry of a call that counts.
LEMMA CountedKept ==
    ASSUME IInv, NEW t \in Nat, t <= now + MaxSkew, NEW a \in admitted
    PROVE  a.reading \in Kept(t)
  <1>1. /\ a.reading \in Nat /\ a.at \in Nat /\ now \in Nat /\ expires \in Nat
    BY DEF IInv, TypeOK, Admission
  <1>2. /\ a.reading \in entries /\ a.at <= now /\ now + Spread < a.at + Window
        /\ a.at <= a.reading + MaxDelay /\ a.at + TTL <= expires
    BY DEF IInv, AdmittedHeld
  <1>3. now <= expires
    BY <1>1, <1>2, ConstantTypes
  <1>4. a.reading > t - Window
    BY <1>1, <1>2, ConstantTypes
  <1> QED
    BY <1>2, <1>3, <1>4 DEF Kept, Live

\* Entering the reading of a call keeps the set within the limit.
LEMMA EnterTypes ==
    ASSUME TypeOK, NEW t \in Nat, Enter(t)
    PROVE  /\ entries' \in SUBSET Nat
           /\ IsFiniteSet(entries')
           /\ Cardinality(entries') <= MaxRequests
           /\ expires' \in Nat
           /\ expires' = now + TTL
           /\ Kept(t) \subseteq entries'
           /\ t \in entries'
  <1>1. entries' = Kept(t) \cup {t} /\ Cardinality(Kept(t)) < MaxRequests
    BY DEF Enter, HasRoom
  <1>2. /\ Kept(t) \in SUBSET Nat /\ IsFiniteSet(Kept(t)) /\ Cardinality(Kept(t)) \in Nat
    BY KeptIsPart
  <1>3. /\ IsFiniteSet(Kept(t) \cup {t})
        /\ Cardinality(Kept(t) \cup {t}) <= Cardinality(Kept(t)) + 1
    BY <1>2, FS_AddElement
  <1>4. Cardinality(Kept(t) \cup {t}) \in Nat
    BY <1>3, FS_CardinalityType
  <1>5. expires' = now + TTL /\ now \in Nat
    BY DEF Enter, TypeOK
  <1> QED
    BY <1>1, <1>2, <1>3, <1>4, <1>5, ConstantTypes

\* What a call that does not enter does to the set: a cut, and the expiry may
\* be renewed.
Cut(t) ==
    /\ entries' = Kept(t)
    /\ expires' = expires \/ expires' = now + TTL

LEMMA CutTypes ==
    ASSUME TypeOK, NEW t \in Nat, Cut(t)
    PROVE  /\ entries' \in SUBSET Nat
           /\ IsFiniteSet(entries')
           /\ Cardinality(entries') <= MaxRequests
           /\ expires' \in Nat
  <1>1. expires \in Nat /\ now \in Nat /\ TTL \in Nat
    BY ConstantTypes DEF TypeOK
  <1> QED
    BY <1>1, KeptIsPart DEF Cut

\* No step but Enter adds an entry, or brings back one that has expired.
LEMMA CutLive ==
    ASSUME TypeOK, NEW t \in Nat, Cut(t), now' = now
    PROVE  Live' \subseteq Live
  BY DEF Cut, Kept, Live, TypeOK
-----------------------------------------------------------------------------
(* What the steps of a call have in common. *)

\* A call that arrives leaves the entries that count, and their expiry.
LEMMA HeldKept ==
    ASSUME IInv, NEW t \in Nat, t <= now + MaxSkew, Enter(t) \/ Cut(t),
           NEW a \in admitted
    PROVE  a.reading \in entries' /\ a.at + TTL <= expires'
  <1>1. /\ a.at \in Nat /\ now \in Nat /\ expires \in Nat
        /\ a.at <= now /\ a.at + TTL <= expires
    BY DEF IInv, TypeOK, Admission, AdmittedHeld
  <1>2. a.reading \in Kept(t)
    BY CountedKept
  <1>3. expires' = expires \/ expires' = now + TTL
    BY DEF Enter, Cut
  <1>4. Kept(t) \subseteq entries'
    BY DEF Enter, Cut
  <1> QED
    BY <1>1, <1>2, <1>3, <1>4, ConstantTypes

\* Calls that return, or are sent again, leave the others under way.
LEMMA SentKept ==
    ASSUME IInv, NEW c \in Clients, UNCHANGED sent \/ Return(c), now' = now
    PROVE  sent' \in [Clients -> Call \cup {NoCall}] /\ SentRecently'
  <1>1. sent \in [Clients -> Call \cup {NoCall}]
    BY DEF IInv, TypeOK
  <1>2. sent' \in [Clients -> Call \cup {NoCall}]
    BY <1>1 DEF Return
  <1>3. ASSUME NEW d \in Clients, sent'[d] # NoCall
        PROVE  sent'[d] = sent[d]
    BY <1>1, <1>3 DEF Return
  <1> QED
    BY <1>2, <1>3 DEF IInv, SentRecently

\* The steps that enter or cut, and admit nobody.
LEMMA CallInv ==
    ASSUME IInv, NEW c \in Clients, sent[c] # NoCall,
           Enter(sent[c].reading) \/ Cut(sent[c].reading),
           UNCHANGED sent \/ Return(c),
           refusal' \in Refusal \cup {NoRefusal}, faults' \in Nat,
           UNCHANGED <<now, admitted>>
    PROVE  IInv'
  <1>1. sent[c].reading \in Nat /\ sent[c].reading <= now + MaxSkew
    BY ReadingNearNow
  <1>2. /\ entries' \in SUBSET Nat
        /\ IsFiniteSet(entries')
        /\ Cardinality(entries') <= MaxRequests
        /\ expires' \in Nat
    BY <1>1, EnterTypes, CutTypes DEF IInv
  <1>3. sent' \in [Clients -> Call \cup {NoCall}] /\ SentRecently'
    BY SentKept
  <1>4. TypeOK'
    BY <1>2, <1>3 DEF IInv, TypeOK
  <1>5. AdmittedHeld'
    BY <1>1, HeldKept DEF IInv, AdmittedHeld
  <1>6. IsFiniteSet(admitted)' /\ OwnDistinct'
    BY DEF IInv, OwnDistinct
  <1> QED
    BY <1>3, <1>4, <1>5, <1>6 DEF IInv

-----------------------------------------------------------------------------
(* The invariant is inductive. *)

LEMMA InitInv == Init => IInv
  <1> SUFFICES ASSUME Init PROVE IInv
    OBVIOUS
  <1>1. IsFiniteSet({}) /\ Cardinality({}) = 0
    BY FS_EmptySet
  <1>2. TypeOK
    BY <1>1, ConstantTypes DEF Init, TypeOK
  <1>3. SentRecently
    BY DEF Init, SentRecently
  <1>4. AdmittedHeld /\ OwnDistinct /\ IsFiniteSet(admitted)
    BY <1>1 DEF Init, AdmittedHeld, OwnDistinct
  <1> QED
    BY <1>2, <1>3, <1>4 DEF IInv

LEMMA SendInv ==
    ASSUME IInv, NEW c \in Clients, NEW op \in Ops, Send(c, op)
    PROVE  IInv'
  <1>1. sent \in [Clients -> Call \cup {NoCall}] /\ now \in Nat /\ faults \in Nat
    BY DEF IInv, TypeOK
  <1>2. Skew[c] \in Nat /\ Skew[c] <= MaxSkew
    BY ConstantTypes
  <1> DEFINE call == [op |-> op, reading |-> now + Skew[c], since |-> now]
  <1>3. /\ sent' = [sent EXCEPT ![c] = call]
        /\ UNCHANGED <<entries, expires, now, admitted, refusal, faults>>
    BY DEF Send, NoFault
  <1>4. call \in Call
    BY <1>1, <1>2 DEF Call
  <1>5. sent' \in [Clients -> Call \cup {NoCall}]
    BY <1>1, <1>3, <1>4
  <1>6. /\ call.since <= now /\ now <= call.since + MaxDelay
        /\ call.since <= call.reading /\ call.reading <= call.since + MaxSkew
    BY <1>1, <1>2, ConstantTypes
  <1>7. ASSUME NEW d \in Clients, sent'[d] # NoCall
        PROVE  sent'[d] = call \/ (sent[d] # NoCall /\ sent'[d] = sent[d])
    BY <1>1, <1>3, <1>7
  <1> HIDE DEF call
  <1>8. SentRecently'
    BY <1>3, <1>6, <1>7 DEF IInv, SentRecently
  <1>9. TypeOK'
    BY <1>3, <1>5 DEF IInv, TypeOK
  <1>10. IsFiniteSet(admitted)' /\ AdmittedHeld' /\ OwnDistinct'
    BY <1>3 DEF IInv, AdmittedHeld, OwnDistinct
  <1> QED
    BY <1>8, <1>9, <1>10 DEF IInv

\* A call let through counts from now on.  It has an entry of its own only if
\* no call that counts has the same.
LEMMA AllowInv ==
    ASSUME IInv, NEW c \in Clients, Allow(c)
    PROVE  IInv'
  <1> DEFINE t == sent[c].reading
             same == {a \in admitted : a.at = now}
             new == [call |-> Cardinality(same), reading |-> t, at |-> now,
                     own |-> t \notin Kept(t)]
  <1>1. sent[c] # NoCall
    BY DEF Allow, NoCall
  <1>2. /\ t \in Nat /\ t <= now + MaxSkew /\ now <= t + MaxDelay
    BY <1>1, ReadingNearNow
  <1>3. /\ Enter(t) /\ Return(c)
        /\ admitted' = admitted \cup {new}
        /\ refusal' = NoRefusal
        /\ UNCHANGED <<now, faults>>
    BY DEF Allow, NoFault
  <1>4. /\ entries' \in SUBSET Nat /\ IsFiniteSet(entries')
        /\ Cardinality(entries') <= MaxRequests
        /\ expires' \in Nat /\ expires' = now + TTL /\ t \in entries'
    BY <1>2, <1>3, EnterTypes DEF IInv
  <1>5. sent' \in [Clients -> Call \cup {NoCall}] /\ SentRecently'
    BY <1>3, SentKept
  <1>6. IsFiniteSet(admitted) /\ admitted \in SUBSET Admission /\ now \in Nat /\ faults \in Nat
    BY DEF IInv, TypeOK
  <1>7. Cardinality(same) \in Nat
    <2>1. same \subseteq admitted
      OBVIOUS
    <2> QED
      BY <1>6, <2>1, FS_Subset, FS_CardinalityType
  <1>8. new \in Admission
    BY <1>2, <1>6, <1>7 DEF Admission
  <1>9. /\ new.reading = t /\ new.at = now /\ (new.own <=> t \notin Kept(t))
    OBVIOUS
  <1>10. \A a \in admitted : a.reading \in Kept(t)
    BY <1>2, CountedKept
  <1>11. \A a \in admitted : a.reading \in entries' /\ a.at + TTL <= expires'
    BY <1>2, <1>3, HeldKept
  <1> HIDE DEF new
  <1>12. TypeOK'
    BY <1>3, <1>4, <1>5, <1>6, <1>8 DEF TypeOK
  <1>13. IsFiniteSet(admitted)'
    BY <1>3, <1>6, FS_AddElement
  <1>14. /\ new.reading \in entries' /\ new.at <= now
         /\ now + Spread < new.at + Window
         /\ new.at <= new.reading + MaxDelay /\ new.at + TTL <= expires'
    BY <1>2, <1>4, <1>6, <1>9, ConstantTypes
  <1>15. AdmittedHeld'
    BY <1>3, <1>11, <1>14 DEF IInv, AdmittedHeld
  <1>16. OwnDistinct'
    BY <1>3, <1>9, <1>10 DEF IInv, OwnDistinct
  <1> QED
    BY <1>5, <1>12, <1>13, <1>15, <1>16 DEF IInv

\* The other steps of a call are cuts or entries that admit nobody.
LEMMA RefuseInv ==
    ASSUME IInv, NEW c \in Clients, Refuse(c)
    PROVE  IInv'
  <1>1. sent[c] # NoCall
    BY DEF Refuse, NoCall
  <1>2. sent[c].reading \in Nat
    BY <1>1, ReadingNearNow
  <1>3. Cut(sent[c].reading)
    BY DEF Refuse, TurnAway, Cut
  <1>4. PICK oldest \in Kept(sent[c].reading) :
           refusal' = [reading |-> sent[c].reading,
                       retryAfter |-> RetryAfter(oldest, sent[c].reading)]
    BY DEF Refuse
  <1>5. oldest \in Nat
    BY KeptIsPart DEF IInv
  <1>6. RetryAfter(oldest, sent[c].reading) \in Nat
    BY <1>2, <1>5, ConstantTypes DEF RetryAfter
  <1>7. refusal' \in Refusal
    BY <1>2, <1>4, <1>6 DEF Refusal
  <1>8. Return(c) /\ faults' \in Nat /\ UNCHANGED <<now, admitted>>
    BY DEF Refuse, NoFault, IInv, TypeOK
  <1> QED
    BY <1>1, <1>3, <1>7, <1>8, CallInv

LEMMA GetWindowStateInv ==
    ASSUME IInv, NEW c \in Clients, GetWindowState(c)
    PROVE  IInv'
  <1>1. sent[c] # NoCall
    BY DEF GetWindowState, NoCall
  <1>2. Cut(sent[c].reading)
    BY DEF GetWindowState, Cut
  <1>3. /\ Return(c) /\ UNCHANGED <<now, admitted>>
        /\ faults' \in Nat /\ refusal' \in Refusal \cup {NoRefusal}
    BY DEF GetWindowState, NoFault, IInv, TypeOK
  <1> QED
    BY <1>1, <1>2, <1>3, CallInv

LEMMA UnansweredInv ==
    ASSUME IInv, NEW c \in Clients, Unanswered(c)
    PROVE  IInv'
  <1>1. sent[c] # NoCall
    BY DEF Unanswered, NoCall
  <1>2. Enter(sent[c].reading) \/ Cut(sent[c].reading)
    BY DEF Unanswered, TurnAway, Cut
  <1>3. /\ UNCHANGED sent \/ Return(c)
        /\ UNCHANGED <<now, admitted>>
        /\ refusal' \in Refusal \cup {NoRefusal}
    BY DEF Unanswered, IInv, TypeOK
  <1>4. faults' \in Nat
    BY DEF Unanswered, Fault, IInv, TypeOK
  <1> QED
    BY <1>1, <1>2, <1>3, <1>4, CallInv

LEMMA CallFailsInv ==
    ASSUME IInv, NEW c \in Clients, CallFails(c)
    PROVE  IInv'
  <1>1. /\ Return(c) /\ faults' = faults + 1
        /\ UNCHANGED <<entries, expires, now, admitted, refusal>>
    BY DEF CallFails, Fault
  <1>2. sent' \in [Clients -> Call \cup {NoCall}] /\ SentRecently'
    BY <1>1, SentKept
  <1>3. TypeOK'
    BY <1>1, <1>2 DEF IInv, TypeOK
  <1>4. IsFiniteSet(admitted)' /\ AdmittedHeld' /\ OwnDistinct'
    BY <1>1 DEF IInv, AdmittedHeld, OwnDistinct
  <1> QED
    BY <1>2, <1>3, <1>4 DEF IInv

LEMMA ClearWindowInv ==
    ASSUME IInv, ClearWindow
    PROVE  IInv'
  <1>1. /\ entries' = {} /\ admitted' = {}
        /\ UNCHANGED <<expires, now, sent, refusal, faults>>
    BY DEF ClearWindow, NoFault
  <1>2. IsFiniteSet({}) /\ Cardinality({}) = 0
    BY FS_EmptySet
  <1>3. TypeOK'
    BY <1>1, <1>2, ConstantTypes DEF IInv, TypeOK
  <1>4. IsFiniteSet(admitted)' /\ AdmittedHeld' /\ OwnDistinct' /\ SentRecently'
    BY <1>1, <1>2 DEF IInv, AdmittedHeld, OwnDistinct, SentRecently
  <1> QED
    BY <1>3, <1>4 DEF IInv

LEMMA TickInv ==
    ASSUME IInv, Tick
    PROVE  IInv'
  <1>1. now \in Nat /\ now' = now + 1 /\ UNCHANGED <<entries, expires, sent, refusal, faults>>
    BY DEF IInv, TypeOK, Tick, NoFault
  <1>2. admitted' = {a \in admitted : now' + Spread < a.at + Window}
    BY DEF Tick
  <1>3. admitted' \subseteq admitted
    BY <1>2
  <1>4. IsFiniteSet(admitted)'
    BY <1>3, FS_Subset DEF IInv
  <1>5. TypeOK'
    BY <1>1, <1>3 DEF IInv, TypeOK
  <1>6. SentRecently'
    <2> SUFFICES ASSUME NEW c \in Clients, sent[c] # NoCall
                 PROVE  /\ sent[c].since <= now'
                        /\ now' <= sent[c].since + MaxDelay
                        /\ sent[c].since <= sent[c].reading
                        /\ sent[c].reading <= sent[c].since + MaxSkew
      BY <1>1 DEF SentRecently
    <2>1. /\ sent[c].since <= now
          /\ sent[c].since <= sent[c].reading
          /\ sent[c].reading <= sent[c].since + MaxSkew
      BY DEF IInv, SentRecently
    <2>2. now < sent[c].since + MaxDelay
      BY DEF Tick
    <2>3. sent[c].since \in Nat
      BY DEF IInv, TypeOK, Call
    <2> QED
      BY <1>1, <2>1, <2>2, <2>3, ConstantTypes
  <1>7. AdmittedHeld'
    <2> SUFFICES ASSUME NEW a \in admitted'
                 PROVE  /\ a.reading \in entries
                        /\ a.at <= now'
                        /\ now' + Spread < a.at + Window
                        /\ a.at <= a.reading + MaxDelay
                        /\ a.at + TTL <= expires
      BY <1>1 DEF AdmittedHeld
    <2>1. /\ a \in admitted /\ now' + Spread < a.at + Window
      BY <1>2
    <2>2. a.at \in Nat /\ a.at <= now
      BY <2>1 DEF IInv, TypeOK, Admission, AdmittedHeld
    <2>3. a.at <= now'
      BY <1>1, <2>2
    <2> QED
      BY <2>1, <2>3 DEF IInv, AdmittedHeld
  <1>8. OwnDistinct'
    BY <1>3 DEF IInv, OwnDistinct
  <1> QED
    BY <1>4, <1>5, <1>6, <1>7, <1>8 DEF IInv

LEMMA NextInv == IInv /\ [Next]_vars => IInv'
  <1> SUFFICES ASSUME IInv, [Next]_vars PROVE IInv'
    OBVIOUS
  <1>1. CASE \E c \in Clients : \E op \in Ops : Send(c, op)
    BY <1>1, SendInv
  <1>2. CASE \E c \in Clients : Allow(c)
    BY <1>2, AllowInv
  <1>3. CASE \E c \in Clients : Refuse(c)
    BY <1>3, RefuseInv
  <1>4. CASE \E c \in Clients : GetWindowState(c)
    BY <1>4, GetWindowStateInv
  <1>5. CASE \E c \in Clients : Unanswered(c)
    BY <1>5, UnansweredInv
  <1>6. CASE \E c \in Clients : CallFails(c)
    BY <1>6, CallFailsInv
  <1>7. CASE ClearWindow
    BY <1>7, ClearWindowInv
  <1>8. CASE Tick
    BY <1>8, TickInv
  <1>9. CASE UNCHANGED vars
    BY <1>9 DEF vars, IInv, TypeOK, SentRecently, AdmittedHeld, OwnDistinct
  <1> QED
    BY <1>1, <1>2, <1>3, <1>4, <1>5, <1>6, <1>7, <1>8, <1>9 DEF Next

-----------------------------------------------------------------------------
(* The theorems. *)

\* The state keeps its types, and the sorted set never holds more than
\* MaxRequests entries.
THEOREM TypeCorrect == Spec => []TypeOK
  <1>1. IInv => TypeOK
    BY DEF IInv
  <1> QED
    BY InitInv, NextInv, <1>1, PTL DEF Spec

Own == {a \in admitted : a.own}

LEMMA InvBounded == IInv => WindowBounded
  <1> SUFFICES ASSUME IInv PROVE WindowBounded
    OBVIOUS
  <1> DEFINE Shared == {a \in admitted : ~a.own}
             reading == [a \in Own |-> a.reading]
  <1>1. IsFiniteSet(admitted) /\ IsFiniteSet(entries) /\ Cardinality(entries) <= MaxRequests
    BY DEF IInv, TypeOK
  <1>2. reading \in Injection(Own, entries)
    BY DEF IInv, AdmittedHeld, OwnDistinct, Own, Injection, IsInjective
  <1>3. Cardinality(Own) <= Cardinality(entries)
    BY <1>1, <1>2, FS_Injection
  <1>4. Own \subseteq admitted /\ Shared \subseteq admitted /\ admitted = Own \cup Shared
        /\ Own \cap Shared = {}
    BY DEF Own
  <1>5. IsFiniteSet(Own) /\ IsFiniteSet(Shared)
    BY <1>1, <1>4, FS_Subset
  <1>6. Cardinality(admitted) = Cardinality(Own) + Cardinality(Shared) - Cardinality(Own \cap Shared)
    BY <1>4, <1>5, FS_Union
  <1>7. Cardinality(Own \cap Shared) = 0
    BY <1>4, FS_EmptySet
  <1>8. /\ Cardinality(Own) \in Nat /\ Cardinality(Shared) \in Nat
        /\ Cardinality(entries) \in Nat /\ MaxRequests \in Nat
    BY <1>1, <1>5, FS_CardinalityType, ConstantTypes
  <1>9. Cardinality(admitted) <= MaxRequests + Cardinality(Shared)
    BY <1>1, <1>3, <1>6, <1>7, <1>8
  <1> QED
    BY <1>9 DEF WindowBounded

\* However clocks differ and calls are delayed, lost, or sent again, the limit
\* holds in every stretch shorter than the window by the differences.
THEOREM WindowKept == Spec => []WindowBounded
  BY InitInv, NextInv, InvBounded, PTL DEF Spec
-----------------------------------------------------------------------------
(* The answer to a refused client. *)

\* What is left of a window with room has room.
LEMMA RoomStays ==
    ASSUME IInv, NEW t, HasRoom(t), NEW k, k \subseteq Kept(t)
    PROVE  Cardinality(k) < MaxRequests
  <1>1. /\ IsFiniteSet(Kept(t)) /\ Cardinality(Kept(t)) \in Nat
        /\ Cardinality(Kept(t)) < MaxRequests /\ MaxRequests \in Nat
    BY KeptIsPart, ConstantTypes DEF IInv, HasRoom
  <1>2. IsFiniteSet(k) /\ Cardinality(k) <= Cardinality(Kept(t))
    BY <1>1, FS_Subset
  <1>3. Cardinality(k) \in Nat
    BY <1>2, FS_CardinalityType
  <1> QED
    BY <1>1, <1>2, <1>3

LEMMA RetryStays ==
    ASSUME IInv, RetrySuffices, Live' \subseteq Live, UNCHANGED refusal
    PROVE  RetrySuffices'
  <1> SUFFICES ASSUME refusal # NoRefusal
               PROVE  HasRoom(refusal.reading + refusal.retryAfter)'
    BY DEF RetrySuffices
  <1> DEFINE t == refusal.reading + refusal.retryAfter
  <1>1. HasRoom(t)
    BY DEF RetrySuffices
  <1>2. {e \in Live' : e > t - Window} \subseteq Kept(t)
    BY DEF Kept
  <1> HIDE DEF t
  <1>3. Cardinality({e \in Live' : e > t - Window}) < MaxRequests
    BY <1>1, <1>2, RoomStays
  <1> QED
    BY <1>3 DEF HasRoom, Kept, t

\* When the refused client may come again.
RetryTime == refusal.reading + refusal.retryAfter

\* Once the oldest entry a refused call found has left the window there is
\* room for one.
LEMMA RefuseRetry ==
    ASSUME IInv, NEW c \in Clients, Refuse(c)
    PROVE  RetrySuffices'
  <1> DEFINE t == sent[c].reading
  <1>1. sent[c] # NoCall
    BY DEF Refuse, NoCall
  <1>2. t \in Nat
    BY <1>1, ReadingNearNow
  <1>3. PICK oldest \in Kept(t) :
           /\ \A e \in Kept(t) : oldest <= e
           /\ refusal' = [reading |-> t, retryAfter |-> RetryAfter(oldest, t)]
    BY DEF Refuse
  <1>4. oldest \in Nat /\ oldest > t - Window /\ Window \in Nat
    BY <1>3, KeptIsPart, ConstantTypes DEF IInv, Kept
  <1>5. t + RetryAfter(oldest, t) = oldest + Window
    BY <1>2, <1>4 DEF RetryAfter
  <1>6. Cut(t) /\ now' = now
    BY DEF Refuse, TurnAway, Cut
  <1>7. Live' \subseteq Kept(t)
    BY <1>6 DEF Live, Cut
  <1>8. Kept(t) \subseteq Nat
    BY KeptIsPart DEF IInv
  <1> DEFINE left == {e \in Live' : e > oldest + Window - Window}
  <1>9. left \subseteq Kept(t) \ {oldest}
    <2>1. \A e \in Nat : e > oldest + Window - Window => e # oldest
      BY <1>4
    <2> QED
      BY <1>7, <1>8, <2>1
  <1>10. /\ IsFiniteSet(Kept(t)) /\ Cardinality(Kept(t)) \in Nat
         /\ Cardinality(Kept(t)) <= MaxRequests /\ MaxRequests \in Nat
    BY KeptIsPart, ConstantTypes DEF IInv
  <1>11. /\ IsFiniteSet(Kept(t) \ {oldest})
         /\ Cardinality(Kept(t) \ {oldest}) = Cardinality(Kept(t)) - 1
    BY <1>3, <1>10, FS_RemoveElement
  <1> HIDE DEF left
  <1>12. IsFiniteSet(left) /\ Cardinality(left) <= Cardinality(Kept(t) \ {oldest})
    BY <1>9, <1>11, FS_Subset
  <1>13. Cardinality(left) \in Nat
    BY <1>12, FS_CardinalityType
  <1>14. Cardinality(left) < MaxRequests
    BY <1>10, <1>11, <1>12, <1>13
  <1>15. RetryTime' = oldest + Window
    BY <1>3, <1>5 DEF RetryTime
  <1>16. HasRoom(refusal.reading + refusal.retryAfter)'
    <2>1. Kept(RetryTime)' = left
      BY <1>4, <1>15 DEF Kept, left
    <2> QED
      BY <1>14, <2>1 DEF HasRoom, RetryTime
  <1> QED
    BY <1>16 DEF RetrySuffices

LEMMA NextRetry == IInv /\ RetrySuffices /\ [Next]_vars => RetrySuffices'
  <1> SUFFICES ASSUME IInv, RetrySuffices, [Next]_vars PROVE RetrySuffices'
    OBVIOUS
  <1>1. CASE \E c \in Clients : Refuse(c)
    BY <1>1, RefuseRetry
  <1>2. ASSUME refusal' = NoRefusal PROVE RetrySuffices'
    BY <1>2 DEF RetrySuffices
  <1>3. CASE \E c \in Clients : Allow(c)
    BY <1>2, <1>3 DEF Allow
  <1>4. ASSUME NEW c \in Clients, sent[c] # NoCall, Cut(sent[c].reading),
               now' = now, UNCHANGED refusal
        PROVE  RetrySuffices'
    <2>1. sent[c].reading \in Nat
      BY <1>4, ReadingNearNow
    <2>2. Live' \subseteq Live
      BY <1>4, <2>1, CutLive DEF IInv
    <2> QED
      BY <1>4, <2>2, RetryStays
  <1>5. ASSUME NEW c \in Clients, Unanswered(c) PROVE RetrySuffices'
    <2>1. CASE refusal' = NoRefusal
      BY <1>2, <2>1
    <2>2. CASE TurnAway(sent[c].reading) /\ UNCHANGED refusal
      <3>1. sent[c] # NoCall /\ now' = now
        BY <1>5 DEF Unanswered, NoCall
      <3>2. Cut(sent[c].reading)
        BY <2>2 DEF TurnAway, Cut
      <3> QED
        BY <1>4, <2>2, <3>1, <3>2
    <2> QED
      BY <1>5, <2>1, <2>2 DEF Unanswered
  <1>6. ASSUME NEW c \in Clients, GetWindowState(c) PROVE RetrySuffices'
    <2>1. sent[c] # NoCall /\ now' = now /\ UNCHANGED refusal
      BY <1>6 DEF GetWindowState, NoCall
    <2>2. Cut(sent[c].reading)
      BY <1>6 DEF GetWindowState, Cut
    <2> QED
      BY <1>4, <2>1, <2>2
  <1>7. ASSUME Live' \subseteq Live, UNCHANGED refusal PROVE RetrySuffices'
    BY <1>7, RetryStays
  <1>8. CASE \E c \in Clients : CallFails(c) \/ \E op \in Ops : Send(c, op)
    BY <1>7, <1>8 DEF CallFails, Send, Live
  <1>9. CASE ClearWindow
    BY <1>7, <1>9 DEF ClearWindow, Live
  <1>10. CASE Tick
    <2>1. now \in Nat /\ expires \in Nat
      BY DEF IInv, TypeOK
    <2> QED
      BY <1>7, <1>10, <2>1 DEF Tick, Live
  <1>11. CASE UNCHANGED vars
    BY <1>7, <1>11 DEF vars, Live
  <1> QED
    BY <1>1, <1>3, <1>5, <1>6, <1>8, <1>9, <1>10, <1>11 DEF Next

\* A refused client that waits as long as it was told finds room, unless
\* another call got an entry meanwhile; no cut, loss or expiry takes it away.
THEOREM RetryIsEnough == Spec => []RetrySuffices
  <1>1. Init => RetrySuffices
    BY DEF Init, RetrySuffices
  <1> QED
    BY InitInv, NextInv, NextRetry, <1>1, PTL DEF Spec
=============================================================================
