-------------------------- MODULE PartitioningProofs --------------------------
(***************************************************************************)
(* Which partition numbers the strategies of Partitioning compute, for     *)
(* integers of every width.  A function that is defined by recursion is    *)
(* known by its values: a least argument at which it differed would have   *)
(* differed one earlier.                                                   *)
(***************************************************************************)
EXTENDS Partitioning, WellFoundedInduction, TLAPS

\* A remainder is smaller than the divisor and has the sign of the dividend.
LEMMA RemainderRange ==
    ASSUME NEW n \in Int, NEW m \in Nat \ {0}
    PROVE  /\ n >= 0 => Remainder(n, m) \in 0 .. m - 1
           /\ n < 0 => -Remainder(n, m) \in 0 .. m - 1
  <1>1. ASSUME NEW k \in Nat
        PROVE  k % m \in 0 .. m - 1
    OBVIOUS
  <1>2. CASE n >= 0
    <2>1. Remainder(n, m) = n % m
      BY <1>2 DEF Remainder
    <2> QED
      BY <1>1, <1>2, <2>1
  <1>3. CASE n < 0
    <2>1. Remainder(n, m) = -((-n) % m)
      BY <1>3 DEF Remainder
    <2>2. (-n) % m \in 0 .. m - 1
      BY <1>1, <1>3
    <2> QED
      BY <1>3, <2>1, <2>2
  <1> QED
    BY <1>2, <1>3

\* A remainder that is not a partition number is the negative of one.
LEMMA OutOfRange ==
    ASSUME NEW n \in Int, NEW m \in Nat \ {0},
           Remainder(n, m) \notin 0 .. m - 1
    PROVE  n < 0 /\ -Remainder(n, m) \in 1 .. m - 1
  <1>1. n < 0 /\ -Remainder(n, m) \in 0 .. m - 1
    BY RemainderRange
  <1>2. -Remainder(n, m) # 0
    <2> SUFFICES ASSUME -Remainder(n, m) = 0
                 PROVE  FALSE
      OBVIOUS
    <2>1. Remainder(n, m) = -((-n) % m)
      BY <1>1 DEF Remainder
    <2>2. (-n) % m \in Int
      BY <1>1
    <2> QED
      BY <2>1, <2>2
  <1> QED
    BY <1>1, <1>2

\* The key of a message is a text, and has a hash.
LEMMA HashType ==
    ASSUME NEW e \in Message
    PROVE  /\ Crc[KeyOf(e)] \in 0 .. 2 * Half - 1
           /\ Sha[e.aggregateID] \in 0 .. 2 * Half - 1
  BY PartitioningAssumption DEF Message, KeyOf

\* Half of the hashes are negative integers, and only they may leave the range.
THEOREM HashRange == HashInRange
  <1> SUFFICES ASSUME NEW e \in Message, NEW n \in 1 .. Half - 1,
                      HashPartition(e, n) \notin 0 .. n - 1
               PROVE  Crc[KeyOf(e)] >= Half /\ -HashPartition(e, n) \in 1 .. n - 1
    BY DEF HashInRange
  <1>1. n \in Nat \ {0} /\ Half \in Nat
    BY PartitioningAssumption
  <1>2. Crc[KeyOf(e)] \in 0 .. 2 * Half - 1
    BY HashType
  <1>3. HashPartition(e, n) = Remainder(Wrapped(Crc[KeyOf(e)]), n)
    BY <1>1 DEF HashPartition
  <1>4. Wrapped(Crc[KeyOf(e)]) \in Int
    BY <1>1, <1>2 DEF Wrapped
  <1>5. Wrapped(Crc[KeyOf(e)]) < 0 /\ -HashPartition(e, n) \in 1 .. n - 1
    BY <1>1, <1>3, <1>4, OutOfRange
  <1> QED
    BY <1>1, <1>2, <1>5 DEF Wrapped

\* Of all hashes only the least integer, which is its own negative, may leave
\* the range.
THEOREM UserIDRange == UserIDInRange
  <1> SUFFICES ASSUME NEW e \in Message, NEW n \in 1 .. Half - 1,
                      UserIDPartition(e, n) \notin 0 .. n - 1
               PROVE  Sha[e.aggregateID] = Half /\ -UserIDPartition(e, n) \in 1 .. n - 1
    BY DEF UserIDInRange
  <1> DEFINE h == Wrapped(Sha[e.aggregateID])
             a == IF h < 0 THEN Wrapped(-h) ELSE h
  <1>1. n \in Nat \ {0} /\ Half \in Nat
    BY PartitioningAssumption
  <1>2. Sha[e.aggregateID] \in 0 .. 2 * Half - 1
    BY HashType
  <1>3. UserIDPartition(e, n) = Remainder(a, n)
    BY <1>1 DEF UserIDPartition
  <1>4. a \in Int /\ (a < 0 => Sha[e.aggregateID] = Half)
    BY <1>1, <1>2 DEF Wrapped
  <1>5. a < 0 /\ -UserIDPartition(e, n) \in 1 .. n - 1
    <2> HIDE DEF a
    <2> QED
      BY <1>1, <1>3, <1>4, OutOfRange
  <1> QED
    BY <1>4, <1>5

-----------------------------------------------------------------------------
(* The round robin. *)

\* The counter is a value of the function that its recursion chooses.
LEMMA CounterIsChoice ==
    ASSUME NEW c \in Int, NEW i \in Nat
    PROVE  Counter(c, i) =
             (CHOOSE f : f = [j \in 0 .. i |-> IF j = 0 THEN c ELSE NextCounter(f[j - 1])])[i]
  BY DEF Counter

\* After i calls the counter has gone up by i, and wraps at most once on the way.
LEMMA CounterValue ==
    ASSUME NEW c \in 0 .. Half - 1, NEW i \in 0 .. Half
    PROVE  Counter(c, i) = Wrapped(c + i)
  <1> DEFINE Def(f) == f = [j \in 0 .. i |-> IF j = 0 THEN c ELSE NextCounter(f[j - 1])]
             F == CHOOSE f : Def(f)
             G == [j \in 0 .. i |-> Wrapped(c + j)]
  <1>1. Half \in Nat \ {0} /\ i \in Nat /\ c \in Nat
    BY PartitioningAssumption
  <1>2. Counter(c, i) = F[i]
    <2>1. c \in Int /\ i \in Nat
      BY <1>1
    <2> QED
      BY <2>1, CounterIsChoice, Zenon
  <1>3. ASSUME NEW j \in 1 .. i PROVE NextCounter(Wrapped(c + (j - 1))) = Wrapped(c + j)
    BY <1>1 DEF NextCounter, Wrapped
  <1>4. Wrapped(c + 0) = c
    BY <1>1 DEF Wrapped
  <1>5. Def(G)
    <2>1. ASSUME NEW j \in 0 .. i
          PROVE  G[j] = IF j = 0 THEN c ELSE NextCounter(G[j - 1])
      <3>1. CASE j = 0
        BY <1>1, <1>4, <3>1
      <3>2. CASE j # 0
        <4>1. j \in 1 .. i /\ j - 1 \in 0 .. i
          BY <1>1, <3>2
        <4> QED
          BY <1>3, <3>2, <4>1
      <3> QED
        BY <3>1, <3>2
    <2>2. G = [j \in 0 .. i |-> G[j]]
      OBVIOUS
    <2> HIDE DEF G
    <2> QED
      BY <2>1, <2>2
  <1>6. Def(F)
    BY <1>5
  <1> HIDE DEF F
  <1> DEFINE Differ == {j \in 0 .. i : F[j] # G[j]}
  <1>7. Differ = {}
    <2> SUFFICES ASSUME Differ # {} PROVE FALSE
      OBVIOUS
    <2>1. Differ \subseteq Nat
      BY <1>1
    <2>2. PICK j \in Differ : \A k \in Differ : ~(k < j)
      <3>1. PICK j \in Differ : \A k \in Differ : <<k, j>> \notin OpToRel(<, Nat)
        <4> HIDE DEF Differ
        <4> QED
          BY <2>1, NatLessThanWellFounded, WFMin
      <3>2. \A k \in Differ : k < j => <<k, j>> \in OpToRel(<, Nat)
        BY <2>1 DEF OpToRel
      <3> QED
        BY <3>1, <3>2
    <2>3. /\ j \in 0 .. i /\ F[j] # G[j]
          /\ F[j] = IF j = 0 THEN c ELSE NextCounter(F[j - 1])
          /\ G[j] = IF j = 0 THEN c ELSE NextCounter(G[j - 1])
      <3> HIDE DEF G
      <3> QED
        BY <1>5, <1>6
    <2>4. j - 1 \in 0 .. i /\ F[j - 1] # G[j - 1]
      <3> HIDE DEF G
      <3> QED
        BY <1>1, <2>3
    <2>5. j - 1 \in Differ /\ j - 1 < j
      BY <2>3, <2>4
    <2> QED
      BY <2>2, <2>5
  <1>8. F[i] = G[i] /\ G[i] = Wrapped(c + i)
    <2>1. i \in 0 .. i
      BY <1>1
    <2>2. F[i] = G[i]
      <3> HIDE DEF G
      <3> QED
        BY <1>7, <2>1
    <2> QED
      BY <2>1, <2>2
  <1> QED
    BY <1>2, <1>8

\* A remainder with whole multiples of the divisor added is itself again.
LEMMA MultipleStays ==
    ASSUME NEW n \in Nat \ {0}, NEW a \in Nat, NEW p \in 0 .. n - 1
    PROVE  (n * a + p) % n = p
  <1> DEFINE x == n * a + p
             q == x \div n
             r == x % n
  <1>1. x \in Nat /\ q \in Int /\ r \in 0 .. n - 1 /\ x = n * q + r
    OBVIOUS
  <1> HIDE DEF q, r
  <1>2. n * (a - q) = r - p
    BY <1>1
  <1>3. r - p < n /\ r - p > -n
    BY <1>1
  <1>4. a - q < 1
    <2>1. a - q >= 1 => n * (a - q) >= n
      BY <1>1
    <2> QED
      BY <1>1, <1>2, <1>3, <2>1
  <1>5. a - q > -1
    <2>1. a - q <= -1 => n * (a - q) <= -n
      BY <1>1
    <2> QED
      BY <1>1, <1>2, <1>3, <2>1
  <1>6. a = q
    BY <1>1, <1>4, <1>5
  <1>7. r = p
    BY <1>1, <1>6
  <1> QED
    BY <1>7 DEF r

\* Consecutive numbers, as many as there are partitions, have all remainders.
LEMMA RunCoversRange ==
    ASSUME NEW c \in Nat, NEW n \in Nat \ {0}
    PROVE  {(c + i) % n : i \in 0 .. n - 1} = 0 .. n - 1
  <1> DEFINE a == c \div n
             b == c % n
  <1>1. a \in Nat /\ b \in 0 .. n - 1 /\ c = n * a + b
    OBVIOUS
  <1>2. \A i \in 0 .. n - 1 : (c + i) % n \in 0 .. n - 1
    OBVIOUS
  <1> HIDE DEF a, b
  <1>3. ASSUME NEW p \in 0 .. n - 1
        PROVE  \E i \in 0 .. n - 1 : (c + i) % n = p
    <2>1. CASE p >= b
      <3>1. p - b \in 0 .. n - 1 /\ c + (p - b) = n * a + p
        BY <1>1, <2>1
      <3>2. (n * a + p) % n = p
        BY <1>1, MultipleStays
      <3> QED
        BY <3>1, <3>2
    <2>2. CASE p < b
      <3>1. p - b + n \in 0 .. n - 1 /\ c + (p - b + n) = n * a + n + p
        BY <1>1, <2>2
      <3>2. n * a + n = n * (a + 1)
        BY <1>1
      <3>3. (n * (a + 1) + p) % n = p
        <4>1. a + 1 \in Nat
          BY <1>1
        <4> QED
          BY <4>1, MultipleStays
      <3> QED
        BY <3>1, <3>2, <3>3
    <2> QED
      BY <1>1, <2>1, <2>2
  <1> QED
    BY <1>2, <1>3

\* The round robin goes evenly over the partitions as long as its counter does
\* not wrap; in the Half calls after it has, none of its numbers is positive,
\* and with the next one it starts over at zero.
THEOREM RoundRobin == RoundRobinEven
  <1> SUFFICES ASSUME NEW n \in 1 .. Half - 1
               PROVE  /\ \A c \in 0 .. Half - n :
                            {RoundRobinPartition(Counter(c, i), n) : i \in 0 .. n - 1} = 0 .. n - 1
                      /\ \A i \in 0 .. Half - 1 :
                            -RoundRobinPartition(Counter(Half - 1, 1 + i), n) \in 0 .. n - 1
                      /\ NextCounter(Counter(Half - 1, Half)) = 0
    BY DEF RoundRobinEven
  <1>1. Half \in Nat \ {0} /\ n \in Nat \ {0} /\ n < Half
    BY PartitioningAssumption
  <1>2. ASSUME NEW c \in 0 .. Half - n
        PROVE  {RoundRobinPartition(Counter(c, i), n) : i \in 0 .. n - 1} = 0 .. n - 1
    <2>1. ASSUME NEW i \in 0 .. n - 1
          PROVE  RoundRobinPartition(Counter(c, i), n) = (c + i) % n
      <3>1. c \in 0 .. Half - 1 /\ i \in 0 .. Half /\ c + i \in 0 .. Half - 1
        BY <1>1
      <3>2. Counter(c, i) = c + i
        BY <1>1, <3>1, CounterValue DEF Wrapped
      <3> QED
        BY <1>1, <3>1, <3>2 DEF RoundRobinPartition, Remainder
    <2>2. {(c + i) % n : i \in 0 .. n - 1} = 0 .. n - 1
      <3>1. c \in Nat
        BY <1>1
      <3> QED
        BY <1>1, <3>1, RunCoversRange
    <2> QED
      BY <2>1, <2>2
  <1>3. ASSUME NEW i \in 0 .. Half - 1
        PROVE  -RoundRobinPartition(Counter(Half - 1, 1 + i), n) \in 0 .. n - 1
    <2>1. Half - 1 \in 0 .. Half - 1 /\ 1 + i \in 0 .. Half
      BY <1>1
    <2>2. Counter(Half - 1, 1 + i) = i - Half /\ i - Half \in Int /\ i - Half < 0
      BY <1>1, <2>1, CounterValue DEF Wrapped
    <2>3. -Remainder(i - Half, n) \in 0 .. n - 1
      BY <1>1, <2>2, RemainderRange
    <2> QED
      BY <1>1, <2>2, <2>3 DEF RoundRobinPartition
  <1>4. NextCounter(Counter(Half - 1, Half)) = 0
    <2>1. Half - 1 \in 0 .. Half - 1 /\ Half \in 0 .. Half
      BY <1>1
    <2>2. Counter(Half - 1, Half) = -1
      BY <1>1, <2>1, CounterValue DEF Wrapped
    <2> QED
      BY <1>1, <2>2 DEF NextCounter, Wrapped
  <1> QED
    BY <1>2, <1>3, <1>4
=============================================================================
