----------------------------- MODULE Partitioning -----------------------------
(***************************************************************************)
(* The partition strategies (monolith/internal/kafka/partition.go) as      *)
(* functions on integers of a width, as Go computes them.  No producer     *)
(* calls a strategy; the Kafka client partitions by the message key.       *)
(*                                                                         *)
(* Half is 2^31 in the code, where int32 has the values from -Half up to   *)
(* Half - 1, and a hash those from 0 up to 2 * Half - 1.                   *)
(***************************************************************************)
EXTENDS Integers, FiniteSetsExt

CONSTANTS
    Half,        \* half of the integers
    Texts,       \* partition keys and aggregate ids
    NoKey,       \* no partition key, or an empty one
    EventTypes,  \* event types
    Crc,         \* Crc[t]: CRC32 of t
    Sha          \* Sha[t]: the first four bytes of the SHA256 of t

ASSUME PartitioningAssumption ==
    /\ Half \in Nat \ {0}
    /\ NoKey \notin Texts
    /\ Crc \in [Texts -> 0 .. 2 * Half - 1]
    /\ Sha \in [Texts -> 0 .. 2 * Half - 1]

\* What a strategy looks at.
Message == [partitionKey : Texts \cup {NoKey}, aggregateID : Texts, eventType : EventTypes]

Int32 == -Half .. Half - 1

-----------------------------------------------------------------------------
(* Arithmetic of int32. *)

\* int32(n) for an n of the same width without sign, and what an operation on
\* int32 leaves of its result when it is too large.
Wrapped(n) == IF n >= Half THEN n - 2 * Half ELSE n

\* n % m in Go: the remainder has the sign of n.
Remainder(n, m) == IF n >= 0 THEN n % m ELSE -((-n) % m)

-----------------------------------------------------------------------------
(* The strategies: GetPartition for message e and n partitions. *)

KeyOf(e) == IF e.partitionKey # NoKey THEN e.partitionKey ELSE e.aggregateID

\* HashPartitionStrategy.
HashPartition(e, n) ==
    IF n <= 0 THEN 0 ELSE Remainder(Wrapped(Crc[KeyOf(e)]), n)

\* TenantPartitionStrategy: the tenant is the key of the hash strategy, and
\* tenantsPerPartition is not used.
TenantPartition(e, n) == HashPartition(e, n)

\* UserIDPartitionStrategy: goes by the aggregate even where there is a key.
UserIDPartition(e, n) ==
    LET h == Wrapped(Sha[e.aggregateID])
    IN  IF n <= 0 THEN 0 ELSE Remainder(IF h < 0 THEN Wrapped(-h) ELSE h, n)

\* RoundRobinPartitionStrategy: the partition, and the counter it leaves.
RoundRobinPartition(counter, n) == IF n <= 0 THEN 0 ELSE Remainder(counter, n)

NextCounter(counter) == Wrapped(counter + 1)

\* CustomPartitionStrategy: strategies maps event types to one of the above,
\* default is the strategy of all others.
CustomPartition(strategies, default, counter, e, n) ==
    LET strategy == IF e.eventType \in DOMAIN strategies
                    THEN strategies[e.eventType] ELSE default
    IN  CASE strategy = "hash" -> HashPartition(e, n)
          [] strategy = "tenant" -> TenantPartition(e, n)
          [] strategy = "userID" -> UserIDPartition(e, n)
          [] strategy = "roundRobin" -> RoundRobinPartition(counter, n)

-----------------------------------------------------------------------------
(* GetOptimalPartitionCount. *)

Target(target) == IF target <= 0 THEN 1000 ELSE target

\* The partitions that are needed, before they are rounded up.
Needed(expected, target) ==
    LET quotient == expected \div Target(target)
    IN  IF quotient < 1 THEN 1 ELSE quotient

\* for nextPowerOf2 < partitions { nextPowerOf2 *= 2 }
NextPowerOf2(k) ==
    LET From[p \in 1 .. 2 * k] == IF p < k THEN From[2 * p] ELSE p
    IN  From[1]

OptimalPartitionCount(expected, target) == NextPowerOf2(Needed(expected, target))

-----------------------------------------------------------------------------
(* Properties. *)

\* The hash strategy names a partition, or the negative of one; the latter only
\* for a hash whose first bit is set.
HashInRange ==
    \A e \in Message, n \in 1 .. Half - 1 :
        \/ HashPartition(e, n) \in 0 .. n - 1
        \/ Crc[KeyOf(e)] >= Half /\ -HashPartition(e, n) \in 1 .. n - 1

\* Taking the absolute value fails for a single hash: that of the least
\* integer, which has none.
UserIDInRange ==
    \A e \in Message, n \in 1 .. Half - 1 :
        \/ UserIDPartition(e, n) \in 0 .. n - 1
        \/ Sha[e.aggregateID] = Half /\ -UserIDPartition(e, n) \in 1 .. n - 1

\* The counter after i calls.
Counter(c, i) ==
    LET After[j \in 0 .. i] == IF j = 0 THEN c ELSE NextCounter(After[j - 1])
    IN  After[i]

\* Until the counter wraps, n calls in a row use every partition once.  The Half
\* calls after it wrapped give no number above zero, so that they name
\* no partition but the first one; after them the counter is back at zero.
RoundRobinEven ==
    \A n \in 1 .. Half - 1 :
        /\ \A c \in 0 .. Half - n :
              {RoundRobinPartition(Counter(c, i), n) : i \in 0 .. n - 1} = 0 .. n - 1
        /\ \A i \in 0 .. Half - 1 :
              -RoundRobinPartition(Counter(Half - 1, 1 + i), n) \in 0 .. n - 1
        /\ NextCounter(Counter(Half - 1, Half)) = 0

\* The suggested count is the least power of two with one partition for every
\* whole target of the expected load.
CountIsLeastPower ==
    \A expected \in 0 .. 2 * Half, target \in 0 .. Half :
        OptimalPartitionCount(expected, target) =
            Min({p \in {2 ^ i : i \in 0 .. Half} : expected < (p + 1) * Target(target)})
=============================================================================
