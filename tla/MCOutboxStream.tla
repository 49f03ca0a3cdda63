---------------------------- MODULE MCOutboxStream ----------------------------
(***************************************************************************)
(* An instance of OutboxStream for TLC: one relay and the backfill.  The   *)
(* functions of Partitioning have no state: TLC evaluates what is said of  *)
(* them as assumptions of this module, for every hash of four bits.        *)
(***************************************************************************)
EXTENDS OutboxStream, Partitioning

CONSTANTS r1

\* All rows belong to one user, the case in which order matters.
OneUser == [e \in Events |-> "alice"]

\* A text for every hash, with another one in each of the two functions.
Every == 0 .. 2 * Half - 1

Plain == [t \in Every |-> t]

Mirrored == [t \in Every |-> 2 * Half - 1 - t]

ASSUME PartitionsEvaluated ==
    HashInRange /\ UserIDInRange /\ RoundRobinEven /\ CountIsLeastPower
=============================================================================
