---------------------------- MODULE MCOutboxRelay ----------------------------
(***************************************************************************)
(* Instances of OutboxRelay for TLC.                                       *)
(***************************************************************************)
EXTENDS OutboxRelay, TLC

CONSTANTS r1, r2

\* All rows belong to one user, the case in which order matters.
OneUser == [e \in Events |-> "alice"]

\* Relays are interchangeable; used with safety properties only.
RelaySymmetry == Permutations(Relays)
=============================================================================
