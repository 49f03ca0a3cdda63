---------------------------- MODULE MCUserService ----------------------------
(***************************************************************************)
(* Instances of UserService for TLC.                                       *)
(***************************************************************************)
EXTENDS UserService, TLC

CONSTANTS u1, u2, a, b

\* Nobody is registered, or everybody is, so that two updates can meet.
MCTables == {[u \in Users |-> NoEmail], u1 :> a @@ u2 :> b}
=============================================================================
