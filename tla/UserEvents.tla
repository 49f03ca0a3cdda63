------------------------------ MODULE UserEvents ------------------------------
(***************************************************************************)
(* What the user service promises to the relay: a user row and the outbox  *)
(* event that announces it change in one step, and the events of one user  *)
(* carry the states of its row in the order the row went through them.     *)
(***************************************************************************)
EXTENDS Naturals

CONSTANTS Users, Emails, NoEmail

VARIABLES
    users,  \* users[u]: the email of u, NoEmail while there is no row
    outbox  \* the committed outbox events

vars == <<users, outbox>>

EventTypes == {"user.created", "user.updated"}

Init ==
    /\ users \in [Users -> Emails \cup {NoEmail}]
    /\ \A u, v \in Users : u # v /\ users[u] = users[v] => users[u] = NoEmail
    /\ outbox = {}

\* The row of u becomes m, under an event dated after all others of u.
Change(u, m) ==
    /\ \A v \in Users \ {u} : users[v] # m
    /\ users' = [users EXCEPT ![u] = m]
    /\ \E e \in outbox' :
          /\ outbox' = outbox \cup {e}
          /\ e.user = u
          /\ e.email = m
          /\ e.type = IF users[u] = NoEmail THEN "user.created" ELSE "user.updated"
          /\ \A f \in outbox : f.user = u => f.createdAt < e.createdAt

Next == \E u \in Users, m \in Emails : Change(u, m)

Spec == Init /\ [][Next]_vars
=============================================================================
