--------------------------- MODULE UserServiceProofs ---------------------------
(***************************************************************************)
(* Proofs about UserService, for any requests, users, emails and faults.   *)
(*                                                                         *)
(* Everything rests on what the row locks give a request that has written  *)
(* its user row: nobody else is changing that user or taking that email.   *)
(* Its event is dated under the lock, so that it is later than all events  *)
(* of the user, and stays so until the commit.                             *)
(***************************************************************************)
EXTENDS UserService, FiniteSetTheorems, WellFoundedInduction, TLAPS

\* A request that has arrived asks for something, and is answered once.
Known == \A q \in Requests : stage[q] # "new" => op[q] \in Op

RepliedDone == \A q \in Requests : reply[q] # "none" => stage[q] = "done"

InTransaction(q) == stage[q] \in {"validate", "write", "index", "event", "commit"}

Opened == \A q \in Requests : InTransaction(q) => q \in open /\ op[q].kind # "get"

\* The request has locked its row, and has entered its email, but not yet
\* committed.
HasRow(q) == stage[q] \in {"index", "event", "commit"}

HasWritten(q) == stage[q] \in {"event", "commit"}

\* The locks: of a user and of an email there is one writer at a time.
Exclusive ==
    \A q, r \in Requests : q # r =>
        /\ HasRow(q) /\ HasRow(r) => op[q].user # op[r].user
        /\ HasWritten(q) /\ HasWritten(r) => op[q].email # op[r].email

Reserved ==
    \A q \in Requests : HasWritten(q) =>
        \A u \in Users \ {op[q].user} : users[u] # op[q].email

Dated ==
    /\ \A q \in Requests : createdAt[q] <= clock
    /\ \A e \in outbox : e.createdAt <= clock

\* An event that waits for its commit is later than all of its user.
DatedLast ==
    \A q \in Requests : stage[q] = "commit" =>
        \A e \in outbox : e.user = op[q].user => e.createdAt < createdAt[q]

\* Ids are fresh: no two requests insert the same user, and it is not there
\* before its insert commits.  An update has seen its user.
OneInsert ==
    \A q, r \in Requests :
        q # r /\ op[q].kind \in Inserts /\ op[r].kind \in Inserts => op[q].user # op[r].user

RowsAsSeen ==
    \A q \in Requests :
        /\ op[q].kind \in Inserts /\ stage[q] # "new" /\ stage[q] # "done"
              => users[op[q].user] = NoEmail
        /\ op[q].kind = "update" /\ stage[q] \in {"write", "index", "event", "commit"}
              => users[op[q].user] # NoEmail

Typed == TypeOK /\ Known

Locks ==
    /\ RepliedDone
    /\ Opened
    /\ Exclusive
    /\ Reserved
    /\ Dated
    /\ DatedLast
    /\ OneInsert
    /\ RowsAsSeen

IInv == Typed /\ Locks /\ Durable /\ LatestEventIsRow

-----------------------------------------------------------------------------
(* Types. *)

\* The operation of a request that is at work.
LEMMA OpTypes ==
    ASSUME Typed, NEW q \in Requests, stage[q] # "new"
    PROVE  /\ op[q] \in Op
           /\ op[q].user \in Users
           /\ op[q].kind \in Kinds
           /\ op[q].kind # "get" => op[q].email \in Emails
  <1>1. op[q] \in Op
    BY DEF Typed, Known
  <1> QED
    BY <1>1 DEF Op, Kinds

LEMMA InitTyped == Init => Typed
  BY TablesAssumption DEF Init, Typed, TypeOK, Known, Stages, Replies

LEMMA NextTyped == Typed /\ Opened /\ [Next]_vars => Typed'
  <1> SUFFICES ASSUME Typed, Opened, [Next]_vars PROVE Typed'
    OBVIOUS
  <1>t. /\ users \in [Users -> Emails \cup {NoEmail}]
        /\ outbox \subseteq OutboxEvent
        /\ clock \in Nat
        /\ op \in [Requests -> Op \cup {NoOp}]
        /\ stage \in [Requests -> Stages]
        /\ createdAt \in [Requests -> Nat]
        /\ open \subseteq Requests
        /\ reply \in [Requests -> Replies]
        /\ faults \in Nat
    BY DEF Typed, TypeOK
  <1>k. ASSUME UNCHANGED op, \A p \in Requests : stage'[p] # "new" => stage[p] # "new"
        PROVE  Known'
    BY <1>k DEF Typed, Known
  <1>a. ASSUME NEW q \in Requests, stage[q] # "new", NEW a \in Replies, Answer(q, a),
               UNCHANGED op
        PROVE  /\ stage' \in [Requests -> Stages] /\ reply' \in [Requests -> Replies]
               /\ Known'
    BY <1>t, <1>a, <1>k DEF Answer, Stages
  <1>f. NoFault \/ Fault => faults' \in Nat
    BY <1>t DEF NoFault, Fault
  <1>1. ASSUME NEW q \in Requests, NEW o \in Op, Receive(q, o) PROVE Typed'
    <2>1. op' \in [Requests -> Op \cup {NoOp}] /\ stage' \in [Requests -> Stages]
      BY <1>t, <1>1 DEF Receive, Stages
    <2>2. Known'
      BY <1>t, <1>1 DEF Receive, Typed, Known
    <2> QED
      BY <1>t, <1>f, <1>1, <2>1, <2>2 DEF Receive, Typed, TypeOK
  <1>2. ASSUME NEW q \in Requests, BeginTx(q) \/ WriteUser(q) \/ EnterEmail(q)
        PROVE  Typed'
    <2>1. stage' \in [Requests -> Stages] /\ Known' /\ open' \subseteq Requests
      BY <1>t, <1>2, <1>k DEF BeginTx, WriteUser, EnterEmail, Stages
    <2> QED
      BY <1>t, <1>f, <1>2, <2>1 DEF BeginTx, WriteUser, EnterEmail, Typed, TypeOK
  <1>3. ASSUME NEW q \in Requests, Validate(q) PROVE Typed'
    <2>1. stage' \in [Requests -> Stages] /\ Known' /\ reply' \in [Requests -> Replies]
      BY <1>t, <1>3, <1>k DEF Validate, Answer, Stages, Replies
    <2> QED
      BY <1>t, <1>f, <1>3, <2>1 DEF Validate, Typed, TypeOK
  <1>4. ASSUME NEW q \in Requests, WriteEvent(q) PROVE Typed'
    <2>1. stage' \in [Requests -> Stages] /\ Known'
      BY <1>t, <1>4, <1>k DEF WriteEvent, Stages
    <2>2. clock' \in Nat
      BY <1>t, <1>4 DEF WriteEvent
    <2>3. createdAt' \in [Requests -> Nat]
      BY <1>t, <1>4, <2>2 DEF WriteEvent
    <2> QED
      BY <1>t, <1>f, <1>4, <2>1, <2>2, <2>3 DEF WriteEvent, Typed, TypeOK
  <1>5. ASSUME NEW q \in Requests, WriteRefused(q) \/ DeadlockDetected(q) \/ StatementFails(q)
        PROVE  Typed'
    <2>1. stage[q] # "new" /\ RollBack(q)
      BY <1>5 DEF WriteRefused, DeadlockDetected, StatementFails
    <2>2. ErrorReply(q) \in Replies
      BY DEF ErrorReply, Replies
    <2>3. faults' \in Nat
      BY <1>5, <1>f DEF WriteRefused, DeadlockDetected, StatementFails
    <2> QED
      BY <1>t, <1>a, <2>1, <2>2, <2>3 DEF RollBack, Typed, TypeOK
  <1>6. ASSUME NEW q \in Requests, Commit(q) \/ CommitUnacknowledged(q) PROVE Typed'
    <2>1. /\ stage[q] = "commit" /\ Committed(q) /\ UNCHANGED <<clock, op, createdAt>>
          /\ \E a \in Replies : Answer(q, a)
          /\ faults' \in Nat
      BY <1>6, <1>f DEF Commit, CommitUnacknowledged, ErrorReply, Replies
    <2>2. op[q].user \in Users /\ op[q].email \in Emails
      BY <2>1, OpTypes DEF Opened, InTransaction
    <2>3. EventOf(q) \in OutboxEvent
      BY <1>t, <2>2 DEF EventOf, OutboxEvent, EventTypes
    <2>4. /\ users' \in [Users -> Emails \cup {NoEmail}]
          /\ outbox' \subseteq OutboxEvent
          /\ open' \subseteq Requests
      BY <1>t, <2>1, <2>2, <2>3 DEF Committed
    <2> QED
      BY <1>t, <1>a, <2>1, <2>4 DEF Typed, TypeOK
  <1>7. ASSUME NEW q \in Requests, GetUser(q) PROVE Typed'
    <2>1. stage[q] # "new" /\ \E a \in Replies : Answer(q, a)
      BY <1>7 DEF GetUser, Replies
    <2> QED
      BY <1>t, <1>a, <1>f, <1>7, <2>1 DEF GetUser, Typed, TypeOK
  <1>8. ASSUME Crash PROVE Typed'
    <2>1. stage' \in [Requests -> Stages] /\ Known'
      BY <1>t, <1>8, <1>k DEF Crash, Stages
    <2> QED
      BY <1>t, <1>f, <1>8, <2>1 DEF Crash, Typed, TypeOK
  <1>9. ASSUME UNCHANGED vars PROVE Typed'
    BY <1>t, <1>9, <1>k DEF vars, Typed, TypeOK
  <1> QED
    BY <1>1, <1>2, <1>3, <1>4, <1>5, <1>6, <1>7, <1>8, <1>9 DEF Next, RequestStep

-----------------------------------------------------------------------------
(* Steps that leave rows and events alone. *)

\* One request moves; its operation stays.
Moves(q) ==
    /\ UNCHANGED <<users, outbox, op>>
    /\ \A p \in Requests \ {q} :
          /\ stage'[p] = stage[p] /\ reply'[p] = reply[p]
          /\ createdAt'[p] = createdAt[p] /\ (p \in open' <=> p \in open)

\* Requests that have not written may go on as they like, those that have may
\* end or date their event.
LEMMA MovesKeepLocks ==
    ASSUME IInv, NEW q \in Requests, Moves(q), stage[q] \notin {"new", "done"},
           stage'[q] # "new",
           InTransaction(q)' => q \in open' /\ op[q].kind # "get",
           reply'[q] # "none" => stage'[q] = "done",
           reply'[q] = "ok" => op[q].kind = "get",
           HasRow(q)' => HasRow(q) \/ ~WaitsForRow(q),
           HasWritten(q)' => HasWritten(q) \/ (~WaitsForEmail(q) /\ ~EmailTaken(q)),
           op[q].kind = "update" /\ stage'[q] \in {"write", "index", "event", "commit"} =>
              users[op[q].user] # NoEmail,
           clock' \in Nat, clock <= clock', createdAt'[q] \in Nat, createdAt'[q] <= clock',
           stage'[q] = "commit" => createdAt'[q] > clock \/ UNCHANGED <<stage, createdAt>>
    PROVE  Locks' /\ Durable' /\ LatestEventIsRow'
  <1>t. /\ stage \in [Requests -> Stages] /\ clock \in Nat
        /\ createdAt \in [Requests -> Nat]
        /\ \A e \in outbox : e.createdAt \in Nat
    BY DEF IInv, Typed, TypeOK, OutboxEvent
  <1>u. users' = users /\ outbox' = outbox /\ op' = op
    BY DEF Moves
  <1>1. RepliedDone'
    BY DEF IInv, Locks, RepliedDone, Moves
  <1>2. Opened'
    BY DEF IInv, Locks, Opened, InTransaction, Moves
  <1>3. Exclusive'
    <2>1. ASSUME NEW r \in Requests, r # q, HasRow(r), HasRow(q)'
          PROVE  op[q].user # op[r].user
      <3>1. r \in Writers
        BY <2>1 DEF IInv, Locks, Opened, InTransaction, HasRow, Writers
      <3> QED
        BY <2>1, <3>1 DEF IInv, Locks, Exclusive, WaitsForRow
    <2>2. ASSUME NEW r \in Requests, r # q, HasWritten(r), HasWritten(q)'
          PROVE  op[q].email # op[r].email
      <3>1. r \in Writers /\ stage[r] # "index"
        BY <2>2 DEF IInv, Locks, Opened, InTransaction, HasWritten, Writers
      <3>2. WaitsForEmail(q) \/ op[q].email # op[r].email
        BY <2>2, <3>1 DEF WaitsForEmail, WaitsFor, HoldsEmail
      <3> QED
        BY <2>2, <3>2 DEF IInv, Locks, Exclusive
    <2>3. \A r \in Requests : r # q =>
             (HasRow(r)' <=> HasRow(r)) /\ (HasWritten(r)' <=> HasWritten(r))
      BY DEF HasRow, HasWritten, Moves
    <2> QED
      BY <1>u, <2>1, <2>2, <2>3 DEF IInv, Locks, Exclusive
  <1>4. Reserved'
    <2>1. ASSUME HasWritten(q)', NEW u \in Users \ {op[q].user}
          PROVE  users[u] # op[q].email
      BY <2>1 DEF IInv, Locks, Reserved, EmailTaken
    <2>2. \A r \in Requests : r # q => (HasWritten(r)' <=> HasWritten(r))
      BY DEF HasWritten, Moves
    <2> QED
      BY <1>u, <2>1, <2>2 DEF IInv, Locks, Reserved
  <1>5. Dated'
    <2>1. \A p \in Requests : createdAt[p] <= clock /\ createdAt[p] \in Nat
      BY <1>t DEF IInv, Locks, Dated
    <2>2. \A p \in Requests : createdAt'[p] <= clock'
      BY <1>t, <2>1 DEF Moves
    <2>3. \A e \in outbox : e.createdAt <= clock'
      BY <1>t DEF IInv, Locks, Dated
    <2> QED
      BY <1>u, <2>2, <2>3 DEF Dated
  <1>6. DatedLast'
    <2>1. ASSUME stage'[q] = "commit", NEW e \in outbox, e.user = op[q].user
          PROVE  e.createdAt < createdAt'[q]
      <3>1. e.createdAt <= clock
        BY DEF IInv, Locks, Dated
      <3>2. CASE createdAt'[q] > clock
        BY <1>t, <3>1, <3>2
      <3>3. CASE UNCHANGED <<stage, createdAt>>
        BY <2>1, <3>3 DEF IInv, Locks, DatedLast
      <3> QED
        BY <2>1, <3>2, <3>3
    <2>2. \A r \in Requests : r # q => stage'[r] = stage[r] /\ createdAt'[r] = createdAt[r]
      BY DEF Moves
    <2> QED
      BY <1>u, <2>1, <2>2 DEF IInv, Locks, DatedLast
  <1>7. OneInsert'
    BY <1>u DEF IInv, Locks, OneInsert
  <1>8. RowsAsSeen'
    BY <1>u DEF IInv, Locks, RowsAsSeen, Moves
  <1>9. Durable'
    <2>1. ASSUME NEW p \in Requests, reply'[p] = "ok", op[p].kind # "get"
          PROVE  p # q /\ reply'[p] = reply[p] /\ createdAt'[p] = createdAt[p]
      BY <2>1 DEF Moves
    <2>2. \A p \in Requests : createdAt'[p] = createdAt[p] => EventOf(p)' = EventOf(p)
      BY <1>u DEF EventOf
    <2> QED
      BY <1>u, <2>1, <2>2 DEF IInv, Durable
  <1>10. LatestEventIsRow'
    BY <1>u DEF IInv, LatestEventIsRow
  <1> QED
    BY <1>1, <1>2, <1>3, <1>4, <1>5, <1>6, <1>7, <1>8, <1>9, <1>10 DEF Locks

\* Nothing is lost but transactions and answers.
LEMMA CrashKeepsLocks ==
    ASSUME IInv, Crash
    PROVE  Locks' /\ Durable' /\ LatestEventIsRow'
  <1>1. /\ UNCHANGED <<users, outbox, clock, op, createdAt, reply>>
        /\ \A q \in Requests : stage'[q] = IF stage[q] = "new" THEN "new" ELSE "done"
    BY DEF Crash
  <1>2. RepliedDone' /\ Opened' /\ Exclusive' /\ Reserved' /\ DatedLast' /\ RowsAsSeen'
    BY <1>1 DEF IInv, Locks, RepliedDone, Opened, InTransaction, Exclusive, HasRow, HasWritten,
                Reserved, DatedLast, RowsAsSeen
  <1>3. Dated' /\ OneInsert'
    BY <1>1 DEF IInv, Locks, Dated, OneInsert
  <1>4. Durable' /\ LatestEventIsRow'
    BY <1>1 DEF IInv, Durable, LatestEventIsRow, EventOf
  <1> QED
    BY <1>2, <1>3, <1>4 DEF Locks

\* A request that arrives has done nothing; the user it inserts is new.
LEMMA ReceiveKeepsLocks ==
    ASSUME IInv, NEW q \in Requests, NEW o \in Op, Receive(q, o)
    PROVE  Locks' /\ Durable' /\ LatestEventIsRow'
  <1>t. /\ stage \in [Requests -> Stages] /\ op \in [Requests -> Op \cup {NoOp}]
    BY DEF IInv, Typed, TypeOK
  <1>1. /\ UNCHANGED <<users, outbox, clock, createdAt, open, reply>>
        /\ stage[q] = "new" /\ stage'[q] = "begin" /\ op'[q] = o
        /\ \A p \in Requests \ {q} : stage'[p] = stage[p] /\ op'[p] = op[p]
        /\ o.kind \in Inserts => Fresh(o.user)
    BY <1>t DEF Receive
  <1>2. \A p \in Requests : HasRow(p)' \/ HasWritten(p)' =>
           p # q /\ (HasRow(p)' => HasRow(p)) /\ (HasWritten(p)' => HasWritten(p))
    BY <1>1 DEF HasRow, HasWritten
  <1>3. Exclusive' /\ Reserved'
    BY <1>1, <1>2 DEF IInv, Locks, Exclusive, Reserved
  <1>4. RepliedDone' /\ Opened' /\ Dated'
    BY <1>1 DEF IInv, Locks, RepliedDone, Opened, InTransaction, Dated
  <1>5. DatedLast'
    BY <1>1 DEF IInv, Locks, DatedLast
  <1>6. OneInsert' /\ RowsAsSeen'
    BY <1>1 DEF IInv, Locks, OneInsert, RowsAsSeen, Fresh
  <1>7. Durable'
    <2>1. ASSUME NEW p \in Requests, reply[p] = "ok"
          PROVE  p # q
      BY <1>1, <2>1 DEF IInv, Locks, RepliedDone
    <2>2. \A p \in Requests : p # q => EventOf(p)' = EventOf(p)
      BY <1>1 DEF EventOf
    <2> QED
      BY <1>1, <2>1, <2>2 DEF IInv, Durable
  <1>8. LatestEventIsRow'
    BY <1>1 DEF IInv, LatestEventIsRow
  <1> QED
    BY <1>3, <1>4, <1>5, <1>6, <1>7, <1>8 DEF Locks

\* The event of a commit is the latest of its user.
LEMMA CommitKeepsLocks ==
    ASSUME IInv, NEW q \in Requests, stage[q] = "commit", Committed(q),
           \E a \in {"ok", "accepted", "failed"} : Answer(q, a),
           UNCHANGED <<clock, op, createdAt>>
    PROVE  Locks' /\ Durable' /\ LatestEventIsRow'
  <1>t. /\ stage \in [Requests -> Stages] /\ reply \in [Requests -> Replies]
        /\ users \in [Users -> Emails \cup {NoEmail}]
        /\ createdAt \in [Requests -> Nat] /\ clock \in Nat
        /\ outbox \subseteq OutboxEvent
    BY DEF IInv, Typed, TypeOK
  <1> DEFINE u == op[q].user
             m == op[q].email
             event == EventOf(q)
  <1>1. u \in Users /\ m \in Emails /\ m # NoEmail /\ op[q].kind # "get"
    BY OpTypes, EmailAssumption DEF IInv, Locks, Opened, InTransaction
  <1>2. /\ users' = [users EXCEPT ![u] = m]
        /\ outbox' = outbox \cup {event}
        /\ open' = open \ {q}
    BY DEF Committed
  <1>3. /\ stage'[q] = "done"
        /\ \A p \in Requests \ {q} : stage'[p] = stage[p] /\ reply'[p] = reply[p]
        /\ op' = op /\ createdAt' = createdAt /\ clock' = clock
    BY <1>t DEF Answer
  <1>4. event.user = u /\ event.email = m /\ event.createdAt = createdAt[q]
    BY DEF EventOf
  <1>5. \A p \in Requests : EventOf(p)' = EventOf(p)
    BY <1>3 DEF EventOf
  <1>6. \A e \in outbox : e.user = u => e.createdAt < event.createdAt
    BY <1>4 DEF IInv, Locks, DatedLast
  <1> HIDE DEF event
  <1>7. \A p \in Requests : HasRow(p)' \/ HasWritten(p)' =>
           p # q /\ (HasRow(p)' => HasRow(p)) /\ (HasWritten(p)' => HasWritten(p))
    BY <1>3 DEF HasRow, HasWritten
  <1>8. \A p \in Requests : HasWritten(p) /\ p # q => op[p].user # u /\ op[p].email # m
    BY DEF IInv, Locks, Exclusive, HasRow, HasWritten
  <1>9. RepliedDone' /\ Opened'
    BY <1>2, <1>3 DEF IInv, Locks, RepliedDone, Opened, InTransaction
  <1>10. Exclusive'
    BY <1>3, <1>7 DEF IInv, Locks, Exclusive
  <1>11. Reserved'
    BY <1>t, <1>2, <1>3, <1>7, <1>8 DEF IInv, Locks, Reserved
  <1>12. Dated' /\ OneInsert'
    BY <1>2, <1>3, <1>4 DEF IInv, Locks, Dated, OneInsert
  <1>13. DatedLast'
    <2> SUFFICES ASSUME NEW p \in Requests, stage'[p] = "commit",
                        NEW e \in outbox', e.user = op[p].user
                 PROVE  e.createdAt < createdAt[p]
      BY <1>3 DEF DatedLast
    <2>1. p # q /\ stage[p] = "commit" /\ op[p].user # u
      BY <1>3, <1>8 DEF HasWritten
    <2>2. e \in outbox
      BY <1>2, <1>4, <2>1
    <2> QED
      BY <2>1, <2>2 DEF IInv, Locks, DatedLast
  <1>14. RowsAsSeen'
    <2> SUFFICES ASSUME NEW p \in Requests
                 PROVE  /\ op[p].kind \in Inserts /\ stage'[p] # "new" /\ stage'[p] # "done"
                              => users'[op[p].user] = NoEmail
                        /\ op[p].kind = "update" /\ stage'[p] \in {"write", "index", "event", "commit"}
                              => users'[op[p].user] # NoEmail
      BY <1>3 DEF RowsAsSeen
    <2>1. CASE p = q
      BY <1>3, <2>1
    <2>2. CASE p # q /\ op[p].user # u
      BY <1>t, <1>2, <1>3, <2>2 DEF IInv, Locks, RowsAsSeen
    <2>3. CASE p # q /\ op[p].user = u
      <3>1. users'[op[p].user] # NoEmail
        BY <1>t, <1>1, <1>2, <2>3
      <3>2. ~(op[p].kind \in Inserts /\ stage[p] # "new" /\ stage[p] # "done")
        <4>1. CASE op[q].kind \in Inserts
          BY <2>3, <4>1 DEF IInv, Locks, OneInsert
        <4>2. CASE op[q].kind = "update"
          BY <2>3, <4>2 DEF IInv, Locks, RowsAsSeen
        <4>3. op[q].kind \in Kinds
          BY OpTypes DEF IInv
        <4> QED
          BY <1>1, <4>1, <4>2, <4>3 DEF Kinds, Inserts
      <3> QED
        BY <1>3, <2>3, <3>1, <3>2
    <2> QED
      BY <2>1, <2>2, <2>3
  <1>15. Durable'
    <2> SUFFICES ASSUME NEW p \in Requests, reply'[p] = "ok",
                        op[p].kind # "get"
                 PROVE  users'[op[p].user] # NoEmail /\ EventOf(p) \in outbox'
      BY <1>3, <1>5 DEF Durable
    <2>1. CASE p = q
      BY <1>t, <1>1, <1>2, <2>1 DEF event
    <2>2. CASE p # q
      <3>1. users[op[p].user] # NoEmail /\ EventOf(p) \in outbox
        BY <1>3, <2>2 DEF IInv, Durable
      <3> QED
        BY <1>t, <1>1, <1>2, <3>1
    <2> QED
      BY <2>1, <2>2
  <1>16. LatestEventIsRow'
    <2> SUFFICES ASSUME NEW e \in outbox',
                        \A f \in outbox' : f.user = e.user => f.createdAt <= e.createdAt
                 PROVE  users'[e.user] = e.email
      BY DEF LatestEventIsRow
    <2>1. CASE e.user = u
      <3>1. event.createdAt <= e.createdAt
        BY <1>2, <1>4, <2>1
      <3>2. e \in outbox => e.createdAt < event.createdAt /\ e.createdAt \in Nat
        BY <1>t, <1>6, <2>1 DEF OutboxEvent
      <3>3. event.createdAt \in Nat
        BY <1>t, <1>4
      <3>4. e = event
        BY <1>2, <3>1, <3>2, <3>3
      <3> QED
        BY <1>t, <1>1, <1>2, <1>4, <3>4
    <2>2. CASE e.user # u
      <3>1. e \in outbox /\ \A f \in outbox : f.user = e.user => f.createdAt <= e.createdAt
        BY <1>2, <1>4, <2>2
      <3>2. users[e.user] = e.email
        BY <3>1 DEF IInv, LatestEventIsRow
      <3>3. e.user \in Users
        BY <1>t, <3>1 DEF OutboxEvent
      <3> QED
        BY <1>t, <1>2, <2>2, <3>2, <3>3
    <2> QED
      BY <2>1, <2>2
  <1> QED
    BY <1>9, <1>10, <1>11, <1>12, <1>13, <1>14, <1>15, <1>16 DEF Locks

-----------------------------------------------------------------------------
(* The invariant is inductive. *)

LEMMA InitInv == Init => IInv
  <1> SUFFICES ASSUME Init PROVE IInv
    OBVIOUS
  <1>1. Locks
    BY DEF Init, Locks, RepliedDone, Opened, InTransaction, Exclusive, HasRow, HasWritten,
           Reserved, Dated, DatedLast, OneInsert, RowsAsSeen, NoOp, Inserts
  <1>2. Durable /\ LatestEventIsRow
    BY DEF Init, Durable, LatestEventIsRow
  <1> QED
    BY <1>1, <1>2, InitTyped DEF IInv

LEMMA NextInv == IInv /\ [Next]_vars => IInv'
  <1> SUFFICES ASSUME IInv, [Next]_vars PROVE IInv'
    OBVIOUS
  <1>t. /\ stage \in [Requests -> Stages] /\ reply \in [Requests -> Replies]
        /\ createdAt \in [Requests -> Nat] /\ clock \in Nat
        /\ \A q \in Requests : createdAt[q] <= clock
        /\ \A q \in Requests : InTransaction(q) => q \in open /\ op[q].kind # "get"
        /\ \A q \in Requests : reply[q] # "none" => stage[q] = "done"
    BY DEF IInv, Typed, TypeOK, Locks, Dated, Opened, RepliedDone
  <1>1. Typed'
    BY NextTyped DEF IInv, Locks
  <1> DEFINE Goal == Locks' /\ Durable' /\ LatestEventIsRow'
  <1>2. ASSUME NEW q \in Requests, NEW o \in Op, Receive(q, o) PROVE Goal
    BY <1>2, ReceiveKeepsLocks
  <1>3. ASSUME NEW q \in Requests, BeginTx(q) PROVE Goal
    <2>1. /\ Moves(q) /\ stage[q] = "begin" /\ clock' = clock /\ createdAt' = createdAt
          /\ q \in open' /\ op[q].kind # "get" /\ reply' = reply
          /\ stage'[q] = IF op[q].kind = "update" THEN "validate" ELSE "write"
      BY <1>t, <1>3 DEF BeginTx, Moves
    <2> QED
      BY <1>t, <2>1, MovesKeepLocks DEF HasRow, HasWritten
  <1>4. ASSUME NEW q \in Requests, Validate(q) PROVE Goal
    <2>1. /\ Moves(q) /\ stage[q] = "validate" /\ clock' = clock /\ createdAt' = createdAt
          /\ open' = open
          /\ \/ /\ stage'[q] = "done" /\ reply'[q] = "notFound"
             \/ /\ stage'[q] = "write" /\ reply' = reply
                /\ users[op[q].user] # NoEmail
      BY <1>t, <1>4 DEF Validate, Answer, Moves
    <2> QED
      BY <1>t, <2>1, MovesKeepLocks DEF HasRow, HasWritten, InTransaction
  <1>5. ASSUME NEW q \in Requests, WriteUser(q) \/ EnterEmail(q) PROVE Goal
    <2>1. /\ Moves(q) /\ clock' = clock /\ createdAt' = createdAt
          /\ open' = open /\ reply' = reply
          /\ \/ stage[q] = "write" /\ ~WaitsForRow(q) /\ stage'[q] = "index"
             \/ /\ stage[q] = "index" /\ ~WaitsForEmail(q) /\ ~EmailTaken(q)
                /\ stage'[q] = "event"
      BY <1>t, <1>5 DEF WriteUser, EnterEmail, Moves
    <2>2. op[q].kind = "update" => users[op[q].user] # NoEmail
      BY <2>1 DEF IInv, Locks, RowsAsSeen
    <2> QED
      BY <1>t, <2>1, <2>2, MovesKeepLocks DEF InTransaction, HasRow, HasWritten
  <1>6. ASSUME NEW q \in Requests, WriteEvent(q) PROVE Goal
    <2>1. /\ Moves(q) /\ stage[q] = "event" /\ clock' = clock + 1
          /\ createdAt'[q] = clock + 1
          /\ open' = open /\ reply' = reply /\ stage'[q] = "commit"
      BY <1>t, <1>6 DEF WriteEvent, Moves
    <2>2. op[q].kind = "update" => users[op[q].user] # NoEmail
      BY <2>1 DEF IInv, Locks, RowsAsSeen
    <2> QED
      BY <1>t, <2>1, <2>2, MovesKeepLocks DEF InTransaction, HasRow, HasWritten
  <1>7. ASSUME NEW q \in Requests, WriteRefused(q) \/ DeadlockDetected(q) \/ StatementFails(q)
        PROVE  Goal
    <2>1. /\ Moves(q) /\ stage[q] \notin {"new", "done"}
          /\ clock' = clock /\ createdAt' = createdAt
          /\ stage'[q] = "done" /\ reply'[q] = ErrorReply(q)
      BY <1>t, <1>7
      DEF WriteRefused, DeadlockDetected, StatementFails, RollBack, Answer, Moves
    <2>2. reply'[q] # "ok"
      BY <2>1 DEF ErrorReply
    <2> QED
      BY <1>t, <2>1, <2>2, MovesKeepLocks DEF InTransaction, HasRow, HasWritten
  <1>8. ASSUME NEW q \in Requests, Commit(q) \/ CommitUnacknowledged(q) PROVE Goal
    BY <1>8, CommitKeepsLocks DEF Commit, CommitUnacknowledged, ErrorReply
  <1>9. ASSUME NEW q \in Requests, GetUser(q) PROVE Goal
    <2>1. /\ Moves(q) /\ stage[q] = "begin" /\ op[q].kind = "get"
          /\ clock' = clock /\ createdAt' = createdAt
          /\ stage'[q] = "done" /\ reply'[q] \in {"notFound", "ok"}
      BY <1>t, <1>9 DEF GetUser, Answer, Moves
    <2> QED
      BY <1>t, <2>1, MovesKeepLocks DEF InTransaction, HasRow, HasWritten
  <1>10. ASSUME Crash PROVE Goal
    BY <1>10, CrashKeepsLocks
  <1>11. ASSUME UNCHANGED vars PROVE Goal
    BY <1>11
    DEF vars, IInv, Locks, RepliedDone, Opened, InTransaction, Exclusive, HasRow, HasWritten,
        Reserved, Dated, DatedLast, OneInsert, RowsAsSeen, Durable, EventOf,
        LatestEventIsRow
  <1>12. Goal
    BY <1>2, <1>3, <1>4, <1>5, <1>6, <1>7, <1>8, <1>9, <1>10, <1>11 DEF Next, RequestStep
  <1> QED
    BY <1>1, <1>12 DEF IInv

-----------------------------------------------------------------------------
(* The theorems. *)

\* Requests, rows, events and transactions keep their types.
THEOREM TypeCorrect == Spec => []TypeOK
  <1>1. IInv => TypeOK
    BY DEF IInv, Typed
  <1> QED
    BY InitInv, NextInv, <1>1, PTL DEF Spec

\* A create or an update answered with success stays in the database, with its
\* event.
THEOREM SuccessDurable == Spec => []Durable
  <1>1. IInv => Durable
    BY DEF IInv
  <1> QED
    BY InitInv, NextInv, <1>1, PTL DEF Spec

\* A consumer that goes by created_at ends with the row, however updates of a
\* user interleave, fail and crash.
THEOREM LatestEvent == Spec => []LatestEventIsRow
  <1>1. IInv => LatestEventIsRow
    BY DEF IInv
  <1> QED
    BY InitInv, NextInv, <1>1, PTL DEF Spec

\* A commit changes a row and announces it in one step, later than all that
\* was announced of the user; no other step changes either.
LEMMA NextImplements ==
    IInv /\ [Next]_vars => [UserEventsSpec!Next]_(UserEventsSpec!vars)
  <1> SUFFICES ASSUME IInv, [Next]_vars
               PROVE  [UserEventsSpec!Next]_(UserEventsSpec!vars)
    OBVIOUS
  <1>1. CASE \E q \in Requests : Commit(q) \/ CommitUnacknowledged(q)
    <2>1. PICK q \in Requests : stage[q] = "commit" /\ Committed(q)
      BY <1>1 DEF Commit, CommitUnacknowledged
    <2> DEFINE u == op[q].user
               m == op[q].email
               event == EventOf(q)
    <2>2. u \in Users /\ m \in Emails /\ op[q].kind # "get" /\ op[q].kind \in Kinds
      BY <2>1, OpTypes DEF IInv, Locks, Opened, InTransaction
    <2>3. \A v \in Users \ {u} : users[v] # m
      BY <2>1 DEF IInv, Locks, Reserved, HasWritten
    <2>4. users' = [users EXCEPT ![u] = m] /\ outbox' = outbox \cup {event}
      BY <2>1 DEF Committed
    <2>5. /\ op[q].kind \in Inserts => users[u] = NoEmail
          /\ op[q].kind \notin Inserts => users[u] # NoEmail
      BY <2>1, <2>2 DEF IInv, Locks, RowsAsSeen, Kinds, Inserts
    <2>6. /\ event.user = u /\ event.email = m
          /\ event.type = IF users[u] = NoEmail THEN "user.created" ELSE "user.updated"
      BY <2>5 DEF EventOf
    <2>7. \A f \in outbox : f.user = u => f.createdAt < event.createdAt
      BY <2>1 DEF IInv, Locks, DatedLast, EventOf
    <2> HIDE DEF event, u, m
    <2>8. UserEventsSpec!Change(u, m)
      BY <2>3, <2>4, <2>6, <2>7 DEF UserEventsSpec!Change
    <2> QED
      BY <2>2, <2>8 DEF UserEventsSpec!Next, u, m
  <1>2. CASE UNCHANGED <<users, outbox>>
    BY <1>2 DEF UserEventsSpec!vars
  <1> QED
    BY <1>1, <1>2
    DEF Next, RequestStep, Receive, BeginTx, Validate, WriteUser, EnterEmail, WriteRefused,
        DeadlockDetected, WriteEvent, GetUser, StatementFails, RollBack, Crash, vars

\* The service keeps what it promises the relay, for any number of concurrent
\* requests over a pool of any size.
THEOREM Implementation == Spec => ImplementsUserEvents
  <1>1. Init => UserEventsSpec!Init
    BY TablesAssumption DEF Init, UserEventsSpec!Init
  <1> QED
    BY InitInv, NextInv, NextImplements, <1>1, PTL
    DEF Spec, ImplementsUserEvents, UserEventsSpec!Spec

-----------------------------------------------------------------------------
(* The pool. *)

\* A transaction is opened by a request that has begun, and only an update
\* validates.
Pooled ==
    /\ \A q \in open : stage[q] \notin {"new", "begin"}
    /\ \A q \in Requests : stage[q] = "validate" => op[q].kind = "update"

Leaks == Pooled /\ LeakedByNotFound

LEMMA LeaksInit == Init => Leaks
  BY DEF Init, Leaks, Pooled, LeakedByNotFound

LEMMA LeaksNext == IInv /\ Leaks /\ [Next]_vars => Leaks'
  <1> SUFFICES ASSUME IInv, Leaks, [Next]_vars PROVE Leaks'
    OBVIOUS
  <1>t. /\ stage \in [Requests -> Stages] /\ reply \in [Requests -> Replies]
        /\ op \in [Requests -> Op \cup {NoOp}] /\ open \subseteq Requests
    BY DEF IInv, Typed, TypeOK
  <1> DEFINE Sound(p) ==
        /\ p \in open => stage[p] \notin {"new", "begin"}
        /\ p \in open /\ stage[p] = "done" => op[p].kind = "update" /\ reply[p] = "notFound"
        /\ stage[p] = "validate" => op[p].kind = "update"
  <1>s. \A p \in Requests : Sound(p)
    BY DEF Leaks, Pooled, LeakedByNotFound
  <1>q. ASSUME open' \subseteq Requests, \A p \in Requests : Sound(p)' PROVE Leaks'
    BY <1>q DEF Leaks, Pooled, LeakedByNotFound
  <1>1. ASSUME NEW q \in Requests, NEW o \in Op, Receive(q, o) PROVE Leaks'
    <2>1. /\ UNCHANGED <<open, reply>> /\ q \notin open /\ stage'[q] = "begin"
          /\ \A p \in Requests \ {q} : stage'[p] = stage[p] /\ op'[p] = op[p]
      BY <1>t, <1>s, <1>1 DEF Receive
    <2>2. \A p \in Requests : Sound(p)'
      BY <1>s, <2>1
    <2> QED
      BY <1>t, <1>q, <2>1, <2>2
  <1>2. ASSUME NEW q \in Requests, UNCHANGED op, open' \subseteq Requests, Sound(q)',
               \A p \in Requests \ {q} :
                  stage'[p] = stage[p] /\ reply'[p] = reply[p] /\ (p \in open' <=> p \in open)
        PROVE  Leaks'
    <2>1. \A p \in Requests : Sound(p)'
      BY <1>s, <1>2
    <2> QED
      BY <1>2, <1>q, <2>1
  <1>3. ASSUME NEW q \in Requests, BeginTx(q) PROVE Leaks'
    BY <1>t, <1>2, <1>3 DEF BeginTx
  <1>4. ASSUME NEW q \in Requests, Validate(q) PROVE Leaks'
    BY <1>t, <1>s, <1>2, <1>4 DEF Validate, Answer
  <1>5. ASSUME NEW q \in Requests, WriteUser(q) \/ EnterEmail(q) \/ WriteEvent(q)
        PROVE  Leaks'
    BY <1>t, <1>2, <1>5 DEF WriteUser, EnterEmail, WriteEvent
  <1>6. ASSUME NEW q \in Requests, WriteRefused(q) \/ DeadlockDetected(q) \/ StatementFails(q)
        PROVE  Leaks'
    BY <1>t, <1>2, <1>6 DEF WriteRefused, DeadlockDetected, StatementFails, RollBack, Answer
  <1>7. ASSUME NEW q \in Requests, Commit(q) \/ CommitUnacknowledged(q) PROVE Leaks'
    BY <1>t, <1>2, <1>7 DEF Commit, CommitUnacknowledged, Committed, Answer
  <1>8. ASSUME NEW q \in Requests, GetUser(q) PROVE Leaks'
    BY <1>t, <1>s, <1>2, <1>8 DEF GetUser, Answer
  <1>9. ASSUME Crash PROVE Leaks'
    BY <1>9 DEF Crash, Leaks, Pooled, LeakedByNotFound
  <1>10. ASSUME UNCHANGED vars PROVE Leaks'
    BY <1>10 DEF vars, Leaks, Pooled, LeakedByNotFound
  <1> QED
    BY <1>1, <1>3, <1>4, <1>5, <1>6, <1>7, <1>8, <1>9, <1>10 DEF Next, RequestStep

\* Refusals, failures and lost acknowledgements give their connection back;
\* only the early return of an update without its user keeps it.
THEOREM LeaksAreNotFound == Spec => []LeakedByNotFound
  <1>1. Leaks => LeakedByNotFound
    BY DEF Leaks
  <1> QED
    BY InitInv, NextInv, LeaksInit, LeaksNext, <1>1, PTL DEF Spec

\* Nobody who could give a connection back goes on without one.
LEMMA StuckStays == IInv /\ [Next]_vars => (PoolStuck => PoolStuck' \/ faults' = faults + 1)
  <1> SUFFICES ASSUME IInv, [Next]_vars, PoolStuck PROVE PoolStuck' \/ faults' = faults + 1
    OBVIOUS
  <1>t. stage \in [Requests -> Stages] /\ open \subseteq Requests
    BY DEF IInv, Typed, TypeOK
  <1>1. ~FreeConnection /\ \A q \in open : stage[q] \in {"validate", "done"}
    BY DEF PoolStuck
  <1>2. \A q \in Requests : stage[q] \notin {"write", "index", "event", "commit"}
    BY <1>1 DEF IInv, Locks, Opened, InTransaction
  <1>3. ASSUME UNCHANGED open, \A q \in open : stage'[q] = stage[q]
        PROVE  PoolStuck'
    BY <1>1, <1>3 DEF PoolStuck, FreeConnection
  <1>4. ASSUME NEW q \in Requests, NEW o \in Op, Receive(q, o) PROVE PoolStuck'
    <2>1. stage[q] = "new" /\ open' = open
      BY <1>4 DEF Receive
    <2>2. \A p \in open : p # q /\ stage'[p] = stage[p]
      BY <1>t, <1>1, <1>4, <2>1 DEF Receive
    <2> QED
      BY <1>3, <2>1, <2>2
  <1>5. ~\E q \in Requests : RequestStep(q)
    BY <1>1, <1>2
    DEF RequestStep, BeginTx, Validate, WriteUser, EnterEmail, WriteRefused,
        DeadlockDetected, WriteEvent, Commit, GetUser
  <1>6. ASSUME Crash \/ \E q \in Requests : StatementFails(q) \/ CommitUnacknowledged(q)
        PROVE  faults' = faults + 1
    BY <1>6 DEF Crash, StatementFails, CommitUnacknowledged, Fault
  <1>7. CASE UNCHANGED vars
    BY <1>3, <1>7 DEF vars
  <1> QED
    BY <1>4, <1>5, <1>6, <1>7 DEF Next

\* A pool that is used up by transactions nobody will end, or that wait for
\* it, stays so until a statement fails or the server is started again.
THEOREM StuckForGood == Spec => StuckUntilFault
  <1>1. IInv /\ [Next]_vars => [PoolStuck => PoolStuck' \/ faults' = faults + 1]_vars
    BY StuckStays
  <1> QED
    BY InitInv, NextInv, <1>1, PTL DEF Spec, StuckUntilFault

\* A circle is found among the finitely many transactions that are open.
LEMMA OpenInit == Init => IsFiniteSet(open)
  BY FS_EmptySet DEF Init

LEMMA OpenNext == IsFiniteSet(open) /\ [Next]_vars => IsFiniteSet(open)'
  <1> SUFFICES ASSUME IsFiniteSet(open), [Next]_vars PROVE IsFiniteSet(open')
    OBVIOUS
  <1>1. \/ open' = open
        \/ \E q \in Requests : open' = open \cup {q} \/ open' = open \ {q}
        \/ open' = {}
    BY DEF Next, RequestStep, Receive, BeginTx, Validate, WriteUser, EnterEmail, WriteRefused,
           DeadlockDetected, WriteEvent, Commit, GetUser, StatementFails, RollBack,
           CommitUnacknowledged, Committed, Crash, vars
  <1> QED
    BY <1>1, FS_EmptySet, FS_AddElement, FS_RemoveElement

\* The transactions that hold their row and wait for an email.
Entering == {q \in Writers : stage[q] = "index"}

\* Where everybody waits for somebody there is a circle: a smallest set of
\* which this is true has nobody that no other waits for.
LEMMA CircleAmongWaiters ==
    ASSUME IsFiniteSet(open), Entering # {},
           \A q \in Entering : \E w \in Entering : WaitsFor(q, w)
    PROVE  \E q \in Entering : InCircle(q)
  <1> DEFINE Closed == {S \in SUBSET Entering :
                          S # {} /\ \A q \in S : \E w \in S : WaitsFor(q, w)}
             Sizes == {Cardinality(S) : S \in Closed}
  <1>1. \A S \in SUBSET Entering : IsFiniteSet(S) /\ Cardinality(S) \in Nat
    <2>1. Entering \subseteq open
      BY DEF Entering, Writers
    <2>2. \A S \in SUBSET Entering : S \subseteq open
      BY <2>1
    <2> QED
      BY <2>2, FS_Subset, FS_CardinalityType
  <1>2. Entering \in Closed
    OBVIOUS
  <1>3. Sizes \subseteq Nat /\ Sizes # {}
    BY <1>1, <1>2
  <1>4. PICK n \in Sizes : \A k \in Sizes : ~(k < n)
    <2>1. PICK n \in Sizes : \A k \in Sizes : <<k, n>> \notin OpToRel(<, Nat)
      <3> HIDE DEF Sizes
      <3> QED
        BY <1>3, NatLessThanWellFounded, WFMin
    <2>2. \A k \in Sizes : k < n => <<k, n>> \in OpToRel(<, Nat)
      BY <1>3 DEF OpToRel
    <2> QED
      BY <2>1, <2>2
  <1>5. PICK S \in Closed : n = Cardinality(S)
    OBVIOUS
  <1>6. ASSUME NEW q \in S PROVE \E w \in S : WaitsFor(w, q)
    <2> SUFFICES ASSUME \A w \in S : ~WaitsFor(w, q) PROVE FALSE
      OBVIOUS
    <2>1. PICK w \in S : WaitsFor(q, w)
      OBVIOUS
    <2>2. w # q
      BY <2>1 DEF WaitsFor
    <2>3. S \ {q} \in Closed
      BY <2>1, <2>2
    <2>4. IsFiniteSet(S) /\ Cardinality(S) \in Nat
      BY <1>1
    <2>5. Cardinality(S \ {q}) = Cardinality(S) - 1
      BY <1>6, <2>4, FS_RemoveElement
    <2>6. Cardinality(S \ {q}) \in Sizes
      BY <2>3
    <2>7. Cardinality(S \ {q}) < n
      BY <1>5, <2>4, <2>5
    <2> QED
      BY <1>4, <2>6, <2>7
  <1>7. PICK q \in S : TRUE
    OBVIOUS
  <1>8. InCircle(q)
    <2>1. S \in SUBSET {r \in Writers : stage[r] = "index"}
      BY DEF Entering
    <2> QED
      BY <1>6, <1>7, <2>1 DEF InCircle
  <1> QED
    BY <1>7, <1>8

\* Whoever is waited for at the index has a row to give up, and so is not an
\* insert.
LEMMA CircleOfUpdates ==
    ASSUME IInv, NEW q \in Requests, InCircle(q)
    PROVE  op[q].kind = "update"
  <1>t. stage \in [Requests -> Stages] /\ open \subseteq Requests
    BY DEF IInv, Typed, TypeOK
  <1>1. PICK w \in Entering : WaitsFor(w, q) /\ q \in Entering
    BY DEF InCircle, Entering
  <1>2. /\ q \in Requests /\ stage[q] = "index"
        /\ w \in Requests /\ stage[w] = "index"
    BY <1>t, <1>1 DEF Entering, Writers
  <1>3. op[w].email \in Emails /\ op[q].kind \in Kinds /\ op[q].kind # "get"
    BY <1>2, OpTypes DEF IInv, Locks, Opened, InTransaction
  <1>4. users[op[q].user] # NoEmail
    BY <1>1, <1>2, <1>3, EmailAssumption DEF WaitsFor, HoldsEmail
  <1>5. op[q].kind \notin Inserts
    BY <1>2, <1>4 DEF IInv, Locks, RowsAsSeen
  <1> QED
    BY <1>3, <1>5 DEF Kinds, Inserts

\* Whoever has its email waits for nothing any more, so that those who wait at
\* the index wait for each other, those who wait for a row for them, and
\* everybody else for the pool.
LEMMA SomebodyGoesOn == IInv /\ Leaks /\ IsFiniteSet(open) => NoCircularWait
  <1> SUFFICES ASSUME IInv, Leaks, IsFiniteSet(open) PROVE NoCircularWait
    OBVIOUS
  <1>t. stage \in [Requests -> Stages] /\ open \subseteq Requests
    BY DEF IInv, Typed, TypeOK
  <1>1. ASSUME NEW r \in AtWork, ~PoolStuck
        PROVE  \E q \in AtWork : ~Blocked(q) \/ InCircle(q)
    <2>1. CASE \E w \in Requests : stage[w] \in {"event", "commit"}
      BY <2>1 DEF AtWork, Blocked
    <2>2. CASE /\ ~\E w \in Requests : stage[w] \in {"event", "commit"}
               /\ Entering # {}
      <3>1. Writers = Entering
        BY <1>t, <2>2 DEF Writers, Entering
      <3>2. CASE \A q \in Entering : \E w \in Entering : WaitsFor(q, w)
        <4>1. PICK q \in Entering : InCircle(q)
          BY <2>2, <3>2, CircleAmongWaiters
        <4> QED
          BY <1>t, <4>1 DEF Entering, Writers, AtWork
      <3>3. CASE \E q \in Entering : ~\E w \in Entering : WaitsFor(q, w)
        <4>1. PICK q \in Entering : ~WaitsForEmail(q)
          BY <3>1, <3>3 DEF WaitsForEmail
        <4> QED
          BY <1>t, <4>1 DEF Entering, Writers, AtWork, Blocked
      <3> QED
        BY <3>2, <3>3
    <2>3. CASE /\ ~\E w \in Requests : stage[w] \in {"event", "commit"}
               /\ Entering = {}
               /\ \E q \in Requests : stage[q] = "write"
      <3>1. PICK q \in Requests : stage[q] = "write"
        BY <2>3
      <3>2. ~WaitsForRow(q)
        BY <1>t, <2>3 DEF WaitsForRow, Writers, Entering
      <3> QED
        BY <3>1, <3>2 DEF AtWork, Blocked
    <2>4. CASE ~\E q \in Requests : stage[q] \in {"write", "index", "event", "commit"}
      <3>1. stage[r] \in {"begin", "validate"}
        BY <1>t, <2>4 DEF AtWork, Stages
      <3>2. \A q \in open : stage[q] \in {"validate", "done"}
        BY <1>t, <2>4 DEF Leaks, Pooled, Stages
      <3>3. FreeConnection
        BY <1>1, <3>2 DEF PoolStuck
      <3> QED
        BY <3>1, <3>3 DEF Blocked
    <2>5. \A q \in Requests : stage[q] = "index" => q \in Entering
      BY DEF IInv, Locks, Opened, InTransaction, Entering, Writers
    <2> QED
      BY <2>1, <2>2, <2>3, <2>4, <2>5
  <1>2. \A q \in AtWork : InCircle(q) => op[q].kind = "update"
    BY CircleOfUpdates DEF AtWork
  <1> QED
    BY <1>1, <1>2 DEF NoCircularWait

\* No order of row locks, email locks and connections has requests wait for
\* each other for good, for any number of requests and connections, but the
\* one of the second connection that an update asks for: where PostgreSQL has
\* a circle to find, it is of updates.
THEOREM CircleOnlyByPool == Spec => []NoCircularWait
  BY InitInv, NextInv, LeaksInit, LeaksNext, OpenInit, OpenNext, SomebodyGoesOn, PTL DEF Spec
=============================================================================
