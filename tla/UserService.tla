----------------------------- MODULE UserService -----------------------------
(***************************************************************************)
(* The user service (monolith/internal/service) over PostgreSQL and the    *)
(* connection pool of database/sql.                                        *)
(*                                                                         *)
(* A request runs in a goroutine of its own.  CreateUser, UpdateUser and   *)
(* TestCrashScenario open a transaction, write the user row, write the     *)
(* outbox event and commit; every statement is a step, and any other       *)
(* request may run in between.  UpdateUser reads the user on a second      *)
(* connection while its transaction holds the first.                       *)
(*                                                                         *)
(* Of PostgreSQL the module has what the code depends on: a transaction's  *)
(* writes appear when it commits; a statement locks its row and then       *)
(* enters the email into the unique index, where it waits for an open      *)
(* transaction that takes or gives up the same email; of transactions that *)
(* wait for each other in a circle one is rolled back; and an email is in  *)
(* one row only.                                                           *)
(***************************************************************************)
EXTENDS Naturals, FiniteSets

CONSTANTS
    Requests,   \* the requests of a behaviour, numbered in order of arrival
    Users,      \* user ids
    Emails,
    NoEmail,    \* not an email: there is no such row
    Tables,     \* the user rows that the service may start on
    PoolSize,   \* SetMaxOpenConns
    MaxFaults   \* bound on the faults of a behaviour

ASSUME RequestsAssumption == Requests \subseteq Nat
ASSUME PoolAssumption == PoolSize \in Nat \ {0}
ASSUME EmailAssumption == NoEmail \notin Emails
ASSUME TablesAssumption ==
    /\ Tables \subseteq [Users -> Emails \cup {NoEmail}]
    /\ \A t \in Tables : \A u, v \in Users : u # v /\ t[u] = t[v] => t[u] = NoEmail
ASSUME FaultsAssumption == MaxFaults \in Nat

EventTypes == {"user.created", "user.updated"}

OutboxEvent == [user : Users, email : Emails, type : EventTypes, createdAt : Nat]

\* crashTest is TestCrashScenario with crashAfterDB; without, it is CreateUser.
Kinds == {"create", "update", "get", "crashTest"}

Inserts == {"create", "crashTest"}

Stages == {"new", "begin", "validate", "write", "index", "event", "commit", "done"}

Replies == {"none", "ok", "notFound", "failed", "accepted"}

NoOp == [kind |-> "none"]

VARIABLES
    users,      \* users[u]: the email in the committed row of u
    outbox,     \* the committed outbox events
    clock,      \* time.Now(), counted in events dated
    op,         \* op[q]: what request q asks for
    stage,      \* stage[q]: the statement q is at
    createdAt,  \* createdAt[q]: the date of the event q has written
    open,       \* the requests whose transaction is open
    reply,      \* reply[q]: the answer to q
    faults      \* the faults so far

vars == <<users, outbox, clock, op, stage, createdAt, open, reply, faults>>

Op == [kind : {"create", "update", "crashTest"}, user : Users, email : Emails]
      \cup [kind : {"get"}, user : Users]

TypeOK ==
    /\ users \in [Users -> Emails \cup {NoEmail}]
    /\ outbox \subseteq OutboxEvent
    /\ clock \in Nat
    /\ op \in [Requests -> Op \cup {NoOp}]
    /\ stage \in [Requests -> Stages]
    /\ createdAt \in [Requests -> Nat]
    /\ open \subseteq Requests
    /\ reply \in [Requests -> Replies]
    /\ faults \in Nat

\* The outbox that the service starts on has been published and cleaned up.
Init ==
    /\ users \in Tables
    /\ outbox = {}
    /\ clock = 0
    /\ op = [q \in Requests |-> NoOp]
    /\ stage = [q \in Requests |-> "new"]
    /\ createdAt = [q \in Requests |-> 0]
    /\ open = {}
    /\ reply = [q \in Requests |-> "none"]
    /\ faults = 0

-----------------------------------------------------------------------------
(* The pool and the database. *)

\* Every open transaction has a connection to itself, until it ends.
FreeConnection == Cardinality(open) < PoolSize

Fault ==
    /\ faults < MaxFaults
    /\ faults' = faults + 1

NoFault == UNCHANGED faults

\* The transactions that have written their user row, and keep it locked.
Writers == {q \in open : stage[q] \in {"index", "event", "commit"}}

\* Mutant: the statements do not run in the transaction.
WaitsNever(q) == FALSE

\* Mutant: a transaction locks its row before its first statement.
WaitsForOpen(q) == \E w \in open \ {q} : op[w].user = op[q].user

WaitsForRow(q) == \E w \in Writers : op[w].user = op[q].user

\* The email that the row of w had, until it is known whether the row keeps
\* it, and the one it has got, once that is in the index.
HoldsEmail(w, m) ==
    users[op[w].user] = m \/ (stage[w] # "index" /\ op[w].email = m)

WaitsFor(q, w) == w # q /\ HoldsEmail(w, op[q].email)

WaitsForEmail(q) == \E w \in Writers : WaitsFor(q, w)

\* q is one of some transactions that wait for each other.  Only the index has
\* anyone wait who holds a row, so the circle is there.
InCircle(q) ==
    \E S \in SUBSET {r \in Writers : stage[r] = "index"} :
        /\ q \in S
        /\ \A r \in S : (\E w \in S : WaitsFor(r, w)) /\ (\E w \in S : WaitsFor(w, r))

EmailTaken(q) == \E u \in Users \ {op[q].user} : users[u] = op[q].email

-----------------------------------------------------------------------------
(* A request. *)

\* uuid.New() never returns an id that anything else has.
Fresh(u) ==
    /\ users[u] = NoEmail
    /\ \A q \in Requests : op[q].kind \in Inserts => op[q].user # u

Receive(q, o) ==
    /\ stage[q] = "new"
    /\ \A p \in Requests : p < q => stage[p] # "new"
    /\ o.kind \in Inserts => Fresh(o.user)
    /\ op' = [op EXCEPT ![q] = o]
    /\ stage' = [stage EXCEPT ![q] = "begin"]
    /\ NoFault
    /\ UNCHANGED <<users, outbox, clock, createdAt, open, reply>>

Answer(q, a) ==
    /\ stage' = [stage EXCEPT ![q] = "done"]
    /\ reply' = [reply EXCEPT ![q] = a]

BeginTx(q) ==
    /\ stage[q] = "begin"
    /\ op[q].kind # "get"
    /\ FreeConnection
    /\ open' = open \cup {q}
    /\ stage' = [stage EXCEPT ![q] =
                   IF op[q].kind = "update" THEN "validate" ELSE "write"]
    /\ NoFault
    /\ UNCHANGED <<users, outbox, clock, op, createdAt, reply>>

\* Mutant: the pool opens a connection more than it is allowed to.
ValidateBeyondPool(q) ==
    /\ stage[q] = "validate"
    /\ IF users[op[q].user] = NoEmail
       THEN Answer(q, "notFound")
       ELSE /\ stage' = [stage EXCEPT ![q] = "write"]
            /\ UNCHANGED reply
    /\ NoFault
    /\ UNCHANGED <<users, outbox, clock, op, createdAt, open>>

\* GetUserByID takes a connection of its own from the pool.  With no such row
\* UpdateUser returns while err is nil, so that the deferred function does
\* not roll back: the transaction stays open, with its connection.
Validate(q) ==
    /\ stage[q] = "validate"
    /\ FreeConnection
    /\ IF users[op[q].user] = NoEmail
       THEN Answer(q, "notFound")
       ELSE /\ stage' = [stage EXCEPT ![q] = "write"]
            /\ UNCHANGED reply
    /\ NoFault
    /\ UNCHANGED <<users, outbox, clock, op, createdAt, open>>

\* INSERT INTO users or UPDATE users, once no other transaction has the row.
WriteUser(q) ==
    /\ stage[q] = "write"
    /\ ~WaitsForRow(q)
    /\ stage' = [stage EXCEPT ![q] = "index"]
    /\ NoFault
    /\ UNCHANGED <<users, outbox, clock, op, createdAt, open, reply>>

\* The same statement enters the email into the index.
EnterEmail(q) ==
    /\ stage[q] = "index"
    /\ ~WaitsForEmail(q)
    /\ ~EmailTaken(q)
    /\ stage' = [stage EXCEPT ![q] = "event"]
    /\ NoFault
    /\ UNCHANGED <<users, outbox, clock, op, createdAt, open, reply>>

\* What a request is answered on an error of the service.  For the crash test
\* every error is the simulated crash, and the answer is 202.
ErrorReply(q) == IF op[q].kind = "crashTest" THEN "accepted" ELSE "failed"

\* The deferred rollback, on any error that a statement returns.
RollBack(q) ==
    /\ open' = open \ {q}
    /\ Answer(q, ErrorReply(q))
    /\ UNCHANGED <<users, outbox, clock, op, createdAt>>

\* Mutant: the request tries the statement again.
WriteRetried(q) ==
    /\ stage[q] = "index"
    /\ ~WaitsForEmail(q)
    /\ EmailTaken(q)
    /\ NoFault
    /\ UNCHANGED <<users, outbox, clock, op, stage, createdAt, open, reply>>

\* Mutant: the error returns by a variable of its own, and nothing rolls back.
WriteRefusedOpen(q) ==
    /\ stage[q] = "index"
    /\ ~WaitsForEmail(q)
    /\ EmailTaken(q)
    /\ Answer(q, ErrorReply(q))
    /\ NoFault
    /\ UNCHANGED <<users, outbox, clock, op, createdAt, open>>

\* The UNIQUE constraint on users.email.
WriteRefused(q) ==
    /\ stage[q] = "index"
    /\ ~WaitsForEmail(q)
    /\ EmailTaken(q)
    /\ RollBack(q)
    /\ NoFault

\* PostgreSQL finds the circle that q is in, and ends it with an error.
DeadlockDetected(q) ==
    /\ stage[q] = "index"
    /\ InCircle(q)
    /\ RollBack(q)
    /\ NoFault

\* CreateUserCreatedEvent or CreateUserUpdatedEvent, and its INSERT.
WriteEvent(q) ==
    /\ stage[q] = "event"
    /\ clock' = clock + 1
    /\ createdAt' = [createdAt EXCEPT ![q] = clock']
    /\ stage' = [stage EXCEPT ![q] = "commit"]
    /\ NoFault
    /\ UNCHANGED <<users, outbox, op, open, reply>>

\* Mutant: the event tells the row as it was before.
EventOfOldRow(q) ==
    [user |-> op[q].user, email |-> users[op[q].user], createdAt |-> createdAt[q],
     type |-> IF op[q].kind \in Inserts THEN "user.created" ELSE "user.updated"]

\* Mutant: the event is typed by the operation.
EventOfOperation(q) ==
    [user |-> op[q].user, email |-> op[q].email, createdAt |-> createdAt[q],
     type |-> op[q].kind]

EventOf(q) ==
    [user |-> op[q].user, email |-> op[q].email, createdAt |-> createdAt[q],
     type |-> IF op[q].kind \in Inserts THEN "user.created" ELSE "user.updated"]

\* Mutant: the event is left to be written later.
CommittedRowOnly(q) ==
    /\ users' = [users EXCEPT ![op[q].user] = op[q].email]
    /\ open' = open \ {q}
    /\ UNCHANGED outbox

\* The database commits: both writes of q appear, and its locks go.
Committed(q) ==
    /\ users' = [users EXCEPT ![op[q].user] = op[q].email]
    /\ outbox' = outbox \cup {EventOf(q)}
    /\ open' = open \ {q}

\* TestCrashScenario reports an error after its commit, too.
Commit(q) ==
    /\ stage[q] = "commit"
    /\ Committed(q)
    /\ Answer(q, IF op[q].kind = "crashTest" THEN ErrorReply(q) ELSE "ok")
    /\ NoFault
    /\ UNCHANGED <<clock, op, createdAt>>

GetUser(q) ==
    /\ stage[q] = "begin"
    /\ op[q].kind = "get"
    /\ FreeConnection
    /\ Answer(q, IF users[op[q].user] = NoEmail THEN "notFound" ELSE "ok")
    /\ NoFault
    /\ UNCHANGED <<users, outbox, clock, op, createdAt, open>>

-----------------------------------------------------------------------------
(* Faults. *)

\* The database fails a statement, or Begin, or does not commit.
StatementFails(q) ==
    /\ stage[q] \in {"begin", "validate", "write", "index", "event", "commit"}
    /\ Fault
    /\ RollBack(q)

\* Commit returns an error although the database committed.
CommitUnacknowledged(q) ==
    /\ stage[q] = "commit"
    /\ Fault
    /\ Committed(q)
    /\ Answer(q, ErrorReply(q))
    /\ UNCHANGED <<clock, op, createdAt>>

\* The server dies: its connections break, the database drops what was not
\* committed, and the requests it had get no answer.  It starts again.
Crash ==
    /\ Fault
    /\ open' = {}
    /\ stage' = [q \in Requests |-> IF stage[q] = "new" THEN "new" ELSE "done"]
    /\ UNCHANGED <<users, outbox, clock, op, createdAt, reply>>

-----------------------------------------------------------------------------

RequestStep(q) ==
    \/ BeginTx(q)
    \/ Validate(q)
    \/ WriteUser(q)
    \/ EnterEmail(q)
    \/ WriteRefused(q)
    \/ DeadlockDetected(q)
    \/ WriteEvent(q)
    \/ Commit(q)
    \/ GetUser(q)

Next ==
    \/ \E q \in Requests :
          \/ \E o \in Op : Receive(q, o)
          \/ RequestStep(q)
          \/ StatementFails(q)
          \/ CommitUnacknowledged(q)
    \/ Crash

Spec == Init /\ [][Next]_vars

\* A goroutine goes on unless the pool or a lock keeps it waiting, and
\* PostgreSQL looks for circles.  Requests are finitely many, so nobody is
\* overtaken for ever.
FairSpec == Spec /\ \A q \in Requests : WF_vars(RequestStep(q))

-----------------------------------------------------------------------------
(* Properties. *)

\* A create or an update answered with success has both of its writes in the
\* database, also after a crash.  The 202 of a crash test promises nothing: it
\* says "User created", and the email was taken or the database failed.
Durable ==
    \A q \in Requests :
        reply[q] = "ok" /\ op[q].kind # "get"
            => users[op[q].user] # NoEmail /\ EventOf(q) \in outbox

\* The latest event of a user, by created_at, tells the email of its row: two
\* updates of a user are dated in the order in which they take effect.
LatestEventIsRow ==
    \A e \in outbox :
        (\A f \in outbox : f.user = e.user => f.createdAt <= e.createdAt)
            => users[e.user] = e.email

\* The row and its event change together, and in the same order.
UserEventsSpec == INSTANCE UserEvents

ImplementsUserEvents == UserEventsSpec!Spec

\* The pool is used up by transactions that wait for a second connection and
\* by transactions that nobody will end.
PoolStuck ==
    /\ ~FreeConnection
    /\ \A q \in open : stage[q] \in {"validate", "done"}

\* Nothing but that keeps a request from its answer: no order of row locks,
\* rollbacks and commits does.
AnsweredUnlessPoolStuck ==
    \A q \in Requests : stage[q] = "begin" ~> (stage[q] = "done" \/ PoolStuck)

\* What keeps q from its next statement.
Blocked(q) ==
    \/ stage[q] \in {"begin", "validate"} /\ ~FreeConnection
    \/ stage[q] = "write" /\ WaitsForRow(q)
    \/ stage[q] = "index" /\ WaitsForEmail(q)

AtWork == {q \in Requests : stage[q] \notin {"new", "done"}}

\* Requests never all wait for each other, but by the pool or in a circle that
\* PostgreSQL finds; and such a circle is of updates that want the emails of
\* each other's rows.
NoCircularWait ==
    /\ AtWork # {} => PoolStuck \/ \E q \in AtWork : ~Blocked(q) \/ InCircle(q)
    /\ \A q \in AtWork : InCircle(q) => op[q].kind = "update"

\* A stuck pool does not come loose: no step of a request, whatever arrives
\* later, gives a connection back, only a failing statement or a restart.
StuckUntilFault ==
    [][PoolStuck => PoolStuck' \/ faults' = faults + 1]_vars

\* Of all the ways a request can end, refused, failed, unacknowledged or cut
\* short by a crash, only an update of a user that is not there leaves its
\* transaction behind.
LeakedByNotFound ==
    \A q \in open : stage[q] = "done" => op[q].kind = "update" /\ reply[q] = "notFound"

\* user_service.go:71 "updates a user and publishes a user updated event in a
\* single transaction": the transaction is over when the function returns.
TransactionEnds == \A q \in open : stage[q] # "done"
=============================================================================
