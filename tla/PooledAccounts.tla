----------------------------- MODULE PooledAccounts -----------------------------
(***************************************************************************)
(* The handlers of AuthAccounts on the connection pool of one API process, *)
(* and the end of that process (libs/database/src/database.module.ts).     *)
(*                                                                         *)
(* A transaction holds a connection from BEGIN to COMMIT or ROLLBACK, a    *)
(* single statement for as long as it runs.  The pool hands out at most    *)
(* PoolMax, to those who wait in the order they came, and lets nobody wait *)
(* longer than connectionTimeoutMillis.  On a signal Nest closes the HTTP  *)
(* server, which waits for the requests whose clients are still there, and *)
(* then ends the pool, which waits for the connections in use.             *)
(***************************************************************************)
EXTENDS Integers, Sequences, FiniteSets

CONSTANTS
    PoolMax,   \* DATABASE_POOL_MAX
    Id, Email, Account, Request, NoId, NoEmail, NoAccount   \* as in AuthAccounts

ASSUME PoolAssumption ==
    /\ PoolMax \in Nat \ {0}
    /\ NoId \notin Id /\ NoEmail \notin Email /\ NoAccount \notin Account

VARIABLES
    users, profiles, accounts, tx, req,   \* as in AuthAccounts
    holds,     \* slots that hold a connection
    queue,     \* slots that wait for one, in order
    process    \* "running", "ending" once the pool was told to end, "gone"

tables == <<users, profiles, accounts, tx, req>>

vars == <<users, profiles, accounts, tx, req, holds, queue, process>>

A == INSTANCE AuthAccounts

Waiting(r) == \E i \in 1..Len(queue) : queue[i] = r

\* The one at position i leaves the queue.
Without(i) ==
    [j \in 1..(Len(queue) - 1) |-> queue[IF j < i THEN j ELSE j + 1]]

\* Mutant: the limit is not compared.
FreeAlways == TRUE

Free == Cardinality(holds) < PoolMax

\* Where a handler is about to begin a transaction, or to insert the session
\* of an OAuth sign-in.
Needs == {"hashing", "checked", "linked", "unlinked", "committed"}

\* Mutant: a conflict throws past the release.
ReturnsOnSuccess == {"created", "committed", "done", "error"}

\* What a handler has come to when it gives its connection back.
Returns == {"created", "committed", "done", "conflict", "error", "idle"}

\* Where a handler does without one.
Unconnected == {"created", "done", "conflict", "error"}

-----------------------------------------------------------------------------
Init ==
    /\ A!Init
    /\ holds = {}
    /\ queue = <<>>
    /\ process = "running"

\* The first look-up of a request holds a connection only while it runs; a
\* request that waits for it holds nothing and is not there yet.  Providers
\* vouch for an email here; what else they may say is AuthAccounts' subject.
Start(r) ==
    /\ process = "running"
    /\ Free /\ queue = <<>>
    /\ \/ \E e \in Email : A!SignUp(r, e)
       \/ \E u \in users : A!SignIn(r, u)
       \/ \E identity \in A!Identity :
              /\ identity.email # NoEmail /\ identity.emailVerified
              /\ A!SignInWithOAuth(r, identity, NoEmail)
    /\ UNCHANGED <<holds, queue, process>>

\* pool.connect(): at once if one is free and nobody waits.
connect(r) ==
    /\ process = "running"
    /\ req[r].stage \in Needs
    /\ r \notin holds /\ ~Waiting(r)
    /\ IF Free /\ queue = <<>>
       THEN holds' = holds \cup {r} /\ UNCHANGED queue
       ELSE queue' = Append(queue, r) /\ UNCHANGED holds
    /\ UNCHANGED <<tables, process>>

\* A connection was given back and goes to the first in the queue.
Grant ==
    /\ process = "running"
    /\ queue # <<>> /\ Free
    /\ holds' = holds \cup {Head(queue)}
    /\ queue' = Tail(queue)
    /\ UNCHANGED <<tables, process>>

\* A statement of a connected handler, or a step that needs no connection.
Handle(r) ==
    /\ r \in holds \/ req[r].stage \in Unconnected
    /\ A!Progress(r)
    /\ holds' = IF req'[r].stage \in Returns THEN holds \ {r} ELSE holds
    /\ UNCHANGED <<queue, process>>

\* A statement is refused: the transaction rolls back, the answer is a 500.
Refused(r) ==
    /\ r \in holds
    /\ A!Abort(r)
    /\ holds' = holds \ {r}
    /\ UNCHANGED <<queue, process>>

\* connectionTimeoutMillis is over, or the pool was told to end before the
\* handler asked.
NoConnection(r) ==
    /\ \/ \E i \in 1..Len(queue) : queue[i] = r /\ queue' = Without(i)
       \/ /\ process = "ending" /\ req[r].stage \in Needs
          /\ r \notin holds /\ ~Waiting(r)
          /\ UNCHANGED queue
    /\ A!Abort(r)
    /\ UNCHANGED <<holds, process>>

\* The HTTP server is closed: requests still being handled are those whose
\* clients have gone.  Nobody in the queue is served any more.
onApplicationShutdown ==
    /\ process = "running"
    /\ process' = "ending"
    /\ UNCHANGED <<tables, holds, queue>>

\* Mutant: the statements run on the pool instead of in the transaction, so
\* that what they wrote before the process died stays.
DeadKeeps ==
    /\ process' = "gone"
    /\ users' = users \cup UNION {tx[r].users : r \in Request}
    /\ profiles' = profiles \cup UNION {tx[r].profiles : r \in Request}
    /\ accounts' = accounts \cup UNION {tx[r].accounts : r \in Request}
    /\ holds' = {}
    /\ queue' = <<>>
    /\ req' = [r \in Request |-> A!NoRequest]
    /\ tx' = [r \in Request |-> A!NoTransaction]

\* The process is gone with its handlers and its connections, and PostgreSQL
\* rolls back what they left open.
Dead == /\ process' = "gone"
        /\ holds' = {}
        /\ queue' = <<>>
        /\ req' = [r \in Request |-> A!NoRequest]
        /\ tx' = [r \in Request |-> A!NoTransaction]
        /\ UNCHANGED <<users, profiles, accounts>>

\* Mutant: nobody awaits the end of the pool.
ExitAtOnce == process = "ending" /\ Dead

\* pool.end() has resolved, for no connection is in use, and the process ends.
Exit == process = "ending" /\ holds = {} /\ Dead

\* An idle connection breaks; nobody listens to the pool's error event, which
\* ends a process of Node.
IdleError ==
    /\ process = "running"
    /\ Free
    /\ Dead

\* The shutdown hook of RedisModule runs in the same sequence as the one that
\* ends the pool, in either order: when quit() is rejected first, Nest logs
\* the error and exits without a call of pool.end().
QuitFails == process = "running" /\ Dead

-----------------------------------------------------------------------------
Next ==
    \/ \E r \in Request :
           \/ Start(r) \/ connect(r) \/ Handle(r) \/ Refused(r)
           \/ NoConnection(r)
    \/ Grant \/ onApplicationShutdown \/ Exit \/ IdleError \/ QuitFails

Spec == Init /\ [][Next]_vars

\* Promises settle, and PostgreSQL serves those who wait for a lock in turn,
\* hence strong fairness: a lock may be taken and freed any number of times.
\* The pool serves its queue, and a process whose shutdown hooks have returned
\* ends.  Nothing is assumed of timeouts.
FairSpec ==
    /\ Spec
    /\ \A r \in Request : SF_vars(connect(r) \/ Handle(r))
    /\ WF_vars(Grant \/ Exit)

-----------------------------------------------------------------------------
(* Properties.                                                             *)

\* Every variable has its type; the pool keeps its limit and nobody holds a
\* connection and waits for another one.
TypeOK ==
    /\ A!TypeOK
    /\ holds \subseteq Request
    /\ Cardinality(holds) <= PoolMax
    /\ queue \in Seq(Request \ holds)
    /\ \A i, j \in 1..Len(queue) : queue[i] = queue[j] => i = j
    /\ process \in {"running", "ending", "gone"}

\* Users are complete (UsersComplete of AuthAccounts) also when the process
\* dies between any two steps of its handlers, by an idle connection that
\* breaks or a shutdown that fails half-way: a row that needs another one is
\* only ever written in one transaction with it (auth.service.ts:124-148,
\* 409-500, database.module.ts:46-51, redis.module.ts:18-20).
CompleteAfterDeath == A!UsersComplete

\* Every request is answered although connections, row locks and keys are all
\* waited for, some while holding others; the timeout of the pool is not
\* needed for it (auth.service.ts:124-148, 236-254, 409-514,
\* database.module.ts:46-51).
EveryRequestAnswered ==
    \A r \in Request : req[r].stage # "idle" ~> req[r].stage = "idle"

\* A shutdown comes to its end, whatever the requests under way wait for
\* (database.module.ts:23-26).
ShutdownEnds == process = "ending" ~> process = "gone"

\* A shutdown that has come to pool.end() interrupts no transaction: it
\* resolves only when every connection has been given back
\* (database.module.ts:23-26).
NothingCut ==
    [][process = "ending" /\ process' = "gone"
       => \A r \in Request : tx[r] = A!NoTransaction]_vars

==============================================================================
