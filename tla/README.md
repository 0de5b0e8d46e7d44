# FluxFlow in TLA+

A verification project for the FluxFlow server: TLA+ modules translated from
the TypeScript and Lua sources, TLC configurations that check them on small
instances, and theorems that TLAPS checks for every value of the constants.
Paths are relative to the repository; `auth.service.ts` and its neighbours are
in `apps/api/src/auth/`, the limiter in `libs/rate-limiter/src/`, the tables in
`libs/database/src/schema/`.

## Running

    tlc -workers 2 -config MCAuthSessions.cfg MCAuthSessions
    tlapm AuthSessionsProofs.tla

Every `.cfg` belongs to the module whose name its own name begins with.
`PROJECT.json` lists the runs, the theorems, the source lines each definition
stands for, the hazards, and for each property a mutant of the model (a
plausible bug, kept beside the definition it changes) that violates it.

## The system

FluxFlow is a NestJS monorepo of two applications over shared libraries. The
API application answers `/auth/*` over PostgreSQL (drizzle on a pg pool). The
rate limiter is a library over Redis, for a gateway that does not call it yet.
All code runs on the event loop of some Node process and gives way at every
`await`; several processes may share the database and Redis. So handlers
interleave at every database statement, and every check that precedes an
`await` may be stale after it.

| Component | State | Operations | Hard behaviour |
|---|---|---|---|
| Auth sessions (`AuthService`) | `sessions` rows; per request, the handler's locals | `signIn`, `refreshTokens`, `revokeSession`, `revokeSessionById`, `revokeAllSessions` | refresh reads a row, awaits, then deletes and inserts; tokens signed in one second are equal; JWT life in seconds, row life in milliseconds; lost responses |
| Auth identity (`AuthService`) | `users`, `profiles`, `accounts` | `signUp`, credential check of `signIn`, `signInWithOAuth` | find-then-insert outside or inside a transaction, against unique constraints; the OAuth session is inserted after the commit |
| Token delivery (`AuthController`) | cookie of the browser, token kept by the device | `handleTokenDelivery`, `extractRefreshToken`, `logout`, `keepCurrent` | two client types, three places a token may come from |
| JWT guard (`JwtStrategy`) | none | checks the access token | a token outlives the session it came with |
| Email verification, password reset | columns of `users` | the controller calls five methods the service does not define | there is no handler |
| Email sender, Google verifier | none | `send`, `verify` | failure swallowed, failure mapped to 401; a provider may give no email, or an unverified one |
| Limiter script (`RATE_LIMIT_LUA_SCRIPT`) | one counter key per tenant and window, each with an expiry | `eval` | estimate over two windows; keys expire; the clock reading is the caller's |
| Limiter fallback (`RateLimiterFallBackService`) | map of buckets in one process | `consume` | opening a bucket sweeps everybody's buckets |
| Limiter choice (`RateLimiterService`) | none of its own | ping, script, fallback on error | a script may run although its reply is lost; commands sent again; Redis restarts |
| Redis client (`RedisProvider`) | one connection per process, commands waiting on it | reconnection | a connection that stays down |
| Database pool (`DatabaseModule`) | connections handed out, handlers that wait for one | `connect`, `end` at shutdown | locks and connections waited for at once; shutdown under parked handlers |
| Configuration, logger, bootstrap, DTOs, tables without code, gateway | none that changes | – | – |

How they interact: the controller awaits the service, which awaits the database
for every statement and the JWT library for every token; the guard looks only
at the token, never at the table. The limiter awaits a ping, then the script,
then calls the fallback in memory. Nothing calls back, and the only shared
state is the database, Redis and the bucket map.

What makes each part correct:

* *Auth sessions*: a row belongs to the subject of its token; a row outlives
  its token; a removed token is never accepted again; nobody removes a
  stranger's session; a login without sessions stays closed; a login forks only
  when refreshes of it overlap.
* *Auth identity*: one user per email and one link per provider account, for
  good, whatever overlaps; a user has a profile and a way to sign in, whichever
  statement fails, the death of the process included; a link follows the email
  that came with it; an answer is for the owner of the link that was presented
  or made.
* *Token delivery*: a device at rest holds a token its session goes on with, and
  can give up whatever is left of its login; `keepCurrent` keeps the caller's
  session.
* *Limiter script*: no window admits more than the limit; no double quota at
  the border of two windows; `retryAfter` is long enough.
* *Limiter fallback*: the same for a window the client was told of.
* *Limiter choice*: nobody is let through uncharged, nobody is charged twice
  without a fault, outages and restarts stretch a quota only so far, every call
  ends.
* *Database pool*: every handler gets its connection, and a shutdown ends without
  cutting a transaction.

## Modules

### `AuthSessions` (with `SessionChains`, `MCAuthSessions`, `AuthSessionsProofs`)

| TLA+ | code |
|---|---|
| `sessions` | the table, one record per row; `userAgent` and `ipAddress` are left out |
| `req[r]` | the locals of a handler parked at an `await`: `stage` says at which |
| `issued` | tokens that reached a client, i.e. that a request may present |
| `SignInLookup` – `SignInConflict` | `signIn` from the accepted credentials: sign, then the transaction with its insert or its unique violation |
| `verifyRefreshToken`, `Refresh*` | `refreshTokens`: JWT check, `findFirst`, the owner and expiry checks, the delete of a bad row, sign, and the transaction that deletes and inserts |
| `revokeSession`, `revokeSessionById`, `revokeAllSessions`, `revokeOtherSessions` | the three revocations, the last in its two branches |
| `Authorise` | `JwtAuthGuard`: only the access token is looked at |
| `Respond`, `Abort` | the response arrives, or a crash, a refused statement or a lost response ends the request |

Modelling decisions:

* *Tokens.* `jwt.sign` is deterministic: payload `{sub, email}` and `iat` in
  whole seconds. Two refresh tokens signed for one user in one second are the
  same string, so the model makes them the same value. The access and the
  refresh token of a response carry the same payload and `iat`; one value
  stands for both, with two lives. Tokens cannot be forged: requests present
  only `issued` ones. SHA-256 is injective.
* *Time.* `clock` counts ticks, `TicksPerSecond` to a second, because
  `Date.now()` is finer than `iat`. It is monotone. A row's `expiresAt` is
  rounded by neither side; a JWT is refused from the second `iat + life` on.
* *Transactions.* PostgreSQL runs them READ COMMITTED and each one here writes
  rows by key, so a transaction commits as one action. A delete of a row that
  is gone deletes nothing and is no error, as in the code.
* *Refused sign-ins* change nothing the module keeps. `users` rows are never
  deleted by any code, so `findFirst` of the user always succeeds. An OAuth
  sign-in ends in an insert like the one of `SignInCommit`.
* *Ids* are numbers given out once, for `defaultRandom()` uuids. `login` is a
  history field: the id of the row that the chain's sign-in inserted.

`SessionChains` is the promise without tables, clocks or tokens: a login opens
a chain; a refresh extends it; a chain that has no session and no refresh under
way is closed for good. `Chains` in `AuthSessions` is the refinement mapping:
live chains are the logins of rows, renewing chains those of refreshes between
their lookup and their commit.

### `AuthAccounts` (with `IdentityDirectory`, `MCAuthAccounts`, `AuthAccountsProofs`)

| TLA+ | code |
|---|---|
| `users`, `profiles`, `accounts` | the committed rows of the three tables |
| `tx[r]` | what the open transaction of a handler wrote and which rows it locked |
| `req[r]` | the locals of a parked handler |
| `SignUp` – `SendEmailVerification` | `signUp`: look-up, hash, two inserts, commit, mail |
| `SignIn` – `SignInCommit` | `signIn`: the accepted credentials, the update of the user, session and commit |
| `SignInWithOAuth` – `OAuthSession` | `signInWithOAuth`: verifier and link look-up before the transaction, its statements, commit, session |
| `EmailConflict`, `AccountConflict`, `SessionFails`, `Abort`, `Respond` | unique violations, a session that cannot be stored, a crash or refused statement, the answer |

Modelling decisions:

* *Transactions* here have several dependent statements, so each statement is
  an action. READ COMMITTED: a select sees `users`, `profiles`, `accounts` and
  the handler's own `tx`. An update waits while another transaction has the
  row in `locked`; an insert waits while another one has inserted its key, and
  then fails if that one has committed. Foreign keys take locks that no update
  here collides with. Two actions merge statements: a look-up with the update
  of the row it found, and the find-or-insert of a profile, whose user's row is
  locked or still invisible, so that nobody else can insert one in between.
* *Requests that are refused* with a 4xx before they write change nothing and
  are left out, except the missing email, which is found inside the transaction.
* *Columns* are kept where something depends on them: whether there is a password
  and whether the email is verified. The verification token is never read.
* *Ids* come from `defaultRandom()`; an id of a rolled-back insert may be drawn
  again in the model, which nobody can notice, and keeps `Id` small.
* *Sessions* are the business of `AuthSessions`. Here an insert of one succeeds
  (`SignInCommit`, `OAuthSession`) or not (`SessionFails`), at any time.
* *Providers*: there is one verifier, so `Account` is the set of its accounts.
* `alone` is history: no other request was under way while this one was.

`IdentityDirectory` is the promise without transactions: pairs of an email and a
user, pairs of a provider account and a user, each claimed once and for good.

### `RateLimitFallback` (with `MCRateLimitFallback`, `RateLimitFallbackProofs`)

`consume` never awaits, so a call is one action, `Admit` or `Refuse`. `Expired`,
`bucket` and `Swept` are the three parts of opening a bucket; the sweep uses the
caller's window for every tenant. `until`, `used`, `resetAt` and `refusal` are
histories of what responses said, against which the properties are stated: a
client knows windows only from responses. A tenant's plan is constant.

### `RateLimitScript` (with `MCRateLimitScript`, `RateLimitScriptProofs`)

One tenant's keys. Redis runs a script in one piece: an evaluation is `Admit` or
`Refuse`. `GET` sees a key until its expiry. The script divides in floating
point; the model multiplies instead and stays exact, except at a tie, where the
quotient may come out too small and the test pass: `RoundsDown` makes that a
choice. `Readings` are the clock readings that an evaluation may carry, up to
`Lag` ticks old, in any order. `count`, `remaining` and `resetAt` of a response
are left out: nothing else depends on them. `Restart` is Redis starting again
from a snapshot: every key from some window on is lost, and with it the history
`admitted`, so that the quota properties speak of what Redis still knows.

### `RateLimiter` (with `MCRateLimiter`, `RateLimiterProofs`)

| TLA+ | code |
|---|---|
| `keys`, `clock`, `admitted`, `retry` | the state of `RateLimitScript`, one Redis for all processes |
| `memory[p]` | the bucket of the tenant in the fallback of process `p` |
| `link[p]` | the ioredis connection of `p` |
| `req[r]` | a call of `consume` parked at `ping` or `eval`, with its clock reading; `Server` says in which process |
| `Pong`, `Evaluate`, `Reply`, `FallBack` | `consume`: the answered ping, the script, its reply, the fallback on any failure |
| `RedisError`, `Disconnect`, `Reconnect`, `Flush`, `Crash`, `RedisRestart` | an error reply, the connection, `maxRetriesPerRequest`, a process or Redis starting again |

It composes the two limiters by `INSTANCE`: an evaluation is `Admit` or `Refuse`
of `RateLimitScript`, a fallback opens its bucket as `RateLimitFallback` does.
`ImplementsScript` is the refinement: whatever processes, connections and
Redis go through, the keys only see steps of `RateLimitScript`.

Modelling decisions:

* *ioredis* runs with the options of `RedisProvider` and its defaults: commands
  issued while the connection is down are queued, commands sent and not answered
  are sent again after a reconnection, and after 20 failed attempts all of them
  are rejected. So a script may run twice, or run and still be rejected.
  `Disconnect` happens when the server loses the client; a script that runs
  between that and the client's noticing is one that runs before it.
* *Time.* Processes and Redis read one clock. `Lag` is an assumption about the
  environment: no `EVAL` is under way longer. It is what `QuotaHolds` of
  `RateLimitScriptProofs` needs to be at most a window.
* *Silence.* No `commandTimeout` is set, so a Redis that keeps the connection and
  never answers would hold `consume` for ever; fairness excludes it.
* *One tenant.* That tenants disturb each other's buckets is the subject of
  `RateLimitFallback`.
* *Histories* of what callers were told: `answered` goes with the keys, as
  `admitted` does, and a restart of Redis adds to `forgotten` what it takes from
  `answered` and counts the loss in `losses`. `passed` counts the callers a process
  let through from memory in the current window in all its lives, `crashes` how
  many lives ended in it. `faults` and `calls` count what a behaviour contains,
  up to `MaxFaults` and `MaxCalls`.
* *A process that starts again* has its connection still to make (`Crash` leaves
  `link` down).

### `TokenDelivery` (with `MCTokenDelivery`, `TokenDeliveryProofs`)

| TLA+ | code |
|---|---|
| `jar`, `until` | the token a device stores, and when the browser drops its cookie (`maxAge`) |
| `from[r]` | device, kind and token of the request in slot `r` |
| `clearing` | devices to which an answer with `clearCookie` is on its way |
| `login`, `refresh`, `logout`, `requestRevocation`, `revokeAllSessions`, `revokeSessionById` | the handlers of the controller, over the actions of `AuthSessions` |
| `extractRefreshToken` | cookie of a web client, body or header of a mobile one |
| `handleTokenDelivery`, `clearCookie` | the answer reaches the device |
| `Fail` | PostgreSQL refuses a statement, and the 500 reaches the device |
| `Lose`, `LoseClearCookie` | an answer is lost, or the server gives up |

Every step of a request is one of `AuthSessions` (`S`); this module adds whose
request it is and what its answer does. Answers of one device may overtake each
other. A web client may also send a token in the body or a header, but keeps it
nowhere else than in the cookie. A mobile client may leave the token out of
any request; a browser withholds a strict cookie from a request of another site
(`Sent`). A mobile client forgets its token when it logs out; the code does not
tell it to. `chain` is history: the login of the device, as long as its requests
never overlapped and no answer was lost. The properties speak of such devices
only, for the others may rightly be locked out. `requestRevocation` carries the
access token of some answer the device got, which is not always the last one.

An OAuth sign-up also delivers a token (`auth.controller.ts:39-43`); for the device
it is a sign-in like `login`. A refused statement (`Fail`) leaves the device the
token it had, of which `HoldsLiveToken` still claims that it is good: a refresh
that fails at any statement before its commit must not have spent it.

`ImplementsSessions` says that all this asks of the session service only what
`AuthSessions` allows: devices present tokens that answers brought, and every
handler of the controller calls the service in one of its steps. So what is
shown of `AuthSessions` holds under the controller too.

`NothingLeftBehind` speaks of devices that one user alone signed in on
(`OneUser`). When users share a browser it is false: an access token of the
first user, still good, may be used to revoke with `keepCurrent=false`; that
deletes the first user's sessions, and the answer clears the cookie of the
second, whose session then stays with nobody to give it up. No property covers
that: no line of the repository says what devices that users share are promised.

### `PooledAccounts` (with `MCPooledAccounts`, `PooledAccountsProofs`)

The handlers of `AuthAccounts` (`A`) in one process on its pg pool. `holds` are the
slots with a connection, `queue` those that wait, `process` says whether the
process runs, was told to end, or is gone. `connect` precedes each transaction and
the session insert that follows an OAuth commit; `Returns` are the points where the
connection is given back. `Start` needs a free connection for the look-up and gives
it back at once. `onApplicationShutdown` comes after Nest has closed the HTTP
server, when only requests whose clients have gone are still being handled;
`pool.end()` then refuses new connections, serves the queue no more and waits
for those in use. `NoConnection` is the timeout of five seconds, or the refusal.
`IdleError` is the end of the process by an `error` event of the pool that nobody
listens to. `QuitFails` is the end by the other shutdown hook of the application:
when `redisClient.quit()` in `libs/redis/src/redis.module.ts` is rejected, Nest exits
without having called `pool.end()`. So `NothingCut` speaks of shutdowns that have
come to `pool.end()`. The other ends of the process may cut transactions anywhere;
`CompleteAfterDeath` says that they leave no half user behind. What providers say of emails is reduced to one vouched email.

## Runs

| Run | Bounds | Shows |
|---|---|---|
| `MCAuthSessions.cfg` | 2 users, 2 request slots, 3 seconds of 2 ticks, refresh tokens of 2 seconds, 3 inserts | `TypeOK`, `SubjectOwnsRow`, `RowOutlivesToken`, `RevokedTokenStaysRevoked`, `OnlyOwnerRemoves`, `RotationKeepsOneSession`, `ImplementsChains` |
| `MCAuthSessionsRotation.cfg` | 1 user, 2 slots | violates `OneSessionPerLogin` |
| `MCAuthSessionsLogout.cfg` | 1 user, 2 slots | violates `RevokedLoginStaysRevoked` |
| `MCAuthSessionsDevices.cfg` | 1 user, 2 slots | violates `SimultaneousLoginsSucceed` |
| `MCAuthAccounts.cfg` | 2 ids, 2 emails, 2 provider accounts, 2 slots | `TypeOK`, `UsersComplete`, `AloneNeverConflicts`, `AnswerIsOwner`, `LinkFollowsEmail`, `ImplementsDirectory` |
| `MCPooledAccounts.cfg` | 1 id, email and provider account, 3 slots on 2 connections | `TypeOK`, `NothingCut`, `CompleteAfterDeath`, `EveryRequestAnswered`, `ShutdownEnds` |
| `MCRateLimitFallback.cfg` | two tenants with 1-second windows, one with a 2-second window, limits 2, 1, 2; 3 seconds of 2 ticks | `TypeOK`, `QuotaKept`, `RetryHonoured` |
| `MCRateLimitFallbackSweep.cfg` | same tenants | violates `QuotaOfEveryTenant` |
| `MCRateLimitScript.cfg` | limit 3, four windows of 6 ticks, current readings | `TypeOK`, `WindowQuota`, `NoBurstAtBoundary`, `WaitingHelps` |
| `MCRateLimiter.cfg` | 1 process with 2 slots, limit 2, 2 windows of 2 ticks, lag 1, 4 calls, 2 faults | `TypeOK`, `ChargedAsAnswered`, `OutageQuota`, `ImplementsScript`, `EveryConsumeAnswered` |
| `MCTokenDelivery.cfg` | 1 user with a browser and a mobile client, 2 slots, 2 seconds, refresh tokens of 2 seconds, 3 inserts | `TypeOK`, `HoldsLiveToken`, `NothingLeftBehind`, `ImplementsSessions` |
| `MCTokenDeliveryOthers.cfg` | the same | violates `RevokesOnlyOthers` |

Why the bounds are enough. The races of the session service need two requests
on one row and a third party's row that must stay untouched: two slots and two
users. Three seconds are enough for tokens of the same and of different seconds,
for a token that is rotated or revoked while it is still good to be presented
again, and for rows and tokens to expire. Three inserts allow a login and two
refreshes of it, or two logins and a refresh. Users and slots are symmetric, and
the run checks no liveness. Four limiter windows allow a key to be created, to weigh as the
previous one, to expire and to be followed by another. The script's own run has
current readings (`Lag` is 0), because `NoBurstAtBoundary` and `WaitingHelps` are
about them. Evaluations with old readings rest on the theorem `QuotaHolds` of
`RateLimitScriptProofs` and on `MCRateLimiter.cfg`, where the lag is one tick. A lag
of one tick more than a window violates `WindowQuota`, so the bound in `QuotaHolds`
is tight.
The theorems remove all these bounds for the properties they name.

In `AuthAccounts` the races are between two sign-ups, two first OAuth sign-ins
or one of each, for the same and for different emails and accounts: two of
everything. Three slots hold as well (with one and with two provider accounts;
the latter takes longer than a run should). In `PooledAccounts` a cycle needs two
transactions that hold connections and locks and a third one without: three
slots, two connections, and one key and row of each kind to collide on.

In `RateLimiter` two faults suffice for a script to run, lose its reply, and be
rejected or run again against keys that Redis has lost, and for a process to fall
back in two lives within one window. Four calls are twice the limit: enough for
a bucket opened in the first window, exhausted and renewed in the second, to let
three through there, one less than `OutageQuota` excludes, and for a restart to
double what Redis lets through. The model does not order the commands of a
connection, so the two slots of one process overlap as those of two processes
would; connections and memories of several processes are covered by the theorems,
and by the same run with two processes and one fault, which holds as well. In
`TokenDelivery` three inserts are a login, a refresh and a login of the other
device. Two users on one browser hold as well; with both devices they take longer
than a run should. The cookie of a delivered token expires no earlier than the
token, so the runs stop before; a third second changes nothing but takes longer
than a run should.

Deadlock is not checked: a server without requests rests, and every clock
reaches its last tick.

### Fairness

Liveness is asked where handlers wait for something that others hold or that may
stay away: of the pool with its locks and of the limiter with its connection. The
handlers of `AuthSessions` and `TokenDelivery` wait for nothing in the model, and
their modules state no fairness. `FairSpec` of `PooledAccounts` is strongly fair to each handler, which may wait for a lock that others take and
free again and again: PostgreSQL queues those who wait for a lock and serves
them in turn, so nobody is overtaken for ever. The pool serves its queue
(`Grant`), and a process ends when its shutdown hooks have returned (`Exit`): Nest
then raises the signal again. That the pool's timeout ever comes is not assumed,
so handlers are answered without its help. `FairSpec` of `RateLimiter` is weakly
fair to what Redis answers on a connection that is up, to the fallback, and to
`Flush`, which ioredis does after a number of failed reconnections; a connection
need never come up again. No other run uses fairness.

## What the runs with violations say

* Two refreshes of one token both succeed (`auth.service.ts:312` ignores how
  many rows it deleted), so rotation leaves two sessions of one login, each
  with its own chain of tokens. What does hold is `RotationKeepsOneSession`: only
  refreshes that overlap between look-up and commit fork a login.
* A refresh that read its row before a logout or a revocation commits after
  it and revives the login. What does hold is `ImplementsChains`: only refreshes
  already under way can do that.
* Two sign-ins of one user in one second sign one refresh token; the second
  insert hits the unique constraint and the client gets a 500.
* The fallback's sweep deletes live buckets of tenants with longer windows. What
  does hold is `QuotaKept`, for tenants of the shortest window.
* A request to revoke all *other* sessions that carries no refresh token (a cookie
  withheld, a mobile client that sent none) deletes the current session as well,
  and the answer still says "All other sessions revoked".

Four limits of properties that hold are worth knowing. The fallback's `resetAt` is
rounded down and comes up to a second before the window is over. During an
outage each process adds up to twice the limit less one to a window, because the
windows of its memory begin whenever a bucket is opened; each crash of the process,
and each restart in which Redis loses the key of the window, adds the limit once
more (`OutageQuota`). A refresh in the second
of its token's signing rotates the token to itself, which is why
`RevokedTokenStaysRevoked` speaks of tokens of earlier seconds. A caller of the
script that returns exactly after `retryAfter` may be refused again, because the
window it used up still weighs in full at that moment; `WaitingHelps` holds from
one tick later on.

The comment at `rate-limiter.constants.ts:1` ("one key per tenant") describes the
script that is commented out below it; the one in use keeps a key per window.

## Proofs

`AuthSessionsProofs`, from `ConstantsAssumption` (positive seconds and lives,
nothing about users or slots): `Inv` is inductive. `SubjectOwnsRow` alone is
not: that a commit stores a row whose token names its user needs
`RequestConsistent`, which ties what a parked handler has signed and read to
the user it works for. `FreshIds` makes ids name one row for ever, so
`LocatedRowUnchanged` can say that the row a refresh found is, if it is still
there, the same row; the deletes by id rest on it. The action properties then
take one more case split. `RotationMovesOneSession` looks at the steps that can
change the rows or the refreshes of a login: a row is only added to a login by
the commit of a refresh of it, which deletes the row it had found, and that is the
only row the login had. `RevokedTokenStaysRevoked` holds because a row is only
stored for a token signed at the latest second or carried by a request.
`OnlyOwnerRemoves` combines `FreshIds` with the consistency of the request. The
refinement maps each handler step to one of `SessionChains` or to a stutter;
its lemma `RenewingMoves` says what a step of one request does to the set of
renewing chains.

`RateLimitFallbackProofs`: `BucketAsTold` relates the bucket of a tenant of the
shortest window to what responses said of it. It survives every sweep, because
a sweep by a window no shorter than one's own removes only what had expired
anyway. `RefusalCoversBucket` gives `RetryHonoured` for every tenant.

`RateLimitScriptProofs`: `KeyExact` says that a key, once incremented, holds its
window's count and lives until the next window is over, hence as long as any
evaluation with a reading at most a window old looks at it (`Lag <= windowMs`,
the hypothesis of the quota theorems). With current readings (`Lag = 0`, that
of `NoBurst` and `WaitingIsEnough`) `CurrentCounts` makes the estimate exact, and
`Inv` is inductive: the share of the previous window shrinks with each tick, and
a new window has admitted nobody.

The theorems on the quota hold across `Restart`: a lost key takes its window's
admissions with it.

`RateLimiterProofs`, from `LimiterAssumption` (finitely many slots, any processes
and faults): `ReadingsInv` says that a script under way carries a reading no
older than `Lag`, so each step is one of `RateLimitScript` or leaves its
variables alone. That is `Refinement`, and with `Lag <= windowMs`, the hypothesis
of the other theorems, it carries the invariant of `RateLimitScriptProofs` over.
`LedgerInv` adds that without a fault no call is failed and no connection down;
in each action the admissions, the answers and the replies under way of one
window change together (`FlightSize` counts the latter). `LossInv` and `MemoryInv` explain
the bounds in `OutageQuota`. A restart takes at most the limit from `answered`,
because no more were admitted (`LossInv`). `PassedAsCounted` says that a bucket opened in an earlier
window has counted everyone it let through in this one, and that a bucket opened
in this window came after at most one that was still in use, which had let fewer
than the limit through here, because it had already counted someone there; each
life that ended in this window may have let the limit through besides (`Lived`).

`AuthAccountsProofs`, from `NamesAssumption` (a missing value is no value), for any
users, emails, accounts and slots: `Inv` has these parts beside the types. `UniqueUsers` and `UniqueAccounts` say that ids,
emails and provider accounts are unique over the committed rows and the rows of
all open transactions *together*: an insert waits for an equal key that is
pending, so two transactions never hold one key, and a commit cannot bring a
second one. `Parked` says, for every stage, what the handler knows and what its
transaction holds: an OAuth sign-in that has reached `link` has a user (committed, or its own)
with a profile (likewise), so that whatever it commits is whole. From these
follow `UsersComplete`, which is part of `Inv`, `AnswerIsOwner`,
`LinkFollowsEmail` and the refinement of `IdentityDirectory`, where a commit is
one step and everything else a stutter. `AloneInv` is what `AloneNeverConflicts`
needs: what a request found free stays free as long as no other one arrives. It is
about the constraints of users and accounts. The one of `sessions.session_token` may
refuse a sign-in that nothing overlaps, in the second of an earlier one
(`MCAuthSessionsDevices.cfg`); here it is one of the reasons of `SessionFails`.

The email that `LinkFollowsEmail` speaks of is the provider's or, where the provider
gives none, the one the client filled in (`EmailOf`, `auth.service.ts:439`): the
property relates a link to the request that made it, not to whoever reads that
mailbox. So does `AnswerIsOwner`.

`PooledAccountsProofs`, from `PoolAssumption` (any size of the pool, any number of
requests; a missing value is no value). Each step of a handler is one of
`AuthAccounts` or leaves its variables alone, so `Inv` of `AuthAccountsProofs`
carries over, also across the death of the process, which is `Abort` of every
request at once. `Connected` is new: a handler at a stage with an open
transaction holds a connection. `NothingCut` follows, because `pool.end()` waits
until no connection is held. `CompleteThroughDeath` proves `CompleteAfterDeath`:
`UsersComplete` on the pool, whichever way the process ends.

`AuthSessionsProofs` ends with `Keys`, on which the next module rests: tokens of rows
are unique, chains are numbered like rows, the row that a refresh located is the
row of the token it presents, and if that row has expired, so has the token
(`LocatedToken`).

`TokenDeliveryProofs`, from `DeliveryAssumption`, for any devices, users and requests:
each step is one of the service, or leaves it alone (`Refinement`), so `Inv` and
`Keyed` of `AuthSessionsProofs` carry over. `SlotInv`, `JarInv` and `OneRequest`
relate slots to devices, stored tokens to given ones and cookies to the tokens
in them. `HeldInv` strengthens `HoldsLiveToken` by the answers on their way: the
token last signed for a tracked device is in the table, because only its own
refresh, which has just replaced it, or a revocation removes its row; no other
device presents its token (`Tracked`). `LeftInv` strengthens
`NothingLeftBehind` and follows a chain through a refresh: all its rows stand for
tokens of the device (`ChainOwned`), the valid ones for the latest
(`ChainLatest`), and a refresh under way has found the only valid row
(`ChainRefreshed`), so that its commit leaves none behind.

`INSTANCE` makes the operators of a module anew; the lemmas named `Same...` in the two
composed modules say that both instances mean the same.

Only model-checked: the three liveness properties (`EveryRequestAnswered` and
`ShutdownEnds` of `PooledAccounts`, `EveryConsumeAnswered` of `RateLimiter`), which are out of the prover's reach. Every other property that a passing run
checks is also proved.

## Not modelled

Verification and reset, of which only the calls exist (`auth.controller.ts:105-127`), so that a user who
signed up with a password becomes verified only by an OAuth sign-in with the
same email; what `quit` of the Redis client does to commands of the limiter, which no
handler calls yet (that it may fail is `QuitFails`); the gateway application and the tables of tenants, plans, payments and logs, which no code uses;
configuration, logging, DTO validation, URL and mail formatting.

## Plan

1. `AuthSessions`, `SessionChains`, `RateLimitFallback`, `RateLimitScript`, with
   proofs: done.
2. `AuthAccounts`, `IdentityDirectory`, with proofs: done.
3. `RateLimiter`, `TokenDelivery`, `PooledAccounts`, with proofs: done. To prove next:
   what the refinements promise, as theorems of the detailed modules (a claim of
   `IdentityDirectory` is never lost, a closed chain stays closed under the
   controller), and what is left of the other violated statements once their races
   are excluded, as `RotationKeepsOneSession` says for the first.
4. When the gateway calls the limiter: its guard, and `quit` under calls of it.

The order follows what is lost when it goes wrong: sessions and accounts first,
quotas next, delivery and plumbing last.
