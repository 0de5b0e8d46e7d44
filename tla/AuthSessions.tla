----------------------------- MODULE AuthSessions -----------------------------
(***************************************************************************)
(* The life of a device session: AuthService.signIn, refreshTokens and the *)
(* three revocations (apps/api/src/auth/auth.service.ts) over the sessions *)
(* table (libs/database/src/schema/auth.schema.ts), under any number of    *)
(* concurrent requests.                                                    *)
(*                                                                         *)
(* A handler runs on the event loop of some API process and gives way at   *)
(* every await, so each action below is the code between two awaits that   *)
(* touch shared state: one statement or one transaction of PostgreSQL, or  *)
(* one reading of the clock.  The credential checks of signIn only decide  *)
(* whether the request goes on; a refused sign-in changes nothing here.    *)
(***************************************************************************)
EXTENDS Integers, FiniteSets

CONSTANTS
    User,             \* accounts that may sign in
    Request,          \* slots for requests being handled at the same time
    NoUser, NoToken,
    TicksPerSecond,   \* clock readings per second: Date.now() is finer than iat
    RefreshTtl,       \* life of a refresh token, in seconds ('7d')
    AccessTtl,        \* life of an access token, in seconds ('15m')
    MaxClock,         \* bound: the last tick
    MaxInserts        \* bound: rows ever inserted

ASSUME ConstantsAssumption ==
    /\ TicksPerSecond \in Nat \ {0}
    /\ RefreshTtl \in Nat \ {0}
    /\ AccessTtl \in Nat \ {0}
    /\ MaxClock \in Nat
    /\ MaxInserts \in Nat

VARIABLES
    clock,     \* Date.now(), in ticks
    sessions,  \* rows of the sessions table
    nextId,    \* the next fresh row id (defaultRandom uuids never repeat)
    issued,    \* token pairs that reached a client
    req        \* per slot, the request being handled

vars == <<clock, sessions, nextId, issued, req>>

-----------------------------------------------------------------------------
(* Tokens.  jwt.sign stamps iat in whole seconds and adds nothing random,  *)
(* so two tokens signed for one user in the same second are equal.  One    *)
(* value stands for the access and refresh tokens of a response: both have *)
(* the same payload and iat, and differ in secret and life.                *)

Second(t) == t \div TicksPerSecond

Token == [sub: User, iat: 0..Second(MaxClock)]

\* Mutant: iat taken in milliseconds.
generateTokensInTicks(u) == [sub |-> u, iat |-> clock]

generateTokens(u) == [sub |-> u, iat |-> Second(clock)]

\* jsonwebtoken rejects a token from the second exp = iat + ttl on.
Unexpired(k, ttl) == Second(clock) < k.iat + ttl

\* sha256 is taken to be injective; the table never holds the token itself.
hashToken(k) == [sha256 |-> k]

\* Mutant: seconds given where milliseconds are meant.
REFRESH_TOKEN_TTL_S == RefreshTtl

REFRESH_TOKEN_TTL_MS == RefreshTtl * TicksPerSecond

-----------------------------------------------------------------------------
(* Rows and requests.                                                      *)

Row == [id: Nat, userId: User, sessionToken: [sha256: Token],
        expiresAt: Nat,
        login: Nat]   \* history: id of the row its login created

\* What the handler has computed when it is parked at an await.
Stage ==
    {"idle",
     "verified",        \* refresh: the JWT is good, the row not yet read
     "mismatch",        \* refresh: the row belongs to another user
     "stale",           \* refresh: the row has expired
     "found",           \* refresh: the row passed every check
     "checked",         \* sign-in: the credentials passed
     "refreshSigned",   \* refresh: new tokens signed, nothing written
     "loginSigned",     \* sign-in: tokens signed, nothing written
     "authorised",      \* revocation: the access token is good
     "done",            \* success, response not yet delivered
     "error"}           \* unhandled database error, a 500

RequestState ==
    [stage: Stage, user: User \cup {NoUser}, token: Token \cup {NoToken},
     id: Nat, login: Nat, new: Token \cup {NoToken}]

NoRequest ==
    [stage |-> "idle", user |-> NoUser, token |-> NoToken,
     id |-> 0, login |-> 0, new |-> NoToken]

buildSessionInsertValues(u, k, login) ==
    [id |-> nextId, userId |-> u, sessionToken |-> hashToken(k),
     expiresAt |-> clock + REFRESH_TOKEN_TTL_MS, login |-> login]

\* The unique constraint on session_token.
TokenTaken(rows, k) == \E s \in rows : s.sessionToken = hashToken(k)

Stored(k) == TokenTaken(sessions, k)

-----------------------------------------------------------------------------
Init ==
    /\ clock = 0
    /\ sessions = {}
    /\ nextId = 1
    /\ issued = {}
    /\ req = [r \in Request |-> NoRequest]

\* Bound: admit a request that may insert only while an id is left for it.
CanInsert ==
    nextId + Cardinality({r \in Request : req[r].stage # "idle"}) <= MaxInserts

Tick ==
    /\ clock < MaxClock
    /\ clock' = clock + 1
    /\ UNCHANGED <<sessions, nextId, issued, req>>

(* signIn *)

\* The account was found and its password and verified flag passed.
SignInLookup(r, u) ==
    /\ req[r].stage = "idle"
    /\ CanInsert
    /\ req' = [req EXCEPT ![r] = [@ EXCEPT !.stage = "checked", !.user = u]]
    /\ UNCHANGED <<clock, sessions, nextId, issued>>

\* Mutant: the tokens are a field of the one service object, so a second
\* sign-in replaces those that a parked one is about to store.
SignInSignShared(r) ==
    /\ req[r].stage = "checked"
    /\ req' = [q \in Request |->
           IF q = r \/ req[q].stage = "loginSigned"
           THEN [req[q] EXCEPT !.stage = "loginSigned",
                               !.new = generateTokens(req[r].user)]
           ELSE req[q]]
    /\ UNCHANGED <<clock, sessions, nextId, issued>>

SignInSign(r) ==
    /\ req[r].stage = "checked"
    /\ req' = [req EXCEPT ![r] = [@ EXCEPT
           !.stage = "loginSigned", !.new = generateTokens(req[r].user)]]
    /\ UNCHANGED <<clock, sessions, nextId, issued>>

\* The insert that ends signInWithOAuth has the same effect on the table.
SignInCommit(r) ==
    /\ req[r].stage = "loginSigned"
    /\ ~TokenTaken(sessions, req[r].new)
    /\ sessions' = sessions \cup
           {buildSessionInsertValues(req[r].user, req[r].new, nextId)}
    /\ nextId' = nextId + 1
    /\ req' = [req EXCEPT ![r].stage = "done"]
    /\ UNCHANGED <<clock, issued>>

\* The insert violates the unique constraint and the transaction rolls back.
SignInConflict(r) ==
    /\ req[r].stage = "loginSigned"
    /\ TokenTaken(sessions, req[r].new)
    /\ req' = [req EXCEPT ![r].stage = "error"]
    /\ UNCHANGED <<clock, sessions, nextId, issued>>

(* refreshTokens *)

verifyRefreshToken(r, k) ==
    /\ req[r].stage = "idle"
    /\ CanInsert
    /\ Unexpired(k, RefreshTtl)
    /\ req' = [req EXCEPT ![r] = [@ EXCEPT !.stage = "verified", !.token = k]]
    /\ UNCHANGED <<clock, sessions, nextId, issued>>

\* Mutant: the missing row is not an error, the verified JWT suffices.
RefreshUnknownAccepted(r) ==
    /\ req[r].stage = "verified"
    /\ ~Stored(req[r].token)
    /\ req' = [req EXCEPT ![r] = [@ EXCEPT !.stage = "found",
                                             !.user = req[r].token.sub]]
    /\ UNCHANGED <<clock, sessions, nextId, issued>>

RefreshUnknown(r) ==
    /\ req[r].stage = "verified"
    /\ ~Stored(req[r].token)
    /\ req' = [req EXCEPT ![r] = NoRequest]
    /\ UNCHANGED <<clock, sessions, nextId, issued>>

\* findFirst by hash, then the owner check, then the expiry check.
RefreshLookup(r, s) ==
    /\ req[r].stage = "verified"
    /\ s.sessionToken = hashToken(req[r].token)
    /\ req' = [req EXCEPT ![r] = [@ EXCEPT
           !.stage = IF s.userId # req[r].token.sub THEN "mismatch"
                     ELSE IF clock > s.expiresAt THEN "stale" ELSE "found",
           !.user = s.userId, !.id = s.id, !.login = s.login]]
    /\ UNCHANGED <<clock, sessions, nextId, issued>>

RefreshDrop(r) ==
    /\ req[r].stage \in {"mismatch", "stale"}
    /\ sessions' = {s \in sessions : s.id # req[r].id}
    /\ req' = [req EXCEPT ![r] = NoRequest]
    /\ UNCHANGED <<clock, nextId, issued>>

\* Mutant: the token presented is stored and handed out again.
RefreshSignReuses(r) ==
    /\ req[r].stage = "found"
    /\ req' = [req EXCEPT ![r] = [@ EXCEPT
           !.stage = "refreshSigned", !.new = req[r].token]]
    /\ UNCHANGED <<clock, sessions, nextId, issued>>

RefreshSign(r) ==
    /\ req[r].stage = "found"
    /\ req' = [req EXCEPT ![r] = [@ EXCEPT
           !.stage = "refreshSigned", !.new = generateTokens(req[r].user)]]
    /\ UNCHANGED <<clock, sessions, nextId, issued>>

\* Mutant: the old row stays until it expires.
OthersThanNone(id) == sessions

\* What the transaction's delete leaves; nothing checks that it deleted a row.
OthersThan(id) == {s \in sessions : s.id # id}

RefreshCommit(r) ==
    /\ req[r].stage = "refreshSigned"
    /\ ~TokenTaken(OthersThan(req[r].id), req[r].new)
    /\ sessions' = OthersThan(req[r].id) \cup
           {buildSessionInsertValues(req[r].user, req[r].new, req[r].login)}
    /\ nextId' = nextId + 1
    /\ req' = [req EXCEPT ![r].stage = "done"]
    /\ UNCHANGED <<clock, issued>>

RefreshConflict(r) ==
    /\ req[r].stage = "refreshSigned"
    /\ TokenTaken(OthersThan(req[r].id), req[r].new)
    /\ req' = [req EXCEPT ![r].stage = "error"]
    /\ UNCHANGED <<clock, sessions, nextId, issued>>

(* Revocation *)

\* Logout presents a token that is hashed and deleted without being verified.
revokeSession(k) ==
    /\ sessions' = {s \in sessions : s.sessionToken # hashToken(k)}
    /\ UNCHANGED <<clock, nextId, issued, req>>

\* JwtAuthGuard: some access token of u is still good when the request arrives.
Authorise(r, u) ==
    /\ req[r].stage = "idle"
    /\ \E k \in issued : k.sub = u /\ Unexpired(k, AccessTtl)
    /\ req' = [req EXCEPT ![r] = [@ EXCEPT !.stage = "authorised", !.user = u]]
    /\ UNCHANGED <<clock, sessions, nextId, issued>>

\* Mutant: the delete forgets the owner.
revokeAnySessionById(r, id) ==
    /\ req[r].stage = "authorised"
    /\ sessions' = {s \in sessions : s.id # id}
    /\ req' = [req EXCEPT ![r] = NoRequest]
    /\ UNCHANGED <<clock, nextId, issued>>

revokeSessionById(r, id) ==
    /\ req[r].stage = "authorised"
    /\ sessions' = {s \in sessions : ~(s.id = id /\ s.userId = req[r].user)}
    /\ req' = [req EXCEPT ![r] = NoRequest]
    /\ UNCHANGED <<clock, nextId, issued>>

revokeAllSessions(r) ==
    /\ req[r].stage = "authorised"
    /\ sessions' = {s \in sessions : s.userId # req[r].user}
    /\ req' = [req EXCEPT ![r] = NoRequest]
    /\ UNCHANGED <<clock, nextId, issued>>

revokeOtherSessions(r, keep) ==
    /\ req[r].stage = "authorised"
    /\ sessions' = {s \in sessions : \/ s.userId # req[r].user
                                     \/ s.sessionToken = hashToken(keep)}
    /\ req' = [req EXCEPT ![r] = NoRequest]
    /\ UNCHANGED <<clock, nextId, issued>>

(* The end of a request *)

Respond(r) ==
    /\ req[r].stage \in {"done", "error"}
    /\ issued' = IF req[r].stage = "done" THEN issued \cup {req[r].new}
                                          ELSE issued
    /\ req' = [req EXCEPT ![r] = NoRequest]
    /\ UNCHANGED <<clock, sessions, nextId>>

\* The process dies, the database refuses the statement, or the response is
\* lost: an open transaction rolls back and the client learns nothing.
Abort(r) ==
    /\ req[r].stage # "idle"
    /\ req' = [req EXCEPT ![r] = NoRequest]
    /\ UNCHANGED <<clock, sessions, nextId, issued>>

-----------------------------------------------------------------------------
SignInStep(r) == SignInSign(r) \/ SignInCommit(r) \/ SignInConflict(r)

RefreshStep(r) ==
    \/ RefreshUnknown(r)
    \/ \E s \in sessions : RefreshLookup(r, s)
    \/ RefreshDrop(r)
    \/ RefreshSign(r)
    \/ RefreshCommit(r)
    \/ RefreshConflict(r)

RevokeStep(r) ==
    \/ \E id \in 1..(nextId - 1) : revokeSessionById(r, id)
    \/ revokeAllSessions(r)
    \/ \E k \in issued : revokeOtherSessions(r, k)

Arrive(r) ==
    \/ \E u \in User : SignInLookup(r, u) \/ Authorise(r, u)
    \/ \E k \in issued : verifyRefreshToken(r, k)

Progress(r) == SignInStep(r) \/ RefreshStep(r) \/ RevokeStep(r) \/ Respond(r)

Next ==
    \/ Tick
    \/ \E r \in Request : Arrive(r) \/ Progress(r) \/ Abort(r)
    \/ \E k \in issued : revokeSession(k)

Spec == Init /\ [][Next]_vars

-----------------------------------------------------------------------------
(* Properties.                                                             *)

\* Every variable has its type (auth.schema.ts:116-128 for the rows).
TypeOK ==
    /\ clock \in 0..MaxClock
    /\ sessions \subseteq Row
    /\ nextId \in Nat \ {0}
    /\ issued \subseteq Token
    /\ req \in [Request -> RequestState]

\* The token a row was stored for.
TokenOf(s) == s.sessionToken.sha256

\* A row always belongs to the subject of its token, whichever path stored it
\* and however requests overlap, so the owner check of refreshTokens
\* (auth.service.ts:285) never fires and never deletes a session.
SubjectOwnsRow ==
    /\ \A s \in sessions : s.userId = TokenOf(s).sub
    /\ \A r \in Request : req[r].stage # "mismatch"

\* The row lives at least as long as the token it stands for: the row's life
\* is counted in milliseconds from the insert, the token's in whole seconds
\* from the signing.  A token the JWT check accepts is therefore never found
\* expired unless time passed in between (auth.service.ts:292, 601, 586).
RowOutlivesToken ==
    \A s \in sessions :
        (TokenOf(s).iat + RefreshTtl) * TicksPerSecond <= s.expiresAt

\* A signed token waiting to be written by some request.
BeingWritten(k) ==
    \E r \in Request : /\ req[r].stage \in {"loginSigned", "refreshSigned"}
                       /\ req[r].new = k

\* A token of an earlier second that the table does not hold and that no
\* request is about to write.
Retired(k) ==
    /\ k.iat < Second(clock)
    /\ ~Stored(k)
    /\ ~BeingWritten(k)

\* A retired token is never accepted again: what logout, rotation, expiry and
\* revocation remove stays removed, whatever requests are under way
\* (auth.service.ts:292-298, 309-322, 338-371).
RevokedTokenStaysRevoked == [][\A k \in Token : Retired(k) => Retired(k)']_vars

\* On whose behalf a request removes rows: the subject of its access token
\* for a revocation, of its refresh token for a refresh.
Subject(r) == IF req[r].stage = "authorised" THEN req[r].user
                                             ELSE req[r].token.sub

\* A session is removed only by its owner: by a request whose token names the
\* owner, or by a logout presenting a token of the owner.  Whatever id or
\* token a client sends, and although refreshTokens deletes by an id it read
\* some steps earlier, no step removes the session of another user
\* (auth.service.ts:285-298, 312-314, 338-371).
OnlyOwnerRemoves ==
    [][\A s \in sessions \ sessions' :
           \/ \E r \in Request : req'[r] # req[r] /\ Subject(r) = s.userId
           \/ /\ req' = req
              /\ \E k \in issued : /\ k.sub = s.userId
                                   /\ s.sessionToken = hashToken(k)]_vars

-----------------------------------------------------------------------------
(* The abstract view: a chain is named by the id of its login's row.       *)

LiveChains == {s.login : s \in sessions}

Renewing(r) == req[r].stage \in {"found", "refreshSigned"}

RenewingChains == {req[r].login : r \in {q \in Request : Renewing(q)}}

\* Refreshes that have read a row of login c and not yet replaced it.
Refreshes(c) == {r \in Request : Renewing(r) /\ req[r].login = c}

SessionsOf(c) == {s \in sessions : s.login = c}

OneRefresh(c) == \A q, r \in Refreshes(c) : q = r

\* Login c has one session at most, and a refresh that is about to replace a
\* session replaces that one.
Unforked(c) ==
    /\ \A s, t \in SessionsOf(c) : s = t
    /\ \A s \in SessionsOf(c), r \in Refreshes(c) : req[r].id = s.id

\* As long as no two refreshes of a login overlap between their look-up and
\* their commit, the login has one session at a time and rotation moves it
\* from row to row: whatever sign-ins, revocations, conflicts and failures
\* come between, only overlapping refreshes fork a login
\* (auth.service.ts:277-322).
RotationKeepsOneSession ==
    [][\A c \in 1..(nextId - 1) :
           Unforked(c) /\ OneRefresh(c) /\ OneRefresh(c)'
           => Unforked(c)']_vars

Chains == INSTANCE SessionChains WITH
    ticket <- nextId - 1, live <- LiveChains, renewing <- RenewingChains

\* The handlers implement the promise of SessionChains: once a chain has no
\* session and no refresh of it is under way, nothing brings it back.
ImplementsChains == Chains!Spec

-----------------------------------------------------------------------------
(* Why the properties hold: what every reachable state satisfies.  The     *)
(* conjuncts are inductive together, none of them alone.                   *)

\* Row ids are handed out once; a request knows no id from the future.
FreshIds ==
    /\ \A s \in sessions : s.id \in 1..(nextId - 1)
    /\ \A s, t \in sessions : s.id = t.id => s = t
    /\ \A r \in Request : req[r].id < nextId

Signed == {"loginSigned", "refreshSigned", "done"}

Located == {"found", "stale", "refreshSigned"}

\* What a handler carries from one await to the next agrees with its user.
RequestConsistent(r) ==
    /\ req[r].stage \in {"checked", "authorised"} \cup Signed \cup Located =>
           req[r].user \in User
    /\ req[r].stage \in Signed =>
           /\ req[r].new \in Token
           /\ req[r].new.sub = req[r].user
           /\ req[r].new.iat <= Second(clock)
    /\ req[r].stage \in {"verified"} \cup Located => req[r].token \in Token
    /\ req[r].stage \in Located => req[r].token.sub = req[r].user

\* The row a refresh located, as long as it is there, is still the one it read.
LocatedRowUnchanged(r) ==
    req[r].stage \in Located =>
        \A s \in sessions :
            s.id = req[r].id => s.login = req[r].login /\ s.userId = req[r].user

Inv ==
    /\ TypeOK
    /\ SubjectOwnsRow
    /\ RowOutlivesToken
    /\ FreshIds
    /\ \A r \in Request : RequestConsistent(r) /\ LocatedRowUnchanged(r)

-----------------------------------------------------------------------------
(* What the repository's words say and the code does not do.               *)

\* auth.schema.ts:114 calls the table "Refresh Token Rotation": a login has
\* at most one session at a time.  refreshTokens does not look at whether its
\* delete (auth.service.ts:312-314) removed a row.
OneSessionPerLogin ==
    \A s, t \in sessions : s.login = t.login => s = t

\* auth.controller.ts:198 answers "All sessions revoked successfully": a login
\* whose last session is gone has none later.
RevokedLoginStaysRevoked ==
    [][\A c \in 1..(nextId - 1) :
           c \notin LiveChains => c \notin LiveChains']_vars

\* auth-blueprint.md:72 says one user can be logged in on several devices
\* simultaneously: no sign-in fails because of another one.
SimultaneousLoginsSucceed ==
    \A r \in Request : ~(req[r].stage = "error" /\ req[r].id = 0)

==============================================================================
