----------------------------- MODULE AuthAccounts -----------------------------
(***************************************************************************)
(* Who a request is: AuthService.signUp, the credentials of signIn and     *)
(* signInWithOAuth (apps/api/src/auth/auth.service.ts) over users,         *)
(* profiles and accounts (libs/database/src/schema/auth.schema.ts).        *)
(*                                                                         *)
(* Handlers interleave at every statement.  PostgreSQL runs the            *)
(* transactions READ COMMITTED: a select sees committed rows and those of  *)
(* its own transaction; an update waits for the row lock of another open   *)
(* transaction, an insert for an equal key that another one has inserted.  *)
(* No code deletes a user, a profile or an account.                        *)
(***************************************************************************)
EXTENDS Integers, FiniteSets

CONSTANTS
    Id,        \* user ids: uuids, of which the database draws an unused one
    Email,
    Account,   \* accounts at the OAuth provider
    Request,   \* slots for requests being handled at the same time
    NoId, NoEmail, NoAccount

ASSUME NamesAssumption ==
    NoId \notin Id /\ NoEmail \notin Email /\ NoAccount \notin Account

VARIABLES
    users, profiles, accounts,   \* committed rows
    tx,    \* per slot, what its open transaction wrote and locked
    req    \* per slot, the request being handled

vars == <<users, profiles, accounts, tx, req>>

UserRow == [id: Id, email: Email, password: BOOLEAN, verified: BOOLEAN]

ProfileRow == [userId: Id]

AccountRow == [userId: Id, providerAccountId: Account]

Transaction ==
    [users: SUBSET UserRow, profiles: SUBSET ProfileRow,
     accounts: SUBSET AccountRow,
     locked: SUBSET Id,     \* rows of users that it updated
     verified: SUBSET Id]   \* those among them that it verified

NoTransaction ==
    [users |-> {}, profiles |-> {}, accounts |-> {}, locked |-> {},
     verified |-> {}]

\* Where a handler is parked.
Stage ==
    {"idle",
     "hashing", "signUpUser", "signUpProfile", "created",   \* signUp
     "checked", "touched",                                  \* signIn
     "linked", "unlinked", "known", "new", "profile", "link", "ready",
     "committed",                                           \* signInWithOAuth
     "done",         \* success, response not yet delivered
     "conflict",     \* a unique constraint of users or accounts refused a
                     \* row: a 500
     "error"}        \* the session could not be stored, for its token is
                     \* taken or the database fails: a 500

RequestState ==
    [stage: Stage, email: Email \cup {NoEmail},
     account: Account \cup {NoAccount}, user: Id \cup {NoId},
     verified: BOOLEAN,   \* what the provider says of the email
     alone: BOOLEAN]      \* history: no other request overlapped this one

NoRequest ==
    [stage |-> "idle", email |-> NoEmail, account |-> NoAccount,
     user |-> NoId, verified |-> FALSE, alone |-> TRUE]

-----------------------------------------------------------------------------
(* The database.                                                           *)

EmailTaken(e) == \E u \in users : u.email = e

AccountTaken(a) == \E l \in accounts : l.providerAccountId = a

\* An insert or an update of r has to wait for another open transaction.
EmailPending(r, e) ==
    \E q \in Request \ {r} : \E u \in tx[q].users : u.email = e

AccountPending(r, a) ==
    \E q \in Request \ {r} :
        \E l \in tx[q].accounts : l.providerAccountId = a

RowLocked(r, id) == \E q \in Request \ {r} : id \in tx[q].locked

\* An id that no row has; a rolled-back id was never seen by anybody.
Unused(id) ==
    /\ \A u \in users : u.id # id
    /\ \A q \in Request : \A u \in tx[q].users : u.id # id

COMMIT(r) ==
    /\ users' = tx[r].users \cup
           {[u EXCEPT !.verified = @ \/ u.id \in tx[r].verified] : u \in users}
    /\ profiles' = profiles \cup tx[r].profiles
    /\ accounts' = accounts \cup tx[r].accounts
    /\ tx' = [tx EXCEPT ![r] = NoTransaction]

ROLLBACK(r) ==
    /\ tx' = [tx EXCEPT ![r] = NoTransaction]
    /\ UNCHANGED <<users, profiles, accounts>>

\* Inside a transaction nothing is visible to others.
Statement(r, t) ==
    /\ tx' = [tx EXCEPT ![r] = t]
    /\ UNCHANGED <<users, profiles, accounts>>

NoStatement == UNCHANGED <<users, profiles, accounts, tx>>

Goto(r, stage) == req' = [req EXCEPT ![r].stage = stage]

Arrive(r, state) ==
    /\ req[r].stage = "idle"
    /\ req' = [q \in Request |->
           IF q = r
           THEN [state EXCEPT
                    !.alone = \A p \in Request : req[p].stage = "idle"]
           ELSE IF req[q].stage = "idle"
                THEN req[q] ELSE [req[q] EXCEPT !.alone = FALSE]]
    /\ NoStatement

-----------------------------------------------------------------------------
Init ==
    /\ users = {}
    /\ profiles = {}
    /\ accounts = {}
    /\ tx = [r \in Request |-> NoTransaction]
    /\ req = [r \in Request |-> NoRequest]

(* signUp *)

\* Mutant: nobody looks for the email first.
SignUpUnchecked(r, e) ==
    Arrive(r, [NoRequest EXCEPT !.stage = "hashing", !.email = e])

\* The email is free; a taken one is answered at once and changes nothing.
SignUp(r, e) ==
    /\ ~EmailTaken(e)
    /\ Arrive(r, [NoRequest EXCEPT !.stage = "hashing", !.email = e])

\* The password is hashed and the transaction has begun.
SignUpInsertUser(r, id) ==
    /\ req[r].stage = "hashing"
    /\ ~EmailTaken(req[r].email) /\ ~EmailPending(r, req[r].email)
    /\ Unused(id)
    /\ Statement(r, [tx[r] EXCEPT !.users =
           {[id |-> id, email |-> req[r].email, password |-> TRUE,
             verified |-> FALSE]}])
    /\ req' = [req EXCEPT ![r] = [@ EXCEPT !.stage = "signUpUser", !.user = id]]

SignUpInsertProfile(r) ==
    /\ req[r].stage = "signUpUser"
    /\ Statement(r, [tx[r] EXCEPT !.profiles = {[userId |-> req[r].user]}])
    /\ Goto(r, "signUpProfile")

SignUpCommit(r) ==
    /\ req[r].stage = "signUpProfile"
    /\ COMMIT(r)
    /\ Goto(r, "created")

\* The verification mail is sent, or fails and the error is logged.
SendEmailVerification(r) ==
    /\ req[r].stage = "created"
    /\ NoStatement
    /\ Goto(r, "done")

(* signIn with a password *)

\* The password is right; refused credentials change nothing.
SignIn(r, u) ==
    /\ u \in users /\ u.password /\ u.verified
    /\ Arrive(r, [NoRequest EXCEPT
           !.stage = "checked", !.email = u.email, !.user = u.id])

SignInTouch(r) ==
    /\ req[r].stage = "checked"
    /\ ~RowLocked(r, req[r].user)
    /\ Statement(r, [tx[r] EXCEPT !.locked = {req[r].user}])
    /\ Goto(r, "touched")

SignInCommit(r) ==
    /\ req[r].stage = "touched"
    /\ COMMIT(r)
    /\ Goto(r, "done")

(* signInWithOAuth *)

\* What GoogleOAuthVerifier.verify may return; names and pictures left out.
Identity == [providerAccountId: Account, email: Email \cup {NoEmail},
             emailVerified: BOOLEAN]

\* identity.email ?? input.fallbackEmail, which the client may fill in freely
EmailOf(identity, fallback) ==
    IF identity.email # NoEmail THEN identity.email ELSE fallback

\* Mutant: the account is looked for by its provider only.
LinkedUserAny(a) ==
    IF accounts # {} THEN (CHOOSE l \in accounts : TRUE).userId ELSE NoId

\* The user that a provider account signs in.
LinkedUser(a) ==
    IF AccountTaken(a)
    THEN (CHOOSE l \in accounts : l.providerAccountId = a).userId ELSE NoId

\* The verifier has accepted the token.  The link is looked up before BEGIN.
SignInWithOAuth(r, identity, fallback) ==
    LET a == identity.providerAccountId IN
    Arrive(r, [NoRequest EXCEPT
        !.stage = IF LinkedUser(a) = NoId THEN "unlinked" ELSE "linked",
        !.account = a, !.email = EmailOf(identity, fallback),
        !.verified = identity.emailVerified, !.user = LinkedUser(a)])

\* The update of the user's row, which also verifies the email.
OAuthTouch(r, stage) ==
    /\ ~RowLocked(r, req[r].user)
    /\ Statement(r, [tx[r] EXCEPT
           !.locked = {req[r].user}, !.verified = {req[r].user}])
    /\ Goto(r, stage)

\* The user of a link is always found, for users are never deleted.
OAuthTouchLinked(r) ==
    /\ req[r].stage = "linked"
    /\ \E u \in users : u.id = req[r].user
    /\ OAuthTouch(r, "ready")

\* Mutant: a missing email is not an error.
OAuthNoEmailAccepted(r) ==
    /\ req[r].stage = "unlinked"
    /\ req[r].email = NoEmail
    /\ NoStatement
    /\ Goto(r, "new")

OAuthNoEmail(r) ==
    /\ req[r].stage = "unlinked"
    /\ req[r].email = NoEmail
    /\ NoStatement
    /\ req' = [req EXCEPT ![r] = NoRequest]

OAuthFindNobody(r) ==
    /\ req[r].stage = "unlinked"
    /\ req[r].email # NoEmail /\ ~EmailTaken(req[r].email)
    /\ NoStatement
    /\ Goto(r, "new")

\* Mutant: the email is not compared.
OAuthFindAnybody(r, u) ==
    /\ req[r].stage = "unlinked"
    /\ req[r].email # NoEmail
    /\ NoStatement
    /\ req' = [req EXCEPT ![r] = [@ EXCEPT !.stage = "known", !.user = u.id]]

OAuthFindUser(r, u) ==
    /\ req[r].stage = "unlinked"
    /\ u.email = req[r].email
    /\ NoStatement
    /\ req' = [req EXCEPT ![r] = [@ EXCEPT !.stage = "known", !.user = u.id]]

OAuthInsertUser(r, id) ==
    /\ req[r].stage = "new"
    /\ ~EmailTaken(req[r].email) /\ ~EmailPending(r, req[r].email)
    /\ Unused(id)
    /\ Statement(r, [tx[r] EXCEPT !.users =
           {[id |-> id, email |-> req[r].email, password |-> FALSE,
             verified |-> req[r].verified]}])
    /\ req' = [req EXCEPT ![r] = [@ EXCEPT !.stage = "profile", !.user = id]]

OAuthUpdateUser(r) ==
    /\ req[r].stage = "known"
    /\ OAuthTouch(r, "profile")

\* Find or insert.  The pair is one step: the user's row is locked, or not
\* visible to others, so that no profile of it can appear in between.
OAuthProfile(r) ==
    /\ req[r].stage = "profile"
    /\ Statement(r, [tx[r] EXCEPT !.profiles =
           {[userId |-> req[r].user]} \ profiles])
    /\ Goto(r, "link")

\* Mutant: no unique index on provider accounts.
OAuthInsertAccountUnindexed(r) ==
    /\ req[r].stage = "link"
    /\ Statement(r, [tx[r] EXCEPT !.accounts =
           {[userId |-> req[r].user, providerAccountId |-> req[r].account]}])
    /\ Goto(r, "ready")

OAuthInsertAccount(r) ==
    /\ req[r].stage = "link"
    /\ ~AccountTaken(req[r].account) /\ ~AccountPending(r, req[r].account)
    /\ Statement(r, [tx[r] EXCEPT !.accounts =
           {[userId |-> req[r].user, providerAccountId |-> req[r].account]}])
    /\ Goto(r, "ready")

OAuthCommit(r) ==
    /\ req[r].stage = "ready"
    /\ COMMIT(r)
    /\ Goto(r, "committed")

\* The session, inserted after the commit.
OAuthSession(r) ==
    /\ req[r].stage = "committed"
    /\ NoStatement
    /\ Goto(r, "done")

(* Failures and answers *)

\* Mutant: there is no transaction to roll back.
UniqueViolationKeeps(r) == COMMIT(r) /\ Goto(r, "conflict")

UniqueViolation(r) == ROLLBACK(r) /\ Goto(r, "conflict")

EmailConflict(r) ==
    /\ req[r].stage \in {"hashing", "new"}
    /\ EmailTaken(req[r].email)
    /\ UniqueViolation(r)

AccountConflict(r) ==
    /\ req[r].stage = "link"
    /\ AccountTaken(req[r].account)
    /\ UniqueViolation(r)

\* The session's token is taken or the database fails; which tokens are taken
\* is AuthSessions' subject.  The transaction of signIn is still open, the one
\* of signInWithOAuth is committed.
SessionFails(r) ==
    /\ req[r].stage \in {"touched", "committed"}
    /\ ROLLBACK(r)
    /\ Goto(r, "error")

Respond(r) ==
    /\ req[r].stage \in {"done", "conflict", "error"}
    /\ NoStatement
    /\ req' = [req EXCEPT ![r] = NoRequest]

\* The process dies or a statement is refused: an open transaction rolls back.
Abort(r) ==
    /\ req[r].stage # "idle"
    /\ ROLLBACK(r)
    /\ req' = [req EXCEPT ![r] = NoRequest]

-----------------------------------------------------------------------------
SignUpStep(r) ==
    \/ \E id \in Id : SignUpInsertUser(r, id)
    \/ SignUpInsertProfile(r)
    \/ SignUpCommit(r)
    \/ SendEmailVerification(r)

SignInStep(r) == SignInTouch(r) \/ SignInCommit(r)

OAuthStep(r) ==
    \/ OAuthTouchLinked(r)
    \/ OAuthNoEmail(r)
    \/ OAuthFindNobody(r)
    \/ \E u \in users : OAuthFindUser(r, u)
    \/ \E id \in Id : OAuthInsertUser(r, id)
    \/ OAuthUpdateUser(r)
    \/ OAuthProfile(r)
    \/ OAuthInsertAccount(r)
    \/ OAuthCommit(r)
    \/ OAuthSession(r)

Progress(r) ==
    \/ SignUpStep(r)
    \/ SignInStep(r)
    \/ OAuthStep(r)
    \/ EmailConflict(r)
    \/ AccountConflict(r)
    \/ SessionFails(r)
    \/ Respond(r)

Start(r) ==
    \/ \E e \in Email : SignUp(r, e)
    \/ \E u \in users : SignIn(r, u)
    \/ \E identity \in Identity, fallback \in Email \cup {NoEmail} :
           SignInWithOAuth(r, identity, fallback)

Next == \E r \in Request : Start(r) \/ Progress(r) \/ Abort(r)

Spec == Init /\ [][Next]_vars

-----------------------------------------------------------------------------
(* Properties.                                                             *)

\* Every variable has its type (auth.schema.ts:24-111).
TypeOK ==
    /\ users \subseteq UserRow
    /\ profiles \subseteq ProfileRow
    /\ accounts \subseteq AccountRow
    /\ tx \in [Request -> Transaction]
    /\ req \in [Request -> RequestState]

\* A user always has a profile and a credential, a provider account or a
\* password, which signIn accepts once the email is verified; although these
\* rows are written one by one and any statement may fail.  And no profile or
\* account is left without its user (auth.service.ts:124-148, 224, 409-500).
UsersComplete ==
    /\ \A u \in users :
           /\ [userId |-> u.id] \in profiles
           /\ u.password \/ \E l \in accounts : l.userId = u.id
    /\ \A row \in profiles \cup {[userId |-> l.userId] : l \in accounts} :
           \E u \in users : u.id = row.userId

\* A request that no other one overlapped never has a row of users or
\* accounts refused, nor comes to an insert whose email or provider account is
\* taken: the look-ups before the inserts find whatever was there when the
\* request came (auth.service.ts:101-109, 399-407, 446-475).  The unique token
\* of a session is another matter: two sign-ins of a user within a second end
\* in "error" here, even one after the other.
AloneNeverConflicts ==
    \A r \in {q \in Request : req[q].alone} :
        /\ req[r].stage # "conflict"
        /\ req[r].stage \in {"hashing", "new"} => ~EmailTaken(req[r].email)
        /\ req[r].stage = "link" => ~AccountTaken(req[r].account)

\* A request is answered for the user that its provider account is linked to,
\* or whose email and password it gave, although both were read before the
\* transaction (auth.service.ts:202-254, 399-527).
AnswerIsOwner ==
    \A r \in Request : req[r].stage \in {"committed", "done"} =>
        IF req[r].account # NoAccount
        THEN [userId |-> req[r].user, providerAccountId |-> req[r].account]
                 \in accounts
        ELSE \E u \in users : /\ u.id = req[r].user
                              /\ u.email = req[r].email
                              /\ u.password

\* A provider account is linked to the user with the email of the request: the
\* provider's or, where the provider gives none, the one that the client typed
\* as fallbackEmail, which nobody vouches for.  It is the user as the tables
\* stand when the link appears, not as they stood at the look-up
\* (auth.service.ts:439, 446-497, google-oauth.verifier.ts:47).
LinkFollowsEmail ==
    [][\A l \in accounts' \ accounts :
           \E r \in Request, u \in users' :
               /\ req[r].account = l.providerAccountId
               /\ u.id = l.userId
               /\ u.email = req[r].email]_vars

Directory == INSTANCE IdentityDirectory WITH
    owner <- {<<u.email, u.id>> : u \in users},
    link <- {<<l.providerAccountId, l.userId>> : l \in accounts}

\* The tables implement IdentityDirectory: claims on emails and provider
\* accounts are exclusive and final (auth.schema.ts:28, 107-109).
ImplementsDirectory == Directory!Spec

==============================================================================
