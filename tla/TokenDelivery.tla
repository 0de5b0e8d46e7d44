----------------------------- MODULE TokenDelivery -----------------------------
(***************************************************************************)
(* How devices come by refresh tokens and give them back: AuthController   *)
(* (apps/api/src/auth/auth.controller.ts) between the clients and the      *)
(* session service of AuthSessions.  A web client keeps the token in the   *)
(* cookie that handleTokenDelivery sets and clearCookie removes, a mobile  *)
(* client reads it from the body and sends it in a body or a header.       *)
(*                                                                         *)
(* The steps of a request are those of AuthSessions; this module adds      *)
(* whose request it is, which token it presents, and what its answer does  *)
(* to the device.  Answers may be lost and may overtake each other.        *)
(***************************************************************************)
EXTENDS Integers, FiniteSets

CONSTANTS
    Device,          \* clients of the users
    Web,             \* those that do not send x-client-type: mobile
    NoDevice,
    User, Request, NoUser, NoToken,             \* as in AuthSessions
    TicksPerSecond, RefreshTtl, AccessTtl, MaxClock, MaxInserts

ASSUME DeliveryAssumption ==
    /\ Web \subseteq Device
    /\ NoDevice \notin Device
    /\ NoToken \notin [sub: User, iat: Nat]
    /\ TicksPerSecond \in Nat \ {0}
    /\ RefreshTtl \in Nat \ {0}
    /\ AccessTtl \in Nat \ {0}
    /\ MaxClock \in Nat
    /\ MaxInserts \in Nat

VARIABLES
    clock, sessions, nextId, issued, req,       \* as in AuthSessions
    from,      \* per slot, the device, kind and token of its request
    jar,       \* per device, the token it stores
    until,     \* per device, when its cookie expires
    clearing,  \* devices that an answer with clearCookie is on its way to
    chain,     \* history: per device, the chain its last sign-in opened,
               \* 0 once its requests overlapped or an answer was lost
    given,     \* history: which device was given which token
    ended      \* history: tokens that a logout or a revocation removed

service == <<clock, sessions, nextId, issued, req>>

vars == <<clock, sessions, nextId, issued, req, from, jar, until, clearing,
          chain, given, ended>>

S == INSTANCE AuthSessions

Kind == {"tokens",   \* sign-in or refresh
         "others",   \* DELETE sessions, keepCurrent
         "all",      \* DELETE sessions?keepCurrent=false
         "one"}      \* DELETE sessions/:sessionId

NoOrigin == [device |-> NoDevice, kind |-> "tokens", token |-> NoToken]

Origin(d, kind, k) == [device |-> d, kind |-> kind, token |-> k]

Busy(d) == d \in clearing \/ \E r \in Request : from[r].device = d

\* Mutant: the cookie lives as long as the access token.
maxAgeAccess == AccessTtl * TicksPerSecond

maxAge == RefreshTtl * TicksPerSecond

\* The token that a request of d carries; a browser drops an expired cookie.
extractRefreshToken(d) ==
    IF d \in Web /\ clock >= until[d] THEN NoToken ELSE jar[d]

-----------------------------------------------------------------------------
Init ==
    /\ S!Init
    /\ from = [r \in Request |-> NoOrigin]
    /\ jar = [d \in Device |-> NoToken]
    /\ until = [d \in Device |-> 0]
    /\ clearing = {}
    /\ chain = [d \in Device |-> 0]
    /\ given = {}
    /\ ended = {}

Tick ==
    /\ S!Tick
    /\ UNCHANGED <<from, jar, until, clearing, chain, given, ended>>

\* The chain of d is lost sight of when its requests overlap.
OneAtATime(d) ==
    chain' = [chain EXCEPT ![d] = IF Busy(d) THEN 0 ELSE @]

Send(r, d, kind, k) ==
    /\ from' = [from EXCEPT ![r] = Origin(d, kind, k)]
    /\ OneAtATime(d)

(* login and refresh *)

login(r, d) ==
    /\ \E u \in User : S!SignInLookup(r, u)
    /\ Send(r, d, "tokens", NoToken)
    /\ UNCHANGED <<jar, until, clearing, given, ended>>

\* Without a token, or with an expired one, the answer is 401.
refresh(r, d) ==
    /\ extractRefreshToken(d) # NoToken
    /\ S!verifyRefreshToken(r, extractRefreshToken(d))
    /\ Send(r, d, "tokens", extractRefreshToken(d))
    /\ UNCHANGED <<jar, until, clearing, given, ended>>

\* A refusal, 401, is answered at once and leaves the cookie alone.
Answered(r) == from' = [from EXCEPT ![r] =
                   IF req'[r].stage = "idle" THEN NoOrigin ELSE @]

Handle(r) ==
    /\ S!SignInSign(r) \/ S!SignInConflict(r) \/ S!RefreshStep(r)
    /\ Answered(r)
    /\ UNCHANGED <<jar, until, clearing, chain, given, ended>>

\* A chain begins.
OpenChain(r) ==
    LET d == from[r].device IN
    /\ S!SignInCommit(r)
    /\ chain' = [chain EXCEPT ![d] =
           IF d \in clearing \/ \E q \in Request \ {r} : from[q].device = d
           THEN 0 ELSE nextId]
    /\ UNCHANGED <<from, jar, until, clearing, given, ended>>

\* The answer reaches the device, which stores what it brings; the browser
\* keeps a cookie for maxAge.
Store(r, d) ==
    /\ jar' = [jar EXCEPT ![d] = req[r].new]
    /\ until' = [until EXCEPT ![d] = IF d \in Web THEN clock + maxAge ELSE 0]
    /\ given' = given \cup {<<d, req[r].new>>}

\* Mutant: the tokens are delivered although they could not be stored.
handleTokenDeliveryAnyway(r) ==
    /\ S!Respond(r)
    /\ Store(r, from[r].device)
    /\ from' = [from EXCEPT ![r] = NoOrigin]
    /\ UNCHANGED <<clearing, chain, ended>>

handleTokenDelivery(r) ==
    /\ S!Respond(r)
    /\ IF req[r].stage = "done" THEN Store(r, from[r].device)
                                 ELSE UNCHANGED <<jar, until, given>>
    /\ from' = [from EXCEPT ![r] = NoOrigin]
    /\ UNCHANGED <<clearing, chain, ended>>

\* PostgreSQL refuses a statement before the commit: the answer is a 500 that
\* reaches the device, which keeps the token it has.
Fail(r) ==
    /\ req[r].stage \notin {"done", "error"}
    /\ S!Abort(r)
    /\ from' = [from EXCEPT ![r] = NoOrigin]
    /\ UNCHANGED <<jar, until, clearing, chain, given, ended>>

\* The server gives up at any await, or the answer is lost; so is, for the
\* device, a commit whose outcome the server did not learn.
Lose(r) ==
    /\ S!Abort(r)
    /\ from' = [from EXCEPT ![r] = NoOrigin]
    /\ chain' = [chain EXCEPT ![from[r].device] = 0]
    /\ UNCHANGED <<jar, until, clearing, given, ended>>

(* logout *)

\* Mutant: a logout ends every session of the user.
logoutEverywhere(d) ==
    LET k == extractRefreshToken(d) IN
    /\ d \notin clearing
    /\ sessions' = {s \in sessions : k = NoToken \/ s.userId # k.sub}
    /\ clearing' = clearing \cup {d}
    /\ OneAtATime(d)
    /\ ended' = ended \cup {S!TokenOf(s) : s \in sessions \ sessions'}
    /\ UNCHANGED <<clock, nextId, issued, req, from, jar, until, given>>

logout(d) ==
    LET k == extractRefreshToken(d) IN
    /\ d \notin clearing
    /\ IF k # NoToken THEN S!revokeSession(k) ELSE UNCHANGED service
    /\ clearing' = clearing \cup {d}
    /\ OneAtATime(d)
    /\ ended' = ended \cup ({k} \ {NoToken})
    /\ UNCHANGED <<from, jar, until, given>>

\* The cookie is cleared, or a mobile client forgets its token.
clearCookie(d) ==
    /\ d \in clearing
    /\ jar' = [jar EXCEPT ![d] = NoToken]
    /\ until' = [until EXCEPT ![d] = 0]
    /\ clearing' = clearing \ {d}
    /\ UNCHANGED <<service, from, chain, given, ended>>

LoseClearCookie(d) ==
    /\ d \in clearing
    /\ clearing' = clearing \ {d}
    /\ chain' = [chain EXCEPT ![d] = 0]
    /\ UNCHANGED <<service, from, jar, until, given, ended>>

(* revocation *)

\* The token goes with the request only if the client sends it: a cookie set
\* for another site is withheld, and a mobile client may leave it out.
Sent(d, kind) ==
    IF kind = "others" THEN {NoToken, extractRefreshToken(d)} ELSE {NoToken}

\* The access token is one that the device was given; it need not be the last.
requestRevocation(r, d, kind) ==
    /\ \E g \in given : /\ g[1] = d
                       /\ S!Unexpired(g[2], AccessTtl)
                       /\ S!Authorise(r, g[2].sub)
    /\ \E k \in Sent(d, kind) : Send(r, d, kind, k)
    /\ UNCHANGED <<jar, until, clearing, given, ended>>

\* Tokens of rows that a step removes.
Removed == {S!TokenOf(s) : s \in sessions \ sessions'}

\* What every revocation leaves, once its delete has run.
Revoked(r) ==
    /\ ended' = ended \cup (Removed \ {from[r].token})
    /\ from' = [from EXCEPT ![r] = NoOrigin]
    /\ UNCHANGED <<jar, until, chain, given>>

\* Mutant: the token to keep is not passed on.
revokeEverySession(r) ==
    /\ from[r].kind \in {"others", "all"}
    /\ S!revokeAllSessions(r)
    /\ clearing' = IF from[r].kind = "all"
                   THEN clearing \cup ({from[r].device} \cap Web) ELSE clearing
    /\ Revoked(r)

\* What is kept depends on the token, what is answered on keepCurrent; only
\* keepCurrent=false clears the cookie of a web client.
revokeAllSessions(r) ==
    /\ from[r].kind \in {"others", "all"}
    /\ IF from[r].token # NoToken
       THEN S!revokeOtherSessions(r, from[r].token)
       ELSE S!revokeAllSessions(r)
    /\ clearing' = IF from[r].kind = "all"
                   THEN clearing \cup ({from[r].device} \cap Web) ELSE clearing
    /\ Revoked(r)

revokeSessionById(r, id) ==
    /\ from[r].kind = "one"
    /\ S!revokeSessionById(r, id)
    /\ Revoked(r)
    /\ UNCHANGED clearing

-----------------------------------------------------------------------------
Next ==
    \/ Tick
    \/ \E r \in Request :
           \/ \E d \in Device :
                  \/ login(r, d) \/ refresh(r, d)
                  \/ \E kind \in Kind \ {"tokens"} :
                         requestRevocation(r, d, kind)
           \/ Handle(r) \/ OpenChain(r)
           \/ handleTokenDelivery(r) \/ Lose(r) \/ Fail(r)
           \/ revokeAllSessions(r)
           \/ \E id \in 1..(nextId - 1) : revokeSessionById(r, id)
    \/ \E d \in Device : logout(d) \/ clearCookie(d) \/ LoseClearCookie(d)

Spec == Init /\ [][Next]_vars

-----------------------------------------------------------------------------
(* Properties.                                                             *)

\* Every variable has its type.
TypeOK ==
    /\ S!TypeOK
    /\ from \in [Request -> [device: Device \cup {NoDevice}, kind: Kind,
                             token: S!Token \cup {NoToken}]]
    /\ jar \in [Device -> S!Token \cup {NoToken}]
    /\ until \in [Device -> Nat]
    /\ clearing \subseteq Device
    /\ chain \in [Device -> 0..(nextId - 1)]
    /\ given \subseteq Device \X issued
    /\ ended \subseteq S!Token

\* No other device was ever given a token of d.  Devices of one user that
\* sign in within a second can be given equal tokens, when the first one's
\* row is gone before the second one's is stored.
OwnTokens(d) ==
    \A g, h \in given : g[1] = d /\ h[2] = g[2] => h[1] = d

\* A device at rest that lost no answer since its sign-in and shares no token.
Settled(d) == chain[d] # 0 /\ ~Busy(d) /\ OwnTokens(d)

\* A settled device holds a token that the table holds too, unless it has
\* expired or was revoked: rotation hands out the token it has stored, errors
\* leave the old one in force, and keepCurrent keeps the caller's session
\* (auth.controller.ts:60-79, 180-185, 205-221).
HoldsLiveToken ==
    \A d \in Device :
        LET k == extractRefreshToken(d) IN
        Settled(d) /\ k # NoToken /\ S!Unexpired(k, RefreshTtl)
        => S!Stored(k) \/ k \in ended

\* Only one user ever signed in on d.  The access token of an earlier user
\* would clear the cookie of the later one and leave that session behind.
OneUser(d) ==
    \A g, h \in given : g[1] = d /\ h[1] = d => g[2].sub = h[2].sub

\* A settled device of one user can still use, and so give up, whatever is
\* left of its last sign-in: no valid session of that chain stays behind after
\* a refresh, a logout or the end of the cookie's life
\* (auth.controller.ts:81-103, 187-193, 208-214).
NothingLeftBehind ==
    \A d \in Device, s \in sessions :
        /\ Settled(d) /\ OneUser(d)
        /\ s.login = chain[d]
        /\ S!Unexpired(S!TokenOf(s), RefreshTtl)
        => S!TokenOf(s) = extractRefreshToken(d)

\* The devices make of the session service what AuthSessions allows: they
\* present only tokens that some answer brought, and revoke with a token to
\* keep that was issued, so that all it says of sessions holds here
\* (auth.controller.ts:60-103, 153-221).
ImplementsSessions == S!Spec

-----------------------------------------------------------------------------
(* What the repository's words say and the code does not do.               *)

\* auth.controller.ts:197, "All other sessions revoked successfully": a
\* request to revoke the others leaves the session of its device alone.
RevokesOnlyOthers ==
    [][\A r \in Request, k \in S!Token :
           /\ req[r].stage = "authorised" /\ from[r].kind = "others"
           /\ from'[r] = NoOrigin
           /\ k = jar[from[r].device]
           /\ S!Stored(k)
           => S!Stored(k)']_vars

==============================================================================
