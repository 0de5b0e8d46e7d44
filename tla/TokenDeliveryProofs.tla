-------------------------- MODULE TokenDeliveryProofs --------------------------
(***************************************************************************)
(* Proofs about TokenDelivery, for any devices, users and requests: it     *)
(* implements AuthSessions, and what a device holds agrees with the table. *)
(***************************************************************************)
EXTENDS TokenDelivery, TLAPS

SI == INSTANCE AuthSessionsProofs

-----------------------------------------------------------------------------
(* The inductive invariant.                                                *)

\* A slot of the service is taken exactly while a device waits for its answer.
Refreshing == {"verified", "mismatch", "stale", "found", "refreshSigned"}

SlotInv(r) ==
    /\ from[r].device = NoDevice <=> req[r].stage = "idle"
    /\ from[r].token \in issued \cup {NoToken}
    /\ from[r].kind \in {"all", "one"} => from[r].token = NoToken
    /\ req[r].stage \in Refreshing => <<from[r].device, req[r].token>> \in given
    /\ req[r].stage = "authorised" =>
           \E g \in given : g[1] = from[r].device /\ g[2].sub = req[r].user

\* What a device stores it was given, and a cookie outlives its token.
JarInv(d) ==
    jar[d] # NoToken =>
        /\ <<d, jar[d]>> \in given
        /\ d \in Web => (jar[d].iat + RefreshTtl) * TicksPerSecond <= until[d]

Mine(d) == {r \in Request : from[r].device = d}

\* A tracked device has one request under way, or an answer that clears its
\* cookie, or nothing.
OneRequest(d) ==
    chain[d] # 0 =>
        /\ \A r, q \in Mine(d) : r = q
        /\ d \in clearing => Mine(d) = {}

\* Tokens that d was given, or is about to be.
Tokens(d) ==
    {k \in SI!Token :
        \/ <<d, k>> \in given
        \/ \E r \in Mine(d) : req[r].stage = "done" /\ req[r].new = k}

\* Nobody else was given a token of d, and its chain is known.
Tracked(d) ==
    /\ chain[d] # 0
    /\ \A g \in given : g[2] \in Tokens(d) => g[1] = d

Answering(d) == {r \in Mine(d) : req[r].stage = "done"}

Backed(k) == SI!Unexpired(k, RefreshTtl) => SI!Stored(k) \/ k \in ended

\* For HoldsLiveToken: the token that d holds, or that is on its way.
HeldInv(d) ==
    Tracked(d) =>
        /\ \A r \in Answering(d) : Backed(req[r].new)
        /\ Answering(d) = {} /\ jar[d] # NoToken => Backed(jar[d])

\* Valid rows of the chain of d.
Live(d) == {s \in sessions : /\ s.login = chain[d]
                             /\ SI!Unexpired(SI!TokenOf(s), RefreshTtl)}

\* All rows of the chain of d stand for tokens of d, and only d extends it.
ChainOwned(d) ==
    /\ \A s \in sessions : s.login = chain[d] => SI!TokenOf(s) \in Tokens(d)
    /\ \A q \in Request :
           SI!Renewing(q) /\ req[q].login = chain[d] => q \in Mine(d)

\* The valid rows stand for the latest of them, and go before the cookie does.
ChainLatest(d) ==
    /\ d \in clearing => Live(d) = {}
    /\ d \notin clearing =>
           /\ \A r \in Answering(d), s \in Live(d) : SI!TokenOf(s) = req[r].new
           /\ Answering(d) = {} => \A s \in Live(d) : SI!TokenOf(s) = jar[d]

\* A refresh presents what d stores, and has found the only valid row.
ChainRefreshed(d) ==
    /\ \A r \in Mine(d) : req[r].stage \in Refreshing => req[r].token = jar[d]
    /\ \A r \in Mine(d), s \in Live(d) : SI!Renewing(r) => s.id = req[r].id

\* For NothingLeftBehind.
LeftInv(d) ==
    Tracked(d) /\ OneUser(d)
    => ChainOwned(d) /\ ChainLatest(d) /\ ChainRefreshed(d)

Inv ==
    /\ TypeOK
    /\ SI!Inv
    /\ SI!Keyed
    /\ \A r \in Request : SlotInv(r)
    /\ \A d \in Device : JarInv(d)
    /\ \A d \in Device : OneRequest(d)
    /\ \A d \in Device : HeldInv(d)
    /\ \A d \in Device : LeftInv(d)

-----------------------------------------------------------------------------
(* AuthSessionsProofs speaks of the same service.                          *)

LEMMA ServiceAssumption == SI!ConstantsAssumption
BY DeliveryAssumption DEF DeliveryAssumption, SI!ConstantsAssumption

LEMMA SameValues ==
    /\ S!Token = SI!Token
    /\ S!NoRequest = SI!NoRequest
    /\ \A k, ttl : S!Unexpired(k, ttl) <=> SI!Unexpired(k, ttl)
    /\ \A k : S!hashToken(k) = SI!hashToken(k)
    /\ \A s : S!TokenOf(s) = SI!TokenOf(s)
    /\ \A k : S!Stored(k) <=> SI!Stored(k)
    /\ \A u : S!generateTokens(u) = SI!generateTokens(u)
    /\ S!TypeOK <=> SI!TypeOK
    /\ S!Init <=> SI!Init
    /\ S!vars = SI!vars
<1>1. S!Token = SI!Token
  BY DEF S!Token, SI!Token, S!Second, SI!Second
<1>2. S!NoRequest = SI!NoRequest
  BY DEF S!NoRequest, SI!NoRequest
<1>3. \A k, ttl : S!Unexpired(k, ttl) <=> SI!Unexpired(k, ttl)
  BY DEF S!Unexpired, SI!Unexpired, S!Second, SI!Second
<1>4. \A k : S!hashToken(k) = SI!hashToken(k)
  BY DEF S!hashToken, SI!hashToken
<1>5. \A s : S!TokenOf(s) = SI!TokenOf(s)
  BY DEF S!TokenOf, SI!TokenOf
<1>6. \A k : S!Stored(k) <=> SI!Stored(k)
  BY <1>4 DEF S!Stored, SI!Stored, S!TokenTaken, SI!TokenTaken
<1>7. \A u : S!generateTokens(u) = SI!generateTokens(u)
  BY DEF S!generateTokens, SI!generateTokens, S!Second, SI!Second
<1>8. S!TypeOK <=> SI!TypeOK
  BY <1>1 DEF S!TypeOK, SI!TypeOK, S!Row, SI!Row, S!RequestState,
     SI!RequestState, S!Stage, SI!Stage
<1>9. S!Init <=> SI!Init
  BY <1>2 DEF S!Init, SI!Init
<1>10. S!vars = SI!vars
  BY DEF S!vars, SI!vars
<1> QED
  BY <1>1, <1>2, <1>3, <1>4, <1>5, <1>6, <1>7, <1>8, <1>9, <1>10

LEMMA SameTable ==
    /\ \A u, k, chainId : S!buildSessionInsertValues(u, k, chainId)
                        = SI!buildSessionInsertValues(u, k, chainId)
    /\ \A rows, k : S!TokenTaken(rows, k) <=> SI!TokenTaken(rows, k)
    /\ \A id : S!OthersThan(id) = SI!OthersThan(id)
<1>1. S!REFRESH_TOKEN_TTL_MS = SI!REFRESH_TOKEN_TTL_MS
  BY DEF S!REFRESH_TOKEN_TTL_MS, SI!REFRESH_TOKEN_TTL_MS
<1>2. \A u, k, chainId : S!buildSessionInsertValues(u, k, chainId)
                       = SI!buildSessionInsertValues(u, k, chainId)
  BY <1>1, SameValues
     DEF S!buildSessionInsertValues, SI!buildSessionInsertValues
<1>3. \A rows, k : S!TokenTaken(rows, k) <=> SI!TokenTaken(rows, k)
  BY SameValues DEF S!TokenTaken, SI!TokenTaken
<1>4. \A id : S!OthersThan(id) = SI!OthersThan(id)
  BY DEF S!OthersThan, SI!OthersThan
<1> QED
  BY <1>2, <1>3, <1>4

LEMMA SameBound == S!CanInsert <=> SI!CanInsert
<1>1. \A X : S!Cardinality(X) = SI!Cardinality(X)
  BY DEF S!Cardinality, SI!Cardinality
<1> QED
  BY <1>1 DEF S!CanInsert, SI!CanInsert

LEMMA SameSignIn ==
    ASSUME NEW r
    PROVE  /\ \A u : S!SignInLookup(r, u) <=> SI!SignInLookup(r, u)
           /\ S!SignInSign(r) <=> SI!SignInSign(r)
           /\ S!SignInCommit(r) <=> SI!SignInCommit(r)
           /\ S!SignInConflict(r) <=> SI!SignInConflict(r)
<1> USE SameValues, SameTable, SameBound
<1>1. \A u : S!SignInLookup(r, u) <=> SI!SignInLookup(r, u)
  BY DEF S!SignInLookup, SI!SignInLookup
<1>2. S!SignInSign(r) <=> SI!SignInSign(r)
  BY DEF S!SignInSign, SI!SignInSign
<1>3. S!SignInCommit(r) <=> SI!SignInCommit(r)
  BY DEF S!SignInCommit, SI!SignInCommit
<1>4. S!SignInConflict(r) <=> SI!SignInConflict(r)
  BY DEF S!SignInConflict, SI!SignInConflict
<1> QED
  BY <1>1, <1>2, <1>3, <1>4

LEMMA SameRefresh ==
    ASSUME NEW r
    PROVE  /\ \A k : S!verifyRefreshToken(r, k) <=> SI!verifyRefreshToken(r, k)
           /\ S!RefreshStep(r) <=> SI!RefreshStep(r)
<1> USE SameValues, SameTable, SameBound
<1>1. \A k : S!verifyRefreshToken(r, k) <=> SI!verifyRefreshToken(r, k)
  BY DEF S!verifyRefreshToken, SI!verifyRefreshToken
<1>2. S!RefreshUnknown(r) <=> SI!RefreshUnknown(r)
  BY DEF S!RefreshUnknown, SI!RefreshUnknown
<1>3. \A s : S!RefreshLookup(r, s) <=> SI!RefreshLookup(r, s)
  BY DEF S!RefreshLookup, SI!RefreshLookup
<1>4. S!RefreshDrop(r) <=> SI!RefreshDrop(r)
  BY DEF S!RefreshDrop, SI!RefreshDrop
<1>5. S!RefreshSign(r) <=> SI!RefreshSign(r)
  BY DEF S!RefreshSign, SI!RefreshSign
<1>6. S!RefreshCommit(r) <=> SI!RefreshCommit(r)
  BY DEF S!RefreshCommit, SI!RefreshCommit
<1>7. S!RefreshConflict(r) <=> SI!RefreshConflict(r)
  BY DEF S!RefreshConflict, SI!RefreshConflict
<1> QED
  BY <1>1, <1>2, <1>3, <1>4, <1>5, <1>6, <1>7 DEF S!RefreshStep, SI!RefreshStep

LEMMA SameRest ==
    /\ S!Tick <=> SI!Tick
    /\ \A k : S!revokeSession(k) <=> SI!revokeSession(k)
    /\ \A r, u : S!Authorise(r, u) <=> SI!Authorise(r, u)
    /\ \A r, id : S!revokeSessionById(r, id) <=> SI!revokeSessionById(r, id)
    /\ \A r : S!revokeAllSessions(r) <=> SI!revokeAllSessions(r)
    /\ \A r, k : S!revokeOtherSessions(r, k) <=> SI!revokeOtherSessions(r, k)
    /\ \A r : S!Respond(r) <=> SI!Respond(r)
    /\ \A r : S!Abort(r) <=> SI!Abort(r)
<1> USE SameValues
<1>1. S!Tick <=> SI!Tick
  BY DEF S!Tick, SI!Tick
<1>2. \A k : S!revokeSession(k) <=> SI!revokeSession(k)
  BY DEF S!revokeSession, SI!revokeSession
<1>3. \A r, u : S!Authorise(r, u) <=> SI!Authorise(r, u)
  BY DEF S!Authorise, SI!Authorise
<1>4. \A r, id : S!revokeSessionById(r, id) <=> SI!revokeSessionById(r, id)
  BY DEF S!revokeSessionById, SI!revokeSessionById
<1>5. \A r : S!revokeAllSessions(r) <=> SI!revokeAllSessions(r)
  BY DEF S!revokeAllSessions, SI!revokeAllSessions
<1>6. \A r, k : S!revokeOtherSessions(r, k) <=> SI!revokeOtherSessions(r, k)
  BY DEF S!revokeOtherSessions, SI!revokeOtherSessions
<1>7. \A r : S!Respond(r) <=> SI!Respond(r)
  BY DEF S!Respond, SI!Respond
<1>8. \A r : S!Abort(r) <=> SI!Abort(r)
  BY DEF S!Abort, SI!Abort
<1> QED
  BY <1>1, <1>2, <1>3, <1>4, <1>5, <1>6, <1>7, <1>8

LEMMA SameNext == S!Next <=> SI!Next
<1> USE SameRest
<1>1. \A r : S!SignInStep(r) <=> SI!SignInStep(r)
  BY SameSignIn DEF S!SignInStep, SI!SignInStep
<1>2. \A r : S!RevokeStep(r) <=> SI!RevokeStep(r)
  BY DEF S!RevokeStep, SI!RevokeStep
<1>3. \A r : S!Arrive(r) <=> SI!Arrive(r)
  BY SameSignIn, SameRefresh DEF S!Arrive, SI!Arrive
<1>4. \A r : S!Progress(r) <=> SI!Progress(r)
  BY <1>1, <1>2, SameRefresh DEF S!Progress, SI!Progress
<1> QED
  BY <1>3, <1>4 DEF S!Next, SI!Next

-----------------------------------------------------------------------------
(* Every step is one of the service, or leaves it alone.                   *)

\* A device presents a token that it was given, and so one that was issued.
LEMMA Presented ==
    ASSUME Inv, NEW d \in Device, extractRefreshToken(d) # NoToken
    PROVE  /\ extractRefreshToken(d) = jar[d]
           /\ <<d, jar[d]>> \in given
           /\ jar[d] \in issued
           /\ jar[d] \in SI!Token
<1>1. extractRefreshToken(d) = jar[d]
  BY DEF extractRefreshToken
<1>2. <<d, jar[d]>> \in given
  BY <1>1 DEF Inv, JarInv
<1>3. given \subseteq Device \X issued /\ issued \subseteq SI!Token
  BY SameValues DEF Inv, TypeOK, SI!TypeOK
<1> QED
  BY <1>1, <1>2, <1>3

LEMMA ServiceStep ==
    ASSUME Inv, [Next]_vars
    PROVE  [SI!Next]_(SI!vars)
<1> USE DEF SI!Next
<1>1. CASE UNCHANGED vars
  BY <1>1 DEF vars, SI!vars
<1>2. CASE Tick
  BY <1>2, SameRest DEF Tick
<1>3. ASSUME NEW r \in Request, NEW d \in Device, login(r, d)
      PROVE  SI!Arrive(r)
  BY <1>3, SameSignIn DEF login, SI!Arrive
<1>4. ASSUME NEW r \in Request, NEW d \in Device, refresh(r, d)
      PROVE  SI!Arrive(r)
  BY <1>4, Presented, SameRefresh DEF refresh, SI!Arrive
<1>5. ASSUME NEW r \in Request, NEW d \in Device, NEW kind,
             requestRevocation(r, d, kind)
      PROVE  SI!Arrive(r)
  <2>1. PICK g \in given : SI!Authorise(r, g[2].sub)
    BY <1>5, SameRest DEF requestRevocation
  <2>2. g[2].sub \in User
    <3>1. given \subseteq Device \X issued /\ issued \subseteq SI!Token
      BY SameValues DEF Inv, TypeOK, SI!TypeOK
    <3> QED
      BY <3>1 DEF SI!Token
  <2> QED
    BY <2>1, <2>2 DEF SI!Arrive
<1>6. ASSUME NEW r \in Request, Handle(r) \/ OpenChain(r)
      PROVE  SI!Progress(r)
  BY <1>6, SameSignIn, SameRefresh
     DEF Handle, OpenChain, SI!Progress, SI!SignInStep
<1>7. ASSUME NEW r \in Request, handleTokenDelivery(r)
      PROVE  SI!Progress(r)
  BY <1>7, SameRest DEF handleTokenDelivery, SI!Progress
<1>8. ASSUME NEW r \in Request, Lose(r) \/ Fail(r)
      PROVE  SI!Abort(r)
  BY <1>8, SameRest DEF Lose, Fail
<1>9. ASSUME NEW r \in Request, revokeAllSessions(r)
      PROVE  SI!Progress(r)
  <2>1. from[r].token \in issued \cup {NoToken}
    BY DEF Inv, SlotInv
  <2> QED
    BY <1>9, <2>1, SameRest DEF revokeAllSessions, SI!Progress, SI!RevokeStep
<1>10. ASSUME NEW r \in Request, NEW id \in 1..(nextId - 1),
              revokeSessionById(r, id)
       PROVE  SI!Progress(r)
  BY <1>10, SameRest DEF revokeSessionById, SI!Progress, SI!RevokeStep
<1>11. ASSUME NEW d \in Device, logout(d)
       PROVE  [SI!Next]_(SI!vars)
  BY <1>11, Presented, SameRest DEF logout, service, SI!vars
<1>12. ASSUME NEW d \in Device, clearCookie(d) \/ LoseClearCookie(d)
       PROVE  UNCHANGED SI!vars
  BY <1>12 DEF clearCookie, LoseClearCookie, service, SI!vars
<1> QED
  BY <1>1, <1>2, <1>3, <1>4, <1>5, <1>6, <1>7, <1>8, <1>9, <1>10, <1>11, <1>12
     DEF Next

LEMMA ServiceInv ==
    ASSUME Inv, [Next]_vars
    PROVE  SI!Inv' /\ SI!Keyed'
<1>1. SI!Inv /\ SI!Keyed /\ [SI!Next]_(SI!vars)
  BY ServiceStep DEF Inv
<1> QED
  BY <1>1, SI!InvStep, SI!KeyedStep, ServiceAssumption

-----------------------------------------------------------------------------
(* What a step does to a slot.                                             *)

OriginType == [device: Device \cup {NoDevice}, kind: Kind,
               token: SI!Token \cup {NoToken}]

LEMMA Types ==
    ASSUME Inv
    PROVE  /\ SI!TypeOK
           /\ req \in [Request -> SI!RequestState]
           /\ sessions \subseteq SI!Row
           /\ nextId \in Nat \ {0}
           /\ issued \subseteq SI!Token
           /\ clock \in Nat
           /\ from \in [Request -> OriginType]
           /\ jar \in [Device -> SI!Token \cup {NoToken}]
           /\ until \in [Device -> Nat]
           /\ clearing \subseteq Device
           /\ chain \in [Device -> 0..(nextId - 1)]
           /\ given \subseteq Device \X issued
           /\ ended \subseteq SI!Token
BY SameValues, DeliveryAssumption
   DEF Inv, TypeOK, SI!TypeOK, OriginType, DeliveryAssumption

Stays(q) == req'[q] = req[q] /\ from'[q] = from[q]

Ends(q) == req'[q] = SI!NoRequest /\ from'[q] = NoOrigin

\* A request arrives from d.
Arrives(q, d) ==
    /\ req[q].stage = "idle"
    /\ from'[q].device = d
    /\ chain'[d] = IF Busy(d) THEN 0 ELSE chain[d]
    /\ \/ /\ req'[q].stage = "checked"
          /\ from'[q] = Origin(d, "tokens", NoToken)
       \/ /\ req'[q].stage = "verified"
          /\ req'[q].token = jar[d]
          /\ jar[d] # NoToken
          /\ from'[q] = Origin(d, "tokens", jar[d])
       \/ /\ req'[q].stage = "authorised"
          /\ \E kind \in Kind \ {"tokens"}, k \in {NoToken, jar[d]} :
                 /\ from'[q] = Origin(d, kind, k)
                 /\ kind \in {"all", "one"} => k = NoToken
          /\ \E g \in given : g[1] = d /\ g[2].sub = req'[q].user
    /\ UNCHANGED <<clock, sessions, nextId, issued, jar, until, clearing, given,
                   ended>>

\* A handler goes on to its next await.
Works(q) ==
    /\ from'[q] = from[q]
    /\ \/ OpenChain(q) /\ SI!SignInCommit(q)
       \/ /\ \/ SI!SignInSign(q) \/ SI!SignInConflict(q)
             \/ SI!RefreshSign(q) \/ SI!RefreshCommit(q) \/ SI!RefreshConflict(q)
             \/ \E s \in sessions : SI!RefreshLookup(q, s)
          /\ UNCHANGED <<jar, until, clearing, chain, given, ended>>

LEMMA ArrivalMoves ==
    ASSUME Inv, NEW r \in Request, NEW d \in Device
    PROVE  /\ login(r, d) => Arrives(r, d)
           /\ refresh(r, d) => Arrives(r, d)
           /\ \A kind \in Kind \ {"tokens"} :
                  requestRevocation(r, d, kind) => Arrives(r, d)
<1> USE Types DEF SI!RequestState, Send, OneAtATime, Origin
<1>1. ASSUME login(r, d) PROVE Arrives(r, d)
  <2>1. PICK u \in User : SI!SignInLookup(r, u)
    BY <1>1, SameSignIn DEF login
  <2> QED
    BY <1>1, <2>1 DEF login, SI!SignInLookup, Arrives
<1>2. ASSUME refresh(r, d) PROVE Arrives(r, d)
  <2>1. /\ extractRefreshToken(d) = jar[d] /\ jar[d] # NoToken
        /\ SI!verifyRefreshToken(r, jar[d])
    BY <1>2, SameRefresh, Presented DEF refresh
  <2> QED
    BY <1>2, <2>1 DEF refresh, SI!verifyRefreshToken, Arrives
<1>3. ASSUME NEW kind \in Kind \ {"tokens"}, requestRevocation(r, d, kind)
      PROVE  Arrives(r, d)
  <2>1. PICK g \in given : g[1] = d /\ SI!Authorise(r, g[2].sub)
    BY <1>3, SameRest DEF requestRevocation
  <2>2. PICK k \in Sent(d, kind) : Send(r, d, kind, k)
    BY <1>3 DEF requestRevocation
  <2>3. k \in {NoToken, jar[d]} /\ (kind \in {"all", "one"} => k = NoToken)
    BY <2>2 DEF Sent, extractRefreshToken
  <2>4. /\ req[r].stage = "idle"
        /\ req'[r].stage = "authorised"
        /\ req'[r].user = g[2].sub
        /\ UNCHANGED <<clock, sessions, nextId, issued>>
    BY <2>1 DEF SI!Authorise
  <2>5. /\ from'[r] = Origin(d, kind, k)
        /\ chain'[d] = IF Busy(d) THEN 0 ELSE chain[d]
        /\ UNCHANGED <<jar, until, clearing, given, ended>>
    BY <1>3, <2>2 DEF requestRevocation
  <2> QED
    BY <2>1, <2>3, <2>4, <2>5 DEF Arrives
<1> QED
  BY <1>1, <1>2, <1>3

\* The effects of each such step on its slot, field by field.
Keeps(q, F) == \A f \in F : req'[q][f] = req[q][f]

LEMMA Working ==
    ASSUME Inv, NEW q \in Request
    PROVE  /\ SI!SignInSign(q) =>
                  /\ req[q].stage = "checked" /\ req'[q].stage = "loginSigned"
                  /\ Keeps(q, {"user", "token", "id", "login"})
           /\ SI!SignInCommit(q) =>
                  /\ req[q].stage = "loginSigned" /\ req'[q].stage = "done"
                  /\ Keeps(q, {"user", "token", "id", "login", "new"})
           /\ SI!SignInConflict(q) =>
                  /\ req[q].stage = "loginSigned" /\ req'[q].stage = "error"
                  /\ Keeps(q, {"user", "token", "id", "login", "new"})
           /\ SI!RefreshSign(q) =>
                  /\ req[q].stage = "found" /\ req'[q].stage = "refreshSigned"
                  /\ Keeps(q, {"user", "token", "id", "login"})
           /\ SI!RefreshCommit(q) =>
                  /\ req[q].stage = "refreshSigned" /\ req'[q].stage = "done"
                  /\ Keeps(q, {"user", "token", "id", "login", "new"})
           /\ SI!RefreshConflict(q) =>
                  /\ req[q].stage = "refreshSigned" /\ req'[q].stage = "error"
                  /\ Keeps(q, {"user", "token", "id", "login", "new"})
           /\ \A s \in sessions : SI!RefreshLookup(q, s) =>
                  /\ req[q].stage = "verified"
                  /\ req'[q].stage \in {"mismatch", "stale", "found"}
                  /\ Keeps(q, {"token", "new"})
                  /\ req'[q].id = s.id /\ req'[q].login = s.login
                  /\ SI!TokenOf(s) = req[q].token
<1> USE Types DEF SI!RequestState, Keeps
<1>1. ASSUME SI!SignInSign(q)
      PROVE  /\ req[q].stage = "checked" /\ req'[q].stage = "loginSigned"
             /\ Keeps(q, {"user", "token", "id", "login"})
  BY <1>1 DEF SI!SignInSign
<1>2. ASSUME SI!SignInCommit(q)
      PROVE  /\ req[q].stage = "loginSigned" /\ req'[q].stage = "done"
             /\ Keeps(q, {"user", "token", "id", "login", "new"})
  BY <1>2 DEF SI!SignInCommit
<1>3. ASSUME SI!SignInConflict(q)
      PROVE  /\ req[q].stage = "loginSigned" /\ req'[q].stage = "error"
             /\ Keeps(q, {"user", "token", "id", "login", "new"})
  BY <1>3 DEF SI!SignInConflict
<1>4. ASSUME SI!RefreshSign(q)
      PROVE  /\ req[q].stage = "found" /\ req'[q].stage = "refreshSigned"
             /\ Keeps(q, {"user", "token", "id", "login"})
  BY <1>4 DEF SI!RefreshSign
<1>5. ASSUME SI!RefreshCommit(q)
      PROVE  /\ req[q].stage = "refreshSigned" /\ req'[q].stage = "done"
             /\ Keeps(q, {"user", "token", "id", "login", "new"})
  BY <1>5 DEF SI!RefreshCommit
<1>6. ASSUME SI!RefreshConflict(q)
      PROVE  /\ req[q].stage = "refreshSigned" /\ req'[q].stage = "error"
             /\ Keeps(q, {"user", "token", "id", "login", "new"})
  BY <1>6 DEF SI!RefreshConflict
<1>7. ASSUME NEW s \in sessions, SI!RefreshLookup(q, s)
      PROVE  /\ req[q].stage = "verified"
             /\ req'[q].stage \in {"mismatch", "stale", "found"}
             /\ Keeps(q, {"token", "new"})
             /\ req'[q].id = s.id /\ req'[q].login = s.login
             /\ SI!TokenOf(s) = req[q].token
  BY <1>7 DEF SI!RefreshLookup, SI!TokenOf, SI!hashToken
<1> QED
  BY <1>1, <1>2, <1>3, <1>4, <1>5, <1>6, <1>7

LEMMA HandleMoves ==
    ASSUME Inv, NEW r \in Request
    PROVE  /\ Handle(r) => Ends(r) \/ Works(r)
           /\ OpenChain(r) => Works(r)
           /\ handleTokenDelivery(r) => Ends(r)
           /\ Lose(r) \/ Fail(r) => Ends(r)
           /\ revokeAllSessions(r) => Ends(r)
           /\ \A id : revokeSessionById(r, id) => Ends(r)
<1> USE Types
<1>1. ASSUME Handle(r) PROVE Ends(r) \/ Works(r)
  <2>1. CASE SI!SignInSign(r) \/ SI!SignInConflict(r) \/ SI!RefreshSign(r)
             \/ SI!RefreshCommit(r) \/ SI!RefreshConflict(r)
    <3>1. req'[r].stage # "idle"
      BY <2>1, Working
    <3> QED
      BY <1>1, <2>1, <3>1 DEF Handle, Answered, Works
  <2>2. ASSUME NEW s \in sessions, SI!RefreshLookup(r, s)
        PROVE  Works(r)
    <3>1. req'[r].stage # "idle"
      BY <2>2, Working
    <3> QED
      BY <1>1, <2>2, <3>1 DEF Handle, Answered, Works
  <2>3. CASE SI!RefreshUnknown(r) \/ SI!RefreshDrop(r)
    <3>1. req'[r] = SI!NoRequest
      BY <2>3 DEF SI!RefreshUnknown, SI!RefreshDrop
    <3> QED
      BY <1>1, <3>1 DEF Handle, Answered, Ends, SI!NoRequest
  <2> QED
    BY <1>1, <2>1, <2>2, <2>3, SameSignIn, SameRefresh
       DEF Handle, SI!RefreshStep
<1>2. ASSUME OpenChain(r) PROVE Works(r)
  BY <1>2, SameSignIn DEF OpenChain, Works
<1>3. ASSUME handleTokenDelivery(r) \/ Lose(r) \/ Fail(r) PROVE Ends(r)
  BY <1>3, SameRest
     DEF handleTokenDelivery, Lose, Fail, Ends, SI!Respond, SI!Abort
<1>4. ASSUME revokeAllSessions(r) \/ \E id : revokeSessionById(r, id)
      PROVE  Ends(r)
  BY <1>4, SameRest DEF revokeAllSessions, revokeSessionById, Revoked, Ends,
     SI!revokeAllSessions, SI!revokeOtherSessions, SI!revokeSessionById
<1> QED
  BY <1>1, <1>2, <1>3, <1>4

\* All slots but one stay.
Others(r) == \A q \in Request \ {r} : Stays(q)

LEMMA OthersStay ==
    ASSUME Inv, NEW r \in Request
    PROVE  /\ \A d \in Device : login(r, d) \/ refresh(r, d) => Others(r)
           /\ \A d \in Device : \A kind : requestRevocation(r, d, kind)
                  => Others(r)
           /\ Handle(r) \/ OpenChain(r) \/ handleTokenDelivery(r) \/ Lose(r) \/ Fail(r)
              \/ revokeAllSessions(r) => Others(r)
           /\ \A id : revokeSessionById(r, id) => Others(r)
<1> USE Types DEF Others, Stays
<1>1. ASSUME NEW d \in Device, NEW kind,
             login(r, d) \/ refresh(r, d) \/ requestRevocation(r, d, kind)
      PROVE  Others(r)
  <2>1. \A q \in Request \ {r} : from'[q] = from[q]
    BY <1>1 DEF login, refresh, requestRevocation, Send
  <2>2. \A q \in Request \ {r} : req'[q] = req[q]
    <3>1. CASE login(r, d)
      <4>1. PICK u \in User : SI!SignInLookup(r, u)
        BY <3>1, SameSignIn DEF login
      <4> QED
        BY <4>1 DEF SI!SignInLookup
    <3>2. CASE refresh(r, d)
      <4>1. \E k : SI!verifyRefreshToken(r, k)
        BY <3>2, SameRefresh DEF refresh
      <4> QED
        BY <4>1 DEF SI!verifyRefreshToken
    <3>3. CASE requestRevocation(r, d, kind)
      <4>1. \E u : SI!Authorise(r, u)
        BY <3>3, SameRest DEF requestRevocation
      <4> QED
        BY <4>1 DEF SI!Authorise
    <3> QED
      BY <1>1, <3>1, <3>2, <3>3
  <2> QED
    BY <2>1, <2>2
<1>2. ASSUME Handle(r)
      PROVE  Others(r)
  <2>1. \A q \in Request \ {r} : from'[q] = from[q]
    BY <1>2 DEF Handle, Answered
  <2>2. \A q \in Request \ {r} : req'[q] = req[q]
    <3>1. CASE SI!SignInSign(r) \/ SI!SignInConflict(r)
      BY <3>1 DEF SI!SignInSign, SI!SignInConflict
    <3>2. CASE SI!RefreshStep(r)
      BY <3>2 DEF SI!RefreshStep, SI!RefreshUnknown, SI!RefreshLookup,
         SI!RefreshDrop, SI!RefreshSign, SI!RefreshCommit, SI!RefreshConflict
    <3> QED
      BY <1>2, <3>1, <3>2, SameSignIn, SameRefresh DEF Handle
  <2> QED
    BY <2>1, <2>2
<1>3. ASSUME OpenChain(r) \/ handleTokenDelivery(r) \/ Lose(r) \/ Fail(r)
      PROVE  Others(r)
  BY <1>3, SameSignIn, SameRest
     DEF OpenChain, handleTokenDelivery, Lose, Fail, SI!SignInCommit, SI!Respond,
     SI!Abort
<1>4. ASSUME revokeAllSessions(r) \/ \E id : revokeSessionById(r, id)
      PROVE  Others(r)
  BY <1>4, SameRest DEF revokeAllSessions, revokeSessionById, Revoked,
     SI!revokeAllSessions, SI!revokeOtherSessions, SI!revokeSessionById
<1> QED
  BY <1>1, <1>2, <1>3, <1>4

SlotMoves(q) ==
    \/ Stays(q)
    \/ Ends(q)
    \/ \E d \in Device : Arrives(q, d)
    \/ Works(q)

LEMMA EachSlot ==
    ASSUME Inv, [Next]_vars
    PROVE  /\ \A q \in Request : SlotMoves(q)
           /\ \A q, p \in Request : q = p \/ Stays(q) \/ Stays(p)
<1> DEFINE OneSlot == /\ \A q \in Request : SlotMoves(q)
                      /\ \A q, p \in Request : q = p \/ Stays(q) \/ Stays(p)
<1>1. ASSUME \A q \in Request : Stays(q)
      PROVE  OneSlot
  BY <1>1 DEF SlotMoves
<1>2. ASSUME NEW r \in Request, Others(r), SlotMoves(r)
      PROVE  OneSlot
  BY <1>2 DEF SlotMoves, Others
<1> HIDE DEF OneSlot
<1>3. ASSUME UNCHANGED vars \/ Tick
      PROVE  OneSlot
  BY <1>1, <1>3, SameRest DEF vars, Tick, SI!Tick, Stays
<1>4. ASSUME NEW d \in Device, logout(d) \/ clearCookie(d) \/ LoseClearCookie(d)
      PROVE  OneSlot
  BY <1>1, <1>4, SameRest DEF logout, clearCookie, LoseClearCookie, service,
     SI!revokeSession, Stays
<1>5. ASSUME NEW r \in Request, NEW d \in Device, login(r, d) \/ refresh(r, d)
      PROVE  OneSlot
  BY <1>2, <1>5, ArrivalMoves, OthersStay DEF SlotMoves
<1>6. ASSUME NEW r \in Request, NEW d \in Device, NEW kind \in Kind \ {"tokens"},
             requestRevocation(r, d, kind)
      PROVE  OneSlot
  BY <1>2, <1>6, ArrivalMoves, OthersStay DEF SlotMoves
<1>7. ASSUME NEW r \in Request,
             Handle(r) \/ OpenChain(r) \/ handleTokenDelivery(r) \/ Lose(r) \/ Fail(r)
             \/ revokeAllSessions(r)
      PROVE  OneSlot
  BY <1>2, <1>7, HandleMoves, OthersStay DEF SlotMoves
<1>8. ASSUME NEW r \in Request, NEW id, revokeSessionById(r, id)
      PROVE  OneSlot
  BY <1>2, <1>8, HandleMoves, OthersStay DEF SlotMoves
<1>9. OneSlot
  BY <1>3, <1>4, <1>5, <1>6, <1>7, <1>8 DEF Next
<1> QED
  BY <1>9 DEF OneSlot

-----------------------------------------------------------------------------
(* What a step does to a device.                                           *)

\* d stores the tokens of its request q.
Delivers(q, d) ==
    /\ from[q].device = d
    /\ req[q].stage = "done"
    /\ Ends(q)
    /\ jar' = [jar EXCEPT ![d] = req[q].new]
    /\ until' = [until EXCEPT ![d] = IF d \in Web THEN clock + maxAge ELSE 0]
    /\ given' = given \cup {<<d, req[q].new>>}
    /\ issued' = issued \cup {req[q].new}
    /\ UNCHANGED <<clock, sessions, nextId, clearing, chain, ended>>

\* The cookie of d is cleared.
Clears(d) ==
    /\ d \in clearing
    /\ clearing' = clearing \ {d}
    /\ jar' = [jar EXCEPT ![d] = NoToken]
    /\ until' = [until EXCEPT ![d] = 0]
    /\ UNCHANGED <<clock, sessions, nextId, issued, req, from, chain, given,
                   ended>>

\* d logs out.
Leaves(d) ==
    /\ d \notin clearing
    /\ clearing' = clearing \cup {d}
    /\ extractRefreshToken(d) # NoToken => SI!revokeSession(extractRefreshToken(d))
    /\ extractRefreshToken(d) = NoToken => UNCHANGED sessions
    /\ chain' = [chain EXCEPT ![d] = IF Busy(d) THEN 0 ELSE @]
    /\ UNCHANGED <<clock, nextId, issued, req, from, jar, until, given>>

\* The answer to request q of d will clear its cookie.
Revokes(q, d) ==
    /\ from[q].device = d
    /\ from[q].kind = "all"
    /\ Ends(q)
    /\ SI!revokeAllSessions(q)
    /\ clearing' = clearing \cup {d}
    /\ UNCHANGED <<jar, until, chain, given>>

Kept == UNCHANGED <<jar, until, given, issued>>

\* What reaches the devices.
LEMMA Stores ==
    ASSUME Inv, [Next]_vars
    PROVE  \/ Kept
           \/ \E q \in Request, d \in Device : Delivers(q, d)
           \/ \E d \in Device : Clears(d)
<1> DEFINE Goal == \/ Kept
                   \/ \E q \in Request, d \in Device : Delivers(q, d)
                   \/ \E d \in Device : Clears(d)
<1>1. ASSUME UNCHANGED vars \/ Tick
      PROVE  Goal
  BY <1>1, SameRest DEF vars, Tick, SI!Tick, Kept
<1>2. ASSUME NEW d \in Device, clearCookie(d)
      PROVE  Goal
  BY <1>2 DEF clearCookie, service, Clears
<1>3. ASSUME NEW d \in Device, logout(d) \/ LoseClearCookie(d)
      PROVE  Goal
  BY <1>3, SameRest DEF logout, LoseClearCookie, service, SI!revokeSession, Kept
<1>4. ASSUME NEW r \in Request, NEW d \in Device, login(r, d) \/ refresh(r, d)
      PROVE  Goal
  BY <1>4, ArrivalMoves DEF Arrives, Kept
<1>5. ASSUME NEW r \in Request, NEW d \in Device, NEW kind \in Kind \ {"tokens"},
             requestRevocation(r, d, kind)
      PROVE  Goal
  BY <1>5, ArrivalMoves DEF Arrives, Kept
<1>6. ASSUME NEW r \in Request, Handle(r)
      PROVE  Goal
  <2>1. UNCHANGED <<jar, until, given>>
    BY <1>6 DEF Handle
  <2>2. issued' = issued
    BY <1>6, SameSignIn, SameRefresh DEF Handle, SI!SignInSign,
       SI!SignInConflict, SI!RefreshStep, SI!RefreshUnknown, SI!RefreshLookup,
       SI!RefreshDrop, SI!RefreshSign, SI!RefreshCommit, SI!RefreshConflict
  <2> QED
    BY <2>1, <2>2 DEF Kept
<1>7. ASSUME NEW r \in Request, OpenChain(r) \/ Lose(r) \/ Fail(r)
      PROVE  Goal
  BY <1>7, SameSignIn, SameRest DEF OpenChain, Lose, Fail, SI!SignInCommit, SI!Abort,
     Kept
<1>8. ASSUME NEW r \in Request, handleTokenDelivery(r)
      PROVE  Goal
  <2>1. SI!Respond(r) /\ Ends(r)
    BY <1>8, SameRest, HandleMoves DEF handleTokenDelivery
  <2>2. CASE req[r].stage = "done"
    <3>1. from[r].device \in Device
      BY <2>2, Types DEF Inv, SlotInv, OriginType
    <3> QED
      BY <1>8, <2>1, <2>2, <3>1
         DEF handleTokenDelivery, SI!Respond, Store, Delivers
  <2>3. CASE req[r].stage # "done"
    BY <1>8, <2>1, <2>3 DEF handleTokenDelivery, SI!Respond, Kept
  <2> QED
    BY <2>2, <2>3
<1>9. ASSUME NEW r \in Request, revokeAllSessions(r)
      PROVE  Goal
  BY <1>9, SameRest DEF revokeAllSessions, Revoked, SI!revokeAllSessions,
     SI!revokeOtherSessions, Kept
<1>10. ASSUME NEW r \in Request, NEW id, revokeSessionById(r, id)
       PROVE  Goal
  BY <1>10, SameRest DEF revokeSessionById, Revoked, SI!revokeSessionById, Kept
<1> QED
  BY <1>1, <1>2, <1>3, <1>4, <1>5, <1>6, <1>7, <1>8, <1>9, <1>10 DEF Next

\* How the chain and the answer that clears the cookie move.
Sights(d) ==
    \/ chain'[d] = 0
    \/ chain'[d] = chain[d] /\ (d \in clearing' <=> d \in clearing)
    \/ chain'[d] = chain[d] /\ Clears(d)
    \/ chain'[d] = chain[d] /\ Leaves(d) /\ ~Busy(d)
    \/ chain'[d] = chain[d] /\ \E q \in Request : Revokes(q, d) /\ d \in Web
    \/ \E q \in Request : /\ from[q].device = d
                          /\ OpenChain(q) /\ SI!SignInCommit(q)
                          /\ chain'[d] = nextId
                          /\ d \notin clearing
                          /\ \A p \in Request \ {q} : from[p].device # d

LEMMA SightsKept ==
    ASSUME Inv, [Next]_vars, NEW d \in Device
    PROVE  Sights(d)
<1> USE Types DEF Sights
<1>1. CASE UNCHANGED vars \/ Tick
  BY <1>1 DEF vars, Tick
<1>2. ASSUME NEW e \in Device, clearCookie(e)
      PROVE  Sights(d)
  <2>1. Clears(e) /\ chain' = chain
    BY <1>2 DEF clearCookie, service, Clears
  <2> QED
    BY <2>1 DEF Clears
<1>3. ASSUME NEW e \in Device, LoseClearCookie(e)
      PROVE  Sights(d)
  BY <1>3 DEF LoseClearCookie
<1>4. ASSUME NEW e \in Device, logout(e)
      PROVE  Sights(d)
  <2>1. Leaves(e)
    BY <1>4, SameRest
       DEF logout, service, SI!revokeSession, OneAtATime, Leaves
  <2> QED
    BY <2>1 DEF Leaves
<1>5. ASSUME NEW r \in Request, NEW e \in Device, NEW kind,
             login(r, e) \/ refresh(r, e) \/ requestRevocation(r, e, kind)
      PROVE  Sights(d)
  <2>1. OneAtATime(e) /\ clearing' = clearing
    BY <1>5 DEF login, refresh, requestRevocation, Send
  <2> QED
    BY <2>1 DEF OneAtATime
<1>6. ASSUME NEW r \in Request, Handle(r) \/ handleTokenDelivery(r) \/ Lose(r) \/ Fail(r)
      PROVE  Sights(d)
  BY <1>6 DEF Handle, handleTokenDelivery, Lose, Fail
<1>7. ASSUME NEW r \in Request, OpenChain(r)
      PROVE  Sights(d)
  BY <1>7, SameSignIn DEF OpenChain
<1>8. ASSUME NEW r \in Request, revokeAllSessions(r)
      PROVE  Sights(d)
  <2>1. Ends(r) /\ UNCHANGED <<jar, until, chain, given>>
    BY <1>8, HandleMoves DEF revokeAllSessions, Revoked
  <2>2. CASE from[r].kind = "all" /\ from[r].device = d /\ d \in Web
    <3>1. from[r].token = NoToken
      BY <2>2 DEF Inv, SlotInv
    <3> QED
      BY <1>8, <2>1, <2>2, <3>1, SameRest DEF revokeAllSessions, Revokes
  <2>3. CASE ~(from[r].kind = "all" /\ from[r].device = d /\ d \in Web)
    BY <1>8, <2>1, <2>3 DEF revokeAllSessions
  <2> QED
    BY <2>2, <2>3
<1>9. ASSUME NEW r \in Request, NEW id, revokeSessionById(r, id)
      PROVE  Sights(d)
  BY <1>9 DEF revokeSessionById, Revoked
<1>10. ASSUME NEW r \in Request, NEW e \in Device,
              login(r, e) \/ refresh(r, e)
       PROVE  Sights(d)
  BY <1>5, <1>10
<1> QED
  BY <1>1, <1>2, <1>3, <1>4, <1>5, <1>6, <1>7, <1>8, <1>9, <1>10 DEF Next

-----------------------------------------------------------------------------
(* What a step does to the table.                                          *)

LEMMA Grows ==
    ASSUME Inv, [Next]_vars
    PROVE  /\ given \subseteq given' /\ issued \subseteq issued'
           /\ ended \subseteq ended'
           /\ nextId' \in Nat /\ nextId <= nextId'
           /\ clock' \in Nat
           /\ SI!Second(clock) \in Nat /\ SI!Second(clock') \in Nat
           /\ SI!Second(clock) <= SI!Second(clock')
<1>1. given \subseteq given' /\ issued \subseteq issued'
  BY Stores DEF Kept, Delivers, Clears
<1>2. ended \subseteq ended'
  BY DEF Next, vars, Tick, login, refresh, Handle, OpenChain,
     handleTokenDelivery, Lose, Fail, logout, clearCookie, LoseClearCookie,
     requestRevocation, Revoked, revokeAllSessions, revokeSessionById
<1>3. /\ [SI!Next]_(SI!vars) /\ SI!TypeOK
      /\ nextId \in Nat
  BY ServiceStep, Types
<1>4. nextId' \in Nat /\ nextId <= nextId'
  BY <1>3, SI!TableStep, ServiceAssumption DEF SI!Shrinks, SI!Inserts
<1>5. /\ clock' \in 0..MaxClock
      /\ SI!Second(clock) \in Nat /\ SI!Second(clock') \in Nat
      /\ SI!Second(clock) <= SI!Second(clock')
  BY <1>3, SI!ClockStep, ServiceAssumption
<1> QED
  BY <1>1, <1>2, <1>4, <1>5, DeliveryAssumption DEF DeliveryAssumption

\* A token that is good after a step was good before it.
LEMMA GoodBefore ==
    ASSUME Inv, [Next]_vars, NEW k \in SI!Token, SI!Unexpired(k, RefreshTtl)'
    PROVE  SI!Unexpired(k, RefreshTtl)
<1>1. k.iat \in Nat
  BY SI!SecondBounds, ServiceAssumption, DeliveryAssumption
     DEF SI!Token, DeliveryAssumption
<1> QED
  BY <1>1, Grows, DeliveryAssumption DEF SI!Unexpired, DeliveryAssumption

LEMMA NoTokenApart == NoToken \notin SI!Token
<1>1. SI!Token \subseteq [sub: User, iat: Nat]
  BY SI!SecondBounds, ServiceAssumption, DeliveryAssumption
     DEF SI!Token, DeliveryAssumption
<1> QED
  BY <1>1, DeliveryAssumption DEF DeliveryAssumption

LEMMA TokensTyped ==
    ASSUME Inv
    PROVE  \A s \in sessions : /\ SI!TokenOf(s) \in SI!Token
                               /\ s.sessionToken = SI!hashToken(SI!TokenOf(s))
                               /\ SI!TokenOf(s).sub = s.userId
                               /\ s.login \in 1..(nextId - 1)
                               /\ s.id \in 1..(nextId - 1)
BY Types DEF Inv, SI!Inv, SI!Keyed, SI!LoginIds, SI!FreshIds,
   SI!SubjectOwnsRow, SI!Row, SI!TokenOf, SI!hashToken

\* A commit is the work of a parked handler.
LEMMA CommitWorks ==
    ASSUME Inv, [Next]_vars, NEW q \in Request
    PROVE  /\ SI!SignInCommit(q) => Works(q) /\ OpenChain(q)
           /\ SI!RefreshCommit(q) =>
                  Works(q) /\ UNCHANGED <<jar, until, clearing, chain, given, ended>>
<1>1. ASSUME SI!SignInCommit(q) \/ SI!RefreshCommit(q)
      PROVE  Works(q)
  <2>1. req[q].stage \in {"loginSigned", "refreshSigned"} /\ req'[q].stage = "done"
    BY <1>1, Working
  <2> QED
    BY <2>1, EachSlot DEF SlotMoves, Stays, Ends, Arrives, SI!NoRequest
<1>2. ASSUME SI!SignInCommit(q)
      PROVE  Works(q) /\ OpenChain(q)
  <2>1. req[q].stage = "loginSigned" /\ req'[q].stage = "done"
    BY <1>2, Working
  <2> QED
    BY <1>1, <1>2, <2>1, Working DEF Works
<1>3. ASSUME SI!RefreshCommit(q)
      PROVE  Works(q) /\ UNCHANGED <<jar, until, clearing, chain, given, ended>>
  <2>1. req[q].stage = "refreshSigned"
    BY <1>3, Working
  <2> QED
    BY <1>1, <1>3, <2>1, Working DEF Works
<1> QED
  BY <1>2, <1>3

\* Which row a commit adds.
LEMMA RowAdded ==
    ASSUME Inv, [Next]_vars, NEW s \in sessions' \ sessions
    PROVE  \E q \in Request :
               /\ Works(q)
               /\ SI!TokenOf(s) = req[q].new
               /\ \/ SI!SignInCommit(q) /\ OpenChain(q) /\ s.login = nextId
                  \/ SI!RefreshCommit(q) /\ s.login = req[q].login
<1>1. SI!TypeOK /\ [SI!Next]_(SI!vars)
  BY Types, ServiceStep
<1>2. \E r \in Request : SI!SignInCommit(r) \/ SI!RefreshCommit(r)
  BY <1>1, SI!RowComes, ServiceAssumption DEF SI!Shrinks
<1>3. ASSUME NEW r \in Request, NEW chainId,
             s = SI!buildSessionInsertValues(req[r].user, req[r].new, chainId)
      PROVE  SI!TokenOf(s) = req[r].new /\ s.login = chainId
  BY <1>3 DEF SI!buildSessionInsertValues, SI!TokenOf, SI!hashToken
<1>4. ASSUME NEW r \in Request, SI!SignInCommit(r)
      PROVE  /\ Works(r) /\ OpenChain(r)
             /\ SI!TokenOf(s) = req[r].new /\ s.login = nextId
  <2>1. s = SI!buildSessionInsertValues(req[r].user, req[r].new, nextId)
    BY <1>4 DEF SI!SignInCommit
  <2> QED
    BY <1>3, <1>4, <2>1, CommitWorks
<1>5. ASSUME NEW r \in Request, SI!RefreshCommit(r)
      PROVE  /\ Works(r)
             /\ SI!TokenOf(s) = req[r].new /\ s.login = req[r].login
  <2>1. s = SI!buildSessionInsertValues(req[r].user, req[r].new, req[r].login)
    BY <1>5 DEF SI!RefreshCommit, SI!OthersThan
  <2> QED
    BY <1>3, <1>5, <2>1, CommitWorks
<1> QED
  BY <1>2, <1>4, <1>5

\* Which rows a step removes.
LEMMA RowRemoved ==
    ASSUME Inv, [Next]_vars, NEW s \in sessions \ sessions'
    PROVE  \/ SI!TokenOf(s) \in ended'
           \/ ~SI!Unexpired(SI!TokenOf(s), RefreshTtl)
           \/ \E q \in Request : /\ SI!RefreshCommit(q)
                                 /\ s.id = req[q].id
                                 /\ SI!TokenOf(s) = req[q].token
<1> DEFINE Goal == \/ SI!TokenOf(s) \in ended'
                   \/ ~SI!Unexpired(SI!TokenOf(s), RefreshTtl)
                   \/ \E q \in Request : /\ SI!RefreshCommit(q)
                                         /\ s.id = req[q].id
                                         /\ SI!TokenOf(s) = req[q].token
<1> USE Types
<1>1. ASSUME sessions \subseteq sessions'
      PROVE  Goal
  BY <1>1
<1>2. ASSUME NEW d \in Device, logout(d)
      PROVE  Goal
  <2>1. CASE extractRefreshToken(d) = NoToken
    BY <1>1, <1>2, <2>1 DEF logout, service
  <2>2. CASE extractRefreshToken(d) # NoToken
    <3>1. SI!revokeSession(extractRefreshToken(d))
      BY <1>2, <2>2, SameRest DEF logout
    <3>2. s.sessionToken = SI!hashToken(extractRefreshToken(d))
      BY <3>1 DEF SI!revokeSession
    <3>3. SI!TokenOf(s) = extractRefreshToken(d)
      BY <3>2 DEF SI!TokenOf, SI!hashToken
    <3> QED
      BY <1>2, <2>2, <3>3 DEF logout
  <2> QED
    BY <2>1, <2>2
<1>3. ASSUME NEW r \in Request, Revoked(r), SI!TokenOf(s) # from[r].token
      PROVE  Goal
  <2>1. SI!TokenOf(s) \in Removed
    BY SameValues DEF Removed
  <2> QED
    BY <1>3, <2>1 DEF Revoked
<1>4. ASSUME NEW r \in Request, revokeAllSessions(r)
      PROVE  Goal
  <2>1. CASE from[r].token = NoToken
    <3>1. SI!TokenOf(s) # NoToken
      BY TokensTyped, NoTokenApart
    <3> QED
      BY <1>3, <1>4, <2>1, <3>1 DEF revokeAllSessions
  <2>2. CASE from[r].token # NoToken
    <3>1. SI!revokeOtherSessions(r, from[r].token)
      BY <1>4, <2>2, SameRest DEF revokeAllSessions
    <3>2. s.sessionToken # SI!hashToken(from[r].token)
      BY <3>1 DEF SI!revokeOtherSessions
    <3>3. SI!TokenOf(s) # from[r].token
      BY <3>2, TokensTyped
    <3> QED
      BY <1>3, <1>4, <3>3 DEF revokeAllSessions
  <2> QED
    BY <2>1, <2>2
<1>5. ASSUME NEW r \in Request, NEW id, revokeSessionById(r, id)
      PROVE  Goal
  <2>1. from[r].token = NoToken
    BY <1>5 DEF revokeSessionById, Inv, SlotInv
  <2>2. SI!TokenOf(s) # NoToken
    BY TokensTyped, NoTokenApart
  <2> QED
    BY <1>3, <1>5, <2>1, <2>2 DEF revokeSessionById
<1>6. ASSUME NEW r \in Request, Handle(r)
      PROVE  Goal
  <2>1. CASE SI!RefreshDrop(r)
    <3>1. req[r].stage # "mismatch" /\ SI!LocatedToken(r)
      BY DEF Inv, SI!Inv, SI!SubjectOwnsRow, SI!Keyed
    <3>2. req[r].stage = "stale" /\ s.id = req[r].id
      BY <2>1, <3>1 DEF SI!RefreshDrop
    <3>3. /\ SI!TokenOf(s) = req[r].token
          /\ ~SI!Unexpired(req[r].token, RefreshTtl)
      BY <3>1, <3>2 DEF SI!LocatedToken, SI!Located
    <3> QED
      BY <3>3
  <2>2. CASE SI!RefreshCommit(r)
    <3>1. s.id = req[r].id /\ req[r].stage = "refreshSigned"
      BY <2>2 DEF SI!RefreshCommit, SI!OthersThan
    <3>2. SI!TokenOf(s) = req[r].token
      BY <3>1 DEF Inv, SI!Keyed, SI!LocatedToken, SI!Located
    <3> QED
      BY <2>2, <3>1, <3>2
  <2>3. CASE ~SI!RefreshDrop(r) /\ ~SI!RefreshCommit(r)
    <3>1. sessions' = sessions
      BY <1>6, <2>3, SameSignIn, SameRefresh DEF Handle, SI!SignInSign,
         SI!SignInConflict, SI!RefreshStep, SI!RefreshUnknown,
         SI!RefreshLookup, SI!RefreshSign, SI!RefreshConflict
    <3> QED
      BY <1>1, <3>1
  <2> QED
    BY <2>1, <2>2, <2>3
<1>7. ASSUME NEW r \in Request, NEW d \in Device,
             \/ login(r, d) \/ refresh(r, d)
             \/ \E kind \in Kind \ {"tokens"} : requestRevocation(r, d, kind)
      PROVE  Goal
  BY <1>1, <1>7, ArrivalMoves DEF Arrives
<1>8. ASSUME NEW r \in Request,
             OpenChain(r) \/ handleTokenDelivery(r) \/ Lose(r) \/ Fail(r)
      PROVE  Goal
  BY <1>1, <1>8, SameSignIn, SameRest DEF OpenChain, handleTokenDelivery, Lose, Fail,
     SI!SignInCommit, SI!Respond, SI!Abort
<1>9. ASSUME NEW d \in Device, clearCookie(d) \/ LoseClearCookie(d)
      PROVE  Goal
  BY <1>1, <1>9 DEF clearCookie, LoseClearCookie, service
<1>10. ASSUME UNCHANGED vars \/ Tick
       PROVE  Goal
  BY <1>1, <1>10, SameRest DEF vars, Tick, SI!Tick
<1> QED
  BY <1>2, <1>4, <1>5, <1>6, <1>7, <1>8, <1>9, <1>10 DEF Next

-----------------------------------------------------------------------------
(* Types.                                                                  *)

\* What an answer brings is a token of the past.
LEMMA Answer ==
    ASSUME Inv, NEW q \in Request, req[q].stage = "done"
    PROVE  /\ req[q].new \in SI!Token
           /\ req[q].new.iat \in Nat
           /\ req[q].new.iat * TicksPerSecond <= clock
<1>1. req[q].new \in SI!Token /\ req[q].new.iat <= SI!Second(clock)
  BY DEF Inv, SI!Inv, SI!RequestConsistent, SI!Signed
<1>2. clock \in Nat /\ SI!Second(clock) \in Nat
      /\ SI!Second(clock) * TicksPerSecond <= clock
  BY Types, SI!SecondBounds, ServiceAssumption
<1>3. req[q].new.iat \in Nat
  BY <1>1, SI!SecondBounds, ServiceAssumption, DeliveryAssumption
     DEF SI!Token, DeliveryAssumption
<1>4. req[q].new.iat * TicksPerSecond <= SI!Second(clock) * TicksPerSecond
  BY <1>1, <1>2, <1>3, SI!ProductMonotone, ServiceAssumption
<1> DEFINE a == req[q].new.iat * TicksPerSecond
           b == SI!Second(clock) * TicksPerSecond
<1>5. a \in Nat /\ b \in Nat
  BY <1>2, <1>3, DeliveryAssumption DEF DeliveryAssumption
<1>6. a <= b /\ b <= clock
  BY <1>2, <1>4
<1>7. a <= clock
  <2> HIDE DEF a, b
  <2> QED
    BY <1>2, <1>5, <1>6
<1> QED
  BY <1>1, <1>3, <1>7

LEMMA MaxAgeNat == maxAge \in Nat
BY DeliveryAssumption DEF DeliveryAssumption, maxAge

LEMMA Shapes ==
    ASSUME Inv, [Next]_vars
    PROVE  /\ from' \in [Request -> OriginType]
           /\ clearing' \subseteq Device
           /\ chain' \in [Device -> Nat]
           /\ ended' \subseteq SI!Token
<1> DEFINE Goal == /\ from' \in [Request -> OriginType]
                   /\ clearing' \subseteq Device
                   /\ chain' \in [Device -> Nat]
                   /\ ended' \subseteq SI!Token
<1>a. /\ from \in [Request -> OriginType] /\ clearing \subseteq Device
      /\ chain \in [Device -> Nat] /\ ended \subseteq SI!Token
      /\ nextId \in Nat
  BY Types
<1>b. NoOrigin \in OriginType
  BY DEF NoOrigin, OriginType, Kind
<1>c. \A d \in Device, kind \in Kind, k \in SI!Token \cup {NoToken} :
          Origin(d, kind, k) \in OriginType
  BY DEF Origin, OriginType
<1>d. \A d \in Device : extractRefreshToken(d) \in SI!Token \cup {NoToken}
  BY Presented
<1>1. ASSUME UNCHANGED vars \/ Tick PROVE Goal
  BY <1>a, <1>1 DEF vars, Tick
<1>2. ASSUME NEW r \in Request, NEW d \in Device, NEW kind \in Kind,
             NEW k \in SI!Token \cup {NoToken}, Send(r, d, kind, k),
             clearing' = clearing, ended' = ended
      PROVE  Goal
  BY <1>a, <1>c, <1>2 DEF Send, OneAtATime
<1>3. ASSUME NEW r \in Request, NEW d \in Device, login(r, d) \/ refresh(r, d)
      PROVE  Goal
  BY <1>2, <1>3, <1>d DEF login, refresh, Kind
<1>4. ASSUME NEW r \in Request, NEW d \in Device, NEW kind \in Kind,
             requestRevocation(r, d, kind)
      PROVE  Goal
  <2>1. PICK k \in Sent(d, kind) : Send(r, d, kind, k)
    BY <1>4 DEF requestRevocation
  <2> QED
    BY <1>2, <1>4, <1>d, <2>1 DEF requestRevocation, Sent
<1>5. ASSUME NEW r \in Request, Handle(r)
      PROVE  Goal
  BY <1>a, <1>b, <1>5 DEF Handle, Answered
<1>6. ASSUME NEW r \in Request,
             OpenChain(r) \/ handleTokenDelivery(r) \/ Lose(r) \/ Fail(r)
      PROVE  Goal
  BY <1>a, <1>b, <1>6 DEF OpenChain, handleTokenDelivery, Lose, Fail
<1>7. ASSUME NEW d \in Device, logout(d)
      PROVE  Goal
  BY <1>a, <1>d, <1>7 DEF logout, OneAtATime
<1>8. ASSUME NEW d \in Device, clearCookie(d) \/ LoseClearCookie(d)
      PROVE  Goal
  BY <1>a, <1>8 DEF clearCookie, LoseClearCookie
<1>9. ASSUME NEW r \in Request, Revoked(r),
             clearing' \subseteq clearing \cup ({from[r].device} \cap Web)
      PROVE  Goal
  <2>1. Removed \subseteq SI!Token
    BY TokensTyped, SameValues DEF Removed
  <2>2. Web \subseteq Device
    BY DeliveryAssumption DEF DeliveryAssumption
  <2> QED
    BY <1>a, <1>b, <1>9, <2>1, <2>2 DEF Revoked
<1>10. ASSUME NEW r \in Request,
              revokeAllSessions(r) \/ \E id : revokeSessionById(r, id)
       PROVE  Goal
  BY <1>9, <1>10 DEF revokeAllSessions, revokeSessionById
<1> QED
  BY <1>1, <1>3, <1>4, <1>5, <1>6, <1>7, <1>8, <1>10 DEF Next

LEMMA TypeStep ==
    ASSUME Inv, [Next]_vars
    PROVE  TypeOK'
<1>1. S!TypeOK'
  <2>1. SI!TypeOK'
    BY ServiceInv DEF SI!Inv
  <2> QED
    BY <2>1, SameValues DEF S!TypeOK, SI!TypeOK, S!Row, SI!Row,
       S!RequestState, SI!RequestState, S!Stage, SI!Stage
<1>2. jar' \in [Device -> SI!Token \cup {NoToken}] /\ until' \in [Device -> Nat]
  BY Stores, Types, Answer, MaxAgeNat DEF Kept, Delivers, Clears
<1>3. given' \subseteq Device \X issued'
  <2>1. given \subseteq Device \X issued
    BY Types
  <2> QED
    BY <2>1, Stores DEF Kept, Delivers, Clears
<1>4. chain' \in [Device -> 0..(nextId' - 1)]
  <2>1. ASSUME NEW d \in Device
        PROVE  chain'[d] \in 0..(nextId' - 1)
    <3>1. /\ chain[d] \in 0..(nextId - 1) /\ nextId \in Nat \ {0}
          /\ nextId' \in Nat /\ nextId <= nextId'
      BY Types, Grows
    <3>2. ASSUME NEW q, SI!SignInCommit(q)
          PROVE  nextId' = nextId + 1
      BY <3>2 DEF SI!SignInCommit
    <3>3. chain'[d] \in {0, chain[d]} \/ (chain'[d] = nextId /\ nextId' = nextId + 1)
      BY <3>2, SightsKept DEF Sights
    <3> QED
      BY <3>1, <3>3
  <2> QED
    BY <2>1, Shapes
<1>5. /\ from' \in [Request -> OriginType] /\ clearing' \subseteq Device
      /\ ended' \subseteq SI!Token
  BY Shapes
<1> QED
  BY <1>1, <1>2, <1>3, <1>4, <1>5, SameValues DEF TypeOK, OriginType

-----------------------------------------------------------------------------
(* Slots and jars.                                                         *)

LEMMA SlotStep ==
    ASSUME Inv, [Next]_vars, NEW q \in Request
    PROVE  SlotInv(q)'
<1> USE DEF SlotInv
<1>a. /\ SlotInv(q)
      /\ given \subseteq given' /\ issued \subseteq issued'
      /\ from \in [Request -> OriginType]
      /\ given \subseteq Device \X issued
  BY Types, Grows DEF Inv
<1>1. CASE Stays(q)
  BY <1>1, <1>a DEF Stays
<1>2. CASE Ends(q)
  BY <1>2 DEF Ends, SI!NoRequest, NoOrigin, Refreshing
<1>3. ASSUME NEW d \in Device, Arrives(q, d)
      PROVE  SlotInv(q)'
  <2>1. /\ d # NoDevice
        /\ jar[d] # NoToken => <<d, jar[d]>> \in given /\ jar[d] \in issued
    BY <1>a, DeliveryAssumption DEF Inv, JarInv, DeliveryAssumption
  <2>2. CASE req'[q].stage = "checked"
    BY <1>3, <2>1, <2>2 DEF Arrives, Origin, Refreshing
  <2>3. CASE req'[q].stage = "verified"
    BY <1>a, <1>3, <2>1, <2>3 DEF Arrives, Origin, Refreshing
  <2>4. CASE req'[q].stage = "authorised"
    <3>1. PICK kind \in Kind \ {"tokens"}, k \in {NoToken, jar[d]} :
              /\ from'[q] = Origin(d, kind, k)
              /\ kind \in {"all", "one"} => k = NoToken
      BY <1>3, <2>4 DEF Arrives
    <3>2. /\ from'[q].device = d /\ from'[q].kind = kind
          /\ from'[q].token = k
      BY <3>1 DEF Origin
    <3>3. k \in issued' \cup {NoToken}
      BY <1>a, <2>1
    <3>4. \E g \in given' : g[1] = d /\ g[2].sub = req'[q].user
      BY <1>a, <1>3, <2>4 DEF Arrives
    <3> QED
      BY <2>1, <2>4, <3>1, <3>2, <3>3, <3>4 DEF Refreshing
  <2> QED
    BY <1>3, <2>2, <2>3, <2>4 DEF Arrives
<1>4. CASE Works(q)
  <2>1. /\ req[q].stage # "idle" /\ req'[q].stage # "idle"
        /\ req'[q].stage # "authorised"
        /\ req'[q].stage \in Refreshing =>
               req[q].stage \in Refreshing /\ req'[q].token = req[q].token
    BY <1>4, Working DEF Works, Refreshing, Keeps
  <2> QED
    BY <1>4, <1>a, <2>1 DEF Works
<1> QED
  BY <1>1, <1>2, <1>3, <1>4, EachSlot DEF SlotMoves

LEMMA JarStep ==
    ASSUME Inv, [Next]_vars, NEW d \in Device
    PROVE  JarInv(d)'
<1>a. JarInv(d) /\ jar \in [Device -> SI!Token \cup {NoToken}]
      /\ until \in [Device -> Nat] /\ clock \in Nat
  BY Types DEF Inv
<1>1. CASE Kept
  BY <1>a, <1>1 DEF Kept, JarInv
<1>2. ASSUME NEW q \in Request, NEW e \in Device, Delivers(q, e), e # d
      PROVE  JarInv(d)'
  <2>1. jar'[d] = jar[d] /\ until'[d] = until[d] /\ given \subseteq given'
    BY <1>a, <1>2 DEF Delivers
  <2> QED
    BY <1>a, <2>1 DEF JarInv
<1>3. ASSUME NEW q \in Request, Delivers(q, d)
      PROVE  JarInv(d)'
  <2>1. /\ jar'[d] = req[q].new /\ <<d, req[q].new>> \in given'
        /\ d \in Web => until'[d] = clock + maxAge
    BY <1>a, <1>3 DEF Delivers
  <2>2. (req[q].new.iat + RefreshTtl) * TicksPerSecond <= clock + maxAge
    <3> DEFINE a == req[q].new.iat * TicksPerSecond
    <3>1. /\ a \in Nat /\ a <= clock /\ req[q].new.iat \in Nat
      BY <1>3, Answer, DeliveryAssumption DEF Delivers, DeliveryAssumption
    <3>2. (req[q].new.iat + RefreshTtl) * TicksPerSecond = a + maxAge
      BY <3>1, SI!TtlProduct, ServiceAssumption
         DEF maxAge, SI!REFRESH_TOKEN_TTL_MS
    <3> HIDE DEF a
    <3> QED
      BY <1>a, <3>1, <3>2, MaxAgeNat
  <2> QED
    BY <2>1, <2>2 DEF JarInv
<1>4. ASSUME NEW e \in Device, Clears(e)
      PROVE  JarInv(d)'
  <2>1. given' = given
        /\ \/ jar'[d] = NoToken
           \/ jar'[d] = jar[d] /\ until'[d] = until[d]
    BY <1>a, <1>4 DEF Clears
  <2> QED
    BY <1>a, <2>1 DEF JarInv
<1> QED
  BY <1>1, <1>2, <1>3, <1>4, Stores

-----------------------------------------------------------------------------
(* One request at a time.                                                  *)

LEMMA MineMoves ==
    ASSUME Inv, [Next]_vars, NEW d \in Device, NEW q \in Request,
           from'[q].device = d
    PROVE  \/ from[q].device = d /\ (Stays(q) \/ Works(q))
           \/ Arrives(q, d)
<1>1. d # NoDevice
  BY DeliveryAssumption DEF DeliveryAssumption
<1>2. ~Ends(q)
  BY <1>1 DEF Ends, NoOrigin
<1> QED
  BY <1>2, EachSlot DEF SlotMoves, Stays, Works, Arrives

\* What goes on at a device whose chain stays known.
LEMMA AtRest ==
    ASSUME Inv, [Next]_vars, NEW d \in Device, NEW q \in Request,
           Arrives(q, d), chain'[d] # 0
    PROVE  ~Busy(d) /\ chain[d] # 0 /\ chain'[d] = chain[d]
           /\ d \notin clearing'
BY DEF Arrives, Busy

LEMMA OneRequestStep ==
    ASSUME Inv, [Next]_vars, NEW d \in Device
    PROVE  OneRequest(d)'
<1> SUFFICES ASSUME chain'[d] # 0
             PROVE  /\ \A r, q \in Request :
                           from'[r].device = d /\ from'[q].device = d => r = q
                    /\ d \in clearing' =>
                           \A r \in Request : from'[r].device # d
  BY DEF OneRequest, Mine
<1>1. CASE \E q \in Request : Arrives(q, d)
  <2>1. PICK q \in Request : Arrives(q, d)
    BY <1>1
  <2>2. \A p \in Request : from[p].device # d
    BY <2>1, AtRest DEF Busy
  <2>3. ~Stays(q)
    BY <2>1, <2>2 DEF Arrives, Stays
  <2>4. \A p \in Request : p # q => from'[p].device # d
    BY <2>2, <2>3, EachSlot DEF Stays
  <2> QED
    BY <2>1, <2>4, AtRest
<1>2. CASE \A q \in Request : ~Arrives(q, d)
  <2>0. \A q \in Request : from'[q].device = d => from[q].device = d
    BY <1>2, MineMoves
  <2>1. CASE chain'[d] = chain[d]
    <3>1. /\ \A r, q \in Request :
                 from[r].device = d /\ from[q].device = d => r = q
          /\ d \in clearing => \A r \in Request : from[r].device # d
      BY <2>1 DEF Inv, OneRequest, Mine
    <3>2. CASE d \in clearing' => d \in clearing
      BY <2>0, <3>1, <3>2
    <3>3. CASE Leaves(d) /\ ~Busy(d)
      BY <2>0, <3>3 DEF Busy
    <3>4. ASSUME NEW q \in Request, Revokes(q, d)
          PROVE  \A r \in Request : from'[r].device # d
      <4>1. from'[q].device # d
        BY <3>4, DeliveryAssumption
           DEF Revokes, Ends, NoOrigin, DeliveryAssumption
      <4>2. \A r \in Request : from[r].device = d => r = q
        BY <3>1, <3>4 DEF Revokes
      <4> QED
        BY <2>0, <4>1, <4>2
    <3>5. CASE \E q \in Request : OpenChain(q) /\ SI!SignInCommit(q)
      BY <2>0, <3>1, <3>5 DEF OpenChain
    <3> QED
      BY <2>0, <3>1, <3>2, <3>3, <3>4, <3>5, SightsKept DEF Sights, Clears
  <2>2. CASE chain'[d] # chain[d]
    <3>1. PICK q \in Request : /\ from[q].device = d
                               /\ OpenChain(q)
                               /\ d \notin clearing
                               /\ \A p \in Request \ {q} : from[p].device # d
      BY <2>2, SightsKept DEF Sights
    <3>2. clearing' = clearing
      BY <3>1 DEF OpenChain
    <3> QED
      BY <2>0, <3>1, <3>2
  <2> QED
    BY <2>1, <2>2
<1> QED
  BY <1>1, <1>2

-----------------------------------------------------------------------------
(* The token that a device holds.                                          *)

\* An answer stays on its way until it is delivered or lost.
LEMMA AnswerGoes ==
    ASSUME Inv, [Next]_vars, NEW q \in Request, req[q].stage = "done"
    PROVE  \/ Stays(q)
           \/ Delivers(q, from[q].device)
           \/ chain'[from[q].device] = 0
<1> DEFINE Goal == \/ Stays(q)
                   \/ Delivers(q, from[q].device)
                   \/ chain'[from[q].device] = 0
<1>0. from[q].device \in Device /\ chain \in [Device -> 0..(nextId - 1)]
  BY Types DEF Inv, SlotInv, OriginType
<1>1. ASSUME NEW r \in Request, Others(r), r # q
      PROVE  Goal
  BY <1>1 DEF Others
<1>2. ASSUME NEW r \in Request, NEW d \in Device, login(r, d) \/ refresh(r, d)
      PROVE  Goal
  BY <1>1, <1>2, OthersStay, ArrivalMoves DEF Arrives
<1>3. ASSUME NEW r \in Request, NEW d \in Device, NEW kind \in Kind \ {"tokens"},
             requestRevocation(r, d, kind)
      PROVE  Goal
  BY <1>1, <1>3, OthersStay, ArrivalMoves DEF Arrives
<1>4. ASSUME NEW r \in Request, Handle(r) \/ OpenChain(r)
      PROVE  Goal
  <2>1. r # q
    BY <1>4, SameSignIn, SameRefresh DEF Handle, OpenChain, SI!SignInSign,
       SI!SignInCommit, SI!SignInConflict, SI!RefreshStep, SI!RefreshUnknown,
       SI!RefreshLookup, SI!RefreshDrop, SI!RefreshSign, SI!RefreshCommit,
       SI!RefreshConflict
  <2> QED
    BY <1>1, <1>4, <2>1, OthersStay
<1>5. ASSUME NEW r \in Request, handleTokenDelivery(r)
      PROVE  Goal
  <2>1. CASE r = q
    <3>1. SI!Respond(q) /\ Ends(q)
      BY <1>5, <2>1, SameRest, HandleMoves DEF handleTokenDelivery
    <3> QED
      BY <1>5, <2>1, <3>1
         DEF handleTokenDelivery, SI!Respond, Store, Delivers
  <2> QED
    BY <1>1, <1>5, <2>1, OthersStay
<1>6. ASSUME NEW r \in Request, Lose(r)
      PROVE  Goal
  <2>1. CASE r = q
    BY <1>0, <1>6, <2>1 DEF Lose
  <2> QED
    BY <1>1, <1>6, <2>1, OthersStay
<1>11. ASSUME NEW r \in Request, Fail(r)
       PROVE  Goal
  <2>1. r # q
    BY <1>11 DEF Fail
  <2> QED
    BY <1>1, <1>11, <2>1, OthersStay
<1>7. ASSUME NEW r \in Request, revokeAllSessions(r)
      PROVE  Goal
  <2>1. r # q
    BY <1>7, SameRest DEF revokeAllSessions, SI!revokeAllSessions,
       SI!revokeOtherSessions
  <2> QED
    BY <1>1, <1>7, <2>1, OthersStay
<1>8. ASSUME NEW r \in Request, NEW id, revokeSessionById(r, id)
      PROVE  Goal
  <2>1. r # q
    BY <1>8, SameRest DEF revokeSessionById, SI!revokeSessionById
  <2> QED
    BY <1>1, <1>8, <2>1, OthersStay
<1>9. ASSUME NEW d \in Device, logout(d) \/ clearCookie(d) \/ LoseClearCookie(d)
      PROVE  Goal
  BY <1>9, SameRest DEF logout, clearCookie, LoseClearCookie, service,
     SI!revokeSession, Stays
<1>10. ASSUME UNCHANGED vars \/ Tick
       PROVE  Goal
  BY <1>10, SameRest DEF vars, Tick, SI!Tick, Stays
<1> QED
  BY <1>2, <1>3, <1>4, <1>5, <1>6, <1>7, <1>8, <1>9, <1>10, <1>11
     DEF Next

\* d stores new tokens in the table.
Commits(q, d) ==
    /\ q \in Request
    /\ from[q].device = d
    /\ SI!SignInCommit(q) \/ SI!RefreshCommit(q)

LEMMA TokensGrow ==
    ASSUME Inv, [Next]_vars, NEW d \in Device, chain'[d] # 0
    PROVE  Tokens(d) \subseteq Tokens(d)'
<1> SUFFICES ASSUME NEW k \in SI!Token, k \in Tokens(d)
             PROVE  \/ <<d, k>> \in given'
                    \/ \E r \in Request : /\ from'[r].device = d
                                          /\ req'[r].stage = "done"
                                          /\ req'[r].new = k
  <2>1. SI!Token' = SI!Token
    BY DEF SI!Token, SI!Second
  <2> QED
    BY <2>1 DEF Tokens, Mine
<1>1. CASE <<d, k>> \in given
  BY <1>1, Grows
<1>2. ASSUME NEW r \in Request, from[r].device = d, req[r].stage = "done",
             req[r].new = k
      PROVE  \/ <<d, k>> \in given'
             \/ \E q \in Request : /\ from'[q].device = d
                                   /\ req'[q].stage = "done"
                                   /\ req'[q].new = k
  BY <1>2, AnswerGoes DEF Stays, Delivers
<1> QED
  BY <1>1, <1>2 DEF Tokens, Mine

\* The chain of d is known before a step too, unless the step opens it.
LEMMA ChainBefore ==
    ASSUME Inv, [Next]_vars, NEW d \in Device, Tracked(d)'
    PROVE  \/ \E q : Commits(q, d) /\ OpenChain(q) /\ SI!SignInCommit(q)
                     /\ chain'[d] = nextId
           \/ Tracked(d) /\ chain'[d] = chain[d]
<1>1. chain'[d] # 0
  BY DEF Tracked
<1>2. CASE chain'[d] = chain[d]
  <2>1. Tokens(d) \subseteq Tokens(d)' /\ given \subseteq given'
    BY <1>1, TokensGrow, Grows
  <2> QED
    BY <1>1, <1>2, <2>1 DEF Tracked
<1>3. CASE chain'[d] # chain[d]
  BY <1>1, <1>3, SightsKept DEF Sights, Commits
<1> QED
  BY <1>2, <1>3

\* A refresh presents a token that only its device was given.
LEMMA OwnRefresh ==
    ASSUME Inv, NEW d \in Device, Tracked(d), NEW q \in Request,
           req[q].stage \in Refreshing, req[q].token \in Tokens(d)
    PROVE  from[q].device = d
<1>1. <<from[q].device, req[q].token>> \in given
  BY DEF Inv, SlotInv
<1> QED
  BY <1>1 DEF Tracked

\* The table keeps the token of d unless d refreshes it.
LEMMA BackedStep ==
    ASSUME Inv, [Next]_vars, NEW d \in Device, Tracked(d),
           NEW k \in Tokens(d), Backed(k), \A q : ~Commits(q, d)
    PROVE  Backed(k)'
<1> SUFFICES ASSUME SI!Unexpired(k, RefreshTtl)', k \notin ended'
             PROVE  SI!Stored(k)'
  BY DEF Backed
<1>1. k \in SI!Token
  BY DEF Tokens
<1>2. SI!Unexpired(k, RefreshTtl) /\ k \notin ended
  BY <1>1, GoodBefore, Grows
<1>3. PICK s \in sessions : s.sessionToken = SI!hashToken(k)
  BY <1>2 DEF Backed, SI!Stored, SI!TokenTaken
<1>4. SI!TokenOf(s) = k
  BY <1>3 DEF SI!TokenOf, SI!hashToken
<1>5. s \in sessions'
  <2> SUFFICES ASSUME s \notin sessions' PROVE FALSE
    OBVIOUS
  <2>1. PICK q \in Request : SI!RefreshCommit(q) /\ req[q].token = k
    BY <1>2, <1>4, RowRemoved
  <2>2. req[q].stage \in Refreshing
    BY <2>1 DEF SI!RefreshCommit, Refreshing
  <2>3. from[q].device = d
    BY <2>1, <2>2, OwnRefresh
  <2> QED
    BY <2>1, <2>3 DEF Commits
<1> QED
  BY <1>3, <1>5 DEF SI!Stored, SI!TokenTaken, SI!hashToken

LEMMA CommitStep ==
    ASSUME Inv, [Next]_vars, NEW d \in Device, NEW q, Commits(q, d)
    PROVE  /\ q \in Request /\ from'[q].device = d
           /\ req'[q].stage = "done" /\ req'[q].new = req[q].new
           /\ req[q].new \in SI!Token
           /\ SI!Stored(req[q].new)'
           /\ chain'[d] # 0 =>
                  /\ \A r \in Request : from'[r].device = d => r = q
                  /\ d \notin clearing'
<1>1. q \in Request /\ from'[q].device = d
  BY CommitWorks DEF Commits, Works
<1>2. /\ req[q].stage \in SI!Signed
      /\ req'[q].stage = "done" /\ req'[q].new = req[q].new
  BY Working DEF Commits, Keeps, SI!Signed
<1>3. req[q].new \in SI!Token
  BY <1>1, <1>2 DEF Inv, SI!Inv, SI!RequestConsistent
<1>4. \E s \in sessions' : s.sessionToken = SI!hashToken(req[q].new)
  <2>1. \A n :
           SI!buildSessionInsertValues(req[q].user, req[q].new, n).sessionToken
           = SI!hashToken(req[q].new)
    BY DEF SI!buildSessionInsertValues
  <2>2. \E n :
           SI!buildSessionInsertValues(req[q].user, req[q].new, n) \in sessions'
    BY DEF Commits, SI!SignInCommit, SI!RefreshCommit
  <2> QED
    BY <2>1, <2>2
<1>5. SI!Stored(req[q].new)'
  BY <1>2, <1>4 DEF SI!Stored, SI!TokenTaken, SI!hashToken
<1>6. OneRequest(d)'
  BY OneRequestStep
<1> QED
  BY <1>1, <1>2, <1>3, <1>5, <1>6 DEF OneRequest, Mine

\* A slot of d that is answered after the step was before, or commits in it.
LEMMA AnswerComes ==
    ASSUME Inv, [Next]_vars, NEW d \in Device, NEW q \in Request,
           from'[q].device = d, req'[q].stage = "done"
    PROVE  \/ from[q].device = d /\ req[q].stage = "done" /\ Stays(q)
           \/ Commits(q, d)
<1>1. CASE Stays(q)
  BY <1>1 DEF Stays
<1>2. CASE Works(q)
  <2>1. from[q].device = d
    BY <1>2 DEF Works
  <2>2. SI!SignInCommit(q) \/ SI!RefreshCommit(q)
    BY <1>2, Working DEF Works
  <2> QED
    BY <2>1, <2>2 DEF Commits
<1>3. ~Arrives(q, d)
  BY DEF Arrives
<1> QED
  BY <1>1, <1>2, <1>3, MineMoves

\* What d stores when no answer reaches it and its cookie is not cleared.
LEMMA JarKept ==
    ASSUME Inv, [Next]_vars, NEW d \in Device,
           \A q \in Request : ~Delivers(q, d), ~Clears(d)
    PROVE  jar'[d] = jar[d] /\ until'[d] = until[d]
<1>1. jar \in [Device -> SI!Token \cup {NoToken}] /\ until \in [Device -> Nat]
  BY Types
<1> QED
  BY <1>1, Stores DEF Kept, Delivers, Clears

LEMMA HeldStep ==
    ASSUME Inv, [Next]_vars, NEW d \in Device
    PROVE  HeldInv(d)'
<1> DEFINE Coming(k) == \E r \in Request : /\ from'[r].device = d
                                           /\ req'[r].stage = "done"
                                           /\ k = req'[r].new
           Held(k) == /\ \A r \in Request :
                             ~(from'[r].device = d /\ req'[r].stage = "done")
                      /\ jar'[d] # NoToken
                      /\ k = jar'[d]
<1>1. ASSUME Tracked(d)', NEW k \in SI!Token, Coming(k) \/ Held(k)
      PROVE  Backed(k)'
  <2>0. chain'[d] # 0
    BY <1>1 DEF Tracked
  <2>1. CASE \E q : Commits(q, d)
    <3>1. PICK q : Commits(q, d)
      BY <2>1
    <3>2. req'[q].new = k
      BY <1>1, <2>0, <3>1, CommitStep
    <3>3. SI!Stored(k)'
      BY <3>1, <3>2, CommitStep DEF SI!Stored, SI!TokenTaken, SI!hashToken
    <3> QED
      BY <3>3 DEF Backed
  <2>2. CASE \A q : ~Commits(q, d)
    <3>0. Tracked(d) /\ HeldInv(d)
      BY <1>1, <2>2, ChainBefore DEF Inv
    <3>1. CASE Coming(k)
      <4>1. PICK r \in Request : /\ from[r].device = d
                                 /\ req[r].stage = "done"
                                 /\ k = req[r].new
        BY <2>2, <3>1, AnswerComes DEF Stays
      <4>2. Backed(k) /\ k \in Tokens(d)
        BY <3>0, <4>1 DEF HeldInv, Answering, Mine, Tokens
      <4> QED
        BY <2>2, <3>0, <4>2, BackedStep
    <3>2. CASE Held(k) /\ \E r \in Request : Delivers(r, d)
      <4>1. PICK r \in Request : Delivers(r, d)
        BY <3>2
      <4>2. k = req[r].new
        BY <3>2, <4>1, Types DEF Delivers
      <4>3. Backed(k) /\ k \in Tokens(d)
        BY <3>0, <4>1, <4>2 DEF HeldInv, Answering, Mine, Tokens, Delivers
      <4> QED
        BY <2>2, <3>0, <4>3, BackedStep
    <3>3. CASE Held(k) /\ \A r \in Request : ~Delivers(r, d)
      <4>1. ~Clears(d)
        BY <3>3, Types DEF Clears
      <4>2. k = jar[d] /\ jar[d] # NoToken
        BY <3>3, <4>1, JarKept
      <4>3. Answering(d) = {}
        BY <2>0, <3>3, AnswerGoes DEF Answering, Mine, Stays
      <4>4. Backed(k) /\ k \in Tokens(d)
        BY <3>0, <4>2, <4>3 DEF HeldInv, Tokens, Inv, JarInv
      <4> QED
        BY <2>2, <3>0, <4>4, BackedStep
    <3> QED
      BY <1>1, <3>1, <3>2, <3>3
  <2> QED
    BY <2>1, <2>2
<1>2. SUFFICES ASSUME Tracked(d)'
               PROVE  /\ \A r \in Answering(d)' : Backed(req[r].new)'
                      /\ Answering(d)' = {} /\ jar'[d] # NoToken
                         => Backed(jar[d])'
  BY DEF HeldInv
<1>3. ASSUME NEW r \in Request, from'[r].device = d, req'[r].stage = "done"
      PROVE  Backed(req[r].new)'
  <2>1. req'[r].new \in SI!Token
    BY <1>3, AnswerComes, CommitStep, Answer DEF Stays
  <2>2. PICK k \in SI!Token : k = req'[r].new
    BY <2>1
  <2>3. Backed(k)'
    BY <1>1, <1>2, <1>3, <2>2
  <2> QED
    BY <2>2, <2>3
       DEF Backed, SI!Unexpired, SI!Stored, SI!TokenTaken, SI!hashToken
<1>4. ASSUME Answering(d)' = {}, jar'[d] # NoToken
      PROVE  Backed(jar[d])'
  <2>1. jar'[d] \in SI!Token
    BY <1>4, TypeStep, SameValues DEF TypeOK
  <2>2. PICK k \in SI!Token : k = jar'[d]
    BY <2>1
  <2>3. \A r \in Request : ~(from'[r].device = d /\ req'[r].stage = "done")
    BY <1>4 DEF Answering, Mine
  <2>4. Backed(k)'
    BY <1>1, <1>2, <1>4, <2>2, <2>3
  <2> QED
    BY <2>2, <2>4
       DEF Backed, SI!Unexpired, SI!Stored, SI!TokenTaken, SI!hashToken
<1> QED
  BY <1>3, <1>4 DEF Answering, Mine

-----------------------------------------------------------------------------
(* What is left of a sign-in.                                              *)

\* A token whose cookie has expired has expired.
LEMMA CookieExpires ==
    ASSUME Inv, NEW d \in Device, jar[d] # NoToken,
           extractRefreshToken(d) = NoToken
    PROVE  ~SI!Unexpired(jar[d], RefreshTtl)
<1> DEFINE n == jar[d].iat + RefreshTtl
<1>1. /\ d \in Web /\ clock >= until[d]
      /\ clock \in Nat /\ until[d] \in Nat /\ jar[d] \in SI!Token
  BY Types DEF extractRefreshToken
<1>2. n * TicksPerSecond <= until[d]
  BY <1>1 DEF Inv, JarInv
<1>3. n \in Nat
  BY <1>1, SI!SecondBounds, ServiceAssumption, DeliveryAssumption
     DEF SI!Token, DeliveryAssumption
<1> HIDE DEF n
<1>4. /\ SI!Second(clock) \in Nat
      /\ clock < (SI!Second(clock) + 1) * TicksPerSecond
  BY <1>1, SI!SecondBounds, ServiceAssumption
<1>5. ASSUME SI!Second(clock) + 1 <= n
      PROVE  FALSE
  <2> DEFINE a == (SI!Second(clock) + 1) * TicksPerSecond
             b == n * TicksPerSecond
  <2>1. a <= b
    BY <1>3, <1>4, <1>5, SI!ProductMonotone, ServiceAssumption
  <2>2. a \in Nat /\ b \in Nat
    BY <1>3, <1>4, DeliveryAssumption DEF DeliveryAssumption
  <2>3. clock < a /\ b <= until[d]
    BY <1>2, <1>4
  <2> HIDE DEF a, b
  <2> QED
    BY <1>1, <2>1, <2>2, <2>3
<1>6. ~(SI!Second(clock) < n)
  BY <1>3, <1>4, <1>5
<1> QED
  BY <1>6 DEF SI!Unexpired, n

\* A step that opens a chain for d.
LEMMA Opening ==
    ASSUME Inv, [Next]_vars, NEW d \in Device, NEW q \in Request,
           Commits(q, d), SI!SignInCommit(q), chain'[d] = nextId
    PROVE  ChainOwned(d)' /\ ChainLatest(d)' /\ ChainRefreshed(d)'
<1>1. nextId \in Nat \ {0} /\ chain'[d] # 0
  BY Types
<1>2. /\ from'[q].device = d
      /\ req'[q].stage = "done" /\ req'[q].new = req[q].new
      /\ req[q].new \in SI!Token
      /\ \A r \in Request : from'[r].device = d => r = q
      /\ d \notin clearing'
  BY <1>1, CommitStep
<1>3. ASSUME NEW s \in sessions', s.login = nextId
      PROVE  SI!TokenOf(s) = req[q].new
  <2>1. s \notin sessions
    BY <1>1, <1>3, TokensTyped
  <2>2. s = SI!buildSessionInsertValues(req[q].user, req[q].new, nextId)
    BY <2>1 DEF SI!SignInCommit
  <2> QED
    BY <2>2 DEF SI!buildSessionInsertValues, SI!TokenOf, SI!hashToken
<1>4. req[q].new \in Tokens(d)'
  <2>1. SI!Token' = SI!Token
    BY DEF SI!Token, SI!Second
  <2> QED
    BY <1>2, <2>1 DEF Tokens, Mine
<1>5. ASSUME NEW p \in Request, SI!Renewing(p)', req'[p].login = nextId
      PROVE  FALSE
  <2>1. req[p].login < nextId /\ req[p].login \in Nat
    BY Types DEF Inv, SI!Keyed, SI!LoginIds, SI!RequestState
  <2>2. p # q
    BY <1>2, <1>5 DEF SI!Renewing
  <2>3. req'[p] = req[p]
    BY <2>2, Types DEF SI!SignInCommit
  <2> QED
    BY <1>1, <1>5, <2>1, <2>3
<1>6. ChainOwned(d)'
  BY <1>3, <1>4, <1>5 DEF ChainOwned, SI!Renewing, SI!TokenOf
<1>7. ChainLatest(d)'
  BY <1>2, <1>3 DEF ChainLatest, Answering, Mine, Live, SI!TokenOf
<1>8. ChainRefreshed(d)'
  BY <1>2 DEF ChainRefreshed, Mine, Refreshing, SI!Renewing
<1> QED
  BY <1>6, <1>7, <1>8

\* d goes on with the chain that it has.
Continues(d) ==
    /\ chain'[d] = chain[d]
    /\ Tracked(d) /\ OneUser(d)
    /\ ChainOwned(d) /\ ChainLatest(d) /\ ChainRefreshed(d)

LEMMA Continuing ==
    ASSUME Inv, [Next]_vars, NEW d \in Device, Tracked(d)', OneUser(d)'
    PROVE  \/ Continues(d)
           \/ \E q \in Request : /\ Commits(q, d) /\ SI!SignInCommit(q)
                                 /\ chain'[d] = nextId
<1>1. OneUser(d)
  BY Grows DEF OneUser
<1>2. CASE Tracked(d) /\ chain'[d] = chain[d]
  BY <1>1, <1>2 DEF Inv, LeftInv, Continues
<1> QED
  BY <1>2, ChainBefore DEF Commits

\* The chain that d goes on with grows only by its own refresh.
LEMMA ChainRows ==
    ASSUME Inv, [Next]_vars, NEW d \in Device, Continues(d),
           NEW s \in sessions', s.login = chain'[d]
    PROVE  \/ s \in sessions /\ s.login = chain[d]
           \/ \E q \in Request : /\ Commits(q, d)
                                 /\ SI!TokenOf(s) = req[q].new
<1>0. s.login = chain[d] /\ chain[d] \in 0..(nextId - 1) /\ nextId \in Nat
  BY Types DEF Continues
<1>1. CASE s \notin sessions
  <2>1. PICK q \in Request :
            /\ SI!TokenOf(s) = req[q].new
            /\ \/ SI!SignInCommit(q) /\ s.login = nextId
               \/ SI!RefreshCommit(q) /\ s.login = req[q].login
    BY <1>1, RowAdded
  <2>2. SI!RefreshCommit(q) /\ req[q].login = chain[d]
    BY <1>0, <2>1
  <2>3. q \in Mine(d)
    BY <2>2 DEF Continues, ChainOwned, SI!Renewing, SI!RefreshCommit
  <2> QED
    BY <2>1, <2>2, <2>3 DEF Commits, Mine
<1> QED
  BY <1>0, <1>1

\* Its valid rows were there and valid, unless d commits a refresh.
LEMMA LiveRows ==
    ASSUME Inv, [Next]_vars, NEW d \in Device, Continues(d),
           NEW s \in sessions', s.login = chain'[d],
           SI!Unexpired(SI!TokenOf(s), RefreshTtl)'
    PROVE  \/ s \in Live(d)
           \/ \E q \in Request : /\ Commits(q, d)
                                 /\ SI!TokenOf(s) = req[q].new
<1>1. CASE s \in sessions /\ s.login = chain[d]
  <2>1. SI!TokenOf(s) \in SI!Token
    BY <1>1, TokensTyped
  <2>2. PICK k \in SI!Token : k = SI!TokenOf(s)
    BY <2>1
  <2>3. SI!Unexpired(k, RefreshTtl)'
    BY <2>2 DEF SI!Unexpired, SI!TokenOf
  <2>4. SI!Unexpired(k, RefreshTtl)
    BY <2>3, GoodBefore
  <2> QED
    BY <1>1, <2>2, <2>4 DEF Live
<1> QED
  BY <1>1, ChainRows

LEMMA OwnedStep ==
    ASSUME Inv, [Next]_vars, NEW d \in Device, Continues(d)
    PROVE  ChainOwned(d)'
<1>0. chain'[d] = chain[d] /\ chain'[d] # 0 /\ Tracked(d)
  BY DEF Continues, Tracked
<1>1. ASSUME NEW s \in sessions', s.login = chain'[d]
      PROVE  SI!TokenOf(s) \in Tokens(d)'
  <2>1. CASE s \in sessions /\ s.login = chain[d]
    <3>1. SI!TokenOf(s) \in Tokens(d)
      BY <2>1 DEF Continues, ChainOwned
    <3> QED
      BY <1>0, <3>1, TokensGrow
  <2>2. ASSUME NEW q \in Request, Commits(q, d), SI!TokenOf(s) = req[q].new
        PROVE  SI!TokenOf(s) \in Tokens(d)'
    <3>1. SI!Token' = SI!Token
      BY DEF SI!Token, SI!Second
    <3> QED
      BY <2>2, <3>1, CommitStep DEF Tokens, Mine
  <2> QED
    BY <1>1, <2>1, <2>2, ChainRows
<1>2. ASSUME NEW q \in Request, SI!Renewing(q)', req'[q].login = chain'[d]
      PROVE  from'[q].device = d
  <2>1. CASE Stays(q)
    BY <1>0, <1>2, <2>1
       DEF Stays, SI!Renewing, Continues, ChainOwned, Mine
  <2>2. CASE Works(q)
    <3>1. CASE SI!RefreshSign(q)
      <4>1. SI!Renewing(q) /\ req[q].login = chain[d]
        BY <1>0, <1>2, <3>1, Working DEF SI!Renewing, Keeps
      <4> QED
        BY <2>2, <4>1 DEF Works, Continues, ChainOwned, Mine
    <3>2. ASSUME NEW s \in sessions, SI!RefreshLookup(q, s)
          PROVE  from'[q].device = d
      <4>1. /\ s.login = chain[d] /\ SI!TokenOf(s) = req[q].token
            /\ req[q].stage \in Refreshing
        BY <1>0, <1>2, <3>2, Working DEF Refreshing
      <4>2. req[q].token \in Tokens(d)
        BY <4>1 DEF Continues, ChainOwned
      <4> QED
        BY <1>0, <2>2, <4>1, <4>2, OwnRefresh DEF Works
    <3> QED
      BY <1>2, <2>2, <3>1, <3>2, Working DEF Works, SI!Renewing
  <2>3. req'[q].stage \in {"found", "refreshSigned"}
    BY <1>2 DEF SI!Renewing
  <2> QED
    BY <2>1, <2>2, <2>3, EachSlot DEF SlotMoves, Ends, SI!NoRequest, Arrives
<1> QED
  BY <1>1, <1>2 DEF ChainOwned, Mine, SI!Renewing, SI!TokenOf

\* No row survives the answer that clears the cookie of d.
LEMMA ClearedStep ==
    ASSUME Inv, [Next]_vars, NEW d \in Device, Continues(d), d \in clearing',
           NEW s \in sessions', s.login = chain'[d],
           SI!Unexpired(SI!TokenOf(s), RefreshTtl)'
    PROVE  FALSE
<1>0. chain'[d] = chain[d] /\ chain'[d] # 0 /\ Tracked(d) /\ OneUser(d)
  BY DEF Continues, Tracked
<1>1. s \in Live(d)
  BY <1>0, LiveRows, CommitStep
<1>2. /\ s \in sessions /\ SI!TokenOf(s) \in SI!Token
      /\ s.sessionToken = SI!hashToken(SI!TokenOf(s))
      /\ SI!TokenOf(s).sub = s.userId
      /\ SI!TokenOf(s) \in Tokens(d)
      /\ SI!Unexpired(SI!TokenOf(s), RefreshTtl)
  BY <1>1, TokensTyped DEF Live, Continues, ChainOwned
<1>3. d \notin clearing
  BY <1>1 DEF Continues, ChainLatest
<1>4. ASSUME Leaves(d), ~Busy(d)
      PROVE  FALSE
  <2>1. Answering(d) = {}
    BY <1>4 DEF Busy, Answering, Mine
  <2>2. SI!TokenOf(s) = jar[d]
    BY <1>1, <1>3, <2>1 DEF Continues, ChainLatest
  <2>3. jar[d] # NoToken
    BY <1>2, <2>2, NoTokenApart
  <2>4. extractRefreshToken(d) = jar[d]
    BY <1>2, <2>2, <2>3, CookieExpires DEF extractRefreshToken
  <2>5. SI!revokeSession(SI!TokenOf(s))
    BY <1>4, <2>2, <2>3, <2>4 DEF Leaves
  <2> QED
    BY <1>2, <2>5 DEF SI!revokeSession
<1>5. ASSUME NEW q \in Request, Revokes(q, d)
      PROVE  FALSE
  <2>1. req[q].stage = "authorised" /\ s.userId # req[q].user
    BY <1>2, <1>5 DEF Revokes, SI!revokeAllSessions
  <2>2. from[q].device = d
    BY <1>5 DEF Revokes
  <2>3. \A r \in Request : from[r].device = d => r = q
    BY <1>0, <2>2 DEF Inv, OneRequest, Mine
  <2>4. <<d, SI!TokenOf(s)>> \in given
    BY <1>2, <2>1, <2>3 DEF Tokens, Mine
  <2>5. PICK g \in given : g[1] = d /\ g[2].sub = req[q].user
    BY <2>1, <2>2 DEF Inv, SlotInv
  <2>6. SI!TokenOf(s).sub = req[q].user
    BY <1>0, <2>4, <2>5 DEF OneUser
  <2> QED
    BY <1>2, <2>1, <2>6
<1>6. chain'[d] # nextId
  BY <1>0, Types
<1> QED
  BY <1>0, <1>3, <1>4, <1>5, <1>6, SightsKept DEF Sights, Clears

LEMMA LatestStep ==
    ASSUME Inv, [Next]_vars, NEW d \in Device, Continues(d)
    PROVE  ChainLatest(d)'
<1>0. chain'[d] = chain[d] /\ chain'[d] # 0 /\ Tracked(d)
  BY DEF Continues, Tracked
<1>1. ASSUME d \notin clearing',
             NEW s \in sessions', s.login = chain'[d],
             SI!Unexpired(SI!TokenOf(s), RefreshTtl)',
             NEW r \in Request, from'[r].device = d, req'[r].stage = "done"
      PROVE  SI!TokenOf(s) = req'[r].new
  <2>1. CASE Commits(r, d)
    <3>1. \A q : Commits(q, d) => q = r
      BY <1>0, <1>1, CommitStep
    <3>2. req'[r].new = req[r].new
      BY <2>1, CommitStep
    <3>3. CASE s \in Live(d)
      <4>1. SI!RefreshCommit(r)
        <5>1. chain'[d] # nextId
          BY <1>0, Types
        <5>2. ~SI!SignInCommit(r)
          BY <1>0, <2>1, <5>1, CommitWorks, Types DEF OpenChain, Commits
        <5> QED
          BY <2>1, <5>2 DEF Commits
      <4>2. s.id = req[r].id
        BY <2>1, <3>3, <4>1 DEF Continues, ChainRefreshed, Commits, Mine,
           SI!Renewing, SI!RefreshCommit
      <4>3. s = SI!buildSessionInsertValues(req[r].user, req[r].new, req[r].login)
        BY <4>1, <4>2 DEF SI!RefreshCommit, SI!OthersThan
      <4> QED
        BY <3>2, <4>3
           DEF SI!buildSessionInsertValues, SI!TokenOf, SI!hashToken
    <3> QED
      BY <1>1, <3>1, <3>2, <3>3, LiveRows
  <2>2. CASE from[r].device = d /\ req[r].stage = "done" /\ Stays(r)
    <3>1. \A q : ~Commits(q, d)
      <4> SUFFICES ASSUME NEW q, Commits(q, d) PROVE FALSE
        OBVIOUS
      <4>1. q = r
        BY <1>0, <1>1, CommitStep
      <4> QED
        BY <2>2, <4>1, Working DEF Commits
    <3>2. s \in Live(d)
      BY <1>1, <3>1, LiveRows
    <3>3. d \notin clearing
      BY <1>0, <2>2 DEF Inv, OneRequest, Mine
    <3> QED
      BY <2>2, <3>2, <3>3
         DEF Continues, ChainLatest, Answering, Mine, Stays
  <2> QED
    BY <1>1, <2>1, <2>2, AnswerComes
<1>2. ASSUME d \notin clearing',
             NEW s \in sessions', s.login = chain'[d],
             SI!Unexpired(SI!TokenOf(s), RefreshTtl)',
             \A r \in Request : ~(from'[r].device = d /\ req'[r].stage = "done")
      PROVE  SI!TokenOf(s) = jar'[d]
  <2>1. \A q : ~Commits(q, d)
    BY <1>2, CommitStep
  <2>2. s \in Live(d)
    BY <1>2, <2>1, LiveRows
  <2>3. d \notin clearing
    BY <2>2 DEF Continues, ChainLatest
  <2>4. ASSUME NEW r \in Request, Delivers(r, d)
        PROVE  SI!TokenOf(s) = jar'[d]
    <3>1. jar'[d] = req[r].new
      BY <2>4, Types DEF Delivers
    <3> QED
      BY <2>2, <2>3, <2>4, <3>1
         DEF Continues, ChainLatest, Answering, Mine, Delivers
  <2>5. CASE \A r \in Request : ~Delivers(r, d)
    <3>1. jar'[d] = jar[d]
      BY <2>3, <2>5, JarKept DEF Clears
    <3>2. Answering(d) = {}
      BY <1>0, <1>2, <2>5, AnswerGoes DEF Answering, Mine, Stays
    <3> QED
      BY <2>2, <2>3, <3>1, <3>2 DEF Continues, ChainLatest
  <2> QED
    BY <2>4, <2>5
<1>3. d \in clearing' => Live(d)' = {}
  BY ClearedStep DEF Live, SI!TokenOf
<1> QED
  BY <1>1, <1>2, <1>3 DEF ChainLatest, Answering, Mine, Live, SI!TokenOf

LEMMA RefreshedStep ==
    ASSUME Inv, [Next]_vars, NEW d \in Device, Continues(d)
    PROVE  ChainRefreshed(d)'
<1>0. chain'[d] = chain[d] /\ chain'[d] # 0 /\ Tracked(d)
  BY DEF Continues, Tracked
<1>1. ASSUME NEW r \in Request, from[r].device = d, Stays(r) \/ Works(r),
             req'[r].stage \in Refreshing
      PROVE  /\ req[r].stage \in Refreshing
             /\ req'[r].token = req[r].token
             /\ jar'[d] = jar[d]
             /\ d \notin clearing
             /\ Answering(d) = {}
  <2>1. req[r].stage \in Refreshing /\ req'[r].token = req[r].token
    BY <1>1, Working DEF Stays, Works, Refreshing, Keeps
  <2>2. /\ \A q \in Request : from[q].device = d => q = r
        /\ d \notin clearing
    BY <1>0, <1>1 DEF Inv, OneRequest, Mine
  <2>3. Answering(d) = {}
    BY <2>1, <2>2 DEF Answering, Mine, Refreshing
  <2>4. jar'[d] = jar[d]
    BY <2>2, <2>3, JarKept DEF Delivers, Clears, Answering, Mine
  <2> QED
    BY <2>1, <2>2, <2>3, <2>4
<1>2. ASSUME NEW r \in Request, from'[r].device = d, req'[r].stage \in Refreshing
      PROVE  req'[r].token = jar'[d]
  <2>1. CASE Arrives(r, d)
    BY <1>2, <2>1 DEF Arrives, Refreshing
  <2>2. CASE from[r].device = d /\ (Stays(r) \/ Works(r))
    BY <1>1, <1>2, <2>2 DEF Continues, ChainRefreshed, Mine
  <2> QED
    BY <1>2, <2>1, <2>2, MineMoves
<1>3. ASSUME NEW r \in Request, from'[r].device = d, SI!Renewing(r)',
             NEW s \in sessions', s.login = chain'[d],
             SI!Unexpired(SI!TokenOf(s), RefreshTtl)'
      PROVE  s.id = req'[r].id
  <2>1. req'[r].stage \in {"found", "refreshSigned"}
    BY <1>3 DEF SI!Renewing
  <2>2. from[r].device = d /\ (Stays(r) \/ Works(r))
    BY <1>3, <2>1, MineMoves DEF Arrives
  <2>3. s \in Live(d)
    <3>1. \A q : ~Commits(q, d)
      BY <1>0, <1>3, <2>1, CommitStep
    <3> QED
      BY <1>3, <3>1, LiveRows
  <2>4. /\ req[r].stage \in Refreshing /\ d \notin clearing
        /\ Answering(d) = {}
    BY <1>1, <2>1, <2>2 DEF Refreshing
  <2>5. CASE Stays(r) \/ SI!RefreshSign(r)
    <3>1. SI!Renewing(r) /\ req'[r].id = req[r].id
      BY <2>1, <2>5, Working DEF Stays, SI!Renewing, Keeps
    <3> QED
      BY <2>2, <2>3, <3>1 DEF Continues, ChainRefreshed, Mine
  <2>6. ASSUME NEW t \in sessions, SI!RefreshLookup(r, t)
        PROVE  s.id = req'[r].id
    <3>1. req'[r].id = t.id /\ SI!TokenOf(t) = req[r].token
      BY <2>6, Working
    <3>2. req[r].token = jar[d] /\ SI!TokenOf(s) = jar[d]
      BY <2>2, <2>3, <2>4
         DEF Continues, ChainRefreshed, ChainLatest, Mine
    <3>3. s \in sessions /\ s.sessionToken = t.sessionToken
      BY <2>3, <3>1, <3>2, TokensTyped DEF Live
    <3>4. s = t
      BY <3>3 DEF Inv, SI!Keyed, SI!UniqueTokens
    <3> QED
      BY <3>1, <3>4
  <2> QED
    BY <2>1, <2>2, <2>5, <2>6, Working DEF Works
<1> QED
  BY <1>2, <1>3 DEF ChainRefreshed, Mine, Live, SI!TokenOf

LEMMA LeftStep ==
    ASSUME Inv, [Next]_vars, NEW d \in Device
    PROVE  LeftInv(d)'
<1>1. ASSUME Tracked(d)', OneUser(d)'
      PROVE  ChainOwned(d)' /\ ChainLatest(d)' /\ ChainRefreshed(d)'
  BY <1>1, Continuing, Opening, OwnedStep, LatestStep, RefreshedStep
<1> QED
  BY <1>1 DEF LeftInv

-----------------------------------------------------------------------------
(* The theorems.                                                           *)

LEMMA InvInit == Init => Inv
<1> SUFFICES ASSUME Init PROVE Inv
  OBVIOUS
<1>1. SI!Init
  BY SameValues DEF Init
<1>2. SI!Inv /\ SI!Keyed
  BY <1>1, SI!InvInit, SI!KeyedInit, ServiceAssumption
<1>3. /\ sessions = {} /\ issued = {} /\ given = {} /\ nextId = 1
      /\ from = [r \in Request |-> NoOrigin]
      /\ jar = [d \in Device |-> NoToken]
      /\ until = [d \in Device |-> 0]
      /\ clearing = {} /\ ended = {}
      /\ chain = [d \in Device |-> 0]
      /\ req = [r \in Request |-> SI!NoRequest]
  BY <1>1 DEF Init, SI!Init
<1>4. TypeOK
  <2>1. S!TypeOK
    BY <1>2, SameValues DEF SI!Inv
  <2>2. NoOrigin \in [device: Device \cup {NoDevice}, kind: Kind,
                      token: S!Token \cup {NoToken}]
    BY DEF NoOrigin, Kind
  <2> QED
    BY <1>3, <2>1, <2>2 DEF TypeOK
<1>5. \A r \in Request : SlotInv(r)
  BY <1>3 DEF SlotInv, NoOrigin, SI!NoRequest, Refreshing
<1>6. \A d \in Device : JarInv(d) /\ OneRequest(d) /\ HeldInv(d) /\ LeftInv(d)
  BY <1>3 DEF JarInv, OneRequest, HeldInv, LeftInv, Tracked
<1> QED
  BY <1>2, <1>4, <1>5, <1>6 DEF Inv

LEMMA InvStep == Inv /\ [Next]_vars => Inv'
<1> SUFFICES ASSUME Inv, [Next]_vars PROVE Inv'
  OBVIOUS
<1>1. TypeOK' /\ SI!Inv' /\ SI!Keyed'
  BY TypeStep, ServiceInv
<1>2. \A r \in Request : SlotInv(r)'
  BY SlotStep
<1>3. \A d \in Device :
          JarInv(d)' /\ OneRequest(d)' /\ HeldInv(d)' /\ LeftInv(d)'
  BY JarStep, OneRequestStep, HeldStep, LeftStep
<1> QED
  BY <1>1, <1>2, <1>3 DEF Inv

\* The invariant holds in every reachable state.
THEOREM Invariance == Spec => []Inv
BY InvInit, InvStep, PTL DEF Spec

\* Every variable keeps its type; what a device was given was issued.
THEOREM TypeCorrect == Spec => []TypeOK
<1>1. Inv => TypeOK
  BY DEF Inv
<1> QED
  BY <1>1, Invariance, PTL

\* The devices make of the session service what AuthSessions allows: they
\* present only tokens that an answer brought (auth.controller.ts:60-103,
\* 153-221), so that all that is proved of sessions holds here.
THEOREM Refinement == Spec => ImplementsSessions
<1>1. Init => S!Init
  BY DEF Init
<1>2. Inv /\ [Next]_vars => [S!Next]_(S!vars)
  <2>1. ASSUME Inv, [Next]_vars
        PROVE  [SI!Next]_(SI!vars)
    BY <2>1, ServiceStep
  <2>2. [SI!Next]_(SI!vars) => [S!Next]_(S!vars)
    BY SameNext DEF SI!vars, S!vars
  <2> QED
    BY <2>1, <2>2
<1> QED
  BY <1>1, <1>2, Invariance, PTL DEF Spec, ImplementsSessions, S!Spec

\* At rest, the tokens of a device are those it was given.
LEMMA SettledTracked ==
    ASSUME NEW d \in Device, Settled(d)
    PROVE  /\ Tracked(d) /\ d \notin clearing
           /\ Answering(d) = {}
<1>1. d \notin clearing /\ \A r \in Request : from[r].device # d
  BY DEF Settled, Busy
<1>2. Answering(d) = {}
  BY <1>1 DEF Answering, Mine
<1>3. \A g \in given : g[2] \in Tokens(d) => g[1] = d
  BY <1>1 DEF Settled, OwnTokens, Tokens, Mine
<1> QED
  BY <1>1, <1>2, <1>3 DEF Settled, Tracked

\* A device at rest holds a token that the table holds, unless it expired or
\* was revoked (auth.controller.ts:60-79, 180-185, 205-221).
THEOREM HoldsLive == Spec => []HoldsLiveToken
<1>1. Inv => HoldsLiveToken
  <2> SUFFICES ASSUME Inv, NEW d \in Device, Settled(d),
                      extractRefreshToken(d) # NoToken,
                      S!Unexpired(extractRefreshToken(d), RefreshTtl)
               PROVE  \/ S!Stored(extractRefreshToken(d))
                      \/ extractRefreshToken(d) \in ended
    BY DEF HoldsLiveToken
  <2>1. extractRefreshToken(d) = jar[d] /\ jar[d] # NoToken
    BY Presented
  <2>2. Backed(jar[d])
    BY <2>1, SettledTracked DEF Inv, HeldInv
  <2> QED
    BY <2>1, <2>2, SameValues DEF Backed
<1> QED
  BY <1>1, Invariance, PTL

\* No valid session of its last sign-in stays behind at a device at rest that
\* only one user signed in on (auth.controller.ts:81-103, 187-193, 208-214).
THEOREM NothingLeft == Spec => []NothingLeftBehind
<1>1. Inv => NothingLeftBehind
  <2> SUFFICES ASSUME Inv, NEW d \in Device, NEW s \in sessions,
                      Settled(d), OneUser(d), s.login = chain[d],
                      S!Unexpired(S!TokenOf(s), RefreshTtl)
               PROVE  S!TokenOf(s) = extractRefreshToken(d)
    BY DEF NothingLeftBehind
  <2>1. s \in Live(d) /\ SI!TokenOf(s) = S!TokenOf(s)
    BY SameValues DEF Live
  <2>2. SI!TokenOf(s) = jar[d]
    BY <2>1, SettledTracked DEF Inv, LeftInv, ChainLatest
  <2>3. jar[d] # NoToken
    BY <2>2, TokensTyped, NoTokenApart
  <2>4. extractRefreshToken(d) = jar[d]
    BY <2>1, <2>2, <2>3, CookieExpires DEF Live, extractRefreshToken
  <2> QED
    BY <2>1, <2>2, <2>4
<1> QED
  BY <1>1, Invariance, PTL

================================================================================
