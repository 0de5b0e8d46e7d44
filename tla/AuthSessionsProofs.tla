-------------------------- MODULE AuthSessionsProofs --------------------------
(***************************************************************************)
(* Proofs about AuthSessions, for any users, request slots, lifetimes and  *)
(* bounds.  Inv of AuthSessions is inductive; the invariants follow from   *)
(* it at once, the action properties and the refinement with one more look *)
(* at each action.                                                         *)
(***************************************************************************)
EXTENDS AuthSessions, TLAPS

-----------------------------------------------------------------------------
(* Seconds and ticks.                                                      *)

LEMMA SecondBounds ==
    ASSUME NEW t \in Nat
    PROVE  /\ Second(t) \in Nat
           /\ Second(t) * TicksPerSecond <= t
           /\ t < (Second(t) + 1) * TicksPerSecond
BY ConstantsAssumption, SMTT(30) DEF Second

LEMMA SecondMonotone ==
    ASSUME NEW s \in Nat, NEW t \in Nat, s <= t
    PROVE  Second(s) <= Second(t)
BY ConstantsAssumption, SMTT(30) DEF Second

LEMMA TtlProduct ==
    ASSUME NEW i \in Nat
    PROVE  (i + RefreshTtl) * TicksPerSecond
           = i * TicksPerSecond + REFRESH_TOKEN_TTL_MS
BY ConstantsAssumption, SMTT(30) DEF REFRESH_TOKEN_TTL_MS

\* A token signed now carries the current second and its user.
LEMMA TokenSigned ==
    ASSUME NEW u \in User, clock \in 0..MaxClock
    PROVE  /\ generateTokens(u) \in Token
           /\ generateTokens(u).sub = u
           /\ generateTokens(u).iat = Second(clock)
BY ConstantsAssumption, SecondBounds, SecondMonotone DEF generateTokens, Token

\* The product of two naturals is monotone in its first argument.
LEMMA ProductMonotone ==
    ASSUME NEW i \in Nat, NEW j \in Nat, i <= j
    PROVE  i * TicksPerSecond <= j * TicksPerSecond
BY ConstantsAssumption, SMTT(30)

-----------------------------------------------------------------------------
(* What a step does to the table.                                          *)

\* Request r stores its signed token in a row of its own, some rows go.
Inserts(r, login) ==
    /\ req[r].stage \in {"loginSigned", "refreshSigned"}
    /\ sessions' \subseteq sessions \cup
           {buildSessionInsertValues(req[r].user, req[r].new, login)}
    /\ nextId' = nextId + 1
    /\ clock' = clock
    /\ login \in Nat

\* Rows may go, none comes.
Shrinks ==
    /\ sessions' \subseteq sessions
    /\ nextId' = nextId

LEMMA TableStep ==
    ASSUME TypeOK, [Next]_vars
    PROVE  Shrinks \/ \E r \in Request, login \in Nat : Inserts(r, login)
<1>1. CASE UNCHANGED vars
  BY <1>1 DEF vars, Shrinks
<1>2. CASE Tick
  BY <1>2 DEF Tick, Shrinks
<1>3. ASSUME NEW r \in Request, SignInCommit(r)
      PROVE  Inserts(r, nextId) /\ nextId \in Nat
  BY <1>3 DEF SignInCommit, Inserts, TypeOK
<1>4. ASSUME NEW r \in Request, RefreshCommit(r)
      PROVE  Inserts(r, req[r].login) /\ req[r].login \in Nat
  BY <1>4 DEF RefreshCommit, OthersThan, Inserts, TypeOK, RequestState
<1>5. ASSUME NEW r \in Request, SignInStep(r), ~SignInCommit(r)
      PROVE  Shrinks
  BY <1>5 DEF SignInStep, SignInSign, SignInConflict, Shrinks
<1>6. ASSUME NEW r \in Request, RefreshStep(r), ~RefreshCommit(r)
      PROVE  Shrinks
  BY <1>6 DEF RefreshStep, RefreshUnknown, RefreshLookup, RefreshDrop,
              RefreshSign, RefreshConflict, Shrinks
<1>7. ASSUME NEW r \in Request, RevokeStep(r)
      PROVE  Shrinks
  BY <1>7 DEF RevokeStep, revokeSessionById, revokeAllSessions,
              revokeOtherSessions, Shrinks
<1>8. ASSUME NEW r \in Request, Arrive(r) \/ Respond(r) \/ Abort(r)
      PROVE  Shrinks
  BY <1>8 DEF Arrive, SignInLookup, Authorise, verifyRefreshToken, Respond,
              Abort, Shrinks
<1>9. ASSUME NEW k \in issued, revokeSession(k)
      PROVE  Shrinks
  BY <1>9 DEF revokeSession, Shrinks
<1> QED
  BY <1>1, <1>2, <1>3, <1>4, <1>5, <1>6, <1>7, <1>8, <1>9 DEF Next, Progress

-----------------------------------------------------------------------------
(* Types.                                                                  *)

LEMMA RowTyped ==
    ASSUME TypeOK, NEW r \in Request, NEW login \in Nat,
           RequestConsistent(r), req[r].stage \in Signed
    PROVE  buildSessionInsertValues(req[r].user, req[r].new, login) \in Row
BY ConstantsAssumption
   DEF TypeOK, RequestConsistent, Row, buildSessionInsertValues, hashToken,
       REFRESH_TOKEN_TTL_MS

\* What happens to the request slots.
LEMMA RequestsTyped ==
    ASSUME Inv, [Next]_vars
    PROVE  req' \in [Request -> RequestState] /\ issued' \subseteq Token
<1> USE DEF Inv, TypeOK, RequestState, NoRequest, Stage
<1>1. CASE UNCHANGED vars \/ Tick
  BY <1>1 DEF vars, Tick
<1>2. ASSUME NEW r \in Request, SignInStep(r)
      PROVE  req' \in [Request -> RequestState] /\ issued' \subseteq Token
  <2>1. CASE SignInSign(r)
    <3>1. generateTokens(req[r].user) \in Token
      BY <2>1, TokenSigned DEF SignInSign, RequestConsistent
    <3> QED
      BY <2>1, <3>1 DEF SignInSign
  <2>2. CASE SignInCommit(r) \/ SignInConflict(r)
    BY <2>2 DEF SignInCommit, SignInConflict
  <2> QED
    BY <1>2, <2>1, <2>2 DEF SignInStep
<1>3. ASSUME NEW r \in Request, NEW s \in sessions, RefreshLookup(r, s)
      PROVE  req' \in [Request -> RequestState] /\ issued' \subseteq Token
  <2>1. s.userId \in User /\ s.id \in Nat /\ s.login \in Nat
    BY DEF Row
  <2>2. \E st \in {"mismatch", "stale", "found"} :
           req' = [req EXCEPT ![r] = [@ EXCEPT !.stage = st,
                      !.user = s.userId, !.id = s.id, !.login = s.login]]
    BY <1>3 DEF RefreshLookup
  <2>3. PICK st \in {"mismatch", "stale", "found"} :
           req' = [req EXCEPT ![r] = [@ EXCEPT !.stage = st,
                      !.user = s.userId, !.id = s.id, !.login = s.login]]
    BY <2>2
  <2>4. [req[r] EXCEPT !.stage = st, !.user = s.userId, !.id = s.id,
                       !.login = s.login] \in RequestState
    BY <2>1
  <2> QED
    BY <1>3, <2>3, <2>4 DEF RefreshLookup
<1>4. ASSUME NEW r \in Request, RefreshStep(r),
             ~ \E s \in sessions : RefreshLookup(r, s)
      PROVE  req' \in [Request -> RequestState] /\ issued' \subseteq Token
  <2>1. CASE RefreshSign(r)
    <3>1. generateTokens(req[r].user) \in Token
      BY <2>1, TokenSigned DEF RefreshSign, RequestConsistent, Located
    <3> QED
      BY <2>1, <3>1 DEF RefreshSign
  <2>2. CASE RefreshUnknown(r) \/ RefreshDrop(r) \/ RefreshCommit(r)
             \/ RefreshConflict(r)
    BY <2>2 DEF RefreshUnknown, RefreshDrop, RefreshCommit, RefreshConflict
  <2> QED
    BY <1>4, <2>1, <2>2 DEF RefreshStep
<1>5. ASSUME NEW r \in Request, RevokeStep(r) \/ Abort(r)
      PROVE  req' \in [Request -> RequestState] /\ issued' \subseteq Token
  BY <1>5 DEF RevokeStep, revokeSessionById, revokeAllSessions,
              revokeOtherSessions, Abort
<1>6. ASSUME NEW r \in Request, Respond(r)
      PROVE  req' \in [Request -> RequestState] /\ issued' \subseteq Token
  BY <1>6 DEF Respond, RequestConsistent, Signed
<1>7. ASSUME NEW r \in Request, Arrive(r)
      PROVE  req' \in [Request -> RequestState] /\ issued' \subseteq Token
  <2>1. ASSUME NEW u \in User, SignInLookup(r, u)
        PROVE  req' \in [Request -> RequestState] /\ issued' \subseteq Token
    BY <2>1 DEF SignInLookup
  <2>3. ASSUME NEW u \in User, Authorise(r, u)
        PROVE  req' \in [Request -> RequestState] /\ issued' \subseteq Token
    BY <2>3 DEF Authorise
  <2>2. ASSUME NEW k \in issued, verifyRefreshToken(r, k)
        PROVE  req' \in [Request -> RequestState] /\ issued' \subseteq Token
    BY <2>2 DEF verifyRefreshToken
  <2> QED
    BY <1>7, <2>1, <2>2, <2>3 DEF Arrive
<1>8. ASSUME NEW k \in issued, revokeSession(k)
      PROVE  req' \in [Request -> RequestState] /\ issued' \subseteq Token
  BY <1>8 DEF revokeSession
<1> QED
  BY <1>1, <1>2, <1>3, <1>4, <1>5, <1>6, <1>7, <1>8 DEF Next, Progress

LEMMA ClockStep ==
    ASSUME TypeOK, [Next]_vars
    PROVE  /\ clock' \in 0..MaxClock
           /\ clock <= clock'
           /\ Second(clock) \in Nat
           /\ Second(clock') \in Nat
           /\ Second(clock) <= Second(clock')
<1>1. clock' = clock \/ Tick
  BY DEF vars, Next, Arrive, Progress, SignInStep, RefreshStep, RevokeStep,
         SignInLookup, SignInSign, SignInCommit, SignInConflict,
         verifyRefreshToken, RefreshUnknown, RefreshLookup, RefreshDrop,
         RefreshSign, RefreshCommit, RefreshConflict, revokeSession, Authorise,
         revokeSessionById, revokeAllSessions, revokeOtherSessions, Respond,
         Abort
<1>2. clock' \in 0..MaxClock /\ clock <= clock'
  BY <1>1, ConstantsAssumption DEF Tick, TypeOK
<1> QED
  BY <1>2, SecondBounds, SecondMonotone, ConstantsAssumption DEF TypeOK

LEMMA TypeStep ==
    ASSUME Inv, [Next]_vars
    PROVE  TypeOK'
<1>1. TypeOK /\ \A r \in Request : RequestConsistent(r)
  BY DEF Inv
<1>2. CASE Shrinks
  BY <1>1, <1>2, ClockStep, RequestsTyped DEF Shrinks, TypeOK
<1>3. ASSUME NEW r \in Request, NEW login \in Nat, Inserts(r, login)
      PROVE  TypeOK'
  <2>1. buildSessionInsertValues(req[r].user, req[r].new, login) \in Row
    BY <1>1, <1>3, RowTyped DEF Inserts, Signed
  <2> QED
    BY <1>1, <1>3, <2>1, ClockStep, RequestsTyped DEF Inserts, TypeOK
<1> QED
  BY <1>1, <1>2, <1>3, TableStep

-----------------------------------------------------------------------------
(* What a step does to one request.                                        *)

SlotStep(q) ==
    \/ req'[q] = req[q]
    \/ req'[q] = NoRequest
    \/ /\ req'[q].stage \notin Located \cup {"mismatch", "loginSigned"}
       /\ req'[q].id = req[q].id
       /\ req'[q].login = req[q].login
    \/ SignInSign(q)
    \/ RefreshSign(q)
    \/ \E s \in sessions : RefreshLookup(q, s)

LEMMA SlotSteps ==
    ASSUME TypeOK, [Next]_vars, NEW q \in Request
    PROVE  SlotStep(q)
<1> USE DEF SlotStep, TypeOK, RequestState, Located
<1>1. CASE UNCHANGED vars \/ Tick \/ \E k \in issued : revokeSession(k)
  BY <1>1 DEF vars, Tick, revokeSession
<1>2. ASSUME NEW r \in Request, SignInStep(r)
      PROVE  SlotStep(q)
  <2>1. CASE SignInSign(r)
    BY <2>1 DEF SignInSign
  <2>2. CASE SignInCommit(r) \/ SignInConflict(r)
    BY <2>2 DEF SignInCommit, SignInConflict
  <2> QED
    BY <1>2, <2>1, <2>2 DEF SignInStep
<1>3. ASSUME NEW r \in Request, RefreshSign(r)
      PROVE  SlotStep(q)
  BY <1>3 DEF RefreshSign
<1>4. ASSUME NEW r \in Request, NEW s \in sessions, RefreshLookup(r, s)
      PROVE  SlotStep(q)
  BY <1>4 DEF RefreshLookup
<1>5. ASSUME NEW r \in Request,
             RefreshUnknown(r) \/ RefreshDrop(r) \/ RevokeStep(r)
             \/ Respond(r) \/ Abort(r)
      PROVE  SlotStep(q)
  BY <1>5 DEF RefreshUnknown, RefreshDrop, RevokeStep, revokeSessionById,
              revokeAllSessions, revokeOtherSessions, Respond, Abort
<1>6. ASSUME NEW r \in Request, RefreshCommit(r) \/ RefreshConflict(r)
      PROVE  SlotStep(q)
  BY <1>6 DEF RefreshCommit, RefreshConflict
<1>7. ASSUME NEW r \in Request, Arrive(r)
      PROVE  SlotStep(q)
  <2>1. ASSUME NEW u \in User, SignInLookup(r, u)
        PROVE  SlotStep(q)
    BY <2>1 DEF SignInLookup
  <2>2. ASSUME NEW u \in User, Authorise(r, u)
        PROVE  SlotStep(q)
    BY <2>2 DEF Authorise
  <2>3. ASSUME NEW k \in issued, verifyRefreshToken(r, k)
        PROVE  SlotStep(q)
    BY <2>3 DEF verifyRefreshToken
  <2> QED
    BY <1>7, <2>1, <2>2, <2>3 DEF Arrive
<1> QED
  BY <1>1, <1>2, <1>3, <1>4, <1>5, <1>6, <1>7 DEF Next, Progress, RefreshStep

\* The effects of the two signing steps, field by field.
LEMMA SignInSigned ==
    ASSUME TypeOK, NEW q \in Request, SignInSign(q)
    PROVE  /\ req[q].stage = "checked"
           /\ req'[q].stage = "loginSigned"
           /\ req'[q].id = req[q].id
           /\ req'[q].login = req[q].login
           /\ req'[q].user = req[q].user
           /\ req'[q].new = generateTokens(req[q].user)
           /\ clock' = clock
BY DEF SignInSign, TypeOK, RequestState

LEMMA RefreshSigned ==
    ASSUME TypeOK, NEW q \in Request, RefreshSign(q)
    PROVE  /\ req[q].stage = "found"
           /\ req'[q].stage = "refreshSigned"
           /\ req'[q].id = req[q].id
           /\ req'[q].login = req[q].login
           /\ req'[q].user = req[q].user
           /\ req'[q].token = req[q].token
           /\ req'[q].new = generateTokens(req[q].user)
           /\ clock' = clock
           /\ sessions' = sessions
BY DEF RefreshSign, TypeOK, RequestState

-----------------------------------------------------------------------------
(* The invariant, conjunct by conjunct.                                    *)

LEMMA ConsistencyStep ==
    ASSUME Inv, [Next]_vars, NEW q \in Request
    PROVE  RequestConsistent(q)'
<1> USE DEF RequestConsistent, Signed, Located
<1>a. TypeOK /\ RequestConsistent(q) /\ SubjectOwnsRow
  BY DEF Inv
<1>b. /\ Token' = Token
      /\ req \in [Request -> RequestState]
      /\ clock \in 0..MaxClock
  BY <1>a DEF TypeOK, Token, Second
<1>c. ASSUME req'[q] = req[q] PROVE RequestConsistent(q)'
  <2>1. \A k \in Token : k.iat \in Int
    BY SecondBounds, ConstantsAssumption DEF Token
  <2> QED
    BY <1>a, <1>b, <1>c, <2>1, ClockStep
<1>d. ASSUME req'[q] = NoRequest PROVE RequestConsistent(q)'
  BY <1>d DEF NoRequest
<1>1. CASE UNCHANGED vars \/ Tick \/ \E k \in issued : revokeSession(k)
  BY <1>1, <1>c DEF vars, Tick, revokeSession
<1>2. ASSUME NEW r \in Request, SignInStep(r)
      PROVE  RequestConsistent(q)'
  <2>1. CASE SignInSign(r) /\ q = r
    <3>1. req[q].user \in User
      BY <1>a, <2>1 DEF SignInSign
    <3> QED
      BY <1>a, <1>b, <2>1, <3>1, SignInSigned, TokenSigned, SecondBounds,
         ConstantsAssumption
  <2>2. CASE SignInCommit(r) /\ q = r
    BY <1>a, <1>b, <2>2 DEF SignInCommit, RequestState
  <2>3. CASE SignInConflict(r) /\ q = r
    BY <1>b, <2>3 DEF SignInConflict, RequestState
  <2>4. CASE q # r
    BY <1>2, <1>b, <1>c, <2>4
       DEF SignInStep, SignInSign, SignInCommit, SignInConflict
  <2> QED
    BY <1>2, <2>1, <2>2, <2>3, <2>4 DEF SignInStep
<1>3. ASSUME NEW r \in Request, NEW s \in sessions, RefreshLookup(r, s)
      PROVE  RequestConsistent(q)'
  <2>1. CASE q = r
    <3>1. s.userId \in User
      BY <1>a DEF TypeOK, Row
    <3>2. /\ req[q].token \in Token
          /\ req[q].stage = "verified"
      BY <1>a, <1>3, <2>1 DEF RefreshLookup
    <3>3. /\ req'[q].stage \in {"mismatch", "stale", "found"}
          /\ req'[q].stage # "mismatch" => s.userId = req[q].token.sub
          /\ req'[q].user = s.userId
          /\ req'[q].token = req[q].token
      BY <1>b, <1>3, <2>1 DEF RefreshLookup, RequestState
    <3> QED
      BY <1>b, <3>1, <3>2, <3>3
  <2>2. CASE q # r
    BY <1>3, <1>b, <1>c, <2>2 DEF RefreshLookup
  <2> QED
    BY <2>1, <2>2
<1>4. ASSUME NEW r \in Request, RefreshSign(r)
      PROVE  RequestConsistent(q)'
  <2>1. CASE q = r
    <3>1. req[q].user \in User /\ req[q].token \in Token
          /\ req[q].token.sub = req[q].user
      BY <1>a, <1>4, <2>1 DEF RefreshSign
    <3> QED
      BY <1>a, <1>b, <1>4, <2>1, <3>1, RefreshSigned, TokenSigned,
         SecondBounds, ConstantsAssumption
  <2>2. CASE q # r
    BY <1>4, <1>b, <1>c, <2>2 DEF RefreshSign
  <2> QED
    BY <2>1, <2>2
<1>5. ASSUME NEW r \in Request, RefreshCommit(r) \/ RefreshConflict(r)
      PROVE  RequestConsistent(q)'
  <2>1. CASE RefreshCommit(r) /\ q = r
    BY <1>a, <1>b, <2>1 DEF RefreshCommit, RequestState
  <2>2. CASE RefreshConflict(r) /\ q = r
    BY <1>b, <2>2 DEF RefreshConflict, RequestState
  <2>3. CASE q # r
    BY <1>5, <1>b, <1>c, <2>3 DEF RefreshCommit, RefreshConflict
  <2> QED
    BY <1>5, <2>1, <2>2, <2>3
<1>6. ASSUME NEW r \in Request,
             RefreshUnknown(r) \/ RefreshDrop(r) \/ RevokeStep(r)
             \/ Respond(r) \/ Abort(r)
      PROVE  RequestConsistent(q)'
  <2>1. req'[q] = req[q] \/ req'[q] = NoRequest
    BY <1>6, <1>b DEF RefreshUnknown, RefreshDrop, RevokeStep,
       revokeSessionById, revokeAllSessions, revokeOtherSessions, Respond,
       Abort
  <2> QED
    BY <2>1, <1>c, <1>d
<1>7. ASSUME NEW r \in Request, Arrive(r)
      PROVE  RequestConsistent(q)'
  <2>1. ASSUME NEW u \in User, SignInLookup(r, u)
        PROVE  RequestConsistent(q)'
    BY <1>b, <1>c, <2>1 DEF SignInLookup, RequestState
  <2>2. ASSUME NEW u \in User, Authorise(r, u)
        PROVE  RequestConsistent(q)'
    BY <1>b, <1>c, <2>2 DEF Authorise, RequestState
  <2>3. ASSUME NEW k \in issued, verifyRefreshToken(r, k)
        PROVE  RequestConsistent(q)'
    BY <1>a, <1>b, <1>c, <2>3 DEF verifyRefreshToken, RequestState, TypeOK
  <2> QED
    BY <1>7, <2>1, <2>2, <2>3 DEF Arrive
<1> QED
  BY <1>1, <1>2, <1>3, <1>4, <1>5, <1>6, <1>7 DEF Next, Progress, RefreshStep

\* The row that an insert stores: it belongs to the subject of its token and
\* outlives it, and its id is the next one.
LEMMA NewRow ==
    ASSUME TypeOK, NEW r \in Request, NEW login, RequestConsistent(r),
           req[r].stage \in {"loginSigned", "refreshSigned"},
           NEW s, s = buildSessionInsertValues(req[r].user, req[r].new, login)
    PROVE  /\ s.userId = TokenOf(s).sub
           /\ (TokenOf(s).iat + RefreshTtl) * TicksPerSecond <= s.expiresAt
           /\ s.id = nextId
           /\ s.login = login
           /\ s.sessionToken = hashToken(req[r].new)
<1> DEFINE k == req[r].new
<1>1. k \in Token /\ k.sub = req[r].user /\ k.iat <= Second(clock)
  BY DEF RequestConsistent, Signed
<1>2. /\ s.userId = req[r].user
      /\ TokenOf(s) = k
      /\ s.expiresAt = clock + REFRESH_TOKEN_TTL_MS
      /\ s.id = nextId
      /\ s.login = login
      /\ s.sessionToken = hashToken(k)
  BY DEF buildSessionInsertValues, TokenOf, hashToken
<1>3. k.iat \in Nat /\ clock \in Nat /\ Second(clock) \in Nat
  BY <1>1, SecondBounds, ConstantsAssumption DEF Token, TypeOK
<1>4. k.iat * TicksPerSecond <= clock
  <2>1. k.iat * TicksPerSecond <= Second(clock) * TicksPerSecond
    BY <1>1, <1>3, ProductMonotone
  <2>2. Second(clock) * TicksPerSecond <= clock
    BY <1>3, SecondBounds
  <2> QED
    BY <1>3, <2>1, <2>2, ConstantsAssumption
<1>5. (k.iat + RefreshTtl) * TicksPerSecond <= clock + REFRESH_TOKEN_TTL_MS
  <2> DEFINE p == k.iat * TicksPerSecond
  <2>1. p \in Nat /\ REFRESH_TOKEN_TTL_MS \in Nat
    BY <1>3, ConstantsAssumption DEF REFRESH_TOKEN_TTL_MS
  <2>2. p <= clock
    BY <1>4
  <2>3. (k.iat + RefreshTtl) * TicksPerSecond = p + REFRESH_TOKEN_TTL_MS
    BY <1>3, TtlProduct
  <2> HIDE DEF p
  <2> QED
    BY <1>3, <2>1, <2>2, <2>3
<1> QED
  BY <1>1, <1>2, <1>5

\* No row is found to be another user's, because the hash is injective.
LEMMA NoMismatch ==
    ASSUME Inv, [Next]_vars, NEW q \in Request
    PROVE  req'[q].stage # "mismatch"
<1>1. TypeOK /\ SubjectOwnsRow
  BY DEF Inv
<1>2. CASE \E s \in sessions : RefreshLookup(q, s)
  <2>1. PICK s \in sessions : RefreshLookup(q, s)
    BY <1>2
  <2>2. s.userId = req[q].token.sub
    BY <1>1, <2>1 DEF SubjectOwnsRow, RefreshLookup, TokenOf, hashToken
  <2> QED
    BY <1>1, <2>1, <2>2 DEF RefreshLookup, TypeOK, RequestState
<1>3. CASE SignInSign(q) \/ RefreshSign(q)
  BY <1>1, <1>3, SignInSigned, RefreshSigned
<1> QED
  BY <1>1, <1>2, <1>3, SlotSteps DEF SlotStep, NoRequest, SubjectOwnsRow

LEMMA RowsStep ==
    ASSUME Inv, [Next]_vars
    PROVE  SubjectOwnsRow' /\ RowOutlivesToken'
<1>1. /\ TypeOK /\ SubjectOwnsRow /\ RowOutlivesToken
      /\ \A r \in Request : RequestConsistent(r)
  BY DEF Inv
<1> DEFINE Good(s) ==
        /\ s.userId = TokenOf(s).sub
        /\ (TokenOf(s).iat + RefreshTtl) * TicksPerSecond <= s.expiresAt
<1>2. \A s \in sessions' : Good(s)
  <2>1. CASE Shrinks
    BY <1>1, <2>1 DEF Shrinks, SubjectOwnsRow, RowOutlivesToken
  <2>2. ASSUME NEW r \in Request, NEW login \in Nat, Inserts(r, login)
        PROVE  \A s \in sessions' : Good(s)
    BY <1>1, <2>2, NewRow DEF Inserts, SubjectOwnsRow, RowOutlivesToken
  <2> QED
    BY <1>1, <2>1, <2>2, TableStep
<1> QED
  BY <1>2, NoMismatch DEF SubjectOwnsRow, RowOutlivesToken, TokenOf

\* The id a request carries is 0, an id it carried, or that of a row.
LEMMA IdsStep ==
    ASSUME Inv, [Next]_vars
    PROVE  FreshIds'
<1>1. /\ TypeOK /\ FreshIds
      /\ \A r \in Request : RequestConsistent(r)
  BY DEF Inv
<1>2. /\ nextId \in Nat \ {0}
      /\ nextId' \in Nat
      /\ nextId <= nextId'
  BY <1>1, TableStep DEF TypeOK, Shrinks, Inserts
<1> DEFINE FreshRows == /\ \A s \in sessions : s.id \in 1..(nextId - 1)
                        /\ \A s, t \in sessions : s.id = t.id => s = t
<1>3. FreshRows'
  <2>1. CASE Shrinks
    BY <1>1, <2>1 DEF Shrinks, FreshIds
  <2>2. ASSUME NEW r \in Request, NEW login \in Nat, Inserts(r, login)
        PROVE  FreshRows'
    <3> DEFINE new == buildSessionInsertValues(req[r].user, req[r].new, login)
    <3>1. new.id = nextId
      BY DEF buildSessionInsertValues
    <3>2. \A s \in sessions : s.id \in 1..(nextId - 1)
      BY <1>1 DEF FreshIds
    <3>3. sessions' \subseteq sessions \cup {new} /\ nextId' = nextId + 1
      BY <2>2 DEF Inserts
    <3> HIDE DEF new
    <3>4. \A s \in sessions' : s.id \in 1..(nextId' - 1)
      BY <1>2, <3>1, <3>2, <3>3
    <3>5. \A s, t \in sessions' : s.id = t.id => s = t
      BY <1>1, <1>2, <3>1, <3>2, <3>3 DEF FreshIds
    <3> QED
      BY <3>4, <3>5
  <2> QED
    BY <1>1, <2>1, <2>2, TableStep
<1>4. ASSUME NEW q \in Request
      PROVE  req'[q].id < nextId'
  <2>1. req[q].id < nextId /\ req[q].id \in Nat
    BY <1>1 DEF FreshIds, TypeOK, RequestState
  <2>2. ASSUME NEW s \in sessions, RefreshLookup(q, s)
        PROVE  req'[q].id < nextId'
    <3>1. req'[q].id = s.id
      BY <1>1, <2>2 DEF RefreshLookup, TypeOK, RequestState
    <3>2. s.id \in 1..(nextId - 1)
      BY <1>1 DEF FreshIds
    <3> QED
      BY <1>2, <3>1, <3>2
  <2>3. CASE SignInSign(q) \/ RefreshSign(q)
    BY <1>1, <1>2, <2>1, <2>3, SignInSigned, RefreshSigned
  <2>4. CASE req'[q] = NoRequest \/ req'[q].id = req[q].id
    BY <1>2, <2>1, <2>4 DEF NoRequest
  <2> QED
    BY <1>1, <2>2, <2>3, <2>4, SlotSteps DEF SlotStep
<1> QED
  BY <1>3, <1>4 DEF FreshIds

\* A row is an old one or has the next id, so an id never names two rows.
LEMMA OldRows ==
    ASSUME TypeOK, [Next]_vars, NEW s \in sessions', s.id < nextId
    PROVE  s \in sessions
<1>1. CASE Shrinks
  BY <1>1 DEF Shrinks
<1>2. ASSUME NEW r \in Request, NEW login \in Nat, Inserts(r, login)
      PROVE  s \in sessions
  <2>1. buildSessionInsertValues(req[r].user, req[r].new, login).id = nextId
    BY DEF buildSessionInsertValues
  <2> QED
    BY <1>2, <2>1 DEF Inserts, TypeOK
<1> QED
  BY <1>1, <1>2, TableStep

LEMMA LocatedStep ==
    ASSUME Inv, [Next]_vars, NEW q \in Request
    PROVE  LocatedRowUnchanged(q)'
<1>1. /\ TypeOK /\ FreshIds /\ LocatedRowUnchanged(q)
      /\ SubjectOwnsRow /\ RequestConsistent(q)
  BY DEF Inv
<1>2. CASE req'[q] = req[q]
  BY <1>1, <1>2, OldRows DEF FreshIds, LocatedRowUnchanged
<1>3. CASE RefreshSign(q)
  BY <1>1, <1>3, RefreshSigned DEF LocatedRowUnchanged, Located
<1>4. ASSUME NEW s \in sessions, RefreshLookup(q, s)
      PROVE  LocatedRowUnchanged(q)'
  <2>1. /\ sessions' = sessions
        /\ req'[q].id = s.id
        /\ req'[q].login = s.login
        /\ req'[q].user = s.userId
    BY <1>1, <1>4 DEF RefreshLookup, TypeOK, RequestState
  <2> QED
    BY <1>1, <2>1 DEF LocatedRowUnchanged, FreshIds
<1>5. CASE req'[q] = NoRequest \/ SignInSign(q)
  BY <1>1, <1>5, SignInSigned DEF NoRequest, LocatedRowUnchanged, Located
<1>6. CASE req'[q].stage \notin Located
  BY <1>6 DEF LocatedRowUnchanged
<1> QED
  BY <1>1, <1>2, <1>3, <1>4, <1>5, <1>6, SlotSteps DEF SlotStep

LEMMA InvInit == Init => Inv
<1> SUFFICES ASSUME Init PROVE Inv
  OBVIOUS
<1> USE ConstantsAssumption DEF Init, NoRequest
<1>1. TypeOK
  BY DEF TypeOK, RequestState, Stage
<1>2. SubjectOwnsRow /\ RowOutlivesToken /\ FreshIds
  BY DEF SubjectOwnsRow, RowOutlivesToken, FreshIds
<1>3. \A r \in Request : RequestConsistent(r) /\ LocatedRowUnchanged(r)
  BY DEF RequestConsistent, LocatedRowUnchanged, Signed, Located
<1> QED
  BY <1>1, <1>2, <1>3 DEF Inv

LEMMA InvStep == Inv /\ [Next]_vars => Inv'
<1> SUFFICES ASSUME Inv, [Next]_vars PROVE Inv'
  OBVIOUS
<1>1. TypeOK'
  BY TypeStep
<1>2. SubjectOwnsRow' /\ RowOutlivesToken' /\ FreshIds'
  BY RowsStep, IdsStep
<1>3. \A r \in Request : RequestConsistent(r)' /\ LocatedRowUnchanged(r)'
  BY ConsistencyStep, LocatedStep
<1> QED
  BY <1>1, <1>2, <1>3 DEF Inv

\* The invariant holds in every reachable state.
THEOREM Invariance == Spec => []Inv
BY InvInit, InvStep, PTL DEF Spec

\* Every variable keeps its type.
THEOREM TypeCorrect == Spec => []TypeOK
<1>1. Inv => TypeOK
  BY DEF Inv
<1> QED
  BY <1>1, Invariance, PTL

\* Rows belong to the subject of their token, so the owner check of
\* refreshTokens never deletes a session (auth.service.ts:285-290).
THEOREM OwnerCheckNeverFires == Spec => []SubjectOwnsRow
<1>1. Inv => SubjectOwnsRow
  BY DEF Inv
<1> QED
  BY <1>1, Invariance, PTL

\* A row outlives the token it was stored for (auth.service.ts:586, 601).
THEOREM RowsOutliveTokens == Spec => []RowOutlivesToken
<1>1. Inv => RowOutlivesToken
  BY DEF Inv
<1> QED
  BY <1>1, Invariance, PTL

-----------------------------------------------------------------------------
(* Action properties.                                                      *)

LEMMA RetiredStep ==
    ASSUME Inv, [Next]_vars, NEW k \in Token, Retired(k)
    PROVE  Retired(k)'
<1>1. TypeOK /\ k.iat \in Int /\ \A r \in Request : RequestConsistent(r)
  BY SecondBounds, ConstantsAssumption DEF Inv, Token
<1>2. (k.iat < Second(clock))'
  BY <1>1, ClockStep DEF Retired
<1>3. ~Stored(k)'
  <2>1. CASE Shrinks
    BY <2>1 DEF Shrinks, Retired, Stored, TokenTaken
  <2>2. ASSUME NEW r \in Request, NEW login \in Nat, Inserts(r, login)
        PROVE  ~Stored(k)'
    <3> DEFINE new == buildSessionInsertValues(req[r].user, req[r].new, login)
    <3>1. new.sessionToken = hashToken(req[r].new)
      BY DEF buildSessionInsertValues
    <3>2. req[r].new # k
      BY <2>2 DEF Inserts, Retired, BeingWritten
    <3>3. hashToken(req[r].new) # hashToken(k)
      BY <3>2 DEF hashToken
    <3>4. \A s \in sessions : s.sessionToken # hashToken(k)
      BY DEF Retired, Stored, TokenTaken
    <3>5. sessions' \subseteq sessions \cup {new}
      BY <2>2 DEF Inserts
    <3> HIDE DEF new
    <3> QED
      BY <3>1, <3>3, <3>4, <3>5 DEF Stored, TokenTaken, hashToken
  <2> QED
    BY <1>1, <2>1, <2>2, TableStep
<1>4. ~BeingWritten(k)'
  <2> SUFFICES ASSUME NEW q \in Request,
                      req'[q].stage \in {"loginSigned", "refreshSigned"},
                      req'[q].new = k
               PROVE  FALSE
    BY DEF BeingWritten
  <2>1. CASE req'[q] = req[q]
    BY <2>1 DEF Retired, BeingWritten
  <2>2. CASE SignInSign(q) \/ RefreshSign(q)
    <3>1. req'[q].new = generateTokens(req[q].user)
      BY <1>1, <2>2, SignInSigned, RefreshSigned
    <3>2. k.iat = Second(clock)
      BY <3>1 DEF generateTokens
    <3> QED
      BY <1>1, <3>2, ClockStep DEF Retired
  <2>3. CASE req'[q] = NoRequest
    BY <2>3 DEF NoRequest
  <2>4. ASSUME NEW s \in sessions, RefreshLookup(q, s)
        PROVE  FALSE
    BY <1>1, <2>4 DEF RefreshLookup, TypeOK, RequestState
  <2> QED
    BY <1>1, <2>1, <2>2, <2>3, <2>4, SlotSteps DEF SlotStep, Located
<1> QED
  BY <1>2, <1>3, <1>4 DEF Retired

\* Retired tokens stay retired (auth.service.ts:292-298, 309-322, 338-371).
THEOREM RevokedTokens == Spec => RevokedTokenStaysRevoked
<1>1. Inv /\ [Next]_vars
      => [\A k \in Token : Retired(k) => Retired(k)']_vars
  BY RetiredStep
<1> QED
  BY <1>1, Invariance, PTL DEF Spec, RevokedTokenStaysRevoked

\* Which request, or which logout, removes a row.
LEMMA RemovalStep ==
    ASSUME Inv, [Next]_vars, NEW s \in sessions \ sessions'
    PROVE  \/ \E r \in Request : req'[r] # req[r] /\ Subject(r) = s.userId
           \/ /\ req' = req
              /\ \E k \in issued : /\ k.sub = s.userId
                                   /\ s.sessionToken = hashToken(k)
<1> DEFINE Owned == \E r \in Request :
                        req'[r] # req[r] /\ Subject(r) = s.userId
<1>1. /\ TypeOK /\ SubjectOwnsRow
      /\ \A r \in Request : RequestConsistent(r) /\ LocatedRowUnchanged(r)
  BY DEF Inv
<1>2. ASSUME NEW r \in Request, RefreshDrop(r)
      PROVE  Owned
  <2>1. req[r].stage = "stale" /\ req'[r] = NoRequest /\ s.id = req[r].id
    BY <1>1, <1>2 DEF RefreshDrop, SubjectOwnsRow, TypeOK
  <2>2. s.userId = req[r].user /\ req[r].user = req[r].token.sub
    BY <1>1, <2>1 DEF RequestConsistent, LocatedRowUnchanged, Located
  <2> QED
    BY <2>1, <2>2 DEF Subject, NoRequest
<1>3. ASSUME NEW r \in Request, RefreshCommit(r)
      PROVE  Owned
  <2>1. /\ req[r].stage = "refreshSigned"
        /\ req'[r].stage = "done"
        /\ s.id = req[r].id
    BY <1>1, <1>3 DEF RefreshCommit, OthersThan, TypeOK, RequestState
  <2>2. s.userId = req[r].user /\ req[r].user = req[r].token.sub
    BY <1>1, <2>1 DEF RequestConsistent, LocatedRowUnchanged, Located
  <2> QED
    BY <2>1, <2>2 DEF Subject
<1>4. ASSUME NEW r \in Request, RevokeStep(r)
      PROVE  Owned
  <2>1. /\ req[r].stage = "authorised"
        /\ req'[r] = NoRequest
        /\ s.userId = req[r].user
    BY <1>1, <1>4 DEF RevokeStep, revokeSessionById, revokeAllSessions,
                      revokeOtherSessions, TypeOK
  <2> QED
    BY <2>1 DEF Subject, NoRequest
<1>5. ASSUME NEW k \in issued, revokeSession(k)
      PROVE  req' = req /\ k.sub = s.userId /\ s.sessionToken = hashToken(k)
  <2>1. req' = req /\ s.sessionToken = hashToken(k)
    BY <1>5 DEF revokeSession
  <2>2. TokenOf(s) = k
    BY <2>1 DEF TokenOf, hashToken
  <2> QED
    BY <1>1, <2>1, <2>2 DEF SubjectOwnsRow
<1>6. ASSUME UNCHANGED vars \/ Tick \/ \E r \in Request :
                 \/ Arrive(r) \/ SignInStep(r) \/ Respond(r) \/ Abort(r)
                 \/ RefreshUnknown(r) \/ RefreshSign(r) \/ RefreshConflict(r)
                 \/ \E t \in sessions : RefreshLookup(r, t)
      PROVE  sessions \subseteq sessions'
  BY <1>6 DEF vars, Tick, Arrive, SignInLookup, Authorise, verifyRefreshToken,
     SignInStep, SignInSign, SignInCommit, SignInConflict, Respond, Abort,
     RefreshUnknown, RefreshSign, RefreshConflict, RefreshLookup
<1> QED
  BY <1>2, <1>3, <1>4, <1>5, <1>6 DEF Next, Progress, RefreshStep

\* No step removes another user's session, although refreshTokens deletes by
\* an id it read earlier (auth.service.ts:285-298, 312-314, 338-371).
THEOREM OwnersRemove == Spec => OnlyOwnerRemoves
<1>1. Inv /\ [Next]_vars =>
      [\A s \in sessions \ sessions' :
           \/ \E r \in Request : req'[r] # req[r] /\ Subject(r) = s.userId
           \/ /\ req' = req
              /\ \E k \in issued : /\ k.sub = s.userId
                                   /\ s.sessionToken = hashToken(k)]_vars
  BY RemovalStep
<1> QED
  BY <1>1, Invariance, PTL DEF Spec, OnlyOwnerRemoves

-----------------------------------------------------------------------------
(* The refinement: each step is a step of SessionChains or a stutter.      *)

\* How the set of renewing chains moves when one request does.
LEMMA RenewingMoves ==
    ASSUME NEW r \in Request, \A q \in Request \ {r} : req'[q] = req[q]
    PROVE  /\ ~Renewing(r) /\ ~Renewing(r)' => RenewingChains' = RenewingChains
           /\ Renewing(r) /\ Renewing(r)' /\ req'[r].login = req[r].login
              => RenewingChains' = RenewingChains
           /\ ~Renewing(r) /\ Renewing(r)'
              => RenewingChains' = RenewingChains \cup {req'[r].login}
           /\ Renewing(r) /\ ~Renewing(r)'
              => RenewingChains' \in {RenewingChains,
                                      RenewingChains \ {req[r].login}}
<1>1. \A q \in Request \ {r} :
         (Renewing(q)' <=> Renewing(q)) /\ req'[q].login = req[q].login
  BY DEF Renewing
<1>2. ASSUME ~Renewing(r), ~Renewing(r)'
      PROVE  RenewingChains' = RenewingChains
  BY <1>1, <1>2 DEF RenewingChains
<1>3. ASSUME Renewing(r), Renewing(r)', req'[r].login = req[r].login
      PROVE  RenewingChains' = RenewingChains
  BY <1>1, <1>3 DEF RenewingChains
<1>4. ASSUME ~Renewing(r), Renewing(r)'
      PROVE  RenewingChains' = RenewingChains \cup {req'[r].login}
  BY <1>1, <1>4 DEF RenewingChains
<1>5. ASSUME Renewing(r), ~Renewing(r)'
      PROVE  RenewingChains' \in {RenewingChains,
                                  RenewingChains \ {req[r].login}}
  <2>1. CASE \E q \in Request \ {r} : Renewing(q) /\ req[q].login = req[r].login
    <3>1. RenewingChains' = RenewingChains
      BY <1>1, <1>5, <2>1 DEF RenewingChains
    <3> QED
      BY <3>1
  <2>2. CASE ~ \E q \in Request \ {r} :
                   Renewing(q) /\ req[q].login = req[r].login
    <3>1. RenewingChains' = RenewingChains \ {req[r].login}
      BY <1>1, <1>5, <2>2 DEF RenewingChains
    <3> QED
      BY <3>1
  <2> QED
    BY <2>1, <2>2
<1> QED
  BY <1>2, <1>3, <1>4, <1>5

LEMMA ChainsInit == Init => Chains!Init
BY DEF Init, NoRequest, Chains!Init, LiveChains, RenewingChains, Renewing

LEMMA ChainsStep ==
    ASSUME Inv, [Next]_vars
    PROVE  [Chains!Next]_(Chains!vars)
<1> DEFINE Goal == [Chains!Next]_(Chains!vars)
<1>0. /\ TypeOK /\ FreshIds /\ SubjectOwnsRow
      /\ \A r \in Request : RequestConsistent(r) /\ LocatedRowUnchanged(r)
  BY DEF Inv
<1>a. ASSUME sessions' = sessions, nextId' = nextId,
             RenewingChains' = RenewingChains
      PROVE  Goal
  BY <1>a DEF Chains!vars, LiveChains
<1>b. ASSUME sessions' \subseteq sessions, nextId' = nextId,
             RenewingChains' = RenewingChains
      PROVE  Goal
  BY <1>b DEF Chains!Next, Chains!End, LiveChains
<1>c. ASSUME NEW r \in Request, Renewing(r), ~Renewing(r)',
             \A q \in Request \ {r} : req'[q] = req[q],
             sessions' = sessions, nextId' = nextId
      PROVE  Goal
  <2>1. req[r].login \in RenewingChains
    BY <1>c DEF RenewingChains
  <2>2. CASE RenewingChains' = RenewingChains
    BY <1>a, <1>c, <2>2
  <2>3. CASE RenewingChains' = RenewingChains \ {req[r].login}
    BY <1>c, <2>1, <2>3 DEF Chains!Next, Chains!GiveUp, LiveChains
  <2> QED
    BY <1>c, <2>2, <2>3, RenewingMoves
<1>1. CASE UNCHANGED vars \/ Tick
  BY <1>1, <1>a DEF vars, Tick, RenewingChains, Renewing
<1>2. ASSUME NEW r \in Request, SignInCommit(r)
      PROVE  Goal
  <2>1. RenewingChains' = RenewingChains
    BY <1>0, <1>2, RenewingMoves DEF SignInCommit, Renewing, TypeOK, RequestState
  <2>2. LiveChains' = LiveChains \cup {nextId}
    <3> DEFINE new == buildSessionInsertValues(req[r].user, req[r].new, nextId)
    <3>1. sessions' = sessions \cup {new}
      BY <1>2 DEF SignInCommit
    <3>2. new.login = nextId
      BY DEF buildSessionInsertValues
    <3> HIDE DEF new
    <3> QED
      BY <3>1, <3>2 DEF LiveChains
  <2>3. nextId' - 1 = (nextId - 1) + 1 /\ nextId' - 1 = nextId
    BY <1>0, <1>2 DEF SignInCommit, TypeOK
  <2> QED
    BY <2>1, <2>2, <2>3 DEF Chains!Next, Chains!Open
<1>3. ASSUME NEW r \in Request, SignInSign(r) \/ SignInConflict(r)
      PROVE  Goal
  <2>1. CASE SignInSign(r)
    <3>1. /\ \A q \in Request \ {r} : req'[q] = req[q]
          /\ sessions' = sessions /\ nextId' = nextId
      BY <1>0, <2>1 DEF SignInSign, TypeOK
    <3>2. ~Renewing(r) /\ ~Renewing(r)'
      BY <1>0, <2>1, SignInSigned DEF Renewing
    <3> QED
      BY <1>a, <3>1, <3>2, RenewingMoves
  <2>2. CASE SignInConflict(r)
    BY <1>0, <1>a, <2>2, RenewingMoves
       DEF SignInConflict, Renewing, TypeOK, RequestState
  <2> QED
    BY <1>3, <2>1, <2>2
<1>4. ASSUME NEW r \in Request, NEW s \in sessions, RefreshLookup(r, s)
      PROVE  Goal
  <2>1. /\ \A q \in Request \ {r} : req'[q] = req[q]
        /\ ~Renewing(r)
        /\ req'[r].login = s.login
        /\ sessions' = sessions /\ nextId' = nextId
    BY <1>0, <1>4 DEF RefreshLookup, Renewing, TypeOK, RequestState
  <2>2. CASE Renewing(r)'
    <3>1. RenewingChains' = RenewingChains \cup {s.login}
      BY <2>1, <2>2, RenewingMoves
    <3>2. s.login \in LiveChains
      BY DEF LiveChains
    <3> QED
      BY <2>1, <3>1, <3>2 DEF Chains!Next, Chains!Begin, LiveChains
  <2>3. CASE ~Renewing(r)'
    BY <1>a, <2>1, <2>3, RenewingMoves
  <2> QED
    BY <2>2, <2>3
<1>5. ASSUME NEW r \in Request, RefreshSign(r)
      PROVE  Goal
  <2>1. /\ \A q \in Request \ {r} : req'[q] = req[q]
        /\ sessions' = sessions /\ nextId' = nextId
    BY <1>0, <1>5 DEF RefreshSign, TypeOK
  <2>2. Renewing(r) /\ Renewing(r)' /\ req'[r].login = req[r].login
    BY <1>0, <1>5, RefreshSigned DEF Renewing
  <2> QED
    BY <1>a, <2>1, <2>2, RenewingMoves
<1>6. ASSUME NEW r \in Request, RefreshCommit(r)
      PROVE  Goal
  <2> DEFINE c == req[r].login
  <2>1. /\ \A q \in Request \ {r} : req'[q] = req[q]
        /\ Renewing(r) /\ ~Renewing(r)'
    BY <1>0, <1>6 DEF RefreshCommit, Renewing, TypeOK, RequestState
  <2>2. RenewingChains' \in {RenewingChains, RenewingChains \ {c}}
    BY <2>1, RenewingMoves
  <2>3. c \in RenewingChains
    BY <2>1 DEF RenewingChains
  <2>4. LiveChains' = LiveChains \cup {c}
    <3>1. \A s \in sessions : s \in OthersThan(req[r].id) \/ s.login = c
      BY <1>0, <1>6 DEF OthersThan, RefreshCommit, LocatedRowUnchanged, Located
    <3>2. OthersThan(req[r].id) \subseteq sessions
      BY DEF OthersThan
    <3>3. sessions' = OthersThan(req[r].id) \cup
              {buildSessionInsertValues(req[r].user, req[r].new, c)}
      BY <1>6 DEF RefreshCommit
    <3>4. buildSessionInsertValues(req[r].user, req[r].new, c).login = c
      BY DEF buildSessionInsertValues
    <3> QED
      BY <3>1, <3>2, <3>3, <3>4 DEF LiveChains
  <2>5. nextId' - 1 = (nextId - 1) + 1
    BY <1>0, <1>6 DEF RefreshCommit, TypeOK
  <2> HIDE DEF c
  <2> QED
    BY <2>2, <2>3, <2>4, <2>5 DEF Chains!Next, Chains!Renew
<1>7. ASSUME NEW r \in Request, RefreshConflict(r)
      PROVE  Goal
  BY <1>0, <1>c, <1>7 DEF RefreshConflict, Renewing, TypeOK, RequestState
<1>8. ASSUME NEW r \in Request, RefreshUnknown(r) \/ RefreshDrop(r)
                                \/ RevokeStep(r) \/ Respond(r)
      PROVE  Goal
  <2>1. /\ \A q \in Request \ {r} : req'[q] = req[q]
        /\ ~Renewing(r)
        /\ req'[r] = NoRequest
        /\ sessions' \subseteq sessions /\ nextId' = nextId
    BY <1>0, <1>8 DEF RefreshUnknown, RefreshDrop, RevokeStep,
       revokeSessionById, revokeAllSessions, revokeOtherSessions, Respond,
       Renewing, TypeOK
  <2> QED
    BY <1>b, <2>1, RenewingMoves DEF NoRequest, Renewing
<1>9. ASSUME NEW r \in Request, Abort(r)
      PROVE  Goal
  <2>1. /\ \A q \in Request \ {r} : req'[q] = req[q]
        /\ ~Renewing(r)'
        /\ sessions' = sessions /\ nextId' = nextId
    BY <1>0, <1>9 DEF Abort, Renewing, NoRequest, TypeOK
  <2> QED
    BY <1>a, <1>c, <2>1, RenewingMoves
<1>10. ASSUME NEW r \in Request, Arrive(r)
       PROVE  Goal
  <2>1. ASSUME NEW u \in User, SignInLookup(r, u)
        PROVE  Goal
    BY <1>0, <1>a, <2>1, RenewingMoves
       DEF SignInLookup, Renewing, TypeOK, RequestState
  <2>2. ASSUME NEW u \in User, Authorise(r, u)
        PROVE  Goal
    BY <1>0, <1>a, <2>2, RenewingMoves
       DEF Authorise, Renewing, TypeOK, RequestState
  <2>3. ASSUME NEW k \in issued, verifyRefreshToken(r, k)
        PROVE  Goal
    BY <1>0, <1>a, <2>3, RenewingMoves
       DEF verifyRefreshToken, Renewing, TypeOK, RequestState
  <2> QED
    BY <1>10, <2>1, <2>2, <2>3 DEF Arrive
<1>11. ASSUME NEW k \in issued, revokeSession(k)
       PROVE  Goal
  BY <1>b, <1>11 DEF revokeSession, RenewingChains, Renewing
<1> QED
  BY <1>1, <1>2, <1>3, <1>4, <1>5, <1>6, <1>7, <1>8, <1>9, <1>10, <1>11
     DEF Next, Progress, SignInStep, RefreshStep

\* The handlers implement SessionChains: a login whose sessions are gone and
\* of which no refresh is under way stays gone (auth.service.ts:270-372).
THEOREM Refinement == Spec => ImplementsChains
<1>1. Inv /\ [Next]_vars => [Chains!Next]_(Chains!vars)
  BY ChainsStep
<1> QED
  BY <1>1, ChainsInit, Invariance, PTL DEF Spec, ImplementsChains, Chains!Spec

-----------------------------------------------------------------------------
(* Rotation moves the session of a login and does not multiply it.         *)

\* Rows of a login go, and no refresh begins to replace one.
LEMMA NothingForks ==
    ASSUME NEW c \in Nat, Unforked(c),
           SessionsOf(c)' \subseteq SessionsOf(c),
           \A q \in Refreshes(c)' :
               q \in Refreshes(c) /\ req'[q].id = req[q].id
    PROVE  Unforked(c)'
BY DEF Unforked

\* So it is if one request moves and is no new refresh.
LEMMA OneMoves ==
    ASSUME NEW c \in Nat, NEW r \in Request, Unforked(c),
           SessionsOf(c)' \subseteq SessionsOf(c),
           \A q \in Request \ {r} : req'[q] = req[q],
           \/ ~Renewing(r)'
           \/ /\ Renewing(r)
              /\ req'[r].login = req[r].login /\ req'[r].id = req[r].id
    PROVE  Unforked(c)'
<1>1. \A q \in Refreshes(c)' :
          q \in Refreshes(c) /\ req'[q].id = req[q].id
  BY DEF Refreshes, Renewing
<1> QED
  BY <1>1, NothingForks

LEMMA RotationStep ==
    ASSUME Inv, [Next]_vars, NEW c \in 1..(nextId - 1),
           Unforked(c), OneRefresh(c), OneRefresh(c)'
    PROVE  Unforked(c)'
<1>0. /\ TypeOK /\ FreshIds /\ c \in Nat /\ c # nextId
      /\ \A r \in Request : RequestConsistent(r) /\ LocatedRowUnchanged(r)
  BY DEF Inv, TypeOK
<1>a. ASSUME sessions' \subseteq sessions
      PROVE  SessionsOf(c)' \subseteq SessionsOf(c)
  BY <1>a DEF SessionsOf
<1>1. CASE UNCHANGED vars \/ Tick
  <2>1. sessions' = sessions /\ req' = req
    BY <1>1 DEF vars, Tick
  <2> QED
    BY <1>0, <2>1, NothingForks DEF SessionsOf, Refreshes, Renewing
<1>2. ASSUME NEW k \in issued, revokeSession(k)
      PROVE  Unforked(c)'
  <2>1. sessions' \subseteq sessions /\ req' = req
    BY <1>2 DEF revokeSession
  <2> QED
    BY <1>0, <1>a, <2>1, NothingForks DEF Refreshes, Renewing
<1>3. ASSUME NEW r \in Request, SignInCommit(r)
      PROVE  Unforked(c)'
  <2>1. /\ \A q \in Request \ {r} : req'[q] = req[q]
        /\ ~Renewing(r)'
    BY <1>0, <1>3 DEF SignInCommit, Renewing, TypeOK, RequestState
  <2>2. SessionsOf(c)' \subseteq SessionsOf(c)
    BY <1>0, <1>3 DEF SignInCommit, SessionsOf, buildSessionInsertValues
  <2> QED
    BY <1>0, <2>1, <2>2, OneMoves
<1>4. ASSUME NEW r \in Request, NEW s \in sessions, RefreshLookup(r, s)
      PROVE  Unforked(c)'
  <2>1. /\ \A q \in Request \ {r} : req'[q] = req[q]
        /\ req'[r].login = s.login /\ req'[r].id = s.id
        /\ sessions' = sessions
    BY <1>0, <1>4 DEF RefreshLookup, TypeOK, RequestState
  <2>2. CASE r \in Refreshes(c)'
    <3>1. \A q \in Refreshes(c)' : q = r
      BY <2>2 DEF OneRefresh
    <3>2. s \in SessionsOf(c)
      BY <2>1, <2>2 DEF SessionsOf, Refreshes
    <3>3. SessionsOf(c)' = SessionsOf(c)
      BY <2>1 DEF SessionsOf
    <3>4. \A t \in SessionsOf(c) : t = s
      BY <3>2 DEF Unforked
    <3> QED
      BY <2>1, <3>1, <3>3, <3>4 DEF Unforked
  <2>3. CASE r \notin Refreshes(c)'
    <3>1. \A q \in Refreshes(c)' :
              q \in Refreshes(c) /\ req'[q].id = req[q].id
      BY <2>1, <2>3 DEF Refreshes, Renewing
    <3> QED
      BY <1>0, <1>a, <2>1, <3>1, NothingForks
  <2> QED
    BY <2>2, <2>3
<1>5. ASSUME NEW r \in Request, RefreshCommit(r)
      PROVE  Unforked(c)'
  <2> DEFINE new == buildSessionInsertValues(req[r].user, req[r].new,
                                             req[r].login)
  <2>1. /\ \A q \in Request \ {r} : req'[q] = req[q]
        /\ Renewing(r) /\ ~Renewing(r)'
    BY <1>0, <1>5 DEF RefreshCommit, Renewing, TypeOK, RequestState
  <2>2. /\ sessions' = OthersThan(req[r].id) \cup {new}
        /\ new.login = req[r].login
    BY <1>5 DEF RefreshCommit, buildSessionInsertValues
  <2> HIDE DEF new
  <2>3. CASE req[r].login = c
    <3>1. r \in Refreshes(c)
      BY <2>1, <2>3 DEF Refreshes
    <3>2. \A s \in SessionsOf(c) : s.id = req[r].id
      BY <3>1 DEF Unforked
    <3>3. SessionsOf(c)' \subseteq {new}
      BY <2>2, <3>2 DEF SessionsOf, OthersThan
    <3>4. Refreshes(c)' = {}
      <4>1. \A q \in Refreshes(c) : q = r
        BY <3>1 DEF OneRefresh
      <4> QED
        BY <2>1, <4>1 DEF Refreshes, Renewing
    <3> QED
      BY <3>3, <3>4 DEF Unforked
  <2>4. CASE req[r].login # c
    <3>1. SessionsOf(c)' \subseteq SessionsOf(c)
      BY <2>2, <2>4 DEF SessionsOf, OthersThan
    <3> QED
      BY <1>0, <2>1, <3>1, OneMoves
  <2> QED
    BY <2>3, <2>4
<1>6. ASSUME NEW r \in Request, SignInSign(r) \/ RefreshSign(r)
      PROVE  Unforked(c)'
  <2>1. /\ \A q \in Request \ {r} : req'[q] = req[q]
        /\ sessions' = sessions
    BY <1>0, <1>6 DEF SignInSign, RefreshSign, TypeOK
  <2>2. CASE SignInSign(r)
    <3>1. ~Renewing(r)'
      BY <1>0, <2>2, SignInSigned DEF Renewing
    <3> QED
      BY <1>0, <1>a, <2>1, <3>1, OneMoves
  <2>3. CASE RefreshSign(r)
    <3>1. /\ Renewing(r)
          /\ req'[r].login = req[r].login /\ req'[r].id = req[r].id
      BY <1>0, <2>3, RefreshSigned DEF Renewing
    <3> QED
      BY <1>0, <1>a, <2>1, <3>1, OneMoves
  <2> QED
    BY <1>6, <2>2, <2>3
<1>7. ASSUME NEW r \in Request, SignInConflict(r) \/ RefreshConflict(r)
      PROVE  Unforked(c)'
  <2>1. /\ \A q \in Request \ {r} : req'[q] = req[q]
        /\ sessions' = sessions
        /\ ~Renewing(r)'
    BY <1>0, <1>7
       DEF SignInConflict, RefreshConflict, Renewing, TypeOK, RequestState
  <2> QED
    BY <1>0, <1>a, <2>1, OneMoves
<1>8. ASSUME NEW r \in Request, RefreshUnknown(r) \/ RefreshDrop(r)
                                \/ RevokeStep(r) \/ Respond(r) \/ Abort(r)
      PROVE  Unforked(c)'
  <2>1. /\ \A q \in Request \ {r} : req'[q] = req[q]
        /\ req'[r] = NoRequest
        /\ sessions' \subseteq sessions
    BY <1>0, <1>8 DEF RefreshUnknown, RefreshDrop, RevokeStep,
       revokeSessionById, revokeAllSessions, revokeOtherSessions, Respond,
       Abort, TypeOK
  <2>2. ~Renewing(r)'
    BY <2>1 DEF NoRequest, Renewing
  <2> QED
    BY <1>0, <1>a, <2>1, <2>2, OneMoves
<1>9. ASSUME NEW r \in Request, Arrive(r)
      PROVE  Unforked(c)'
  <2>1. /\ \A q \in Request \ {r} : req'[q] = req[q]
        /\ sessions' = sessions
    BY <1>0, <1>9
       DEF Arrive, SignInLookup, Authorise, verifyRefreshToken, TypeOK
  <2>2. ~Renewing(r)'
    BY <1>0, <1>9 DEF Arrive, SignInLookup, Authorise, verifyRefreshToken,
       Renewing, TypeOK, RequestState
  <2> QED
    BY <1>0, <1>a, <2>1, <2>2, OneMoves
<1> QED
  BY <1>1, <1>2, <1>3, <1>4, <1>5, <1>6, <1>7, <1>8, <1>9
     DEF Next, Progress, SignInStep, RefreshStep

\* As long as the refreshes of a login do not overlap, it has one session at
\* a time, whatever other requests do meanwhile (auth.service.ts:277-322).
THEOREM RotationMovesOneSession == Spec => RotationKeepsOneSession
<1>1. Inv /\ [Next]_vars => [\A c \in 1..(nextId - 1) :
          Unforked(c) /\ OneRefresh(c) /\ OneRefresh(c)'
          => Unforked(c)']_vars
  BY RotationStep
<1> QED
  BY <1>1, Invariance, PTL DEF Spec, RotationKeepsOneSession

-----------------------------------------------------------------------------
(* Keys and chains, for the modules that build on this one.                *)

\* The unique constraint holds, a chain is numbered like a row, and the row a
\* refresh located is the one of its token, which expired if the row did.
UniqueTokens ==
    \A s, t \in sessions : s.sessionToken = t.sessionToken => s = t

LoginIds ==
    /\ \A s \in sessions : s.login \in 1..(nextId - 1)
    /\ \A r \in Request :
           /\ req[r].login < nextId
           /\ req[r].stage \in Located => req[r].login # 0

LocatedToken(r) ==
    /\ req[r].stage \in Located =>
           \A s \in sessions : s.id = req[r].id => TokenOf(s) = req[r].token
    /\ req[r].stage = "stale" => ~Unexpired(req[r].token, RefreshTtl)

Keyed == UniqueTokens /\ LoginIds /\ \A r \in Request : LocatedToken(r)

LEMMA KeyedInit == Init => Keyed
BY DEF Init, NoRequest, Keyed, UniqueTokens, LoginIds, LocatedToken, Located

\* Only two steps insert a row.
LEMMA RowComes ==
    ASSUME TypeOK, [Next]_vars
    PROVE  Shrinks \/ \E r \in Request : SignInCommit(r) \/ RefreshCommit(r)
<1>1. CASE UNCHANGED vars \/ Tick \/ \E k \in issued : revokeSession(k)
  BY <1>1 DEF vars, Tick, revokeSession, Shrinks
<1>2. ASSUME NEW r \in Request, SignInStep(r), ~SignInCommit(r)
      PROVE  Shrinks
  BY <1>2 DEF SignInStep, SignInSign, SignInConflict, Shrinks
<1>3. ASSUME NEW r \in Request, RefreshStep(r), ~RefreshCommit(r)
      PROVE  Shrinks
  BY <1>3 DEF RefreshStep, RefreshUnknown, RefreshLookup, RefreshDrop,
              RefreshSign, RefreshConflict, Shrinks
<1>4. ASSUME NEW r \in Request, RevokeStep(r)
      PROVE  Shrinks
  BY <1>4 DEF RevokeStep, revokeSessionById, revokeAllSessions,
              revokeOtherSessions, Shrinks
<1>5. ASSUME NEW r \in Request, Arrive(r) \/ Respond(r) \/ Abort(r)
      PROVE  Shrinks
  BY <1>5 DEF Arrive, SignInLookup, Authorise, verifyRefreshToken, Respond,
              Abort, Shrinks
<1> QED
  BY <1>1, <1>2, <1>3, <1>4, <1>5 DEF Next, Progress

LEMMA UniqueStep ==
    ASSUME Inv, Keyed, [Next]_vars
    PROVE  UniqueTokens'
<1>1. TypeOK /\ UniqueTokens
  BY DEF Inv, Keyed
<1>2. CASE Shrinks
  BY <1>1, <1>2 DEF Shrinks, UniqueTokens
<1>3. ASSUME NEW r \in Request, NEW login, NEW rows \in SUBSET sessions,
             ~TokenTaken(rows, req[r].new),
             sessions' = rows \cup
                 {buildSessionInsertValues(req[r].user, req[r].new, login)}
      PROVE  UniqueTokens'
  <2> DEFINE new == buildSessionInsertValues(req[r].user, req[r].new, login)
  <2>1. new.sessionToken = hashToken(req[r].new)
    BY DEF buildSessionInsertValues
  <2>2. \A s \in rows : s.sessionToken # new.sessionToken
    BY <1>3, <2>1 DEF TokenTaken
  <2>3. sessions' = rows \cup {new} /\ rows \subseteq sessions
    BY <1>3
  <2> HIDE DEF new
  <2> QED
    BY <1>1, <2>2, <2>3 DEF UniqueTokens
<1>4. ASSUME NEW r \in Request, SignInCommit(r)
      PROVE  UniqueTokens'
  BY <1>3, <1>4 DEF SignInCommit
<1>5. ASSUME NEW r \in Request, RefreshCommit(r)
      PROVE  UniqueTokens'
  <2>1. OthersThan(req[r].id) \in SUBSET sessions
    BY DEF OthersThan
  <2> QED
    BY <1>3, <1>5, <2>1 DEF RefreshCommit
<1> QED
  BY <1>1, <1>2, <1>4, <1>5, RowComes

LEMMA LoginStep ==
    ASSUME Inv, Keyed, [Next]_vars
    PROVE  LoginIds'
<1>1. TypeOK /\ LoginIds /\ FreshIds
  BY DEF Inv, Keyed
<1>2. nextId \in Nat \ {0} /\ nextId' \in Nat /\ nextId <= nextId'
  BY <1>1, TableStep DEF TypeOK, Shrinks, Inserts
<1>3. \A s \in sessions' : s.login \in 1..(nextId' - 1)
  <2>1. CASE Shrinks
    BY <1>1, <2>1 DEF Shrinks, LoginIds
  <2>2. ASSUME NEW r \in Request, NEW login \in 1..nextId, nextId' = nextId + 1,
               sessions' \subseteq sessions \cup
                   {buildSessionInsertValues(req[r].user, req[r].new, login)}
        PROVE  \A s \in sessions' : s.login \in 1..(nextId' - 1)
    <3> DEFINE new == buildSessionInsertValues(req[r].user, req[r].new, login)
    <3>1. new.login = login
      BY DEF buildSessionInsertValues
    <3>2. sessions' \subseteq sessions \cup {new}
      BY <2>2
    <3> HIDE DEF new
    <3> QED
      BY <1>1, <1>2, <2>2, <3>1, <3>2 DEF LoginIds
  <2>3. ASSUME NEW r \in Request, SignInCommit(r)
        PROVE  \A s \in sessions' : s.login \in 1..(nextId' - 1)
    BY <1>2, <2>2, <2>3 DEF SignInCommit
  <2>4. ASSUME NEW r \in Request, RefreshCommit(r)
        PROVE  \A s \in sessions' : s.login \in 1..(nextId' - 1)
    <3>1. req[r].login \in 1..nextId
      BY <1>1, <1>2, <2>4
         DEF RefreshCommit, LoginIds, Located, TypeOK, RequestState
    <3> QED
      BY <2>2, <2>4, <3>1 DEF RefreshCommit, OthersThan
  <2> QED
    BY <1>1, <2>1, <2>3, <2>4, RowComes
<1>4. ASSUME NEW q \in Request
      PROVE  /\ req'[q].login < nextId'
             /\ req'[q].stage \in Located => req'[q].login # 0
  <2>1. /\ req[q].login < nextId /\ req[q].login \in Nat
        /\ req[q].stage \in Located => req[q].login # 0
    BY <1>1 DEF LoginIds, TypeOK, RequestState
  <2>2. ASSUME NEW s \in sessions, RefreshLookup(q, s)
        PROVE  req'[q].login < nextId' /\ req'[q].login # 0
    <3>1. req'[q].login = s.login
      BY <1>1, <2>2 DEF RefreshLookup, TypeOK, RequestState
    <3> QED
      BY <1>1, <1>2, <3>1 DEF LoginIds
  <2>3. CASE SignInSign(q)
    BY <1>1, <1>2, <2>1, <2>3, SignInSigned DEF Located
  <2>4. CASE RefreshSign(q)
    BY <1>1, <1>2, <2>1, <2>4, RefreshSigned DEF Located
  <2>5. CASE req'[q] = NoRequest \/ req'[q] = req[q]
    BY <1>2, <2>1, <2>5 DEF NoRequest, Located
  <2>6. CASE req'[q].stage \notin Located /\ req'[q].login = req[q].login
    BY <1>2, <2>1, <2>6
  <2> QED
    BY <1>1, <2>2, <2>3, <2>4, <2>5, <2>6, SlotSteps DEF SlotStep
<1> QED
  BY <1>3, <1>4 DEF LoginIds

\* A row that has expired stood for a token that has expired.
LEMMA StaleToken ==
    ASSUME Inv, NEW s \in sessions, clock > s.expiresAt
    PROVE  ~Unexpired(TokenOf(s), RefreshTtl)
<1> DEFINE n == TokenOf(s).iat + RefreshTtl
<1>1. /\ TypeOK /\ clock \in Nat /\ s \in Row
      /\ n * TicksPerSecond <= s.expiresAt
  BY ConstantsAssumption DEF Inv, TypeOK, RowOutlivesToken
<1>2. s.expiresAt \in Nat /\ n \in Nat
  <2>1. TokenOf(s) \in Token /\ s.expiresAt \in Nat
    BY <1>1 DEF Row, TokenOf
  <2> QED
    BY <2>1, SecondBounds, ConstantsAssumption DEF Token
<1> HIDE DEF n
<1>3. /\ Second(clock) \in Nat
      /\ clock < (Second(clock) + 1) * TicksPerSecond
  BY <1>1, SecondBounds
<1>4. ASSUME Second(clock) + 1 <= n
      PROVE  FALSE
  <2>1. (Second(clock) + 1) * TicksPerSecond <= n * TicksPerSecond
    BY <1>2, <1>3, <1>4, ProductMonotone
  <2> DEFINE a == (Second(clock) + 1) * TicksPerSecond
             b == n * TicksPerSecond
  <2>2. a \in Nat /\ b \in Nat
    BY <1>2, <1>3, ConstantsAssumption
  <2>3. clock < a /\ a <= b /\ b <= s.expiresAt
    BY <1>1, <1>3, <2>1
  <2> HIDE DEF a, b
  <2> QED
    BY <1>1, <1>2, <2>2, <2>3
<1>5. ~(Second(clock) < n)
  BY <1>2, <1>3, <1>4
<1> QED
  BY <1>5 DEF Unexpired, n

LEMMA LocatedTokenStep ==
    ASSUME Inv, Keyed, [Next]_vars, NEW q \in Request
    PROVE  LocatedToken(q)'
<1>1. /\ TypeOK /\ FreshIds /\ LocatedToken(q) /\ RequestConsistent(q)
  BY DEF Inv, Keyed
<1>2. CASE req'[q] = req[q]
  <2>1. ASSUME req[q].stage = "stale"
        PROVE  ~Unexpired(req[q].token, RefreshTtl)'
    <3>1. req[q].token.iat \in Nat
      BY <1>1, <2>1, SecondBounds, ConstantsAssumption
         DEF RequestConsistent, Located, Token
    <3> QED
      BY <1>1, <1>2, <2>1, <3>1, ClockStep, ConstantsAssumption
         DEF LocatedToken, Unexpired
  <2>2. ASSUME req[q].stage \in Located, NEW s \in sessions', s.id = req[q].id
        PROVE  TokenOf(s) = req[q].token
    <3>1. s \in sessions
      BY <1>1, <2>2, OldRows DEF FreshIds
    <3> QED
      BY <1>1, <2>2, <3>1 DEF LocatedToken
  <2> QED
    BY <1>2, <2>1, <2>2 DEF LocatedToken, Unexpired, TokenOf
<1>3. CASE RefreshSign(q)
  BY <1>1, <1>3, RefreshSigned DEF LocatedToken, Located, TokenOf
<1>4. ASSUME NEW s \in sessions, RefreshLookup(q, s)
      PROVE  LocatedToken(q)'
  <2>1. /\ sessions' = sessions /\ clock' = clock
        /\ req'[q].id = s.id
        /\ req'[q].token = req[q].token
        /\ TokenOf(s) = req[q].token
        /\ req'[q].stage = "stale" => clock > s.expiresAt
    BY <1>1, <1>4 DEF RefreshLookup, TypeOK, RequestState, TokenOf, hashToken
  <2>2. req'[q].stage = "stale" => ~Unexpired(req[q].token, RefreshTtl)
    BY <2>1, StaleToken
  <2>3. \A t \in sessions : t.id = s.id => t = s
    BY <1>1 DEF FreshIds
  <2> QED
    BY <2>1, <2>2, <2>3 DEF LocatedToken, Unexpired, TokenOf
<1>5. CASE req'[q] = NoRequest \/ SignInSign(q)
  BY <1>1, <1>5, SignInSigned DEF NoRequest, LocatedToken, Located
<1>6. CASE req'[q].stage \notin Located
  BY <1>6 DEF LocatedToken, Located
<1> QED
  BY <1>1, <1>2, <1>3, <1>4, <1>5, <1>6, SlotSteps DEF SlotStep

LEMMA KeyedStep == Inv /\ Keyed /\ [Next]_vars => Keyed'
BY UniqueStep, LoginStep, LocatedTokenStep DEF Keyed

\* The table never holds two rows of one token, whatever refreshes and
\* sign-ins overlap (auth.schema.ts:116-128, auth.service.ts:309-322), and a
\* refresh deletes the row of the token it was given or none.
THEOREM Keys == Spec => []Keyed
BY InvInit, InvStep, KeyedInit, KeyedStep, Invariance, PTL DEF Spec

==============================================================================
