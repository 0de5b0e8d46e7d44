-------------------------- MODULE PooledAccountsProofs --------------------------
(***************************************************************************)
(* Proofs about PooledAccounts, for any pool and any number of requests:   *)
(* what AuthAccountsProofs shows of the handlers survives the pool and the *)
(* end of the process, which never finds a transaction open.               *)
(***************************************************************************)
EXTENDS PooledAccounts, SequenceTheorems, FiniteSetTheorems, TLAPS

AP == INSTANCE AuthAccountsProofs

-----------------------------------------------------------------------------
(* AuthAccountsProofs speaks of the same handlers.                         *)

LEMMA SameValues ==
    /\ A!NoTransaction = AP!NoTransaction
    /\ A!NoRequest = AP!NoRequest
    /\ A!Identity = AP!Identity
    /\ A!TypeOK <=> AP!TypeOK
    /\ A!Init <=> AP!Init
  <1>1. A!NoTransaction = AP!NoTransaction
    BY DEF A!NoTransaction, AP!NoTransaction
  <1>2. A!NoRequest = AP!NoRequest
    BY DEF A!NoRequest, AP!NoRequest
  <1>3. A!Identity = AP!Identity
    BY DEF A!Identity, AP!Identity
  <1>4. A!TypeOK <=> AP!TypeOK
    BY DEF A!TypeOK, AP!TypeOK, A!UserRow, AP!UserRow, A!ProfileRow,
           AP!ProfileRow, A!AccountRow, AP!AccountRow, A!Transaction,
           AP!Transaction, A!RequestState, AP!RequestState, A!Stage, AP!Stage
  <1>5. A!Init <=> AP!Init
    BY <1>1, <1>2 DEF A!Init, AP!Init
  <1> QED
    BY <1>1, <1>2, <1>3, <1>4, <1>5

LEMMA SameDatabase ==
    ASSUME NEW r
    PROVE  /\ A!COMMIT(r) <=> AP!COMMIT(r)
           /\ A!ROLLBACK(r) <=> AP!ROLLBACK(r)
           /\ \A t : A!Statement(r, t) <=> AP!Statement(r, t)
           /\ A!NoStatement <=> AP!NoStatement
           /\ \A s : A!Goto(r, s) <=> AP!Goto(r, s)
           /\ \A e : A!EmailTaken(e) <=> AP!EmailTaken(e)
           /\ \A e : A!EmailPending(r, e) <=> AP!EmailPending(r, e)
           /\ \A a : A!AccountTaken(a) <=> AP!AccountTaken(a)
           /\ \A a : A!AccountPending(r, a) <=> AP!AccountPending(r, a)
           /\ \A id : A!RowLocked(r, id) <=> AP!RowLocked(r, id)
           /\ \A id : A!Unused(id) <=> AP!Unused(id)
  <1>1. A!COMMIT(r) <=> AP!COMMIT(r)
    BY SameValues DEF A!COMMIT, AP!COMMIT
  <1>2. A!ROLLBACK(r) <=> AP!ROLLBACK(r)
    BY SameValues DEF A!ROLLBACK, AP!ROLLBACK
  <1>3. \A t : A!Statement(r, t) <=> AP!Statement(r, t)
    BY DEF A!Statement, AP!Statement
  <1>4. A!NoStatement <=> AP!NoStatement
    BY DEF A!NoStatement, AP!NoStatement
  <1>5. \A s : A!Goto(r, s) <=> AP!Goto(r, s)
    BY DEF A!Goto, AP!Goto
  <1>6. \A e : A!EmailTaken(e) <=> AP!EmailTaken(e)
    BY DEF A!EmailTaken, AP!EmailTaken
  <1>7. \A e : A!EmailPending(r, e) <=> AP!EmailPending(r, e)
    BY DEF A!EmailPending, AP!EmailPending
  <1>8. \A a : A!AccountTaken(a) <=> AP!AccountTaken(a)
    BY DEF A!AccountTaken, AP!AccountTaken
  <1>9. \A a : A!AccountPending(r, a) <=> AP!AccountPending(r, a)
    BY DEF A!AccountPending, AP!AccountPending
  <1>10. \A id : A!RowLocked(r, id) <=> AP!RowLocked(r, id)
    BY DEF A!RowLocked, AP!RowLocked
  <1>11. \A id : A!Unused(id) <=> AP!Unused(id)
    BY DEF A!Unused, AP!Unused
  <1> QED
    BY <1>1, <1>2, <1>3, <1>4, <1>5, <1>6, <1>7, <1>8, <1>9, <1>10, <1>11

LEMMA SameProgress ==
    ASSUME NEW r
    PROVE  /\ A!Progress(r) <=> AP!Progress(r)
           /\ A!Abort(r) <=> AP!Abort(r)
  <1> USE SameValues, SameDatabase
  <1>1. A!SignUpStep(r) <=> AP!SignUpStep(r)
    BY DEF A!SignUpStep, AP!SignUpStep, A!SignUpInsertUser,
       AP!SignUpInsertUser, A!SignUpInsertProfile, AP!SignUpInsertProfile,
       A!SignUpCommit, AP!SignUpCommit, A!SendEmailVerification,
       AP!SendEmailVerification
  <1>2. A!SignInStep(r) <=> AP!SignInStep(r)
    BY DEF A!SignInStep, AP!SignInStep, A!SignInTouch, AP!SignInTouch,
       A!SignInCommit, AP!SignInCommit
  <1>3. \A stage : A!OAuthTouch(r, stage) <=> AP!OAuthTouch(r, stage)
    BY DEF A!OAuthTouch, AP!OAuthTouch
  <1>4. A!OAuthStep(r) <=> AP!OAuthStep(r)
    <2>1. /\ A!OAuthTouchLinked(r) <=> AP!OAuthTouchLinked(r)
          /\ A!OAuthUpdateUser(r) <=> AP!OAuthUpdateUser(r)
      BY <1>3 DEF A!OAuthTouchLinked, AP!OAuthTouchLinked,
                  A!OAuthUpdateUser, AP!OAuthUpdateUser
    <2>2. /\ A!OAuthNoEmail(r) <=> AP!OAuthNoEmail(r)
          /\ A!OAuthFindNobody(r) <=> AP!OAuthFindNobody(r)
      BY DEF A!OAuthNoEmail, AP!OAuthNoEmail, A!OAuthFindNobody,
             AP!OAuthFindNobody
    <2>3. \A u : A!OAuthFindUser(r, u) <=> AP!OAuthFindUser(r, u)
      BY DEF A!OAuthFindUser, AP!OAuthFindUser
    <2>4. \A id : A!OAuthInsertUser(r, id) <=> AP!OAuthInsertUser(r, id)
      BY DEF A!OAuthInsertUser, AP!OAuthInsertUser
    <2>5. A!OAuthProfile(r) <=> AP!OAuthProfile(r)
      BY DEF A!OAuthProfile, AP!OAuthProfile
    <2>6. A!OAuthInsertAccount(r) <=> AP!OAuthInsertAccount(r)
      BY DEF A!OAuthInsertAccount, AP!OAuthInsertAccount
    <2>7. /\ A!OAuthCommit(r) <=> AP!OAuthCommit(r)
          /\ A!OAuthSession(r) <=> AP!OAuthSession(r)
      BY DEF A!OAuthCommit, AP!OAuthCommit, A!OAuthSession, AP!OAuthSession
    <2> QED
      BY <2>1, <2>2, <2>3, <2>4, <2>5, <2>6, <2>7
      DEF A!OAuthStep, AP!OAuthStep
  <1>5. /\ A!EmailConflict(r) <=> AP!EmailConflict(r)
        /\ A!AccountConflict(r) <=> AP!AccountConflict(r)
        /\ A!SessionFails(r) <=> AP!SessionFails(r)
        /\ A!Respond(r) <=> AP!Respond(r)
        /\ A!Abort(r) <=> AP!Abort(r)
    BY DEF A!EmailConflict, AP!EmailConflict, A!AccountConflict,
       AP!AccountConflict, A!SessionFails, AP!SessionFails, A!Respond,
       AP!Respond, A!Abort, AP!Abort, A!UniqueViolation, AP!UniqueViolation
  <1> QED
    BY <1>1, <1>2, <1>4, <1>5 DEF A!Progress, AP!Progress

LEMMA SameStart ==
    ASSUME NEW r
    PROVE  /\ \A e : A!SignUp(r, e) <=> AP!SignUp(r, e)
           /\ \A u : A!SignIn(r, u) <=> AP!SignIn(r, u)
           /\ \A i, f : A!SignInWithOAuth(r, i, f) <=> AP!SignInWithOAuth(r, i, f)
  <1> USE SameValues, SameDatabase
  <1>1. \A s : A!Arrive(r, s) <=> AP!Arrive(r, s)
    BY DEF A!Arrive, AP!Arrive
  <1>2. \A e : A!SignUp(r, e) <=> AP!SignUp(r, e)
    BY <1>1 DEF A!SignUp, AP!SignUp
  <1>3. \A u : A!SignIn(r, u) <=> AP!SignIn(r, u)
    BY <1>1 DEF A!SignIn, AP!SignIn
  <1>4. \A a : A!LinkedUser(a) = AP!LinkedUser(a)
    BY DEF A!LinkedUser, AP!LinkedUser
  <1>5. \A i, f : A!EmailOf(i, f) = AP!EmailOf(i, f)
    BY DEF A!EmailOf, AP!EmailOf
  <1>6. \A i, f : A!SignInWithOAuth(r, i, f) <=> AP!SignInWithOAuth(r, i, f)
    BY <1>1, <1>4, <1>5 DEF A!SignInWithOAuth, AP!SignInWithOAuth
  <1> QED
    BY <1>2, <1>3, <1>6

-----------------------------------------------------------------------------
(* The inductive invariant: a transaction is open only on a connection.    *)

PoolInv ==
    /\ holds \subseteq Request
    /\ IsFiniteSet(holds)
    /\ Cardinality(holds) <= PoolMax
    /\ queue \in Seq(Request \ holds)
    /\ \A i, j \in 1..Len(queue) : queue[i] = queue[j] => i = j
    /\ process \in {"running", "ending", "gone"}

Connected == \A r \in Request : req[r].stage \in AP!Open => r \in holds

Inv == AP!Inv /\ PoolInv /\ Connected

-----------------------------------------------------------------------------
(* The handlers.                                                           *)

\* Those steps of PooledAccounts in which a handler moves.
LEMMA HandlerSteps ==
    ASSUME NEW r \in Request
    PROVE  /\ Start(r) => AP!Steps(r) /\ AP!Start(r)
           /\ Handle(r) => AP!Steps(r) /\ AP!Progress(r)
           /\ Refused(r) => AP!Steps(r) /\ AP!Abort(r)
           /\ NoConnection(r) => AP!Steps(r) /\ AP!Abort(r)
  <1>1. Start(r) => AP!Start(r)
    BY SameStart, SameValues DEF Start, AP!Start
  <1>2. Handle(r) => AP!Progress(r)
    BY SameProgress DEF Handle
  <1>3. Refused(r) \/ NoConnection(r) => AP!Abort(r)
    BY SameProgress DEF Refused, NoConnection
  <1> QED
    BY <1>1, <1>2, <1>3 DEF AP!Steps

LEMMA HandlerInv ==
    ASSUME AP!Inv, NEW r \in Request, AP!Steps(r)
    PROVE  /\ AP!Inv'
           /\ \A q \in Request \ {r} : req'[q].stage = req[q].stage
  <1>1. AP!Inv'
    BY AP!StepInv, PoolAssumption DEF PoolAssumption
  <1>2. AP!Frame(r) /\ req \in [Request -> AP!RequestState]
    BY AP!StepFrame, PoolAssumption DEF PoolAssumption, AP!Inv, AP!TypeOK
  <1>3. ASSUME NEW q \in Request \ {r} PROVE req'[q].stage = req[q].stage
    <2>1. req'[q] \in {req[q], [req[q] EXCEPT !.alone = FALSE]}
      BY <1>2 DEF AP!Frame, AP!Others
    <2>2. req[q] \in AP!RequestState
      BY <1>2
    <2> QED
      BY <2>1, <2>2 DEF AP!RequestState
  <1> QED
    BY <1>1, <1>3

\* A new request has looked something up and holds no connection.
LEMMA StartsOutside ==
    ASSUME AP!Inv, NEW r \in Request, AP!Start(r)
    PROVE  req'[r].stage \notin AP!Open
  <1>1. PICK s \in AP!RequestState :
            /\ AP!Arrive(r, s)
            /\ s.stage \in {"hashing", "checked", "linked", "unlinked"}
    <2>1. AP!TypeOK
      BY DEF AP!Inv
    <2> QED
      BY <2>1, AP!StartArrives, PoolAssumption DEF PoolAssumption
  <1>2. \E b : req'[r] = [s EXCEPT !.alone = b]
    BY <1>1 DEF AP!Arrive
  <1>3. req'[r].stage = s.stage
    BY <1>2 DEF AP!RequestState
  <1> QED
    BY <1>1, <1>3 DEF AP!Open

\* An aborted request is over.
LEMMA AbortIdle ==
    ASSUME AP!Inv, NEW r \in Request, AP!Abort(r)
    PROVE  req'[r].stage = "idle"
  BY DEF AP!Inv, AP!TypeOK, AP!Abort, AP!NoRequest

\* No transaction begins without a connection.
LEMMA UnconnectedStays ==
    ASSUME AP!Inv, NEW r \in Request, AP!Progress(r),
           req[r].stage \in Unconnected
    PROVE  req'[r].stage \notin AP!Open
  <1>1. req \in [Request -> AP!RequestState]
    BY DEF AP!Inv, AP!TypeOK
  <1>2. AP!SendEmailVerification(r) \/ AP!Respond(r)
    BY DEF Unconnected, AP!Progress, AP!SignUpStep, AP!SignInStep,
       AP!OAuthStep, AP!SignUpInsertUser, AP!SignUpInsertProfile,
       AP!SignUpCommit, AP!SignInTouch, AP!SignInCommit, AP!OAuthTouchLinked,
       AP!OAuthNoEmail, AP!OAuthFindNobody, AP!OAuthFindUser,
       AP!OAuthInsertUser, AP!OAuthUpdateUser, AP!OAuthProfile,
       AP!OAuthInsertAccount, AP!OAuthCommit, AP!OAuthSession,
       AP!EmailConflict, AP!AccountConflict, AP!SessionFails
  <1>3. CASE AP!SendEmailVerification(r)
    <2>1. req'[r] = [req[r] EXCEPT !.stage = "done"] /\ req[r] \in AP!RequestState
      BY <1>1, <1>3 DEF AP!SendEmailVerification, AP!Goto
    <2>2. req'[r].stage = "done"
      BY <2>1 DEF AP!RequestState
    <2> QED
      BY <2>2 DEF AP!Open
  <1>4. CASE AP!Respond(r)
    BY <1>1, <1>4 DEF AP!Respond, AP!NoRequest, AP!Open
  <1> QED
    BY <1>2, <1>3, <1>4

\* What is committed when the process dies is what AuthAccountsProofs knows.
LEMMA DeathInv ==
    ASSUME AP!Inv, Dead
    PROVE  AP!Inv'
  <1>1. /\ req' = [r \in Request |-> AP!NoRequest]
        /\ tx' = [r \in Request |-> AP!NoTransaction]
        /\ UNCHANGED <<users, profiles, accounts>>
    BY SameValues DEF Dead
  <1>2. /\ AP!NoTransaction \in AP!Transaction
        /\ AP!NoTransaction.users = {} /\ AP!NoTransaction.accounts = {}
        /\ AP!NoRequest \in AP!RequestState
        /\ AP!NoRequest.stage = "idle" /\ AP!NoRequest.account = NoAccount
    BY AP!EmptyTransaction, AP!IdleRequest, PoolAssumption DEF PoolAssumption
  <1>3. AP!TypeOK'
    BY <1>1, <1>2 DEF AP!Inv, AP!TypeOK
  <1>4. AP!UniqueUsers' /\ AP!UniqueAccounts' /\ AP!UsersComplete'
    <2>1. \A r \in Request : tx'[r].users = {} /\ tx'[r].accounts = {}
      BY <1>1, <1>2
    <2> QED
      BY <1>1, <2>1
      DEF AP!Inv, AP!UniqueUsers, AP!UniqueAccounts, AP!UsersComplete
  <1>5. \A r \in Request : AP!Parked(req[r], tx[r])'
    <2>1. \A r \in Request : /\ tx'[r] = AP!NoTransaction
                             /\ req'[r].stage = "idle"
      BY <1>1, <1>2
    <2> QED
      BY <2>1 DEF AP!Parked, AP!SignUpParked, AP!SignInParked,
                  AP!OAuthParked, AP!Open
  <1>6. \A r \in Request : AP!AloneInv(r)'
    BY <1>1, <1>2 DEF AP!AloneInv
  <1> QED
    BY <1>3, <1>4, <1>5, <1>6 DEF AP!Inv

-----------------------------------------------------------------------------
(* The pool.                                                               *)

LEMMA WithoutOne ==
    ASSUME NEW S, queue \in Seq(S), NEW i \in 1..Len(queue),
           \A j, k \in 1..Len(queue) : queue[j] = queue[k] => j = k
    PROVE  /\ Without(i) \in Seq(S)
           /\ \A j, k \in 1..Len(Without(i)) :
                  Without(i)[j] = Without(i)[k] => j = k
  <1> DEFINE n == Len(queue)
             at(j) == queue[IF j < i THEN j ELSE j + 1]
  <1>1. n \in Nat /\ i \in 1..n /\ n - 1 \in Nat
    BY LenProperties
  <1>2. \A j \in 1..(n - 1) : at(j) \in S
    <2>1. \A j \in 1..n : queue[j] \in S
      BY ElementOfSeq
    <2>2. \A j \in 1..(n - 1) : (IF j < i THEN j ELSE j + 1) \in 1..n
      BY <1>1
    <2> QED
      BY <2>1, <2>2
  <1>3. [j \in 1..(n - 1) |-> at(j)] \in Seq(S)
    <2> HIDE DEF at, n
    <2> QED
      BY <1>1, <1>2, IsASeq
  <1>4. Without(i) \in Seq(S)
    BY <1>3 DEF Without
  <1>5. /\ Len(Without(i)) = n - 1
        /\ \A j \in 1..(n - 1) : Without(i)[j] = at(j)
    BY <1>1, <1>4, LenProperties DEF Without
  <1>6. \A j, k \in 1..(n - 1) : at(j) = at(k) => j = k
    BY <1>1
  <1> QED
    BY <1>4, <1>5, <1>6

\* The limit and the queue.
LEMMA PoolShrinks ==
    ASSUME PoolInv, NEW r, holds' \in {holds, holds \ {r}},
           UNCHANGED <<queue, process>>
    PROVE  PoolInv'
  <1>1. /\ holds' \subseteq holds
        /\ IsFiniteSet(holds') /\ Cardinality(holds') <= Cardinality(holds)
        /\ Cardinality(holds') \in Nat /\ Cardinality(holds) \in Nat
    BY FS_Subset, FS_CardinalityType DEF PoolInv
  <1>2. queue \in Seq(Request \ holds')
    BY <1>1, SeqMonotonic DEF PoolInv
  <1>3. Cardinality(holds') <= PoolMax
    BY <1>1, PoolAssumption DEF PoolInv, PoolAssumption
  <1> QED
    BY <1>1, <1>2, <1>3 DEF PoolInv

LEMMA PoolGrows ==
    ASSUME PoolInv, Free, NEW r \in Request \ holds, holds' = holds \cup {r}
    PROVE  /\ holds' \subseteq Request /\ IsFiniteSet(holds')
           /\ Cardinality(holds') <= PoolMax
  <1>1. /\ IsFiniteSet(holds') /\ Cardinality(holds') = Cardinality(holds) + 1
        /\ Cardinality(holds) \in Nat
    BY FS_AddElement, FS_CardinalityType DEF PoolInv
  <1> QED
    BY <1>1, PoolAssumption DEF PoolInv, Free, PoolAssumption

LEMMA ConnectPool ==
    ASSUME PoolInv, NEW r \in Request, connect(r)
    PROVE  PoolInv'
  <1>1. CASE Free /\ queue = <<>>
    <2>1. holds' = holds \cup {r} /\ r \notin holds /\ queue' = <<>>
          /\ process' = process
      BY <1>1 DEF connect
    <2>2. /\ holds' \subseteq Request /\ IsFiniteSet(holds')
          /\ Cardinality(holds') <= PoolMax
      BY <1>1, <2>1, PoolGrows
    <2>3. queue' \in Seq(Request \ holds') /\ Len(queue') = 0
      BY <2>1, EmptySeq
    <2> QED
      BY <2>1, <2>2, <2>3 DEF PoolInv
  <1>2. CASE ~(Free /\ queue = <<>>)
    <2>1. /\ queue' = Append(queue, r) /\ r \in Request \ holds
          /\ UNCHANGED <<holds, process>>
          /\ \A i \in 1..Len(queue) : queue[i] # r
      BY <1>2 DEF connect, Waiting
    <2>2. /\ queue' \in Seq(Request \ holds) /\ Len(queue') = Len(queue) + 1
          /\ \A i \in 1..Len(queue) : queue'[i] = queue[i]
          /\ queue'[Len(queue) + 1] = r /\ Len(queue) \in Nat
      BY <2>1, AppendProperties, LenProperties DEF PoolInv
    <2>3. ASSUME NEW i \in 1..Len(queue'), NEW j \in 1..Len(queue'),
                 queue'[i] = queue'[j]
          PROVE  i = j
      <3>1. CASE i \in 1..Len(queue) /\ j \in 1..Len(queue)
        BY <2>2, <2>3, <3>1 DEF PoolInv
      <3>2. CASE i = Len(queue) + 1 \/ j = Len(queue) + 1
        BY <2>1, <2>2, <2>3, <3>2
      <3> QED
        BY <2>2, <3>1, <3>2
    <2> QED
      BY <2>1, <2>2, <2>3 DEF PoolInv
  <1> QED
    BY <1>1, <1>2

LEMMA GrantPool ==
    ASSUME PoolInv, Grant
    PROVE  PoolInv'
  <1> DEFINE r == Head(queue)
  <1>1. /\ r \in Request \ holds
        /\ Tail(queue) \in Seq(Request \ holds)
        /\ Len(queue) \in Nat /\ Len(queue) # 0
        /\ Len(Tail(queue)) = Len(queue) - 1
        /\ \A i \in 1..Len(Tail(queue)) : Tail(queue)[i] = queue[i + 1]
        /\ r = queue[1]
    BY HeadTailProperties, LenProperties, EmptySeq DEF PoolInv, Grant
  <1>2. /\ holds' = holds \cup {r} /\ queue' = Tail(queue)
        /\ process' = process
    BY DEF Grant
  <1>3. /\ holds' \subseteq Request /\ IsFiniteSet(holds')
        /\ Cardinality(holds') <= PoolMax
    BY <1>1, <1>2, PoolGrows DEF Grant
  <1>4. \A i \in 1..Len(queue') : queue'[i] \in Request \ holds'
    <2>1. ASSUME NEW i \in 1..Len(queue')
          PROVE  queue'[i] \in Request \ holds /\ queue'[i] # queue[1]
      <3>1. i + 1 \in 1..Len(queue) /\ i + 1 # 1 /\ 1 \in 1..Len(queue)
        BY <1>1, <1>2
      <3>2. queue'[i] = queue[i + 1]
        BY <1>1, <1>2
      <3>3. queue[i + 1] \in Request \ holds
        BY <3>1, ElementOfSeq DEF PoolInv
      <3> QED
        BY <3>1, <3>2, <3>3 DEF PoolInv
    <2> QED
      BY <1>1, <1>2, <2>1
  <1>5. queue' \in Seq(Request \ holds')
    <2> DEFINE n == Len(queue')
               U == Request \ holds'
    <2>1. n \in Nat /\ queue' \in [1..n -> Request \ holds]
      BY <1>1, <1>2, LenProperties
    <2>2. queue' \in [1..n -> U]
      BY <1>4, <2>1
    <2> HIDE DEF n, U
    <2>3. queue' \in Seq(U)
      BY <2>1, <2>2, SeqDef
    <2> QED
      BY <2>3 DEF U
  <1>6. \A i, j \in 1..Len(queue') : queue'[i] = queue'[j] => i = j
    BY <1>1, <1>2 DEF PoolInv
  <1> QED
    BY <1>2, <1>3, <1>5, <1>6 DEF PoolInv

LEMMA NoConnectionPool ==
    ASSUME PoolInv, NEW r \in Request, NoConnection(r)
    PROVE  PoolInv'
  <1>1. UNCHANGED <<holds, process>>
    BY DEF NoConnection
  <1>2. CASE UNCHANGED queue
    BY <1>1, <1>2 DEF PoolInv
  <1>3. ASSUME NEW i \in 1..Len(queue), queue' = Without(i)
        PROVE  PoolInv'
    <2>1. /\ queue' \in Seq(Request \ holds)
          /\ \A j, k \in 1..Len(queue') : queue'[j] = queue'[k] => j = k
      BY <1>3, WithoutOne DEF PoolInv
    <2> QED
      BY <1>1, <2>1 DEF PoolInv
  <1> QED
    BY <1>2, <1>3 DEF NoConnection

LEMMA DeadPool ==
    ASSUME Dead
    PROVE  PoolInv'
  <1>1. holds' = {} /\ queue' = <<>> /\ process' = "gone"
    BY DEF Dead
  <1>2. IsFiniteSet({}) /\ Cardinality({}) = 0
    BY FS_EmptySet
  <1>3. <<>> \in Seq(Request) /\ Len(<<>>) = 0
    BY EmptySeq
  <1>4. 0 <= PoolMax
    BY PoolAssumption DEF PoolAssumption
  <1> QED
    BY <1>1, <1>2, <1>3, <1>4 DEF PoolInv

-----------------------------------------------------------------------------
(* Inv is inductive.                                                       *)

LEMMA InitInv == Init => Inv
  <1> SUFFICES ASSUME Init PROVE Inv
    OBVIOUS
  <1>1. AP!Inv
    BY AP!InitInv, SameValues, PoolAssumption DEF Init, PoolAssumption
  <1>2. PoolInv
    <2>1. IsFiniteSet({}) /\ Cardinality({}) = 0 /\ 0 <= PoolMax
      BY FS_EmptySet, PoolAssumption DEF PoolAssumption
    <2>2. <<>> \in Seq(Request) /\ Len(<<>>) = 0
      BY EmptySeq
    <2> QED
      BY <2>1, <2>2 DEF Init, PoolInv
  <1>3. \A r \in Request : req[r].stage = "idle"
    BY DEF Init, A!Init, A!NoRequest
  <1>4. Connected
    BY <1>3 DEF Connected, AP!Open
  <1> QED
    BY <1>1, <1>2, <1>4 DEF Inv

\* A step of the handler of r, whatever it does to the pool.
LEMMA HandlerConnected ==
    ASSUME AP!Inv, Connected, NEW r \in Request, AP!Steps(r),
           holds \ {r} \subseteq holds',
           req'[r].stage \in AP!Open => r \in holds'
    PROVE  Connected'
  BY HandlerInv DEF Connected

\* The pool may serve or refuse without a handler moving.
LEMMA TablesStay ==
    ASSUME AP!Inv, UNCHANGED tables
    PROVE  AP!Inv'
  <1>1. UNCHANGED AP!vars
    BY DEF tables, AP!vars
  <1> QED
    BY <1>1, AP!NextInv, PoolAssumption DEF PoolAssumption

LEMMA StepInv == Inv /\ [Next]_vars => Inv'
  <1> SUFFICES ASSUME Inv, [Next]_vars PROVE Inv'
    OBVIOUS
  <1> USE DEF Inv
  <1>1. ASSUME NEW r \in Request, Start(r) PROVE Inv'
    <2>1. AP!Inv' /\ Connected'
      BY <1>1, HandlerSteps, HandlerInv, HandlerConnected, StartsOutside
      DEF Start
    <2>2. PoolInv'
      BY <1>1 DEF Start, PoolInv
    <2> QED
      BY <2>1, <2>2
  <1>2. ASSUME NEW r \in Request, connect(r) PROVE Inv'
    <2>1. UNCHANGED tables /\ holds \subseteq holds'
      BY <1>2 DEF connect
    <2>2. AP!Inv' /\ Connected'
      BY <2>1, TablesStay DEF Connected, tables
    <2> QED
      BY <1>2, <2>2, ConnectPool
  <1>3. ASSUME NEW r \in Request, Handle(r) PROVE Inv'
    <2>1. /\ AP!Steps(r) /\ AP!Progress(r)
          /\ r \in holds \/ req[r].stage \in Unconnected
          /\ holds' = IF req'[r].stage \in Returns THEN holds \ {r} ELSE holds
          /\ UNCHANGED <<queue, process>>
      BY <1>3, HandlerSteps DEF Handle
    <2>2. req'[r].stage \in AP!Open => r \in holds'
      <3>1. CASE req[r].stage \in Unconnected
        BY <2>1, <3>1, UnconnectedStays
      <3>2. CASE r \in holds
        BY <2>1, <3>2 DEF AP!Open, Returns
      <3> QED
        BY <2>1, <3>1, <3>2
    <2>3. AP!Inv' /\ Connected'
      BY <2>1, <2>2, HandlerInv, HandlerConnected
    <2>4. PoolInv'
      BY <2>1, PoolShrinks
    <2> QED
      BY <2>3, <2>4
  <1>4. ASSUME NEW r \in Request, Refused(r) PROVE Inv'
    <2>1. /\ AP!Steps(r) /\ AP!Abort(r)
          /\ holds' = holds \ {r} /\ UNCHANGED <<queue, process>>
      BY <1>4, HandlerSteps DEF Refused
    <2>2. req'[r].stage \notin AP!Open
      BY <2>1, AbortIdle DEF AP!Open
    <2>3. AP!Inv' /\ Connected'
      BY <2>1, <2>2, HandlerInv, HandlerConnected
    <2>4. PoolInv'
      BY <2>1, PoolShrinks
    <2> QED
      BY <2>3, <2>4
  <1>5. ASSUME NEW r \in Request, NoConnection(r) PROVE Inv'
    <2>1. AP!Steps(r) /\ AP!Abort(r) /\ holds' = holds
      BY <1>5, HandlerSteps DEF NoConnection
    <2>2. req'[r].stage \notin AP!Open
      BY <2>1, AbortIdle DEF AP!Open
    <2>3. AP!Inv' /\ Connected'
      BY <2>1, <2>2, HandlerInv, HandlerConnected
    <2> QED
      BY <1>5, <2>3, NoConnectionPool
  <1>6. CASE Grant
    <2>1. UNCHANGED tables /\ holds \subseteq holds'
      BY <1>6 DEF Grant
    <2>2. AP!Inv' /\ Connected'
      BY <2>1, TablesStay DEF Connected, tables
    <2> QED
      BY <1>6, <2>2, GrantPool
  <1>7. CASE onApplicationShutdown \/ UNCHANGED vars
    <2>1. /\ UNCHANGED tables /\ UNCHANGED <<holds, queue>>
          /\ process' \in {process, "ending"}
      BY <1>7 DEF onApplicationShutdown, vars, tables
    <2>2. AP!Inv' /\ Connected'
      BY <2>1, TablesStay DEF Connected, tables
    <2>3. PoolInv'
      BY <2>1 DEF PoolInv
    <2> QED
      BY <2>2, <2>3
  <1>8. CASE Exit \/ IdleError \/ QuitFails
    <2>1. Dead
      BY <1>8 DEF Exit, IdleError, QuitFails
    <2>2. \A r \in Request : req'[r].stage = "idle"
      BY <2>1 DEF Dead, A!NoRequest
    <2>3. Connected'
      BY <2>2 DEF Connected, AP!Open
    <2> QED
      BY <2>1, <2>3, DeathInv, DeadPool
  <1> QED
    BY <1>1, <1>2, <1>3, <1>4, <1>5, <1>6, <1>7, <1>8 DEF Next

\* Every transaction is open on a connection, on a pool of any size, and the
\* tables are as AuthAccountsProofs leaves them in every state, also after the
\* process has died (database.module.ts:18-51).
THEOREM Invariance == Spec => []Inv
  <1>1. Init => Inv
    BY InitInv
  <1>2. Inv /\ [Next]_vars => Inv'
    BY StepInv
  <1> QED
    BY <1>1, <1>2, PTL DEF Spec

\* The pool never exceeds its limit and nobody holds one connection while
\* waiting for another (database.module.ts:46-51).
THEOREM TypeCorrect == Spec => []TypeOK
  <1>1. Inv => TypeOK
    BY SameValues DEF Inv, PoolInv, TypeOK, AP!Inv
  <1> QED
    BY <1>1, Invariance, PTL

\* The process exits between transactions: pool.end() waits for every
\* connection, and there is no transaction without one
\* (database.module.ts:23-26).
THEOREM ShutdownCutsNothing == Spec => NothingCut
  <1> DEFINE Uncut == process = "ending" /\ process' = "gone"
                      => \A r \in Request : tx[r] = A!NoTransaction
  <1>1. Inv /\ [Next]_vars => [Uncut]_vars
    <2> SUFFICES ASSUME Inv, Next, process = "ending", process' = "gone",
                        NEW r \in Request
                 PROVE  tx[r] = A!NoTransaction
      OBVIOUS
    <2>1. holds = {}
      BY DEF Next, Start, connect, Handle, Refused, NoConnection, Grant,
             onApplicationShutdown, Exit, IdleError, QuitFails
    <2>2. AP!Parked(req[r], tx[r]) /\ req[r].stage \notin AP!Open
      BY <2>1 DEF Inv, AP!Inv, Connected
    <2> QED
      BY <2>2, SameValues DEF AP!Parked
  <1> QED
    BY <1>1, Invariance, PTL DEF Spec, NothingCut

\* Users are complete in the database whatever has been written when the
\* process dies, and stay so (auth.service.ts:124-148, 409-500).
THEOREM CompleteThroughDeath == Spec => []CompleteAfterDeath
  <1>1. Inv => CompleteAfterDeath
    BY DEF Inv, AP!Inv, AP!UsersComplete, CompleteAfterDeath, A!UsersComplete
  <1> QED
    BY <1>1, Invariance, PTL

================================================================================
