--------------------------- MODULE AuthAccountsProofs ---------------------------
(***************************************************************************)
(* Proofs about AuthAccounts, for any users, emails, provider accounts and *)
(* requests.  Inv below is inductive; the properties follow from it, the   *)
(* action property and the refinement with one more look at a commit.      *)
(***************************************************************************)
EXTENDS AuthAccounts, TLAPS

-----------------------------------------------------------------------------
(* The inductive invariant.                                                *)

\* The database keeps ids, emails and provider accounts unique over committed
\* rows and over rows that open transactions have inserted.
Distinct(u, v) == u.id # v.id /\ u.email # v.email

UniqueUsers ==
    /\ \A u, v \in users : u # v => Distinct(u, v)
    /\ \A r \in Request : \A u \in tx[r].users, v \in users : Distinct(u, v)
    /\ \A r, q \in Request : r # q =>
           \A u \in tx[r].users, v \in tx[q].users : Distinct(u, v)

UniqueAccounts ==
    /\ \A k, l \in accounts :
           k.providerAccountId = l.providerAccountId => k = l
    /\ \A r \in Request : \A k \in tx[r].accounts, l \in accounts :
           k.providerAccountId # l.providerAccountId
    /\ \A r, q \in Request : r # q =>
           \A k \in tx[r].accounts, l \in tx[q].accounts :
               k.providerAccountId # l.providerAccountId

\* Stages at which a transaction is open.
Open == {"signUpUser", "signUpProfile", "touched", "profile", "link", "ready"}

HasUser(id, e) == \E u \in users : u.id = id /\ u.email = e

HasPassword(id, e) ==
    \E u \in users : u.id = id /\ u.email = e /\ u.password

ProfileOf(id) == [userId |-> id]

LinkOf(q) == [userId |-> q.user, providerAccountId |-> q.account]

NewUser(q, password, verified) ==
    [id |-> q.user, email |-> q.email, password |-> password,
     verified |-> verified]

\* The transaction of a sign-up holds the user and later its profile.
SignUpParked(q, t) ==
    /\ q.stage \in {"hashing", "signUpUser", "signUpProfile"} =>
           q.account = NoAccount /\ q.email \in Email
    /\ q.stage \in {"signUpUser", "signUpProfile"} =>
           /\ t.users = {NewUser(q, TRUE, FALSE)}
           /\ t.accounts = {}
           /\ t.verified = {}
    /\ q.stage = "signUpProfile" => t.profiles = {ProfileOf(q.user)}

\* A password sign-in has its user, and only locks the row.
SignInParked(q, t) ==
    /\ q.stage \in {"created", "checked", "touched"} => q.account = NoAccount
    /\ \/ q.stage \in {"created", "checked", "touched"}
       \/ q.stage = "done" /\ q.account = NoAccount
       => HasPassword(q.user, q.email)
    /\ q.stage = "touched" =>
           t.users = {} /\ t.profiles = {} /\ t.accounts = {} /\ t.verified = {}

\* The user of an OAuth sign-in that is not linked yet is there already, or
\* is the one this transaction inserts.
OwnerReady(q, t) ==
    /\ q.email \in Email
    /\ \/ HasUser(q.user, q.email) /\ t.users = {}
       \/ t.users = {NewUser(q, FALSE, q.verified)}

\* It has a profile as well.
ProfileReady(q, t) ==
    /\ t.profiles \subseteq {ProfileOf(q.user)}
    /\ ProfileOf(q.user) \in profiles \cup t.profiles

OAuthParked(q, t) ==
    /\ q.stage \in {"linked", "unlinked", "known", "new", "profile", "link",
                    "ready", "committed"} => q.account \in Account
    /\ q.stage \in {"linked", "committed"} => LinkOf(q) \in accounts
    /\ q.stage = "done" /\ q.account # NoAccount => LinkOf(q) \in accounts
    /\ q.stage \in {"known", "new"} => q.email \in Email
    /\ q.stage = "known" => HasUser(q.user, q.email)
    /\ q.stage = "profile" =>
           OwnerReady(q, t) /\ t.profiles = {} /\ t.accounts = {}
    /\ q.stage = "link" =>
           OwnerReady(q, t) /\ ProfileReady(q, t) /\ t.accounts = {}
    /\ q.stage = "ready" =>
           \/ /\ LinkOf(q) \in accounts
              /\ t.users = {} /\ t.profiles = {} /\ t.accounts = {}
           \/ /\ OwnerReady(q, t) /\ ProfileReady(q, t)
              /\ t.accounts = {LinkOf(q)}

\* What a handler and its transaction have come to when it is parked.
Parked(q, t) ==
    /\ q.stage \notin Open => t = NoTransaction
    /\ SignUpParked(q, t)
    /\ SignInParked(q, t)
    /\ OAuthParked(q, t)

\* What a request found free is still free unless another one came.
AloneInv(r) ==
    req[r].alone /\ req[r].stage # "idle" =>
        /\ \A q \in Request \ {r} : req[q].stage = "idle"
        /\ req[r].stage \in {"hashing", "new"} => ~EmailTaken(req[r].email)
        /\ req[r].stage \in {"unlinked", "known", "new", "profile", "link"} =>
               ~AccountTaken(req[r].account)
        /\ req[r].stage # "conflict"

Inv ==
    /\ TypeOK
    /\ UniqueUsers
    /\ UniqueAccounts
    /\ UsersComplete
    /\ \A r \in Request : Parked(req[r], tx[r])
    /\ \A r \in Request : AloneInv(r)

-----------------------------------------------------------------------------
(* What a commit does to the tables.                                       *)

LEMMA EmptyTransaction ==
    /\ NoTransaction \in Transaction
    /\ NoTransaction.users = {} /\ NoTransaction.profiles = {}
    /\ NoTransaction.accounts = {} /\ NoTransaction.verified = {}
  BY DEF NoTransaction, Transaction

LEMMA IdleRequest ==
    /\ NoRequest \in RequestState
    /\ NoRequest.stage = "idle" /\ NoRequest.account = NoAccount
  BY DEF NoRequest, RequestState, Stage

\* A committed row was inserted by r, or is an earlier one that r may have
\* verified.
LEMMA CommittedUsers ==
    ASSUME TypeOK, NEW r \in Request, COMMIT(r)
    PROVE  /\ \A v \in users' :
                  \/ v \in tx[r].users
                  \/ \E u \in users : /\ v.id = u.id /\ v.email = u.email
                                      /\ v.password = u.password
           /\ \A u \in users : \E v \in users' :
                  v.id = u.id /\ v.email = u.email /\ v.password = u.password
           /\ tx[r].users \subseteq users'
           /\ users' \subseteq UserRow
  <1> DEFINE Kept(u) == [u EXCEPT !.verified = @ \/ u.id \in tx[r].verified]
  <1>1. users' = tx[r].users \cup {Kept(u) : u \in users}
    BY DEF COMMIT
  <1>2. ASSUME NEW u \in users
        PROVE  /\ Kept(u) \in UserRow
               /\ Kept(u).id = u.id /\ Kept(u).email = u.email
               /\ Kept(u).password = u.password
    <2>1. u \in UserRow
      BY DEF TypeOK
    <2>2. (u.verified \/ u.id \in tx[r].verified) \in BOOLEAN
      BY <2>1
    <2> QED
      BY <2>1, <2>2 DEF UserRow
  <1>3. tx[r].users \subseteq UserRow
    BY DEF TypeOK, Transaction
  <1> HIDE DEF Kept
  <1> QED
    BY <1>1, <1>2, <1>3

\* What the tables say of users, profiles and accounts is never taken back.
Grows ==
    /\ \A id \in Id \cup {NoId}, e \in Email \cup {NoEmail} :
           /\ HasUser(id, e) => HasUser(id, e)'
           /\ HasPassword(id, e) => HasPassword(id, e)'
    /\ profiles \subseteq profiles'
    /\ accounts \subseteq accounts'

LEMMA CommitGrows ==
    ASSUME TypeOK, NEW r \in Request, COMMIT(r)
    PROVE  Grows
  <1>1. \A u \in users : \E v \in users' :
            v.id = u.id /\ v.email = u.email /\ v.password = u.password
    BY CommittedUsers
  <1>2. profiles \subseteq profiles' /\ accounts \subseteq accounts'
    BY DEF COMMIT
  <1> QED
    BY <1>1, <1>2 DEF Grows, HasUser, HasPassword

LEMMA UnchangedGrows ==
    ASSUME UNCHANGED <<users, profiles, accounts>>
    PROVE  Grows
  BY DEF Grows, HasUser, HasPassword

-----------------------------------------------------------------------------
(* What a step leaves alone.                                               *)

\* Of the other requests at most the history changes.
Others(r) ==
    \A q \in Request \ {r} :
        tx'[q] = tx[q] /\ req'[q] \in {req[q], [req[q] EXCEPT !.alone = FALSE]}

Steps(r) == Start(r) \/ Progress(r) \/ Abort(r)

LEMMA ArriveOthers ==
    ASSUME NEW r \in Request, NEW s, Arrive(r, s)
    PROVE  /\ Others(r) /\ UNCHANGED <<users, profiles, accounts, tx>>
           /\ req[r].stage = "idle"
  BY DEF Arrive, Others, NoStatement

LEMMA StartArrives ==
    ASSUME TypeOK, NEW r \in Request, Start(r)
    PROVE  \E s \in RequestState :
               /\ Arrive(r, s)
               /\ \/ s.stage = "hashing" /\ ~EmailTaken(s.email)
                     /\ s.account = NoAccount /\ s.email \in Email
                  \/ s.stage = "checked" /\ s.account = NoAccount
                     /\ HasPassword(s.user, s.email)
                  \/ s.stage = "linked" /\ s.account \in Account
                     /\ LinkOf(s) \in accounts
                  \/ s.stage = "unlinked" /\ s.account \in Account
                     /\ ~AccountTaken(s.account)
  <1> USE DEF RequestState, Stage
  <1>1. ASSUME NEW e \in Email, SignUp(r, e)
        PROVE  LET s == [NoRequest EXCEPT !.stage = "hashing", !.email = e] IN
               /\ s \in RequestState /\ Arrive(r, s)
               /\ s.stage = "hashing" /\ ~EmailTaken(s.email)
               /\ s.account = NoAccount /\ s.email \in Email
    BY <1>1 DEF SignUp, NoRequest
  <1>2. ASSUME NEW u \in users, SignIn(r, u)
        PROVE  LET s == [NoRequest EXCEPT
                            !.stage = "checked", !.email = u.email, !.user = u.id]
               IN
               /\ s \in RequestState /\ Arrive(r, s)
               /\ s.stage = "checked" /\ s.account = NoAccount
               /\ HasPassword(s.user, s.email)
    BY <1>2 DEF SignIn, NoRequest, TypeOK, UserRow, HasPassword
  <1>3. ASSUME NEW i \in Identity, NEW f \in Email \cup {NoEmail},
               SignInWithOAuth(r, i, f)
        PROVE  \E s \in RequestState :
                   /\ Arrive(r, s)
                   /\ \/ s.stage = "linked" /\ s.account \in Account
                         /\ LinkOf(s) \in accounts
                      \/ s.stage = "unlinked" /\ s.account \in Account
                         /\ ~AccountTaken(s.account)
    <2> DEFINE a == i.providerAccountId
               s == [NoRequest EXCEPT
                        !.stage = IF LinkedUser(a) = NoId THEN "unlinked"
                                                          ELSE "linked",
                        !.account = a, !.email = EmailOf(i, f),
                        !.verified = i.emailVerified, !.user = LinkedUser(a)]
    <2>1. a \in Account /\ i.emailVerified \in BOOLEAN
          /\ EmailOf(i, f) \in Email \cup {NoEmail}
      BY DEF Identity, EmailOf
    <2>2. CASE AccountTaken(a)
      <3>1. PICK l \in accounts :
                l.providerAccountId = a /\ LinkedUser(a) = l.userId
        BY <2>2 DEF AccountTaken, LinkedUser
      <3>2. l = [userId |-> LinkedUser(a), providerAccountId |-> a]
            /\ LinkedUser(a) \in Id
        BY <3>1 DEF TypeOK, AccountRow
      <3>3. LinkedUser(a) # NoId
        BY <3>2, NamesAssumption
      <3>4. s \in RequestState /\ s.stage = "linked" /\ s.account = a
            /\ s.user = LinkedUser(a)
        BY <2>1, <3>2, <3>3 DEF NoRequest
      <3> QED
        BY <1>3, <2>1, <3>1, <3>2, <3>4 DEF SignInWithOAuth, LinkOf
    <2>3. CASE ~AccountTaken(a)
      <3>1. LinkedUser(a) = NoId
        BY <2>3 DEF LinkedUser
      <3>2. s \in RequestState /\ s.stage = "unlinked" /\ s.account = a
        BY <2>1, <3>1 DEF NoRequest
      <3> QED
        BY <1>3, <2>1, <2>3, <3>2 DEF SignInWithOAuth
    <2> QED
      BY <2>2, <2>3
  <1> QED
    BY <1>1, <1>2, <1>3 DEF Start

\* What the step of a request leaves behind in its own slot.
Lands(r) ==
    /\ tx'[r] \in Transaction /\ req'[r] \in RequestState
    /\ Parked(req[r], tx[r])'

LEMMA SlotTyped ==
    ASSUME TypeOK, NEW r \in Request
    PROVE  tx[r] \in Transaction /\ req[r] \in RequestState
  BY DEF TypeOK

LEMMA StartLands ==
    ASSUME TypeOK, NEW r \in Request, Parked(req[r], tx[r]), Start(r)
    PROVE  Lands(r)
  <1>1. PICK s \in RequestState :
            /\ Arrive(r, s)
            /\ \/ s.stage = "hashing" /\ ~EmailTaken(s.email)
                  /\ s.account = NoAccount /\ s.email \in Email
               \/ s.stage = "checked" /\ s.account = NoAccount
                  /\ HasPassword(s.user, s.email)
               \/ s.stage = "linked" /\ s.account \in Account
                  /\ LinkOf(s) \in accounts
               \/ s.stage = "unlinked" /\ s.account \in Account
                  /\ ~AccountTaken(s.account)
    BY StartArrives
  <1>2. /\ req[r].stage = "idle" /\ UNCHANGED <<users, profiles, accounts, tx>>
        /\ \E b \in BOOLEAN : req'[r] = [s EXCEPT !.alone = b]
    BY <1>1 DEF Arrive, NoStatement
  <1>3. tx'[r] = NoTransaction
    BY <1>2 DEF Parked, Open
  <1>4. /\ req'[r] \in RequestState /\ req'[r].stage = s.stage
        /\ req'[r].email = s.email /\ req'[r].account = s.account
        /\ req'[r].user = s.user
    BY <1>2 DEF RequestState
  <1>5. HasPassword(s.user, s.email)' <=> HasPassword(s.user, s.email)
    BY <1>2 DEF HasPassword
  <1> QED
    BY <1>1, <1>2, <1>3, <1>4, <1>5, EmptyTransaction
    DEF Lands, Parked, SignUpParked, SignInParked, OAuthParked, LinkOf, Open

LEMMA SignUpLands ==
    ASSUME TypeOK, NEW r \in Request, Parked(req[r], tx[r]), SignUpStep(r)
    PROVE  Lands(r)
  <1>a. tx \in [Request -> Transaction] /\ req \in [Request -> RequestState]
    BY DEF TypeOK
  <1>b. tx[r] \in Transaction /\ req[r] \in RequestState
    BY <1>a
  <1> USE DEF Lands, Parked, SignUpParked, SignInParked, OAuthParked, Open
  <1>1. ASSUME NEW id \in Id, SignUpInsertUser(r, id) PROVE Lands(r)
    <2> DEFINE row == [id |-> id, email |-> req[r].email, password |-> TRUE,
                       verified |-> FALSE]
    <2>1. req[r].email \in Email /\ req[r].account = NoAccount
      BY <1>1 DEF SignUpInsertUser
    <2>2. row \in UserRow
      BY <2>1 DEF UserRow
    <2>3. tx[r] = NoTransaction
      BY <1>1 DEF SignUpInsertUser
    <2>4. /\ tx'[r] \in Transaction
          /\ tx'[r].users = {row} /\ tx'[r].accounts = {}
          /\ tx'[r].verified = {}
      <3>1. tx'[r] = [tx[r] EXCEPT !.users = {row}]
        BY <1>1, <1>a DEF SignUpInsertUser, Statement
      <3>2. tx[r].accounts = {} /\ tx[r].verified = {}
        BY <2>3, EmptyTransaction
      <3> HIDE DEF row
      <3> QED
        BY <1>b, <2>2, <3>1, <3>2 DEF Transaction
    <2>5. /\ req'[r] \in RequestState /\ req'[r].stage = "signUpUser"
          /\ req'[r].user = id /\ req'[r].email = req[r].email
          /\ req'[r].account = req[r].account
      BY <1>1, <1>a, <1>b DEF SignUpInsertUser, RequestState, Stage
    <2> QED
      BY <2>1, <2>4, <2>5 DEF NewUser
  <1>2. CASE SignUpInsertProfile(r)
    <2>1. /\ tx'[r] = [tx[r] EXCEPT !.profiles = {ProfileOf(req[r].user)}]
          /\ req'[r] = [req[r] EXCEPT !.stage = "signUpProfile"]
          /\ req[r].stage = "signUpUser"
      BY <1>2, <1>a DEF SignUpInsertProfile, Statement, Goto, ProfileOf
    <2>2. req[r].user \in Id
      <3>1. NewUser(req[r], TRUE, FALSE) \in UserRow
        BY <1>b, <2>1 DEF Transaction
      <3>2. NewUser(req[r], TRUE, FALSE).id = req[r].user
        BY DEF NewUser
      <3> QED
        BY <3>1, <3>2 DEF UserRow
    <2>3. /\ tx'[r] \in Transaction /\ tx'[r].users = tx[r].users
          /\ tx'[r].accounts = tx[r].accounts
          /\ tx'[r].verified = tx[r].verified
          /\ tx'[r].profiles = {ProfileOf(req[r].user)}
      BY <1>b, <2>1, <2>2 DEF Transaction, ProfileRow, ProfileOf
    <2>4. /\ req'[r] \in RequestState /\ req'[r].stage = "signUpProfile"
          /\ req'[r].user = req[r].user /\ req'[r].email = req[r].email
          /\ req'[r].account = req[r].account
      BY <1>b, <2>1 DEF RequestState, Stage
    <2> QED
      BY <2>1, <2>3, <2>4 DEF NewUser
  <1>3. CASE SignUpCommit(r)
    <2>1. /\ req[r].stage = "signUpProfile" /\ COMMIT(r)
          /\ req'[r] = [req[r] EXCEPT !.stage = "created"]
          /\ tx'[r] = NoTransaction
      BY <1>3, <1>a DEF SignUpCommit, COMMIT, Goto
    <2>2. /\ req'[r] \in RequestState /\ req'[r].stage = "created"
          /\ req'[r].user = req[r].user /\ req'[r].email = req[r].email
          /\ req'[r].account = req[r].account
      BY <1>b, <2>1 DEF RequestState, Stage
    <2>3. NewUser(req[r], TRUE, FALSE) \in users'
      BY <2>1, CommittedUsers
    <2>4. HasPassword(req[r].user, req[r].email)'
      <3>1. /\ NewUser(req[r], TRUE, FALSE).id = req'[r].user
            /\ NewUser(req[r], TRUE, FALSE).email = req'[r].email
            /\ NewUser(req[r], TRUE, FALSE).password
        BY <2>2 DEF NewUser
      <3> QED
        BY <2>3, <3>1 DEF HasPassword
    <2> QED
      BY <2>1, <2>2, <2>4, EmptyTransaction
  <1>4. CASE SendEmailVerification(r)
    <2>1. /\ req[r].stage = "created" /\ UNCHANGED <<users, tx>>
          /\ req'[r] = [req[r] EXCEPT !.stage = "done"]
      BY <1>4, <1>a DEF SendEmailVerification, NoStatement, Goto
    <2>2. /\ req'[r] \in RequestState /\ req'[r].stage = "done"
          /\ req'[r].user = req[r].user /\ req'[r].email = req[r].email
          /\ req'[r].account = req[r].account
      BY <1>b, <2>1 DEF RequestState, Stage
    <2>3. HasPassword(req[r].user, req[r].email)'
      BY <2>1, <2>2 DEF HasPassword
    <2> QED
      BY <1>b, <2>1, <2>2, <2>3
  <1> QED
    BY <1>1, <1>2, <1>3, <1>4 DEF SignUpStep

LEMMA SignInLands ==
    ASSUME TypeOK, NEW r \in Request, Parked(req[r], tx[r]), SignInStep(r)
    PROVE  Lands(r)
  <1>a. tx \in [Request -> Transaction] /\ req \in [Request -> RequestState]
    BY DEF TypeOK
  <1>b. tx[r] \in Transaction /\ req[r] \in RequestState
    BY <1>a
  <1> USE DEF Lands, Parked, SignUpParked, SignInParked, OAuthParked, Open
  <1>1. CASE SignInTouch(r)
    <2>1. /\ req[r].stage = "checked" /\ tx[r] = NoTransaction
          /\ users' = users
          /\ tx'[r] = [NoTransaction EXCEPT !.locked = {req[r].user}]
          /\ req'[r] = [req[r] EXCEPT !.stage = "touched"]
      BY <1>1, <1>a DEF SignInTouch, Statement, Goto
    <2>2. req[r].user \in Id
      <3>1. HasPassword(req[r].user, req[r].email)
        BY <2>1
      <3> QED
        BY <3>1 DEF HasPassword, TypeOK, UserRow
    <2>3. /\ tx'[r] \in Transaction /\ tx'[r].users = {}
          /\ tx'[r].profiles = {} /\ tx'[r].accounts = {} /\ tx'[r].verified = {}
      BY <2>1, <2>2 DEF Transaction, NoTransaction
    <2>4. /\ req'[r] \in RequestState /\ req'[r].stage = "touched"
          /\ req'[r].user = req[r].user /\ req'[r].email = req[r].email
          /\ req'[r].account = req[r].account
      BY <1>b, <2>1 DEF RequestState, Stage
    <2>5. HasPassword(req[r].user, req[r].email)'
      BY <2>1, <2>4 DEF HasPassword
    <2> QED
      BY <2>1, <2>3, <2>4, <2>5
  <1>2. CASE SignInCommit(r)
    <2>1. /\ req[r].stage = "touched" /\ COMMIT(r)
          /\ req'[r] = [req[r] EXCEPT !.stage = "done"]
          /\ tx'[r] = NoTransaction
      BY <1>2, <1>a DEF SignInCommit, COMMIT, Goto
    <2>2. /\ req'[r] \in RequestState /\ req'[r].stage = "done"
          /\ req'[r].user = req[r].user /\ req'[r].email = req[r].email
          /\ req'[r].account = req[r].account
      BY <1>b, <2>1 DEF RequestState, Stage
    <2>3. HasPassword(req[r].user, req[r].email)'
      <3>1. HasPassword(req[r].user, req[r].email)
        BY <2>1
      <3>2. req[r].user \in Id \cup {NoId} /\ req[r].email \in Email \cup {NoEmail}
        BY <1>b DEF RequestState
      <3>3. Grows
        BY <2>1, CommitGrows
      <3> QED
        BY <2>2, <3>1, <3>2, <3>3 DEF Grows, HasPassword
    <2> QED
      BY <2>1, <2>2, <2>3, EmptyTransaction
  <1> QED
    BY <1>1, <1>2 DEF SignInStep

\* Moving to another stage changes nothing else of a request.
LEMMA Moved ==
    ASSUME NEW q \in RequestState, NEW stage \in Stage
    PROVE  LET s == [q EXCEPT !.stage = stage] IN
           /\ s \in RequestState /\ s.stage = stage
           /\ s.user = q.user /\ s.email = q.email /\ s.account = q.account
           /\ s.verified = q.verified /\ s.alone = q.alone
  BY DEF RequestState

LEMMA HasUserTyped ==
    ASSUME TypeOK, NEW id, NEW e, HasUser(id, e)
    PROVE  id \in Id /\ e \in Email
  BY DEF HasUser, TypeOK, UserRow

\* The update of the user's row: nothing is inserted.
LEMMA Touched ==
    ASSUME TypeOK, NEW r \in Request, NEW stage \in Stage, OAuthTouch(r, stage),
           tx[r] = NoTransaction, req[r].user \in Id
    PROVE  /\ tx'[r] \in Transaction /\ tx'[r].users = {}
           /\ tx'[r].profiles = {} /\ tx'[r].accounts = {}
           /\ UNCHANGED <<users, profiles, accounts>>
           /\ req'[r] = [req[r] EXCEPT !.stage = stage]
  <1>1. /\ tx'[r] = [tx[r] EXCEPT !.locked = {req[r].user},
                                  !.verified = {req[r].user}]
        /\ req'[r] = [req[r] EXCEPT !.stage = stage]
        /\ UNCHANGED <<users, profiles, accounts>>
    BY DEF OAuthTouch, Statement, Goto, TypeOK
  <1>2. /\ tx'[r] \in Transaction /\ tx'[r].users = tx[r].users
        /\ tx'[r].profiles = tx[r].profiles /\ tx'[r].accounts = tx[r].accounts
    <2> DEFINE t == [tx[r] EXCEPT !.locked = {req[r].user}]
    <2>1. /\ t \in Transaction /\ t.users = tx[r].users
          /\ t.profiles = tx[r].profiles /\ t.accounts = tx[r].accounts
      BY SlotTyped DEF Transaction
    <2>2. tx'[r] = [t EXCEPT !.verified = {req[r].user}]
      BY <1>1
    <2> HIDE DEF t
    <2> QED
      BY <2>1, <2>2 DEF Transaction
  <1> QED
    BY <1>1, <1>2, EmptyTransaction

\* From the look-ups to the user's row.
LEMMA OAuthOwnerLands ==
    ASSUME TypeOK, NEW r \in Request, Parked(req[r], tx[r]),
           \/ OAuthTouchLinked(r) \/ OAuthNoEmail(r) \/ OAuthFindNobody(r)
           \/ \E u \in users : OAuthFindUser(r, u)
           \/ \E id \in Id : OAuthInsertUser(r, id)
           \/ OAuthUpdateUser(r)
    PROVE  Lands(r)
  <1>a. tx \in [Request -> Transaction] /\ req \in [Request -> RequestState]
    BY DEF TypeOK
  <1>b. tx[r] \in Transaction /\ req[r] \in RequestState
    BY <1>a
  <1> USE DEF Lands, Parked, SignUpParked, SignInParked, OAuthParked, Open
  <1>1. CASE OAuthTouchLinked(r)
    <2>1. /\ req[r].stage = "linked" /\ tx[r] = NoTransaction
          /\ OAuthTouch(r, "ready") /\ req[r].user \in Id
          /\ LinkOf(req[r]) \in accounts /\ req[r].account \in Account
      BY <1>1 DEF OAuthTouchLinked, TypeOK, UserRow
    <2>2. "ready" \in Stage
      BY DEF Stage
    <2>3. /\ tx'[r] \in Transaction /\ tx'[r].users = {}
          /\ tx'[r].profiles = {} /\ tx'[r].accounts = {}
          /\ accounts' = accounts
          /\ req'[r] = [req[r] EXCEPT !.stage = "ready"]
      BY <2>1, <2>2, Touched
    <2>4. /\ req'[r] \in RequestState /\ req'[r].stage = "ready"
          /\ req'[r].user = req[r].user /\ req'[r].account = req[r].account
      BY <1>b, <2>2, <2>3, Moved
    <2> QED
      BY <2>1, <2>3, <2>4 DEF LinkOf
  <1>2. CASE OAuthNoEmail(r)
    <2>1. req'[r] = NoRequest /\ tx'[r] = NoTransaction
      BY <1>2, <1>a DEF OAuthNoEmail, NoStatement
    <2> QED
      BY <2>1, EmptyTransaction, IdleRequest
  <1>3. CASE OAuthFindNobody(r)
    <2>1. /\ req[r].stage = "unlinked" /\ tx'[r] = NoTransaction
          /\ req[r].email \in Email /\ req[r].account \in Account
          /\ req'[r] = [req[r] EXCEPT !.stage = "new"]
      BY <1>3, <1>a, <1>b DEF OAuthFindNobody, NoStatement, Goto, RequestState
    <2>2. "new" \in Stage
      BY DEF Stage
    <2>3. /\ req'[r] \in RequestState /\ req'[r].stage = "new"
          /\ req'[r].email = req[r].email /\ req'[r].account = req[r].account
      BY <1>b, <2>1, <2>2, Moved
    <2> QED
      BY <2>1, <2>3, EmptyTransaction
  <1>4. ASSUME NEW u \in users, OAuthFindUser(r, u) PROVE Lands(r)
    <2>1. /\ req[r].stage = "unlinked" /\ tx'[r] = NoTransaction
          /\ users' = users /\ u.email = req[r].email
          /\ req[r].account \in Account
          /\ req'[r] = [req[r] EXCEPT !.stage = "known", !.user = u.id]
      BY <1>4, <1>a DEF OAuthFindUser, NoStatement
    <2>2. u.id \in Id /\ u.email \in Email
      BY DEF TypeOK, UserRow
    <2>3. /\ req'[r] \in RequestState /\ req'[r].stage = "known"
          /\ req'[r].user = u.id /\ req'[r].email = req[r].email
          /\ req'[r].account = req[r].account
      BY <1>b, <2>1, <2>2 DEF RequestState, Stage
    <2>4. HasUser(u.id, req[r].email)'
      BY <2>1, <2>3 DEF HasUser
    <2> QED
      BY <2>1, <2>2, <2>3, <2>4, EmptyTransaction DEF HasUser
  <1>5. ASSUME NEW id \in Id, OAuthInsertUser(r, id) PROVE Lands(r)
    <2> DEFINE row == [id |-> id, email |-> req[r].email, password |-> FALSE,
                       verified |-> req[r].verified]
    <2>1. /\ req[r].stage = "new" /\ tx[r] = NoTransaction
          /\ req[r].email \in Email /\ req[r].account \in Account
      BY <1>5 DEF OAuthInsertUser
    <2>2. row \in UserRow
      BY <1>b, <2>1 DEF UserRow, RequestState
    <2>3. /\ tx'[r] \in Transaction /\ tx'[r].users = {row}
          /\ tx'[r].profiles = {} /\ tx'[r].accounts = {}
      <3>1. tx'[r] = [tx[r] EXCEPT !.users = {row}]
        BY <1>5, <1>a DEF OAuthInsertUser, Statement
      <3>2. tx[r].accounts = {} /\ tx[r].profiles = {}
        BY <2>1, EmptyTransaction
      <3> HIDE DEF row
      <3> QED
        BY <1>b, <2>2, <3>1, <3>2 DEF Transaction
    <2>4. /\ req'[r] \in RequestState /\ req'[r].stage = "profile"
          /\ req'[r].user = id /\ req'[r].email = req[r].email
          /\ req'[r].account = req[r].account
          /\ req'[r].verified = req[r].verified
      BY <1>5, <1>a, <1>b DEF OAuthInsertUser, RequestState, Stage
    <2> QED
      BY <2>1, <2>3, <2>4 DEF NewUser, OwnerReady
  <1>6. CASE OAuthUpdateUser(r)
    <2>1. /\ req[r].stage = "known" /\ tx[r] = NoTransaction
          /\ OAuthTouch(r, "profile") /\ HasUser(req[r].user, req[r].email)
          /\ req[r].email \in Email /\ req[r].account \in Account
      BY <1>6 DEF OAuthUpdateUser
    <2>2. req[r].user \in Id /\ "profile" \in Stage
      BY <2>1, HasUserTyped DEF Stage
    <2>3. /\ tx'[r] \in Transaction /\ tx'[r].users = {}
          /\ tx'[r].profiles = {} /\ tx'[r].accounts = {}
          /\ users' = users
          /\ req'[r] = [req[r] EXCEPT !.stage = "profile"]
      BY <2>1, <2>2, Touched
    <2>4. /\ req'[r] \in RequestState /\ req'[r].stage = "profile"
          /\ req'[r].user = req[r].user /\ req'[r].email = req[r].email
          /\ req'[r].account = req[r].account
      BY <1>b, <2>2, <2>3, Moved
    <2>5. HasUser(req[r].user, req[r].email)'
      BY <2>1, <2>3, <2>4 DEF HasUser
    <2> QED
      BY <2>1, <2>3, <2>4, <2>5 DEF OwnerReady, HasUser
  <1> QED
    BY <1>1, <1>2, <1>3, <1>4, <1>5, <1>6

\* While only r's transaction writes, its user stays what it was.
LEMMA OwnerKept ==
    ASSUME NEW r \in Request, users' = users, tx'[r].users = tx[r].users,
           req'[r].user = req[r].user, req'[r].email = req[r].email,
           req'[r].verified = req[r].verified, OwnerReady(req[r], tx[r])
    PROVE  OwnerReady(req[r], tx[r])'
  BY DEF OwnerReady, HasUser, NewUser

\* From the user's row to the answer.
LEMMA OAuthLinkLands ==
    ASSUME TypeOK, NEW r \in Request, Parked(req[r], tx[r]),
           \/ OAuthProfile(r) \/ OAuthInsertAccount(r)
           \/ OAuthCommit(r) \/ OAuthSession(r)
    PROVE  Lands(r)
  <1>a. tx \in [Request -> Transaction] /\ req \in [Request -> RequestState]
    BY DEF TypeOK
  <1>b. tx[r] \in Transaction /\ req[r] \in RequestState
    BY <1>a
  <1>c. ASSUME OwnerReady(req[r], tx[r]) PROVE req[r].user \in Id
    <2>1. CASE HasUser(req[r].user, req[r].email)
      BY <2>1, HasUserTyped
    <2>2. CASE tx[r].users = {NewUser(req[r], FALSE, req[r].verified)}
      <3>1. NewUser(req[r], FALSE, req[r].verified) \in UserRow
        BY <1>b, <2>2 DEF Transaction
      <3> QED
        BY <3>1 DEF NewUser, UserRow
    <2> QED
      BY <1>c, <2>1, <2>2 DEF OwnerReady
  <1> USE DEF Lands, Parked, SignUpParked, SignInParked, OAuthParked, Open
  <1>1. CASE OAuthProfile(r)
    <2>1. /\ req[r].stage = "profile" /\ UNCHANGED <<users, profiles, accounts>>
          /\ OwnerReady(req[r], tx[r]) /\ tx[r].accounts = {}
          /\ req[r].account \in Account
          /\ tx'[r] = [tx[r] EXCEPT !.profiles =
                           {ProfileOf(req[r].user)} \ profiles]
          /\ req'[r] = [req[r] EXCEPT !.stage = "link"]
      BY <1>1, <1>a DEF OAuthProfile, Statement, Goto, ProfileOf
    <2>2. req[r].user \in Id /\ "link" \in Stage
      BY <1>c, <2>1 DEF Stage
    <2>3. /\ tx'[r] \in Transaction /\ tx'[r].users = tx[r].users
          /\ tx'[r].accounts = {}
          /\ tx'[r].profiles = {ProfileOf(req[r].user)} \ profiles
      BY <1>b, <2>1, <2>2 DEF Transaction, ProfileRow, ProfileOf
    <2>4. /\ req'[r] \in RequestState /\ req'[r].stage = "link"
          /\ req'[r].user = req[r].user /\ req'[r].email = req[r].email
          /\ req'[r].account = req[r].account
          /\ req'[r].verified = req[r].verified
      BY <1>b, <2>1, <2>2, Moved
    <2>5. OwnerReady(req[r], tx[r])'
      BY <2>1, <2>3, <2>4, OwnerKept
    <2>6. ProfileReady(req[r], tx[r])'
      BY <2>1, <2>3, <2>4 DEF ProfileReady
    <2> QED
      BY <2>1, <2>3, <2>4, <2>5, <2>6
  <1>2. CASE OAuthInsertAccount(r)
    <2>1. /\ req[r].stage = "link" /\ UNCHANGED <<users, profiles, accounts>>
          /\ OwnerReady(req[r], tx[r]) /\ ProfileReady(req[r], tx[r])
          /\ req[r].account \in Account
          /\ tx'[r] = [tx[r] EXCEPT !.accounts = {LinkOf(req[r])}]
          /\ req'[r] = [req[r] EXCEPT !.stage = "ready"]
      BY <1>2, <1>a DEF OAuthInsertAccount, Statement, Goto, LinkOf
    <2>2. req[r].user \in Id /\ "ready" \in Stage
      BY <1>c, <2>1 DEF Stage
    <2>3. /\ tx'[r] \in Transaction /\ tx'[r].users = tx[r].users
          /\ tx'[r].profiles = tx[r].profiles
          /\ tx'[r].accounts = {LinkOf(req[r])}
      BY <1>b, <2>1, <2>2 DEF Transaction, AccountRow, LinkOf
    <2>4. /\ req'[r] \in RequestState /\ req'[r].stage = "ready"
          /\ req'[r].user = req[r].user /\ req'[r].email = req[r].email
          /\ req'[r].account = req[r].account
          /\ req'[r].verified = req[r].verified
      BY <1>b, <2>1, <2>2, Moved
    <2>5. OwnerReady(req[r], tx[r])'
      BY <2>1, <2>3, <2>4, OwnerKept
    <2>6. ProfileReady(req[r], tx[r])'
      BY <2>1, <2>3, <2>4 DEF ProfileReady
    <2>7. LinkOf(req[r])' = LinkOf(req[r])
      BY <2>4 DEF LinkOf
    <2> QED
      BY <2>1, <2>3, <2>4, <2>5, <2>6, <2>7
  <1>3. CASE OAuthCommit(r)
    <2>1. /\ req[r].stage = "ready" /\ COMMIT(r) /\ req[r].account \in Account
          /\ LinkOf(req[r]) \in accounts \cup tx[r].accounts
          /\ req'[r] = [req[r] EXCEPT !.stage = "committed"]
          /\ tx'[r] = NoTransaction
      BY <1>3, <1>a DEF OAuthCommit, COMMIT, Goto
    <2>2. LinkOf(req[r]) \in accounts' /\ "committed" \in Stage
      BY <2>1 DEF COMMIT, Stage
    <2>3. /\ req'[r] \in RequestState /\ req'[r].stage = "committed"
          /\ req'[r].user = req[r].user /\ req'[r].account = req[r].account
      BY <1>b, <2>1, <2>2, Moved
    <2> QED
      BY <2>1, <2>2, <2>3, EmptyTransaction DEF LinkOf
  <1>4. CASE OAuthSession(r)
    <2>1. /\ req[r].stage = "committed" /\ tx'[r] = NoTransaction
          /\ LinkOf(req[r]) \in accounts' /\ req[r].account \in Account
          /\ req'[r] = [req[r] EXCEPT !.stage = "done"]
      BY <1>4, <1>a DEF OAuthSession, NoStatement, Goto
    <2>2. "done" \in Stage /\ req[r].account # NoAccount
      BY <2>1, NamesAssumption DEF Stage
    <2>3. /\ req'[r] \in RequestState /\ req'[r].stage = "done"
          /\ req'[r].user = req[r].user /\ req'[r].account = req[r].account
      BY <1>b, <2>1, <2>2, Moved
    <2> QED
      BY <2>1, <2>2, <2>3, EmptyTransaction DEF LinkOf
  <1> QED
    BY <1>1, <1>2, <1>3, <1>4

\* A failed or finished request has no transaction.
LEMMA EndLands ==
    ASSUME TypeOK, NEW r \in Request, Parked(req[r], tx[r]),
           \/ EmailConflict(r) \/ AccountConflict(r) \/ SessionFails(r)
           \/ Respond(r) \/ Abort(r)
    PROVE  Lands(r)
  <1>a. tx \in [Request -> Transaction] /\ req \in [Request -> RequestState]
    BY DEF TypeOK
  <1> USE DEF Lands, Parked, SignUpParked, SignInParked, OAuthParked, Open
  <1>1. CASE EmailConflict(r) \/ AccountConflict(r) \/ SessionFails(r)
    <2>1. ROLLBACK(r) /\ (Goto(r, "conflict") \/ Goto(r, "error"))
      BY <1>1 DEF EmailConflict, AccountConflict, SessionFails, UniqueViolation
    <2>2. /\ tx'[r] = NoTransaction
          /\ \/ req'[r] = [req[r] EXCEPT !.stage = "conflict"]
             \/ req'[r] = [req[r] EXCEPT !.stage = "error"]
      BY <2>1, <1>a DEF ROLLBACK, Goto
    <2>3. "conflict" \in Stage /\ "error" \in Stage /\ req[r] \in RequestState
      BY <1>a DEF Stage
    <2>4. /\ req'[r] \in RequestState
          /\ req'[r].stage = "conflict" \/ req'[r].stage = "error"
      BY <2>2, <2>3 DEF RequestState
    <2> QED
      BY <2>2, <2>4, EmptyTransaction
  <1>2. CASE Respond(r) \/ Abort(r)
    <2>1. tx'[r] = NoTransaction /\ req'[r] = NoRequest
      BY <1>2, <1>a DEF Respond, Abort, NoStatement, ROLLBACK
    <2> QED
      BY <2>1, EmptyTransaction, IdleRequest
  <1> QED
    BY <1>1, <1>2

LEMMA StepLands ==
    ASSUME TypeOK, NEW r \in Request, Parked(req[r], tx[r]), Steps(r)
    PROVE  Lands(r)
  <1>1. CASE Start(r)
    BY <1>1, StartLands
  <1>2. CASE SignUpStep(r)
    BY <1>2, SignUpLands
  <1>3. CASE SignInStep(r)
    BY <1>3, SignInLands
  <1>4. CASE OAuthStep(r)
    BY <1>4, OAuthOwnerLands, OAuthLinkLands DEF OAuthStep
  <1>5. CASE \/ EmailConflict(r) \/ AccountConflict(r) \/ SessionFails(r)
             \/ Respond(r) \/ Abort(r)
    BY <1>5, EndLands
  <1> QED
    BY <1>1, <1>2, <1>3, <1>4, <1>5 DEF Steps, Progress

-----------------------------------------------------------------------------
(* The frame of a step, and the parts of Inv that it settles.              *)

\* The stages at which a handler commits.
Committing == {"signUpProfile", "touched", "ready"}

\* Whatever r does, the others keep their transactions, and only a commit of
\* r touches the tables.
Frame(r) ==
    /\ Others(r)
    /\ \/ UNCHANGED <<users, profiles, accounts>>
       \/ COMMIT(r) /\ req[r].stage \in Committing

\* The last two say that tx' and req' are still functions on Request.
LEMMA StepFrame ==
    ASSUME TypeOK, NEW r \in Request, Steps(r)
    PROVE  /\ Frame(r)
           /\ tx' \in [Request -> {tx'[q] : q \in Request}]
           /\ req' \in [Request -> {req'[q] : q \in Request}]
  <1>a. tx \in [Request -> Transaction] /\ req \in [Request -> RequestState]
    BY DEF TypeOK
  <1>1. CASE Start(r)
    <2>1. PICK s : Arrive(r, s)
      BY <1>1, StartArrives
    <2>2. Frame(r)
      BY <2>1, ArriveOthers DEF Frame
    <2>3. tx' = tx /\ \E f : req' = [q \in Request |-> f[q]]
      <3>1. tx' = tx
        BY <2>1 DEF Arrive, NoStatement
      <3>2. req' = [q \in Request |-> req'[q]]
        BY <2>1 DEF Arrive
      <3> QED
        BY <3>1, <3>2
    <2> QED
      BY <2>2, <2>3, <1>a
  <1>2. CASE Progress(r) \/ Abort(r)
    <2>1. \E s : req' = [req EXCEPT ![r] = s]
      BY <1>2 DEF Progress, Abort, SignUpStep, SignInStep, OAuthStep,
        SignUpInsertUser, SignUpInsertProfile, SignUpCommit,
        SendEmailVerification, SignInTouch, SignInCommit, OAuthTouchLinked,
        OAuthNoEmail, OAuthFindNobody, OAuthFindUser, OAuthInsertUser,
        OAuthUpdateUser, OAuthProfile, OAuthInsertAccount, OAuthCommit,
        OAuthSession, EmailConflict, AccountConflict, SessionFails, Respond,
        UniqueViolation, OAuthTouch, Goto
    <2>2. \/ tx' = tx
          \/ \E t : tx' = [tx EXCEPT ![r] = t]
      BY <1>2 DEF Progress, Abort, SignUpStep, SignInStep, OAuthStep,
        SignUpInsertUser, SignUpInsertProfile, SignUpCommit,
        SendEmailVerification, SignInTouch, SignInCommit, OAuthTouchLinked,
        OAuthNoEmail, OAuthFindNobody, OAuthFindUser, OAuthInsertUser,
        OAuthUpdateUser, OAuthProfile, OAuthInsertAccount, OAuthCommit,
        OAuthSession, EmailConflict, AccountConflict, SessionFails, Respond,
        UniqueViolation, OAuthTouch, COMMIT, ROLLBACK, Statement, NoStatement
    <2>3. \/ UNCHANGED <<users, profiles, accounts>>
          \/ COMMIT(r) /\ req[r].stage \in Committing
      BY <1>2 DEF Progress, Abort, SignUpStep, SignInStep, OAuthStep,
        SignUpInsertUser, SignUpInsertProfile, SignUpCommit,
        SendEmailVerification, SignInTouch, SignInCommit, OAuthTouchLinked,
        OAuthNoEmail, OAuthFindNobody, OAuthFindUser, OAuthInsertUser,
        OAuthUpdateUser, OAuthProfile, OAuthInsertAccount, OAuthCommit,
        OAuthSession, EmailConflict, AccountConflict, SessionFails, Respond,
        UniqueViolation, OAuthTouch, ROLLBACK, Statement, NoStatement,
        Committing
    <2>4. Others(r)
      BY <2>1, <2>2, <1>a DEF Others
    <2> QED
      BY <2>1, <2>2, <2>3, <2>4, <1>a DEF Frame
  <1> QED
    BY <1>1, <1>2 DEF Steps

LEMMA FrameGrows ==
    ASSUME TypeOK, NEW r \in Request, Frame(r)
    PROVE  Grows
  BY CommitGrows, UnchangedGrows DEF Frame

\* A request that another one does not touch stays typed and parked.
LEMMA OthersParked ==
    ASSUME TypeOK, NEW r \in Request, Frame(r), NEW q \in Request \ {r},
           Parked(req[q], tx[q])
    PROVE  /\ tx'[q] \in Transaction /\ req'[q] \in RequestState
           /\ Parked(req[q], tx[q])'
  <1>1. /\ tx'[q] = tx[q] /\ tx[q] \in Transaction /\ req[q] \in RequestState
        /\ req'[q] \in {req[q], [req[q] EXCEPT !.alone = FALSE]}
    BY SlotTyped DEF Frame, Others
  <1>2. /\ req'[q] \in RequestState /\ req'[q].stage = req[q].stage
        /\ req'[q].email = req[q].email /\ req'[q].account = req[q].account
        /\ req'[q].user = req[q].user /\ req'[q].verified = req[q].verified
    BY <1>1 DEF RequestState
  <1>3. /\ req[q].user \in Id \cup {NoId}
        /\ req[q].email \in Email \cup {NoEmail}
    BY <1>1 DEF RequestState
  <1>4. Grows
    BY FrameGrows
  <1>5. /\ HasUser(req[q].user, req[q].email) => HasUser(req[q].user, req[q].email)'
        /\ HasPassword(req[q].user, req[q].email)
               => HasPassword(req[q].user, req[q].email)'
    BY <1>2, <1>3, <1>4 DEF Grows, HasUser, HasPassword
  <1>6. /\ LinkOf(req[q])' = LinkOf(req[q])
        /\ LinkOf(req[q]) \in accounts => LinkOf(req[q])' \in accounts'
    BY <1>2, <1>4 DEF Grows, LinkOf
  <1>7. OwnerReady(req[q], tx[q]) => OwnerReady(req[q], tx[q])'
    BY <1>1, <1>2, <1>5 DEF OwnerReady, NewUser
  <1>8. ProfileReady(req[q], tx[q]) => ProfileReady(req[q], tx[q])'
    BY <1>1, <1>2, <1>4 DEF Grows, ProfileReady
  <1>9. NewUser(req[q], TRUE, FALSE)' = NewUser(req[q], TRUE, FALSE)
    BY <1>2 DEF NewUser
  <1>10. SignUpParked(req[q], tx[q])'
    BY <1>1, <1>2, <1>9 DEF Parked, SignUpParked
  <1>11. SignInParked(req[q], tx[q])'
    BY <1>1, <1>2, <1>5 DEF Parked, SignInParked
  <1>12. OAuthParked(req[q], tx[q])'
    BY <1>1, <1>2, <1>5, <1>6, <1>7, <1>8 DEF Parked, OAuthParked
  <1> QED
    BY <1>1, <1>2, <1>10, <1>11, <1>12 DEF Parked

\* Types and parked requests after a step.
LEMMA ParkedStep ==
    ASSUME TypeOK, NEW r \in Request, Steps(r),
           \A q \in Request : Parked(req[q], tx[q])
    PROVE  TypeOK' /\ \A q \in Request : Parked(req[q], tx[q])'
  <1>1. Frame(r) /\ Lands(r)
    BY StepFrame, StepLands
  <1>2. \A q \in Request : /\ tx'[q] \in Transaction /\ req'[q] \in RequestState
                           /\ Parked(req[q], tx[q])'
    BY <1>1, OthersParked DEF Lands
  <1>3. tx' \in [Request -> Transaction] /\ req' \in [Request -> RequestState]
    BY <1>2, StepFrame
  <1>4. users' \subseteq UserRow
    BY <1>1, CommittedUsers DEF Frame, TypeOK
  <1>5. profiles' \subseteq ProfileRow /\ accounts' \subseteq AccountRow
    <2>1. profiles' \subseteq profiles \cup tx[r].profiles
          /\ accounts' \subseteq accounts \cup tx[r].accounts
      BY <1>1 DEF Frame, COMMIT
    <2>2. tx[r].profiles \subseteq ProfileRow /\ tx[r].accounts \subseteq AccountRow
      BY SlotTyped DEF Transaction
    <2> QED
      BY <2>1, <2>2 DEF TypeOK
  <1> QED
    BY <1>2, <1>3, <1>4, <1>5 DEF TypeOK

-----------------------------------------------------------------------------
(* Keys stay unique.                                                       *)

\* A row is inserted only under a key that nobody has, committed or not.
FreshUser(r) ==
    /\ users' = users
    /\ \E u : /\ tx'[r].users = {u}
              /\ ~EmailTaken(u.email) /\ ~EmailPending(r, u.email)
              /\ Unused(u.id)

FreshAccount(r) ==
    /\ accounts' = accounts
    /\ \E l : /\ tx'[r].accounts = {l}
              /\ ~AccountTaken(l.providerAccountId)
              /\ ~AccountPending(r, l.providerAccountId)

LEMMA Written ==
    ASSUME TypeOK, NEW r \in Request, Steps(r), Parked(req[r], tx[r])
    PROVE  /\ tx'[r].users \subseteq tx[r].users \/ FreshUser(r)
           /\ tx'[r].accounts \subseteq tx[r].accounts \/ FreshAccount(r)
  <1>a. tx \in [Request -> Transaction] /\ req \in [Request -> RequestState]
    BY DEF TypeOK
  <1>b. tx[r] \in Transaction /\ req[r] \in RequestState
    BY <1>a
  <1> DEFINE Same == /\ tx'[r].users \subseteq tx[r].users
                     /\ tx'[r].accounts \subseteq tx[r].accounts
  <1>1. CASE tx'[r] = tx[r] \/ tx'[r] = NoTransaction
    BY <1>1, EmptyTransaction
  <1>2. ASSUME NEW p, tx'[r] = [tx[r] EXCEPT !.profiles = p] PROVE Same
    BY <1>b, <1>2 DEF Transaction
  <1>3. ASSUME NEW l, tx'[r] = [tx[r] EXCEPT !.locked = l] PROVE Same
    BY <1>b, <1>3 DEF Transaction
  <1>4. ASSUME NEW l, NEW v,
               tx'[r] = [tx[r] EXCEPT !.locked = l, !.verified = v]
        PROVE  Same
    <2> DEFINE t == [tx[r] EXCEPT !.locked = l]
    <2>1. /\ t.users = tx[r].users /\ t.accounts = tx[r].accounts
          /\ DOMAIN t = {"users", "profiles", "accounts", "locked", "verified"}
      BY <1>b DEF Transaction
    <2>2. tx'[r] = [t EXCEPT !.verified = v]
      BY <1>4
    <2> HIDE DEF t
    <2> QED
      BY <2>1, <2>2
  <1>5. ASSUME NEW row, tx'[r] = [tx[r] EXCEPT !.users = {row}],
               users' = users, ~EmailTaken(row.email),
               ~EmailPending(r, row.email), Unused(row.id)
        PROVE  /\ FreshUser(r)
               /\ tx'[r].accounts \subseteq tx[r].accounts
    BY <1>b, <1>5 DEF Transaction, FreshUser
  <1>6. ASSUME NEW id \in Id,
               SignUpInsertUser(r, id) \/ OAuthInsertUser(r, id)
        PROVE  /\ FreshUser(r)
               /\ tx'[r].accounts \subseteq tx[r].accounts
    <2> DEFINE row(p, v) == [id |-> id, email |-> req[r].email, password |-> p,
                             verified |-> v]
    <2>1. /\ ~EmailTaken(req[r].email) /\ ~EmailPending(r, req[r].email)
          /\ Unused(id) /\ users' = users
          /\ \E p, v \in BOOLEAN : tx'[r] = [tx[r] EXCEPT !.users = {row(p, v)}]
      BY <1>6, <1>a, <1>b DEF SignUpInsertUser, OAuthInsertUser, Statement,
                              RequestState
    <2>2. PICK p, v \in BOOLEAN : tx'[r] = [tx[r] EXCEPT !.users = {row(p, v)}]
      BY <2>1
    <2>3. row(p, v).email = req[r].email /\ row(p, v).id = id
      OBVIOUS
    <2> HIDE DEF row
    <2> QED
      BY <1>5, <2>1, <2>2, <2>3
  <1>7. ASSUME OAuthInsertAccount(r)
        PROVE  FreshAccount(r) /\ tx'[r].users \subseteq tx[r].users
    <2>1. /\ tx'[r] = [tx[r] EXCEPT !.accounts = {LinkOf(req[r])}]
          /\ accounts' = accounts
          /\ LinkOf(req[r]).providerAccountId = req[r].account
          /\ ~AccountTaken(req[r].account) /\ ~AccountPending(r, req[r].account)
      BY <1>7, <1>a DEF OAuthInsertAccount, Statement, LinkOf
    <2>2. /\ tx'[r].accounts = {LinkOf(req[r])} /\ tx'[r].users = tx[r].users
      BY <1>b, <2>1 DEF Transaction
    <2> QED
      BY <2>1, <2>2 DEF FreshAccount
  <1>8. CASE Start(r)
    <2>1. tx' = tx
      BY <1>8, StartArrives, ArriveOthers
    <2> QED
      BY <1>1, <2>1
  <1>9. CASE SignUpStep(r)
    <2>1. CASE SignUpInsertProfile(r)
      BY <1>2, <1>a, <2>1 DEF SignUpInsertProfile, Statement
    <2>2. CASE SignUpCommit(r) \/ SendEmailVerification(r)
      BY <1>1, <1>a, <2>2 DEF SignUpCommit, SendEmailVerification, COMMIT,
                              NoStatement
    <2> QED
      BY <1>6, <1>9, <2>1, <2>2 DEF SignUpStep
  <1>10. CASE SignInStep(r)
    <2>1. CASE SignInTouch(r)
      BY <1>3, <1>a, <2>1 DEF SignInTouch, Statement
    <2>2. CASE SignInCommit(r)
      BY <1>1, <1>a, <2>2 DEF SignInCommit, COMMIT
    <2> QED
      BY <1>10, <2>1, <2>2 DEF SignInStep
  <1>11. CASE OAuthStep(r)
    <2>1. CASE OAuthTouchLinked(r) \/ OAuthUpdateUser(r)
      BY <1>4, <1>a, <2>1 DEF OAuthTouchLinked, OAuthUpdateUser, OAuthTouch,
                              Statement
    <2>2. CASE OAuthProfile(r)
      BY <1>2, <1>a, <2>2 DEF OAuthProfile, Statement
    <2>3. CASE \/ OAuthNoEmail(r) \/ OAuthFindNobody(r)
               \/ \E u \in users : OAuthFindUser(r, u)
               \/ OAuthCommit(r) \/ OAuthSession(r)
      BY <1>1, <1>a, <2>3 DEF OAuthNoEmail, OAuthFindNobody, OAuthFindUser,
                              OAuthCommit, OAuthSession, COMMIT, NoStatement
    <2> QED
      BY <1>6, <1>7, <1>11, <2>1, <2>2, <2>3 DEF OAuthStep
  <1>12. CASE \/ EmailConflict(r) \/ AccountConflict(r) \/ SessionFails(r)
              \/ Respond(r) \/ Abort(r)
    BY <1>1, <1>a, <1>12 DEF EmailConflict, AccountConflict, SessionFails,
         UniqueViolation, Respond, Abort, ROLLBACK, NoStatement
  <1> QED
    BY <1>8, <1>9, <1>10, <1>11, <1>12 DEF Steps, Progress

\* A transaction that commits inserts at most one user and one account.
LEMMA OneRow ==
    ASSUME NEW r \in Request, Parked(req[r], tx[r]), req[r].stage \in Committing
    PROVE  /\ \A u, v \in tx[r].users : u = v
           /\ \A k, l \in tx[r].accounts : k = l
  BY EmptyTransaction
  DEF Parked, SignUpParked, SignInParked, OAuthParked, OwnerReady, Committing

LEMMA UniqueUsersStep ==
    ASSUME TypeOK, UniqueUsers, NEW r \in Request, Steps(r),
           Parked(req[r], tx[r])
    PROVE  UniqueUsers'
  <1>1. Frame(r) /\ (tx'[r].users \subseteq tx[r].users \/ FreshUser(r))
    BY StepFrame, Written
  <1>2. \A q \in Request \ {r} : tx'[q] = tx[q]
    BY <1>1 DEF Frame, Others
  <1>3. CASE users' = users /\ tx'[r].users \subseteq tx[r].users
    BY <1>2, <1>3 DEF UniqueUsers, Distinct
  <1>4. CASE FreshUser(r)
    BY <1>2, <1>4 DEF UniqueUsers, Distinct, FreshUser, EmailTaken,
                      EmailPending, Unused
  <1>5. CASE COMMIT(r) /\ req[r].stage \in Committing
    <2> DEFINE Kept(u) == [u EXCEPT !.verified = @ \/ u.id \in tx[r].verified]
    <2>1. users' = tx[r].users \cup {Kept(u) : u \in users}
      BY <1>5 DEF COMMIT
    <2>2. \A u \in users : Kept(u).id = u.id /\ Kept(u).email = u.email
      BY DEF TypeOK, UserRow
    <2>3. tx'[r].users = {}
      BY <1>5, EmptyTransaction DEF COMMIT, TypeOK
    <2>4. \A u, v \in tx[r].users : u = v
      BY <1>5, OneRow
    <2> HIDE DEF Kept
    <2>5. \A u, v \in users' : u # v => Distinct(u, v)
      BY <2>1, <2>2, <2>4 DEF UniqueUsers, Distinct
    <2>6. \A q \in Request : \A u \in tx'[q].users, v \in users' : Distinct(u, v)
      <3>1. ASSUME NEW q \in Request, NEW u \in tx'[q].users, NEW v \in users'
            PROVE  Distinct(u, v)
        <4>1. q # r /\ u \in tx[q].users
          BY <1>2, <2>3, <3>1
        <4>2. CASE v \in tx[r].users
          BY <4>1, <4>2 DEF UniqueUsers
        <4>3. CASE v \notin tx[r].users
          <5>1. PICK w \in users : v = Kept(w)
            BY <2>1, <4>3
          <5>2. Distinct(u, w)
            BY <4>1 DEF UniqueUsers
          <5> QED
            BY <2>2, <5>1, <5>2 DEF Distinct
        <4> QED
          BY <4>2, <4>3
      <3> QED
        BY <3>1
    <2>7. \A p, q \in Request : p # q =>
              \A u \in tx'[p].users, v \in tx'[q].users : Distinct(u, v)
      BY <1>2, <2>3 DEF UniqueUsers
    <2> QED
      BY <2>5, <2>6, <2>7 DEF UniqueUsers, Distinct
  <1> QED
    BY <1>1, <1>3, <1>4, <1>5 DEF Frame

LEMMA UniqueAccountsStep ==
    ASSUME TypeOK, UniqueAccounts, NEW r \in Request, Steps(r),
           Parked(req[r], tx[r])
    PROVE  UniqueAccounts'
  <1>1. /\ Frame(r)
        /\ tx'[r].accounts \subseteq tx[r].accounts \/ FreshAccount(r)
    BY StepFrame, Written
  <1>2. \A q \in Request \ {r} : tx'[q] = tx[q]
    BY <1>1 DEF Frame, Others
  <1>3. CASE accounts' = accounts /\ tx'[r].accounts \subseteq tx[r].accounts
    BY <1>2, <1>3 DEF UniqueAccounts
  <1>4. CASE FreshAccount(r)
    BY <1>2, <1>4 DEF UniqueAccounts, FreshAccount, AccountTaken,
                      AccountPending
  <1>5. CASE COMMIT(r) /\ req[r].stage \in Committing
    <2>1. accounts' = accounts \cup tx[r].accounts
      BY <1>5 DEF COMMIT
    <2>2. tx'[r].accounts = {}
      BY <1>5, EmptyTransaction DEF COMMIT, TypeOK
    <2>3. \A k, l \in tx[r].accounts : k = l
      BY <1>5, OneRow
    <2> QED
      BY <1>2, <2>1, <2>2, <2>3 DEF UniqueAccounts
  <1> QED
    BY <1>1, <1>3, <1>4, <1>5 DEF Frame

-----------------------------------------------------------------------------
(* Users stay complete.                                                    *)

\* What a committing transaction inserts belongs together.
LEMMA CommittedTogether ==
    ASSUME TypeOK, NEW r \in Request, Parked(req[r], tx[r]), COMMIT(r),
           req[r].stage \in Committing
    PROVE  /\ \A u \in tx[r].users :
                  /\ ProfileOf(u.id) \in profiles'
                  /\ u.password \/ \E l \in accounts' : l.userId = u.id
           /\ \A row \in tx[r].profiles : \E u \in users' : u.id = row.userId
           /\ \A l \in tx[r].accounts :
                  /\ l = LinkOf(req[r])
                  /\ \E u \in users' : u.id = l.userId /\ u.email = req[r].email
  <1>1. /\ profiles' = profiles \cup tx[r].profiles
        /\ accounts' = accounts \cup tx[r].accounts
    BY DEF COMMIT
  <1>2. /\ tx[r].users \subseteq users'
        /\ \A u \in users : \E v \in users' : v.id = u.id /\ v.email = u.email
    BY CommittedUsers
  <1> USE DEF Parked, SignUpParked, SignInParked, OAuthParked
  <1>3. CASE req[r].stage = "signUpProfile"
    <2>1. /\ tx[r].users = {NewUser(req[r], TRUE, FALSE)}
          /\ tx[r].profiles = {ProfileOf(req[r].user)} /\ tx[r].accounts = {}
      BY <1>3
    <2>2. /\ NewUser(req[r], TRUE, FALSE).id = req[r].user
          /\ NewUser(req[r], TRUE, FALSE).password = TRUE
          /\ ProfileOf(req[r].user).userId = req[r].user
      BY DEF NewUser, ProfileOf
    <2> QED
      BY <1>1, <1>2, <2>1, <2>2
  <1>4. CASE req[r].stage = "touched"
    BY <1>4
  <1>5. CASE req[r].stage = "ready"
    <2>1. CASE tx[r].users = {} /\ tx[r].profiles = {} /\ tx[r].accounts = {}
      BY <2>1
    <2>2. CASE /\ OwnerReady(req[r], tx[r]) /\ ProfileReady(req[r], tx[r])
               /\ tx[r].accounts = {LinkOf(req[r])}
      <3>1. /\ LinkOf(req[r]).userId = req[r].user
            /\ ProfileOf(req[r].user).userId = req[r].user
        BY DEF LinkOf, ProfileOf
      <3>2. ProfileOf(req[r].user) \in profiles'
        BY <1>1, <2>2 DEF ProfileReady
      <3>3. /\ \E u \in users' : u.id = req[r].user /\ u.email = req[r].email
            /\ \A u \in tx[r].users : u.id = req[r].user
        <4>1. CASE HasUser(req[r].user, req[r].email) /\ tx[r].users = {}
          BY <1>2, <4>1 DEF HasUser
        <4>2. CASE tx[r].users = {NewUser(req[r], FALSE, req[r].verified)}
          <5>1. /\ NewUser(req[r], FALSE, req[r].verified).id = req[r].user
                /\ NewUser(req[r], FALSE, req[r].verified).email = req[r].email
            BY DEF NewUser
          <5> QED
            BY <1>2, <4>2, <5>1
        <4> QED
          BY <2>2, <4>1, <4>2 DEF OwnerReady
      <3>4. LinkOf(req[r]) \in accounts'
        BY <1>1, <2>2
      <3> QED
        BY <2>2, <3>1, <3>2, <3>3, <3>4 DEF ProfileReady
    <2> QED
      BY <1>5, <2>1, <2>2
  <1> QED
    BY <1>3, <1>4, <1>5 DEF Committing

LEMMA CompleteStep ==
    ASSUME TypeOK, UsersComplete, NEW r \in Request, Steps(r),
           Parked(req[r], tx[r])
    PROVE  UsersComplete'
  <1>1. Frame(r)
    BY StepFrame
  <1>2. CASE UNCHANGED <<users, profiles, accounts>>
    BY <1>2 DEF UsersComplete
  <1>3. CASE COMMIT(r) /\ req[r].stage \in Committing
    <2>1. /\ profiles' = profiles \cup tx[r].profiles
          /\ accounts' = accounts \cup tx[r].accounts
      BY <1>3 DEF COMMIT
    <2>2. /\ \A v \in users' :
                 \/ v \in tx[r].users
                 \/ \E u \in users : v.id = u.id /\ v.password = u.password
          /\ \A u \in users : \E v \in users' : v.id = u.id
      BY <1>3, CommittedUsers
    <2>3. /\ \A u \in tx[r].users :
                 /\ ProfileOf(u.id) \in profiles'
                 /\ u.password \/ \E l \in accounts' : l.userId = u.id
          /\ \A row \in tx[r].profiles : \E u \in users' : u.id = row.userId
          /\ \A l \in tx[r].accounts : \E u \in users' : u.id = l.userId
      BY <1>3, CommittedTogether
    <2>4. ASSUME NEW v \in users'
          PROVE  /\ [userId |-> v.id] \in profiles'
                 /\ v.password \/ \E l \in accounts' : l.userId = v.id
      <3>1. CASE v \in tx[r].users
        BY <2>3, <3>1 DEF ProfileOf
      <3>2. CASE \E u \in users : v.id = u.id /\ v.password = u.password
        <4>1. PICK u \in users : v.id = u.id /\ v.password = u.password
          BY <3>2
        <4>2. /\ [userId |-> u.id] \in profiles
              /\ u.password \/ \E l \in accounts : l.userId = u.id
          BY DEF UsersComplete
        <4>3. CASE u.password
          BY <2>1, <4>1, <4>2, <4>3
        <4>4. CASE \E l \in accounts : l.userId = u.id
          BY <2>1, <4>1, <4>2, <4>4
        <4> QED
          BY <4>2, <4>3, <4>4
      <3> QED
        BY <2>2, <3>1, <3>2
    <2>5. \A row \in profiles' : \E u \in users' : u.id = row.userId
      BY <2>1, <2>2, <2>3 DEF UsersComplete
    <2>6. ASSUME NEW l \in accounts' PROVE \E u \in users' : u.id = l.userId
      <3>1. CASE l \in accounts
        <4>1. PICK u \in users : u.id = [userId |-> l.userId].userId
          BY <3>1 DEF UsersComplete
        <4> QED
          BY <2>2, <4>1
      <3> QED
        BY <2>1, <2>3, <3>1
    <2>7. \A row \in {[userId |-> l.userId] : l \in accounts'} :
              \E u \in users' : u.id = row.userId
      BY <2>6
    <2> QED
      BY <2>4, <2>5, <2>7 DEF UsersComplete
  <1> QED
    BY <1>1, <1>2, <1>3 DEF Frame

-----------------------------------------------------------------------------
(* A request that nobody overlaps.                                         *)

\* Stages before r has linked its account.
Unlinked == {"unlinked", "known", "new", "profile", "link"}

\* Where a request that has arrived goes next.
Goes(r) ==
    /\ req[r].stage # "idle"
    /\ \/ req'[r] = NoRequest
       \/ /\ req'[r].alone = req[r].alone
          /\ req'[r].account = req[r].account
          /\ req'[r].stage # "hashing"
          /\ req'[r].stage \in Unlinked =>
                 /\ req[r].stage \in Unlinked
                 /\ UNCHANGED <<users, accounts>>
          /\ req'[r].stage = "new" => ~EmailTaken(req'[r].email)
          /\ req'[r].stage = "conflict" =>
                 \/ req[r].stage \in {"hashing", "new"}
                    /\ EmailTaken(req[r].email)
                 \/ req[r].stage = "link" /\ AccountTaken(req[r].account)

LEMMA StepGoes ==
    ASSUME TypeOK, NEW r \in Request, Progress(r) \/ Abort(r)
    PROVE  Goes(r)
  <1>a. req \in [Request -> RequestState] /\ req[r] \in RequestState
    BY DEF TypeOK
  <1>1. ASSUME NEW stage \in Stage, Goto(r, stage)
        PROVE  /\ req'[r].stage = stage /\ req'[r].alone = req[r].alone
               /\ req'[r].account = req[r].account
               /\ req'[r].email = req[r].email
    <2>1. req'[r] = [req[r] EXCEPT !.stage = stage]
      BY <1>a, <1>1 DEF Goto
    <2> QED
      BY <1>a, <2>1, Moved
  <1>2. ASSUME NEW stage \in Stage, NEW id,
               req' = [req EXCEPT ![r] = [@ EXCEPT !.stage = stage, !.user = id]]
        PROVE  /\ req'[r].stage = stage /\ req'[r].alone = req[r].alone
               /\ req'[r].account = req[r].account
               /\ req'[r].email = req[r].email
    <2> DEFINE s == [req[r] EXCEPT !.stage = stage]
    <2>1. s \in RequestState /\ s.stage = stage /\ s.alone = req[r].alone
          /\ s.account = req[r].account /\ s.email = req[r].email
      BY <1>a, Moved
    <2>2. req'[r] = [s EXCEPT !.user = id]
      BY <1>a, <1>2
    <2> HIDE DEF s
    <2> QED
      BY <2>1, <2>2 DEF RequestState
  <1> USE DEF Stage, Unlinked, Goes
  <1>3. CASE SignUpStep(r)
    <2>1. CASE \E id \in Id : SignUpInsertUser(r, id)
      BY <1>2, <2>1 DEF SignUpInsertUser
    <2>2. CASE SignUpInsertProfile(r)
      BY <1>1, <2>2 DEF SignUpInsertProfile
    <2>3. CASE SignUpCommit(r)
      BY <1>1, <2>3 DEF SignUpCommit
    <2>4. CASE SendEmailVerification(r)
      BY <1>1, <2>4 DEF SendEmailVerification
    <2> QED
      BY <1>3, <2>1, <2>2, <2>3, <2>4 DEF SignUpStep
  <1>4. CASE SignInStep(r)
    BY <1>1, <1>4 DEF SignInStep, SignInTouch, SignInCommit
  <1>5. CASE OAuthStep(r)
    <2>1. CASE OAuthTouchLinked(r)
      BY <1>1, <2>1 DEF OAuthTouchLinked, OAuthTouch
    <2>2. CASE OAuthNoEmail(r)
      BY <1>a, <2>2 DEF OAuthNoEmail
    <2>3. CASE OAuthFindNobody(r)
      BY <1>1, <2>3 DEF OAuthFindNobody, NoStatement
    <2>4. CASE \E u \in users : OAuthFindUser(r, u)
      BY <1>2, <2>4 DEF OAuthFindUser, NoStatement
    <2>5. CASE \E id \in Id : OAuthInsertUser(r, id)
      BY <1>2, <2>5 DEF OAuthInsertUser, Statement
    <2>6. CASE OAuthUpdateUser(r)
      BY <1>1, <2>6 DEF OAuthUpdateUser, OAuthTouch, Statement
    <2>7. CASE OAuthProfile(r)
      BY <1>1, <2>7 DEF OAuthProfile, Statement
    <2>8. CASE OAuthInsertAccount(r)
      BY <1>1, <2>8 DEF OAuthInsertAccount
    <2>9. CASE OAuthCommit(r) \/ OAuthSession(r)
      BY <1>1, <2>9 DEF OAuthCommit, OAuthSession
    <2> QED
      BY <1>5, <2>1, <2>2, <2>3, <2>4, <2>5, <2>6, <2>7, <2>8, <2>9
      DEF OAuthStep
  <1>6. CASE EmailConflict(r) \/ AccountConflict(r)
    BY <1>1, <1>6 DEF EmailConflict, AccountConflict, UniqueViolation
  <1>7. CASE SessionFails(r)
    BY <1>1, <1>7 DEF SessionFails
  <1>8. CASE Respond(r) \/ Abort(r)
    BY <1>a, <1>8 DEF Respond, Abort
  <1> QED
    BY <1>3, <1>4, <1>5, <1>6, <1>7, <1>8 DEF Progress

LEMMA AloneStep ==
    ASSUME TypeOK, NEW r \in Request, Steps(r), \A q \in Request : AloneInv(q)
    PROVE  \A q \in Request : AloneInv(q)'
  <1>1. SUFFICES ASSUME NEW q \in Request, req'[q].alone,
                        req'[q].stage # "idle"
                 PROVE  /\ \A p \in Request \ {q} : req'[p].stage = "idle"
                        /\ req'[q].stage \in {"hashing", "new"} =>
                               ~EmailTaken(req[q].email)'
                        /\ req'[q].stage \in Unlinked =>
                               ~AccountTaken(req[q].account)'
                        /\ req'[q].stage # "conflict"
    BY DEF AloneInv, Unlinked
  <1>2. CASE Start(r)
    <2>1. PICK s \in RequestState :
              /\ Arrive(r, s)
              /\ \/ s.stage = "hashing" /\ ~EmailTaken(s.email)
                 \/ s.stage \in {"checked", "linked"}
                 \/ s.stage = "unlinked" /\ ~AccountTaken(s.account)
      BY <1>2, StartArrives
    <2>2. /\ UNCHANGED <<users, profiles, accounts, tx>>
          /\ req'[r] = [s EXCEPT
                           !.alone = \A p \in Request : req[p].stage = "idle"]
          /\ \A p \in Request \ {r} :
                 req'[p] = IF req[p].stage = "idle" THEN req[p]
                           ELSE [req[p] EXCEPT !.alone = FALSE]
      BY <2>1 DEF Arrive, NoStatement
    <2>3. q = r
      <3>1. SUFFICES ASSUME q # r PROVE FALSE
        OBVIOUS
      <3>2. CASE req[q].stage = "idle"
        BY <1>1, <2>2, <3>1, <3>2
      <3>3. CASE req[q].stage # "idle"
        <4>1. req'[q] = [req[q] EXCEPT !.alone = FALSE]
          BY <2>2, <3>1, <3>3
        <4>2. req'[q].alone = FALSE
          BY SlotTyped, <4>1 DEF RequestState
        <4> QED
          BY <1>1, <4>2
      <3> QED
        BY <3>2, <3>3
    <2>4. /\ req'[r].stage = s.stage /\ req'[r].email = s.email
          /\ req'[r].account = s.account
          /\ req'[r].alone = (\A p \in Request : req[p].stage = "idle")
      BY <2>2 DEF RequestState
    <2>5. \A p \in Request \ {q} : req'[p].stage = "idle"
      BY <1>1, <2>2, <2>3, <2>4
    <2>6. /\ req'[q].stage \in {"hashing", "new"} => ~EmailTaken(req[q].email)'
          /\ req'[q].stage \in Unlinked => ~AccountTaken(req[q].account)'
          /\ req'[q].stage # "conflict"
      BY <2>1, <2>2, <2>3, <2>4 DEF EmailTaken, AccountTaken, Unlinked
    <2> QED
      BY <2>5, <2>6
  <1>3. CASE Progress(r) \/ Abort(r)
    <2>1. Goes(r) /\ Frame(r)
      BY <1>3, StepGoes, StepFrame DEF Steps
    <2>2. q = r
      <3>1. SUFFICES ASSUME q # r PROVE FALSE
        OBVIOUS
      <3>2. req'[q] \in {req[q], [req[q] EXCEPT !.alone = FALSE]}
        BY <2>1, <3>1 DEF Frame, Others
      <3>3. req[q].alone /\ req[q].stage # "idle"
        BY <1>1, <3>2 DEF TypeOK, RequestState
      <3>4. req[r].stage = "idle"
        BY <3>1, <3>3 DEF AloneInv
      <3> QED
        BY <2>1, <3>4 DEF Goes
    <2>3. /\ req[r].alone /\ req'[r].account = req[r].account
          /\ req'[r].stage # "hashing"
          /\ req'[r].stage \in Unlinked =>
                 /\ req[r].stage \in Unlinked
                 /\ UNCHANGED <<users, accounts>>
          /\ req'[r].stage = "new" => ~EmailTaken(req'[r].email)
          /\ req'[r].stage = "conflict" =>
                 \/ req[r].stage \in {"hashing", "new"}
                    /\ EmailTaken(req[r].email)
                 \/ req[r].stage = "link" /\ AccountTaken(req[r].account)
      BY <1>1, <2>1, <2>2, IdleRequest DEF Goes
    <2>4. /\ \A p \in Request \ {r} : req[p].stage = "idle"
          /\ req[r].stage \in {"hashing", "new"} => ~EmailTaken(req[r].email)
          /\ req[r].stage \in Unlinked => ~AccountTaken(req[r].account)
      BY <2>1, <2>3 DEF AloneInv, Goes, Unlinked
    <2>5. \A p \in Request \ {r} : req'[p].stage = "idle"
      BY <2>1, <2>4 DEF Frame, Others, TypeOK, RequestState
    <2> QED
      BY <2>2, <2>3, <2>4, <2>5 DEF EmailTaken, AccountTaken, Unlinked
  <1> QED
    BY <1>2, <1>3 DEF Steps

-----------------------------------------------------------------------------
(* Inv is inductive.                                                       *)

LEMMA InitInv == Init => Inv
  <1> SUFFICES ASSUME Init PROVE Inv
    OBVIOUS
  <1>1. TypeOK
    BY EmptyTransaction, IdleRequest DEF Init, TypeOK
  <1>2. UniqueUsers /\ UniqueAccounts
    BY EmptyTransaction DEF Init, UniqueUsers, UniqueAccounts
  <1>3. UsersComplete
    BY DEF Init, UsersComplete
  <1>4. \A r \in Request : Parked(req[r], tx[r])
    BY IdleRequest
    DEF Init, Parked, SignUpParked, SignInParked, OAuthParked, Open
  <1>5. \A r \in Request : AloneInv(r)
    BY IdleRequest DEF Init, AloneInv
  <1> QED
    BY <1>1, <1>2, <1>3, <1>4, <1>5 DEF Inv

\* Every handler's step keeps Inv.
LEMMA StepInv ==
    ASSUME Inv, NEW r \in Request, Steps(r)
    PROVE  Inv'
  <1> USE DEF Inv
  <1>1. TypeOK' /\ \A q \in Request : Parked(req[q], tx[q])'
    BY ParkedStep
  <1>2. UniqueUsers'
    BY UniqueUsersStep
  <1>3. UniqueAccounts'
    BY UniqueAccountsStep
  <1>4. UsersComplete'
    BY CompleteStep
  <1>5. \A q \in Request : AloneInv(q)'
    BY AloneStep
  <1> QED
    BY <1>1, <1>2, <1>3, <1>4, <1>5

LEMMA NextInv == Inv /\ [Next]_vars => Inv'
  <1> SUFFICES ASSUME Inv, [Next]_vars PROVE Inv'
    OBVIOUS
  <1>1. CASE Next
    BY <1>1, StepInv DEF Next, Steps
  <1>2. CASE UNCHANGED vars
    <2> USE <1>2 DEF vars
    <2>1. TypeOK' /\ UniqueUsers' /\ UniqueAccounts' /\ UsersComplete'
      BY DEF Inv, TypeOK, UniqueUsers, UniqueAccounts, UsersComplete
    <2>2. \A r \in Request : Parked(req[r], tx[r])'
      BY DEF Inv, Parked, SignUpParked, SignInParked, OAuthParked, LinkOf,
             OwnerReady, ProfileReady, HasUser, HasPassword, NewUser
    <2>3. \A r \in Request : AloneInv(r)'
      BY DEF Inv, AloneInv, EmailTaken, AccountTaken
    <2> QED
      BY <2>1, <2>2, <2>3 DEF Inv
  <1> QED
    BY <1>1, <1>2

\* Keys are unique over what is committed and what is still open, every parked
\* handler has written exactly what its stage says, and users are complete, in
\* every reachable state (auth.service.ts:94-166, 202-254, 399-527).
THEOREM Invariance == Spec => []Inv
  <1>1. Init => Inv
    BY InitInv
  <1>2. Inv /\ [Next]_vars => Inv'
    BY NextInv
  <1> QED
    BY <1>1, <1>2, PTL DEF Spec

-----------------------------------------------------------------------------
(* The properties.                                                         *)

\* The tables and the requests keep their types, whatever the handlers do
\* (auth.schema.ts:24-111).
THEOREM TypeCorrect == Spec => []TypeOK
  <1>1. Inv => TypeOK
    BY DEF Inv
  <1> QED
    BY <1>1, Invariance, PTL

\* Any number of overlapping and failing sign-ups leave no user without a
\* profile or a credential, and no orphan row (auth.service.ts:124-148,
\* 409-500).
THEOREM Completeness == Spec => []UsersComplete
  <1>1. Inv => UsersComplete
    BY DEF Inv
  <1> QED
    BY <1>1, Invariance, PTL

\* With any number of slots, only an overlapped request comes to an insert that
\* a unique constraint of users or accounts refuses
\* (auth.service.ts:101-109, 399-407, 446-475).
THEOREM NoConflictAlone == Spec => []AloneNeverConflicts
  <1>1. Inv => AloneNeverConflicts
    BY DEF Inv, AloneInv, AloneNeverConflicts
  <1> QED
    BY <1>1, Invariance, PTL

\* Every answer is for the user the account is linked to, or whose email and
\* password were given, however many requests ran since the look-up
\* (auth.service.ts:202-254, 399-527).
THEOREM AnsweredOwner == Spec => []AnswerIsOwner
  <1>1. Inv => AnswerIsOwner
    <2> SUFFICES ASSUME Inv, NEW r \in Request,
                        req[r].stage \in {"committed", "done"}
                 PROVE  IF req[r].account # NoAccount
                        THEN LinkOf(req[r]) \in accounts
                        ELSE HasPassword(req[r].user, req[r].email)
      BY DEF AnswerIsOwner, LinkOf, HasPassword
    <2>1. SignInParked(req[r], tx[r]) /\ OAuthParked(req[r], tx[r])
      BY DEF Inv, Parked
    <2>2. CASE req[r].stage = "committed"
      BY <2>1, <2>2, NamesAssumption DEF OAuthParked
    <2>3. CASE req[r].stage = "done"
      BY <2>1, <2>3 DEF OAuthParked, SignInParked
    <2> QED
      BY <2>2, <2>3
  <1> QED
    BY <1>1, Invariance, PTL

\* No interleaving links an account to anybody but the user with the email of
\* the request, the provider's or else the client's own fallbackEmail: a link
\* appears only in the commit that also holds, or finds, that user
\* (auth.service.ts:439, 446-497).
THEOREM LinkedToOwner == Spec => LinkFollowsEmail
  <1> DEFINE Followed ==
          \A l \in accounts' \ accounts :
              \E r \in Request, u \in users' :
                  /\ req[r].account = l.providerAccountId
                  /\ u.id = l.userId
                  /\ u.email = req[r].email
  <1>1. Inv /\ [Next]_vars => [Followed]_vars
    <2> SUFFICES ASSUME Inv, Next PROVE Followed
      OBVIOUS
    <2>1. PICK r \in Request : Steps(r)
      BY DEF Next, Steps
    <2>2. Frame(r) /\ TypeOK /\ Parked(req[r], tx[r])
      BY <2>1, StepFrame DEF Inv
    <2>3. CASE UNCHANGED <<users, profiles, accounts>>
      BY <2>3
    <2>4. CASE COMMIT(r) /\ req[r].stage \in Committing
      <3>1. \A l \in accounts' \ accounts : l \in tx[r].accounts
        BY <2>4 DEF COMMIT
      <3>2. \A l \in tx[r].accounts :
                /\ l = LinkOf(req[r])
                /\ \E u \in users' : u.id = l.userId /\ u.email = req[r].email
        BY <2>2, <2>4, CommittedTogether
      <3>3. LinkOf(req[r]).providerAccountId = req[r].account
        BY DEF LinkOf
      <3> QED
        BY <3>1, <3>2, <3>3
    <2> QED
      BY <2>2, <2>3, <2>4 DEF Frame
  <1> QED
    BY <1>1, Invariance, PTL DEF Spec, LinkFollowsEmail

-----------------------------------------------------------------------------
(* The refinement of IdentityDirectory.                                    *)

Owner == {<<u.email, u.id>> : u \in users}

Link == {<<l.providerAccountId, l.userId>> : l \in accounts}

\* A commit adds the claims of its transaction, and keeps all others.
LEMMA CommitClaims ==
    ASSUME TypeOK, NEW r \in Request, COMMIT(r)
    PROVE  /\ Owner' = Owner \cup {<<u.email, u.id>> : u \in tx[r].users}
           /\ Link' = Link \cup
                  {<<l.providerAccountId, l.userId>> : l \in tx[r].accounts}
  <1>1. accounts' = accounts \cup tx[r].accounts
    BY DEF COMMIT
  <1>2. /\ \A v \in users' : \/ v \in tx[r].users
                             \/ \E u \in users : v.id = u.id /\ v.email = u.email
        /\ \A u \in users : \E v \in users' : v.id = u.id /\ v.email = u.email
        /\ tx[r].users \subseteq users'
    BY CommittedUsers
  <1>3. Owner' \subseteq Owner \cup {<<u.email, u.id>> : u \in tx[r].users}
    BY <1>2 DEF Owner
  <1>4. Owner \cup {<<u.email, u.id>> : u \in tx[r].users} \subseteq Owner'
    BY <1>2 DEF Owner
  <1>5. Link' = Link \cup
            {<<l.providerAccountId, l.userId>> : l \in tx[r].accounts}
    BY <1>1 DEF Link
  <1> QED
    BY <1>3, <1>4, <1>5

\* The user of a transaction registers an email and an id that are free.
LEMMA CommitRegisters ==
    ASSUME Inv, NEW r \in Request, COMMIT(r), NEW u, tx[r].users = {u}
    PROVE  /\ u.email \in Email /\ u.id \in Id
           /\ Directory!Register(u.email, u.id)
  <1>1. u \in UserRow
    BY SlotTyped DEF Inv, Transaction
  <1>2. \A v \in users : v.email # u.email /\ v.id # u.id
    BY DEF Inv, UniqueUsers, Distinct
  <1>3. Owner' = Owner \cup {<<u.email, u.id>>}
    BY CommitClaims DEF Inv
  <1>4. \A c \in Owner : c[1] # u.email /\ c[2] # u.id
    BY <1>2 DEF Owner
  <1> QED
    BY <1>1, <1>3, <1>4
    DEF UserRow, Owner, Directory!Register, Directory!Free, Directory!Known

\* The account of a transaction is claimed, while free, for a known user.
LEMMA CommitClaimsAccount ==
    ASSUME Inv, NEW r \in Request, COMMIT(r), NEW l, tx[r].accounts = {l},
           req[r].stage \in Committing
    PROVE  l.providerAccountId \in Account /\ Directory!Claim(l.providerAccountId)
  <1>1. l \in AccountRow
    BY SlotTyped DEF Inv, Transaction
  <1>2. \A k \in accounts : k.providerAccountId # l.providerAccountId
    BY DEF Inv, UniqueAccounts
  <1>3. Link' = Link \cup {<<l.providerAccountId, l.userId>>}
    BY CommitClaims DEF Inv
  <1>4. PICK u \in users' : u.id = l.userId
    BY CommittedTogether DEF Inv
  <1>5. <<u.email, u.id>> \in Owner' /\ <<u.email, u.id>>[2] = l.userId
    BY <1>4 DEF Owner
  <1>6. \A c \in Link : c[1] # l.providerAccountId
    BY <1>2 DEF Link
  <1> QED
    BY <1>1, <1>3, <1>5, <1>6
    DEF AccountRow, Owner, Link, Directory!Claim, Directory!Free

\* Every step maps to a registration, a claim, both or a stutter.
LEMMA DirectoryStep ==
    ASSUME Inv, NEW r \in Request, Steps(r)
    PROVE  Directory!Next \/ (Owner' = Owner /\ Link' = Link)
  <1>1. Frame(r) /\ TypeOK /\ Parked(req[r], tx[r])
    BY StepFrame DEF Inv
  <1>2. CASE UNCHANGED <<users, profiles, accounts>>
    BY <1>2 DEF Owner, Link
  <1>3. CASE COMMIT(r) /\ req[r].stage \in Committing
    <2>1. /\ \A u, v \in tx[r].users : u = v
          /\ \A k, l \in tx[r].accounts : k = l
      BY <1>1, <1>3, OneRow
    <2>2. /\ Owner' = Owner \cup {<<u.email, u.id>> : u \in tx[r].users}
          /\ Link' = Link \cup
                 {<<l.providerAccountId, l.userId>> : l \in tx[r].accounts}
      BY <1>1, <1>3, CommitClaims
    <2>3. CASE tx[r].users = {} /\ tx[r].accounts = {}
      BY <2>2, <2>3
    <2>4. ASSUME NEW u, tx[r].users = {u}, tx[r].accounts = {}
          PROVE  Directory!Next
      <3>1. /\ u.email \in Email /\ u.id \in Id
            /\ Directory!Register(u.email, u.id)
        BY <1>3, <2>4, CommitRegisters
      <3>2. Link' = Link
        BY <2>2, <2>4
      <3> QED
        BY <3>1, <3>2 DEF Directory!Next, Link
    <2>5. ASSUME NEW u, tx[r].users = {u}, NEW l, tx[r].accounts = {l}
          PROVE  Directory!Next
      <3>1. /\ u.email \in Email /\ u.id \in Id
            /\ Directory!Register(u.email, u.id)
        BY <1>3, <2>5, CommitRegisters
      <3>2. /\ l.providerAccountId \in Account
            /\ Directory!Claim(l.providerAccountId)
        BY <1>3, <2>5, CommitClaimsAccount
      <3> QED
        BY <3>1, <3>2 DEF Directory!Next
    <2>6. ASSUME NEW l, tx[r].accounts = {l}, tx[r].users = {}
          PROVE  Directory!Next
      <3>1. /\ l.providerAccountId \in Account
            /\ Directory!Claim(l.providerAccountId)
        BY <1>3, <2>6, CommitClaimsAccount
      <3>2. Owner' = Owner
        BY <2>2, <2>6
      <3> QED
        BY <3>1, <3>2 DEF Directory!Next, Owner
    <2>7. /\ tx[r].users = {} \/ \E u : tx[r].users = {u}
          /\ tx[r].accounts = {} \/ \E l : tx[r].accounts = {l}
      BY <2>1
    <2> QED
      BY <2>3, <2>4, <2>5, <2>6, <2>7
  <1> QED
    BY <1>1, <1>2, <1>3 DEF Frame

\* Whatever transactions overlap, fail or roll back, the tables behave like
\* the directory: an email and an account are claimed while free, by commits,
\* and for good (auth.schema.ts:28, 107-109).
THEOREM DirectoryRefinement == Spec => ImplementsDirectory
  <1>1. Init => Directory!Init
    BY DEF Init, Directory!Init
  <1>2. Inv /\ [Next]_vars => [Directory!Next]_(Directory!vars)
    <2> SUFFICES ASSUME Inv, [Next]_vars
                 PROVE  Directory!Next \/ UNCHANGED Directory!vars
      OBVIOUS
    <2>1. CASE Next
      <3>1. PICK r \in Request : Steps(r)
        BY <2>1 DEF Next, Steps
      <3>2. Directory!Next \/ (Owner' = Owner /\ Link' = Link)
        BY <3>1, DirectoryStep
      <3> QED
        BY <3>2 DEF Owner, Link, Directory!vars
    <2>2. CASE UNCHANGED vars
      BY <2>2 DEF vars, Directory!vars
    <2> QED
      BY <2>1, <2>2
  <1> QED
    BY <1>1, <1>2, Invariance, PTL DEF Spec, ImplementsDirectory, Directory!Spec

================================================================================
