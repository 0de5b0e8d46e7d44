--------------------------- MODULE IdentityDirectory ---------------------------
(***************************************************************************)
(* What the account tables promise, without transactions: an email and a   *)
(* provider account each name at most one user, a user has one email, and  *)
(* what was claimed once is claimed for good.  A provider account is       *)
(* claimed for a user that already has an email or gets one in that step.  *)
(***************************************************************************)
CONSTANTS Id, Email, Account

VARIABLES
    owner,   \* pairs of an email and the user it belongs to
    link     \* pairs of a provider account and the user it signs in

vars == <<owner, link>>

Init == owner = {} /\ link = {}

Free(claims, key) == \A c \in claims : c[1] # key

Known(u) == \E c \in owner : c[2] = u

Register(e, u) ==
    /\ Free(owner, e)
    /\ ~Known(u)
    /\ owner' = owner \cup {<<e, u>>}

Claim(a) ==
    /\ Free(link, a)
    /\ \E c \in owner' : link' = link \cup {<<a, c[2]>>}

Next ==
    \/ \E e \in Email, u \in Id : Register(e, u) /\ UNCHANGED link
    \/ \E e \in Email, u \in Id, a \in Account : Register(e, u) /\ Claim(a)
    \/ \E a \in Account : UNCHANGED owner /\ Claim(a)

Spec == Init /\ [][Next]_vars

==============================================================================
