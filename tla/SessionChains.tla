---------------------------- MODULE SessionChains ----------------------------
(***************************************************************************)
(* What the session service promises about a login, without tables, clocks *)
(* or tokens.  A login opens a chain of sessions: each refresh replaces    *)
(* the chain's session by the next one.  A chain is live while it has a    *)
(* session, and renewing while some refresh that found a session of it has *)
(* not finished.  The promise is that a chain which is neither can never   *)
(* come back: logging out, or revoking from another device, is final once  *)
(* the refreshes that were already under way have ended.                   *)
(***************************************************************************)
EXTENDS Naturals

VARIABLES
    ticket,    \* the last number handed out; chains are numbered from it
    live,      \* chains that have a session
    renewing   \* chains that some unfinished refresh is about to extend

vars == <<ticket, live, renewing>>

Init ==
    /\ ticket = 0
    /\ live = {}
    /\ renewing = {}

Open ==
    /\ ticket' = ticket + 1
    /\ live' = live \cup {ticket'}
    /\ UNCHANGED renewing

Begin(c) ==
    /\ c \in live
    /\ renewing' = renewing \cup {c}
    /\ UNCHANGED <<ticket, live>>

\* The chain stays in renewing when a second refresh of it is still under way.
Renew(c) ==
    /\ c \in renewing
    /\ ticket' = ticket + 1
    /\ live' = live \cup {c}
    /\ renewing' \in {renewing, renewing \ {c}}

GiveUp(c) ==
    /\ c \in renewing
    /\ renewing' = renewing \ {c}
    /\ UNCHANGED <<ticket, live>>

End ==
    /\ live' \subseteq live
    /\ UNCHANGED <<ticket, renewing>>

Next ==
    \/ Open
    \/ \E c \in live : Begin(c)
    \/ \E c \in renewing : Renew(c) \/ GiveUp(c)
    \/ End

Spec == Init /\ [][Next]_vars

==============================================================================
