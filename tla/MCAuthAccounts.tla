---------------------------- MODULE MCAuthAccounts ----------------------------
(***************************************************************************)
(* AuthAccounts for TLC.  Ids, emails, provider accounts and slots are     *)
(* interchangeable, and the run checks no liveness.                        *)
(***************************************************************************)
EXTENDS AuthAccounts, TLC

Symmetry ==
    Permutations(Id) \cup Permutations(Email) \cup Permutations(Account)
        \cup Permutations(Request)

==============================================================================
