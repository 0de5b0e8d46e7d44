---------------------------- MODULE MCAuthSessions ----------------------------
(***************************************************************************)
(* AuthSessions for TLC.  Users and request slots are interchangeable.     *)
(***************************************************************************)
EXTENDS AuthSessions, TLC

Symmetry == Permutations(User) \cup Permutations(Request)

==============================================================================
