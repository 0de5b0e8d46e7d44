--------------------------- MODULE MCPooledAccounts ---------------------------
(***************************************************************************)
(* PooledAccounts for TLC.  The run checks liveness, so it uses no         *)
(* symmetry.                                                               *)
(***************************************************************************)
EXTENDS PooledAccounts
==============================================================================
