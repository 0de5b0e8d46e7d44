---------------------------- MODULE MCRateLimiter ----------------------------
(***************************************************************************)
(* RateLimiter for TLC: two slots in one process.  The model does not      *)
(* order the commands of a connection, so that the two calls overlap as    *)
(* those of two processes would.  The run checks liveness, so it uses no   *)
(* symmetry.                                                               *)
(***************************************************************************)
EXTENDS RateLimiter, TLC

CONSTANTS p1, r1, r2

MCServer == r1 :> p1 @@ r2 :> p1

==============================================================================
