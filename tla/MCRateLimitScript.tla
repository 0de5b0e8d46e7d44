-------------------------- MODULE MCRateLimitScript --------------------------
(***************************************************************************)
(* RateLimitScript for TLC.  The constants are small numbers, given in the *)
(* configurations.                                                         *)
(***************************************************************************)
EXTENDS RateLimitScript
==============================================================================
