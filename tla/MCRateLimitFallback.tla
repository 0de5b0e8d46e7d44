------------------------- MODULE MCRateLimitFallback -------------------------
(***************************************************************************)
(* RateLimitFallback for TLC: two tenants on a plan with a short window    *)
(* and one on a plan with a longer window.                                 *)
(***************************************************************************)
EXTENDS RateLimitFallback, TLC

CONSTANTS short1, short2, long

MCTenant == {short1, short2, long}

MCLimit == (short1 :> 2) @@ (short2 :> 1) @@ (long :> 2)

MCWindowSeconds == (short1 :> 1) @@ (short2 :> 1) @@ (long :> 2)

==============================================================================
