--------------------------- MODULE MCRateLimiter ----------------------------
(***************************************************************************)
(* Three callers, two of one domain with different settings: c2's fields   *)
(* are 0, so the defaults apply to it.                                     *)
(***************************************************************************)
EXTENDS RateLimiter, TLC

CONSTANTS c1, c2, c3, d1, d2

ThreeCallers  == {c1, c2, c3}
TwoDomains    == {d1, d2}
CallerDomain  == c1 :> d1 @@ c2 :> d1 @@ c3 :> d2
CallerDelay   == c1 :> 1 @@ c2 :> 0 @@ c3 :> 3
CallerRpm     == c1 :> 2 @@ c2 :> 0 @@ c3 :> 1
=============================================================================
