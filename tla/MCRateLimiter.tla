---------------------------- MODULE MCRateLimiter ----------------------------
(***************************************************************************)
(* Model-checking instance of the rate limiter.  The calls are alike, so   *)
(* TLC may explore one order of them only.                                 *)
(***************************************************************************)
EXTENDS RateLimiter, TLC

CallSymmetry == Permutations(Calls)
=============================================================================
