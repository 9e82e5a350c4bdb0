------------------------ MODULE MCConcurrencyLimiter ------------------------
(***************************************************************************)
(* Model-checking instance of the bulkhead.  The workers are alike, so TLC *)
(* may explore one order of them only.                                     *)
(***************************************************************************)
EXTENDS ConcurrencyLimiter, TLC

WorkerSymmetry == Permutations(Tokens)
=============================================================================
