--------------------------- MODULE MCRateLimiter ---------------------------
(***************************************************************************)
(* Values for the model checking of RateLimiter.                           *)
(***************************************************************************)
EXTENDS RateLimiter, TLC

Symmetry == Permutations(Thread) \cup Permutations(Trace)
=============================================================================
