---------------------------- MODULE MCRateLimiter ----------------------------
(* RateLimiter for TLC: calls are interchangeable. *)
EXTENDS RateLimiter, TLC

CallSymmetry == Permutations(Calls)
=============================================================================
