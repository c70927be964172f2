---------------------------- MODULE MCRateLimiter ----------------------------
(* Model-checking instance of RateLimiter.                                 *)
EXTENDS RateLimiter, TLC

CONSTANTS q1, q2, s1

MCHome     == [q \in Requests |-> s1]
MCSymmetry == Permutations(Requests)
=============================================================================
