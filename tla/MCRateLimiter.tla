---------------------------- MODULE MCRateLimiter ----------------------------
(* Four requests over three windows, two requests to a window.             *)
EXTENDS RateLimiter, TLC

CONSTANTS q1, q2, q3, q4

MCRequests == {q1, q2, q3, q4}
Symmetry == Permutations(MCRequests)
=============================================================================
