---------------------------- MODULE MCRateLimiter ----------------------------
(* The instances of RateLimiter that TLC checks.  One client shows what    *)
(* several would, over a longer time: see RateLimiterProofs,               *)
(* ClientsAreIndependent.                                                  *)
EXTENDS RateLimiter, TLC
=============================================================================
