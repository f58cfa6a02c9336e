---------------------------- MODULE MCRateLimiter ----------------------------
(* RateLimiter on four attempts with one key, two at a time or one after the  *)
(* other.  One run has a liveness property: attempts, although they are       *)
(* interchangeable, are not reduced by symmetry.                              *)
EXTENDS RateLimiter
=============================================================================
