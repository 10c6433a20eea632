--------------------------- MODULE MCRateLimiter ---------------------------
(* Small instances of RateLimiter.                                         *)
EXTENDS RateLimiter, TLC

CONSTANTS r1, r2, r3, r4, r5

FiveRequests == {r1, r2, r3, r4, r5}
=============================================================================
