--------------------------- MODULE MCRateLimiter ---------------------------
(* Instances of RateLimiter for TLC.                                        *)
EXTENDS RateLimiter

MCMaxRequests == [l \in Limiters |-> IF l = "votes" THEN 2 ELSE 3]
=============================================================================
