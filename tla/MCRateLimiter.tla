--------------------------- MODULE MCRateLimiter ----------------------------
(* Instances of RateLimiter for TLC. *)
EXTENDS RateLimiter, TLC

\* Requests are interchangeable, and so are clients.
LimiterSymmetry == Permutations(Requests) \cup Permutations(IPs)
=============================================================================
