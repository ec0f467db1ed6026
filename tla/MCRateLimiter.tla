--------------------------- MODULE MCRateLimiter ----------------------------
(* Buckets for checking RateLimiter with TLC. *)
EXTENDS RateLimiter, TLC

CONSTANTS c1, c2, x

\* Two approvals in a window of two ticks, one per recipient in three.
SmallCapacity == (Sec :> 2) @@ (x :> 1)
SmallWindow == (Sec :> 2) @@ (x :> 3)

Symmetry == Permutations({c1, c2})
=============================================================================
