--------------------------- MODULE MCRateLimiter ---------------------------
(* Two clients; tokens, thresholds and intervals are scaled down so that   *)
(* buckets empty, fill, go stale and are made anew within the clock.       *)
EXTENDS RateLimiter
=============================================================================
