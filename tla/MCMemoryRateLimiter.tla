-------------------------- MODULE MCMemoryRateLimiter --------------------------
(* MemoryRateLimiter with a clock that starts at 0 and stops at MaxTime. *)
EXTENDS MemoryRateLimiter

CONSTANT MaxTime

MCInit == now = 0 /\ BucketInit

MCNext == BucketNext /\ now' <= MaxTime

MCSpec == MCInit /\ [][MCNext]_bucketVars
================================================================================
