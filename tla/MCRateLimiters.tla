---------------------------- MODULE MCRateLimiters ----------------------------
(***************************************************************************)
(* Both rate limiters on small instances, in one run.                      *)
(*                                                                         *)
(* Callers of Redis are interchangeable, and a call it let through a       *)
(* window ago or more no longer tells two states apart: it stands with no  *)
(* later call in a stretch shorter than the window.                        *)
(***************************************************************************)
EXTENDS MemoryRateLimiter, RedisRateLimiter, TLC

VARIABLE backend   \* RATE_LIMIT_BACKEND; get_rate_limiter is cached, so one for good

LimitersInit == backend \in {"memory", "redis"} /\ Init /\ BucketInit

LimitersNext ==
  \/ /\ backend = "memory" /\ BucketNext /\ now' <= MaxTime
     /\ UNCHANGED <<backend, counters, call, accepted, late, aborts>>
  \/ /\ backend = "redis" /\ Next
     /\ UNCHANGED <<backend, buckets, admitted>>

LimitersSpec == LimitersInit /\ [][LimitersNext]_<<backend, vars, bucketVars>>

Symmetry == Permutations(Caller)

Recent == SelectSeq(accepted, LAMBDA t : t > now - Window)
View == <<backend, now, buckets, admitted, counters, call, Recent, late, aborts>>
================================================================================
