------------------------------ MODULE RateLimiter ------------------------------
(***************************************************************************)
(* What both rate limiters of app/ratelimit/limiter.py share: the quota    *)
(* enforce_rate_limit (app/ratelimit/middleware.py) passes to check, and   *)
(* the clock check reads.                                                  *)
(***************************************************************************)
EXTENDS Naturals

CONSTANTS
  Limit,     \* RATE_LIMIT_REQUESTS_PER_MINUTE
  Window     \* window_seconds, 60 for the only caller

ASSUME LimiterAssumption == Limit \in Nat \ {0} /\ Window \in Nat \ {0}

VARIABLE now \* time.time(), the same in every process and in Redis; it does not go back
================================================================================
