--------------------------- MODULE MemoryRateLimiter ---------------------------
(***************************************************************************)
(* InMemoryRateLimiter (app/ratelimit/limiter.py) as enforce_rate_limit    *)
(* uses it: RATE_LIMIT_BACKEND = "memory".  A counter is one entry of the  *)
(* dictionary _buckets of one server process; check has no await, so a     *)
(* call is one step.  Time is discrete and does not go back.               *)
(***************************************************************************)
EXTENDS RateLimiter, Sequences

CONSTANT Counter   \* a server process and a "tenant:user:scope" key

VARIABLES
  buckets,   \* _buckets; count = 0 stands for a key that is not there
  admitted   \* history: for each counter, the calls that returned True

bucketVars == <<now, buckets, admitted>>

Bucket == [start : Nat, count : 0..Limit]

\* A call accepted at time at, counted in the bucket that began at start.
Acceptance == [at : Nat, start : Nat]

BucketTypeOK ==
  /\ now \in Nat
  /\ buckets \in [Counter -> Bucket]
  /\ admitted \in [Counter -> Seq(Acceptance)]

BucketInit ==
  /\ now \in Nat
  /\ buckets = [k \in Counter |-> [start |-> 0, count |-> 0]]
  /\ admitted = [k \in Counter |-> <<>>]

--------------------------------------------------------------------------------

\* Mutant: a bucket is over one unit of time early.
CurrentTooSoon(k) ==
  IF buckets[k].count = 0 \/ now - buckets[k].start >= Window - 1
  THEN [start |-> now, count |-> 0]
  ELSE buckets[k]

\* Mutant: a bucket is never over.
CurrentForGood(k) ==
  IF buckets[k].count = 0 THEN [start |-> now, count |-> 0] ELSE buckets[k]

\* The bucket a call at this moment works on: the first request of a key, and
\* the first one after the window is over, begin a new one.
Current(k) ==
  IF buckets[k].count = 0 \/ now - buckets[k].start >= Window
  THEN [start |-> now, count |-> 0]
  ELSE buckets[k]

\* Mutant: one call too many.
AcceptOneMore(k) ==
  /\ Current(k).count <= Limit
  /\ buckets' = [buckets EXCEPT ![k] =
                   [start |-> Current(k).start, count |-> Current(k).count + 1]]
  /\ admitted' = [admitted EXCEPT ![k] = Append(@, [at |-> now, start |-> Current(k).start])]
  /\ UNCHANGED now

\* check returns True and counts the call.
Accept(k) ==
  /\ Current(k).count < Limit
  /\ buckets' = [buckets EXCEPT ![k] =
                   [start |-> Current(k).start, count |-> Current(k).count + 1]]
  /\ admitted' = [admitted EXCEPT ![k] = Append(@, [at |-> now, start |-> Current(k).start])]
  /\ UNCHANGED now

\* check returns False (429); the bucket is written back as it is.
Deny(k) ==
  /\ Current(k).count >= Limit
  /\ buckets' = [buckets EXCEPT ![k] = Current(k)]
  /\ UNCHANGED <<now, admitted>>

BucketTick == now' = now + 1 /\ UNCHANGED <<buckets, admitted>>

BucketNext == BucketTick \/ \E k \in Counter : Accept(k) \/ Deny(k)

BucketSpec == BucketInit /\ [][BucketNext]_bucketVars

--------------------------------------------------------------------------------

\* Any n + 1 calls in a row that one counter accepts take at least Window: less
\* than n + 1 are accepted in any stretch of time shorter than that.
AdmitsAtMost(n) ==
  \A k \in Counter : \A i \in 1..Len(admitted[k]) :
    i + n <= Len(admitted[k]) => admitted[k][i + n].at - admitted[k][i].at >= Window

\* What the docstrings claim: the window is anchored to the first request of its key and
\* so "has no boundary-crossing failure mode" (limiter.py:14-16, 49-58): no burst exceeds
\* the quota.  But a bucket has an end as well, and the one after it starts afresh.
NoBoundaryBurst == AdmitsAtMost(Limit)

\* What the code does keep: in no stretch shorter than the window, across the end of a
\* bucket or not, does a counter accept 2 * Limit calls.
BurstBound == AdmitsAtMost(2 * Limit - 1)

\* A caller is refused only with a full quota accepted less than a window ago:
\* nobody who keeps within Limit per Window ever meets a 429.
DeniedOnlyOverQuota ==
  \A k \in Counter :
    Current(k).count >= Limit =>
      LET n == Len(admitted[k]) IN
        n >= Limit /\ now - admitted[k][n - Limit + 1].at < Window
================================================================================
