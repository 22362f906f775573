------------------------- MODULE MemoryLimiterProofs -------------------------
(***************************************************************************)
(* The quota the in-memory rate limiter keeps, for every limit, every      *)
(* window, any number of keys and any pattern of calls.                    *)
(***************************************************************************)
EXTENDS MemoryRateLimiter, TLAPS

(***************************************************************************)
(* BurstBound compares two calls far apart; the code only ever looks at    *)
(* one bucket.  Log says what the accepted calls a of one counter look     *)
(* like: each lies in the window of its bucket; two buckets begin at least *)
(* a window apart; no bucket has more than Limit calls; the call that      *)
(* opened a bucket came when the bucket began.                             *)
(***************************************************************************)
Log(a) ==
  /\ \A i \in 1..Len(a) : a[i].start <= a[i].at /\ a[i].at < a[i].start + Window
  /\ \A i, j \in 1..Len(a) :
       i < j => a[i].start = a[j].start \/ a[i].start + Window <= a[j].start
  /\ \A i \in 1..Len(a) : i + Limit <= Len(a) => a[i].start + Window <= a[i + Limit].start
  /\ \A i \in 1..Len(a) : i = 1 \/ a[i - 1].start # a[i].start => a[i].at = a[i].start

\* How bucket b, at time t, tells the last of the calls a.
Tally(a, b, t) ==
  /\ b.count = 0 => a = <<>>
  /\ b.count > 0 => b.start <= t
  /\ b.count <= Len(a)
  /\ \A i \in 1..Len(a) : i > Len(a) - b.count => a[i].start = b.start
  /\ \A i \in 1..Len(a) : i <= Len(a) - b.count => a[i].start + Window <= b.start

LimiterInv == BucketTypeOK /\ \A k \in Counter : Log(admitted[k]) /\ Tally(admitted[k], buckets[k], now)

LEMMA Appended ==
  ASSUME NEW a \in Seq(Acceptance), NEW x \in Acceptance
  PROVE  /\ Len(a) \in Nat /\ Len(Append(a, x)) = Len(a) + 1
         /\ Append(a, x)[Len(a) + 1] = x
         /\ \A i \in 1..Len(a) : Append(a, x)[i] = a[i]
OBVIOUS

LEMMA Times ==
  ASSUME NEW a \in Seq(Acceptance)
  PROVE  \A i \in 1..Len(a) : a[i].at \in Nat /\ a[i].start \in Nat
<1> SUFFICES ASSUME NEW i \in 1..Len(a) PROVE a[i].at \in Nat /\ a[i].start \in Nat
  OBVIOUS
<1>1. a[i] \in Acceptance
  OBVIOUS
<1> QED
  BY <1>1 DEF Acceptance

\* A call that opens a bucket.
LEMMA OpenBucket ==
  ASSUME NEW a \in Seq(Acceptance), NEW b \in Bucket, NEW t \in Nat,
         Log(a), Tally(a, b, t), b.count = 0 \/ t - b.start >= Window
  PROVE  LET e == Append(a, [at |-> t, start |-> t]) IN
           Log(e) /\ Tally(e, [start |-> t, count |-> 1], t)
<1> DEFINE x == [at |-> t, start |-> t]
           e == Append(a, x)
           n == Len(a)
<1> USE LimiterAssumption
<1>1. /\ n \in Nat /\ Len(e) = n + 1 /\ e[n + 1] = x
      /\ \A i \in 1..n : e[i] = a[i] /\ a[i].at \in Nat /\ a[i].start \in Nat
  <2>1. x \in Acceptance
    BY DEF Acceptance
  <2> QED
    BY <2>1, Appended, Times
<1>2. x.at = t /\ x.start = t
  OBVIOUS
<1>3. b.start \in Nat /\ b.count \in Nat
  BY DEF Bucket
<1>4. \A i \in 1..n : a[i].start + Window <= t
  <2> SUFFICES ASSUME NEW i \in 1..n PROVE a[i].start + Window <= t
    OBVIOUS
  <2>1. b.count # 0 /\ b.start + Window <= t
    BY <1>3 DEF Tally
  <2>2. a[i].start = b.start \/ a[i].start + Window <= b.start
    BY <1>3 DEF Tally
  <2> QED
    BY <1>1, <1>3, <2>1, <2>2
<1> HIDE DEF x, e, n
<1>5. \A i \in 1..Len(e) : e[i].start <= e[i].at /\ e[i].at < e[i].start + Window
  BY <1>1, <1>2 DEF Log, n
<1>6. \A i, j \in 1..Len(e) :
        i < j => e[i].start = e[j].start \/ e[i].start + Window <= e[j].start
  <2> SUFFICES ASSUME NEW i \in 1..n + 1, NEW j \in 1..n + 1, i < j
               PROVE  e[i].start = e[j].start \/ e[i].start + Window <= e[j].start
    BY <1>1
  <2>1. i \in 1..n /\ e[i] = a[i]
    BY <1>1
  <2>2. CASE j \in 1..n
    BY <1>1, <2>1, <2>2 DEF Log, n
  <2>3. CASE j = n + 1
    BY <1>1, <1>2, <1>4, <2>1, <2>3
  <2> QED
    BY <1>1, <2>2, <2>3
<1>7. \A i \in 1..Len(e) : i + Limit <= Len(e) => e[i].start + Window <= e[i + Limit].start
  <2> SUFFICES ASSUME NEW i \in 1..n + 1, i + Limit <= n + 1
               PROVE  e[i].start + Window <= e[i + Limit].start
    BY <1>1
  <2>1. i \in 1..n /\ e[i] = a[i]
    BY <1>1
  <2>2. CASE i + Limit <= n
    <3>1. i + Limit \in 1..n
      BY <1>1, <2>1, <2>2
    <3> QED
      BY <1>1, <2>1, <2>2, <3>1 DEF Log, n
  <2>3. CASE i + Limit = n + 1
    BY <1>1, <1>2, <1>4, <2>1, <2>3
  <2> QED
    BY <1>1, <2>2, <2>3
<1>8. \A i \in 1..Len(e) : i = 1 \/ e[i - 1].start # e[i].start => e[i].at = e[i].start
  <2> SUFFICES ASSUME NEW i \in 1..n + 1, i = 1 \/ e[i - 1].start # e[i].start
               PROVE  e[i].at = e[i].start
    BY <1>1
  <2>1. CASE i \in 1..n
    <3>1. i # 1 => i - 1 \in 1..n
      BY <1>1, <2>1
    <3> QED
      BY <1>1, <2>1, <3>1 DEF Log, n
  <2>2. CASE i = n + 1
    BY <1>1, <1>2, <2>2
  <2> QED
    BY <1>1, <2>1, <2>2
<1>9. Log(e)
  BY <1>5, <1>6, <1>7, <1>8 DEF Log
<1>10. Tally(e, [start |-> t, count |-> 1], t)
  BY <1>1, <1>2, <1>4 DEF Tally
<1> QED
  BY <1>9, <1>10 DEF e, x

\* A call that goes into the bucket there is.
LEMMA FillBucket ==
  ASSUME NEW a \in Seq(Acceptance), NEW b \in Bucket, NEW t \in Nat,
         Log(a), Tally(a, b, t), b.count > 0, b.count < Limit, t - b.start < Window
  PROVE  LET e == Append(a, [at |-> t, start |-> b.start]) IN
           Log(e) /\ Tally(e, [start |-> b.start, count |-> b.count + 1], t)
<1> DEFINE s == b.start
           c == b.count
           x == [at |-> t, start |-> s]
           e == Append(a, x)
           n == Len(a)
<1> USE LimiterAssumption
<1>1. /\ n \in Nat /\ Len(e) = n + 1 /\ e[n + 1] = x
      /\ \A i \in 1..n : e[i] = a[i] /\ a[i].at \in Nat /\ a[i].start \in Nat
  <2>1. x \in Acceptance
    BY DEF Acceptance, Bucket
  <2> QED
    BY <2>1, Appended, Times
<1>2. x.at = t /\ x.start = s
  OBVIOUS
<1>3. s \in Nat /\ c \in Nat /\ c > 0 /\ c < Limit /\ c <= n /\ s <= t /\ t < s + Window
  BY DEF Bucket, Tally
<1>4. \A i \in 1..n : /\ i > n - c => a[i].start = s
                      /\ i <= n - c => a[i].start + Window <= s
  BY DEF Tally
<1> HIDE DEF x, e, n, s, c
<1>5. \A i \in 1..Len(e) : e[i].start <= e[i].at /\ e[i].at < e[i].start + Window
  <2> SUFFICES ASSUME NEW i \in 1..n + 1
               PROVE  e[i].start <= e[i].at /\ e[i].at < e[i].start + Window
    BY <1>1
  <2>1. CASE i \in 1..n
    BY <1>1, <2>1 DEF Log, n
  <2>2. CASE i = n + 1
    BY <1>1, <1>2, <1>3, <2>2
  <2> QED
    BY <1>1, <2>1, <2>2
<1>6. \A i, j \in 1..Len(e) :
        i < j => e[i].start = e[j].start \/ e[i].start + Window <= e[j].start
  <2> SUFFICES ASSUME NEW i \in 1..n + 1, NEW j \in 1..n + 1, i < j
               PROVE  e[i].start = e[j].start \/ e[i].start + Window <= e[j].start
    BY <1>1
  <2>1. i \in 1..n /\ e[i] = a[i]
    BY <1>1
  <2>2. CASE j \in 1..n
    BY <1>1, <2>1, <2>2 DEF Log, n
  <2>3. CASE j = n + 1
    <3>1. i > n - c \/ i <= n - c
      BY <1>1, <1>3, <2>1
    <3> QED
      BY <1>1, <1>2, <1>4, <2>1, <2>3, <3>1
  <2> QED
    BY <1>1, <2>2, <2>3
<1>7. \A i \in 1..Len(e) : i + Limit <= Len(e) => e[i].start + Window <= e[i + Limit].start
  <2> SUFFICES ASSUME NEW i \in 1..n + 1, i + Limit <= n + 1
               PROVE  e[i].start + Window <= e[i + Limit].start
    BY <1>1
  <2>1. i \in 1..n /\ e[i] = a[i]
    BY <1>1
  <2>2. CASE i + Limit <= n
    <3>1. i + Limit \in 1..n
      BY <1>1, <2>1, <2>2
    <3> QED
      BY <1>1, <2>1, <2>2, <3>1 DEF Log, n
  <2>3. CASE i + Limit = n + 1
    <3>1. i <= n - c
      BY <1>1, <1>3, <2>1, <2>3
    <3> QED
      BY <1>1, <1>2, <1>4, <2>1, <2>3, <3>1
  <2> QED
    BY <1>1, <2>2, <2>3
<1>8. \A i \in 1..Len(e) : i = 1 \/ e[i - 1].start # e[i].start => e[i].at = e[i].start
  <2> SUFFICES ASSUME NEW i \in 1..n + 1, i = 1 \/ e[i - 1].start # e[i].start
               PROVE  e[i].at = e[i].start
    BY <1>1
  <2>1. CASE i \in 1..n
    <3>1. i # 1 => i - 1 \in 1..n
      BY <1>1, <2>1
    <3> QED
      BY <1>1, <2>1, <3>1 DEF Log, n
  <2>2. CASE i = n + 1
    <3>1. n \in 1..n /\ n > n - c /\ i # 1 /\ i - 1 = n
      BY <1>1, <1>3, <2>2
    <3>2. e[n].start = s
      BY <1>1, <1>4, <3>1
    <3> QED
      BY <1>1, <1>2, <2>2, <3>1, <3>2
  <2> QED
    BY <1>1, <2>1, <2>2
<1>9. Log(e)
  BY <1>5, <1>6, <1>7, <1>8 DEF Log
<1>10. Tally(e, [start |-> s, count |-> c + 1], t)
  BY <1>1, <1>2, <1>3, <1>4 DEF Tally
<1> QED
  BY <1>9, <1>10 DEF e, x, s, c

\* Any 2 * Limit calls in a row: either the first of them has opened its
\* bucket, so that the call Limit later is a whole window later; or its bucket
\* ends before the Limit-th of them, and two buckets begin after it.
LEMMA LogBounds ==
  ASSUME NEW a \in Seq(Acceptance), Log(a),
         NEW i \in 1..Len(a), i + (2 * Limit - 1) <= Len(a)
  PROVE  a[i + (2 * Limit - 1)].at - a[i].at >= Window
<1> USE LimiterAssumption
<1> DEFINE n == Len(a)  z == i + (2 * Limit - 1)  m == i + (Limit - 1)
<1>1. /\ n \in Nat /\ i \in 1..n /\ z \in 1..n /\ m \in 1..n /\ m + Limit = z /\ i + Limit \in 1..n
      /\ i <= m /\ i + Limit <= z
  OBVIOUS
<1>2. \A j \in 1..n : a[j].at \in Nat /\ a[j].start \in Nat /\ a[j].start <= a[j].at
                      /\ a[j].at < a[j].start + Window
  BY Times DEF Log
<1>3. \A j \in 1..n : j + Limit \in 1..n => a[j].start + Window <= a[j + Limit].start
  BY DEF Log
<1>4. a[m].start + Window <= a[z].start
  <2> HIDE DEF n, m, z
  <2> QED
    BY <1>1, <1>3
<1> SUFFICES a[z].at - a[i].at >= Window
  OBVIOUS
<1> DEFINE A == a[i].at  S == a[i].start  T == a[m].start  U == a[z].start  Z == a[z].at
<1>5. /\ A \in Nat /\ S \in Nat /\ T \in Nat /\ U \in Nat /\ Z \in Nat
      /\ A < S + Window /\ U <= Z /\ T + Window <= U
  BY <1>1, <1>2, <1>4
<1>6. CASE a[i].start = a[m].start
  <2>1. i = 1 \/ a[i - 1].start # a[i].start
    <3> SUFFICES ASSUME i # 1 PROVE a[i - 1].start # a[i].start
      OBVIOUS
    <3> DEFINE h == i - 1
    <3>1. h \in 1..n /\ m \in 1..n /\ h + Limit = m
      OBVIOUS
    <3>2. a[h].start + Window <= a[m].start
      <4> HIDE DEF h, m, n
      <4> QED
        BY <1>3, <3>1
    <3> DEFINE P == a[h].start
    <3>3. P \in Nat /\ P + Window <= S
      BY <1>2, <1>6, <3>1, <3>2
    <3>4. P # S
      <4> HIDE DEF P, S
      <4> QED
        BY <1>5, <3>3
    <3> QED
      BY <3>4
  <2>2. a[i].at = a[i].start
    BY <2>1 DEF Log
  <2>3. S = T /\ A = S
    BY <1>6, <2>2
  <2> HIDE DEF A, S, T, U, Z
  <2>4. Z - A >= Window
    BY <1>5, <2>3
  <2> QED
    BY <2>4 DEF A, Z
<1>7. CASE a[i].start # a[m].start
  <2>1. S + Window <= T
    <3>1. a[i].start + Window <= a[m].start
      <4>1. i < m
        BY <1>1, <1>7
      <4> QED
        BY <1>1, <1>7, <4>1 DEF Log
    <3> QED
      BY <3>1
  <2> HIDE DEF A, S, T, U, Z
  <2>2. Z - A >= Window
    BY <1>5, <2>1
  <2> QED
    BY <2>2 DEF A, Z
<1> QED
  BY <1>6, <1>7

LEMMA LimiterInit == BucketInit => LimiterInv
BY LimiterAssumption DEF BucketInit, LimiterInv, BucketTypeOK, Bucket, Log, Tally

LEMMA AcceptStep ==
  ASSUME LimiterInv, NEW k \in Counter, Accept(k)
  PROVE  LimiterInv'
<1> DEFINE a == admitted[k]
           b == buckets[k]
           cur == Current(k)
           new == [start |-> cur.start, count |-> cur.count + 1]
           e == Append(a, [at |-> now, start |-> cur.start])
<1>1. /\ a \in Seq(Acceptance) /\ b \in Bucket /\ now \in Nat /\ Log(a) /\ Tally(a, b, now)
      /\ buckets \in [Counter -> Bucket] /\ admitted \in [Counter -> Seq(Acceptance)]
  BY DEF LimiterInv, BucketTypeOK
<1>2. /\ cur \in Bucket /\ cur.count < Limit
      /\ \/ cur = [start |-> now, count |-> 0] /\ (b.count = 0 \/ now - b.start >= Window)
         \/ cur = b /\ b.count > 0 /\ now - b.start < Window
  <2>1. b.start \in Nat /\ b.count \in Nat /\ cur.count < Limit
    BY <1>1 DEF Accept, Bucket
  <2>2. CASE b.count = 0 \/ now - b.start >= Window
    <3>1. cur = [start |-> now, count |-> 0]
      BY <2>2 DEF Current
    <3> QED
      BY <1>1, <2>1, <2>2, <3>1, LimiterAssumption DEF Bucket
  <2>3. CASE ~(b.count = 0 \/ now - b.start >= Window)
    <3>1. cur = b
      BY <2>3 DEF Current
    <3> HIDE DEF b, cur
    <3>2. b.count > 0 /\ now - b.start < Window
      BY <1>1, <2>1, <2>3, LimiterAssumption
    <3> QED
      BY <1>1, <2>1, <3>1, <3>2
  <2> QED
    BY <2>2, <2>3
<1>3. now' = now /\ admitted' = [admitted EXCEPT ![k] = e]
  BY DEF Accept
<1>4. buckets' = [buckets EXCEPT ![k] = new]
  BY <1>2 DEF Accept, Bucket
<1>5. new \in Bucket
  BY <1>2, LimiterAssumption DEF Bucket
<1>6. e \in Seq(Acceptance)
  BY <1>1, <1>2 DEF Acceptance, Bucket
<1>7. Log(e) /\ Tally(e, new, now)
  <2>1. CASE cur = [start |-> now, count |-> 0] /\ (b.count = 0 \/ now - b.start >= Window)
    <3>1. new = [start |-> now, count |-> 1] /\ e = Append(a, [at |-> now, start |-> now])
      BY <2>1
    <3> QED
      BY <1>1, <2>1, <3>1, OpenBucket
  <2>2. CASE cur = b /\ b.count > 0 /\ now - b.start < Window
    BY <1>1, <1>2, <2>2, FillBucket
  <2> QED
    BY <1>2, <2>1, <2>2
<1> HIDE DEF new, e
<1> QED
  BY <1>1, <1>3, <1>4, <1>5, <1>6, <1>7 DEF LimiterInv, BucketTypeOK

LEMMA DenyStep ==
  ASSUME LimiterInv, NEW k \in Counter, Deny(k)
  PROVE  LimiterInv'
<1>1. buckets[k] \in Bucket
  BY DEF LimiterInv, BucketTypeOK
<1>2. Current(k) = buckets[k]
  BY <1>1, LimiterAssumption DEF Deny, Current, Bucket
<1> QED
  BY <1>1, <1>2 DEF Deny, LimiterInv, BucketTypeOK

LEMMA TickStep ==
  ASSUME LimiterInv, BucketTick
  PROVE  LimiterInv'
<1>1. now \in Nat /\ now' = now + 1 /\ UNCHANGED <<buckets, admitted>>
  BY DEF BucketTick, LimiterInv, BucketTypeOK
<1>2. \A k \in Counter : Tally(admitted[k], buckets[k], now')
  BY <1>1 DEF LimiterInv, BucketTypeOK, Tally, Bucket
<1> QED
  BY <1>1, <1>2 DEF LimiterInv, BucketTypeOK

\* Every key keeps its quota and no caller is refused within it: fewer than
\* 2 * Limit calls in any stretch shorter than the window, and a refusal only
\* after Limit accepted calls less than a window ago.
THEOREM MemoryLimiterCorrect == BucketSpec => [](BucketTypeOK /\ BurstBound /\ DeniedOnlyOverQuota)
<1>1. ASSUME LimiterInv, [BucketNext]_bucketVars
      PROVE  LimiterInv'
  <2>1. CASE UNCHANGED bucketVars
    BY <1>1, <2>1 DEF bucketVars, LimiterInv, BucketTypeOK
  <2> QED
    BY <1>1, <2>1, AcceptStep, DenyStep, TickStep DEF BucketNext
<1>2. BucketSpec => []LimiterInv
  BY <1>1, LimiterInit, PTL DEF BucketSpec
<1>3. LimiterInv => BurstBound
  <2> SUFFICES ASSUME LimiterInv, NEW k \in Counter, NEW i \in 1..Len(admitted[k]),
                      i + (2 * Limit - 1) <= Len(admitted[k])
               PROVE  admitted[k][i + (2 * Limit - 1)].at - admitted[k][i].at >= Window
    BY DEF BurstBound, AdmitsAtMost
  <2>1. admitted[k] \in Seq(Acceptance) /\ Log(admitted[k])
    BY DEF LimiterInv, BucketTypeOK
  <2> QED
    BY <2>1, LogBounds
<1>4. LimiterInv => DeniedOnlyOverQuota
  <2> SUFFICES ASSUME LimiterInv, NEW k \in Counter, Current(k).count >= Limit
               PROVE  LET n == Len(admitted[k]) IN
                        n >= Limit /\ now - admitted[k][n - Limit + 1].at < Window
    BY DEF DeniedOnlyOverQuota
  <2> DEFINE a == admitted[k]  b == buckets[k]
  <2>1. a \in Seq(Acceptance) /\ b \in Bucket /\ now \in Nat /\ Log(a) /\ Tally(a, b, now)
    BY DEF LimiterInv, BucketTypeOK
  <2>2. b.count = Limit /\ now - b.start < Window
    BY <2>1, LimiterAssumption DEF Current, Bucket
  <2> HIDE DEF a, b
  <2>3. Len(a) \in Nat /\ Len(a) >= Limit /\ Len(a) - Limit + 1 \in 1..Len(a)
    BY <2>1, <2>2, LimiterAssumption DEF Tally
  <2>4. a[Len(a) - Limit + 1].start = b.start /\ a[Len(a) - Limit + 1].start <= a[Len(a) - Limit + 1].at
    <3>1. Len(a) - Limit + 1 > Len(a) - b.count
      BY <2>2, <2>3, LimiterAssumption
    <3> QED
      BY <2>1, <2>3, <3>1 DEF Tally, Log
  <2>5. a[Len(a) - Limit + 1].at \in Nat /\ a[Len(a) - Limit + 1].start \in Nat /\ b.start \in Nat
    BY <2>1, <2>3, Times DEF Bucket
  <2>6. now - a[Len(a) - Limit + 1].at < Window
    BY <2>1, <2>2, <2>4, <2>5, LimiterAssumption
  <2> QED
    BY <2>3, <2>6 DEF a
<1>5. LimiterInv => BucketTypeOK
  BY DEF LimiterInv
<1> QED
  BY <1>2, <1>3, <1>4, <1>5, PTL

\* The limiter's buckets and log stay well-formed, and no bucket counts past the
\* quota (check, limiter.py): one conjunct of the theorem above.
THEOREM LimiterTypesCorrect == BucketSpec => []BucketTypeOK
BY MemoryLimiterCorrect, PTL

\* For every quota and window: a caller is refused only with a quota's worth of
\* calls accepted in the window just past (check, limiter.py).
THEOREM RefusedOnlyOverQuota == BucketSpec => []DeniedOnlyOverQuota
BY MemoryLimiterCorrect, PTL
================================================================================
