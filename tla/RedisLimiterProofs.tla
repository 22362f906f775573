-------------------------- MODULE RedisLimiterProofs --------------------------
(***************************************************************************)
(* What the Redis rate limiter keeps for every quota, every window, any    *)
(* number of calls in flight and any delay: its types, counters that go    *)
(* away, bursts while commands are in time and bursts when they are late.  *)
(***************************************************************************)
EXTENDS Integers, RedisRateLimiter, FiniteSetTheorems, TLAPS

--------------------------------------------------------------------------------
(* Windows *)

LEMMA InWindow ==
  ASSUME NEW t \in Nat
  PROVE  WindowOf(t) \in Nat /\ WindowOf(t) <= t /\ t < WindowOf(t) + Window
<1>1. Window \in Nat /\ Window > 0
  BY LimiterAssumption, BoundsAssumption
<1>2. t % Window \in 0..(Window - 1) /\ t % Window <= t
  BY <1>1
<1> QED
  BY <1>1, <1>2 DEF WindowOf

LEMMA Division ==
  ASSUME NEW t \in Nat
  PROVE  t \div Window \in Nat /\ t = Window * (t \div Window) + (t % Window)
<1>1. Window \in Int /\ Window > 0 /\ t \in Int /\ t >= 0
  BY LimiterAssumption, BoundsAssumption
<1>2. t = Window * (t \div Window) + (t % Window)
  BY ONLY <1>1, Z3
<1>3. t \div Window \in Int /\ t % Window < Window
  BY ONLY <1>1, Z3
<1>4. t \div Window >= 0
  BY <1>1, <1>2, <1>3, SMTT(30)
<1> QED
  BY <1>2, <1>3, <1>4

\* Two windows are the same, or the later one starts when the earlier is over.
LEMMA WindowsApart ==
  ASSUME NEW t \in Nat, NEW u \in Nat, t <= u
  PROVE  WindowOf(t) = WindowOf(u) \/ WindowOf(t) + Window <= WindowOf(u)
<1> DEFINE p == t \div Window
           q == u \div Window
<1>1. Window \in Nat /\ Window > 0
  BY LimiterAssumption, BoundsAssumption
<1>2. p \in Nat /\ q \in Nat /\ t = Window * p + (t % Window) /\ u = Window * q + (u % Window)
  BY <1>1, Division
<1>3. WindowOf(t) = Window * p /\ WindowOf(u) = Window * q
  BY <1>1, <1>2 DEF WindowOf
<1> HIDE DEF p, q
<1>4. CASE p < q
  <2>1. Window * (p + 1) <= Window * q
    BY <1>1, <1>2, <1>4
  <2>2. Window * (p + 1) = Window * p + Window
    BY <1>1, <1>2
  <2> QED
    BY <1>1, <1>2, <1>3, <2>1, <2>2
<1>5. CASE p = q
  BY <1>3, <1>5
<1>6. CASE q < p
  <2>1. Window * (q + 1) <= Window * p
    BY <1>1, <1>2, <1>6
  <2>2. Window * (q + 1) = Window * q + Window
    BY <1>1, <1>2
  <2>3. u < WindowOf(u) + Window /\ WindowOf(t) <= t /\ WindowOf(u) \in Nat /\ WindowOf(t) \in Nat
    BY InWindow
  <2> QED
    BY <1>1, <1>2, <1>3, <2>1, <2>2, <2>3
<1> QED
  BY <1>2, <1>4, <1>5, <1>6


--------------------------------------------------------------------------------
(* What every step keeps of the types *)

LEMMA StartsAreStarts ==
  ASSUME NEW t \in 0..MaxTime
  PROVE  WindowOf(t) \in WindowStart /\ WindowOf(t) \in Nat /\ WindowOf(t) + Window \in 0..(Never - 1)
<1>1. WindowOf(t) \in WindowStart
  BY DEF WindowStart
<1>2. t \in Nat /\ MaxTime \in Nat /\ Window \in Nat
  BY LimiterAssumption, BoundsAssumption
<1>3. WindowOf(t) \in Nat /\ WindowOf(t) <= t
  BY <1>2, InWindow
<1> QED
  BY <1>1, <1>2, <1>3 DEF Never

\* A window begins no later than the clock's last second, and its counter
\* can expire a window later.
LEMMA StartsInTime ==
  ASSUME NEW w \in WindowStart
  PROVE  w \in 0..MaxTime /\ w + Window < Never
<1>1. PICK t \in 0..MaxTime : w = WindowOf(t)
  BY DEF WindowStart
<1>2. t \in Nat /\ MaxTime \in Nat /\ Window \in Nat
  BY LimiterAssumption, BoundsAssumption
<1>3. WindowOf(t) \in Nat /\ WindowOf(t) <= t
  BY <1>2, InWindow
<1> QED
  BY <1>1, <1>2, <1>3 DEF Never

LEMMA NoneYet == ASSUME NEW S PROVE <<>> \in Seq(S)
OBVIOUS

LEMMA OneMore ==
  ASSUME NEW S, NEW log \in Seq(S), NEW e \in S
  PROVE  /\ Append(log, e) \in Seq(S) /\ Len(Append(log, e)) = Len(log) + 1
         /\ \A i \in 1..Len(log) : Append(log, e)[i] = log[i]
         /\ Append(log, e)[Len(log) + 1] = e
OBVIOUS

\* For every quota, window and bound on the clock: the variables keep their
\* types; a count stops at the one after the last that is let through.
THEOREM TypesHold == Spec => []TypeOK
<1>0. Limit \in Nat \ {0} /\ Window \in Nat \ {0} /\ MaxTime \in Nat /\ MaxAborts \in Nat /\ Never \in Nat
  BY LimiterAssumption, BoundsAssumption DEF Never
<1>1. Init => TypeOK
  <2> SUFFICES ASSUME Init PROVE TypeOK
    OBVIOUS
  <2>1. now = 0 /\ late = FALSE /\ aborts = 0
    BY DEF Init
  <2>5. now \in 0..MaxTime /\ aborts \in 0..MaxAborts
    BY <1>0, <2>1
  <2>6. late \in BOOLEAN
    BY <2>1, Zenon
  <2>4. accepted \in Seq(0..MaxTime)
    BY NoneYet DEF Init
  <2>2. call \in [Caller -> [pc : {"idle", "incr", "expire"}, at : 0..MaxTime]]
    BY <1>0 DEF Init, IdleCall
  <2>3. counters \in [WindowStart -> [count : 0..(Limit + 1), expires : 0..Never]]
    BY <1>0 DEF Init, Gone
  <2> QED
    BY <2>2, <2>3, <2>4, <2>5, <2>6 DEF TypeOK
<1>2. TypeOK /\ [Next]_vars => TypeOK'
  <2> SUFFICES ASSUME TypeOK, [Next]_vars PROVE TypeOK'
    OBVIOUS
  <2> USE DEF TypeOK
  <2>1. ASSUME NEW c \in Caller, ReadClock(c) PROVE TypeOK'
    BY <2>1, <1>0 DEF ReadClock
  <2>2. ASSUME NEW c \in Caller, Incr(c) PROVE TypeOK'
    <3> DEFINE w == WindowOf(call[c].at)
               count == IF counters[w].count > Limit THEN Limit + 1 ELSE counters[w].count + 1
    <3>1. w \in WindowStart
      BY <2>2, StartsAreStarts
    <3>2. count \in 0..(Limit + 1)
      BY <3>1, <1>0
    <3>3. counters' = [counters EXCEPT ![w].count = count]
      BY <2>2 DEF Incr
    <3>4. accepted' \in Seq(0..MaxTime)
      <4>1. accepted' = accepted \/ accepted' = Append(accepted, now)
        BY <2>2 DEF Incr
      <4>2. now \in 0..MaxTime /\ accepted \in Seq(0..MaxTime)
        OBVIOUS
      <4>3. Append(accepted, now) \in Seq(0..MaxTime)
        BY ONLY <4>2, OneMore, Zenon
      <4> QED
        BY <4>1, <4>2, <4>3
    <3>5. call' \in [Caller -> [pc : {"idle", "incr", "expire"}, at : 0..MaxTime]]
      BY <2>2, <1>0 DEF Incr, IdleCall
    <3>6. counters' \in [WindowStart -> [count : 0..(Limit + 1), expires : 0..Never]]
      <4> HIDE DEF w, count
      <4> QED
        BY <3>1, <3>2, <3>3
    <3>7. now' = now /\ aborts' = aborts /\ late' \in BOOLEAN
      BY <2>2 DEF Incr
    <3> QED
      BY <3>4, <3>5, <3>6, <3>7
  <2>3. ASSUME NEW c \in Caller, Expire(c) PROVE TypeOK'
    <3> DEFINE w == WindowOf(call[c].at)
    <3>1. w \in WindowStart
      BY <2>3, StartsAreStarts
    <3>2. now + Window \in 0..Never
      BY <1>0 DEF Never
    <3>3. counters' = IF counters[w].count = 0 THEN counters ELSE [counters EXCEPT ![w].expires = now + Window]
      BY <2>3 DEF Expire, Lifetime
    <3>4. call' \in [Caller -> [pc : {"idle", "incr", "expire"}, at : 0..MaxTime]]
      BY <2>3, <1>0 DEF Expire, IdleCall
    <3>5. counters' \in [WindowStart -> [count : 0..(Limit + 1), expires : 0..Never]]
      <4> HIDE DEF w
      <4> QED
        BY <3>1, <3>2, <3>3
    <3>6. now' = now /\ accepted' = accepted /\ aborts' = aborts /\ late' \in BOOLEAN
      BY <2>3 DEF Expire
    <3> QED
      BY <3>4, <3>5, <3>6
  <2>4. ASSUME NEW c \in Caller, Abort(c) PROVE TypeOK'
    BY <2>4, <1>0 DEF Abort, IdleCall
  <2>5. ASSUME Tick PROVE TypeOK'
    BY <2>5, <1>0 DEF Tick, Gone
  <2>6. CASE UNCHANGED vars
    BY <2>6 DEF vars
  <2> QED
    BY <2>1, <2>2, <2>3, <2>4, <2>5, <2>6 DEF Next
<1> QED
  BY <1>1, <1>2, PTL DEF Spec

--------------------------------------------------------------------------------
(* Counters go away *)

\* What INCR does to the counters and to the call.
LEMMA IncrFields ==
  ASSUME TypeOK, NEW c \in Caller, Incr(c)
  PROVE  \E w \in WindowStart, count \in 1..(Limit + 1) :
           /\ w = WindowOf(call[c].at)
           /\ counters[w].count > Limit => count = Limit + 1
           /\ counters[w].count <= Limit => count = counters[w].count + 1
           /\ counters'[w].count = count
           /\ \A v \in WindowStart : counters'[v].expires = counters[v].expires
           /\ \A v \in WindowStart \ {w} : counters'[v] = counters[v]
           /\ \A d \in Caller \ {c} : call'[d] = call[d]
           /\ count = 1 => call'[c].pc = "expire" /\ call'[c].at = call[c].at
           /\ count # 1 => call'[c].pc = "idle"
           /\ count > Limit => accepted' = accepted
           /\ count <= Limit => accepted' = Append(accepted, now)
<1> DEFINE w == WindowOf(call[c].at)
           count == IF counters[w].count > Limit THEN Limit + 1 ELSE counters[w].count + 1
<1>0. Limit \in Nat \ {0}
  BY LimiterAssumption, BoundsAssumption
<1>1. w \in WindowStart
  BY StartsAreStarts DEF TypeOK
<1>2. counters[w].count \in 0..(Limit + 1)
  BY <1>1 DEF TypeOK
<1>3. count \in 1..(Limit + 1)
  BY <1>0, <1>2
<1>4. counters' = [counters EXCEPT ![w].count = count]
  BY DEF Incr
<1>5. accepted' = IF count > Limit THEN accepted ELSE Append(accepted, now)
  BY DEF Incr
<1>6. call' = [call EXCEPT ![c] = IF count = 1 THEN [@ EXCEPT !.pc = "expire"] ELSE IdleCall]
  BY DEF Incr, First
<1>7. /\ counters[w].count > Limit => count = Limit + 1
      /\ counters[w].count <= Limit => count = counters[w].count + 1
  BY <1>0, <1>2
<1>w. w = WindowOf(call[c].at)
  OBVIOUS
<1> HIDE DEF w, count
<1>8. /\ counters'[w].count = count
      /\ \A v \in WindowStart : counters'[v].expires = counters[v].expires
      /\ \A v \in WindowStart \ {w} : counters'[v] = counters[v]
  BY <1>1, <1>4 DEF TypeOK
<1>9. /\ \A d \in Caller \ {c} : call'[d] = call[d]
      /\ count = 1 => call'[c].pc = "expire" /\ call'[c].at = call[c].at
      /\ count # 1 => call'[c].pc = "idle"
  BY <1>6 DEF TypeOK, IdleCall
<1>10. /\ count > Limit => accepted' = accepted
       /\ count <= Limit => accepted' = Append(accepted, now)
  BY <1>0, <1>3, <1>5
<1> QED
  BY <1>1, <1>3, <1>7, <1>8, <1>9, <1>10, <1>w

\* What EXPIRE does.
LEMMA ExpireFields ==
  ASSUME TypeOK, NEW c \in Caller, Expire(c)
  PROVE  \E w \in WindowStart :
           /\ w = WindowOf(call[c].at)
           /\ \A v \in WindowStart : counters'[v].count = counters[v].count
           /\ counters[w].count > 0 => counters'[w].expires = now + Window
           /\ counters[w].count = 0 => counters'[w] = counters[w]
           /\ \A v \in WindowStart \ {w} : counters'[v] = counters[v]
           /\ \A d \in Caller \ {c} : call'[d] = call[d]
           /\ call'[c].pc = "idle" /\ call'[c].at = 0
           /\ call[c].pc = "expire"
<1> DEFINE w == WindowOf(call[c].at)
<1>1. w \in WindowStart
  BY StartsAreStarts DEF TypeOK
<1>2. counters' = IF counters[w].count = 0 THEN counters ELSE [counters EXCEPT ![w].expires = now + Window]
  BY DEF Expire, Lifetime
<1>3. call' = [call EXCEPT ![c] = IdleCall] /\ call[c].pc = "expire"
  BY DEF Expire
<1>w. w = WindowOf(call[c].at)
  OBVIOUS
<1> HIDE DEF w
<1>4. /\ \A v \in WindowStart : counters'[v].count = counters[v].count
      /\ counters[w].count > 0 => counters'[w].expires = now + Window
      /\ counters[w].count = 0 => counters'[w] = counters[w]
      /\ \A v \in WindowStart \ {w} : counters'[v] = counters[v]
  BY <1>1, <1>2 DEF TypeOK
<1>5. /\ \A d \in Caller \ {c} : call'[d] = call[d]
      /\ call'[c].pc = "idle" /\ call'[c].at = 0
  BY <1>3 DEF TypeOK, IdleCall
<1> QED
  BY <1>1, <1>3, <1>4, <1>5, <1>w

\* A counter is stranded only by a call that stops before its EXPIRE.
LEMMA StrandedBefore ==
  ASSUME TypeOK, [Next]_vars, NEW v \in Stranded'
  PROVE  v \in Stranded \/ \E c \in Caller : Abort(c) /\ v = WindowOf(call[c].at)
<1>0. Limit \in Nat \ {0} /\ Window \in Nat \ {0} /\ MaxTime \in Nat /\ Never = MaxTime + Window + 1
  BY LimiterAssumption, BoundsAssumption DEF Never
<1>v. /\ v \in WindowStart /\ counters'[v].count > 0 /\ counters'[v].expires = Never
      /\ \A d \in Caller : ~(call'[d].pc = "expire" /\ WindowOf(call'[d].at) = v)
  BY DEF Stranded
<1>1. ASSUME NEW c \in Caller, ReadClock(c) PROVE v \in Stranded
  <2>1. counters' = counters /\ call[c].pc = "idle" /\ \A d \in Caller \ {c} : call'[d] = call[d]
    BY <1>1 DEF ReadClock, TypeOK
  <2> QED
    BY <1>v, <2>1 DEF Stranded
<1>2. ASSUME NEW c \in Caller, Incr(c) PROVE v \in Stranded
  <2>1. PICK w \in WindowStart, count \in 1..(Limit + 1) :
           /\ w = WindowOf(call[c].at)
           /\ counters[w].count > Limit => count = Limit + 1
           /\ counters[w].count <= Limit => count = counters[w].count + 1
           /\ counters'[w].count = count
           /\ \A u \in WindowStart : counters'[u].expires = counters[u].expires
           /\ \A u \in WindowStart \ {w} : counters'[u] = counters[u]
           /\ \A d \in Caller \ {c} : call'[d] = call[d]
           /\ count = 1 => call'[c].pc = "expire" /\ call'[c].at = call[c].at
    BY <1>2, IncrFields
  <2>2. ~(v = w /\ count = 1)
    BY <1>v, <2>1
  <2>3. counters[v].count > 0 /\ counters[v].expires = Never
    BY <1>0, <1>v, <2>1, <2>2 DEF TypeOK
  <2>4. call[c].pc = "incr"
    BY <1>2 DEF Incr
  <2> QED
    BY <1>v, <2>1, <2>3, <2>4 DEF Stranded
<1>3. ASSUME NEW c \in Caller, Expire(c) PROVE v \in Stranded
  <2>1. PICK w \in WindowStart :
           /\ w = WindowOf(call[c].at)
           /\ \A u \in WindowStart : counters'[u].count = counters[u].count
           /\ counters[w].count > 0 => counters'[w].expires = now + Window
           /\ counters[w].count = 0 => counters'[w] = counters[w]
           /\ \A u \in WindowStart \ {w} : counters'[u] = counters[u]
           /\ \A d \in Caller \ {c} : call'[d] = call[d]
    BY <1>3, ExpireFields
  <2>2. now + Window # Never
    BY <1>0 DEF TypeOK
  <2>3. v # w
    BY <1>v, <2>1, <2>2
  <2> QED
    BY <1>v, <2>1, <2>3 DEF Stranded
<1>4. ASSUME NEW c \in Caller, Abort(c), v # WindowOf(call[c].at) PROVE v \in Stranded
  <2>1. counters' = counters /\ \A d \in Caller \ {c} : call'[d] = call[d]
    BY <1>4 DEF Abort, TypeOK
  <2> QED
    BY <1>v, <1>4, <2>1 DEF Stranded
<1>5. CASE Tick
  <2>1. counters'[v] = counters[v] /\ call' = call
    BY <1>5, <1>v DEF Tick, Gone, TypeOK
  <2> QED
    BY <1>v, <2>1 DEF Stranded
<1>6. CASE UNCHANGED vars
  BY <1>v, <1>6 DEF vars, Stranded
<1> QED
  BY <1>1, <1>2, <1>3, <1>4, <1>5, <1>6 DEF Next

LEMMA StrandedFinite == IsFiniteSet(Stranded)
<1>1. WindowStart \subseteq 0..MaxTime
  BY StartsInTime
<1>2. IsFiniteSet(0..MaxTime)
  BY LimiterAssumption, BoundsAssumption, FS_Interval
<1> QED
  BY <1>1, <1>2, FS_Subset DEF Stranded

LEMMA ExpireStep ==
  ASSUME TypeOK, CountersExpire, [Next]_vars
  PROVE  CountersExpire'
<1>1. IsFiniteSet(Stranded) /\ Cardinality(Stranded) \in Nat /\ Cardinality(Stranded) <= aborts
  BY StrandedFinite, FS_CardinalityType DEF CountersExpire
<1>2. aborts \in Nat
  BY LimiterAssumption, BoundsAssumption DEF TypeOK
<1>3. CASE \E c \in Caller : Abort(c)
  <2>1. PICK c \in Caller : Abort(c)
    BY <1>3
  <2>2. aborts' = aborts + 1
    BY <2>1 DEF Abort
  <2>3. PICK x : x = WindowOf(call[c].at)
    OBVIOUS
  <2>4. Stranded' \subseteq Stranded \cup {x}
    <3> SUFFICES ASSUME NEW v \in Stranded', v \notin Stranded PROVE v = x
      OBVIOUS
    <3>1. PICK d \in Caller : Abort(d) /\ v = WindowOf(call[d].at)
      BY StrandedBefore
    <3>2. d = c
      BY <2>1, <3>1 DEF Abort, TypeOK, IdleCall
    <3> QED
      BY <2>3, <3>1, <3>2
  <2>a. PICK S : S = Stranded
    OBVIOUS
  <2>b. IsFiniteSet(S) /\ Cardinality(S) \in Nat
    BY <1>1, <2>a
  <2>c. /\ IsFiniteSet(S \cup {x})
        /\ Cardinality(S \cup {x}) = Cardinality(S) \/ Cardinality(S \cup {x}) = Cardinality(S) + 1
    BY <2>b, FS_AddElement, Zenon
  <2>5. IsFiniteSet(Stranded \cup {x}) /\ Cardinality(Stranded \cup {x}) <= Cardinality(Stranded) + 1
    <3>1. Cardinality(S \cup {x}) <= Cardinality(S) + 1
      BY <2>b, <2>c
    <3> QED
      BY <2>a, <2>c, <3>1
  <2>6. Cardinality(Stranded') <= Cardinality(Stranded \cup {x}) /\ Cardinality(Stranded') \in Nat
        /\ Cardinality(Stranded \cup {x}) \in Nat
    BY <2>4, <2>5, FS_Subset, FS_CardinalityType
  <2> QED
    BY <1>1, <1>2, <2>2, <2>5, <2>6 DEF CountersExpire
<1>4. CASE ~\E c \in Caller : Abort(c)
  <2>1. aborts' = aborts
    BY <1>4 DEF Next, ReadClock, Incr, Expire, Tick, vars
  <2>2. Stranded' \subseteq Stranded
    BY <1>4, StrandedBefore
  <2>3. Cardinality(Stranded') <= Cardinality(Stranded) /\ Cardinality(Stranded') \in Nat
    BY <1>1, <2>2, FS_Subset, FS_CardinalityType
  <2> QED
    BY <1>1, <1>2, <2>1, <2>3 DEF CountersExpire
<1> QED
  BY <1>3, <1>4

\* For every quota, window, delay and number of calls: at most one counter stays in Redis
\* for good for each call that stopped between INCR and EXPIRE (check, limiter.py).
THEOREM CountersGoAway == Spec => []CountersExpire
<1>1. Init => CountersExpire
  <2> SUFFICES ASSUME Init PROVE CountersExpire
    OBVIOUS
  <2>1. Stranded = {} /\ aborts = 0
    BY DEF Init, Stranded, Gone
  <2> QED
    BY <2>1, FS_EmptySet DEF CountersExpire
<1>2. TypeOK /\ CountersExpire /\ [Next]_vars => CountersExpire'
  BY ExpireStep
<1> QED
  BY <1>1, <1>2, TypesHold, PTL DEF Spec


--------------------------------------------------------------------------------
(* Bursts while no command is late *)

\* The calls of a counter that the limit lets through.
Passed(w) == IF counters[w].count > Limit THEN Limit ELSE counters[w].count

\* Nothing is ahead of the clock, and a counter lives to the end of its window.
NothingAhead ==
  /\ \A c \in Caller : call[c].at <= now
  /\ \A i \in 1..Len(accepted) : accepted[i] <= now
  /\ \A w \in WindowStart : w + Window <= counters[w].expires /\ (counters[w].count > 0 => w <= now)

\* The calls accepted in the current window are at most those its counter let
\* through, and the Limit-th call before any call belongs to an earlier window.
PassedInOrder ==
  LET w == WindowOf(now) IN
  /\ \A i \in 1..Len(accepted) : i + Passed(w) <= Len(accepted) => WindowOf(accepted[i]) + Window <= w
  /\ \A i, j \in 1..Len(accepted) :
       j = i + Limit => WindowOf(accepted[i]) + Window <= WindowOf(accepted[j])

BurstInv == NothingAhead /\ (~late => PassedInOrder)


LEMMA NothingAheadStep ==
  ASSUME TypeOK, NothingAhead, [Next]_vars
  PROVE  NothingAhead'
<1>0. Limit \in Nat \ {0} /\ Window \in Nat \ {0} /\ MaxTime \in Nat /\ Never = MaxTime + Window + 1 /\ now \in Nat
  BY LimiterAssumption, BoundsAssumption DEF Never, TypeOK
<1> USE DEF NothingAhead
<1>1. ASSUME NEW c \in Caller, ReadClock(c) PROVE NothingAhead'
  BY <1>1, <1>0 DEF ReadClock, TypeOK
<1>2. ASSUME NEW c \in Caller, Incr(c) PROVE NothingAhead'
  <2>1. PICK w \in WindowStart, count \in 1..(Limit + 1) :
           /\ w = WindowOf(call[c].at)
           /\ counters[w].count > Limit => count = Limit + 1
           /\ counters[w].count <= Limit => count = counters[w].count + 1
           /\ counters'[w].count = count
           /\ \A v \in WindowStart : counters'[v].expires = counters[v].expires
           /\ \A v \in WindowStart \ {w} : counters'[v] = counters[v]
           /\ \A d \in Caller \ {c} : call'[d] = call[d]
           /\ count > Limit => accepted' = accepted
           /\ count <= Limit => accepted' = Append(accepted, now)
    BY <1>2, IncrFields
  <2>2. now' = now
    BY <1>2 DEF Incr
  <2>3. call'[c].at <= now
    BY <1>2, <1>0 DEF Incr, IdleCall, TypeOK
  <2>4. \A d \in Caller : call'[d].at <= now
    BY <2>1, <2>3
  <2>5. \A i \in 1..Len(accepted') : accepted'[i] <= now
    <3>1. CASE accepted' = accepted
      BY <3>1
    <3>2. CASE accepted' = Append(accepted, now)
      <4>1. now \in 0..MaxTime /\ accepted \in Seq(0..MaxTime)
        BY DEF TypeOK
      <4> QED
        BY <3>2, <4>1, <1>0
    <3> QED
      BY <2>1, <3>1, <3>2, <1>0
  <2>6. call[c].at \in Nat /\ WindowOf(call[c].at) <= call[c].at /\ w <= now
    <3>1. call[c].at \in Nat
      BY <1>0 DEF TypeOK
    <3>2. WindowOf(call[c].at) \in Nat /\ WindowOf(call[c].at) <= call[c].at
      BY <3>1, InWindow
    <3> QED
      BY <3>1, <3>2, <2>1, <1>0
  <2>7. \A v \in WindowStart : v + Window <= counters'[v].expires /\ (counters'[v].count > 0 => v <= now)
    BY <2>1, <2>6
  <2> QED
    BY <2>2, <2>4, <2>5, <2>7
<1>3. ASSUME NEW c \in Caller, Expire(c) PROVE NothingAhead'
  <2>1. PICK w \in WindowStart :
           /\ w = WindowOf(call[c].at)
           /\ \A v \in WindowStart : counters'[v].count = counters[v].count
           /\ counters[w].count > 0 => counters'[w].expires = now + Window
           /\ counters[w].count = 0 => counters'[w] = counters[w]
           /\ \A v \in WindowStart \ {w} : counters'[v] = counters[v]
           /\ \A d \in Caller \ {c} : call'[d] = call[d]
           /\ call'[c].at = 0
    BY <1>3, ExpireFields
  <2>2. now' = now /\ accepted' = accepted
    BY <1>3 DEF Expire
  <2>3. \A v \in WindowStart : v \in Nat
    BY StartsInTime, <1>0
  <2>4. \A v \in WindowStart : counters[v].count \in Nat
    BY <1>0 DEF TypeOK
  <2>5. \A v \in WindowStart : v + Window <= counters'[v].expires /\ (counters'[v].count > 0 => v <= now)
    BY <2>1, <2>3, <2>4, <1>0
  <2> QED
    BY <2>1, <2>2, <2>5, <1>0
<1>4. ASSUME NEW c \in Caller, Abort(c) PROVE NothingAhead'
  BY <1>4, <1>0 DEF Abort, IdleCall, TypeOK
<1>5. CASE Tick
  BY <1>5, <1>0, StartsInTime DEF Tick, Gone, TypeOK
<1>6. CASE UNCHANGED vars
  BY <1>6 DEF vars
<1> QED
  BY <1>1, <1>2, <1>3, <1>4, <1>5, <1>6 DEF Next


\* The clock moves on: within the window nothing changes, and in the next one
\* no counter has let a call through.
LEMMA TickInOrder ==
  ASSUME TypeOK, NothingAhead, PassedInOrder, Tick
  PROVE  PassedInOrder'
<1>0. Limit \in Nat \ {0} /\ Window \in Nat \ {0} /\ MaxTime \in Nat /\ now \in Nat /\ now + 1 \in Nat /\ now + 1 <= MaxTime
  BY LimiterAssumption, BoundsAssumption DEF TypeOK, Tick
<1>a. PICK w \in WindowStart : w = WindowOf(now)
  BY StartsAreStarts DEF TypeOK
<1>b. PICK v \in WindowStart : v = WindowOf(now + 1)
  BY <1>0, StartsAreStarts
<1>1. w \in Nat /\ w <= now /\ now < w + Window /\ v \in Nat /\ v <= now + 1 /\ now + 1 < v + Window
  BY <1>0, <1>a, <1>b, InWindow
<1>2. v = w \/ w + Window <= v
  BY <1>0, <1>a, <1>b, WindowsApart
<1>4. now' = now + 1 /\ accepted' = accepted /\ WindowOf(now') = v
  BY <1>b DEF Tick
<1>5. /\ counters[w].expires \in Nat /\ counters[v].expires \in Nat
      /\ counters[w].count \in Nat /\ counters[v].count \in Nat
  BY <1>0 DEF TypeOK, Never
<1>6. counters'[v] = IF counters[v].expires <= now + 1 THEN Gone ELSE counters[v]
  BY DEF Tick
<1>7. \A i \in 1..Len(accepted) : accepted[i] \in Nat /\ accepted[i] <= now
  BY <1>0 DEF TypeOK, NothingAhead
<1>8. \A i, j \in 1..Len(accepted) : j = i + Limit => WindowOf(accepted[i]) + Window <= WindowOf(accepted[j])
  BY DEF PassedInOrder
<1>9. \A i \in 1..Len(accepted) : i + Passed(w) <= Len(accepted) => WindowOf(accepted[i]) + Window <= w
  BY <1>a DEF PassedInOrder
<1>10. w + Window <= counters[w].expires /\ (counters[v].count > 0 => v <= now)
  BY DEF NothingAhead
<1>11. \A i \in 1..Len(accepted) : WindowOf(accepted[i]) = w \/ WindowOf(accepted[i]) + Window <= w
  BY <1>0, <1>7, <1>a, WindowsApart
<1>12. \A i \in 1..Len(accepted) : WindowOf(accepted[i]) \in Nat
  BY <1>7, InWindow
<1>13. \A i \in 1..Len(accepted) : i + Passed(v)' <= Len(accepted) => WindowOf(accepted[i]) + Window <= v
  <2>1. CASE v = w
    <3>1. counters'[v] = counters[v]
      BY <1>0, <1>1, <1>5, <1>6, <1>10, <2>1
    <3> QED
      BY <1>9, <2>1, <3>1 DEF Passed
  <2>2. CASE w + Window <= v
    <3> SUFFICES ASSUME NEW i \in 1..Len(accepted) PROVE WindowOf(accepted[i]) + Window <= v
      OBVIOUS
    <3> QED
      BY <1>0, <1>1, <1>11, <1>12, <2>2
  <2> QED
    BY <1>2, <2>1, <2>2
<1> QED
  BY <1>4, <1>8, <1>13 DEF PassedInOrder

\* INCR in the second its call began in: the call is the latest of its window.
LEMMA IncrInOrder ==
  ASSUME TypeOK, NothingAhead, ~late => PassedInOrder, NEW c \in Caller, Incr(c), ~late'
  PROVE  PassedInOrder'
<1>0. Limit \in Nat \ {0} /\ Window \in Nat \ {0} /\ MaxTime \in Nat /\ now \in Nat
  BY LimiterAssumption, BoundsAssumption DEF TypeOK
<1>1. ~late /\ ~(now > call[c].at) /\ now' = now
  BY DEF Incr
<1>2. call[c].at = now
  BY <1>0, <1>1 DEF NothingAhead, TypeOK
<1>3. PICK w \in WindowStart, count \in 1..(Limit + 1) :
           /\ w = WindowOf(call[c].at)
           /\ counters[w].count > Limit => count = Limit + 1
           /\ counters[w].count <= Limit => count = counters[w].count + 1
           /\ counters'[w].count = count
           /\ count > Limit => accepted' = accepted
           /\ count <= Limit => accepted' = Append(accepted, now)
  BY IncrFields
<1>4. w = WindowOf(now) /\ WindowOf(now') = w /\ w \in Nat
  BY <1>0, <1>1, <1>2, <1>3, InWindow
<1>5. counters[w].count \in 0..(Limit + 1)
  BY DEF TypeOK
<1>6. \A i, j \in 1..Len(accepted) : j = i + Limit => WindowOf(accepted[i]) + Window <= WindowOf(accepted[j])
  BY <1>1 DEF PassedInOrder
<1>7. \A i \in 1..Len(accepted) : i + Passed(w) <= Len(accepted) => WindowOf(accepted[i]) + Window <= w
  BY <1>1, <1>4 DEF PassedInOrder
<1>8. CASE count > Limit
  <2>1. Passed(w)' = Passed(w) /\ accepted' = accepted
    BY <1>0, <1>3, <1>5, <1>8 DEF Passed
  <2> QED
    BY <1>4, <1>6, <1>7, <2>1 DEF PassedInOrder
<1>9. CASE count <= Limit
  <2>1. Passed(w)' = Passed(w) + 1 /\ Passed(w) \in 0..(Limit - 1)
    BY <1>0, <1>3, <1>5, <1>9 DEF Passed
  <2>2. now \in 0..MaxTime /\ accepted \in Seq(0..MaxTime) /\ accepted' = Append(accepted, now)
    BY <1>3, <1>9 DEF TypeOK
  <2>3. /\ Len(accepted) \in Nat /\ Len(accepted') = Len(accepted) + 1
        /\ \A i \in 1..Len(accepted) : accepted'[i] = accepted[i]
        /\ accepted'[Len(accepted) + 1] = now
    BY <2>2
  <2>4. \A i \in 1..Len(accepted') : i + Passed(w)' <= Len(accepted') => WindowOf(accepted'[i]) + Window <= w
    <3> SUFFICES ASSUME NEW i \in 1..Len(accepted'), i + Passed(w)' <= Len(accepted')
                 PROVE  WindowOf(accepted'[i]) + Window <= w
      OBVIOUS
    <3>1. i \in 1..Len(accepted) /\ i + Passed(w) <= Len(accepted)
      BY <2>1, <2>3, <1>0
    <3> QED
      BY <3>1, <2>3, <1>7
  <2>5. \A i, j \in 1..Len(accepted') : j = i + Limit => WindowOf(accepted'[i]) + Window <= WindowOf(accepted'[j])
    <3> SUFFICES ASSUME NEW i \in 1..Len(accepted'), NEW j \in 1..Len(accepted'), j = i + Limit
                 PROVE  WindowOf(accepted'[i]) + Window <= WindowOf(accepted'[j])
      OBVIOUS
    <3>1. i \in 1..Len(accepted) /\ accepted'[i] = accepted[i]
      BY <2>3, <1>0
    <3>2. CASE j = Len(accepted) + 1
      <4>1. i + Passed(w) <= Len(accepted)
        BY <3>1, <3>2, <2>1, <2>3, <1>0
      <4>2. WindowOf(accepted'[j]) = w
        BY <3>2, <2>3, <1>4
      <4> QED
        BY <4>1, <4>2, <3>1, <1>7
    <3>3. CASE j # Len(accepted) + 1
      <4>1. j \in 1..Len(accepted) /\ accepted'[j] = accepted[j]
        BY <3>3, <2>3
      <4> QED
        BY <4>1, <3>1, <1>6
    <3> QED
      BY <3>2, <3>3
  <2> QED
    BY <1>4, <2>4, <2>5 DEF PassedInOrder
<1> QED
  BY <1>0, <1>8, <1>9

LEMMA OrderStep ==
  ASSUME TypeOK, NothingAhead, ~late => PassedInOrder, [Next]_vars, ~late'
  PROVE  PassedInOrder'
<1>1. ASSUME NEW c \in Caller, ReadClock(c) PROVE PassedInOrder'
  BY <1>1 DEF ReadClock, PassedInOrder, Passed
<1>2. ASSUME NEW c \in Caller, Incr(c) PROVE PassedInOrder'
  BY <1>2, IncrInOrder
<1>3. ASSUME NEW c \in Caller, Expire(c) PROVE PassedInOrder'
  <2>1. \A v \in WindowStart : counters'[v].count = counters[v].count
    BY <1>3, ExpireFields
  <2>2. WindowOf(now) \in WindowStart
    BY StartsAreStarts DEF TypeOK
  <2>3. now' = now /\ accepted' = accepted /\ ~late
    BY <1>3 DEF Expire
  <2>4. Passed(WindowOf(now))' = Passed(WindowOf(now))
    BY <2>1, <2>2, <2>3 DEF Passed
  <2> QED
    BY <2>3, <2>4 DEF PassedInOrder
<1>4. ASSUME NEW c \in Caller, Abort(c) PROVE PassedInOrder'
  BY <1>4 DEF Abort, PassedInOrder, Passed
<1>5. CASE Tick
  <2>1. ~late
    BY <1>5 DEF Tick
  <2> QED
    BY <1>5, <2>1, TickInOrder
<1>6. CASE UNCHANGED vars
  BY <1>6 DEF vars, PassedInOrder, Passed
<1> QED
  BY <1>1, <1>2, <1>3, <1>4, <1>5, <1>6 DEF Next

LEMMA BurstInit ==
  ASSUME Init
  PROVE  BurstInv
<1>0. now = 0 /\ accepted = <<>> /\ MaxTime \in Nat /\ Window \in Nat
  BY LimiterAssumption, BoundsAssumption DEF Init
<1>c. call = [c \in Caller |-> IdleCall] /\ counters = [w \in WindowStart |-> Gone]
  BY DEF Init
<1>d. IdleCall.at = 0
  BY DEF IdleCall
<1>1. \A c \in Caller : call[c].at <= now
  <2>1. \A c \in Caller : call[c].at = 0
    BY <1>c, <1>d
  <2>2. 0 <= 0
    OBVIOUS
  <2>3. now = 0
    BY <1>0
  <2> QED
    BY ONLY <2>1, <2>2, <2>3, Zenon
<1>2. Len(accepted) = 0
  BY <1>0
<1>3. \A w \in WindowStart : w + Window <= counters[w].expires /\ (counters[w].count > 0 => w <= now)
  BY <1>0, <1>c, StartsInTime DEF Gone, Never
<1> QED
  BY <1>1, <1>2, <1>3 DEF BurstInv, NothingAhead, PassedInOrder

\* The Limit-th call before any call, and the Limit-th call before that one,
\* each belong to an earlier window.
LEMMA BurstIsDouble ==
  ASSUME TypeOK, BurstInv
  PROVE  DoubleBurst
<1>0. Limit \in Nat \ {0} /\ Window \in Nat \ {0} /\ MaxTime \in Nat
  BY LimiterAssumption, BoundsAssumption
<1> SUFFICES ASSUME ~late, NEW i \in 1..Len(accepted), i + 2 * Limit <= Len(accepted)
             PROVE  accepted[i + 2 * Limit] - accepted[i] >= Window
  BY DEF DoubleBurst, AtMostPerWindow
<1>1. Len(accepted) \in Nat /\ \A k \in 1..Len(accepted) : accepted[k] \in Nat
  BY <1>0 DEF TypeOK
<1>2. i + Limit \in 1..Len(accepted) /\ i + 2 * Limit \in 1..Len(accepted) /\ i + 2 * Limit = (i + Limit) + Limit
  BY <1>0, <1>1
<1> DEFINE a == accepted[i]  b == accepted[i + Limit]  d == accepted[i + 2 * Limit]
<1>3. \A k, j \in 1..Len(accepted) : j = k + Limit => WindowOf(accepted[k]) + Window <= WindowOf(accepted[j])
  BY DEF BurstInv, PassedInOrder
<1>4. WindowOf(a) + Window <= WindowOf(b) /\ WindowOf(b) + Window <= WindowOf(d)
  BY <1>2, <1>3
<1>5. a \in Nat /\ b \in Nat /\ d \in Nat
  BY <1>1, <1>2
<1> HIDE DEF a, b, d
<1>6. /\ WindowOf(a) \in Nat /\ a < WindowOf(a) + Window
      /\ WindowOf(b) \in Nat /\ WindowOf(d) \in Nat /\ WindowOf(d) <= d
  BY <1>5, InWindow
<1>7. d - a >= Window
  BY <1>0, <1>4, <1>5, <1>6
<1> QED
  BY <1>7 DEF a, d

\* For every quota and window, any number of calls in flight: while every
\* command reaches Redis in the second its call began in, at most twice the
\* quota is accepted in any stretch shorter than a window (check, limiter.py).
THEOREM DoubleBurstHolds == Spec => []DoubleBurst
<1>1. Init => BurstInv
  BY BurstInit
<1>2. TypeOK /\ BurstInv /\ [Next]_vars => BurstInv'
  BY NothingAheadStep, OrderStep DEF BurstInv
<1>3. TypeOK /\ BurstInv => DoubleBurst
  BY BurstIsDouble
<1> QED
  BY <1>1, <1>2, <1>3, TypesHold, PTL DEF Spec



--------------------------------------------------------------------------------
(* Bursts when commands are late: every accepted call is labelled with its     *)
(* window, the life of the window's counter it was counted in (a counter that  *)
(* has expired can be started again once) and its rank there.                  *)

InTime == \A c \in Caller : call[c].pc # "idle" => now - call[c].at <= MaxLag

\* A counter that is not in Redis has no time to live.
NoneExpires == \A w \in WindowStart : counters[w].count = 0 => counters[w].expires = Never

Ordered == \A p, q \in 1..Len(accepted) : p <= q => accepted[p] <= accepted[q]

DelayInv == NothingAhead /\ InTime /\ NoneExpires /\ Ordered

\* No two calls have the same label; a call is accepted in its window or
\* shortly after, in a second life after it, and the first calls of two lives
\* are a window apart.
History(win, life, rank) ==
  /\ \A p, q \in 1..Len(accepted) :
       win[p] = win[q] /\ life[p] = life[q] /\ rank[p] = rank[q] => p = q
  /\ \A p \in 1..Len(accepted) :
       /\ win[p] <= accepted[p] /\ accepted[p] <= win[p] + 2 * Window - 2
       /\ life[p] = 2 => win[p] + Window <= accepted[p]
  /\ \A p, q \in 1..Len(accepted) :
       win[p] = win[q] /\ life[p] = 1 /\ life[q] = 2 /\ rank[p] = 1 /\ rank[q] = 1
         => accepted[p] + Window <= accepted[q]

\* gen[w] is the life the counter of w is in: its calls rank up to its count
\* (while a call can still reach it), and its time to live is over a window
\* after its first call and, in its second life, a window after w.
Lives(win, life, rank, gen) ==
  /\ \A p \in 1..Len(accepted) :
       now <= win[p] + 2 * Window - 2 =>
         /\ life[p] <= gen[win[p]]
         /\ life[p] = gen[win[p]] => rank[p] <= counters[win[p]].count
  /\ \A w \in WindowStart :
       gen[w] = 2 => /\ w + Window <= now
                     /\ counters[w].count > 0 => w + 2 * Window <= counters[w].expires
  /\ \A p \in 1..Len(accepted) :
       rank[p] = 1 /\ counters[win[p]].count > 0 /\ life[p] = gen[win[p]] =>
         accepted[p] + Window <= counters[win[p]].expires
  /\ \A p \in 1..Len(accepted) :
       rank[p] = 1 /\ life[p] = 1 /\ gen[win[p]] = 2 => accepted[p] + Window <= now

Labelled ==
  \E win \in [Nat -> WindowStart], life \in [Nat -> {1, 2}], rank \in [Nat -> 1..Limit],
     gen \in [WindowStart -> {1, 2}] :
    History(win, life, rank) /\ Lives(win, life, rank, gen)

LEMMA DelayStep ==
  ASSUME TypeOK, DelayInv, [Next]_vars
  PROVE  DelayInv'
<1>0. /\ Limit \in Nat \ {0} /\ Window \in Nat \ {0} /\ MaxTime \in Nat /\ MaxLag \in Nat
      /\ Never = MaxTime + Window + 1 /\ now \in Nat /\ now <= MaxTime
  BY LimiterAssumption, BoundsAssumption DEF Never, TypeOK
<1>n. NothingAhead'
  BY NothingAheadStep DEF DelayInv
<1>t. InTime'
  <2>i. InTime
    BY DEF DelayInv
  <2>1. ASSUME NEW c \in Caller, ReadClock(c) PROVE InTime'
    <3>1. now' = now /\ call'[c].at = now /\ \A d \in Caller \ {c} : call'[d] = call[d]
      BY <2>1 DEF ReadClock, TypeOK
    <3> QED
      BY <3>1, <2>i, <1>0 DEF InTime
  <2>2. ASSUME NEW c \in Caller, Incr(c) PROVE InTime'
    <3>1. /\ \A d \in Caller \ {c} : call'[d] = call[d]
          /\ call'[c].pc # "idle" => call'[c].at = call[c].at
      BY <2>2, IncrFields
    <3>2. now' = now /\ call[c].pc # "idle"
      BY <2>2 DEF Incr
    <3> QED
      BY <3>1, <3>2, <2>i DEF InTime
  <2>3. ASSUME NEW c \in Caller, Expire(c) PROVE InTime'
    <3>1. (\A d \in Caller \ {c} : call'[d] = call[d]) /\ call'[c].pc = "idle"
      BY <2>3, ExpireFields
    <3>2. now' = now
      BY <2>3 DEF Expire
    <3> QED
      BY <3>1, <3>2, <2>i DEF InTime
  <2>4. ASSUME NEW c \in Caller, Abort(c) PROVE InTime'
    <3>1. now' = now /\ (\A d \in Caller \ {c} : call'[d] = call[d]) /\ call'[c].pc = "idle"
      BY <2>4 DEF Abort, TypeOK, IdleCall
    <3> QED
      BY <3>1, <2>i DEF InTime
  <2>5. CASE Tick
    <3>1. \A c \in Caller : call[c].at \in Nat
      BY <1>0 DEF TypeOK
    <3>2. now' = now + 1 /\ call' = call /\ \A c \in Caller : call[c].pc # "idle" => now - call[c].at < MaxLag
      BY <2>5 DEF Tick
    <3> QED
      BY <3>1, <3>2, <1>0 DEF InTime
  <2>6. CASE UNCHANGED vars
    BY <2>6, <2>i DEF vars, InTime
  <2> QED
    BY <2>1, <2>2, <2>3, <2>4, <2>5, <2>6 DEF Next
<1>e. NoneExpires'
  <2>i. NoneExpires
    BY DEF DelayInv
  <2>1. ASSUME NEW c \in Caller, Incr(c) PROVE NoneExpires'
    <3>1. PICK w \in WindowStart :
             /\ counters'[w].count # 0
             /\ \A v \in WindowStart \ {w} : counters'[v] = counters[v]
      BY <2>1, <1>0, IncrFields
    <3> QED
      BY <3>1, <2>i DEF NoneExpires
  <2>2. ASSUME NEW c \in Caller, Expire(c) PROVE NoneExpires'
    <3>1. PICK w \in WindowStart :
             /\ counters'[w].count = counters[w].count
             /\ counters[w].count = 0 => counters'[w] = counters[w]
             /\ \A v \in WindowStart \ {w} : counters'[v] = counters[v]
      BY <2>2, ExpireFields
    <3> QED
      BY <3>1, <2>i DEF NoneExpires
  <2>3. CASE Tick
    BY <2>3, <2>i DEF Tick, NoneExpires, Gone, TypeOK
  <2>4. CASE counters' = counters
    BY <2>4, <2>i DEF NoneExpires
  <2> QED
    BY <2>1, <2>2, <2>3, <2>4 DEF Next, ReadClock, Abort, vars
<1>o. Ordered'
  <2>i. Ordered /\ \A p \in 1..Len(accepted) : accepted[p] <= now
    BY DEF DelayInv, NothingAhead
  <2>1. CASE accepted' = accepted
    BY <2>1, <2>i DEF Ordered
  <2>2. CASE accepted' = Append(accepted, now)
    <3>1. now \in 0..MaxTime /\ accepted \in Seq(0..MaxTime)
      BY DEF TypeOK
    <3>2. /\ Len(accepted) \in Nat /\ Len(accepted') = Len(accepted) + 1
          /\ \A p \in 1..Len(accepted) : accepted'[p] = accepted[p]
          /\ accepted'[Len(accepted) + 1] = now
      BY <2>2, <3>1
    <3> QED
      BY <3>2, <2>i, <1>0 DEF Ordered
  <2>3. accepted' = accepted \/ accepted' = Append(accepted, now)
    BY DEF Next, ReadClock, Incr, Expire, Abort, Tick, vars
  <2> QED
    BY <2>1, <2>2, <2>3
<1> QED
  BY <1>n, <1>t, <1>e, <1>o DEF DelayInv


LEMMA Later ==
  ASSUME NEW a \in Nat, NEW b \in Nat, a <= b, NEW k \in Nat
  PROVE  a + k <= b + k /\ a <= b + k
OBVIOUS

LEMMA LaterStill ==
  ASSUME NEW a \in Nat, NEW k \in Nat, NEW e \in Nat, NEW t \in Nat, a + k <= e
  PROVE  /\ e <= t => a + k <= t + 1
         /\ e <= t + 1 => a + k <= t + 1 /\ ~(t + 1 <= a + k - 2)
OBVIOUS

LEMMA SecondsAre ==
  ASSUME TypeOK
  PROVE  Len(accepted) \in Nat /\ \A p \in 1..Len(accepted) : accepted[p] \in Nat /\ accepted[p] \in 0..MaxTime
<1>1. MaxTime \in Nat
  BY LimiterAssumption, BoundsAssumption
<1>2. accepted \in Seq(0..MaxTime)
  BY DEF TypeOK
<1>3. \A p \in 1..Len(accepted) : accepted[p] \in 0..MaxTime
  BY <1>1, <1>2
<1> QED
  BY <1>1, <1>2, <1>3

LEMMA CountersAre ==
  ASSUME TypeOK, NEW v \in WindowStart
  PROVE  v \in Nat /\ counters[v].count \in Nat /\ counters[v].expires \in Nat
<1>1. Limit \in Nat /\ Window \in Nat /\ MaxTime \in Nat /\ Never \in Nat
  BY LimiterAssumption, BoundsAssumption DEF Never
<1>2. v \in Nat
  BY <1>1, StartsInTime
<1>3. counters[v].count \in 0..(Limit + 1) /\ counters[v].expires \in 0..Never
  BY DEF TypeOK
<1> QED
  BY <1>1, <1>2, <1>3

LEMMA LabelsAre ==
  ASSUME TypeOK,
         NEW win \in [Nat -> WindowStart], NEW life \in [Nat -> {1, 2}], NEW rank \in [Nat -> 1..Limit],
         NEW p \in 1..Len(accepted)
  PROVE  /\ p \in Nat /\ accepted[p] \in Nat
         /\ win[p] \in WindowStart /\ life[p] \in {1, 2} /\ rank[p] \in 1..Limit /\ rank[p] \in Nat
<1>1. p \in Nat /\ accepted[p] \in Nat
  BY SecondsAre
<1>2. win[p] \in WindowStart /\ life[p] \in {1, 2} /\ rank[p] \in 1..Limit
  BY <1>1
<1>3. Limit \in Nat
  BY LimiterAssumption, BoundsAssumption
<1> QED
  BY <1>1, <1>2, <1>3

\* The labels stay as they are while no call is accepted and the counts,
\* the lives and the clock do not move.
LEMMA LabelsStay ==
  ASSUME NEW win \in [Nat -> WindowStart], NEW life \in [Nat -> {1, 2}],
         NEW rank \in [Nat -> 1..Limit], NEW gen \in [WindowStart -> {1, 2}],
         History(win, life, rank), Lives(win, life, rank, gen),
         accepted \in Seq(0..MaxTime), accepted' = accepted, now' = now, counters' = counters
  PROVE  Labelled'
<1>1. History(win, life, rank)'
  BY DEF History
<1>2. Lives(win, life, rank, gen)'
  BY DEF Lives
<1> QED
  BY <1>1, <1>2 DEF Labelled

\* INCR: a call that is accepted takes the next rank of its counter's life.
LEMMA IncrLabels ==
  ASSUME TypeOK, DelayInv, MaxLag < Window, NEW c \in Caller, Incr(c),
         NEW win \in [Nat -> WindowStart], NEW life \in [Nat -> {1, 2}],
         NEW rank \in [Nat -> 1..Limit], NEW gen \in [WindowStart -> {1, 2}],
         History(win, life, rank), Lives(win, life, rank, gen)
  PROVE  Labelled'
<1>0. /\ Limit \in Nat \ {0} /\ Window \in Nat \ {0} /\ MaxTime \in Nat /\ MaxLag \in Nat
      /\ Never = MaxTime + Window + 1 /\ now \in Nat /\ now <= MaxTime
  BY LimiterAssumption, BoundsAssumption DEF Never, TypeOK
<1>1. PICK w \in WindowStart :
           \E count \in 1..(Limit + 1) :
           /\ w = WindowOf(call[c].at)
           /\ counters[w].count > Limit => count = Limit + 1
           /\ counters[w].count <= Limit => count = counters[w].count + 1
           /\ counters'[w].count = count
           /\ \A v \in WindowStart : counters'[v].expires = counters[v].expires
           /\ \A v \in WindowStart \ {w} : counters'[v] = counters[v]
           /\ count > Limit => accepted' = accepted
           /\ count <= Limit => accepted' = Append(accepted, now)
  BY IncrFields
<1>2. PICK count \in 1..(Limit + 1) :
           /\ counters[w].count > Limit => count = Limit + 1
           /\ counters[w].count <= Limit => count = counters[w].count + 1
           /\ counters'[w].count = count
           /\ \A v \in WindowStart : counters'[v].expires = counters[v].expires
           /\ \A v \in WindowStart \ {w} : counters'[v] = counters[v]
           /\ count > Limit => accepted' = accepted
           /\ count <= Limit => accepted' = Append(accepted, now)
  BY <1>1
<1>3. w \in Nat /\ w <= now /\ now <= w + 2 * Window - 2
  <2>1. call[c].at \in Nat
    BY <1>0 DEF TypeOK
  <2>2. call[c].at <= now /\ now - call[c].at <= MaxLag
    BY DEF Incr, DelayInv, NothingAhead, InTime
  <2>3. w \in Nat /\ w <= call[c].at /\ call[c].at < w + Window
    BY <1>1, <2>1, InWindow
  <2> QED
    BY <1>0, <2>1, <2>2, <2>3
<1>4. now' = now
  BY DEF Incr
<1>5. counters[w].count \in 0..(Limit + 1)
  BY DEF TypeOK
<1>t. \A v \in WindowStart : v \in Nat /\ counters[v].count \in Nat /\ counters[v].expires \in Nat
  BY CountersAre
<1>k. PICK k \in 0..(Limit + 1) : k = counters[w].count
  BY <1>5
<1>c. (k > Limit => count = Limit + 1) /\ (k <= Limit => count = k + 1)
  BY <1>2, <1>k
<1>h. History(win, life, rank)
  OBVIOUS
<1>l. Lives(win, life, rank, gen)
  OBVIOUS
<1>6. CASE count > Limit
  <2>1. accepted' = accepted /\ counters[w].count > 0
    <3>1. accepted' = accepted
      BY <1>2, <1>6
    <3>2. k > 0
      BY <1>0, <1>c, <1>6
    <3> QED
      BY <3>1, <3>2, <1>k
  <2>2. History(win, life, rank)'
    BY <1>h, <2>1 DEF History
  <2>3. \A v \in WindowStart : /\ counters[v].count <= counters'[v].count
                               /\ counters'[v].count > 0 => counters[v].count > 0
                               /\ counters'[v].count \in Nat
    <3>1. counters[w].count <= counters'[w].count /\ counters[w].count > 0 /\ counters'[w].count \in Nat
      <4>1. k <= count /\ count \in Nat
        BY <1>0, <1>c
      <4> QED
        BY <4>1, <1>2, <1>k, <2>1
    <3> SUFFICES ASSUME NEW v \in WindowStart
                 PROVE  /\ counters[v].count <= counters'[v].count
                        /\ counters'[v].count > 0 => counters[v].count > 0
                        /\ counters'[v].count \in Nat
      OBVIOUS
    <3>2. CASE v = w
      BY <3>1, <3>2
    <3>3. CASE v # w
      <4>1. counters'[v] = counters[v] /\ counters[v].count \in Nat
        BY <1>2, <1>t, <3>3
      <4> QED
        BY <4>1
    <3> QED
      BY <3>2, <3>3
  <2>4. Lives(win, life, rank, gen)'
    <3>1. \A p \in 1..Len(accepted) : p \in Nat /\ win[p] \in WindowStart /\ rank[p] \in Nat
      BY <1>0
    <3>2. \A p \in 1..Len(accepted) :
            now <= win[p] + 2 * Window - 2 =>
              /\ life[p] <= gen[win[p]]
              /\ life[p] = gen[win[p]] => rank[p] <= counters'[win[p]].count
      <4> SUFFICES ASSUME NEW p \in 1..Len(accepted), now <= win[p] + 2 * Window - 2
                   PROVE  /\ life[p] <= gen[win[p]]
                          /\ life[p] = gen[win[p]] => rank[p] <= counters'[win[p]].count
        OBVIOUS
      <4>1. /\ life[p] <= gen[win[p]]
            /\ life[p] = gen[win[p]] => rank[p] <= counters[win[p]].count
        BY <1>l DEF Lives
      <4>2. rank[p] \in Nat /\ counters[win[p]].count \in Nat /\ counters'[win[p]].count \in Nat
            /\ counters[win[p]].count <= counters'[win[p]].count
        BY <3>1, <2>3, <1>t
      <4>3. rank[p] <= counters[win[p]].count => rank[p] <= counters'[win[p]].count
        <5> DEFINE x == rank[p]
                   y == counters[win[p]].count
                   z == counters'[win[p]].count
        <5>1. x \in Nat /\ y \in Nat /\ z \in Nat /\ y <= z
          BY <4>2
        <5> HIDE DEF x, y, z
        <5>2. x <= y => x <= z
          BY ONLY <5>1
        <5> QED
          BY <5>2 DEF x, y, z
      <4> QED
        BY <4>1, <4>3, Zenon
    <3>3. \A v \in WindowStart :
            gen[v] = 2 => /\ v + Window <= now
                          /\ counters'[v].count > 0 => v + 2 * Window <= counters'[v].expires
      BY <1>l, <1>2, <2>3 DEF Lives
    <3>4. \A p \in 1..Len(accepted) :
            rank[p] = 1 /\ counters'[win[p]].count > 0 /\ life[p] = gen[win[p]] =>
              accepted[p] + Window <= counters'[win[p]].expires
      BY <1>l, <1>2, <2>3, <3>1 DEF Lives
    <3>5. \A p \in 1..Len(accepted) :
            rank[p] = 1 /\ life[p] = 1 /\ gen[win[p]] = 2 => accepted[p] + Window <= now
      BY <1>l DEF Lives
    <3> QED
      BY <1>4, <2>1, <3>2, <3>3, <3>4, <3>5 DEF Lives
  <2> QED
    BY <2>2, <2>4 DEF Labelled
<1>7. CASE count <= Limit
  <2>0. count = counters[w].count + 1 /\ count \in 1..Limit
    <3>1. count = k + 1 /\ count \in 1..Limit
      BY <1>0, <1>c, <1>7
    <3> QED
      BY <3>1, <1>k
  <2>1. now \in 0..MaxTime /\ accepted \in Seq(0..MaxTime) /\ accepted' = Append(accepted, now)
    BY <1>2, <1>7 DEF TypeOK
  <2>n. PICK n \in Nat : n = Len(accepted) + 1
    BY <2>1
  <2>2. /\ Len(accepted') = n /\ 1..Len(accepted) = 1..(n - 1) /\ n > 0
        /\ \A p \in 1..(n - 1) : accepted'[p] = accepted[p] /\ accepted[p] \in Nat
        /\ accepted'[n] = now
    <3>1. Len(accepted') = Len(accepted) + 1 /\ Len(accepted) \in Nat
      BY <2>1
    <3>2. \A p \in 1..Len(accepted) : accepted'[p] = accepted[p] /\ accepted[p] \in Nat
      <4>1. \A p \in 1..Len(accepted) : accepted'[p] = accepted[p]
        BY ONLY <2>1
      <4>2. \A p \in 1..Len(accepted) : accepted[p] \in Nat
        BY SecondsAre
      <4> QED
        BY ONLY <4>1, <4>2, Zenon
    <3>3. accepted'[Len(accepted) + 1] = now
      BY <2>1
    <3>4. Len(accepted) = n - 1
      BY <3>1, <2>n
    <3> QED
      BY <3>1, <3>2, <3>3, <3>4, <2>n
  <2>w. PICK win1 \in [Nat -> WindowStart] : win1 = [win EXCEPT ![n] = w]
    OBVIOUS
  <2>l. PICK life1 \in [Nat -> {1, 2}] : life1 = [life EXCEPT ![n] = gen[w]]
    OBVIOUS
  <2>r. PICK rank1 \in [Nat -> 1..Limit] : rank1 = [rank EXCEPT ![n] = count]
    BY <2>0
  <2>3. \A p \in 1..(n - 1) : /\ p \in Nat /\ p # n
                              /\ win1[p] = win[p] /\ life1[p] = life[p] /\ rank1[p] = rank[p]
                              /\ win[p] \in WindowStart /\ rank[p] \in 1..Limit /\ life[p] \in {1, 2}
    BY <2>w, <2>l, <2>r
  <2>4. win1[n] = w /\ life1[n] = gen[w] /\ rank1[n] = count /\ gen[w] \in {1, 2}
    BY <2>w, <2>l, <2>r
  <2>5. \A p \in 1..n : p = n \/ p \in 1..(n - 1)
    BY <2>2
  \* The new label is new.
  <2>6. \A p \in 1..(n - 1) : win[p] = w => life[p] <= gen[w] /\ (life[p] = gen[w] => rank[p] < count)
    <3> SUFFICES ASSUME NEW p \in 1..(n - 1), win[p] = w
                 PROVE  life[p] <= gen[w] /\ (life[p] = gen[w] => rank[p] < count)
      OBVIOUS
    <3>1. life[p] <= gen[w] /\ (life[p] = gen[w] => rank[p] <= counters[w].count)
      BY <1>l, <1>3, <2>2 DEF Lives
    <3>2. rank[p] \in Nat /\ counters[w].count \in Nat
      BY <1>t, <1>0, <2>3
    <3> QED
      BY <2>0, <3>1, <3>2
  <2>7. gen[w] = 2 => w + Window <= now
    BY <1>l DEF Lives
  <2>8. History(win1, life1, rank1)'
    <3>1. \A p, q \in 1..n :
            win1[p] = win1[q] /\ life1[p] = life1[q] /\ rank1[p] = rank1[q] => p = q
      <4>1. \A p, q \in 1..(n - 1) :
              win1[p] = win1[q] /\ life1[p] = life1[q] /\ rank1[p] = rank1[q] => p = q
        <5> SUFFICES ASSUME NEW p \in 1..(n - 1), NEW q \in 1..(n - 1),
                            win1[p] = win1[q], life1[p] = life1[q], rank1[p] = rank1[q]
                     PROVE  p = q
          OBVIOUS
        <5>1. win[p] = win[q] /\ life[p] = life[q] /\ rank[p] = rank[q]
          BY <2>3
        <5>2. p \in 1..Len(accepted) /\ q \in 1..Len(accepted)
          BY <2>2
        <5> QED
          BY <5>1, <5>2, <1>h DEF History
      <4>2. \A p \in 1..(n - 1) : ~(win1[p] = w /\ life1[p] = gen[w] /\ rank1[p] = count)
        <5> SUFFICES ASSUME NEW p \in 1..(n - 1), win1[p] = w, life1[p] = gen[w] PROVE rank1[p] # count
          OBVIOUS
        <5>1. rank[p] < count /\ rank1[p] = rank[p] /\ rank[p] \in Nat
          BY <2>6, <2>3, <1>0
        <5> QED
          BY <5>1, <2>0
      <4> QED
        BY <4>1, <4>2, <2>4, <2>5
    <3>2. \A p \in 1..n :
            /\ win1[p] <= accepted'[p] /\ accepted'[p] <= win1[p] + 2 * Window - 2
            /\ life1[p] = 2 => win1[p] + Window <= accepted'[p]
      <4>1. \A p \in 1..(n - 1) :
            /\ win1[p] <= accepted'[p] /\ accepted'[p] <= win1[p] + 2 * Window - 2
            /\ life1[p] = 2 => win1[p] + Window <= accepted'[p]
        BY <1>h, <2>2, <2>3 DEF History
      <4> QED
        BY <4>1, <2>2, <2>4, <2>5, <2>7, <1>3
    <3>3. \A p, q \in 1..n :
            win1[p] = win1[q] /\ life1[p] = 1 /\ life1[q] = 2 /\ rank1[p] = 1 /\ rank1[q] = 1
              => accepted'[p] + Window <= accepted'[q]
      <4> SUFFICES ASSUME NEW p \in 1..n, NEW q \in 1..n,
                          win1[p] = win1[q], life1[p] = 1, life1[q] = 2, rank1[p] = 1, rank1[q] = 1
                   PROVE  accepted'[p] + Window <= accepted'[q]
        OBVIOUS
      <4>1. p # q
        OBVIOUS
      <4>2. CASE p \in 1..(n - 1) /\ q \in 1..(n - 1)
        BY <4>2, <1>h, <2>2, <2>3 DEF History
      <4>3. CASE q = n /\ p \in 1..(n - 1)
        <5>1. win[p] = w /\ life[p] = 1 /\ rank[p] = 1 /\ gen[w] = 2
          BY <4>3, <2>3, <2>4
        <5>2. accepted[p] + Window <= now
          BY <5>1, <4>3, <1>l, <2>2 DEF Lives
        <5> QED
          BY <5>2, <4>3, <2>2
      <4>4. CASE p = n /\ q \in 1..(n - 1)
        \* Calls of the second life are only in a counter that is in its second life.
        <5>1. win[q] = w /\ life[q] = 2 /\ gen[w] = 1
          BY <4>4, <2>3, <2>4
        <5> QED
          BY <5>1, <4>4, <2>6
      <4> QED
        BY <4>1, <4>2, <4>3, <4>4, <2>5
    <3> QED
      BY <3>1, <3>2, <3>3, <2>2 DEF History
  <2>9. Lives(win1, life1, rank1, gen)'
    <3>1. \A p \in 1..n :
            now <= win1[p] + 2 * Window - 2 =>
              /\ life1[p] <= gen[win1[p]]
              /\ life1[p] = gen[win1[p]] => rank1[p] <= counters'[win1[p]].count
      <4> SUFFICES ASSUME NEW p \in 1..(n - 1), now <= win[p] + 2 * Window - 2
                   PROVE  /\ life[p] <= gen[win[p]]
                          /\ life[p] = gen[win[p]] => rank[p] <= counters'[win[p]].count
        <5>1. life1[n] <= gen[win1[n]] /\ rank1[n] <= counters'[win1[n]].count
          <6>1. gen[w] <= gen[w] /\ count <= count
            BY <2>4, <2>0
          <6>2. counters'[w].count = count
            BY <1>2
          <6> QED
            BY <6>1, <6>2, <2>4
        <5> QED
          BY <5>1, <2>3, <2>5
      <4>1. /\ life[p] <= gen[win[p]]
            /\ life[p] = gen[win[p]] => rank[p] <= counters[win[p]].count
        BY <1>l, <2>2 DEF Lives
      <4>2. CASE win[p] = w
        <5>1. rank[p] \in Nat
          BY <1>0, <2>3
        <5>2. counters'[w].count = count /\ count = k + 1 /\ counters[w].count = k
          BY <1>2, <1>k, <2>0
        <5>3. rank[p] <= k => rank[p] <= k + 1
          BY ONLY <5>1, k \in 0..(Limit + 1)
        <5> QED
          BY <4>1, <4>2, <5>2, <5>3
      <4>3. CASE win[p] # w
        BY <4>1, <4>3, <1>2, <2>3
      <4> QED
        BY <4>2, <4>3
    <3>2. \A v \in WindowStart :
            gen[v] = 2 => /\ v + Window <= now
                          /\ counters'[v].count > 0 => v + 2 * Window <= counters'[v].expires
      <4> SUFFICES ASSUME NEW v \in WindowStart, gen[v] = 2
                   PROVE  /\ v + Window <= now
                          /\ counters'[v].count > 0 => v + 2 * Window <= counters'[v].expires
        OBVIOUS
      <4>1. /\ v + Window <= now
            /\ counters[v].count > 0 => v + 2 * Window <= counters[v].expires
        BY <1>l DEF Lives
      <4>2. CASE v # w \/ counters[w].count > 0
        BY <4>1, <4>2, <1>2
      <4>3. CASE v = w /\ counters[w].count = 0
        <5>1. counters'[v].expires = Never
          BY <4>3, <1>2 DEF DelayInv, NoneExpires
        <5> QED
          BY <4>1, <5>1, <1>0, <1>t
      <4> QED
        BY <4>2, <4>3, <1>t
    <3>3. \A p \in 1..n :
            rank1[p] = 1 /\ counters'[win1[p]].count > 0 /\ life1[p] = gen[win1[p]] =>
              accepted'[p] + Window <= counters'[win1[p]].expires
      <4>1. CASE counters[w].count = 0
        <5>1. counters'[w].expires = Never
          BY <4>1, <1>2 DEF DelayInv, NoneExpires
        <5>2. \A p \in 1..n : accepted'[p] \in Nat /\ accepted'[p] <= now
          <6>1. \A p \in 1..Len(accepted) : accepted[p] <= now
            BY DEF DelayInv, NothingAhead
          <6> QED
            <7>1. \A p \in 1..(n - 1) : accepted'[p] \in Nat /\ accepted'[p] <= now
              BY <6>1, <2>2
            <7>2. accepted'[n] \in Nat /\ accepted'[n] <= now
              BY <2>2, <1>0
            <7> QED
              BY <7>1, <7>2, <2>5
        <5>3. \A p \in 1..n : win1[p] = w => accepted'[p] + Window <= counters'[win1[p]].expires
          BY <5>1, <5>2, <1>0
        <5>4. \A p \in 1..(n - 1) : win1[p] # w => counters'[win1[p]] = counters[win1[p]]
          BY <1>2, <2>3
        <5> QED
          <6> SUFFICES ASSUME NEW p \in 1..(n - 1), win[p] # w,
                              rank[p] = 1, counters'[win[p]].count > 0, life[p] = gen[win[p]]
                       PROVE  accepted[p] + Window <= counters'[win[p]].expires
            <7>1. accepted'[n] + Window <= counters'[win1[n]].expires
              <8>1. n \in 1..n
                BY <2>2
              <8> QED
                BY <8>1, <5>3, <2>4
            <7>2. \A p \in 1..(n - 1) :
                    /\ accepted'[p] = accepted[p] /\ win1[p] = win[p]
                    /\ life1[p] = life[p] /\ rank1[p] = rank[p] /\ p \in 1..n
              <8>1. 1..(n - 1) \subseteq 1..n
                BY <2>2
              <8> QED
                BY <8>1, <2>2, <2>3, Zenon
            <7>3. \A p \in 1..(n - 1) : win[p] = w => accepted[p] + Window <= counters'[win[p]].expires
              BY <5>3, <7>2
            <7> QED
              BY <7>1, <7>2, <7>3, <2>5, Zenon
          <6>1. counters'[win[p]] = counters[win[p]]
            BY <5>4, <2>3
          <6>2. p \in 1..Len(accepted)
            BY <2>2
          <6> QED
            BY <6>1, <6>2, <1>l DEF Lives
      <4>2. CASE counters[w].count # 0
        <5>1. count # 1 /\ counters[w].count > 0
          BY <4>2, <2>0, <1>k
        <5>2. \A p \in 1..(n - 1) :
                /\ counters'[win[p]].count > 0 => counters[win[p]].count > 0
                /\ counters'[win[p]].expires = counters[win[p]].expires
          BY <1>2, <2>3, <5>1
        <5> QED
          <6> SUFFICES ASSUME NEW p \in 1..(n - 1),
                              rank[p] = 1, counters'[win[p]].count > 0, life[p] = gen[win[p]]
                       PROVE  accepted[p] + Window <= counters'[win[p]].expires
            BY <5>1, <2>2, <2>3, <2>4, <2>5
          <6>1. p \in 1..Len(accepted)
            BY <2>2
          <6> QED
            BY <5>2, <6>1, <1>l DEF Lives
      <4> QED
        BY <4>1, <4>2
    <3>4. \A p \in 1..n :
            rank1[p] = 1 /\ life1[p] = 1 /\ gen[win1[p]] = 2 => accepted'[p] + Window <= now
      <4> SUFFICES ASSUME NEW p \in 1..(n - 1), rank[p] = 1, life[p] = 1, gen[win[p]] = 2
                   PROVE  accepted[p] + Window <= now
        <5>1. ~(life1[n] = 1 /\ gen[win1[n]] = 2)
          BY <2>4
        <5>2. \A p \in 1..(n - 1) : /\ accepted'[p] = accepted[p] /\ win1[p] = win[p]
                                     /\ life1[p] = life[p] /\ rank1[p] = rank[p]
          BY <2>2, <2>3
        <5> QED
          BY <5>1, <5>2, <2>5, Zenon
      <4>1. p \in 1..Len(accepted)
        BY <2>2
      <4> QED
        BY <4>1, <1>l DEF Lives
    <3> QED
      BY <1>4, <2>2, <3>1, <3>2, <3>3, <3>4 DEF Lives
  <2> QED
    BY <2>8, <2>9 DEF Labelled
<1> QED
  BY <1>0, <1>6, <1>7


\* EXPIRE: the counter lives for a window from now.
LEMMA ExpireLabels ==
  ASSUME TypeOK, DelayInv, NEW c \in Caller, Expire(c),
         NEW win \in [Nat -> WindowStart], NEW life \in [Nat -> {1, 2}],
         NEW rank \in [Nat -> 1..Limit], NEW gen \in [WindowStart -> {1, 2}],
         History(win, life, rank), Lives(win, life, rank, gen)
  PROVE  Labelled'
<1>1. PICK w \in WindowStart :
         /\ \A v \in WindowStart : counters'[v].count = counters[v].count
         /\ counters[w].count > 0 => counters'[w].expires = now + Window
         /\ counters[w].count = 0 => counters'[w] = counters[w]
         /\ \A v \in WindowStart \ {w} : counters'[v] = counters[v]
  BY ExpireFields
<1>2. now' = now /\ accepted' = accepted
  BY DEF Expire
<1>3. History(win, life, rank)'
  BY <1>2 DEF History
<1>0. now \in Nat /\ Window \in Nat \ {0}
  BY LimiterAssumption, BoundsAssumption DEF TypeOK
<1>a. \A p \in 1..Len(accepted) : accepted[p] <= now
  BY DEF DelayInv, NothingAhead
<1>4. /\ \A p \in 1..Len(accepted) : /\ p \in Nat /\ win[p] \in WindowStart /\ rank[p] \in Nat
                                     /\ accepted[p] \in Nat /\ accepted[p] <= now
      /\ \A v \in WindowStart : v \in Nat /\ counters[v].count \in Nat /\ counters[v].expires \in Nat
  BY <1>a, LabelsAre, CountersAre
<1>5. \A v \in WindowStart :
        gen[v] = 2 => /\ v + Window <= now
                      /\ counters'[v].count > 0 => v + 2 * Window <= counters'[v].expires
  <2> SUFFICES ASSUME NEW v \in WindowStart, gen[v] = 2
               PROVE  /\ v + Window <= now
                      /\ counters'[v].count > 0 => v + 2 * Window <= counters'[v].expires
    OBVIOUS
  <2>1. /\ v + Window <= now
        /\ counters[v].count > 0 => v + 2 * Window <= counters[v].expires
    BY DEF Lives
  <2>2. CASE v = w /\ counters[w].count > 0
    <3>1. counters'[v].expires = now + Window
      BY <1>1, <2>2
    <3>2. v \in Nat
      BY <1>4
    <3>3. v + 2 * Window <= now + Window
      BY <1>0, <2>1, <3>2
    <3> QED
      BY <2>1, <3>1, <3>3
  <2>3. CASE v # w \/ counters[w].count = 0
    BY <1>1, <2>1, <2>3
  <2>4. counters[w].count = 0 \/ counters[w].count > 0
    <3>1. counters[w].count \in Nat
      BY <1>4
    <3> QED
      BY ONLY <3>1
  <2> QED
    BY <2>2, <2>3, <2>4
<1>6. \A p \in 1..Len(accepted) :
        rank[p] = 1 /\ counters'[win[p]].count > 0 /\ life[p] = gen[win[p]] =>
          accepted[p] + Window <= counters'[win[p]].expires
  <2> SUFFICES ASSUME NEW p \in 1..Len(accepted),
                      rank[p] = 1, counters'[win[p]].count > 0, life[p] = gen[win[p]]
               PROVE  accepted[p] + Window <= counters'[win[p]].expires
    OBVIOUS
  <2>1. win[p] \in WindowStart /\ counters[win[p]].count > 0
    BY <1>1, <1>4
  <2>2. accepted[p] + Window <= counters[win[p]].expires
    BY <2>1 DEF Lives
  <2>3. CASE win[p] = w
    <3>1. counters'[w].expires = now + Window
      BY <1>1, <2>1, <2>3
    <3>2. accepted[p] + Window <= now + Window
      <4>1. accepted[p] \in Nat /\ accepted[p] <= now
        BY <1>4
      <4> QED
        BY ONLY <4>1, <1>0, Later
    <3> QED
      BY <2>3, <3>1, <3>2
  <2>4. CASE win[p] # w
    BY <1>1, <2>1, <2>2, <2>4
  <2> QED
    BY <2>3, <2>4
<1>7. \A p \in 1..Len(accepted) :
        now <= win[p] + 2 * Window - 2 =>
          /\ life[p] <= gen[win[p]]
          /\ life[p] = gen[win[p]] => rank[p] <= counters'[win[p]].count
  BY <1>1, <1>4 DEF Lives
<1>8. \A p \in 1..Len(accepted) :
        rank[p] = 1 /\ life[p] = 1 /\ gen[win[p]] = 2 => accepted[p] + Window <= now
  BY DEF Lives
<1>9. Lives(win, life, rank, gen)'
  BY <1>2, <1>5, <1>6, <1>7, <1>8 DEF Lives
<1> QED
  BY <1>3, <1>9 DEF Labelled

\* The clock moves on: a counter that expires while calls can still reach it
\* has ended its first life.
LEMMA TickLabels ==
  ASSUME TypeOK, DelayInv, Tick,
         NEW win \in [Nat -> WindowStart], NEW life \in [Nat -> {1, 2}],
         NEW rank \in [Nat -> 1..Limit], NEW gen \in [WindowStart -> {1, 2}],
         History(win, life, rank), Lives(win, life, rank, gen)
  PROVE  Labelled'
<1>0. now' = now + 1 /\ accepted' = accepted /\ now \in Nat /\ Window \in Nat \ {0}
      /\ now + 1 < Never /\ Never \in Nat
  BY LimiterAssumption, BoundsAssumption DEF Tick, TypeOK, Never
<1>w. Window \in Nat /\ now \in Nat
  BY <1>0
<1>1. \A v \in WindowStart :
        counters'[v] = IF counters[v].expires <= now + 1 THEN Gone ELSE counters[v]
  BY DEF Tick
<1>2. \A v \in WindowStart : /\ v \in Nat /\ counters[v].count \in Nat /\ counters[v].expires \in Nat
                             /\ v + Window <= counters[v].expires
                             /\ counters[v].count = 0 => counters[v].expires = Never
  <2>1. \A v \in WindowStart : v \in Nat /\ counters[v].count \in Nat /\ counters[v].expires \in Nat
    BY CountersAre
  <2>4. \A v \in WindowStart : /\ v + Window <= counters[v].expires
                               /\ counters[v].count = 0 => counters[v].expires = Never
    BY DEF DelayInv, NothingAhead, NoneExpires
  <2> QED
    BY <2>1, <2>4, Zenon
<1>3. PICK gen1 \in [WindowStart -> {1, 2}] :
        gen1 = [v \in WindowStart |-> IF counters[v].expires <= now + 1 THEN 2 ELSE gen[v]]
  OBVIOUS
<1>4. \A v \in WindowStart :
        \/ counters[v].expires <= now + 1 /\ gen1[v] = 2 /\ counters'[v].count = 0 /\ counters[v].count > 0
        \/ gen1[v] = gen[v] /\ counters'[v] = counters[v] /\ now + 1 < counters[v].expires
  <2> SUFFICES ASSUME NEW v \in WindowStart
               PROVE  \/ counters[v].expires <= now + 1 /\ gen1[v] = 2 /\ counters'[v].count = 0 /\ counters[v].count > 0
                      \/ gen1[v] = gen[v] /\ counters'[v] = counters[v] /\ now + 1 < counters[v].expires
    OBVIOUS
  <2>1. CASE counters[v].expires <= now + 1
    BY <1>0, <1>1, <1>2, <1>3, <2>1 DEF Gone
  <2>2. CASE ~(counters[v].expires <= now + 1)
    BY <1>0, <1>1, <1>2, <1>3, <2>2
  <2> QED
    BY <2>1, <2>2
<1>5. \A p \in 1..Len(accepted) :
        /\ p \in Nat /\ win[p] \in WindowStart /\ life[p] \in {1, 2} /\ rank[p] \in Nat
        /\ accepted[p] \in Nat
  BY LabelsAre
<1>6. History(win, life, rank)'
  BY <1>0 DEF History
<1>7. \A p \in 1..Len(accepted) :
        now + 1 <= win[p] + 2 * Window - 2 =>
          /\ life[p] <= gen1[win[p]]
          /\ life[p] = gen1[win[p]] => rank[p] <= counters'[win[p]].count
  <2> SUFFICES ASSUME NEW p \in 1..Len(accepted), now + 1 <= win[p] + 2 * Window - 2
               PROVE  /\ life[p] <= gen1[win[p]]
                      /\ life[p] = gen1[win[p]] => rank[p] <= counters'[win[p]].count
    OBVIOUS
  <2>0. win[p] \in WindowStart /\ win[p] \in Nat /\ life[p] \in {1, 2}
    BY <1>2, <1>5
  <2>h. now + 1 <= win[p] + 2 * Window - 2
    OBVIOUS
  <2>1. /\ life[p] <= gen[win[p]]
        /\ life[p] = gen[win[p]] => rank[p] <= counters[win[p]].count
    <3>1. now <= win[p] + 2 * Window - 2
      BY <1>0, <2>0
    <3> QED
      BY <3>1 DEF Lives
  <2>2. CASE counters[win[p]].expires <= now + 1 /\ gen1[win[p]] = 2 /\ counters[win[p]].count > 0
    <3>1. gen[win[p]] # 2
      <4>1. gen[win[p]] = 2 => win[p] + 2 * Window <= counters[win[p]].expires
        BY <2>0, <2>2 DEF Lives
      <4> QED
        <5>1. counters[win[p]].expires \in Nat
          BY <1>2, <2>0
        <5>2. 2 * Window \in Nat /\ win[p] \in Nat
          BY ONLY <1>w, <2>0
        <5> QED
          BY ONLY <4>1, <5>1, <5>2, <1>w, <2>2, <2>h, LaterStill
    <3>2. life[p] = 1
      BY <2>0, <2>1, <3>1
    <3> QED
      BY <2>2, <3>2
  <2>3. CASE gen1[win[p]] = gen[win[p]] /\ counters'[win[p]] = counters[win[p]]
    BY <2>1, <2>3
  <2> QED
    BY <1>4, <2>0, <2>2, <2>3
<1>8. \A v \in WindowStart :
        gen1[v] = 2 => /\ v + Window <= now + 1
                       /\ counters'[v].count > 0 => v + 2 * Window <= counters'[v].expires
  <2> SUFFICES ASSUME NEW v \in WindowStart, gen1[v] = 2
               PROVE  /\ v + Window <= now + 1
                      /\ counters'[v].count > 0 => v + 2 * Window <= counters'[v].expires
    OBVIOUS
  <2>1. CASE counters[v].expires <= now + 1 /\ counters'[v].count = 0
    BY <1>0, <1>2, <2>1
  <2>2. CASE gen[v] = 2 /\ counters'[v] = counters[v]
    <3>1. /\ v + Window <= now
          /\ counters[v].count > 0 => v + 2 * Window <= counters[v].expires
      BY <2>2 DEF Lives
    <3>2. v + Window <= now + 1
      BY <3>1, <1>0, <1>2
    <3> QED
      BY <2>2, <3>1, <3>2
  <2> QED
    BY <1>4, <2>1, <2>2
<1>9. \A p \in 1..Len(accepted) :
        rank[p] = 1 /\ counters'[win[p]].count > 0 /\ life[p] = gen1[win[p]] =>
          accepted[p] + Window <= counters'[win[p]].expires
  <2> SUFFICES ASSUME NEW p \in 1..Len(accepted),
                      rank[p] = 1, counters'[win[p]].count > 0, life[p] = gen1[win[p]]
               PROVE  accepted[p] + Window <= counters'[win[p]].expires
    OBVIOUS
  <2>0. win[p] \in WindowStart /\ counters'[win[p]].count # 0
    BY <1>5
  <2>1. gen1[win[p]] = gen[win[p]] /\ counters'[win[p]] = counters[win[p]]
    BY <1>4, <2>0
  <2> QED
    BY <2>1 DEF Lives
<1>10. \A p \in 1..Len(accepted) :
        rank[p] = 1 /\ life[p] = 1 /\ gen1[win[p]] = 2 => accepted[p] + Window <= now + 1
  <2> SUFFICES ASSUME NEW p \in 1..Len(accepted), rank[p] = 1, life[p] = 1, gen1[win[p]] = 2
               PROVE  accepted[p] + Window <= now + 1
    OBVIOUS
  <2>1. CASE gen[win[p]] = 2
    <3>1. accepted[p] + Window <= now
      BY <2>1 DEF Lives
    <3> QED
      <4>1. accepted[p] \in Nat
        BY <1>5
      <4>2. now <= now
        BY ONLY <1>w
      <4> QED
        BY ONLY <3>1, <4>1, <4>2, <1>w, LaterStill
  <2>2. CASE gen[win[p]] # 2
    <3>1. counters[win[p]].expires <= now + 1 /\ counters[win[p]].count > 0 /\ gen[win[p]] = 1
      BY <2>2, <1>4, <1>5
    <3>2. accepted[p] + Window <= counters[win[p]].expires
      BY <3>1 DEF Lives
    <3> QED
      <4>1. accepted[p] \in Nat /\ counters[win[p]].expires \in Nat
        BY <1>2, <1>5
      <4> QED
        BY ONLY <3>1, <3>2, <4>1, <1>w, LaterStill
  <2> QED
    BY <2>1, <2>2
<1>11. Lives(win, life, rank, gen1)'
  BY <1>0, <1>7, <1>8, <1>9, <1>10 DEF Lives
<1> QED
  BY <1>6, <1>11 DEF Labelled

LEMMA LabelsStep ==
  ASSUME TypeOK, DelayInv, MaxLag < Window, Labelled, [Next]_vars
  PROVE  Labelled'
<1>1. PICK win \in [Nat -> WindowStart] :
        \E life \in [Nat -> {1, 2}], rank \in [Nat -> 1..Limit], gen \in [WindowStart -> {1, 2}] :
          History(win, life, rank) /\ Lives(win, life, rank, gen)
  BY Zenon DEF Labelled
<1>2. PICK life \in [Nat -> {1, 2}] :
        \E rank \in [Nat -> 1..Limit], gen \in [WindowStart -> {1, 2}] :
          History(win, life, rank) /\ Lives(win, life, rank, gen)
  BY <1>1, Zenon
<1>3. PICK rank \in [Nat -> 1..Limit] :
        \E gen \in [WindowStart -> {1, 2}] :
          History(win, life, rank) /\ Lives(win, life, rank, gen)
  BY <1>2, Zenon
<1>4. PICK gen \in [WindowStart -> {1, 2}] : History(win, life, rank) /\ Lives(win, life, rank, gen)
  BY <1>3, Zenon
<1>5. ASSUME NEW c \in Caller, Incr(c) PROVE Labelled'
  BY <1>4, <1>5, IncrLabels
<1>6. ASSUME NEW c \in Caller, Expire(c) PROVE Labelled'
  BY <1>4, <1>6, ExpireLabels
<1>7. CASE Tick
  BY <1>4, <1>7, TickLabels
<1>8. CASE (\E c \in Caller : ReadClock(c) \/ Abort(c)) \/ UNCHANGED vars
  <2>1. accepted \in Seq(0..MaxTime) /\ accepted' = accepted /\ now' = now /\ counters' = counters
    BY <1>8 DEF TypeOK, ReadClock, Abort, vars
  <2> QED
    BY <1>4, <2>1, LabelsStay
<1> QED
  BY <1>5, <1>6, <1>7, <1>8 DEF Next

LEMMA DelayInit ==
  ASSUME Init
  PROVE  DelayInv /\ Labelled
<1>0. now = 0 /\ accepted = <<>> /\ MaxTime \in Nat /\ Window \in Nat \ {0} /\ Limit \in Nat \ {0}
  BY LimiterAssumption, BoundsAssumption DEF Init
<1>1. NothingAhead
  BY BurstInit DEF BurstInv
<1>2. InTime /\ NoneExpires
  BY DEF Init, InTime, NoneExpires, IdleCall, Gone
<1>3. Len(accepted) = 0
  BY <1>0
<1>4. Ordered
  BY <1>3 DEF Ordered
<1>5. PICK t \in WindowStart : t = WindowOf(0)
  BY <1>0 DEF WindowStart
<1>6. PICK win \in [Nat -> WindowStart] : win = [p \in Nat |-> t]
  OBVIOUS
<1>7. PICK rank \in [Nat -> 1..Limit] : rank = [p \in Nat |-> 1]
  <2>1. 1 \in 1..Limit
    BY <1>0
  <2> QED
    BY <2>1
<1>8. PICK life \in [Nat -> {1, 2}] : life = [p \in Nat |-> 1]
  OBVIOUS
<1>9. PICK gen \in [WindowStart -> {1, 2}] : gen = [w \in WindowStart |-> 1]
  OBVIOUS
<1>10. History(win, life, rank) /\ Lives(win, life, rank, gen)
  <2>1. \A p \in 1..Len(accepted) : FALSE
    BY <1>3
  <2>2. \A w \in WindowStart : gen[w] # 2
    BY <1>9
  <2> QED
    BY <2>1, <2>2 DEF History, Lives
<1> QED
  BY <1>1, <1>2, <1>4, <1>10 DEF DelayInv, Labelled



\* The labels of the calls accepted in less than a window: at most those of
\* three windows, each side's labels in slots of their own.  Of the window in
\* the middle, and of those before it, at most one life has its first call there.
SlotOf(x, l, k) ==
  IF l = 1 THEN x + k ELSE IF k = 1 THEN x + 1 ELSE x + Limit + k - 1

LEMMA SlotBounds ==
  ASSUME NEW x \in Nat, NEW l \in {1, 2}, NEW k \in 1..Limit
  PROVE  /\ SlotOf(x, l, k) \in (x + 1)..(x + 2 * Limit - 1)
         /\ l = 1 => SlotOf(x, l, k) \in (x + 1)..(x + Limit)
<1>1. Limit \in Nat \ {0}
  BY LimiterAssumption, BoundsAssumption
<1> QED
  BY <1>1 DEF SlotOf

LEMMA SlotsApart ==
  ASSUME NEW x \in Nat, NEW l \in {1, 2}, NEW k \in 1..Limit, NEW m \in {1, 2}, NEW h \in 1..Limit,
         ~(l = 1 /\ m = 2 /\ k = 1 /\ h = 1), ~(l = 2 /\ m = 1 /\ k = 1 /\ h = 1),
         SlotOf(x, l, k) = SlotOf(x, m, h)
  PROVE  l = m /\ k = h
<1>1. Limit \in Nat \ {0}
  BY LimiterAssumption, BoundsAssumption
<1> QED
  BY <1>1 DEF SlotOf


LifeNo == {1, 2}
RankNo == 1..Limit
FirstOfBoth(l, k, m, h) == l = 1 /\ m = 2 /\ k = 1 /\ h = 1

LEMMA SameSlot ==
  ASSUME NEW x \in Nat, NEW l \in LifeNo, NEW k \in RankNo, NEW m \in LifeNo, NEW h \in RankNo,
         ~FirstOfBoth(l, k, m, h), ~FirstOfBoth(m, h, l, k), SlotOf(x, l, k) = SlotOf(x, m, h)
  PROVE  l = m /\ k = h
BY SlotsApart DEF LifeNo, RankNo, FirstOfBoth

LEMMA Between ==
  ASSUME NEW a \in Nat, NEW b \in Nat, NEW c \in Nat, NEW k \in Nat, a <= b, b <= c, ~(c - a >= k)
  PROVE  b < a + k
OBVIOUS

LEMMA NotBoth ==
  ASSUME NEW a \in Nat, NEW b \in Nat, NEW k \in Nat, NEW s \in Nat, a + k <= b
  PROVE  ~(b < a + k) /\ ~(s <= a /\ b < s + k)
OBVIOUS

LEMMA StartsApart ==
  ASSUME NEW v \in WindowStart, NEW w \in WindowStart
  PROVE  v = w \/ v + Window <= w \/ w + Window <= v
<1>1. PICK t \in 0..MaxTime : v = WindowOf(t)
  BY DEF WindowStart
<1>2. PICK u \in 0..MaxTime : w = WindowOf(u)
  BY DEF WindowStart
<1>3. t \in Nat /\ u \in Nat /\ (t <= u \/ u <= t)
  BY LimiterAssumption, BoundsAssumption
<1> QED
  BY <1>1, <1>2, <1>3, WindowsApart

\* In a stretch shorter than a window, with k the window it begins in.
LEMMA WindowsOfStretch ==
  ASSUME NEW s \in Nat, NEW k \in WindowStart, k <= s, s < k + Window,
         NEW a \in Nat, s <= a, a < s + Window, NEW v \in WindowStart, v <= a, a <= v + 2 * Window - 2,
         NEW b \in Nat, s <= b, b < s + Window, NEW w \in WindowStart, w <= b, b <= w + 2 * Window - 2
  PROVE  /\ v < k /\ w < k => v = w
         /\ k < v /\ k < w => v = w
         /\ k < v => a < v + Window
<1>1. Window \in Nat /\ k \in Nat /\ v \in Nat /\ w \in Nat
  BY LimiterAssumption, BoundsAssumption, StartsInTime
<1>2. v = w \/ v + Window <= w \/ w + Window <= v
  BY StartsApart
<1>3. v = k \/ v + Window <= k \/ k + Window <= v
  BY StartsApart
<1>4. w = k \/ w + Window <= k \/ k + Window <= w
  BY StartsApart
<1> QED
  BY <1>1, <1>2, <1>3, <1>4

LEMMA LabelledIsBounded ==
  ASSUME TypeOK, DelayInv,
         NEW win \in [Nat -> WindowStart], NEW life \in [Nat -> {1, 2}], NEW rank \in [Nat -> 1..Limit],
         History(win, life, rank)
  PROVE  AtMostPerWindow(5 * Limit - 2)
<1>0. Limit \in Nat \ {0} /\ Window \in Nat \ {0} /\ MaxTime \in Nat
  BY LimiterAssumption, BoundsAssumption
<1>1. PICK n \in Nat : n = 5 * Limit - 2
  BY <1>0
<1>v. Window \in Nat
  BY <1>0
<1> SUFFICES ASSUME NEW i \in 1..Len(accepted), i + n <= Len(accepted), ~(accepted[i + n] - accepted[i] >= Window)
             PROVE  FALSE
  BY <1>1 DEF AtMostPerWindow
<1>h. ~(accepted[i + n] - accepted[i] >= Window)
  OBVIOUS
<1>2. Len(accepted) \in Nat /\ i \in Nat /\ i + n \in 1..Len(accepted)
  BY SecondsAre
<1>3. PICK s \in 0..MaxTime : s = accepted[i] /\ s \in Nat
  BY SecondsAre
<1>4. PICK S : S = i..(i + n)
  OBVIOUS
<1>5. \A p \in S : p \in 1..Len(accepted) /\ i <= p /\ p <= i + n
  BY <1>2, <1>4
<1>6. \A p \in S : accepted[p] \in Nat /\ s <= accepted[p] /\ accepted[p] < s + Window
  <2> SUFFICES ASSUME NEW p \in S
               PROVE  accepted[p] \in Nat /\ s <= accepted[p] /\ accepted[p] < s + Window
    OBVIOUS
  <2>1. accepted[p] \in Nat /\ accepted[i + n] \in Nat
    BY <1>2, <1>5, SecondsAre
  <2>2. accepted[i] <= accepted[p] /\ accepted[p] <= accepted[i + n]
    BY <1>2, <1>5 DEF DelayInv, Ordered
  <2> QED
    <3>1. s <= accepted[p] /\ ~(accepted[i + n] - s >= Window)
      BY <1>3, <1>h, <2>2
    <3> QED
      BY ONLY <1>3, <1>v, <2>1, <2>2, <3>1, Between
<1>7. PICK k \in WindowStart : k = WindowOf(s)
  BY <1>3, StartsAreStarts
<1>8. k \in Nat /\ k <= s /\ s < k + Window
  BY <1>3, <1>7, InWindow
<1>9. \A p \in S : /\ win[p] \in WindowStart /\ life[p] \in {1, 2} /\ rank[p] \in 1..Limit
                   /\ win[p] <= accepted[p] /\ accepted[p] <= win[p] + 2 * Window - 2
                   /\ life[p] = 2 => win[p] + Window <= accepted[p]
  BY <1>5, LabelsAre DEF History
<1>w. \A p \in S : win[p] \in Nat
  <2>1. \A v \in WindowStart : v \in Nat
    BY CountersAre
  <2> QED
    BY <1>9, <2>1, Zenon
<1>10. \A p, q \in S : /\ win[p] < k /\ win[q] < k => win[p] = win[q]
                       /\ k < win[p] /\ k < win[q] => win[p] = win[q]
                       /\ k < win[p] => accepted[p] < win[p] + Window
  <2> SUFFICES ASSUME NEW p \in S, NEW q \in S
               PROVE  /\ win[p] < k /\ win[q] < k => win[p] = win[q]
                      /\ k < win[p] /\ k < win[q] => win[p] = win[q]
                      /\ k < win[p] => accepted[p] < win[p] + Window
    OBVIOUS
  <2>1. /\ accepted[p] \in Nat /\ s <= accepted[p] /\ accepted[p] < s + Window
        /\ win[p] \in WindowStart /\ win[p] <= accepted[p] /\ accepted[p] <= win[p] + 2 * Window - 2
    BY <1>6, <1>9
  <2>2. /\ accepted[q] \in Nat /\ s <= accepted[q] /\ accepted[q] < s + Window
        /\ win[q] \in WindowStart /\ win[q] <= accepted[q] /\ accepted[q] <= win[q] + 2 * Window - 2
    BY <1>6, <1>9
  <2>3. s \in Nat /\ k \in WindowStart
    BY <1>3
  <2>a. PICK a \in Nat : a = accepted[p]
    BY <2>1
  <2>b. PICK b \in Nat : b = accepted[q]
    BY <2>2
  <2>v. PICK v \in WindowStart : v = win[p]
    BY <2>1
  <2>w. PICK w \in WindowStart : w = win[q]
    BY <2>2
  <2>4. s <= a /\ a < s + Window /\ v <= a /\ a <= v + 2 * Window - 2
    BY <2>1, <2>a, <2>v
  <2>5. s <= b /\ b < s + Window /\ w <= b /\ b <= w + 2 * Window - 2
    BY <2>2, <2>b, <2>w
  <2>6. /\ v < k /\ w < k => v = w
        /\ k < v /\ k < w => v = w
        /\ k < v => a < v + Window
    BY <1>8, <2>3, <2>4, <2>5, WindowsOfStretch
  <2> QED
    BY <2>6, <2>a, <2>v, <2>w
<1>11. \A p \in S : k < win[p] => life[p] = 1
  <2> SUFFICES ASSUME NEW p \in S, k < win[p], life[p] = 2 PROVE FALSE
    BY <1>9
  <2>1. accepted[p] < win[p] + Window /\ win[p] + Window <= accepted[p]
    BY <1>9, <1>10
  <2>2. accepted[p] \in Nat /\ win[p] \in Nat
    BY <1>6, <1>w
  <2> QED
    BY ONLY <1>v, <2>1, <2>2, NotBoth
<1>12. \A p, q \in S :
         win[p] = win[q] => ~(life[p] = 1 /\ life[q] = 2 /\ rank[p] = 1 /\ rank[q] = 1)
  <2> SUFFICES ASSUME NEW p \in S, NEW q \in S,
                      win[p] = win[q], life[p] = 1, life[q] = 2, rank[p] = 1, rank[q] = 1
               PROVE  FALSE
    OBVIOUS
  <2>1. accepted[p] + Window <= accepted[q]
    BY <1>5 DEF History
  <2>2. /\ accepted[p] \in Nat /\ s <= accepted[p]
        /\ accepted[q] \in Nat /\ accepted[q] < s + Window
    BY <1>6
  <2>3. s \in Nat
    BY <1>3
  <2> QED
    BY ONLY <1>v, <2>1, <2>2, <2>3, NotBoth
<1> DEFINE Side(v) == IF v < k THEN 0 ELSE IF v = k THEN 2 * Limit - 1 ELSE 4 * Limit - 2
           slot == [p \in S |-> SlotOf(Side(win[p]), life[p], rank[p])]
<1>13. \A p \in S : \/ win[p] < k /\ Side(win[p]) = 0
                    \/ win[p] = k /\ Side(win[p]) = 2 * Limit - 1
                    \/ k < win[p] /\ Side(win[p]) = 4 * Limit - 2
  <2>1. \A v \in Nat : \/ v < k /\ Side(v) = 0
                       \/ v = k /\ Side(v) = 2 * Limit - 1
                       \/ k < v /\ Side(v) = 4 * Limit - 2
    <3> TAKE v \in Nat
    <3>0. v \in Nat
      OBVIOUS
    <3>1. CASE v < k
      BY ONLY <3>1
    <3>2. CASE v = k
      BY ONLY <1>8, <3>2
    <3>3. CASE k < v
      BY ONLY <1>8, <3>0, <3>3
    <3> QED
      BY ONLY <1>8, <3>0, <3>1, <3>2, <3>3
  <2> QED
    BY <1>w, <2>1
<1> HIDE DEF Side
<1>14. \A p \in S : Side(win[p]) \in Nat
  <2>1. 2 * Limit - 1 \in Nat /\ 4 * Limit - 2 \in Nat /\ 0 \in Nat
    BY <1>0
  <2> QED
    BY <1>13, <2>1
<1>15. \A p \in S : /\ slot[p] \in (Side(win[p]) + 1)..(Side(win[p]) + 2 * Limit - 1)
                    /\ life[p] = 1 => slot[p] \in (Side(win[p]) + 1)..(Side(win[p]) + Limit)
  <2> SUFFICES ASSUME NEW p \in S
               PROVE  /\ slot[p] \in (Side(win[p]) + 1)..(Side(win[p]) + 2 * Limit - 1)
                      /\ life[p] = 1 => slot[p] \in (Side(win[p]) + 1)..(Side(win[p]) + Limit)
    OBVIOUS
  <2>1. slot[p] = SlotOf(Side(win[p]), life[p], rank[p])
    OBVIOUS
  <2>2. Side(win[p]) \in Nat /\ life[p] \in {1, 2} /\ rank[p] \in 1..Limit
    BY <1>9, <1>14
  <2> HIDE DEF slot
  <2>x. PICK x \in Nat : x = Side(win[p])
    BY <2>2
  <2>l. PICK l \in {1, 2} : l = life[p]
    BY <2>2
  <2>r. PICK h \in 1..Limit : h = rank[p]
    BY <2>2
  <2>3. /\ SlotOf(x, l, h) \in (x + 1)..(x + 2 * Limit - 1)
        /\ l = 1 => SlotOf(x, l, h) \in (x + 1)..(x + Limit)
    BY ONLY x \in Nat, l \in {1, 2}, h \in 1..Limit, SlotBounds
  <2>4. slot[p] = SlotOf(x, l, h)
    BY <2>1, <2>x, <2>l, <2>r
  <2> QED
    BY <2>3, <2>4, <2>x, <2>l
<1> HIDE DEF slot
<1>16. \A p \in S : \/ win[p] < k /\ slot[p] \in 1..(2 * Limit - 1)
                    \/ win[p] = k /\ slot[p] \in (2 * Limit)..(4 * Limit - 2)
                    \/ k < win[p] /\ slot[p] \in (4 * Limit - 1)..(5 * Limit - 2)
  <2> SUFFICES ASSUME NEW p \in S
               PROVE  \/ win[p] < k /\ slot[p] \in 1..(2 * Limit - 1)
                      \/ win[p] = k /\ slot[p] \in (2 * Limit)..(4 * Limit - 2)
                      \/ k < win[p] /\ slot[p] \in (4 * Limit - 1)..(5 * Limit - 2)
    OBVIOUS
  <2>0. PICK x : x = slot[p]
    OBVIOUS
  <2>1. CASE win[p] < k /\ Side(win[p]) = 0
    <3>1. x \in (0 + 1)..(0 + 2 * Limit - 1)
      BY <1>15, <2>0, <2>1
    <3>2. x \in 1..(2 * Limit - 1)
      BY ONLY <1>0, <3>1
    <3> QED
      BY <2>0, <2>1, <3>2
  <2>2. CASE win[p] = k /\ Side(win[p]) = 2 * Limit - 1
    <3>1. x \in (2 * Limit - 1 + 1)..(2 * Limit - 1 + 2 * Limit - 1)
      BY <1>15, <2>0, <2>2
    <3>2. x \in (2 * Limit)..(4 * Limit - 2)
      BY ONLY <1>0, <3>1
    <3> QED
      BY <2>0, <2>2, <3>2
  <2>3. CASE k < win[p] /\ Side(win[p]) = 4 * Limit - 2
    <3>1. x \in (4 * Limit - 2 + 1)..(4 * Limit - 2 + Limit)
      BY <1>11, <1>15, <2>0, <2>3
    <3>2. x \in (4 * Limit - 1)..(5 * Limit - 2)
      BY ONLY <1>0, <3>1
    <3> QED
      BY <2>0, <2>3, <3>2
  <2> QED
    BY <1>13, <2>1, <2>2, <2>3
<1>17. slot \in [S -> 1..n]
  <2>1. \A p \in S : slot[p] \in 1..n
    <3>1. /\ 1..(2 * Limit - 1) \subseteq 1..n /\ (2 * Limit)..(4 * Limit - 2) \subseteq 1..n
          /\ (4 * Limit - 1)..(5 * Limit - 2) \subseteq 1..n
      BY ONLY <1>0, <1>1
    <3> QED
      BY <1>16, <3>1, Zenon
  <2> QED
    BY <2>1, Zenon DEF slot
<1>18. IsFiniteSet(S) /\ IsFiniteSet(1..n) /\ Cardinality(1..n) < Cardinality(S)
  <2>1. i \in Int /\ i + n \in Int /\ 1 \in Int /\ n \in Int
    BY <1>2
  <2>2. IsFiniteSet(S) /\ Cardinality(S) = IF i > i + n THEN 0 ELSE (i + n) - i + 1
    BY <1>4, <2>1, FS_Interval, Zenon
  <2>3. IsFiniteSet(1..n) /\ Cardinality(1..n) = IF 1 > n THEN 0 ELSE n - 1 + 1
    BY <2>1, FS_Interval, Zenon
  <2>4. Cardinality(S) = n + 1 /\ Cardinality(1..n) <= n
    <3>1. PICK x : x = Cardinality(S)
      OBVIOUS
    <3>2. PICK y : y = Cardinality(1..n)
      OBVIOUS
    <3>3. x = IF i > i + n THEN 0 ELSE (i + n) - i + 1
      BY <2>2, <3>1, Zenon
    <3>4. y = IF 1 > n THEN 0 ELSE n - 1 + 1
      BY <2>3, <3>2, Zenon
    <3>5. x = n + 1 /\ y <= n
      BY ONLY <1>2, n \in Nat, <3>3, <3>4
    <3> QED
      BY <3>1, <3>2, <3>5, Zenon
  <2>5. Cardinality(1..n) \in Nat
    BY <2>3, FS_CardinalityType
  <2> QED
    BY ONLY n \in Nat, <2>2, <2>3, <2>4, <2>5
<1>19. PICK p \in S : \E q \in S : p # q /\ slot[p] = slot[q]
  BY <1>17, <1>18, FS_PigeonHole, Zenon
<1>20. PICK q \in S : p # q /\ slot[p] = slot[q]
  BY <1>19
<1>21. win[p] = win[q]
  <2>1. \/ win[p] < k /\ win[q] < k
        \/ win[p] = k /\ win[q] = k
        \/ k < win[p] /\ k < win[q]
    <3>1. PICK x \in 1..n : x = slot[p] /\ x = slot[q]
      BY <1>17, <1>20
    <3>2. \/ win[p] < k /\ x \in 1..(2 * Limit - 1)
          \/ win[p] = k /\ x \in (2 * Limit)..(4 * Limit - 2)
          \/ k < win[p] /\ x \in (4 * Limit - 1)..(5 * Limit - 2)
      BY <1>16, <3>1
    <3>3. \/ win[q] < k /\ x \in 1..(2 * Limit - 1)
          \/ win[q] = k /\ x \in (2 * Limit)..(4 * Limit - 2)
          \/ k < win[q] /\ x \in (4 * Limit - 1)..(5 * Limit - 2)
      BY <1>16, <3>1
    <3> QED
      <4>1. /\ ~(x \in 1..(2 * Limit - 1) /\ x \in (2 * Limit)..(4 * Limit - 2))
            /\ ~(x \in 1..(2 * Limit - 1) /\ x \in (4 * Limit - 1)..(5 * Limit - 2))
            /\ ~(x \in (2 * Limit)..(4 * Limit - 2) /\ x \in (4 * Limit - 1)..(5 * Limit - 2))
        BY ONLY <1>0, x \in 1..n, n \in Nat
      <4> QED
        BY ONLY <4>1, <3>2, <3>3
  <2> QED
    BY <1>10, <2>1
<1>22. life[p] = life[q] /\ rank[p] = rank[q]
  <2>1. SlotOf(Side(win[p]), life[p], rank[p]) = SlotOf(Side(win[p]), life[q], rank[q])
    BY <1>20, <1>21 DEF slot
  <2>2. /\ ~(life[p] = 1 /\ life[q] = 2 /\ rank[p] = 1 /\ rank[q] = 1)
        /\ ~(life[p] = 2 /\ life[q] = 1 /\ rank[p] = 1 /\ rank[q] = 1)
    BY <1>12, <1>21
  <2>3. /\ life[p] \in {1, 2} /\ rank[p] \in 1..Limit
        /\ life[q] \in {1, 2} /\ rank[q] \in 1..Limit /\ Side(win[p]) \in Nat
    BY <1>9, <1>14
  <2>4. /\ life[p] \in LifeNo /\ rank[p] \in RankNo
        /\ life[q] \in LifeNo /\ rank[q] \in RankNo
    BY <2>3, Zenon DEF LifeNo, RankNo
  <2>5. ~FirstOfBoth(life[p], rank[p], life[q], rank[q]) /\ ~FirstOfBoth(life[q], rank[q], life[p], rank[p])
    BY <2>2, Zenon DEF FirstOfBoth
  <2>6. Side(win[p]) \in Nat
    BY <2>3, Zenon
  <2> QED
    BY ONLY <2>1, <2>4, <2>5, <2>6, SameSlot, Zenon
<1>23. p = q
  BY <1>5, <1>21, <1>22 DEF History
<1> QED
  BY <1>20, <1>23

\* For every quota, window and number of calls in flight: when no command is
\* delayed by a window or more, at most 5 * Limit - 2 calls are accepted in any
\* stretch shorter than a window (check, limiter.py: the counter is named after
\* the clock read before the call to Redis).
THEOREM DelayedBurstHolds == Spec => []DelayedBurst
<1>1. CASE MaxLag < Window
  <2>1. Init => DelayInv /\ Labelled
    BY DelayInit
  <2>2. TypeOK /\ DelayInv /\ Labelled /\ [Next]_vars => DelayInv' /\ Labelled'
    BY <1>1, DelayStep, LabelsStep
  <2>3. TypeOK /\ DelayInv /\ Labelled => DelayedBurst
    BY LabelledIsBounded DEF DelayedBurst, Labelled
  <2> QED
    BY <2>1, <2>2, <2>3, TypesHold, PTL DEF Spec
<1>2. CASE ~(MaxLag < Window)
  <2>1. DelayedBurst
    BY <1>2 DEF DelayedBurst
  <2> QED
    BY <2>1, PTL
<1> QED
  BY <1>1, <1>2
================================================================================
