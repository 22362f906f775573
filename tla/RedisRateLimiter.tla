---------------------------- MODULE RedisRateLimiter ----------------------------
(***************************************************************************)
(* RedisRateLimiter (app/ratelimit/limiter.py): one counter per key and    *)
(* wall-clock window, shared by every process.  A call reads the clock,    *)
(* awaits INCR and, if it was the first of its counter, awaits EXPIRE; the *)
(* clock runs and other calls interleave at each await.  Redis itself is   *)
(* external: INCR is atomic and creates the counter, a counter disappears  *)
(* when its time to live is over.  One "tenant:user:scope" key is enough:  *)
(* two keys share nothing.                                                 *)
(***************************************************************************)
EXTENDS RateLimiter, Sequences, FiniteSets

CONSTANTS
  Caller,    \* requests in flight, in any process
  MaxLag,    \* bound: how long after reading the clock a call's command may reach Redis
  MaxTime,   \* bound: where the clock stops
  MaxAborts  \* bound: calls that stop between two awaits

ASSUME BoundsAssumption == MaxLag \in Nat /\ MaxTime \in Nat /\ MaxAborts \in Nat

VARIABLES
  counters,   \* Redis: for each window, its counter and when it expires
  call,       \* the calls in flight
  accepted,   \* history: when INCR let a call through, in order
  late,       \* history: a command has reached Redis after the second its call began in
  aborts

vars == <<now, counters, call, accepted, late, aborts>>

Never == MaxTime + Window + 1     \* a counter without time to live
Gone == [count |-> 0, expires |-> Never]

\* Mutant: every second has its own counter.
SecondOf(t) == t

WindowOf(t) == t - (t % Window)
WindowStart == {WindowOf(t) : t \in 0..MaxTime}

IdleCall == [pc |-> "idle", at |-> 0]

\* The values the variables take (proved in RedisLimiterProofs).
TypeOK ==
  /\ now \in 0..MaxTime
  /\ counters \in [WindowStart -> [count : 0..(Limit + 1), expires : 0..Never]]
  /\ call \in [Caller -> [pc : {"idle", "incr", "expire"}, at : 0..MaxTime]]
  /\ accepted \in Seq(0..MaxTime)
  /\ late \in BOOLEAN
  /\ aborts \in 0..MaxAborts

Init ==
  /\ now = 0
  /\ counters = [w \in WindowStart |-> Gone]
  /\ call = [c \in Caller |-> IdleCall]
  /\ accepted = <<>>
  /\ late = FALSE
  /\ aborts = 0

--------------------------------------------------------------------------------

\* check: the clock is read, which fixes the counter.
ReadClock(c) ==
  /\ call[c].pc = "idle"
  /\ call' = [call EXCEPT ![c] = [pc |-> "incr", at |-> now]]
  /\ UNCHANGED <<now, counters, accepted, late, aborts>>

\* Mutant: INCR's result is taken for the count before the call.
FirstBefore(count) == count = 0

\* INCR returns the count with this call; the first call sets the expiry.
First(count) == count = 1

\* INCR, and the verdict on the count it returns.  A call refused has been
\* counted all the same (past Limit + 1 the count tells nothing more apart).
Incr(c) ==
  /\ call[c].pc = "incr"
  /\ LET w == WindowOf(call[c].at)
         count == IF counters[w].count > Limit THEN Limit + 1 ELSE counters[w].count + 1 IN
       /\ counters' = [counters EXCEPT ![w].count = count]
       /\ accepted' = IF count > Limit THEN accepted ELSE Append(accepted, now)
       /\ call' = [call EXCEPT ![c] = IF First(count) THEN [@ EXCEPT !.pc = "expire"] ELSE IdleCall]
  /\ late' = (late \/ now > call[c].at)
  /\ UNCHANGED <<now, aborts>>

\* Mutant: the counter is gone a second later.
OneSecond == 1

\* The time to live EXPIRE sets.
Lifetime == Window

\* EXPIRE: the counter lives for window_seconds from now, not from its start.
Expire(c) ==
  /\ call[c].pc = "expire"
  /\ LET w == WindowOf(call[c].at) IN
       counters' = IF counters[w].count = 0 THEN counters
                   ELSE [counters EXCEPT ![w].expires = now + Lifetime]
  /\ call' = [call EXCEPT ![c] = IdleCall]
  /\ late' = (late \/ now > call[c].at)
  /\ UNCHANGED <<now, accepted, aborts>>

\* The process stops, or the connection is lost, before the next command.
Abort(c) ==
  /\ call[c].pc # "idle"
  /\ aborts < MaxAborts
  /\ aborts' = aborts + 1
  /\ call' = [call EXCEPT ![c] = IdleCall]
  /\ UNCHANGED <<now, counters, accepted, late>>

\* The clock moves on; Redis drops what has expired.
Tick ==
  /\ now < MaxTime
  /\ \A c \in Caller : call[c].pc # "idle" => now - call[c].at < MaxLag
  /\ now' = now + 1
  /\ counters' = [w \in WindowStart |-> IF counters[w].expires <= now + 1 THEN Gone ELSE counters[w]]
  /\ UNCHANGED <<call, accepted, late, aborts>>

Next == Tick \/ \E c \in Caller : ReadClock(c) \/ Incr(c) \/ Expire(c) \/ Abort(c)

Spec == Init /\ [][Next]_vars

--------------------------------------------------------------------------------

\* Less than n + 1 calls are accepted in any stretch shorter than Window.
AtMostPerWindow(n) ==
  \A i \in 1..Len(accepted) : i + n <= Len(accepted) => accepted[i + n] - accepted[i] >= Window

\* As long as every command reaches Redis in the second its call began in, a
\* burst over a window boundary exceeds the limit by a factor of two at most.
DoubleBurst == ~late => AtMostPerWindow(2 * Limit)

\* A command delayed past the expiry of its counter starts that counter again.
\* With delays shorter than the window, a window's counter can be started twice,
\* and the calls of three windows can be accepted in less than one: both
\* counters of the first two, each less its first call, and one counter of the
\* third, never more.
DelayedBurst == MaxLag < Window => AtMostPerWindow(5 * Limit - 2)

\* Counters without a time to live that no call is about to give one.
Stranded ==
  {w \in WindowStart :
     /\ counters[w].count > 0 /\ counters[w].expires = Never
     /\ \A c \in Caller : ~(call[c].pc = "expire" /\ WindowOf(call[c].at) = w)}

\* INCR and EXPIRE are two commands, and a counter whose first call stops between them
\* stays in Redis for good: one for each call that stops, and never for another reason.
CountersExpire == Cardinality(Stranded) <= aborts
================================================================================
