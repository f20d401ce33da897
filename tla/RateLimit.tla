----------------------------- MODULE RateLimit ------------------------------
(***************************************************************************)
(* The token bucket of middleware/middleware.go.  Tokens are counted in    *)
(* 1/Minute of a request, so that a second refills RequestsPerMinute of    *)
(* them and a request costs Minute; the code counts them in float64.  The  *)
(* mutex makes a request one step.  The sweeper drops a bucket that was    *)
(* idle, and its key starts again with a full one.                         *)
(***************************************************************************)
EXTENDS Integers, Sequences, Records

CONSTANTS
    ClientIPs,              \* what KeyFunc returns
    Minute,                 \* seconds (60)
    RequestsPerMinute,      \* cfg.RequestsPerMinute
    Burst,                  \* cfg.Burst
    SweepEvery,             \* seconds between ticks of the sweeper (600)
    IdleLimit,              \* seconds after which it drops a bucket (1800)
    MaxClock                \* bound: the clock

maxTokens == Minute * (RequestsPerMinute + Burst)

\* A bucket that is dropped would be full again (1800 * 100 >= 60 * 120 by default).
ASSUME RateLimitAssumption ==
    /\ {Minute, RequestsPerMinute, SweepEvery} \subseteq Nat \ {0}
    /\ {Burst, IdleLimit, MaxClock} \subseteq Nat
    /\ IdleLimit * RequestsPerMinute >= maxTokens
    /\ None \notin [tokens : 0..maxTokens, lastRefill : 0..MaxClock]

VARIABLES
    clock,      \* seconds since the start
    buckets,    \* per key None or its bucket
    granted     \* history: per key the times at which requests were let through

rateVars == <<clock, buckets, granted>>

RateInit ==
    /\ clock = 0
    /\ buckets = [k \in ClientIPs |-> None]
    /\ granted = [k \in ClientIPs |-> <<>>]

min(a, b) == IF a < b THEN a ELSE b

\* Mistake: the refill is not capped.
RefillUncapped(k) ==
    IF buckets[k] = None THEN maxTokens
    ELSE buckets[k].tokens + (clock - buckets[k].lastRefill) * RequestsPerMinute

\* What the bucket of k holds now; a new one is full.
Refill(k) ==
    IF buckets[k] = None THEN maxTokens
    ELSE min(maxTokens, buckets[k].tokens + (clock - buckets[k].lastRefill) * RequestsPerMinute)

RateTick == clock < MaxClock /\ clock' = clock + 1 /\ UNCHANGED <<buckets, granted>>

\* A request goes through ...
Grant(k) ==
    /\ Refill(k) >= Minute
    /\ buckets' = [buckets EXCEPT ![k] = [tokens |-> Refill(k) - Minute, lastRefill |-> clock]]
    /\ granted' = [granted EXCEPT ![k] = Append(@, clock)]
    /\ UNCHANGED clock

\* ... or is answered with 429.
Refuse(k) ==
    /\ Refill(k) < Minute
    /\ buckets' = [buckets EXCEPT ![k] = [tokens |-> Refill(k), lastRefill |-> clock]]
    /\ UNCHANGED <<clock, granted>>

Idle(k) == buckets[k] # None /\ clock - buckets[k].lastRefill > IdleLimit

\* A tick of the sweeper.
Sweep ==
    /\ clock > 0 /\ clock % SweepEvery = 0
    /\ buckets' = [k \in ClientIPs |-> IF Idle(k) THEN None ELSE buckets[k]]
    /\ UNCHANGED <<clock, granted>>

RateNext ==
    \/ RateTick \/ Sweep
    \/ \E k \in ClientIPs : Grant(k) \/ Refuse(k)

RateSpec == RateInit /\ [][RateNext]_rateVars

-----------------------------------------------------------------------------
\* Properties.

RateTypeOK ==
    /\ clock \in 0..MaxClock
    /\ buckets \in [ClientIPs -> [tokens : 0..maxTokens, lastRefill : 0..MaxClock] \cup {None}]
    /\ granted \in [ClientIPs -> Seq(0..MaxClock)]
    /\ \A k \in ClientIPs :
          buckets[k] # None => buckets[k].lastRefill <= clock

\* What the i-th and all later requests of k have left of the budget that
\* opened with the i-th.
Window(k, i) ==
    maxTokens + RequestsPerMinute * (clock - granted[k][i])
              - Minute * (Len(granted[k]) - i + 1)

\* The limiter is exact: in no window of time, wherever it starts and whatever
\* the sweeper did, does a client get more than the burst plus the rate, and a
\* request is refused only if it would exceed that in some window.
RateIsExact ==
    \A k \in ClientIPs :
        /\ \A i \in 1..Len(granted[k]) : Window(k, i) >= 0
        /\ Refill(k) < Minute => \E i \in 1..Len(granted[k]) : Window(k, i) < Minute

\* Between two requests a bucket holds what the tightest window of its client
\* has left, or all it can.
RateInv ==
    /\ RateTypeOK
    /\ \A k \in ClientIPs :
          /\ \A i \in 1..Len(granted[k]) : Window(k, i) >= Refill(k)
          /\ Refill(k) = maxTokens \/ \E i \in 1..Len(granted[k]) : Window(k, i) = Refill(k)
=============================================================================
