-------------------------- MODULE RateLimitFallback --------------------------
(***************************************************************************)
(* RateLimiterFallBackService.consume: the in-memory quota of one process, *)
(* used while Redis is out of reach                                        *)
(* (libs/rate-limiter/src/rate-limiter.fallback.ts).  The method never     *)
(* awaits, so a call is one action.  Every tenant has its own plan, and    *)
(* opening a bucket sweeps the map with the caller's window.               *)
(***************************************************************************)
EXTENDS Integers

CONSTANTS
    Tenant,
    Limit,           \* [Tenant -> Nat \ {0}], from the tenant's plan
    WindowSeconds,   \* [Tenant -> Nat \ {0}], from the tenant's plan
    TicksPerSecond,  \* clock readings per second
    MaxClock         \* bound: the last tick

ASSUME FallbackAssumption ==
    /\ Limit \in [Tenant -> Nat \ {0}]
    /\ WindowSeconds \in [Tenant -> Nat \ {0}]
    /\ TicksPerSecond \in Nat \ {0}
    /\ MaxClock \in Nat

VARIABLES
    clock,     \* Date.now(), taken to be monotone
    buckets,   \* the map, with NoBucket for a missing key
    until,     \* history: end of the window the last response spoke of
    used,      \* history: requests admitted in that window
    resetAt,   \* history: resetAt of the last response, in seconds
    refusal    \* history: when the last refusal was, and when it said to retry

vars == <<clock, buckets, until, used, resetAt, refusal>>

Bucket == [count: Nat, windowStart: Nat]

NoBucket == [count |-> 0, windowStart |-> -1]

windowMs(t) == WindowSeconds[t] * TicksPerSecond

CeilSeconds(ms) == (ms + TicksPerSecond - 1) \div TicksPerSecond

-----------------------------------------------------------------------------
\* Mutant: a missing bucket is not asked about.
ExpiredOnly(t) == clock >= buckets[t].windowStart + windowMs(t)

\* No bucket, or its window is over by the caller's own window length.
Expired(t) ==
    \/ buckets[t] = NoBucket
    \/ clock >= buckets[t].windowStart + windowMs(t)

bucket(t) == IF Expired(t) THEN [count |-> 0, windowStart |-> clock]
                           ELSE buckets[t]

\* Mutant: the sweep forgets to add the window length.
SweptEarly(t) ==
    [k \in Tenant |->
        IF Expired(t) /\ clock >= buckets[k].windowStart
        THEN NoBucket ELSE buckets[k]]

\* The sweep judges the bucket of every tenant by the window of the caller t.
Swept(t) ==
    [k \in Tenant |->
        IF Expired(t) /\ clock >= buckets[k].windowStart + windowMs(t)
        THEN NoBucket ELSE buckets[k]]

End(t) == bucket(t).windowStart + windowMs(t)

\* Mutant: rounded down.
retryAfterFloor(t) == (End(t) - clock) \div TicksPerSecond

\* Math.max(1, Math.ceil(...)); the difference is positive for a live bucket.
retryAfter(t) ==
    LET s == CeilSeconds(End(t) - clock) IN IF s < 1 THEN 1 ELSE s

\* What a response tells the client about its window.
Announce(t, admitted) ==
    /\ until' = [until EXCEPT ![t] = IF clock < @ THEN @ ELSE End(t)]
    /\ used' = [used EXCEPT ![t] =
           (IF clock < until[t] THEN @ ELSE 0) + admitted]
    /\ resetAt' = [resetAt EXCEPT ![t] = End(t) \div TicksPerSecond]

Init ==
    /\ clock = 0
    /\ buckets = [t \in Tenant |-> NoBucket]
    /\ until = [t \in Tenant |-> 0]
    /\ used = [t \in Tenant |-> 0]
    /\ resetAt = [t \in Tenant |-> 0]
    /\ refusal = [t \in Tenant |-> [at |-> 0, due |-> 0]]

Tick ==
    /\ clock < MaxClock
    /\ clock' = clock + 1
    /\ UNCHANGED <<buckets, until, used, resetAt, refusal>>

Admit(t) ==
    /\ bucket(t).count < Limit[t]
    /\ buckets' = [Swept(t) EXCEPT ![t] =
           [bucket(t) EXCEPT !.count = @ + 1]]
    /\ Announce(t, 1)
    /\ UNCHANGED <<clock, refusal>>

Refuse(t) ==
    /\ bucket(t).count >= Limit[t]
    /\ buckets' = [Swept(t) EXCEPT ![t] = bucket(t)]
    /\ Announce(t, 0)
    /\ refusal' = [refusal EXCEPT ![t] =
           [at |-> clock, due |-> clock + retryAfter(t) * TicksPerSecond]]
    /\ UNCHANGED clock

consume(t) == Admit(t) \/ Refuse(t)

Next == Tick \/ \E t \in Tenant : consume(t)

Spec == Init /\ [][Next]_vars

-----------------------------------------------------------------------------
(* Properties.                                                             *)

\* Every variable has its type (rate-limiter.interface.ts:26-29).
TypeOK ==
    /\ clock \in 0..MaxClock
    /\ buckets \in [Tenant -> Bucket \cup {NoBucket}]
    /\ until \in [Tenant -> Nat]
    /\ used \in [Tenant -> Nat]
    /\ resetAt \in [Tenant -> Nat]
    /\ refusal \in [Tenant -> [at: Nat, due: Nat]]

\* Tenants whose window no other tenant's is shorter than.
Shortest == {t \in Tenant : \A c \in Tenant : windowMs(t) <= windowMs(c)}

\* A tenant of the shortest window is admitted at most Limit times between
\* the start and the end of any window it was told of, however the calls of
\* other tenants and their sweeps fall in between (rate-limiter.fallback.ts:
\* 19-34).
QuotaKept == \A t \in Shortest : used[t] <= Limit[t]

\* A client that waits as long as retryAfter says is refused again only if a
\* window that opened since its refusal has been used up meanwhile: rounding
\* to seconds never sends it back too early (rate-limiter.fallback.ts:45-48).
RetryHonoured ==
    \A t \in Tenant :
        /\ refusal[t].due > 0
        /\ clock >= refusal[t].due
        /\ bucket(t).count >= Limit[t]
        => bucket(t).windowStart >= refusal[t].at

-----------------------------------------------------------------------------
(* Why the properties hold.                                                *)

\* What a tenant of the shortest window was told is what its bucket says.
BucketAsTold(t) ==
    /\ ~Expired(t) <=> clock < until[t]
    /\ ~Expired(t) => /\ until[t] = End(t)
                      /\ used[t] = buckets[t].count
    /\ used[t] <= Limit[t]

\* A bucket older than the last refusal ends by the time given to retry.
RefusalCoversBucket(t) ==
    /\ refusal[t].at <= clock
    /\ buckets[t] # NoBucket =>
           /\ buckets[t].windowStart <= clock
           /\ buckets[t].windowStart < refusal[t].at
              => buckets[t].windowStart + windowMs(t) <= refusal[t].due

Inv ==
    /\ TypeOK
    /\ \A t \in Shortest : BucketAsTold(t)
    /\ \A t \in Tenant : RefusalCoversBucket(t)

-----------------------------------------------------------------------------
(* What the repository's words say and the code does not do.               *)

\* rate-limiter.interface.ts:4, "total quota for this window": no tenant is
\* admitted more often than its limit in one window.
QuotaOfEveryTenant == \A t \in Tenant : used[t] <= Limit[t]

==============================================================================
