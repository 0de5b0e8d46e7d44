--------------------------- MODULE RateLimitScript ---------------------------
(***************************************************************************)
(* RATE_LIMIT_LUA_SCRIPT (libs/rate-limiter/src/rate-limiter.constants.ts) *)
(* over the keys of one tenant, and what executeLuaScript                  *)
(* (rate-limiter.service.ts) tells a refused caller.  Redis runs a script  *)
(* in one piece, so an evaluation is one action.  The caller reads its     *)
(* clock before it sends: an evaluation may use a reading up to Lag ticks  *)
(* old, and callers of several processes overtake each other.  When Redis  *)
(* restarts, it comes up with the keys of its last snapshot, if any; the   *)
(* histories below then forget what it has forgotten.                      *)
(***************************************************************************)
EXTENDS Integers

CONSTANTS
    Limit,           \* requests per window, from the tenant's plan
    WindowSeconds,   \* from the tenant's plan
    TicksPerSecond,  \* clock readings per second
    Lag,             \* age of the oldest clock reading that Redis may be sent
    MaxClock         \* bound: the last tick

ASSUME ScriptAssumption ==
    /\ Limit \in Nat \ {0}
    /\ WindowSeconds \in Nat \ {0}
    /\ TicksPerSecond \in Nat \ {0}
    /\ Lag \in Nat
    /\ MaxClock \in Nat

windowMs == WindowSeconds * TicksPerSecond

VARIABLES
    clock,      \* the time at Redis
    keys,       \* per window index, the value of its key and when it expires
    admitted,   \* history: per window index, the requests admitted to it
                \* since Redis last lost its key
    retry       \* history: when the last refused caller was told to retry,
                \* 0 once a request was admitted or Redis restarted

vars == <<clock, keys, admitted, retry>>

windowIdx(now) == now \div windowMs

Index == 0..windowIdx(MaxClock)

GET(w) == IF w \in Index /\ clock < keys[w].expireAt THEN keys[w].count ELSE 0

currCount(now) == GET(windowIdx(now))

prevCount(now) == GET(windowIdx(now) - 1)

\* Mutant: the previous window weighs more as time passes.
weightedUpside(now) ==
    prevCount(now) * (now % windowMs) + currCount(now) * windowMs

\* The estimate of the sliding window, times windowMs.
weighted(now) ==
    prevCount(now) * (windowMs - (now % windowMs)) + currCount(now) * windowMs

\* Mutant: the test is "at most", not "less than".
AtLimit(now) == weighted(now) = Limit * windowMs

\* The script computes in floating point: just at the limit, a share of the
\* previous window may come out a little too small, and the test then passes.
RoundsDown(now) ==
    /\ weighted(now) = Limit * windowMs
    /\ prevCount(now) > 0
    /\ now % windowMs > 0

keyLife == windowMs * 2

\* Mutant: the operands swapped.
ttlSwapped(now) == (now % windowMs) - windowMs

ttl(now) == windowMs - (now % windowMs)

\* Mutant: rounded down.
retryAfterFloor(now) == ttl(now) \div TicksPerSecond

\* Math.max(1, Math.ceil(ttl / 1000)); ttl is positive, so the max is idle.
retryAfter(now) == (ttl(now) + TicksPerSecond - 1) \div TicksPerSecond

-----------------------------------------------------------------------------
NoKey == [count |-> 0, expireAt |-> 0]

Init ==
    /\ clock = 0
    /\ keys = [w \in Index |-> NoKey]
    /\ admitted = [w \in Index |-> 0]
    /\ retry = 0

Tick ==
    /\ clock < MaxClock
    /\ clock' = clock + 1
    /\ UNCHANGED <<keys, admitted, retry>>

\* INCR and PEXPIRE of the current key.
Admit(now) ==
    /\ weighted(now) < Limit * windowMs \/ RoundsDown(now)
    /\ keys' = [keys EXCEPT ![windowIdx(now)] =
           [count |-> currCount(now) + 1, expireAt |-> clock + keyLife]]
    /\ admitted' = [admitted EXCEPT ![windowIdx(now)] = @ + 1]
    /\ retry' = 0
    /\ UNCHANGED clock

Refuse(now) ==
    /\ weighted(now) >= Limit * windowMs
    /\ retry' = clock + retryAfter(now) * TicksPerSecond
    /\ UNCHANGED <<clock, keys, admitted>>

\* Redis comes up again with a snapshot that was taken between two windows:
\* the keys of the windows from first on are lost.
Restart(first) ==
    /\ keys' = [w \in Index |-> IF w < first THEN keys[w] ELSE NoKey]
    /\ admitted' = [w \in Index |-> IF w < first THEN admitted[w] ELSE 0]
    /\ retry' = 0
    /\ UNCHANGED clock

\* The readings that an evaluation may come with.
Readings == {now \in 0..clock : clock - now <= Lag}

Next ==
    \/ Tick
    \/ \E first \in Index : Restart(first)
    \/ \E now \in Readings : Admit(now) \/ Refuse(now)

Spec == Init /\ [][Next]_vars

-----------------------------------------------------------------------------
(* Properties.                                                             *)

\* Every variable has its type.
TypeOK ==
    /\ clock \in 0..MaxClock
    /\ keys \in [Index -> [count: Nat, expireAt: Nat]]
    /\ admitted \in [Index -> Nat]
    /\ retry \in Nat

\* No more than Limit requests are admitted to one window, unless Redis lost
\* its key in a restart: although the key expires and evaluations arrive late,
\* it outlives every evaluation that still counts on it, as long as no reading
\* is older than a window (rate-limiter.constants.ts:54-68).
WindowQuota == \A w \in Index : admitted[w] <= Limit

\* A full window does not free a full quota at its end: what the current
\* window has admitted, but for the last request, and the share of the
\* previous window that has not slid out yet make no more than Limit
\* (rate-limiter.constants.ts:57-63).
NoBurstAtBoundary ==
    LET w == windowIdx(clock) IN
    w > 0 /\ admitted[w] > 0 =>
        admitted[w - 1] * ttl(clock) + (admitted[w] - 1) * windowMs
            <= Limit * windowMs

\* A refused caller that waits longer than retryAfter is admitted, if nobody
\* was meanwhile (rate-limiter.service.ts:78-80).  At that moment itself it may
\* still be refused, for there the previous window weighs in full.
WaitingHelps ==
    retry > 0 /\ clock > retry => weighted(clock) < Limit * windowMs

-----------------------------------------------------------------------------
(* Why the properties hold.                                                *)

\* A key that was ever incremented holds its window's count and is kept until
\* the window after it is over.
KeyExact(w) ==
    IF admitted[w] = 0
    THEN keys[w].expireAt = 0
    ELSE /\ keys[w].count = admitted[w]
         /\ keys[w].expireAt >= (w + 2) * windowMs

QuotaInv ==
    /\ TypeOK
    /\ \A w \in Index : KeyExact(w)
    /\ WindowQuota

\* Nothing is admitted to a window before it starts.
NoFuture == \A w \in Index : admitted[w] > 0 => w <= windowIdx(clock)

\* A caller is told to come back when every window in use is over.
RetryAfterWindows ==
    retry > 0 =>
        \A w \in Index : admitted[w] > 0 => (w + 1) * windowMs <= retry

\* Holds when every reading is current (Lag = 0).
Inv == QuotaInv /\ NoFuture /\ RetryAfterWindows /\ NoBurstAtBoundary

==============================================================================
