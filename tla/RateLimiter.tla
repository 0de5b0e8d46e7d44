------------------------------ MODULE RateLimiter ------------------------------
(***************************************************************************)
(* RateLimiterService.consume (libs/rate-limiter/src/rate-limiter.service. *)
(* ts) for one tenant, in several processes that share one Redis: a ping,  *)
(* then the script, and the memory of the process when either fails.  The  *)
(* script over the shared keys is RateLimitScript, the memory of a process *)
(* RateLimitFallback.                                                      *)
(*                                                                         *)
(* Each process has one ioredis connection (libs/redis/src/redis.service.  *)
(* ts).  With the options given there, commands issued while it is down    *)
(* are queued, commands sent but not answered are sent again after a       *)
(* reconnection, and both are rejected when enough attempts have failed.   *)
(***************************************************************************)
EXTENDS Integers, FiniteSets

CONSTANTS
    Process,         \* API processes
    Request,         \* slots for calls of consume being handled
    Server,          \* [Request -> Process], where a slot is
    Tenant,
    Limit, WindowSeconds, TicksPerSecond,   \* as in RateLimitScript
    Lag,             \* environment: no EVAL goes on longer
    MaxClock,        \* bound: the last tick
    MaxCalls,        \* bound: calls of consume
    MaxFaults        \* bound: crashes, restarts, errors and lost connections

ASSUME LimiterAssumption ==
    /\ Limit \in Nat \ {0}
    /\ WindowSeconds \in Nat \ {0}
    /\ TicksPerSecond \in Nat \ {0}
    /\ Lag \in Nat
    /\ MaxClock \in Nat
    /\ MaxCalls \in Nat
    /\ MaxFaults \in Nat
    /\ Server \in [Request -> Process]
    /\ IsFiniteSet(Request)

VARIABLES
    clock, keys, admitted, retry,   \* as in RateLimitScript
    link,      \* per process, whether its connection to Redis is up
    memory,    \* per process, the fallback's bucket of the tenant
    req,       \* per slot, the call being handled
    answered,  \* history: per window index, callers told by Redis to go on
               \* since it last lost the key, like admitted
    forgotten, \* history: per window index, callers told to go on before
    losses,    \* history: per window index, how often Redis lost its key
    passed,    \* history: per process, callers let through from memory in
               \* the current window, whatever lives the process had in it
    crashes,   \* history: per process, its crashes in the current window
    calls,     \* history: calls of consume so far
    faults     \* history: faults so far

shared == <<clock, keys, admitted, retry>>

histories == <<answered, forgotten, losses, passed, crashes>>

vars == <<clock, keys, admitted, retry, link, memory, req, answered,
          forgotten, losses, passed, crashes, calls, faults>>

Script == INSTANCE RateLimitScript

Index == Script!Index

windowIdx(now) == Script!windowIdx(now)

\* RateLimiterFallBackService in process p.  Only its functions of the state
\* are used: the histories of RateLimitFallback are left empty.
FallBackService(p) == INSTANCE RateLimitFallback WITH
    Tenant <- {Tenant},
    Limit <- [t \in {Tenant} |-> Limit],
    WindowSeconds <- [t \in {Tenant} |-> WindowSeconds],
    buckets <- [t \in {Tenant} |-> memory[p]],
    until <- {}, used <- {}, resetAt <- {}, refusal <- {}

bucket(p) == FallBackService(p)!bucket(Tenant)

NoBucket(p) == FallBackService(p)!NoBucket

Stage ==
    {"idle",
     "ping",        \* PING is queued or sent
     "sent",        \* EVAL is queued or sent, with a reading of the clock
     "evaluated",   \* the script has run, its reply is on the way
     "failed"}      \* Redis has failed the call

NoCall == [stage |-> "idle", now |-> 0, allowed |-> FALSE]

FailedCall == [NoCall EXCEPT !.stage = "failed"]

Calls(p, stages) ==
    {r \in Request : Server[r] = p /\ req[r].stage \in stages}

-----------------------------------------------------------------------------
Init ==
    /\ Script!Init
    /\ link = [p \in Process |-> "up"]
    /\ memory = [p \in Process |-> NoBucket(p)]
    /\ req = [r \in Request |-> NoCall]
    /\ answered = [w \in Index |-> 0]
    /\ forgotten = [w \in Index |-> 0]
    /\ losses = [w \in Index |-> 0]
    /\ passed = [p \in Process |-> 0]
    /\ crashes = [p \in Process |-> 0]
    /\ calls = 0
    /\ faults = 0

\* Environment: an EVAL is answered or given up before it is older than Lag.
Tick ==
    /\ \A r \in Request :
           req[r].stage \in {"sent", "evaluated"} => clock - req[r].now < Lag
    /\ Script!Tick
    /\ IF windowIdx(clock + 1) = windowIdx(clock)
       THEN UNCHANGED <<passed, crashes>>
       ELSE /\ passed' = [p \in Process |-> 0]
            /\ crashes' = [p \in Process |-> 0]
    /\ UNCHANGED <<link, memory, req, answered, forgotten, losses, calls,
                   faults>>

(* consume *)

Consume(r) ==
    /\ calls < MaxCalls
    /\ req[r].stage = "idle"
    /\ req' = [req EXCEPT ![r].stage = "ping"]
    /\ calls' = calls + 1
    /\ UNCHANGED <<shared, link, memory, histories, faults>>

Up(r) == link[Server[r]] = "up"

\* Mutant: the clock is read once, when the service is built.
PongOldReading(r) ==
    /\ req[r].stage = "ping"
    /\ Up(r)
    /\ req' = [req EXCEPT ![r].stage = "sent"]
    /\ UNCHANGED <<shared, link, memory, histories, calls, faults>>

\* The ping is answered; Date.now() is read and the script sent at once.
Pong(r) ==
    /\ req[r].stage = "ping"
    /\ Up(r)
    /\ req' = [req EXCEPT ![r] = [@ EXCEPT !.stage = "sent", !.now = clock]]
    /\ UNCHANGED <<shared, link, memory, histories, calls, faults>>

Evaluate(r) ==
    /\ req[r].stage = "sent"
    /\ Up(r)
    /\ \/ /\ Script!Admit(req[r].now)
          /\ req' = [req EXCEPT ![r] = [@ EXCEPT !.stage = "evaluated",
                                                 !.allowed = TRUE]]
       \/ /\ Script!Refuse(req[r].now)
          /\ req' = [req EXCEPT ![r] = [@ EXCEPT !.stage = "evaluated",
                                                 !.allowed = FALSE]]
    /\ UNCHANGED <<link, memory, histories, calls, faults>>

\* Mutant: any number in the second place of the reply counts as allowed.
ReplyMisread(r) ==
    /\ req[r].stage = "evaluated"
    /\ Up(r)
    /\ answered' = [answered EXCEPT ![windowIdx(req[r].now)] = @ + 1]
    /\ req' = [req EXCEPT ![r] = NoCall]
    /\ UNCHANGED <<shared, link, memory, forgotten, losses, passed, crashes,
                   calls, faults>>

Reply(r) ==
    /\ req[r].stage = "evaluated"
    /\ Up(r)
    /\ answered' = [answered EXCEPT ![windowIdx(req[r].now)] =
           @ + IF req[r].allowed THEN 1 ELSE 0]
    /\ req' = [req EXCEPT ![r] = NoCall]
    /\ UNCHANGED <<shared, link, memory, forgotten, losses, passed, crashes,
                   calls, faults>>

\* Mutant: the bucket is opened but its count is never stored.
FallBackUncounted(r) ==
    LET p == Server[r] IN
    /\ req[r].stage = "failed"
    /\ memory' = [memory EXCEPT ![p] = bucket(p)]
    /\ passed' = [passed EXCEPT ![p] =
           @ + IF bucket(p).count < Limit THEN 1 ELSE 0]
    /\ req' = [req EXCEPT ![r] = NoCall]
    /\ UNCHANGED <<shared, link, answered, forgotten, losses, crashes, calls,
                   faults>>

\* Whatever failed, the call is charged to the memory of its process.
FallBack(r) ==
    LET p == Server[r]
        allow == IF bucket(p).count < Limit THEN 1 ELSE 0 IN
    /\ req[r].stage = "failed"
    /\ memory' = [memory EXCEPT ![p] =
           [bucket(p) EXCEPT !.count = @ + allow]]
    /\ passed' = [passed EXCEPT ![p] = @ + allow]
    /\ req' = [req EXCEPT ![r] = NoCall]
    /\ UNCHANGED <<shared, link, answered, forgotten, losses, crashes, calls,
                   faults>>

(* Faults *)

Fault == faults < MaxFaults /\ faults' = faults + 1

\* Mutant: an error reply to the ping is not caught.
RedisErrorUncaught(r) ==
    /\ Fault
    /\ req[r].stage \in {"ping", "sent"}
    /\ Up(r)
    /\ req' = [req EXCEPT ![r] =
           IF @.stage = "ping" THEN [NoCall EXCEPT !.stage = "rejected"]
           ELSE FailedCall]
    /\ UNCHANGED <<shared, link, memory, histories, calls>>

\* Redis answers with an error, before the script has written anything.
RedisError(r) ==
    /\ Fault
    /\ req[r].stage \in {"ping", "sent"}
    /\ Up(r)
    /\ req' = [req EXCEPT ![r] = FailedCall]
    /\ UNCHANGED <<shared, link, memory, histories, calls>>

\* The replies on their way to the processes P are lost, so that the scripts
\* will be sent once more.
Unanswered(P) ==
    [r \in Request |->
        IF Server[r] \in P /\ req[r].stage = "evaluated"
        THEN [req[r] EXCEPT !.stage = "sent", !.allowed = FALSE]
        ELSE req[r]]

Disconnect(p) ==
    /\ Fault
    /\ link[p] = "up"
    /\ link' = [link EXCEPT ![p] = "down"]
    /\ req' = Unanswered({p})
    /\ UNCHANGED <<shared, memory, histories, calls>>

Reconnect(p) ==
    /\ link[p] = "down"
    /\ link' = [link EXCEPT ![p] = "up"]
    /\ UNCHANGED <<shared, memory, req, histories, calls, faults>>

\* Mutant: maxRetriesPerRequest is null, queued pings wait for ever.
FlushSent(p) ==
    /\ link[p] = "down"
    /\ Calls(p, {"sent"}) # {}
    /\ req' = [r \in Request |->
           IF r \in Calls(p, {"sent"}) THEN FailedCall ELSE req[r]]
    /\ UNCHANGED <<shared, link, memory, histories, calls, faults>>

\* maxRetriesPerRequest attempts to reconnect have failed: every command of
\* the process is rejected.
Flush(p) ==
    LET pending == Calls(p, {"ping", "sent"}) IN
    /\ link[p] = "down"
    /\ pending # {}
    /\ req' = [r \in Request |->
           IF r \in pending THEN FailedCall ELSE req[r]]
    /\ UNCHANGED <<shared, link, memory, histories, calls, faults>>

\* The process dies and starts again: its callers get no answer, and its new
\* connection has still to be made.
Crash(p) ==
    /\ Fault
    /\ link' = [link EXCEPT ![p] = "down"]
    /\ memory' = [memory EXCEPT ![p] = NoBucket(p)]
    /\ crashes' = [crashes EXCEPT ![p] = @ + 1]
    /\ req' = [r \in Request |-> IF Server[r] = p THEN NoCall ELSE req[r]]
    /\ UNCHANGED <<shared, answered, forgotten, losses, passed, calls>>

RedisRestart(first) ==
    /\ Fault
    /\ Script!Restart(first)
    /\ link' = [p \in Process |-> "down"]
    /\ req' = Unanswered(Process)
    /\ answered' = [w \in Index |-> IF w < first THEN answered[w] ELSE 0]
    /\ forgotten' = [w \in Index |->
           forgotten[w] + IF w < first THEN 0 ELSE answered[w]]
    /\ losses' = [w \in Index |->
           losses[w] + IF w < first \/ admitted[w] = 0 THEN 0 ELSE 1]
    /\ UNCHANGED <<memory, passed, crashes, calls>>

-----------------------------------------------------------------------------
consume(r) == Pong(r) \/ Evaluate(r) \/ Reply(r) \/ FallBack(r)

Next ==
    \/ Tick
    \/ \E r \in Request : Consume(r) \/ consume(r) \/ RedisError(r)
    \/ \E p \in Process : Disconnect(p) \/ Reconnect(p) \/ Flush(p) \/ Crash(p)
    \/ \E first \in Index : RedisRestart(first)

Spec == Init /\ [][Next]_vars

\* Redis answers on a connection that is up, and ioredis gives up on one that
\* stays down.  Nobody promises that it ever comes up again.
FairSpec ==
    /\ Spec
    /\ \A r \in Request : WF_vars(consume(r))
    /\ \A p \in Process : WF_vars(Flush(p))

-----------------------------------------------------------------------------
(* Properties.                                                             *)

\* Every variable has its type; a bucket never counts beyond the limit.
TypeOK ==
    /\ Script!TypeOK
    /\ link \in [Process -> {"up", "down"}]
    /\ \A p \in Process :
           memory[p] \in [count: 0..Limit, windowStart: Nat] \cup {NoBucket(p)}
    /\ req \in [Request ->
                   [stage: Stage, now: 0..MaxClock, allowed: BOOLEAN]]
    /\ answered \in [Index -> Nat]
    /\ forgotten \in [Index -> Nat]
    /\ losses \in [Index -> Nat]
    /\ passed \in [Process -> Nat]
    /\ crashes \in [Process -> Nat]
    /\ calls \in 0..MaxCalls
    /\ faults \in 0..MaxFaults

\* Admissions to window w whose reply is still on its way.
InFlight(w) ==
    Cardinality({r \in Request : /\ req[r].stage = "evaluated"
                                 /\ req[r].allowed
                                 /\ windowIdx(req[r].now) = w})

\* A caller that is told to go on has been charged to its window, however
\* often commands were sent again; and without a fault each one is charged
\* exactly once and nobody is charged to the memory of a process
\* (rate-limiter.service.ts:25-42, 49-63).
ChargedAsAnswered ==
    /\ \A w \in Index : answered[w] + InFlight(w) <= admitted[w]
    /\ faults = 0 =>
           /\ \A w \in Index : answered[w] + InFlight(w) = admitted[w]
           /\ \A p \in Process : memory[p] = NoBucket(p)

\* What outages add to the quota of a window.  Redis tells the limit to go on,
\* and the limit once more each time it loses the key of the window in a
\* restart, however many commands were sent again.  The memory of a process
\* lets fewer than twice the limit through, because its windows start at any
\* time, and the limit once more each time the process dies in that window.
\* Nothing is forgotten: the callers of lost keys and earlier lives count
\* (rate-limiter.service.ts:41, 49-63, rate-limiter.fallback.ts:26-31).
OutageQuota ==
    /\ \A w \in Index :
           answered[w] + forgotten[w] <= (1 + losses[w]) * Limit
    /\ \A p \in Process : passed[p] < (2 + crashes[p]) * Limit

\* Whatever the processes, their connections and Redis itself go through, the
\* keys only ever see what RateLimitScript describes: evaluations with
\* readings no older than Lag, and restarts.
ImplementsScript == Script!Spec

\* Every call of consume is answered, even if Redis never comes back.
EveryConsumeAnswered ==
    \A r \in Request : req[r].stage # "idle" ~> req[r].stage = "idle"

==============================================================================
