----------------------- MODULE RateLimitFallbackProofs -----------------------
(***************************************************************************)
(* Proofs about RateLimitFallback, for any tenants and plans.              *)
(***************************************************************************)
EXTENDS RateLimitFallback, TLAPS

LEMMA WindowType ==
    ASSUME NEW t \in Tenant
    PROVE  windowMs(t) \in Nat \ {0}
<1>1. WindowSeconds[t] \in Nat \ {0} /\ TicksPerSecond \in Nat \ {0}
  BY FallbackAssumption
<1>2. \A i, j \in Nat \ {0} : i * j \in Nat \ {0}
  BY SMTT(30)
<1> QED
  BY <1>1, <1>2 DEF windowMs

\* Rounding up to seconds never shortens a wait.
LEMMA CeilCovers ==
    ASSUME NEW d \in Nat
    PROVE  CeilSeconds(d) \in Nat /\ d <= CeilSeconds(d) * TicksPerSecond
BY FallbackAssumption, SMTT(30) DEF CeilSeconds

LEMMA NoBucketIsNone == NoBucket \notin Bucket
BY DEF NoBucket, Bucket

\* The bucket a call works on.
LEMMA BucketTyped ==
    ASSUME TypeOK, NEW t \in Tenant
    PROVE  /\ bucket(t) \in Bucket
           /\ End(t) = bucket(t).windowStart + windowMs(t)
           /\ End(t) \in Nat
           /\ clock < End(t)
<1>1. bucket(t) \in Bucket
  BY DEF TypeOK, bucket, Expired, Bucket
<1>2. clock < bucket(t).windowStart + windowMs(t)
  BY <1>1, WindowType DEF TypeOK, bucket, Expired, Bucket, NoBucket
<1> QED
  BY <1>1, <1>2, WindowType DEF End, Bucket

LEMMA RetryCovers ==
    ASSUME TypeOK, NEW t \in Tenant
    PROVE  /\ clock + retryAfter(t) * TicksPerSecond \in Nat
           /\ End(t) <= clock + retryAfter(t) * TicksPerSecond
<1> DEFINE d == End(t) - clock
<1>1. d \in Nat
  BY BucketTyped DEF TypeOK
<1>2. CeilSeconds(d) \in Nat /\ d <= CeilSeconds(d) * TicksPerSecond
  BY <1>1, CeilCovers
<1>3. retryAfter(t) \in Nat /\ CeilSeconds(d) <= retryAfter(t)
  BY <1>2 DEF retryAfter
<1>4. \A i, j \in Nat : i <= j => i * TicksPerSecond <= j * TicksPerSecond
  BY FallbackAssumption, SMTT(30)
<1>5. d <= retryAfter(t) * TicksPerSecond
  <2>1. CeilSeconds(d) * TicksPerSecond <= retryAfter(t) * TicksPerSecond
    BY <1>2, <1>3, <1>4
  <2>2. CeilSeconds(d) * TicksPerSecond \in Nat
        /\ retryAfter(t) * TicksPerSecond \in Nat
    BY <1>2, <1>3, FallbackAssumption
  <2> QED
    BY <1>1, <1>2, <2>1, <2>2
<1>6. retryAfter(t) * TicksPerSecond \in Nat
  BY <1>3, FallbackAssumption
<1>7. End(t) \in Nat /\ clock \in Nat
  BY BucketTyped DEF TypeOK
<1> QED
  BY <1>3, <1>5, <1>6, <1>7

\* What a call leaves of the map and of the histories, for each tenant.
LEMMA ConsumeStep ==
    ASSUME TypeOK, NEW c \in Tenant, consume(c)
    PROVE  /\ clock' = clock
           /\ buckets' \in [Tenant -> Bucket \cup {NoBucket}]
           /\ buckets'[c].windowStart = bucket(c).windowStart
           /\ \/ /\ bucket(c).count < Limit[c]
                 /\ buckets'[c] = [bucket(c) EXCEPT !.count = @ + 1]
                 /\ Announce(c, 1)
                 /\ refusal' = refusal
              \/ /\ bucket(c).count >= Limit[c]
                 /\ buckets'[c] = bucket(c)
                 /\ Announce(c, 0)
                 /\ refusal' = [refusal EXCEPT ![c] = [at |-> clock,
                        due |-> clock + retryAfter(c) * TicksPerSecond]]
           /\ \A t \in Tenant \ {c} :
                 buckets'[t] = buckets[t] \/
                 /\ clock >= buckets[t].windowStart + windowMs(c)
                 /\ buckets'[t] = NoBucket
<1>1. bucket(c) \in Bucket
  BY BucketTyped
<1>2. /\ Swept(c) \in [Tenant -> Bucket \cup {NoBucket}]
      /\ \A t \in Tenant :
            Swept(c)[t] = buckets[t] \/
            (clock >= buckets[t].windowStart + windowMs(c) /\ Swept(c)[t] = NoBucket)
  BY DEF Swept, TypeOK
<1>3. CASE Admit(c)
  <2>1. [bucket(c) EXCEPT !.count = @ + 1] \in Bucket
        /\ [bucket(c) EXCEPT !.count = @ + 1].windowStart = bucket(c).windowStart
    BY <1>1 DEF Bucket
  <2>2. buckets' = [Swept(c) EXCEPT ![c] = [bucket(c) EXCEPT !.count = @ + 1]]
    BY <1>3 DEF Admit
  <2> QED
    BY <1>2, <1>3, <2>1, <2>2 DEF Admit
<1>4. CASE Refuse(c)
  BY <1>1, <1>2, <1>4 DEF Refuse
<1> QED
  BY <1>3, <1>4 DEF consume

-----------------------------------------------------------------------------
(* The invariant.                                                          *)

LEMMA TypeStep ==
    ASSUME TypeOK, [Next]_vars
    PROVE  TypeOK'
<1>1. CASE UNCHANGED vars
  BY <1>1 DEF vars, TypeOK
<1>2. CASE Tick
  BY <1>2, FallbackAssumption DEF Tick, TypeOK
<1>3. ASSUME NEW c \in Tenant, consume(c)
      PROVE  TypeOK'
  <2>1. End(c) \in Nat /\ End(c) \div TicksPerSecond \in Nat
    BY BucketTyped, FallbackAssumption
  <2>2. clock + retryAfter(c) * TicksPerSecond \in Nat
    BY RetryCovers
  <2>3. ASSUME NEW n \in {0, 1}, Announce(c, n)
        PROVE  /\ until' \in [Tenant -> Nat]
               /\ used' \in [Tenant -> Nat]
               /\ resetAt' \in [Tenant -> Nat]
    BY <2>1, <2>3 DEF Announce, TypeOK
  <2>4. refusal' \in [Tenant -> [at: Nat, due: Nat]]
    <3>1. \/ refusal' = refusal
          \/ refusal' = [refusal EXCEPT ![c] = [at |-> clock,
                 due |-> clock + retryAfter(c) * TicksPerSecond]]
      BY <1>3, ConsumeStep
    <3>2. [at |-> clock, due |-> clock + retryAfter(c) * TicksPerSecond]
             \in [at: Nat, due: Nat]
      BY <2>2 DEF TypeOK
    <3> QED
      BY <3>1, <3>2 DEF TypeOK
  <2> QED
    BY <1>3, <2>3, <2>4, ConsumeStep DEF TypeOK
<1> QED
  BY <1>1, <1>2, <1>3 DEF Next

LEMMA RefusalStep ==
    ASSUME Inv, [Next]_vars, NEW t \in Tenant
    PROVE  RefusalCoversBucket(t)'
<1>1. TypeOK /\ TypeOK' /\ RefusalCoversBucket(t)
  BY TypeStep DEF Inv
<1>2. CASE UNCHANGED vars
  BY <1>1, <1>2 DEF vars, RefusalCoversBucket
<1>3. CASE Tick
  BY <1>1, <1>3, WindowType DEF Tick, RefusalCoversBucket, TypeOK, Bucket, NoBucket
<1>4. ASSUME NEW c \in Tenant, consume(c), c # t
      PROVE  RefusalCoversBucket(t)'
  <2>1. /\ clock' = clock
        /\ refusal'[t] = refusal[t]
        /\ buckets'[t] = buckets[t] \/ buckets'[t] = NoBucket
    BY <1>1, <1>4, ConsumeStep DEF TypeOK
  <2> QED
    BY <1>1, <2>1 DEF RefusalCoversBucket
<1>5. ASSUME consume(t)
      PROVE  RefusalCoversBucket(t)'
  <2> DEFINE b == bucket(t)
             w == windowMs(t)
  <2>1. /\ b \in Bucket /\ w \in Nat /\ clock \in Nat
        /\ b.windowStart \in Nat
        /\ refusal[t].at \in Nat /\ refusal[t].due \in Nat
    BY <1>1, BucketTyped, WindowType DEF TypeOK, Bucket
  <2>2. b.windowStart <= clock /\ refusal[t].at <= clock
    BY <1>1, <2>1 DEF RefusalCoversBucket, bucket, Expired
  <2>3. b.windowStart < refusal[t].at => b.windowStart + w <= refusal[t].due
    BY <1>1, <2>1 DEF RefusalCoversBucket, bucket, Expired
  <2>4. clock' = clock /\ buckets'[t].windowStart = b.windowStart
    BY <1>1, <1>5, ConsumeStep
  <2>5. \/ refusal'[t] = refusal[t]
        \/ refusal'[t] = [at |-> clock,
                          due |-> clock + retryAfter(t) * TicksPerSecond]
    BY <1>1, <1>5, ConsumeStep DEF TypeOK
  <2>6. b.windowStart + w <= clock + retryAfter(t) * TicksPerSecond
    BY <1>1, RetryCovers, BucketTyped
  <2> HIDE DEF b, w
  <2>7. refusal'[t].at <= clock'
    BY <2>1, <2>2, <2>4, <2>5
  <2>8. buckets'[t].windowStart < refusal'[t].at
        => buckets'[t].windowStart + w <= refusal'[t].due
    BY <2>3, <2>4, <2>5, <2>6
  <2> QED
    BY <2>2, <2>4, <2>7, <2>8 DEF RefusalCoversBucket, w, windowMs
<1> QED
  BY <1>2, <1>3, <1>4, <1>5 DEF Next

LEMMA ToldStep ==
    ASSUME Inv, [Next]_vars, NEW t \in Shortest
    PROVE  BucketAsTold(t)'
<1>1. /\ TypeOK /\ TypeOK' /\ t \in Tenant
      /\ BucketAsTold(t)
      /\ windowMs(t) \in Nat \ {0}
      /\ Limit[t] \in Nat \ {0}
  BY TypeStep, WindowType, FallbackAssumption DEF Inv, Shortest
<1>2. CASE UNCHANGED vars
  BY <1>1, <1>2 DEF vars, BucketAsTold, Expired, End, bucket, windowMs
<1>3. CASE Tick
  <2>1. /\ clock' = clock + 1
        /\ UNCHANGED <<buckets, until, used>>
    BY <1>3 DEF Tick
  <2>2. CASE Expired(t)
    BY <1>1, <2>1, <2>2
       DEF BucketAsTold, Expired, End, bucket, windowMs, TypeOK, Bucket, NoBucket
  <2>3. CASE ~Expired(t)
    BY <1>1, <2>1, <2>3
       DEF BucketAsTold, Expired, End, bucket, windowMs, TypeOK, Bucket, NoBucket
  <2> QED
    BY <2>2, <2>3
<1>4. ASSUME NEW c \in Tenant, consume(c), c # t
      PROVE  BucketAsTold(t)'
  <2>1. /\ clock' = clock
        /\ until'[t] = until[t]
        /\ used'[t] = used[t]
    BY <1>1, <1>4, ConsumeStep DEF Announce, TypeOK
  <2>2. \/ buckets'[t] = buckets[t]
        \/ /\ buckets'[t] = NoBucket
           /\ clock >= buckets[t].windowStart + windowMs(c)
    BY <1>1, <1>4, ConsumeStep
  <2>3. windowMs(t) <= windowMs(c) /\ windowMs(c) \in Nat
    BY WindowType DEF Shortest
  <2>4. CASE buckets'[t] = buckets[t]
    BY <1>1, <2>1, <2>4 DEF BucketAsTold, Expired, End, bucket, windowMs
  <2>5. CASE buckets'[t] = NoBucket /\ clock >= buckets[t].windowStart + windowMs(c)
    <3>1. Expired(t)
      BY <1>1, <2>3, <2>5 DEF Expired, TypeOK, Bucket, NoBucket
    <3>2. Expired(t)'
      BY <2>5 DEF Expired
    <3> QED
      BY <1>1, <2>1, <3>1, <3>2 DEF BucketAsTold
  <2> QED
    BY <2>2, <2>4, <2>5
<1>5. ASSUME consume(t)
      PROVE  BucketAsTold(t)'
  <2> DEFINE b == bucket(t)
             w == windowMs(t)
  <2>1. /\ b \in Bucket /\ b.count \in Nat /\ b.windowStart \in Nat
        /\ clock \in Nat /\ until[t] \in Nat /\ used[t] \in Nat
        /\ End(t) = b.windowStart + w
        /\ clock < End(t)
        /\ w \in Nat
    BY <1>1, BucketTyped DEF TypeOK, Bucket
  <2>2. b.count <= Limit[t]
        /\ (clock < until[t] => until[t] = End(t) /\ used[t] = b.count)
        /\ (clock >= until[t] => b.count = 0)
    BY <1>1 DEF BucketAsTold, bucket, TypeOK, Bucket
  <2>3. /\ clock' = clock
        /\ buckets'[t].windowStart = b.windowStart
    BY <1>1, <1>5, ConsumeStep
  <2>4. \E n \in {0, 1} :
           /\ buckets'[t].count = b.count + n
           /\ b.count + n <= Limit[t]
           /\ Announce(t, n)
    <3>1. CASE /\ b.count < Limit[t]
               /\ buckets'[t] = [b EXCEPT !.count = @ + 1]
               /\ Announce(t, 1)
      <4>1. buckets'[t].count = b.count + 1
        BY <2>1, <3>1 DEF Bucket
      <4> QED
        BY <1>1, <2>1, <3>1, <4>1
    <3>2. CASE /\ b.count >= Limit[t]
               /\ buckets'[t] = b
               /\ Announce(t, 0)
      BY <2>1, <2>2, <3>2
    <3> QED
      BY <1>1, <1>5, <3>1, <3>2, ConsumeStep
  <2>5. PICK n \in {0, 1} : /\ buckets'[t].count = b.count + n
                            /\ b.count + n <= Limit[t]
                            /\ Announce(t, n)
    BY <2>4
  <2>6. /\ until'[t] = IF clock < until[t] THEN until[t] ELSE End(t)
        /\ used'[t] = (IF clock < until[t] THEN used[t] ELSE 0) + n
    BY <1>1, <2>5 DEF Announce, TypeOK
  <2>7. until'[t] = End(t) /\ used'[t] = b.count + n
    BY <2>1, <2>2, <2>6
  <2>8. buckets'[t] # NoBucket
    BY <2>1, <2>3 DEF NoBucket
  <2>9. ~Expired(t)'
    BY <2>1, <2>3, <2>8 DEF Expired, windowMs
  <2>10. End(t)' = End(t)
    BY <2>1, <2>3, <2>9 DEF End, bucket, windowMs
  <2> QED
    BY <2>1, <2>3, <2>5, <2>7, <2>9, <2>10 DEF BucketAsTold
<1> QED
  BY <1>2, <1>3, <1>4, <1>5 DEF Next, Shortest

LEMMA InvInit == Init => Inv
<1> SUFFICES ASSUME Init PROVE Inv
  OBVIOUS
<1>1. TypeOK
  BY FallbackAssumption DEF Init, TypeOK
<1>2. \A t \in Shortest : BucketAsTold(t)
  <2> SUFFICES ASSUME NEW t \in Tenant PROVE BucketAsTold(t)
    BY DEF Shortest
  <2>1. buckets[t] = NoBucket /\ clock = 0 /\ until[t] = 0 /\ used[t] = 0
    BY DEF Init
  <2>2. Limit[t] \in Nat
    BY FallbackAssumption
  <2> QED
    BY <2>1, <2>2 DEF BucketAsTold, Expired
<1>3. \A t \in Tenant : RefusalCoversBucket(t)
  <2> SUFFICES ASSUME NEW t \in Tenant PROVE RefusalCoversBucket(t)
    OBVIOUS
  <2>1. buckets[t] = NoBucket /\ clock = 0 /\ refusal[t].at = 0
    BY DEF Init
  <2> QED
    BY <2>1 DEF RefusalCoversBucket
<1> QED
  BY <1>1, <1>2, <1>3 DEF Inv

\* The invariant holds in every reachable state.
THEOREM Invariance == Spec => []Inv
<1>1. Inv /\ [Next]_vars => Inv'
  <2> SUFFICES ASSUME Inv, [Next]_vars PROVE Inv'
    OBVIOUS
  <2>1. TypeOK'
    BY TypeStep DEF Inv
  <2>2. \A t \in Shortest : BucketAsTold(t)'
    BY ToldStep
  <2>3. Shortest' = Shortest
    BY DEF Shortest, windowMs
  <2>4. \A t \in Tenant : RefusalCoversBucket(t)'
    BY RefusalStep
  <2> QED
    BY <2>1, <2>2, <2>3, <2>4 DEF Inv
<1> QED
  BY <1>1, InvInit, PTL DEF Spec

\* Every variable keeps its type (rate-limiter.interface.ts:26-29).
THEOREM TypeCorrect == Spec => []TypeOK
<1>1. Inv => TypeOK
  BY DEF Inv
<1> QED
  BY <1>1, Invariance, PTL

\* A tenant of the shortest window never exceeds its limit in a window it was
\* told of (rate-limiter.fallback.ts:19-34).
THEOREM QuotaHolds == Spec => []QuotaKept
<1>1. Inv => QuotaKept
  BY DEF Inv, QuotaKept, BucketAsTold
<1> QED
  BY <1>1, Invariance, PTL

\* Waiting as long as retryAfter says is enough for the window of the refusal
\* to be over, for any plan (rate-limiter.fallback.ts:45-48).
THEOREM RetryHolds == Spec => []RetryHonoured
<1>1. Inv => RetryHonoured
  <2> SUFFICES ASSUME Inv, NEW t \in Tenant, refusal[t].due > 0,
                      clock >= refusal[t].due, bucket(t).count >= Limit[t]
               PROVE  bucket(t).windowStart >= refusal[t].at
    BY DEF RetryHonoured
  <2>1. TypeOK /\ RefusalCoversBucket(t)
    BY DEF Inv
  <2>2. ~Expired(t)
    BY FallbackAssumption DEF bucket
  <2>3. /\ bucket(t) = buckets[t]
        /\ buckets[t] # NoBucket
        /\ buckets[t] \in Bucket
        /\ clock < buckets[t].windowStart + windowMs(t)
    BY <2>1, <2>2, WindowType DEF bucket, Expired, TypeOK, Bucket
  <2> QED
    BY <2>1, <2>3, WindowType DEF RefusalCoversBucket, TypeOK, Bucket
<1> QED
  BY <1>1, Invariance, PTL

==============================================================================
