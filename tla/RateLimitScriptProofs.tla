------------------------ MODULE RateLimitScriptProofs ------------------------
(***************************************************************************)
(* Proofs about RateLimitScript, for any limit and window: the quota of a  *)
(* window for readings up to a window old, and the two properties of the   *)
(* estimate for current readings.                                          *)
(***************************************************************************)
EXTENDS RateLimitScript, TLAPS

-----------------------------------------------------------------------------
(* Windows and readings.                                                   *)

LEMMA WindowType == windowMs \in Nat \ {0}
<1>1. \A i, j \in Nat \ {0} : i * j \in Nat \ {0}
  BY SMTT(30)
<1> QED
  BY <1>1, ScriptAssumption DEF windowMs

LEMMA Reading ==
    ASSUME NEW t \in Nat
    PROVE  /\ windowIdx(t) \in Nat
           /\ windowIdx(t) * windowMs <= t
           /\ t < (windowIdx(t) + 1) * windowMs
           /\ t = windowIdx(t) * windowMs + (t % windowMs)
           /\ t % windowMs \in 0..(windowMs - 1)
BY WindowType, SMTT(30) DEF windowIdx

LEMMA Products ==
    /\ \A i, j \in Int : i <= j => i * windowMs <= j * windowMs
    /\ \A i, j \in Int : i * windowMs < j * windowMs => i < j
    /\ \A i \in Int : /\ (i + 1) * windowMs = i * windowMs + windowMs
                      /\ (i + 2) * windowMs = i * windowMs + 2 * windowMs
    /\ \A i \in Int : i * windowMs \in Int
BY WindowType, SMTT(30)

LEMMA IdxMonotone ==
    ASSUME NEW s \in Nat, NEW t \in Nat, s <= t
    PROVE  windowIdx(s) <= windowIdx(t)
<1>1. windowIdx(s) * windowMs < (windowIdx(t) + 1) * windowMs
  <2>1. /\ windowIdx(s) * windowMs \in Int
        /\ (windowIdx(t) + 1) * windowMs \in Int
    BY Reading, Products
  <2> QED
    BY <2>1, Reading
<1> QED
  BY <1>1, Reading, Products

LEMMA NatProducts ==
    \A i, j \in Nat : i * j \in Nat /\ (i > 0 /\ j > 0 => i * j > 0)
BY SMTT(30)

-----------------------------------------------------------------------------
(* The quota of a window.                                                  *)

\* What GET returns is a number, whatever the window.
LEMMA GetType ==
    ASSUME TypeOK, NEW w
    PROVE  GET(w) \in Nat
BY DEF TypeOK, GET

\* The key of a window is exact until the window after it is over.
LEMMA GetExact ==
    ASSUME TypeOK, NEW w \in Index, KeyExact(w),
           clock < (w + 2) * windowMs
    PROVE  GET(w) = admitted[w]
<1> DEFINE e == (w + 2) * windowMs
<1>1. clock \in Nat /\ keys[w].expireAt \in Nat /\ e \in Int
  <2>1. clock \in Nat /\ keys[w].expireAt \in Nat
    BY DEF TypeOK
  <2>2. w + 2 \in Int
    BY DEF Index
  <2> QED
    BY <2>1, <2>2, Products
<1>2. /\ clock < e
      /\ IF admitted[w] = 0
         THEN keys[w].expireAt = 0
         ELSE keys[w].count = admitted[w] /\ keys[w].expireAt >= e
  BY DEF KeyExact
<1> HIDE DEF e
<1> QED
  BY <1>1, <1>2 DEF GET

\* An evaluation comes while the key of its window is exact.
LEMMA ReadingIsTimely ==
    ASSUME TypeOK, Lag <= windowMs, NEW now \in Readings
    PROVE  /\ now \in Nat /\ now <= clock
           /\ windowIdx(now) \in Index
           /\ clock < (windowIdx(now) + 2) * windowMs
<1> DEFINE w == windowIdx(now)
<1>1. /\ now \in Nat /\ clock \in Nat /\ MaxClock \in Nat
      /\ now <= clock /\ clock <= MaxClock /\ clock - now <= Lag
  BY ScriptAssumption DEF Readings, TypeOK
<1>2. w \in Nat /\ windowIdx(MaxClock) \in Nat /\ now < (w + 1) * windowMs
  BY <1>1, Reading
<1>3. w <= windowIdx(MaxClock)
  BY <1>1, IdxMonotone
<1>4. /\ (w + 1) * windowMs = w * windowMs + windowMs
      /\ (w + 2) * windowMs = w * windowMs + 2 * windowMs
      /\ w * windowMs \in Int
  BY <1>2, Products
<1> HIDE DEF w
<1>5. clock < w * windowMs + 2 * windowMs
  BY <1>1, <1>2, <1>4, WindowType, ScriptAssumption
<1> QED
  BY <1>1, <1>2, <1>3, <1>4, <1>5 DEF Index, w

\* The parts of the estimate.
LEMMA Estimate ==
    ASSUME TypeOK, NEW now \in Nat
    PROVE  \E share \in Nat :
              /\ weighted(now) = share + currCount(now) * windowMs
              /\ share = prevCount(now) * (windowMs - (now % windowMs))
              /\ prevCount(now) > 0 => share > 0
<1> DEFINE d == windowMs - (now % windowMs)
           share == prevCount(now) * d
<1>1. d \in Nat /\ d > 0
  BY Reading, WindowType
<1>2. prevCount(now) \in Nat
  BY GetType DEF prevCount
<1>3. share \in Nat /\ (prevCount(now) > 0 => share > 0)
  BY <1>1, <1>2, NatProducts
<1>4. weighted(now) = share + currCount(now) * windowMs
  BY DEF weighted
<1> QED
  BY <1>3, <1>4

\* An admitted request leaves its window within the limit.
LEMMA AdmitWithinLimit ==
    ASSUME TypeOK, NEW now \in Nat, Admit(now)
    PROVE  currCount(now) < Limit
<1>1. currCount(now) \in Nat /\ Limit \in Nat
  BY GetType, ScriptAssumption DEF currCount
<1>2. PICK share \in Nat :
         /\ weighted(now) = share + currCount(now) * windowMs
         /\ prevCount(now) > 0 => share > 0
  BY Estimate
<1>3. /\ currCount(now) * windowMs \in Int
      /\ Limit * windowMs \in Int
  BY <1>1, Products
<1>4. currCount(now) * windowMs < Limit * windowMs
  <2> DEFINE c == currCount(now) * windowMs
             l == Limit * windowMs
  <2>1. weighted(now) < l \/ (weighted(now) = l /\ prevCount(now) > 0)
    BY DEF Admit, RoundsDown
  <2>2. weighted(now) = share + c /\ c \in Int /\ l \in Int
    BY <1>2, <1>3
  <2> HIDE DEF c, l
  <2>3. c < l
    BY <1>2, <2>1, <2>2
  <2> QED
    BY <2>3 DEF c, l
<1> QED
  BY <1>1, <1>4, Products

\* What an admission leaves.
LEMMA AdmitEffect ==
    ASSUME QuotaInv, Lag <= windowMs, NEW now \in Readings, Admit(now)
    PROVE  LET w == windowIdx(now) IN
           /\ w \in Index
           /\ admitted[w] = currCount(now)
           /\ admitted'[w] = admitted[w] + 1
           /\ keys'[w] = [count |-> admitted'[w], expireAt |-> clock + keyLife]
           /\ \A v \in Index \ {w} : /\ admitted'[v] = admitted[v]
                                     /\ keys'[v] = keys[v]
<1> DEFINE w == windowIdx(now)
<1>1. TypeOK /\ w \in Index /\ clock < (w + 2) * windowMs
  BY ReadingIsTimely DEF QuotaInv
<1>2. admitted[w] = currCount(now)
  BY <1>1, GetExact DEF QuotaInv, currCount
<1> QED
  BY <1>1, <1>2 DEF Admit, TypeOK

LEMMA QuotaStep ==
    ASSUME QuotaInv, [Next]_vars, Lag <= windowMs
    PROVE  QuotaInv'
<1>1. TypeOK /\ WindowQuota /\ \A w \in Index : KeyExact(w)
  BY DEF QuotaInv
<1>2. CASE UNCHANGED vars
  BY <1>1, <1>2 DEF vars, QuotaInv, TypeOK, KeyExact, WindowQuota
<1>3. CASE Tick
  BY <1>1, <1>3, ScriptAssumption
     DEF Tick, QuotaInv, TypeOK, KeyExact, WindowQuota
<1>4. ASSUME NEW now \in Readings, Refuse(now)
      PROVE  QuotaInv'
  <2>1. clock + retryAfter(now) * TicksPerSecond \in Nat
    <3>1. now \in Nat /\ clock \in Nat
      BY <1>1, ReadingIsTimely DEF TypeOK
    <3>2. ttl(now) \in Nat
      BY <3>1, Reading, WindowType DEF ttl
    <3>3. retryAfter(now) \in Nat
      BY <3>2, ScriptAssumption, SMTT(30) DEF retryAfter
    <3> QED
      BY <3>1, <3>3, NatProducts, ScriptAssumption
  <2> QED
    BY <1>1, <1>4, <2>1 DEF Refuse, QuotaInv, TypeOK, KeyExact, WindowQuota
<1>5. ASSUME NEW now \in Readings, Admit(now)
      PROVE  QuotaInv'
  <2> DEFINE w == windowIdx(now)
  <2>1. /\ w \in Index
        /\ admitted[w] = currCount(now)
        /\ admitted'[w] = admitted[w] + 1
        /\ keys'[w] = [count |-> admitted'[w], expireAt |-> clock + keyLife]
        /\ \A v \in Index \ {w} : /\ admitted'[v] = admitted[v]
                                  /\ keys'[v] = keys[v]
    BY <1>5, AdmitEffect
  <2>2. now \in Nat /\ now <= clock /\ clock \in Nat
    BY <1>1, ReadingIsTimely DEF TypeOK
  <2>3. admitted'[w] <= Limit /\ admitted'[w] \in Nat \ {0}
    BY <1>1, <1>5, <2>1, <2>2, AdmitWithinLimit, ScriptAssumption DEF TypeOK
  <2>4. clock + keyLife >= (w + 2) * windowMs
    <3>1. w \in Int /\ w * windowMs <= now
      BY <2>2, Reading
    <3>2. (w + 2) * windowMs = w * windowMs + 2 * windowMs
          /\ w * windowMs \in Int
      BY <3>1, Products
    <3>3. keyLife = 2 * windowMs
      BY WindowType DEF keyLife
    <3> HIDE DEF w
    <3> QED
      BY <2>2, <3>1, <3>2, <3>3, WindowType
  <2>5. clock + keyLife \in Nat
    BY <2>2, WindowType DEF keyLife
  <2>6. TypeOK'
    <3>1. [count |-> currCount(now) + 1, expireAt |-> clock + keyLife]
             \in [count: Nat, expireAt: Nat]
      BY <1>1, <2>5, GetType DEF currCount
    <3> QED
      BY <1>1, <1>5, <2>1, <3>1 DEF Admit, TypeOK
  <2> HIDE DEF w
  <2>7. \A v \in Index : KeyExact(v)'
    <3>1. KeyExact(w)'
      BY <2>1, <2>3, <2>4 DEF KeyExact
    <3>2. \A v \in Index \ {w} : KeyExact(v)'
      BY <1>1, <2>1 DEF KeyExact
    <3> QED
      BY <3>1, <3>2
  <2>8. WindowQuota'
    BY <1>1, <2>1, <2>3 DEF WindowQuota
  <2> QED
    BY <2>6, <2>7, <2>8 DEF QuotaInv
<1>6. ASSUME NEW first \in Index, Restart(first)
      PROVE  QuotaInv'
  BY <1>1, <1>6, ScriptAssumption
     DEF Restart, NoKey, QuotaInv, TypeOK, KeyExact, WindowQuota
<1> QED
  BY <1>2, <1>3, <1>4, <1>5, <1>6 DEF Next

LEMMA QuotaInit == Init => QuotaInv
BY ScriptAssumption DEF Init, NoKey, QuotaInv, TypeOK, KeyExact, WindowQuota

\* The inductive invariant behind the quota.
THEOREM QuotaInvariance ==
    ASSUME Lag <= windowMs
    PROVE  Spec => []QuotaInv
BY QuotaInit, QuotaStep, PTL DEF Spec

\* Every variable keeps its type.
THEOREM TypeCorrect ==
    ASSUME Lag <= windowMs
    PROVE  Spec => []TypeOK
<1>1. QuotaInv => TypeOK
  BY DEF QuotaInv
<1> QED
  BY <1>1, QuotaInvariance, PTL

\* No window admits more than Limit requests, if no reading is older than a
\* window (rate-limiter.constants.ts:54-68).
THEOREM QuotaHolds ==
    ASSUME Lag <= windowMs
    PROVE  Spec => []WindowQuota
<1>1. QuotaInv => WindowQuota
  BY DEF QuotaInv
<1> QED
  BY <1>1, QuotaInvariance, PTL

-----------------------------------------------------------------------------
(* Current readings: the estimate sees both windows exactly.               *)

LEMMA CurrentReading ==
    ASSUME Inv, Lag = 0, NEW now \in Readings
    PROVE  now = clock
BY DEF Inv, QuotaInv, TypeOK, Readings

\* The window of the clock and the one before it.
LEMMA CurrentCounts ==
    ASSUME QuotaInv
    PROVE  /\ windowIdx(clock) \in Index
           /\ currCount(clock) = admitted[windowIdx(clock)]
           /\ windowIdx(clock) > 0 =>
                 /\ windowIdx(clock) - 1 \in Index
                 /\ prevCount(clock) = admitted[windowIdx(clock) - 1]
           /\ windowIdx(clock) = 0 => prevCount(clock) = 0
<1> DEFINE w == windowIdx(clock)
<1>1. /\ TypeOK /\ clock \in Nat /\ MaxClock \in Nat /\ clock <= MaxClock
      /\ \A v \in Index : KeyExact(v)
  BY ScriptAssumption DEF QuotaInv, TypeOK
<1>2. /\ w \in Nat /\ windowIdx(MaxClock) \in Nat
      /\ w <= windowIdx(MaxClock)
      /\ clock < (w + 1) * windowMs
  BY <1>1, Reading, IdxMonotone
<1>3. /\ (w + 1) * windowMs = w * windowMs + windowMs
      /\ (w + 2) * windowMs = w * windowMs + 2 * windowMs
      /\ w * windowMs \in Int
  BY <1>2, Products
<1>4. (w - 1) + 2 = w + 1
  BY <1>2
<1> HIDE DEF w
<1>5. w \in Index /\ (w > 0 => w - 1 \in Index) /\ -1 \notin Index
  BY <1>2 DEF Index
<1>6. clock < (w + 2) * windowMs
  BY <1>1, <1>2, <1>3, WindowType
<1>7. GET(w) = admitted[w]
  BY <1>1, <1>5, <1>6, GetExact
<1>8. w > 0 => GET(w - 1) = admitted[w - 1]
  BY <1>1, <1>2, <1>4, <1>5, GetExact
<1>9. w = 0 => GET(w - 1) = 0
  BY <1>5 DEF GET
<1> QED
  BY <1>5, <1>7, <1>8, <1>9 DEF currCount, prevCount, w

\* The end of the window is no later than the time given to retry.
LEMMA RetryCoversWindow ==
    ASSUME NEW t \in Nat
    PROVE  /\ retryAfter(t) * TicksPerSecond \in Nat
           /\ t + ttl(t) = (windowIdx(t) + 1) * windowMs
           /\ ttl(t) \in 1..windowMs
           /\ ttl(t) <= retryAfter(t) * TicksPerSecond
<1>1. ttl(t) \in 1..windowMs
  BY Reading, WindowType DEF ttl
<1>2. t + ttl(t) = (windowIdx(t) + 1) * windowMs
  <2>1. (windowIdx(t) + 1) * windowMs = windowIdx(t) * windowMs + windowMs
        /\ windowIdx(t) * windowMs \in Int
    BY Reading, Products
  <2>2. t = windowIdx(t) * windowMs + (t % windowMs)
    BY Reading
  <2>3. t % windowMs \in Int
    BY WindowType
  <2> QED
    BY <2>1, <2>2, <2>3, WindowType DEF ttl
<1>3. \A d \in Nat :
         LET s == (d + TicksPerSecond - 1) \div TicksPerSecond IN
         s \in Nat /\ s * TicksPerSecond \in Nat /\ d <= s * TicksPerSecond
  BY ScriptAssumption, SMTT(30)
<1>4. ttl(t) \in Nat
  BY <1>1, WindowType
<1> QED
  BY <1>1, <1>2, <1>3, <1>4 DEF retryAfter

LEMMA NoFutureStep ==
    ASSUME Inv, [Next]_vars, Lag = 0
    PROVE  NoFuture'
<1>1. /\ TypeOK /\ QuotaInv /\ NoFuture /\ clock \in Nat
      /\ windowIdx(clock) \in Nat
  BY Reading DEF Inv, QuotaInv, TypeOK
<1>2. CASE UNCHANGED vars
  BY <1>1, <1>2 DEF vars, NoFuture
<1>3. CASE Tick
  <2>1. windowIdx(clock + 1) \in Nat /\ windowIdx(clock) <= windowIdx(clock + 1)
    BY <1>1, Reading, IdxMonotone
  <2> QED
    BY <1>1, <1>3, <2>1 DEF Tick, NoFuture, Index
<1>4. ASSUME NEW now \in Readings, Refuse(now)
      PROVE  NoFuture'
  BY <1>1, <1>4 DEF Refuse, NoFuture
<1>5. ASSUME NEW now \in Readings, Admit(now)
      PROVE  NoFuture'
  <2>1. now = clock /\ Lag <= windowMs
    BY CurrentReading, WindowType
  <2>2. \A v \in Index \ {windowIdx(clock)} : admitted'[v] = admitted[v]
    BY <1>1, <1>5, <2>1, AdmitEffect
  <2>3. clock' = clock
    BY <1>5 DEF Admit
  <2> QED
    BY <1>1, <2>2, <2>3 DEF NoFuture, Index
<1>6. ASSUME NEW first \in Index, Restart(first)
      PROVE  NoFuture'
  BY <1>1, <1>6 DEF Restart, NoFuture
<1> QED
  BY <1>2, <1>3, <1>4, <1>5, <1>6 DEF Next

LEMMA RetryStep ==
    ASSUME Inv, [Next]_vars, Lag = 0
    PROVE  RetryAfterWindows'
<1>1. /\ TypeOK /\ QuotaInv /\ NoFuture /\ RetryAfterWindows /\ clock \in Nat
  BY DEF Inv, QuotaInv, TypeOK
<1>2. CASE UNCHANGED vars \/ Tick
  BY <1>1, <1>2 DEF vars, Tick, RetryAfterWindows
<1>3. ASSUME NEW now \in Readings, Admit(now)
      PROVE  RetryAfterWindows'
  BY <1>3 DEF Admit, RetryAfterWindows
<1>4. ASSUME NEW now \in Readings, Refuse(now)
      PROVE  RetryAfterWindows'
  <2> SUFFICES ASSUME NEW v \in Index, admitted[v] > 0
               PROVE  (v + 1) * windowMs <= retry'
    BY <1>4 DEF Refuse, RetryAfterWindows
  <2> DEFINE w == windowIdx(clock)
  <2>1. retry' = clock + retryAfter(clock) * TicksPerSecond
    BY <1>4, CurrentReading DEF Refuse
  <2>2. /\ retryAfter(clock) * TicksPerSecond \in Nat
        /\ clock + ttl(clock) = (w + 1) * windowMs
        /\ ttl(clock) \in Nat
        /\ ttl(clock) <= retryAfter(clock) * TicksPerSecond
    BY <1>1, RetryCoversWindow, WindowType
  <2>3. v <= w /\ v \in Int /\ w \in Int
    BY <1>1, Reading DEF NoFuture, Index
  <2>4. (v + 1) * windowMs <= (w + 1) * windowMs
        /\ (v + 1) * windowMs \in Int /\ (w + 1) * windowMs \in Int
    <3>1. v + 1 \in Int /\ w + 1 \in Int /\ v + 1 <= w + 1
      BY <2>3
    <3> HIDE DEF w
    <3> QED
      BY <3>1, Products
  <2> HIDE DEF w
  <2> QED
    BY <1>1, <2>1, <2>2, <2>4
<1>5. ASSUME NEW first \in Index, Restart(first)
      PROVE  RetryAfterWindows'
  BY <1>5 DEF Restart, RetryAfterWindows
<1> QED
  BY <1>2, <1>3, <1>4, <1>5 DEF Next

LEMMA MonotoneProduct ==
    ASSUME NEW a \in Nat, NEW b \in Nat, NEW c \in Nat, NEW d \in Nat,
           a <= b, c <= d
    PROVE  /\ a * c \in Nat /\ b * d \in Nat
           /\ a * c <= b * d
           /\ b > 0 /\ c < d => a * c < b * d
<1>1. \A i, j, k \in Nat : i <= j => i * k <= j * k
  BY SMTT(30)
<1>2. \A i, j, k \in Nat : i <= j => k * i <= k * j
  BY SMTT(30)
<1>3. \A i, j, k \in Nat : i < j /\ k > 0 => k * i < k * j
  BY SMTT(30)
<1> DEFINE x == a * c  y == b * c  z == b * d
<1>4. x <= y /\ y <= z /\ (b > 0 /\ c < d => y < z)
  BY <1>1, <1>2, <1>3
<1>5. x \in Nat /\ y \in Nat /\ z \in Nat
  BY NatProducts
<1> HIDE DEF x, y, z
<1>6. x <= z /\ (b > 0 /\ c < d => x < z)
  BY <1>4, <1>5
<1> QED
  BY <1>5, <1>6 DEF x, z

LEMMA BurstStep ==
    ASSUME Inv, [Next]_vars, Lag = 0
    PROVE  NoBurstAtBoundary'
<1> DEFINE w == windowIdx(clock)
<1>1. /\ TypeOK /\ QuotaInv /\ NoFuture /\ NoBurstAtBoundary
      /\ clock \in Nat /\ w \in Nat /\ w \in Index
      /\ w > 0 => w - 1 \in Index
  BY Reading, CurrentCounts DEF Inv, QuotaInv, TypeOK
<1>2. CASE UNCHANGED vars
  BY <1>1, <1>2 DEF vars, NoBurstAtBoundary, ttl
<1>3. CASE Tick
  <2> DEFINE w1 == windowIdx(clock + 1)
  <2>1. /\ clock' = clock + 1 /\ admitted' = admitted
        /\ w1 \in Nat /\ w <= w1 /\ w1 \in Index
    <3>1. clock + 1 \in Nat /\ MaxClock \in Nat /\ clock + 1 <= MaxClock
      BY <1>1, <1>3, ScriptAssumption DEF Tick
    <3> QED
      BY <1>1, <1>3, <3>1, Reading, IdxMonotone DEF Tick, Index
  <2>2. SUFFICES ASSUME w1 > 0, admitted[w1] > 0
                 PROVE  admitted[w1 - 1] * ttl(clock + 1)
                           + (admitted[w1] - 1) * windowMs <= Limit * windowMs
    BY <2>1 DEF NoBurstAtBoundary, ttl
  <2>3. w1 = w
    BY <1>1, <2>1, <2>2 DEF NoFuture
  <2>4. ttl(clock) \in Nat /\ ttl(clock + 1) \in Nat
        /\ ttl(clock + 1) <= ttl(clock)
    <3>1. /\ clock + ttl(clock) = (w + 1) * windowMs
          /\ ttl(clock) \in 1..windowMs
      BY <1>1, RetryCoversWindow
    <3>2. /\ (clock + 1) + ttl(clock + 1) = (w + 1) * windowMs
          /\ ttl(clock + 1) \in 1..windowMs
      BY <1>1, <2>3, RetryCoversWindow
    <3> QED
      BY <1>1, <3>1, <3>2, WindowType
  <2> DEFINE p == admitted[w - 1] * ttl(clock)
             p1 == admitted[w - 1] * ttl(clock + 1)
             c == (admitted[w] - 1) * windowMs
             l == Limit * windowMs
  <2>5. /\ admitted[w - 1] \in Nat /\ admitted[w] - 1 \in Int
    BY <1>1, <2>2, <2>3 DEF TypeOK
  <2>6. p \in Nat /\ p1 \in Nat /\ p1 <= p
    BY <2>4, <2>5, MonotoneProduct
  <2>7. c \in Int /\ l \in Int
    <3>1. Limit \in Int
      BY ScriptAssumption
    <3> QED
      BY <2>5, <3>1, Products
  <2>8. p + c <= l
    BY <1>1, <2>2, <2>3 DEF NoBurstAtBoundary
  <2>9. p1 + c <= l
    <3> HIDE DEF p, p1, c, l
    <3> QED
      BY <2>6, <2>7, <2>8
  <2> QED
    BY <2>3, <2>9
<1>4. ASSUME NEW now \in Readings, Refuse(now)
      PROVE  NoBurstAtBoundary'
  BY <1>1, <1>4 DEF Refuse, NoBurstAtBoundary, ttl
<1>5. ASSUME NEW now \in Readings, Admit(now)
      PROVE  NoBurstAtBoundary'
  <2>1. now = clock /\ Lag <= windowMs /\ Admit(clock) /\ clock' = clock
    <3>1. now = clock
      BY CurrentReading
    <3>2. Lag <= windowMs
      BY WindowType
    <3>3. clock' = clock
      BY <1>5 DEF Admit
    <3> QED
      BY <1>5, <3>1, <3>2, <3>3
  <2>2. /\ admitted'[w] = admitted[w] + 1
        /\ \A v \in Index \ {w} : admitted'[v] = admitted[v]
    BY <1>1, <1>5, <2>1, AdmitEffect
  <2>3. SUFFICES ASSUME w > 0
                 PROVE  admitted'[w - 1] * ttl(clock)
                           + (admitted'[w] - 1) * windowMs <= Limit * windowMs
    BY <2>1 DEF NoBurstAtBoundary, ttl
  <2>4. admitted'[w - 1] = prevCount(clock) /\ admitted'[w] - 1 = currCount(clock)
    BY <1>1, <2>2, <2>3, CurrentCounts DEF TypeOK
  <2>5. weighted(clock) \in Int /\ Limit * windowMs \in Int
    <3>1. currCount(clock) \in Nat /\ Limit \in Nat
      BY <1>1, GetType, ScriptAssumption DEF currCount
    <3>2. /\ currCount(clock) * windowMs \in Int
          /\ Limit * windowMs \in Int
      BY <3>1, Products
    <3>3. PICK share \in Nat :
             weighted(clock) = share + currCount(clock) * windowMs
      BY <1>1, Estimate
    <3> QED
      BY <3>2, <3>3
  <2>6. weighted(clock) <= Limit * windowMs
    BY <2>1, <2>5 DEF Admit, RoundsDown
  <2> QED
    BY <2>4, <2>6 DEF weighted, ttl
<1>6. ASSUME NEW first \in Index, Restart(first)
      PROVE  NoBurstAtBoundary'
  <2> SUFFICES ASSUME w > 0, admitted'[w] > 0
               PROVE  admitted'[w - 1] * ttl(clock)
                         + (admitted'[w] - 1) * windowMs <= Limit * windowMs
    BY <1>6 DEF Restart, NoBurstAtBoundary, ttl
  <2>1. w < first
    BY <1>1, <1>6 DEF Restart
  <2>2. w - 1 < first
    BY <1>1, <2>1 DEF Index
  <2>3. admitted'[w] = admitted[w] /\ admitted'[w - 1] = admitted[w - 1]
    BY <1>1, <1>6, <2>1, <2>2 DEF Restart
  <2> QED
    BY <1>1, <2>3 DEF NoBurstAtBoundary
<1> QED
  BY <1>2, <1>3, <1>4, <1>5, <1>6 DEF Next

LEMMA InvInit ==
    ASSUME Init
    PROVE  Inv
<1>1. QuotaInv
  BY QuotaInit
<1>2. \A w \in Index : admitted[w] = 0
  BY DEF Init
<1>3. windowIdx(clock) \in Index
  BY <1>1, CurrentCounts
<1>4. NoFuture /\ NoBurstAtBoundary
  BY <1>2, <1>3 DEF NoFuture, NoBurstAtBoundary
<1>5. RetryAfterWindows
  BY DEF Init, RetryAfterWindows
<1> QED
  BY <1>1, <1>4, <1>5 DEF Inv

\* The inductive invariant of current readings.
THEOREM Invariance ==
    ASSUME Lag = 0
    PROVE  Spec => []Inv
<1>1. Inv /\ [Next]_vars => Inv'
  <2> SUFFICES ASSUME Inv, [Next]_vars
               PROVE  Inv'
    OBVIOUS
  <2>1. Lag <= windowMs
    BY WindowType
  <2>2. QuotaInv'
    BY <2>1, QuotaStep DEF Inv
  <2> QED
    BY <2>2, NoFutureStep, RetryStep, BurstStep DEF Inv
<1> QED
  BY <1>1, InvInit, PTL DEF Spec

\* A full window is followed by no full quota: the last admission respects the
\* share of the previous window (rate-limiter.constants.ts:57-63).
THEOREM NoBurst ==
    ASSUME Lag = 0
    PROVE  Spec => []NoBurstAtBoundary
<1>1. Inv => NoBurstAtBoundary
  BY DEF Inv
<1> QED
  BY <1>1, Invariance, PTL

\* A refused caller that waits longer than it was told is admitted, if nobody
\* was meanwhile (rate-limiter.service.ts:78-80).
THEOREM WaitingIsEnough ==
    ASSUME Lag = 0
    PROVE  Spec => []WaitingHelps
<1>1. ASSUME Inv, retry > 0, clock > retry
      PROVE  weighted(clock) < Limit * windowMs
  <2> DEFINE w == windowIdx(clock)
             m == clock % windowMs
  <2>1. /\ TypeOK /\ QuotaInv /\ RetryAfterWindows /\ WindowQuota
        /\ clock \in Nat /\ retry \in Nat /\ w \in Index /\ w \in Nat
        /\ clock < (w + 1) * windowMs /\ (w + 1) * windowMs \in Int
        /\ Limit \in Nat \ {0}
    <3>1. /\ QuotaInv /\ RetryAfterWindows /\ TypeOK /\ WindowQuota
          /\ clock \in Nat /\ retry \in Nat
      BY <1>1 DEF Inv, QuotaInv, TypeOK
    <3>2. /\ w \in Index /\ w \in Nat /\ w + 1 \in Int
          /\ clock < (w + 1) * windowMs
      BY <3>1, Reading, CurrentCounts
    <3>3. (w + 1) * windowMs \in Int
      BY <3>2, Products
    <3> QED
      BY <3>1, <3>2, <3>3, ScriptAssumption
  <2>2. admitted[w] = 0
    <3>1. admitted[w] > 0 => (w + 1) * windowMs <= retry
      BY <1>1, <2>1 DEF RetryAfterWindows
    <3>2. admitted[w] \in Nat
      BY <2>1 DEF TypeOK
    <3> DEFINE e == (w + 1) * windowMs
    <3>3. (admitted[w] > 0 => e <= retry) /\ clock < e /\ e \in Int
      BY <2>1, <3>1
    <3> HIDE DEF e, w
    <3> QED
      BY <1>1, <2>1, <3>2, <3>3
  <2>3. currCount(clock) = 0
    BY <2>1, <2>2, CurrentCounts
  <2>4. currCount(clock) * windowMs = 0
    BY <2>3, WindowType
  <2>5. PICK share \in Nat : /\ weighted(clock) = share
                             /\ share = prevCount(clock) * (windowMs - m)
    <3>1. PICK s \in Nat :
             /\ weighted(clock) = s + currCount(clock) * windowMs
             /\ s = prevCount(clock) * (windowMs - (clock % windowMs))
      BY <2>1, Estimate
    <3> QED
      BY <2>4, <3>1
  <2>6. m \in 0..(windowMs - 1) /\ clock = w * windowMs + m
    BY <2>1, Reading
  <2>7. prevCount(clock) \in Nat /\ prevCount(clock) <= Limit
    BY <2>1, GetType, CurrentCounts DEF prevCount, WindowQuota
  <2>8. prevCount(clock) > 0 => m > 0
    <3> SUFFICES ASSUME prevCount(clock) > 0
                 PROVE  m > 0
      OBVIOUS
    <3>1. w > 0 /\ w - 1 \in Index /\ admitted[w - 1] > 0
      BY <2>1, CurrentCounts
    <3>2. (w - 1) + 1 = w
      BY <2>1
    <3>3. w * windowMs <= retry
      BY <1>1, <2>1, <3>1, <3>2 DEF RetryAfterWindows
    <3> DEFINE e == w * windowMs
    <3>4. e \in Int /\ e <= retry /\ clock = e + m
      BY <2>1, <2>6, <3>3, Products
    <3>5. m \in Int /\ m >= 0
      BY <2>6, WindowType
    <3> HIDE DEF e, m
    <3> QED
      BY <1>1, <2>1, <3>4, <3>5
  <2>9. CASE prevCount(clock) = 0
    <3>1. share = 0
      BY <2>5, <2>6, <2>9, WindowType
    <3>2. Limit * windowMs > 0
      BY <2>1, WindowType, NatProducts
    <3> QED
      BY <2>5, <3>1, <3>2
  <2>10. CASE prevCount(clock) > 0
    <3>1. /\ windowMs - m \in Nat /\ windowMs \in Nat
          /\ windowMs - m < windowMs /\ Limit > 0
      BY <2>1, <2>6, <2>8, <2>10, WindowType
    <3> HIDE DEF m
    <3>2. prevCount(clock) * (windowMs - m) < Limit * windowMs
      BY <2>1, <2>7, <3>1, MonotoneProduct
    <3> QED
      BY <2>5, <3>2
  <2> QED
    BY <2>7, <2>9, <2>10
<1>2. Inv => WaitingHelps
  BY <1>1 DEF WaitingHelps
<1> QED
  BY <1>2, Invariance, PTL

==============================================================================
