--------------------------- MODULE RateLimiterProofs ---------------------------
(***************************************************************************)
(* What RateLimiter does to the shared keys, for any processes, calls and  *)
(* faults.                                                                 *)
(***************************************************************************)
EXTENDS RateLimiter, FiniteSetTheorems, TLAPS

\* A script that is under way carries a reading of the clock no older than Lag.
CarriesReading(c, now) ==
    c.stage \in {"sent", "evaluated"} => c.now \in 0..now /\ now - c.now <= Lag

Call == [stage: Stage, now: 0..MaxClock, allowed: BOOLEAN]

ReadingsInv ==
    /\ clock \in 0..MaxClock
    /\ req \in [Request -> Call]
    /\ \A r \in Request : CarriesReading(req[r], clock)

-----------------------------------------------------------------------------
LEMMA ReadingsInit == Init => ReadingsInv
  <1> SUFFICES ASSUME Init PROVE ReadingsInv
    OBVIOUS
  <1>1. clock = 0
    BY DEF Init, Script!Init
  <1>2. req = [r \in Request |-> NoCall]
    BY DEF Init
  <1>3. NoCall \in Call /\ NoCall.stage = "idle"
    BY LimiterAssumption DEF NoCall, Call, Stage, LimiterAssumption
  <1> QED
    BY <1>1, <1>2, <1>3, LimiterAssumption
       DEF ReadingsInv, CarriesReading, LimiterAssumption

LEMMA UnansweredReadings ==
    ASSUME ReadingsInv, NEW P
    PROVE  /\ Unanswered(P) \in [Request -> Call]
           /\ \A r \in Request : CarriesReading(Unanswered(P)[r], clock)
  <1> SUFFICES ASSUME NEW r \in Request
               PROVE  /\ Unanswered(P)[r] \in Call
                      /\ CarriesReading(Unanswered(P)[r], clock)
    BY DEF Unanswered
  <1>1. CASE Server[r] \in P /\ req[r].stage = "evaluated"
    <2>1. Unanswered(P)[r] = [req[r] EXCEPT !.stage = "sent", !.allowed = FALSE]
      BY <1>1 DEF Unanswered
    <2> QED
      BY <1>1, <2>1 DEF ReadingsInv, Call, Stage, CarriesReading
  <1>2. CASE ~(Server[r] \in P /\ req[r].stage = "evaluated")
    <2>1. Unanswered(P)[r] = req[r]
      BY <1>2 DEF Unanswered
    <2> QED
      BY <2>1 DEF ReadingsInv
  <1> QED
    BY <1>1, <1>2

LEMMA ReadingsStep == ReadingsInv /\ [Next]_vars => ReadingsInv'
  <1> SUFFICES ASSUME ReadingsInv, [Next]_vars
               PROVE  ReadingsInv'
    OBVIOUS
  <1> USE DEF ReadingsInv, Call, Stage, CarriesReading
  <1>idle. NoCall \in Call /\ FailedCall \in Call
           /\ NoCall.stage = "idle" /\ FailedCall.stage = "failed"
    <2>1. 0 \in 0..MaxClock
      BY LimiterAssumption DEF LimiterAssumption
    <2>2. NoCall \in Call /\ NoCall.stage = "idle"
      BY <2>1 DEF NoCall
    <2>3. FailedCall \in Call /\ FailedCall.stage = "failed"
      BY <2>2 DEF FailedCall
    <2> QED
      BY <2>2, <2>3
  <1>1. CASE Tick
    <2>1. clock < MaxClock /\ clock' = clock + 1 /\ req' = req
      BY <1>1 DEF Tick, Script!Tick
    <2>2. \A r \in Request : req[r].stage \in {"sent", "evaluated"}
                             => clock - req[r].now < Lag
      BY <1>1 DEF Tick
    <2> QED
      BY <2>1, <2>2, LimiterAssumption DEF LimiterAssumption
  <1>2. ASSUME NEW r \in Request, Consume(r) PROVE ReadingsInv'
    BY <1>2 DEF Consume, shared
  <1>3. ASSUME NEW r \in Request, Pong(r) PROVE ReadingsInv'
    <2>1. clock' = clock /\ clock - clock <= Lag
      BY <1>3, LimiterAssumption DEF Pong, shared, LimiterAssumption
    <2>2. req' = [req EXCEPT ![r] = [@ EXCEPT !.stage = "sent", !.now = clock]]
      BY <1>3 DEF Pong
    <2>3. req'[r].now = clock /\ \A q \in Request \ {r} : req'[q] = req[q]
      BY <2>2
    <2>4. req' \in [Request -> Call]
      BY <2>2
    <2> QED
      BY <2>1, <2>3, <2>4
  <1>4. ASSUME NEW r \in Request, Evaluate(r) PROVE ReadingsInv'
    <2>1. clock' = clock
      BY <1>4 DEF Evaluate, Script!Admit, Script!Refuse
    <2>2. PICK b \in BOOLEAN :
              req' = [req EXCEPT ![r] = [@ EXCEPT !.stage = "evaluated",
                                                  !.allowed = b]]
      BY <1>4 DEF Evaluate
    <2>3. req[r].stage = "sent"
      BY <1>4 DEF Evaluate
    <2> QED
      BY <2>1, <2>2, <2>3
  <1>5. ASSUME NEW r \in Request, Reply(r) PROVE ReadingsInv'
    BY <1>5, <1>idle DEF Reply, shared
  <1>6. ASSUME NEW r \in Request, FallBack(r) PROVE ReadingsInv'
    BY <1>6, <1>idle DEF FallBack, shared
  <1>7. ASSUME NEW r \in Request, RedisError(r) PROVE ReadingsInv'
    BY <1>7, <1>idle DEF RedisError, shared
  <1>8. ASSUME NEW p \in Process, Disconnect(p) PROVE ReadingsInv'
    BY <1>8, UnansweredReadings DEF Disconnect, shared
  <1>9. ASSUME NEW p \in Process, Reconnect(p) PROVE ReadingsInv'
    BY <1>9 DEF Reconnect, shared
  <1>10. ASSUME NEW p \in Process, Flush(p) PROVE ReadingsInv'
    <2>1. clock' = clock
      BY <1>10 DEF Flush, shared
    <2>2. /\ req' \in [Request -> Call]
          /\ \A r \in Request : req'[r] \in {req[r], FailedCall}
      BY <1>10, <1>idle DEF Flush
    <2> QED
      BY <2>1, <2>2, <1>idle
  <1>11. ASSUME NEW p \in Process, Crash(p) PROVE ReadingsInv'
    <2>1. clock' = clock
      BY <1>11 DEF Crash, shared
    <2>2. /\ req' \in [Request -> Call]
          /\ \A r \in Request : req'[r] \in {req[r], NoCall}
      BY <1>11, <1>idle DEF Crash
    <2> QED
      BY <2>1, <2>2, <1>idle
  <1>12. ASSUME NEW first \in Index, RedisRestart(first) PROVE ReadingsInv'
    <2>1. clock' = clock
      BY <1>12 DEF RedisRestart, Script!Restart
    <2> QED
      BY <1>12, <2>1, UnansweredReadings DEF RedisRestart
  <1>13. CASE UNCHANGED vars
    BY <1>13 DEF vars
  <1> QED
    BY <1>1, <1>2, <1>3, <1>4, <1>5, <1>6, <1>7, <1>8, <1>9, <1>10, <1>11,
       <1>12, <1>13
    DEF Next, consume

LEMMA ReadingsAlways == Spec => []ReadingsInv
  BY ReadingsInit, ReadingsStep, PTL DEF Spec

-----------------------------------------------------------------------------
LEMMA ScriptStep == ReadingsInv /\ [Next]_vars => [Script!Next]_(Script!vars)
  <1> SUFFICES ASSUME ReadingsInv, [Next]_vars
               PROVE  Script!Next \/ UNCHANGED Script!vars
    OBVIOUS
  <1>1. CASE Tick
    BY <1>1 DEF Tick, Script!Next
  <1>2. ASSUME NEW r \in Request, Evaluate(r) PROVE Script!Next
    <2>1. req[r].now \in Script!Readings
      BY <1>2 DEF Evaluate, ReadingsInv, CarriesReading, Script!Readings
    <2>2. Script!Admit(req[r].now) \/ Script!Refuse(req[r].now)
      BY <1>2 DEF Evaluate
    <2> QED
      BY <2>1, <2>2 DEF Script!Next
  <1>3. ASSUME NEW first \in Index, RedisRestart(first) PROVE Script!Next
    BY <1>3 DEF RedisRestart, Script!Next, Index
  <1>4. ASSUME UNCHANGED shared PROVE UNCHANGED Script!vars
    BY <1>4 DEF shared, Script!vars
  <1>5. ASSUME NEW r \in Request,
               Consume(r) \/ Pong(r) \/ Reply(r) \/ FallBack(r) \/ RedisError(r)
        PROVE  UNCHANGED shared
    BY <1>5 DEF Consume, Pong, Reply, FallBack, RedisError, shared
  <1>6. ASSUME NEW p \in Process,
               Disconnect(p) \/ Reconnect(p) \/ Flush(p) \/ Crash(p)
        PROVE  UNCHANGED shared
    BY <1>6 DEF Disconnect, Reconnect, Flush, Crash, shared
  <1>7. CASE UNCHANGED vars
    BY <1>7 DEF vars, Script!vars
  <1> QED
    BY <1>1, <1>2, <1>3, <1>4, <1>5, <1>6, <1>7 DEF Next, consume

\* Whatever the processes, their connections and Redis go through, the keys
\* only see what RateLimitScript describes, for any number of processes, calls
\* and faults (rate-limiter.service.ts:25-56).
THEOREM Refinement == Spec => ImplementsScript
  <1>1. Init => Script!Init
    BY DEF Init
  <1> QED
    BY <1>1, ScriptStep, ReadingsAlways, PTL DEF Spec, ImplementsScript, Script!Spec

-----------------------------------------------------------------------------
(* The quota at Redis.                                                     *)

SP == INSTANCE RateLimitScriptProofs

\* RateLimitScriptProofs speaks of the same keys and steps.
LEMMA SameScript ==
    /\ SP!Index = Index
    /\ SP!windowMs = Script!windowMs
    /\ \A t : SP!windowIdx(t) = windowIdx(t)
    /\ SP!vars = Script!vars
    /\ SP!Init <=> Script!Init
    /\ SP!Next <=> Script!Next
  <1> USE DEF SP!Index, Index, Script!Index, SP!windowIdx, windowIdx,
              Script!windowIdx, SP!windowMs, Script!windowMs
  <1>1. SP!vars = Script!vars
    BY DEF SP!vars, Script!vars
  <1>2. SP!Init <=> Script!Init
    BY DEF SP!Init, Script!Init, SP!NoKey, Script!NoKey
  <1>3. \A w : SP!GET(w) = Script!GET(w)
    BY DEF SP!GET, Script!GET
  <1>4. \A now : SP!weighted(now) = Script!weighted(now)
    BY <1>3 DEF SP!weighted, Script!weighted, SP!prevCount, Script!prevCount,
                SP!currCount, Script!currCount
  <1>5. \A now : SP!Admit(now) <=> Script!Admit(now)
    BY <1>3, <1>4 DEF SP!Admit, Script!Admit, SP!currCount, Script!currCount,
       SP!prevCount, Script!prevCount, SP!keyLife, Script!keyLife,
       SP!RoundsDown, Script!RoundsDown
  <1>6. \A now : SP!Refuse(now) <=> Script!Refuse(now)
    BY <1>4 DEF SP!Refuse, Script!Refuse, SP!retryAfter, Script!retryAfter,
       SP!ttl, Script!ttl
  <1>7. \A first : SP!Restart(first) <=> Script!Restart(first)
    BY DEF SP!Restart, Script!Restart, SP!NoKey, Script!NoKey
  <1>8. SP!Tick <=> Script!Tick
    BY DEF SP!Tick, Script!Tick
  <1>9. SP!Readings = Script!Readings
    BY DEF SP!Readings, Script!Readings
  <1>10. SP!Next <=> Script!Next
    BY <1>5, <1>6, <1>7, <1>8, <1>9 DEF SP!Next, Script!Next
  <1> QED
    BY <1>1, <1>2, <1>10

LEMMA KeysInit == Init => SP!QuotaInv
  BY SP!QuotaInit, SameScript, LimiterAssumption DEF Init, LimiterAssumption

LEMMA KeysStep ==
    ASSUME Lag <= Script!windowMs, ReadingsInv, SP!QuotaInv, [Next]_vars
    PROVE  SP!QuotaInv'
  <1>1. SP!Next \/ UNCHANGED SP!vars
    <2>1. Script!Next \/ UNCHANGED Script!vars
      BY ScriptStep
    <2>2. UNCHANGED Script!vars => UNCHANGED SP!vars
      BY DEF Script!vars, SP!vars
    <2> QED
      BY <2>1, <2>2, SameScript
  <1>2. Lag <= SP!windowMs
    BY SameScript
  <1> QED
    BY <1>1, <1>2, SP!QuotaStep, LimiterAssumption DEF LimiterAssumption

-----------------------------------------------------------------------------
(* Admissions and answers.                                                 *)

\* An admission to window w whose reply is on its way.
OnWay(c, w) == c.stage = "evaluated" /\ c.allowed /\ windowIdx(c.now) = w

Flight(w) == {r \in Request : OnWay(req[r], w)}

LedgerInv ==
    /\ answered \in [Index -> Nat]
    /\ faults \in Nat
    /\ ChargedAsAnswered
    /\ faults = 0 =>
           /\ \A p \in Process : link[p] = "up"
           /\ \A r \in Request : req[r].stage # "failed"

LEMMA FlightSize ==
    ASSUME NEW w
    PROVE  /\ InFlight(w) = Cardinality(Flight(w))
           /\ IsFiniteSet(Flight(w)) /\ InFlight(w) \in Nat
  <1>1. InFlight(w) = Cardinality(Flight(w))
    BY DEF InFlight, Flight, OnWay
  <1>2. IsFiniteSet(Flight(w))
    BY FS_Subset, LimiterAssumption DEF Flight, LimiterAssumption
  <1> QED
    BY <1>1, <1>2, FS_CardinalityType

\* The same of the next state.
LEMMA FlightSizeNext ==
    ASSUME NEW w
    PROVE  /\ InFlight(w)' = Cardinality(Flight(w)')
           /\ IsFiniteSet(Flight(w)') /\ InFlight(w)' \in Nat
  <1>1. InFlight(w)' = Cardinality(Flight(w)')
    BY DEF InFlight, Flight, OnWay
  <1>2. IsFiniteSet(Flight(w)')
    BY FS_Subset, LimiterAssumption DEF Flight, LimiterAssumption
  <1> QED
    BY <1>1, <1>2, FS_CardinalityType

LEMMA FlightKept ==
    ASSUME \A r \in Request : \A w \in Index :
               OnWay(req[r], w)' <=> OnWay(req[r], w)
    PROVE  \A w \in Index : InFlight(w)' = InFlight(w)
  <1> TAKE w \in Index
  <1>1. Flight(w)' = Flight(w)
    BY DEF Flight
  <1> QED
    BY <1>1, FlightSize, FlightSizeNext

LEMMA FlightShrinks ==
    ASSUME \A r \in Request : \A w \in Index :
               OnWay(req[r], w)' => OnWay(req[r], w)
    PROVE  \A w \in Index : InFlight(w)' <= InFlight(w)
  <1> TAKE w \in Index
  <1>1. Flight(w)' \in SUBSET Flight(w)
    BY DEF Flight
  <1> QED
    BY <1>1, FlightSize, FlightSizeNext, FS_Subset

\* A step after which what is charged and what is answered agree as before.
LEMMA LedgerKept ==
    ASSUME LedgerInv, SP!TypeOK,
           UNCHANGED <<admitted, answered, memory, link, faults>>,
           \A r \in Request : req'[r].stage = "failed" =>
                                  req[r].stage = "failed" \/ faults # 0,
           \A w \in Index : InFlight(w)' = InFlight(w)
    PROVE  LedgerInv'
  BY DEF LedgerInv, ChargedAsAnswered, NoBucket

\* A fault may lose what is in flight.
LEMMA LedgerFault ==
    ASSUME LedgerInv, SP!TypeOK, Fault,
           answered' \in [Index -> Nat],
           \A w \in Index :
               \/ /\ answered'[w] = answered[w] /\ admitted'[w] = admitted[w]
                  /\ InFlight(w)' <= InFlight(w)
               \/ answered'[w] = 0 /\ admitted'[w] = 0 /\ InFlight(w)' = 0
    PROVE  LedgerInv'
  <1>1. faults \in Nat /\ faults' = faults + 1
    BY DEF LedgerInv, Fault
  <1>2. \A w \in Index : (answered[w] + InFlight(w) <= admitted[w])'
    <2> TAKE w \in Index
    <2>1. /\ answered[w] \in Nat /\ admitted[w] \in Nat
          /\ answered[w] + InFlight(w) <= admitted[w]
      BY SameScript DEF LedgerInv, ChargedAsAnswered, SP!TypeOK
    <2> QED
      BY <2>1, FlightSize, FlightSizeNext
  <1> QED
    BY <1>1, <1>2 DEF LedgerInv, ChargedAsAnswered

LEMMA LedgerInit == Init => LedgerInv
  <1> SUFFICES ASSUME Init PROVE LedgerInv
    OBVIOUS
  <1>1. \A w \in Index : InFlight(w) = 0
    <2> TAKE w \in Index
    <2>1. Flight(w) = {}
      BY DEF Init, NoCall, Flight, OnWay
    <2> QED
      BY <2>1, FlightSize, FS_EmptySet
  <1>2. \A w \in Index : admitted[w] = 0 /\ answered[w] = 0
    BY DEF Init, Script!Init, Index
  <1>3. \A r \in Request : req[r].stage # "failed"
    BY DEF Init, NoCall
  <1> QED
    BY <1>1, <1>2, <1>3 DEF Init, LedgerInv, ChargedAsAnswered

\* Steps that neither charge nor answer anybody.
LEMMA LedgerQuiet ==
    ASSUME LedgerInv, ReadingsInv, SP!TypeOK,
           UNCHANGED <<admitted, answered, memory, link, faults>>,
           NEW r \in Request, NEW c, req' = [req EXCEPT ![r] = c],
           req[r].stage # "evaluated", c.stage # "evaluated",
           c.stage # "failed"
    PROVE  LedgerInv'
  <1>1. req'[r] = c /\ \A q \in Request \ {r} : req'[q] = req[q]
    BY DEF ReadingsInv
  <1>2. \A q \in Request : \A w \in Index :
            OnWay(req[q], w)' <=> OnWay(req[q], w)
    BY <1>1 DEF OnWay
  <1>3. \A q \in Request : req'[q].stage = "failed" => req[q].stage = "failed"
    BY <1>1
  <1> QED
    BY <1>2, <1>3, FlightKept, LedgerKept

\* The script charges a caller whose reply is then in flight.
LEMMA LedgerEvaluate ==
    ASSUME LedgerInv, ReadingsInv, SP!TypeOK,
           NEW r \in Request, Evaluate(r)
    PROVE  LedgerInv'
  <1> DEFINE now == req[r].now
  <1>1. /\ req[r].stage = "sent"
        /\ UNCHANGED <<link, memory, answered, faults>>
    BY DEF Evaluate, histories
  <1>2. CASE Script!Refuse(now) /\ req' = [req EXCEPT ![r] =
                 [@ EXCEPT !.stage = "evaluated", !.allowed = FALSE]]
    <2>1. admitted' = admitted
      BY <1>2 DEF Script!Refuse
    <2>2. /\ req'[r].stage = "evaluated" /\ req'[r].allowed = FALSE
          /\ \A q \in Request \ {r} : req'[q] = req[q]
      BY <1>2 DEF ReadingsInv, Call
    <2>3. \A q \in Request : \A w \in Index :
              OnWay(req[q], w)' <=> OnWay(req[q], w)
      BY <1>1, <2>2 DEF OnWay
    <2>4. \A q \in Request : req'[q].stage = "failed" => req[q].stage = "failed"
      BY <2>2
    <2> QED
      BY <1>1, <2>1, <2>3, <2>4, FlightKept, LedgerKept
  <1>3. CASE Script!Admit(now) /\ req' = [req EXCEPT ![r] =
                 [@ EXCEPT !.stage = "evaluated", !.allowed = TRUE]]
    <2> DEFINE v == windowIdx(now)
    <2>1. /\ req'[r].stage = "evaluated" /\ req'[r].allowed = TRUE
          /\ req'[r].now = now
          /\ \A q \in Request \ {r} : req'[q] = req[q]
      BY <1>3 DEF ReadingsInv, Call
    <2>2. admitted' = [admitted EXCEPT ![v] = @ + 1]
      BY <1>3 DEF Script!Admit, windowIdx
    <2> HIDE DEF now
    <2>3. \A w \in Index :
              InFlight(w)' = IF w = v THEN InFlight(w) + 1 ELSE InFlight(w)
      <3> TAKE w \in Index
      <3>1. \A q \in Request : OnWay(req[q], w)' <=>
                OnWay(req[q], w) \/ (q = r /\ w = v)
        BY <1>1, <2>1 DEF OnWay
      <3>2. r \notin Flight(w)
        BY <1>1 DEF Flight, OnWay
      <3>3. Flight(w)' = IF w = v THEN Flight(w) \cup {r} ELSE Flight(w)
        BY <3>1 DEF Flight
      <3> QED
        BY <3>2, <3>3, FlightSize, FlightSizeNext, FS_AddElement
    <2>4. admitted \in [Index -> Nat]
      BY SameScript DEF SP!TypeOK
    <2>5. \A w \in Index :
              admitted'[w] = IF w = v THEN admitted[w] + 1 ELSE admitted[w]
      BY <2>2, <2>4
    <2>6. \A w \in Index :
              /\ answered'[w] = answered[w] /\ answered[w] \in Nat
              /\ admitted[w] \in Nat /\ InFlight(w) \in Nat
      BY <1>1, <2>4, FlightSize DEF LedgerInv
    <2> HIDE DEF v
    <2>7. \A w \in Index : (answered[w] + InFlight(w) <= admitted[w])'
      BY <2>3, <2>5, <2>6 DEF LedgerInv, ChargedAsAnswered
    <2>8. faults = 0 =>
              \A w \in Index : (answered[w] + InFlight(w) = admitted[w])'
      BY <2>3, <2>5, <2>6 DEF LedgerInv, ChargedAsAnswered
    <2>9. faults = 0 => \A q \in Request : req'[q].stage # "failed"
      BY <2>1 DEF LedgerInv
    <2> QED
      BY <1>1, <2>7, <2>8, <2>9 DEF LedgerInv, ChargedAsAnswered, NoBucket
  <1> QED
    BY <1>2, <1>3 DEF Evaluate

\* A reply turns what is in flight into an answer.
LEMMA LedgerReply ==
    ASSUME LedgerInv, ReadingsInv, SP!TypeOK, NEW r \in Request, Reply(r)
    PROVE  LedgerInv'
  <1> DEFINE v == windowIdx(req[r].now)
             gain == IF req[r].allowed THEN 1 ELSE 0
  <1>1. /\ req[r].stage = "evaluated"
        /\ req'[r] = NoCall /\ \A q \in Request \ {r} : req'[q] = req[q]
        /\ answered' = [answered EXCEPT ![v] = @ + gain]
        /\ UNCHANGED <<admitted, link, memory, faults>>
    BY DEF Reply, ReadingsInv, shared
  <1>2. \A w \in Index :
            InFlight(w)' = IF w = v THEN InFlight(w) - gain ELSE InFlight(w)
    <2> TAKE w \in Index
    <2>1. \A q \in Request : OnWay(req[q], w)' <=> OnWay(req[q], w) /\ q # r
      BY <1>1 DEF OnWay, NoCall
    <2>2. Flight(w)' = Flight(w) \ {r}
      BY <2>1 DEF Flight
    <2>3. r \in Flight(w) <=> req[r].allowed /\ w = v
      BY <1>1 DEF Flight, OnWay
    <2> QED
      BY <2>2, <2>3, FlightSize, FlightSizeNext, FS_RemoveElement
  <1>3. gain \in Nat
    OBVIOUS
  <1> HIDE DEF v, gain
  <1>4. \A w \in Index :
            answered'[w] = IF w = v THEN answered[w] + gain ELSE answered[w]
    BY <1>1 DEF LedgerInv
  <1>5. \A w \in Index :
            /\ admitted'[w] = admitted[w] /\ answered[w] \in Nat
            /\ admitted[w] \in Nat /\ InFlight(w) \in Nat
    BY <1>1, FlightSize, SameScript DEF LedgerInv, SP!TypeOK
  <1>6. answered' \in [Index -> Nat]
    <2>1. \A w \in Index : answered'[w] \in Nat
      BY <1>3, <1>4, <1>5
    <2>2. DOMAIN answered' = Index /\ answered' = [w \in Index |-> answered'[w]]
      BY <1>1 DEF LedgerInv
    <2> QED
      BY <2>1, <2>2
  <1>7. \A w \in Index : (answered[w] + InFlight(w) <= admitted[w])'
    BY <1>2, <1>3, <1>4, <1>5 DEF LedgerInv, ChargedAsAnswered
  <1>8. faults = 0 =>
            \A w \in Index : (answered[w] + InFlight(w) = admitted[w])'
    BY <1>2, <1>3, <1>4, <1>5 DEF LedgerInv, ChargedAsAnswered
  <1>9. faults = 0 => \A q \in Request : req'[q].stage # "failed"
    BY <1>1 DEF LedgerInv, NoCall
  <1> QED
    BY <1>1, <1>6, <1>7, <1>8, <1>9 DEF LedgerInv, ChargedAsAnswered, NoBucket

LEMMA LedgerStep ==
    ASSUME LedgerInv, ReadingsInv, SP!TypeOK, [Next]_vars
    PROVE  LedgerInv'
  <1>1. CASE Tick
    <2>1. UNCHANGED <<admitted, answered, memory, link, faults, req>>
      BY <1>1 DEF Tick, Script!Tick
    <2>2. \A r \in Request : \A w \in Index :
              OnWay(req[r], w)' <=> OnWay(req[r], w)
      BY <2>1 DEF OnWay
    <2> QED
      BY <2>1, <2>2, FlightKept, LedgerKept
  <1>2. ASSUME NEW r \in Request, Consume(r) PROVE LedgerInv'
    <2>1. /\ req' = [req EXCEPT ![r] = [req[r] EXCEPT !.stage = "ping"]]
          /\ req[r].stage = "idle"
          /\ UNCHANGED <<admitted, answered, memory, link, faults>>
      BY <1>2 DEF Consume, shared, histories
    <2>2. [req[r] EXCEPT !.stage = "ping"].stage = "ping"
      BY DEF ReadingsInv, Call
    <2> QED
      BY <2>1, <2>2, LedgerQuiet
  <1>3. ASSUME NEW r \in Request, Pong(r) PROVE LedgerInv'
    <2> DEFINE c == [req[r] EXCEPT !.stage = "sent", !.now = clock]
    <2>1. /\ req' = [req EXCEPT ![r] = c]
          /\ req[r].stage = "ping"
          /\ UNCHANGED <<admitted, answered, memory, link, faults>>
      BY <1>3 DEF Pong, shared, histories
    <2>2. c.stage = "sent"
      BY DEF ReadingsInv, Call
    <2> HIDE DEF c
    <2> QED
      BY <2>1, <2>2, LedgerQuiet
  <1>4. ASSUME NEW r \in Request, Evaluate(r) PROVE LedgerInv'
    BY <1>4, LedgerEvaluate
  <1>5. ASSUME NEW r \in Request, Reply(r) PROVE LedgerInv'
    BY <1>5, LedgerReply
  <1>6. ASSUME NEW r \in Request, FallBack(r) PROVE LedgerInv'
    <2>1. /\ req[r].stage = "failed"
          /\ req'[r] = NoCall /\ \A q \in Request \ {r} : req'[q] = req[q]
          /\ UNCHANGED <<admitted, answered, link, faults>>
      BY <1>6 DEF FallBack, shared, ReadingsInv
    <2>2. faults # 0
      BY <2>1 DEF LedgerInv
    <2>3. \A q \in Request : \A w \in Index :
              OnWay(req[q], w)' <=> OnWay(req[q], w)
      BY <2>1 DEF OnWay, NoCall
    <2>4. \A w \in Index : InFlight(w)' = InFlight(w)
      BY <2>3, FlightKept
    <2> QED
      BY <2>1, <2>2, <2>4 DEF LedgerInv, ChargedAsAnswered
  <1>7. ASSUME NEW r \in Request, RedisError(r) PROVE LedgerInv'
    <2>1. /\ Fault /\ req[r].stage \in {"ping", "sent"}
          /\ req'[r] = FailedCall /\ \A q \in Request \ {r} : req'[q] = req[q]
          /\ UNCHANGED <<admitted, answered>>
      BY <1>7 DEF RedisError, shared, histories, ReadingsInv
    <2>2. \A q \in Request : \A w \in Index :
              OnWay(req[q], w)' => OnWay(req[q], w)
      BY <2>1 DEF OnWay, FailedCall, NoCall
    <2>3. \A w \in Index : InFlight(w)' <= InFlight(w)
      BY <2>2, FlightShrinks
    <2>4. answered' \in [Index -> Nat]
      BY <2>1 DEF LedgerInv
    <2> QED
      BY <2>1, <2>3, <2>4, LedgerFault
  <1>8. ASSUME NEW p \in Process, Disconnect(p) PROVE LedgerInv'
    <2>1. Fault /\ req' = Unanswered({p}) /\ UNCHANGED <<admitted, answered>>
      BY <1>8 DEF Disconnect, shared, histories
    <2>2. \A q \in Request : \A w \in Index :
              OnWay(req[q], w)' => OnWay(req[q], w)
      <3> TAKE q \in Request
      <3>1. CASE Server[q] \in {p} /\ req[q].stage = "evaluated"
        <4>1. req'[q].stage = "sent"
          BY <2>1, <3>1 DEF Unanswered, ReadingsInv, Call
        <4> QED
          BY <4>1 DEF OnWay
      <3>2. CASE ~(Server[q] \in {p} /\ req[q].stage = "evaluated")
        BY <2>1, <3>2 DEF Unanswered, OnWay
      <3> QED
        BY <3>1, <3>2
    <2>3. \A w \in Index : InFlight(w)' <= InFlight(w)
      BY <2>2, FlightShrinks
    <2>4. answered' \in [Index -> Nat]
      BY <2>1 DEF LedgerInv
    <2> QED
      BY <2>1, <2>3, <2>4, LedgerFault
  <1>9. ASSUME NEW p \in Process, Reconnect(p) PROVE LedgerInv'
    <2>1. /\ link[p] = "down" /\ link' = [link EXCEPT ![p] = "up"]
          /\ UNCHANGED <<admitted, answered, memory, faults, req>>
      BY <1>9 DEF Reconnect, shared, histories
    <2>2. faults # 0
      BY <2>1 DEF LedgerInv
    <2>3. \A r \in Request : \A w \in Index :
              OnWay(req[r], w)' <=> OnWay(req[r], w)
      BY <2>1 DEF OnWay
    <2>4. \A w \in Index : InFlight(w)' = InFlight(w)
      BY <2>3, FlightKept
    <2> QED
      BY <2>1, <2>2, <2>4 DEF LedgerInv, ChargedAsAnswered
  <1>10. ASSUME NEW p \in Process, Flush(p) PROVE LedgerInv'
    <2>1. /\ link[p] = "down"
          /\ UNCHANGED <<admitted, answered, memory, link, faults>>
          /\ \A r \in Request :
                 \/ req'[r] = req[r]
                 \/ req'[r] = FailedCall /\ req[r].stage \in {"ping", "sent"}
      BY <1>10 DEF Flush, Calls, shared, histories
    <2>2. faults # 0
      BY <2>1 DEF LedgerInv
    <2>3. \A r \in Request : \A w \in Index :
              OnWay(req[r], w)' <=> OnWay(req[r], w)
      BY <2>1 DEF OnWay, FailedCall, NoCall
    <2> QED
      BY <2>1, <2>2, <2>3, FlightKept, LedgerKept
  <1>11. ASSUME NEW p \in Process, Crash(p) PROVE LedgerInv'
    <2>1. /\ Fault /\ UNCHANGED <<admitted, answered>>
          /\ \A r \in Request : req'[r] \in {req[r], NoCall}
      BY <1>11 DEF Crash, shared
    <2>2. \A q \in Request : \A w \in Index :
              OnWay(req[q], w)' => OnWay(req[q], w)
      BY <2>1 DEF OnWay, NoCall
    <2>3. \A w \in Index : InFlight(w)' <= InFlight(w)
      BY <2>2, FlightShrinks
    <2>4. answered' \in [Index -> Nat]
      BY <2>1 DEF LedgerInv
    <2> QED
      BY <2>1, <2>3, <2>4, LedgerFault
  <1>12. ASSUME NEW first \in Index, RedisRestart(first) PROVE LedgerInv'
    <2>1. /\ Fault /\ req' = Unanswered(Process)
          /\ answered' = [w \in Index |-> IF w < first THEN answered[w] ELSE 0]
          /\ admitted' = [w \in Index |-> IF w < first THEN admitted[w] ELSE 0]
      BY <1>12 DEF RedisRestart, Script!Restart, Index
    <2>2. \A q \in Request : req'[q].stage # "evaluated"
      <3> TAKE q \in Request
      <3>1. Server[q] \in Process
        BY LimiterAssumption DEF LimiterAssumption
      <3>2. CASE req[q].stage = "evaluated"
        BY <2>1, <3>1, <3>2 DEF Unanswered, ReadingsInv, Call
      <3>3. CASE req[q].stage # "evaluated"
        BY <2>1, <3>3 DEF Unanswered
      <3> QED
        BY <3>2, <3>3
    <2>3. \A w \in Index : InFlight(w)' = 0
      <3> TAKE w \in Index
      <3>1. Flight(w)' = {}
        BY <2>2 DEF Flight, OnWay
      <3> QED
        BY <3>1, FlightSizeNext, FS_EmptySet
    <2>4. answered' \in [Index -> Nat]
      BY <2>1 DEF LedgerInv
    <2>5. \A w \in Index :
              \/ answered'[w] = answered[w] /\ admitted'[w] = admitted[w]
              \/ answered'[w] = 0 /\ admitted'[w] = 0
      BY <2>1
    <2>6. \A w \in Index : InFlight(w)' <= InFlight(w)
      BY <2>3, FlightSize
    <2> QED
      BY <2>1, <2>3, <2>4, <2>5, <2>6, LedgerFault
  <1>13. CASE UNCHANGED vars
    <2>1. \A r \in Request : \A w \in Index :
              OnWay(req[r], w)' <=> OnWay(req[r], w)
      BY <1>13 DEF OnWay, vars
    <2> QED
      BY <1>13, <2>1, FlightKept, LedgerKept DEF vars
  <1> QED
    BY <1>1, <1>2, <1>3, <1>4, <1>5, <1>6, <1>7, <1>8, <1>9, <1>10, <1>11,
       <1>12, <1>13
    DEF Next, consume

-----------------------------------------------------------------------------
(* What Redis answered before it lost the key of a window.                 *)

LossInv ==
    /\ forgotten \in [Index -> Nat]
    /\ losses \in [Index -> Nat]
    /\ \A w \in Index : forgotten[w] <= losses[w] * Limit

LEMMA LossInit == Init => LossInv
  <1> SUFFICES ASSUME Init PROVE LossInv
    OBVIOUS
  <1>1. /\ forgotten = [w \in Index |-> 0]
        /\ losses = [w \in Index |-> 0]
    BY DEF Init
  <1>2. Limit \in Nat
    BY LimiterAssumption DEF LimiterAssumption
  <1> QED
    BY <1>1, <1>2 DEF LossInv

\* A window never has more answers than the limit.
LEMMA AnsweredWithin ==
    ASSUME LedgerInv, SP!QuotaInv, NEW w \in Index
    PROVE  /\ answered[w] \in Nat /\ admitted[w] \in Nat
           /\ answered[w] <= admitted[w] /\ admitted[w] <= Limit
  <1>1. answered[w] + InFlight(w) <= admitted[w]
    BY DEF LedgerInv, ChargedAsAnswered
  <1>2. admitted[w] \in Nat /\ admitted[w] <= Limit
    BY SameScript DEF SP!QuotaInv, SP!TypeOK, SP!WindowQuota
  <1>3. answered[w] \in Nat /\ InFlight(w) \in Nat
    BY FlightSize DEF LedgerInv
  <1> QED
    BY <1>1, <1>2, <1>3

LEMMA LossStep ==
    ASSUME LossInv, LedgerInv, SP!QuotaInv, [Next]_vars
    PROVE  LossInv'
  <1>1. CASE UNCHANGED <<forgotten, losses>>
    BY <1>1 DEF LossInv
  <1>2. ASSUME NEW first \in Index, RedisRestart(first) PROVE LossInv'
    <2> DEFINE gone(w) == IF w < first THEN 0 ELSE answered[w]
               lost(w) == IF w < first \/ admitted[w] = 0 THEN 0 ELSE 1
    <2>1. /\ forgotten' = [w \in Index |-> forgotten[w] + gone(w)]
          /\ losses' = [w \in Index |-> losses[w] + lost(w)]
      BY <1>2 DEF RedisRestart
    <2>2. Limit \in Nat
      BY LimiterAssumption DEF LimiterAssumption
    <2>3. ASSUME NEW w \in Index
          PROVE  /\ gone(w) \in Nat /\ lost(w) \in {0, 1}
                 /\ gone(w) <= IF lost(w) = 0 THEN 0 ELSE Limit
      BY <2>2, AnsweredWithin
    <2> HIDE DEF gone, lost
    <2>4. ASSUME NEW w \in Index
          PROVE  /\ forgotten[w] + gone(w) \in Nat
                 /\ losses[w] + lost(w) \in Nat
                 /\ forgotten[w] + gone(w) <= (losses[w] + lost(w)) * Limit
      <3>1. /\ forgotten[w] \in Nat /\ losses[w] \in Nat
            /\ forgotten[w] <= losses[w] * Limit
        BY DEF LossInv
      <3>2. CASE lost(w) = 0
        BY <2>2, <2>3, <3>1, <3>2
      <3>3. CASE lost(w) = 1
        <4>1. /\ losses[w] * Limit \in Nat
              /\ (losses[w] + 1) * Limit = losses[w] * Limit + Limit
          BY <2>2, <3>1, SMTT(30)
        <4>2. gone(w) \in Nat /\ gone(w) <= Limit
          BY <2>3, <3>3
        <4> QED
          BY <2>2, <3>1, <3>3, <4>1, <4>2
      <3> QED
        BY <2>3, <3>2, <3>3
    <2> QED
      BY <2>1, <2>4 DEF LossInv
  <1>3. ASSUME NEW r \in Request, Consume(r) \/ consume(r) \/ RedisError(r)
        PROVE  LossInv'
    <2>1. UNCHANGED <<forgotten, losses>>
      BY <1>3 DEF Consume, consume, Pong, Evaluate, Reply, FallBack,
         RedisError, histories
    <2> QED
      BY <1>1, <2>1
  <1>4. ASSUME NEW p \in Process,
               Disconnect(p) \/ Reconnect(p) \/ Flush(p) \/ Crash(p)
        PROVE  LossInv'
    <2>1. UNCHANGED <<forgotten, losses>>
      BY <1>4 DEF Disconnect, Reconnect, Flush, Crash, histories
    <2> QED
      BY <1>1, <2>1
  <1>5. CASE Tick
    BY <1>1, <1>5 DEF Tick
  <1>6. CASE UNCHANGED vars
    BY <1>1, <1>6 DEF vars
  <1> QED
    BY <1>2, <1>3, <1>4, <1>5, <1>6 DEF Next

-----------------------------------------------------------------------------
(* What the memory of a process lets through.                              *)

\* What the lives that ended in this window may have let through.
Lived(p) == crashes[p] * Limit

\* A bucket opened in an earlier window spent some of its quota there; one
\* opened in this window came after at most one other that was still in use,
\* and so does the first bucket of a life that started in this window.
PassedAsCounted(p) ==
    LET b == memory[p] IN
    \/ b = NoBucket(p) /\ passed[p] < Lived(p) + Limit
    \/ /\ b \in [count: 1..Limit, windowStart: 0..clock]
       /\ passed[p] < Lived(p) + IF windowIdx(b.windowStart) < windowIdx(clock)
                                 THEN b.count ELSE Limit + b.count

MemoryInv ==
    /\ memory \in [Process -> [count: Nat, windowStart: Int]]
    /\ passed \in [Process -> Nat]
    /\ crashes \in [Process -> Nat]
    /\ \A p \in Process : PassedAsCounted(p)

LEMMA NoBucketIs == \A p : NoBucket(p) = [count |-> 0, windowStart |-> -1]
  BY DEF NoBucket, FallBackService!NoBucket

LEMMA BucketIs ==
    ASSUME NEW p \in Process
    PROVE  bucket(p) =
              IF \/ memory[p] = NoBucket(p)
                 \/ clock >= memory[p].windowStart + Script!windowMs
              THEN [count |-> 0, windowStart |-> clock] ELSE memory[p]
  BY DEF bucket, NoBucket, FallBackService!bucket, FallBackService!Expired,
     FallBackService!NoBucket, FallBackService!windowMs, Script!windowMs

\* An earlier moment is in an earlier window if it is a whole window ago, and
\* never in a later one.
LEMMA Windows ==
    ASSUME NEW s \in Nat, NEW t \in Nat, s <= t
    PROVE  /\ windowIdx(s) \in Nat /\ windowIdx(t) \in Nat
           /\ windowIdx(s) <= windowIdx(t)
           /\ t >= s + Script!windowMs => windowIdx(s) < windowIdx(t)
  <1> DEFINE W == Script!windowMs
             i == windowIdx(s)
             j == windowIdx(t)
  <1>1. W \in Nat \ {0}
    BY SP!WindowType, SameScript, LimiterAssumption DEF LimiterAssumption
  <1>2. i \in Nat /\ j \in Nat /\ i <= j
    BY SP!Reading, SP!IdxMonotone, SameScript, LimiterAssumption
       DEF LimiterAssumption
  <1>3. i * W <= s /\ t < (j + 1) * W
    BY SP!Reading, SameScript, LimiterAssumption DEF LimiterAssumption
  <1> HIDE DEF W, i, j
  <1>4. ASSUME t >= s + W, i = j PROVE FALSE
    <2>1. (j + 1) * W = j * W + W /\ j * W \in Nat
      BY <1>1, <1>2, SMTT(30)
    <2> QED
      BY <1>1, <1>3, <1>4, <2>1
  <1> QED
    BY <1>2, <1>4 DEF W, i, j

LEMMA MemoryInit == Init => MemoryInv
  <1> SUFFICES ASSUME Init PROVE MemoryInv
    OBVIOUS
  <1>1. /\ memory = [p \in Process |-> NoBucket(p)]
        /\ passed = [p \in Process |-> 0]
        /\ crashes = [p \in Process |-> 0]
    BY DEF Init
  <1>2. \A p \in Process : Lived(p) = 0
    BY <1>1, LimiterAssumption DEF Lived, LimiterAssumption
  <1> QED
    BY <1>1, <1>2, NoBucketIs, LimiterAssumption
       DEF MemoryInv, PassedAsCounted, LimiterAssumption

LEMMA LivedType ==
    ASSUME MemoryInv, NEW p \in Process
    PROVE  Lived(p) \in Nat
  <1>1. crashes[p] \in Nat /\ Limit \in Nat
    BY LimiterAssumption DEF MemoryInv, LimiterAssumption
  <1> QED
    BY <1>1, SMTT(30) DEF Lived

\* Steps that leave memory and time alone.
LEMMA MemoryKept ==
    ASSUME MemoryInv, UNCHANGED <<clock, memory, passed, crashes>>
    PROVE  MemoryInv'
  BY DEF MemoryInv, PassedAsCounted, NoBucket, Lived

LEMMA MemoryTick ==
    ASSUME MemoryInv, ReadingsInv, Tick
    PROVE  MemoryInv'
  <1>1. clock \in Nat /\ clock' = clock + 1 /\ memory' = memory
    BY LimiterAssumption
       DEF Tick, Script!Tick, ReadingsInv, LimiterAssumption
  <1>2. Limit \in Nat \ {0}
    BY LimiterAssumption DEF LimiterAssumption
  <1>3. ASSUME NEW p \in Process, memory[p] # NoBucket(p)
        PROVE  /\ memory[p] \in [count: 1..Limit, windowStart: 0..clock']
               /\ memory[p].count \in 1..Limit
    BY <1>1, <1>3 DEF MemoryInv, PassedAsCounted
  <1>4. CASE windowIdx(clock') = windowIdx(clock)
    <2>1. passed' = passed /\ crashes' = crashes
      BY <1>1, <1>4 DEF Tick
    <2>2. ASSUME NEW p \in Process PROVE PassedAsCounted(p)'
      <3>1. Lived(p)' = Lived(p) /\ NoBucket(p)' = NoBucket(p)
        BY <2>1, NoBucketIs DEF Lived
      <3>2. CASE memory[p] = NoBucket(p)
        BY <1>1, <2>1, <3>1, <3>2, NoBucketIs DEF MemoryInv, PassedAsCounted
      <3>3. CASE memory[p] # NoBucket(p)
        BY <1>1, <1>3, <1>4, <2>1, <3>1, <3>3 DEF MemoryInv, PassedAsCounted
      <3> QED
        BY <3>2, <3>3
    <2> QED
      BY <1>1, <2>1, <2>2 DEF MemoryInv
  <1>5. CASE windowIdx(clock') # windowIdx(clock)
    <2>1. /\ passed' = [p \in Process |-> 0]
          /\ crashes' = [p \in Process |-> 0]
      BY <1>1, <1>5 DEF Tick
    <2>2. ASSUME NEW p \in Process PROVE PassedAsCounted(p)'
      <3>1. Lived(p)' = 0 /\ passed'[p] = 0 /\ NoBucket(p)' = NoBucket(p)
        BY <1>2, <2>1, NoBucketIs DEF Lived
      <3>2. CASE memory[p] = NoBucket(p)
        BY <1>1, <1>2, <3>1, <3>2 DEF PassedAsCounted
      <3>3. CASE memory[p] # NoBucket(p)
        BY <1>1, <1>2, <1>3, <3>1, <3>3 DEF PassedAsCounted
      <3> QED
        BY <3>2, <3>3
    <2> QED
      BY <1>1, <2>1, <2>2 DEF MemoryInv
  <1> QED
    BY <1>4, <1>5

LEMMA MemoryFallBack ==
    ASSUME MemoryInv, ReadingsInv, NEW r \in Request, FallBack(r)
    PROVE  MemoryInv'
  <1> DEFINE p == Server[r]
             b == bucket(p)
             allow == IF b.count < Limit THEN 1 ELSE 0
  <1>1. /\ p \in Process /\ Limit \in Nat \ {0}
        /\ clock \in Nat /\ clock' = clock
        /\ memory' = [memory EXCEPT ![p] = [b EXCEPT !.count = @ + allow]]
        /\ passed' = [passed EXCEPT ![p] = @ + allow]
        /\ crashes' = crashes
    <2>1. p \in Process /\ Limit \in Nat \ {0}
      BY LimiterAssumption DEF LimiterAssumption
    <2>2. clock \in Nat
      BY LimiterAssumption DEF ReadingsInv, LimiterAssumption
    <2>3. clock' = clock /\ crashes' = crashes
      BY DEF FallBack, shared
    <2>4. /\ memory' = [memory EXCEPT ![p] = [b EXCEPT !.count = @ + allow]]
          /\ passed' = [passed EXCEPT ![p] = @ + allow]
      BY Zenon DEF FallBack
    <2> QED
      BY <2>1, <2>2, <2>3, <2>4
  <1>2. /\ b \in [count: 0..Limit, windowStart: 0..clock]
        /\ b.count = 0 =>
               b.windowStart = clock /\ passed[p] < Lived(p) + Limit
        /\ b.count > 0 =>
               passed[p] < Lived(p) +
                   IF windowIdx(b.windowStart) < windowIdx(clock)
                   THEN b.count ELSE Limit + b.count
    <2>0. Lived(p) \in Nat
      BY <1>1, LivedType
    <2>1. CASE memory[p] = NoBucket(p)
      <3>1. b = [count |-> 0, windowStart |-> clock]
        BY <1>1, <2>1, BucketIs
      <3>2. passed[p] < Lived(p) + Limit
        BY <1>1, <2>1, NoBucketIs DEF MemoryInv, PassedAsCounted
      <3> HIDE DEF b
      <3> QED
        BY <1>1, <3>1, <3>2
    <2>2. CASE memory[p] # NoBucket(p)
      <3> DEFINE m == memory[p]
      <3>1. /\ m \in [count: 1..Limit, windowStart: 0..clock]
            /\ passed[p] < Lived(p) +
                   IF windowIdx(m.windowStart) < windowIdx(clock)
                   THEN m.count ELSE Limit + m.count
        BY <1>1, <2>2 DEF MemoryInv, PassedAsCounted
      <3>2. m.count \in 1..Limit /\ m.windowStart \in 0..clock
            /\ passed[p] \in Nat
        BY <1>1, <3>1 DEF MemoryInv
      <3>3. CASE clock >= m.windowStart + Script!windowMs
        <4>1. b = [count |-> 0, windowStart |-> clock]
          BY <1>1, <3>3, BucketIs
        <4>2. windowIdx(m.windowStart) < windowIdx(clock)
          BY <1>1, <3>2, <3>3, Windows
        <4>3. passed[p] < Lived(p) + Limit
          BY <1>1, <2>0, <3>1, <3>2, <4>2
        <4> HIDE DEF b
        <4> QED
          BY <1>1, <4>1, <4>3
      <3>4. CASE ~(clock >= m.windowStart + Script!windowMs)
        <4>1. b = m
          BY <1>1, <2>2, <3>4, BucketIs
        <4> HIDE DEF b, m
        <4> QED
          BY <1>1, <3>1, <3>2, <4>1
      <3> QED
        BY <3>3, <3>4
    <2> QED
      BY <2>1, <2>2
  <1> HIDE DEF b
  <1>3. b.count \in 0..Limit /\ b.windowStart \in 0..clock
    BY <1>2
  <1> DEFINE n == b.count + allow
  <1>4. /\ allow \in {0, 1}
        /\ n \in 1..Limit
        /\ [b EXCEPT !.count = @ + allow] = [count |-> n,
                                             windowStart |-> b.windowStart]
    BY <1>1, <1>2, <1>3
  <1>5. passed[p] \in Nat /\ Lived(p) \in Nat
    BY <1>1, LivedType DEF MemoryInv
  <1>6. passed[p] + allow < Lived(p) +
            IF windowIdx(b.windowStart) < windowIdx(clock)
            THEN n ELSE Limit + n
    <2>1. CASE b.count = 0
      <3>1. ~(windowIdx(b.windowStart) < windowIdx(clock))
        BY <1>1, <1>2, <2>1, Windows
      <3> QED
        BY <1>1, <1>2, <1>3, <1>4, <1>5, <2>1, <3>1
    <2>2. CASE b.count # 0
      <3>1. passed[p] < Lived(p) +
                IF windowIdx(b.windowStart) < windowIdx(clock)
                THEN b.count ELSE Limit + b.count
        BY <1>2, <1>3, <2>2
      <3> QED
        BY <1>1, <1>3, <1>4, <1>5, <3>1
    <2> QED
      BY <2>1, <2>2
  <1> HIDE DEF allow, n
  <1>7. /\ memory'[p] = [count |-> n, windowStart |-> b.windowStart]
        /\ passed'[p] = passed[p] + allow
        /\ \A q \in Process \ {p} : /\ memory'[q] = memory[q]
                                    /\ passed'[q] = passed[q]
    BY <1>1, <1>4 DEF MemoryInv
  <1>8. /\ memory' \in [Process -> [count: Nat, windowStart: Int]]
        /\ passed' \in [Process -> Nat]
    <2>1. [count |-> n, windowStart |-> b.windowStart]
              \in [count: Nat, windowStart: Int]
      BY <1>1, <1>3, <1>4
    <2>2. passed[p] + allow \in Nat
      BY <1>4, <1>5
    <2> QED
      BY <1>1, <1>4, <2>1, <2>2 DEF MemoryInv
  <1> HIDE DEF p
  <1>9. PassedAsCounted(p)'
    <2>1. memory'[p] \in [count: 1..Limit, windowStart: 0..clock]
      BY <1>3, <1>4, <1>7
    <2>2. memory'[p].windowStart = b.windowStart /\ memory'[p].count = n
      BY <1>7
    <2>3. Lived(p)' = Lived(p)
      BY <1>1 DEF Lived
    <2> QED
      BY <1>1, <1>6, <1>7, <2>1, <2>2, <2>3 DEF PassedAsCounted
  <1>10. \A q \in Process \ {p} : PassedAsCounted(q)'
    BY <1>1, <1>7 DEF MemoryInv, PassedAsCounted, NoBucket, Lived
  <1> QED
    BY <1>1, <1>8, <1>9, <1>10 DEF MemoryInv

LEMMA MemoryStep ==
    ASSUME MemoryInv, ReadingsInv, [Next]_vars
    PROVE  MemoryInv'
  <1>1. CASE Tick
    BY <1>1, MemoryTick
  <1>2. ASSUME NEW r \in Request, Consume(r) \/ Pong(r) \/ Reply(r) \/ RedisError(r)
        PROVE  MemoryInv'
    BY <1>2, MemoryKept DEF Consume, Pong, Reply, RedisError, shared, histories
  <1>3. ASSUME NEW r \in Request, Evaluate(r) PROVE MemoryInv'
    BY <1>3, MemoryKept DEF Evaluate, histories, Script!Admit, Script!Refuse
  <1>4. ASSUME NEW r \in Request, FallBack(r) PROVE MemoryInv'
    BY <1>4, MemoryFallBack
  <1>5. ASSUME NEW p \in Process, Disconnect(p) \/ Reconnect(p) \/ Flush(p)
        PROVE  MemoryInv'
    BY <1>5, MemoryKept DEF Disconnect, Reconnect, Flush, shared, histories
  <1>6. ASSUME NEW p \in Process, Crash(p) PROVE MemoryInv'
    <2>1. /\ memory' = [memory EXCEPT ![p] = NoBucket(p)]
          /\ crashes' = [crashes EXCEPT ![p] = @ + 1]
          /\ passed' = passed
          /\ clock' = clock
      BY <1>6 DEF Crash, shared
    <2>2. NoBucket(p) \in [count: Nat, windowStart: Int]
      BY NoBucketIs
    <2>3. /\ memory' \in [Process -> [count: Nat, windowStart: Int]]
          /\ crashes' \in [Process -> Nat]
      BY <2>1, <2>2 DEF MemoryInv
    <2>4. NoBucket(p)' = NoBucket(p)
      BY DEF NoBucket, FallBackService!NoBucket
    <2>5. PassedAsCounted(p)'
      <3>1. /\ crashes[p] \in Nat /\ crashes'[p] = crashes[p] + 1
            /\ passed[p] \in Nat /\ Limit \in Nat \ {0}
        BY <2>1, LimiterAssumption DEF MemoryInv, LimiterAssumption
      <3>2. Lived(p)' = Lived(p) + Limit /\ Lived(p) \in Nat
        BY <3>1, SMTT(30) DEF Lived
      <3>3. passed[p] < Lived(p) + Limit + Limit
        <4>1. PassedAsCounted(p)
          BY DEF MemoryInv
        <4>2. CASE memory[p] = NoBucket(p)
          BY <3>1, <3>2, <4>1, <4>2, NoBucketIs DEF PassedAsCounted
        <4>3. CASE memory[p] # NoBucket(p)
          <5>1. /\ memory[p].count \in 1..Limit
                /\ \/ passed[p] < Lived(p) + memory[p].count
                   \/ passed[p] < Lived(p) + (Limit + memory[p].count)
            BY <4>1, <4>3 DEF PassedAsCounted
          <5> QED
            BY <3>1, <3>2, <5>1
        <4> QED
          BY <4>2, <4>3
      <3>4. memory'[p] = NoBucket(p)' /\ passed'[p] = passed[p]
        BY <2>1, <2>4 DEF MemoryInv
      <3> QED
        BY <3>2, <3>3, <3>4 DEF PassedAsCounted
    <2>6. \A q \in Process \ {p} : PassedAsCounted(q)'
      BY <2>1 DEF MemoryInv, PassedAsCounted, NoBucket, Lived
    <2> QED
      BY <2>1, <2>3, <2>5, <2>6 DEF MemoryInv
  <1>7. ASSUME NEW first \in Index, RedisRestart(first) PROVE MemoryInv'
    BY <1>7, MemoryKept DEF RedisRestart, Script!Restart
  <1>8. CASE UNCHANGED vars
    BY <1>8, MemoryKept DEF vars
  <1> QED
    BY <1>1, <1>2, <1>3, <1>4, <1>5, <1>6, <1>7, <1>8 DEF Next, consume

-----------------------------------------------------------------------------
(* Putting it together.                                                    *)

LimiterInv ==
    SP!QuotaInv /\ ReadingsInv /\ LedgerInv /\ LossInv /\ MemoryInv

\* The window is at least as long as an evaluation may be late: the limiter's
\* windows last a minute or more, a command a few seconds.
THEOREM Invariance ==
    ASSUME Lag <= Script!windowMs
    PROVE  Spec => []LimiterInv
  <1>1. Init => LimiterInv
    BY KeysInit, ReadingsInit, LedgerInit, LossInit, MemoryInit DEF LimiterInv
  <1>2. LimiterInv /\ [Next]_vars => LimiterInv'
    <2> SUFFICES ASSUME LimiterInv, [Next]_vars PROVE LimiterInv'
      OBVIOUS
    <2>1. SP!QuotaInv' /\ ReadingsInv' /\ MemoryInv'
      BY KeysStep, ReadingsStep, MemoryStep DEF LimiterInv
    <2>2. LedgerInv' /\ LossInv'
      BY LedgerStep, LossStep DEF LimiterInv, SP!QuotaInv
    <2> QED
      BY <2>1, <2>2 DEF LimiterInv
  <1> QED
    BY <1>1, <1>2, PTL DEF Spec

\* A caller that is told to go on has been charged, and without a fault exactly
\* once and at Redis only, whatever the processes, calls and faults, if no
\* script goes on for longer than a window (rate-limiter.service.ts:25-42,
\* 49-63).
THEOREM Charged ==
    ASSUME Lag <= Script!windowMs
    PROVE  Spec => []ChargedAsAnswered
  <1>1. LimiterInv => ChargedAsAnswered
    BY DEF LimiterInv, LedgerInv
  <1> QED
    BY <1>1, Invariance, PTL

\* If no script goes on for longer than a window, then in every window Redis
\* lets no more than the limit through, and the limit once more for each time
\* it lost the key of that window; and the memory of a process fewer than
\* twice the limit, and the limit once more for each time the process died in
\* that window (rate-limiter.service.ts:41, 49-63,
\* rate-limiter.fallback.ts:26-31).
THEOREM OutageQuotaHolds ==
    ASSUME Lag <= Script!windowMs
    PROVE  Spec => []OutageQuota
  <1>1. LimiterInv => OutageQuota
    <2> SUFFICES ASSUME LimiterInv PROVE OutageQuota
      OBVIOUS
    <2>1. Limit \in Nat \ {0}
      BY LimiterAssumption DEF LimiterAssumption
    <2>2. \A w \in Index :
              answered[w] + forgotten[w] <= (1 + losses[w]) * Limit
      <3> TAKE w \in Index
      <3>1. answered[w] \in Nat /\ answered[w] <= Limit
        BY <2>1, AnsweredWithin DEF LimiterInv
      <3>2. /\ forgotten[w] \in Nat /\ losses[w] \in Nat
            /\ forgotten[w] <= losses[w] * Limit
        BY DEF LimiterInv, LossInv
      <3>3. /\ losses[w] * Limit \in Nat
            /\ (1 + losses[w]) * Limit = losses[w] * Limit + Limit
        BY <2>1, <3>2, SMTT(30)
      <3> QED
        BY <2>1, <3>1, <3>2, <3>3
    <2>3. \A p \in Process : passed[p] < (2 + crashes[p]) * Limit
      <3> TAKE p \in Process
      <3>1. PassedAsCounted(p) /\ passed[p] \in Nat /\ crashes[p] \in Nat
        BY DEF LimiterInv, MemoryInv
      <3>2. /\ Lived(p) \in Nat
            /\ (2 + crashes[p]) * Limit = Lived(p) + Limit + Limit
        BY <2>1, <3>1, SMTT(30) DEF Lived
      <3>3. passed[p] < Lived(p) + Limit + Limit
        <4>1. CASE passed[p] < Lived(p) + Limit
          BY <2>1, <3>1, <3>2, <4>1
        <4>2. CASE ~(passed[p] < Lived(p) + Limit)
          <5>1. /\ memory[p].count \in 1..Limit
                /\ \/ passed[p] < Lived(p) + memory[p].count
                   \/ passed[p] < Lived(p) + (Limit + memory[p].count)
            BY <3>1, <4>2 DEF PassedAsCounted
          <5> QED
            BY <2>1, <3>1, <3>2, <5>1
        <4> QED
          BY <4>1, <4>2
      <3> QED
        BY <3>2, <3>3
    <2> QED
      BY <2>2, <2>3 DEF OutageQuota
  <1> QED
    BY <1>1, Invariance, PTL

\* What TypeOK says and the other parts leave out.
LinksInv ==
    /\ link \in [Process -> {"up", "down"}]
    /\ calls \in 0..MaxCalls
    /\ faults \in 0..MaxFaults

LEMMA LinksAlways == Spec => []LinksInv
  <1>1. Init => LinksInv
    BY LimiterAssumption DEF Init, LinksInv, LimiterAssumption
  <1>2. ASSUME LinksInv, [Next]_vars PROVE LinksInv'
    <2> USE <1>2 DEF LinksInv
    <2>1. ASSUME Fault PROVE faults' \in 0..MaxFaults
      BY <2>1, LimiterAssumption DEF Fault, LimiterAssumption
    <2>2. CASE UNCHANGED <<link, calls, faults>>
      BY <2>2
    <2>3. CASE Tick
      BY <2>2, <2>3 DEF Tick
    <2>4. ASSUME NEW r \in Request, Consume(r) \/ consume(r) PROVE LinksInv'
      <3>1. CASE Consume(r)
        BY <3>1, LimiterAssumption DEF Consume, LimiterAssumption
      <3>2. CASE consume(r)
        <4>1. UNCHANGED <<link, calls, faults>>
          BY <3>2 DEF consume, Pong, Evaluate, Reply, FallBack
        <4> QED
          BY <2>2, <4>1
      <3> QED
        BY <2>4, <3>1, <3>2
    <2>5. ASSUME NEW r \in Request, RedisError(r) PROVE LinksInv'
      BY <2>1, <2>5 DEF RedisError
    <2>6. ASSUME NEW p \in Process,
                 Disconnect(p) \/ Reconnect(p) \/ Flush(p) \/ Crash(p)
          PROVE  LinksInv'
      BY <2>1, <2>6 DEF Disconnect, Reconnect, Flush, Crash
    <2>7. ASSUME NEW first \in Index, RedisRestart(first) PROVE LinksInv'
      BY <2>1, <2>7 DEF RedisRestart
    <2>8. CASE UNCHANGED vars
      BY <2>2, <2>8 DEF vars
    <2> QED
      BY <2>3, <2>4, <2>5, <2>6, <2>7, <2>8 DEF Next
  <1> QED
    BY <1>1, <1>2, PTL DEF Spec

\* The variables keep their types, and no bucket counts beyond the limit, if no
\* script goes on for longer than a window (rate-limiter.fallback.ts:45).
THEOREM TypeCorrect ==
    ASSUME Lag <= Script!windowMs
    PROVE  Spec => []TypeOK
  <1>1. LimiterInv /\ LinksInv => TypeOK
    <2> SUFFICES ASSUME LimiterInv, LinksInv PROVE TypeOK
      OBVIOUS
    <2>1. Script!TypeOK
      <3>1. SP!TypeOK
        BY DEF LimiterInv, SP!QuotaInv
      <3> QED
        BY <3>1, SameScript DEF SP!TypeOK, Script!TypeOK, Index
    <2>2. \A p \in Process : memory[p] \in
              [count: 0..Limit, windowStart: Nat] \cup {NoBucket(p)}
      <3> TAKE p \in Process
      <3>1. PassedAsCounted(p) /\ clock \in Nat /\ Limit \in Nat
        BY LimiterAssumption
           DEF LimiterInv, MemoryInv, ReadingsInv, LimiterAssumption
      <3> QED
        BY <3>1 DEF PassedAsCounted
    <2> QED
      BY <2>1, <2>2
         DEF TypeOK, LimiterInv, LinksInv, ReadingsInv, Call, LedgerInv, LossInv,
             MemoryInv
  <1> QED
    BY <1>1, Invariance, LinksAlways, PTL

================================================================================
