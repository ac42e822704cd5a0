---------------------------- MODULE AgentProofs ----------------------------
(***************************************************************************)
(* Proofs about Agent, for every choice of its constants.                  *)
(***************************************************************************)
EXTENDS Agent, FiniteSetTheorems, TLAPS

\* A result for a request is a result; so is a copy of one.
LEMMA ResultTypes ==
  ASSUME NEW r \in Requests
  PROVE  /\ \A code \in Codes : errorResult(r, code) \in Result
         /\ \A x \in Result : cloneResultForRequest(x, r) \in Result
BY DEF errorResult, cloneResultForRequest, Result

\* A result in a channel.
LEMMA SlotTypes == \A x \in Result : <<x>> \in Slot
BY DEF Slot

\* Sending results to requests keeps every channel a channel.
LEMMA SendType ==
  ASSUME TypeOK, NEW answers, DOMAIN answers \subseteq Requests,
         \A r \in DOMAIN answers : answers[r] \in Result, Send(answers)
  PROVE  resultCh' \in [Requests -> Slot]
BY DEF TypeOK, Send, Slot

\* The counters stay naturals whichever of them is incremented.
LEMMA CounterTypes ==
  ASSUME NEW s \in [Counters -> Nat], NEW n \in Nat
  PROVE  /\ \A ok \in BOOLEAN : Recorded(s, ok, n) \in [Counters -> Nat]
         /\ LocallyRejected(s) \in [Counters -> Nat]
         /\ \A stale \in BOOLEAN : FailOpenServed(s, stale) \in [Counters -> Nat]
         /\ [s EXCEPT !.submitted = @ + 1] \in [Counters -> Nat]
         /\ [s EXCEPT !.cacheHits = @ + 1] \in [Counters -> Nat]
         /\ [s EXCEPT !.deduplicated = @ + 1] \in [Counters -> Nat]
         /\ Dispatched(s, n) \in [Counters -> Nat]
<1> USE DEF Counters
<1>1. \A ok \in BOOLEAN : Recorded(s, ok, n) \in [Counters -> Nat]
  BY DEF Recorded
<1>2. LocallyRejected(s) \in [Counters -> Nat]
  <2>1. [s EXCEPT !.localRejected = @ + 1] \in [Counters -> Nat]
    OBVIOUS
  <2>2. \A t \in [Counters -> Nat] : Recorded(t, FALSE, 1) \in [Counters -> Nat]
    BY DEF Recorded
  <2> QED
    BY <2>1, <2>2 DEF LocallyRejected
<1>3. \A stale \in BOOLEAN : FailOpenServed(s, stale) \in [Counters -> Nat]
  BY DEF FailOpenServed
<1>4. [s EXCEPT !.submitted = @ + 1] \in [Counters -> Nat]
  OBVIOUS
<1>5. [s EXCEPT !.cacheHits = @ + 1] \in [Counters -> Nat]
  OBVIOUS
<1>6. [s EXCEPT !.deduplicated = @ + 1] \in [Counters -> Nat]
  OBVIOUS
<1>7. Dispatched(s, n) \in [Counters -> Nat]
  <2>1. [s EXCEPT !.dispatchedBatches = @ + 1] \in [Counters -> Nat]
    OBVIOUS
  <2>2. \A t \in [Counters -> Nat] : [t EXCEPT !.dispatchedRequests = @ + n] \in [Counters -> Nat]
    OBVIOUS
  <2> QED
    BY <2>1, <2>2 DEF Dispatched
<1> QED
  BY <1>1, <1>2, <1>3, <1>4, <1>5, <1>6, <1>7

\* What New makes has the right types.
LEMMA InitType == Init => TypeOK
<1> SUFFICES ASSUME Init PROVE TypeOK
  OBVIOUS
<1>1. stats \in [Counters -> Nat]
  BY DEF Init
<1>2. /\ DOMAIN package = {}
      /\ DOMAIN cache = {}
  BY DEF Init
<1>3. /\ buffered \in Nat
      /\ dispatchInFlight \in BOOLEAN
      /\ lastError \in DispatchErrors \cup {"none"}
  BY DEF Init
<1>4. /\ backpressure \in NoBackpressure .. BackpressureCooldown
      /\ ticker \in 1 .. BatchInterval
  BY SettingsAssumption DEF Init, NoBackpressure
<1>5. /\ reply \in [Requests -> Slot]
      /\ resultCh \in [Requests -> Slot]
  BY DEF Init, Slot
<1>6. /\ queue \in Seq(Requests)
      /\ pending \in Seq(Requests)
      /\ chunk \in Seq(Requests)
      /\ remaining \in Seq(Requests)
      /\ units \in Seq(Unit)
      /\ Len(queue) <= MaxQueueRequests
  BY SettingsAssumption DEF Init
<1>7. /\ \A r \in DOMAIN package : package[r] \in Outcomes
      /\ \A k \in DOMAIN cache : cache[k] \in Entry
  BY <1>2
<1> QED
  BY <1>1, <1>2, <1>3, <1>4, <1>5, <1>6, <1>7 DEF Init, TypeOK

\* Steps of a caller in Submit keep the types.
LEMMA SubmitType ==
  ASSUME TypeOK, NEW r \in Requests, Submit(r)
  PROVE  TypeOK'
<1> USE SettingsAssumption, RequestsAssumption, ResultTypes
    DEF callerVars, timeVars, batchVars, runtime, setPendingInBatchBuffer, SetInFlight, Return, RejectLocally
<1>0. /\ stats \in [Counters -> Nat]
      /\ LocallyRejected(stats) \in [Counters -> Nat]
      /\ [stats EXCEPT !.submitted = @ + 1] \in [Counters -> Nat]
  BY CounterTypes DEF TypeOK
<1>1. CASE SubmitClassified(r)
  <2>1. errorResult(r, "CLASSIFIED") \in Result
    BY ResultTypes DEF Codes, DispatchErrors
  <2>2. reply' \in [Requests -> Slot]
    BY <1>1, <2>1, SlotTypes DEF TypeOK, SubmitClassified, Return, RejectLocally
  <2> QED
    BY <1>0, <1>1, <2>2 DEF TypeOK, SubmitClassified
<1>2. CASE SubmitBackpressured(r)
  <2>1. errorResult(r, "RUN_DELAYED") \in Result
    BY ResultTypes DEF Codes, DispatchErrors
  <2>2. reply' \in [Requests -> Slot]
    BY <1>2, <2>1, SlotTypes DEF TypeOK, SubmitBackpressured, Return, RejectLocally
  <2> QED
    BY <1>0, <1>2, <2>2 DEF TypeOK, SubmitBackpressured
<1>3. CASE SubmitChecked(r)
  BY <1>3 DEF TypeOK, SubmitChecked, backpressureState, NoBackpressure
<1>4. CASE Enqueue(r)
  BY <1>4 DEF TypeOK, Enqueue
<1>5. CASE QueueOverflow(r)
  <2>1. errorResult(r, "QUEUE_OVERFLOW") \in Result
    BY ResultTypes DEF Codes, DispatchErrors
  <2>2. reply' \in [Requests -> Slot]
    BY <1>5, <2>1, SlotTypes DEF TypeOK, QueueOverflow, Return, RejectLocally
  <2> QED
    BY <1>0, <1>5, <2>2 DEF TypeOK, QueueOverflow
<1>6. CASE RecordSubmitted(r)
  BY <1>0, <1>6 DEF TypeOK, RecordSubmitted
<1>7. CASE ReceiveResult(r)
  BY <1>7 DEF TypeOK, ReceiveResult, Slot
<1>8. CASE CallerGivesUp(r)
  BY <1>8 DEF TypeOK, CallerGivesUp
<1> QED
  BY <1>1, <1>2, <1>3, <1>4, <1>5, <1>6, <1>7, <1>8 DEF Submit

\* Dropping entries leaves a cache.
LEMMA WithoutType ==
  ASSUME TypeOK, NEW S
  PROVE  /\ DOMAIN Without(S) \subseteq Keys
         /\ \A k \in DOMAIN Without(S) : Without(S)[k] \in Entry
BY DEF TypeOK, Without

\* Storing a response leaves a cache.
LEMMA StoreType ==
  ASSUME TypeOK, NEW k \in Keys, NEW x \in Result, storeCacheEntry(k, x)
  PROVE  /\ DOMAIN cache' \subseteq Keys
         /\ \A j \in DOMAIN cache' : cache'[j] \in Entry
<1>1. [age |-> 0, result |-> x] \in Entry
  BY SettingsAssumption DEF Entry, MaxAge
<1>2. CASE cacheEnabled
  <2>1. PICK dropped \in Victims :
          cache' = [j \in (DOMAIN cache \ dropped) \cup {k} |->
                     IF j = k THEN [age |-> 0, result |-> x] ELSE cache[j]]
    BY <1>2 DEF storeCacheEntry
  <2> QED
    BY <1>1, <2>1 DEF TypeOK
<1>3. CASE ~cacheEnabled
  BY <1>3 DEF storeCacheEntry, TypeOK
<1> QED
  BY <1>2, <1>3

\* An outcome has a flag and a code.
LEMMA OutcomeTypes == \A o \in Outcomes : o.ok \in BOOLEAN /\ o.code \in Codes
<1> SUFFICES ASSUME NEW o \in Outcomes PROVE o.ok \in BOOLEAN /\ o.code \in Codes
  OBVIOUS
<1>1. CASE o = [ok |-> TRUE,  code |-> "2xx"]
  <2>1. o.ok = TRUE /\ o.code = "2xx"
    BY <1>1
  <2> QED
    BY <2>1 DEF Codes
<1>2. CASE o = [ok |-> TRUE,  code |-> "non2xx"]
  <2>1. o.ok = TRUE /\ o.code = "non2xx"
    BY <1>2
  <2> QED
    BY <2>1 DEF Codes
<1>3. CASE o = [ok |-> FALSE, code |-> "TIMEOUT"]
  <2>1. o.ok = FALSE /\ o.code = "TIMEOUT"
    BY <1>3
  <2> QED
    BY <2>1 DEF Codes
<1> QED
  BY <1>1, <1>2, <1>3 DEF Outcomes

\* What stands in for a unit's result, and the primary's own, are results.
LEMMA UnitResultTypes ==
  ASSUME TypeOK, NEW unit \in Unit
  PROVE  /\ \A code \in Codes : \A stale \in BOOLEAN :
              (stale => Recovers(unit)) => Substitute(unit, stale, code) \in Result
         /\ PrimaryResult(unit) \in Result
<1>1. unit.primary \in Requests
  BY DEF Unit
<1>2. ASSUME NEW code \in Codes, NEW stale \in BOOLEAN, stale => Recovers(unit)
      PROVE  Substitute(unit, stale, code) \in Result
  <2>1. CASE stale
    <3>1. CacheKey[unit.primary] \in DOMAIN cache
      BY <1>2, <2>1 DEF Recovers, StaleUsable
    <3>2. cache[CacheKey[unit.primary]].result \in Result
      BY <3>1 DEF TypeOK, Entry
    <3> QED
      BY <1>1, <2>1, <3>2, ResultTypes DEF Substitute
  <2>2. CASE ~stale
    BY <1>1, <1>2, <2>2, ResultTypes DEF Substitute
  <2> QED
    BY <2>1, <2>2
<1>3. Recovers(unit) \in BOOLEAN
  BY SettingsAssumption DEF Recovers, StaleUsable, cacheable
<1>4. PrimaryResult(unit) \in Result
  <2>1. CASE unit.primary \in DOMAIN package
    <3>1. package[unit.primary] \in Outcomes
      BY <2>1 DEF TypeOK
    <3>2. /\ package[unit.primary].ok \in BOOLEAN
          /\ package[unit.primary].code \in Codes
      BY <3>1, OutcomeTypes
    <3> QED
      BY <1>1, <2>1, <3>2 DEF PrimaryResult, Result
  <2>2. CASE unit.primary \notin DOMAIN package
    <3>1. "RESULT_PACKAGE_NOT_FOUND" \in Codes
      BY DEF Codes, DispatchErrors
    <3> QED
      BY <1>2, <1>3, <2>2, <3>1 DEF PrimaryResult
  <2> QED
    BY <2>1, <2>2
<1> QED
  BY <1>2, <1>4

\* A unit's members are requests, finitely many.
LEMMA UnitFacts ==
  ASSUME NEW unit \in Unit
  PROVE  /\ Members(unit) \subseteq Requests
         /\ Cardinality(unit.duplicates) \in Nat
<1>1. unit.primary \in Requests /\ unit.duplicates \subseteq Requests
  BY DEF Unit
<1>2. IsFiniteSet(unit.duplicates)
  BY <1>1, RequestsAssumption, FS_Subset
<1> QED
  BY <1>1, <1>2, FS_CardinalityType DEF Members

\* The same error sent to some requests.
LEMMA SendErrorType ==
  ASSUME TypeOK, NEW S, S \subseteq Requests, NEW code \in Codes, SendError(S, code)
  PROVE  resultCh' \in [Requests -> Slot]
<1> DEFINE answers == [r \in S |-> errorResult(r, code)]
<1>1. \A r \in DOMAIN answers : answers[r] \in Result
  BY ResultTypes
<1> QED
  BY <1>1, SendType DEF SendError

\* A result copied to a unit's members.
LEMMA SendToUnitType ==
  ASSUME TypeOK, NEW unit \in Unit, NEW x \in Result, SendToUnit(unit, x)
  PROVE  resultCh' \in [Requests -> Slot]
<1> DEFINE answers == [r \in Members(unit) |-> cloneResultForRequest(x, r)]
<1>0. DOMAIN answers \subseteq Requests
  BY UnitFacts
<1>1. \A r \in DOMAIN answers : answers[r] \in Result
  BY <1>0, ResultTypes
<1> QED
  BY <1>0, <1>1, SendType DEF SendToUnit

\* The steps of Run that leave the batch alone keep the types.
LEMMA LoopType ==
  ASSUME TypeOK,
         RunStops \/ RunReceives \/ TickIdle \/ TickBackpressured \/ TickPicks
  PROVE  TypeOK'
<1> USE DEF callerVars, timeVars, batchVars, runtime, setPendingInBatchBuffer, SetInFlight
<1>0. /\ stats \in [Counters -> Nat]
      /\ Len(pending) \in Nat
      /\ Range(pending) \subseteq Requests
      /\ Recorded(stats, FALSE, Len(pending)) \in [Counters -> Nat]
  <2>1. /\ stats \in [Counters -> Nat]
        /\ Len(pending) \in Nat
        /\ Range(pending) \subseteq Requests
    BY DEF TypeOK, Range
  <2> QED
    BY <2>1, CounterTypes
<1>01. "WORKER_ERROR" \in Codes /\ "RUN_DELAYED" \in Codes
  BY DEF Codes, DispatchErrors
<1>02. ASSUME TakeTick
       PROVE  /\ DOMAIN cache' \subseteq Keys
              /\ \A k \in DOMAIN cache' : cache'[k] \in Entry
  BY <1>02, WithoutType DEF TakeTick, evictExpiredCache
<1>1. CASE RunStops
  <2>1. resultCh' \in [Requests -> Slot]
    BY <1>0, <1>01, <1>1, SendErrorType DEF RunStops
  <2>2. stats' \in [Counters -> Nat]
    BY <1>0, <1>1 DEF RunStops
  <2>3. pending' \in Seq(Requests) /\ buffered' \in Nat
    BY <1>1 DEF RunStops
  <2> QED
    BY <1>1, <2>1, <2>2, <2>3 DEF TypeOK, RunStops
<1>2. CASE RunReceives
  <2>1. /\ Head(queue) \in Requests
        /\ Tail(queue) \in Seq(Requests)
        /\ Len(Tail(queue)) <= MaxQueueRequests
    BY <1>2, SettingsAssumption DEF TypeOK, RunReceives
  <2> QED
    BY <1>0, <1>2, <2>1 DEF TypeOK, RunReceives
<1>3. CASE TickIdle
  BY <1>02, <1>3 DEF TypeOK, TickIdle, TakeTick
<1>4. CASE TickBackpressured
  <2>1. resultCh' \in [Requests -> Slot]
    BY <1>0, <1>01, <1>4, SendErrorType DEF TickBackpressured
  <2>2. stats' \in [Counters -> Nat]
    BY <1>0, <1>4 DEF TickBackpressured
  <2>3. pending' \in Seq(Requests) /\ buffered' \in Nat
    BY <1>4 DEF TickBackpressured
  <2> QED
    BY <1>02, <1>4, <2>1, <2>2, <2>3 DEF TypeOK, TickBackpressured, TakeTick
<1>5. CASE TickPicks
  <2>1. backpressure' \in NoBackpressure .. BackpressureCooldown
    BY <1>5, SettingsAssumption
    DEF TypeOK, TickPicks, backpressureState, NoBackpressure
  <2> QED
    BY <1>02, <1>5, <2>1 DEF TypeOK, TickPicks, TakeTick
<1> QED
  BY <1>1, <1>2, <1>3, <1>4, <1>5

\* Steps of pickBatchChunk keep the types.
LEMMA PickType ==
  ASSUME TypeOK, PickInto \/ PickLater \/ PickTooLarge \/ PickDone
  PROVE  TypeOK'
<1> USE DEF callerVars, timeVars, batchVars, runtime, setPendingInBatchBuffer, SetInFlight
<1>0. pending # <<>> => /\ Head(pending) \in Requests
                        /\ Tail(pending) \in Seq(Requests)
  BY DEF TypeOK
<1>1. CASE PickInto
  BY <1>0, <1>1 DEF TypeOK, PickInto
<1>2. CASE PickLater
  BY <1>0, <1>2 DEF TypeOK, PickLater
<1>3. CASE PickTooLarge
  <2>1. resultCh' \in [Requests -> Slot]
    BY <1>0, <1>3, SendErrorType DEF PickTooLarge, Codes
  <2>2. stats' \in [Counters -> Nat]
    BY <1>3, CounterTypes DEF TypeOK, PickTooLarge
  <2> QED
    BY <1>0, <1>3, <2>1, <2>2 DEF TypeOK, PickTooLarge
<1>4. CASE PickDone
  BY <1>4 DEF TypeOK, PickDone
<1> QED
  BY <1>1, <1>2, <1>3, <1>4

\* Steps of prepareDispatchUnits, and the refusal or start of the batch, keep the types.
LEMMA PrepareType ==
  ASSUME TypeOK,
         \/ PrepareHit \/ PrepareDuplicate \/ PrepareUnit
         \/ NothingToDispatch \/ RefuseBatch \/ StartDispatch
  PROVE  TypeOK'
<1> USE DEF callerVars, timeVars, batchVars, runtime, setPendingInBatchBuffer, SetInFlight
<1>0. chunk # <<>> => /\ Head(chunk) \in Requests
                      /\ Tail(chunk) \in Seq(Requests)
  BY DEF TypeOK
<1>1. CASE PrepareHit
  <2> DEFINE r == Head(chunk)
             x == cache[CacheKey[r]].result
  <2>1. /\ x \in Result
        /\ x.ok \in BOOLEAN
    BY <1>1 DEF PrepareHit, Fresh, TypeOK, Entry, Result
  <2>2. resultCh' \in [Requests -> Slot]
    <3> DEFINE answers == [q \in {r} |-> cloneResultForRequest(x, q)]
    <3>1. \A q \in DOMAIN answers : answers[q] \in Result
      BY <1>0, <1>1, <2>1, ResultTypes DEF PrepareHit
    <3> QED
      BY <1>0, <1>1, <3>1, SendType DEF PrepareHit
  <2>3. stats' \in [Counters -> Nat]
    <3>1. [stats EXCEPT !.cacheHits = @ + 1] \in [Counters -> Nat]
      BY CounterTypes DEF TypeOK
    <3> QED
      BY <1>1, <2>1, <3>1, CounterTypes DEF PrepareHit
  <2> QED
    BY <1>0, <1>1, <2>2, <2>3 DEF TypeOK, PrepareHit
<1>2. CASE PrepareDuplicate
  <2>1. /\ DOMAIN cache' \subseteq Keys
        /\ \A k \in DOMAIN cache' : cache'[k] \in Entry
    BY <1>2, WithoutType DEF PrepareDuplicate, ForgetExpired
  <2>2. units' \in Seq(Unit)
    <3>1. PICK i \in DOMAIN units :
            units' = [units EXCEPT ![i].duplicates = @ \cup {Head(chunk)}]
      BY <1>2 DEF PrepareDuplicate
    <3>2. units \in Seq(Unit) /\ units[i] \in Unit
      BY <3>1 DEF TypeOK
    <3>3. [units[i] EXCEPT !.duplicates = @ \cup {Head(chunk)}] \in Unit
      BY <1>0, <1>2, <3>2 DEF PrepareDuplicate, Unit
    <3> QED
      BY <3>1, <3>2, <3>3
  <2>3. stats' \in [Counters -> Nat]
    BY <1>2, CounterTypes DEF TypeOK, PrepareDuplicate
  <2> QED
    BY <1>0, <1>2, <2>1, <2>2, <2>3 DEF TypeOK, PrepareDuplicate
<1>3. CASE PrepareUnit
  <2>1. /\ DOMAIN cache' \subseteq Keys
        /\ \A k \in DOMAIN cache' : cache'[k] \in Entry
    BY <1>3, WithoutType DEF PrepareUnit, ForgetExpired
  <2>2. units' \in Seq(Unit)
    BY <1>0, <1>3 DEF TypeOK, PrepareUnit, Unit
  <2> QED
    BY <1>0, <1>3, <2>1, <2>2 DEF TypeOK, PrepareUnit
<1>4. CASE NothingToDispatch
  BY <1>4 DEF TypeOK, NothingToDispatch
<1>5. CASE RefuseBatch
  <2>1. failCode' \in Codes
    BY <1>5 DEF RefuseBatch, Refusal, Codes, DispatchErrors
  <2> QED
    BY <1>5, <2>1 DEF TypeOK, RefuseBatch
<1>6. CASE StartDispatch
  <2>1. stats' \in [Counters -> Nat]
    <3>1. stats \in [Counters -> Nat] /\ Len(units) \in Nat
      BY DEF TypeOK
    <3> QED
      BY <1>6, <3>1, CounterTypes DEF StartDispatch, recordBatchDispatched
  <2>2. Primaries \subseteq Requests
    <3>1. \A i \in DOMAIN units : units[i] \in Unit
      BY DEF TypeOK
    <3> QED
      BY <3>1 DEF Primaries, Unit
  <2> QED
    BY <1>6, <2>1, <2>2 DEF TypeOK, StartDispatch, recordBatchDispatched
<1> QED
  BY <1>1, <1>2, <1>3, <1>4, <1>5, <1>6

\* Whatever ProcessBatch returns keeps the types.
LEMMA ReturnType ==
  ASSUME TypeOK, ProcessBatchReturns
  PROVE  TypeOK'
<1> USE DEF callerVars, timeVars, batchVars, runtime, setPendingInBatchBuffer, SetInFlight
<1>1. CASE \E code \in DispatchErrors : DispatchFails(code)
  <2>1. PICK code \in DispatchErrors : DispatchFails(code)
    BY <1>1
  <2>2. failCode' \in Codes
    BY <2>1 DEF DispatchFails, Codes, DispatchErrors
  <2>3. backpressure' \in NoBackpressure .. BackpressureCooldown
    BY <2>1, SettingsAssumption
    DEF TypeOK, DispatchFails, activateBackpressure, NoBackpressure
  <2> QED
    BY <2>1, <2>2, <2>3 DEF TypeOK, DispatchFails, recordDispatchError
<1>2. CASE \E ids \in SUBSET Requests : PackageMismatch(ids)
  <2>1. failCode' \in Codes /\ lastError' \in DispatchErrors
    BY <1>2 DEF PackageMismatch, recordDispatchError, Codes, DispatchErrors
  <2> QED
    BY <1>2, <2>1 DEF TypeOK, PackageMismatch, recordDispatchError
<1>3. CASE \E results \in [Primaries -> Outcomes] : PackageArrives(results)
  <2>1. Primaries \subseteq Requests
    <3>1. \A i \in DOMAIN units : units[i] \in Unit
      BY DEF TypeOK
    <3> QED
      BY <3>1 DEF Primaries, Unit
  <2>2. DOMAIN package' \subseteq Requests /\ \A r \in DOMAIN package' : package'[r] \in Outcomes
    BY <1>3, <2>1 DEF PackageArrives
  <2> QED
    BY <1>3, <2>2 DEF TypeOK, PackageArrives, recordDispatchSuccess
<1> QED
  BY <1>1, <1>2, <1>3 DEF ProcessBatchReturns

\* Delivering or failing a unit, and the end of the batch, keep the types.
LEMMA AnswerType ==
  ASSUME TypeOK, DeliverUnit \/ FailUnit \/ BatchDone
  PROVE  TypeOK'
<1> USE DEF callerVars, timeVars, batchVars, runtime
<1> DEFINE unit == Head(units)
<1>0. units # <<>> => /\ unit \in Unit
                      /\ Tail(units) \in Seq(Unit)
                      /\ 1 + Cardinality(unit.duplicates) \in Nat
  BY UnitFacts DEF TypeOK
<1>1. CASE DeliverUnit
  <2> DEFINE x == PrimaryResult(unit)
             stale == unit.primary \notin DOMAIN package /\ Recovers(unit)
  <2>1. x \in Result /\ x.ok \in BOOLEAN
    BY <1>0, <1>1, UnitResultTypes DEF DeliverUnit, Result
  <2>2. resultCh' \in [Requests -> Slot]
    BY <1>0, <1>1, <2>1, SendToUnitType DEF DeliverUnit
  <2>3. stats' \in [Counters -> Nat]
    <3>1. FailOpenServed(stats, stale) \in [Counters -> Nat]
      <4>1. stale \in BOOLEAN
        BY SettingsAssumption DEF Recovers
      <4> QED
        BY <4>1, CounterTypes DEF TypeOK
    <3> QED
      BY <1>0, <1>1, <2>1, <3>1, CounterTypes DEF DeliverUnit
  <2>4. DOMAIN cache' \subseteq Keys /\ \A k \in DOMAIN cache' : cache'[k] \in Entry
    <3>1. CASE cacheable(unit.primary) /\ shouldCacheResult(x)
      <4>1. CacheKey[unit.primary] \in Keys
        BY <1>0, <1>1, <3>1, RequestsAssumption DEF DeliverUnit, cacheable, Unit
      <4> QED
        BY <1>1, <2>1, <3>1, <4>1, StoreType DEF DeliverUnit
    <3>2. CASE ~(cacheable(unit.primary) /\ shouldCacheResult(x))
      BY <1>1, <3>2 DEF DeliverUnit, TypeOK
    <3> QED
      BY <3>1, <3>2
  <2> QED
    BY <1>0, <1>1, <2>2, <2>3, <2>4 DEF TypeOK, DeliverUnit
<1>2. CASE FailUnit
  <2> DEFINE stale == isRecoverableCode(failCode) /\ Recovers(unit)
             x == Substitute(unit, stale, failCode)
  <2>0. stale \in BOOLEAN
    BY SettingsAssumption DEF Recovers, isRecoverableCode
  <2>1. x \in Result /\ x.ok \in BOOLEAN
    <3>1. failCode \in Codes
      BY <1>2 DEF TypeOK, FailUnit
    <3>2. x \in Result
      BY <1>0, <1>2, <2>0, <3>1, UnitResultTypes DEF FailUnit
    <3> QED
      BY <3>2 DEF Result
  <2>2. resultCh' \in [Requests -> Slot]
    BY <1>0, <1>2, <2>1, SendToUnitType DEF FailUnit
  <2>3. stats' \in [Counters -> Nat]
    <3>1. FailOpenServed(stats, stale) \in [Counters -> Nat]
      BY <2>0, CounterTypes DEF TypeOK
    <3> QED
      BY <1>0, <1>2, <2>1, <3>1, CounterTypes DEF FailUnit
  <2> QED
    BY <1>0, <1>2, <2>2, <2>3 DEF TypeOK, FailUnit
<1>3. CASE BatchDone
  <2>1. DOMAIN package' = {}
    BY <1>3 DEF BatchDone
  <2> QED
    BY <1>3, <2>1 DEF TypeOK, BatchDone
<1> QED
  BY <1>1, <1>2, <1>3

\* Time and the cancellation of the context keep the types.
LEMMA EnvironmentType ==
  ASSUME TypeOK, Elapse \/ ContextDone
  PROVE  TypeOK'
<1> USE DEF callerVars, timeVars, batchVars, runtime
<1>1. CASE Elapse
  <2>1. /\ backpressure' \in NoBackpressure .. BackpressureCooldown
        /\ ticker' \in 1 .. BatchInterval
        /\ tickReady' \in BOOLEAN
    BY <1>1, SettingsAssumption DEF TypeOK, Elapse, BackpressureActive, NoBackpressure
  <2>2. DOMAIN cache' \subseteq Keys /\ \A k \in DOMAIN cache' : cache'[k] \in Entry
    <3>1. \A e \in Entry : Older(e) \in Entry
      BY SettingsAssumption DEF Older, Entry, MaxAge
    <3> QED
      BY <1>1, <3>1 DEF TypeOK, Elapse
  <2> QED
    BY <1>1, <2>1, <2>2 DEF TypeOK, Elapse
<1>2. CASE ContextDone
  BY <1>2 DEF TypeOK, ContextDone
<1> QED
  BY <1>1, <1>2

\* Every step keeps the types.
LEMMA NextType == TypeOK /\ [Next]_vars => TypeOK'
<1> SUFFICES ASSUME TypeOK, [Next]_vars PROVE TypeOK'
  OBVIOUS
<1>1. CASE UNCHANGED vars
  BY <1>1 DEF TypeOK, vars
<1>2. CASE \E r \in Requests : Submit(r)
  BY <1>2, SubmitType
<1>3. CASE RunStep
  BY <1>3, LoopType, PickType, PrepareType, ReturnType, AnswerType DEF RunStep
<1>4. CASE Elapse \/ ContextDone
  BY <1>4, EnvironmentType
<1> QED
  BY <1>1, <1>2, <1>3, <1>4 DEF Next

\* In every state of the agent, whatever the settings and the requests, every
\* variable has its type.
THEOREM TypeCorrect == Spec => []TypeOK
<1>1. Init => TypeOK
  BY InitType
<1>2. TypeOK /\ [Next]_vars => TypeOK'
  BY NextType
<1> QED
  BY <1>1, <1>2, PTL DEF Spec
============================================================================
