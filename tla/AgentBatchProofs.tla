------------------------- MODULE AgentBatchProofs --------------------------
(***************************************************************************)
(* The batch cycle of Agent: what is dispatched, when, and what fail_open  *)
(* can serve.  BatchCycle is proved by one part at a time: the shape of    *)
(* the loop, the keys of the units, the requests dispatched, the cooldown. *)
(* Then what rests on it: the cooldown in status, the size of the cache,   *)
(* the counters of Snapshot and the caps on a batch.                       *)
(***************************************************************************)
EXTENDS AgentSafetyProofs, AgentStatus

\* The batch cycle starts with nothing at hand, cached or dispatched.
LEMMA InitCycle == Init => BatchCycle
<1> SUFFICES ASSUME Init PROVE BatchCycle
  OBVIOUS
<1>1. /\ units = <<>> /\ chunk = <<>> /\ remaining = <<>> /\ queue = <<>> /\ pending = <<>>
      /\ executed = {} /\ pc = "select"
  BY DEF Init
<1>2. stats.failOpenServed = 0
  BY DEF Init, Counters
<1> QED
  BY <1>1, <1>2 DEF BatchCycle, LoopShape, UnitsDistinct, UnitsUncached,
     FailOpenNeverServes, NotYetExecuted, NoDispatchInCooldown

\* Run's local variables are empty where the code has not filled them.
LEMMA NextShape == TypeOK /\ LoopShape /\ [Next]_vars => LoopShape'
<1> SUFFICES ASSUME TypeOK, LoopShape, [Next]_vars PROVE LoopShape'
  OBVIOUS
<1> USE DEF LoopShape, callerVars, timeVars, batchVars
<1>1. CASE UNCHANGED vars
  BY <1>1 DEF vars
<1>2. CASE \E r \in Requests : Submit(r)
  BY <1>2 DEF Submit, SubmitClassified, SubmitBackpressured, SubmitChecked, Enqueue,
     QueueOverflow, RecordSubmitted, ReceiveResult, CallerGivesUp
<1>3. CASE RunStops \/ RunReceives \/ TickIdle \/ TickBackpressured \/ TickPicks
  BY <1>3 DEF RunStops, RunReceives, TickIdle, TickBackpressured, TickPicks, TakeTick
<1>4. CASE PickInto \/ PickLater \/ PickTooLarge \/ PickDone
  BY <1>4 DEF PickInto, PickLater, PickTooLarge, PickDone
<1>5. CASE PrepareHit \/ PrepareDuplicate \/ PrepareUnit
  BY <1>5 DEF PrepareHit, PrepareDuplicate, PrepareUnit
<1>6. CASE NothingToDispatch \/ RefuseBatch \/ StartDispatch
  BY <1>6 DEF NothingToDispatch, RefuseBatch, StartDispatch
<1>7. CASE ProcessBatchReturns
  BY <1>7 DEF ProcessBatchReturns, DispatchFails, PackageMismatch, PackageArrives
<1>8. CASE DeliverUnit \/ FailUnit \/ BatchDone
  BY <1>8 DEF DeliverUnit, FailUnit, BatchDone
<1>9. CASE Elapse \/ ContextDone
  BY <1>9 DEF Elapse, ContextDone
<1> QED
  BY <1>1, <1>2, <1>3, <1>4, <1>5, <1>6, <1>7, <1>8, <1>9 DEF Next, RunStep

\* Only a delayed run starts a cooldown, and it takes Run out of the dispatch.
LEMMA NextCooldown ==
  TypeOK /\ NoDispatchInCooldown /\ [Next]_vars => NoDispatchInCooldown'
<1> SUFFICES ASSUME TypeOK, NoDispatchInCooldown, [Next]_vars PROVE NoDispatchInCooldown'
  OBVIOUS
<1> USE DEF NoDispatchInCooldown, BackpressureActive, callerVars, timeVars, batchVars
<1>0. backpressure \in Int
  BY SettingsAssumption DEF TypeOK, NoBackpressure
<1>1. CASE UNCHANGED vars
  BY <1>1 DEF vars
<1>2. CASE \E r \in Requests : Submit(r)
  <2>1. PICK r \in Requests : Submit(r)
    BY <1>2
  <2>2. UNCHANGED pc
    BY <2>1 DEF Submit, SubmitClassified, SubmitBackpressured, SubmitChecked, Enqueue,
       QueueOverflow, RecordSubmitted, ReceiveResult, CallerGivesUp
  <2>3. CASE SubmitChecked(r)
    BY <2>2, <2>3 DEF SubmitChecked, backpressureState, NoBackpressure
  <2>4. CASE ~SubmitChecked(r)
    <3>1. UNCHANGED backpressure
      BY <2>1, <2>4 DEF Submit, SubmitClassified, SubmitBackpressured, Enqueue,
         QueueOverflow, RecordSubmitted, ReceiveResult, CallerGivesUp
    <3> QED
      BY <2>2, <3>1
  <2> QED
    BY <2>3, <2>4
<1>3. CASE RunStops \/ RunReceives \/ TickIdle \/ TickBackpressured \/ TickPicks
  <2>1. CASE TickPicks
    <3>1. ~BackpressureActive /\ backpressure' = NoBackpressure
      BY <2>1 DEF TickPicks, backpressureState
    <3> QED
      BY <3>1 DEF NoBackpressure
  <2>2. CASE ~TickPicks
    BY <1>3, <2>2 DEF RunStops, RunReceives, TickIdle, TickBackpressured, TakeTick
  <2> QED
    BY <2>1, <2>2
<1>4. CASE PickInto \/ PickLater \/ PickTooLarge \/ PickDone
  BY <1>4 DEF PickInto, PickLater, PickTooLarge, PickDone
<1>5. CASE PrepareHit \/ PrepareDuplicate \/ PrepareUnit
  BY <1>5 DEF PrepareHit, PrepareDuplicate, PrepareUnit
<1>6. CASE NothingToDispatch \/ RefuseBatch \/ StartDispatch
  BY <1>6 DEF NothingToDispatch, RefuseBatch, StartDispatch
<1>7. CASE ProcessBatchReturns
  BY <1>7 DEF ProcessBatchReturns, DispatchFails, PackageMismatch, PackageArrives
<1>8. CASE DeliverUnit \/ FailUnit \/ BatchDone
  BY <1>8 DEF DeliverUnit, FailUnit, BatchDone
<1>9. CASE Elapse \/ ContextDone
  BY <1>9, <1>0 DEF Elapse, ContextDone
<1> QED
  BY <1>1, <1>2, <1>3, <1>4, <1>5, <1>6, <1>7, <1>8, <1>9 DEF Next, RunStep

\* A deadline, the buffer and the flags apart, no counter but its own changes
\* failOpenServed.
LEMMA FailOpenCount ==
  ASSUME NEW s \in [Counters -> Nat], NEW n \in Nat
  PROVE  /\ \A ok \in BOOLEAN : Recorded(s, ok, n).failOpenServed = s.failOpenServed
         /\ LocallyRejected(s).failOpenServed = s.failOpenServed
         /\ Dispatched(s, n).failOpenServed = s.failOpenServed
         /\ FailOpenServed(s, FALSE).failOpenServed = s.failOpenServed
         /\ [s EXCEPT !.submitted = @ + 1].failOpenServed = s.failOpenServed
         /\ [s EXCEPT !.deduplicated = @ + 1].failOpenServed = s.failOpenServed
         /\ [s EXCEPT !.cacheHits = @ + 1].failOpenServed = s.failOpenServed
<1>1. \A ok \in BOOLEAN : Recorded(s, ok, n).failOpenServed = s.failOpenServed
  BY DEF Recorded, Counters
<1>2. LocallyRejected(s).failOpenServed = s.failOpenServed
  BY DEF LocallyRejected, Recorded, Counters
<1>3. Dispatched(s, n).failOpenServed = s.failOpenServed
  BY DEF Dispatched, Counters
<1>4. FailOpenServed(s, FALSE).failOpenServed = s.failOpenServed
  BY DEF FailOpenServed
<1>5. /\ [s EXCEPT !.submitted = @ + 1].failOpenServed = s.failOpenServed
      /\ [s EXCEPT !.deduplicated = @ + 1].failOpenServed = s.failOpenServed
      /\ [s EXCEPT !.cacheHits = @ + 1].failOpenServed = s.failOpenServed
  BY DEF Counters
<1> QED
  BY <1>1, <1>2, <1>3, <1>4, <1>5

\* Recording a result leaves failOpenServed alone.
LEMMA RecordedFailOpen ==
  ASSUME NEW s \in [Counters -> Nat], NEW ok \in BOOLEAN, NEW n \in Nat
  PROVE  Recorded(s, ok, n).failOpenServed = s.failOpenServed
BY FailOpenCount

\* What UnitsDistinct and UnitsUncached say, and FailOpenNeverServes.
KeysApart == UnitsDistinct /\ UnitsUncached /\ FailOpenNeverServes

\* A step that leaves the units alone and caches no new key.
LEMMA SameUnits ==
  ASSUME UnitsDistinct, UnitsUncached, UNCHANGED units, DOMAIN cache' \subseteq DOMAIN cache
  PROVE  UnitsDistinct' /\ UnitsUncached'
BY DEF UnitsDistinct, UnitsUncached, cacheEnabled, cacheable

\* The calls of Submit touch neither the units nor the cache.
LEMMA SubmitKeys ==
  ASSUME TypeOK, KeysApart, NEW r \in Requests, Submit(r)
  PROVE  KeysApart'
<1>1. UNCHANGED <<units, cache>>
  BY DEF Submit, SubmitClassified, SubmitBackpressured, SubmitChecked, Enqueue,
     QueueOverflow, RecordSubmitted, ReceiveResult, CallerGivesUp, batchVars
<1>2. UnitsDistinct' /\ UnitsUncached'
  BY <1>1, SameUnits DEF KeysApart
<1>3. stats'.failOpenServed = stats.failOpenServed
  <2>1. \/ stats' = stats \/ stats' = LocallyRejected(stats)
        \/ stats' = [stats EXCEPT !.submitted = @ + 1]
    BY DEF Submit, SubmitClassified, SubmitBackpressured, SubmitChecked, Enqueue,
       QueueOverflow, RecordSubmitted, ReceiveResult, CallerGivesUp, RejectLocally
  <2>2. stats \in [Counters -> Nat]
    BY DEF TypeOK
  <2> QED
    BY <2>1, <2>2, FailOpenCount
<1> QED
  BY <1>2, <1>3 DEF KeysApart, FailOpenNeverServes

\* The select loop and pickBatchChunk: no unit exists, or none changes.
LEMMA LoopKeys ==
  ASSUME TypeOK, KeysApart,
         \/ RunStops \/ RunReceives \/ TickIdle \/ TickBackpressured \/ TickPicks
         \/ PickInto \/ PickLater \/ PickTooLarge \/ PickDone
         \/ NothingToDispatch \/ RefuseBatch \/ StartDispatch
         \/ ProcessBatchReturns \/ BatchDone \/ Elapse \/ ContextDone
  PROVE  KeysApart'
<1> USE DEF batchVars, callerVars, timeVars
<1>1. UNCHANGED units
  BY DEF RunStops, RunReceives, TickIdle, TickBackpressured, TickPicks, TakeTick, PickInto,
     PickLater, PickTooLarge, PickDone, NothingToDispatch, RefuseBatch, StartDispatch,
     ProcessBatchReturns, DispatchFails, PackageMismatch, PackageArrives, BatchDone, Elapse,
     ContextDone
<1>2. DOMAIN cache' \subseteq DOMAIN cache
  <2>1. CASE TickIdle \/ TickBackpressured \/ TickPicks
    BY <2>1 DEF TickIdle, TickBackpressured, TickPicks, TakeTick, evictExpiredCache, Without
  <2>2. CASE Elapse
    BY <2>2 DEF Elapse
  <2>3. CASE ~(TickIdle \/ TickBackpressured \/ TickPicks) /\ ~Elapse
    BY <2>3 DEF RunStops, RunReceives, PickInto, PickLater, PickTooLarge, PickDone,
       NothingToDispatch, RefuseBatch, StartDispatch, ProcessBatchReturns, DispatchFails,
       PackageMismatch, PackageArrives, BatchDone, ContextDone
  <2> QED
    BY <2>1, <2>2, <2>3
<1>3. stats'.failOpenServed = stats.failOpenServed
  <2>1. \/ stats' = stats
        \/ \E n \in Nat : stats' = Recorded(stats, FALSE, n) \/ stats' = Dispatched(stats, n)
    <3>1. Len(pending) \in Nat /\ Len(units) \in Nat /\ 1 \in Nat
      BY DEF TypeOK
    <3>2. CASE RunStops \/ TickBackpressured \/ PickTooLarge
      BY <3>1, <3>2 DEF RunStops, TickBackpressured, PickTooLarge
    <3>3. CASE StartDispatch
      BY <3>1, <3>3 DEF StartDispatch, recordBatchDispatched
    <3>4. CASE ~(RunStops \/ TickBackpressured \/ PickTooLarge) /\ ~StartDispatch
      BY <3>4 DEF RunReceives, TickIdle, TickPicks, PickInto, PickLater, PickDone,
         NothingToDispatch, RefuseBatch, ProcessBatchReturns, DispatchFails,
         PackageMismatch, PackageArrives, BatchDone, Elapse, ContextDone
    <3> QED
      BY <3>2, <3>3, <3>4
  <2>2. stats \in [Counters -> Nat]
    BY DEF TypeOK
  <2> QED
    <3>1. CASE stats' = stats
      BY <3>1
    <3>2. CASE \E n \in Nat : stats' = Recorded(stats, FALSE, n) \/ stats' = Dispatched(stats, n)
      <4>1. PICK n \in Nat : stats' = Recorded(stats, FALSE, n) \/ stats' = Dispatched(stats, n)
        BY <3>2
      <4>2. /\ Recorded(stats, FALSE, n).failOpenServed = stats.failOpenServed
            /\ Dispatched(stats, n).failOpenServed = stats.failOpenServed
        BY <2>2, FailOpenCount
      <4> QED
        BY <4>1, <4>2
    <3> QED
      BY <2>1, <3>1, <3>2
<1>4. UnitsDistinct' /\ UnitsUncached'
  BY <1>1, <1>2, SameUnits DEF KeysApart
<1> QED
  BY <1>3, <1>4 DEF KeysApart, FailOpenNeverServes

\* loadCacheEntry leaves a key it found expired out of the cache and adds none.
LEMMA ForgetFacts ==
  ASSUME TypeOK, NEW r \in Requests, Misses(r), cache' = ForgetExpired(CacheKey[r])
  PROVE  /\ DOMAIN cache' \subseteq DOMAIN cache
         /\ cacheEnabled /\ cacheable(r) => CacheKey[r] \notin DOMAIN cache'
BY DEF Misses, ForgetExpired, Without, Fresh

\* A hit answers one request and keeps units and cache.
LEMMA HitKeys ==
  ASSUME TypeOK, KeysApart, PrepareHit
  PROVE  KeysApart'
<1> DEFINE k == CacheKey[Head(chunk)]
<1>1. UNCHANGED <<units, cache>>
  BY DEF PrepareHit
<1>2. k \in DOMAIN cache /\ stats' = Recorded([stats EXCEPT !.cacheHits = @ + 1], cache[k].result.ok, 1)
  BY DEF PrepareHit, Fresh
<1>3. cache[k].result.ok \in BOOLEAN
  BY <1>2 DEF TypeOK, Entry, Result
<1> DEFINE s == [stats EXCEPT !.cacheHits = @ + 1]
<1>4. stats \in [Counters -> Nat] /\ "cacheHits" \in Counters
  BY DEF TypeOK, Counters
<1>5. s \in [Counters -> Nat] /\ s.failOpenServed = stats.failOpenServed
  BY <1>4, FailOpenCount
<1>7. stats'.failOpenServed = stats.failOpenServed
  <2> HIDE DEF s
  <2>1. Recorded(s, cache[k].result.ok, 1).failOpenServed = s.failOpenServed
    BY <1>3, <1>5, RecordedFailOpen
  <2>2. stats' = Recorded(s, cache[k].result.ok, 1)
    BY <1>2 DEF s
  <2> QED
    BY <1>5, <2>1, <2>2
<1>6. UnitsDistinct' /\ UnitsUncached'
  BY <1>1, SameUnits DEF KeysApart
<1> QED
  BY <1>6, <1>7 DEF KeysApart, FailOpenNeverServes

\* A duplicate joins a unit: no primary changes.
LEMMA DuplicateKeys ==
  ASSUME TypeOK, KeysApart, PrepareDuplicate
  PROVE  KeysApart'
<1> DEFINE r == Head(chunk)
<1>0. r \in Requests /\ Misses(r) /\ cache' = ForgetExpired(CacheKey[r])
  BY DEF PrepareDuplicate, TypeOK
<1>1. DOMAIN cache' \subseteq DOMAIN cache
  BY <1>0, ForgetFacts
<1>2. PICK i \in DOMAIN units : units' = [units EXCEPT ![i].duplicates = @ \cup {r}]
  BY DEF PrepareDuplicate
<1>3. /\ DOMAIN units' = DOMAIN units
      /\ \A j \in DOMAIN units : units'[j].primary = units[j].primary
  <2>1. /\ units[i] \in Unit
        /\ \A j \in DOMAIN units : j # i => units'[j] = units[j]
        /\ units'[i] = [units[i] EXCEPT !.duplicates = @ \cup {r}]
        /\ DOMAIN units' = DOMAIN units
    BY <1>2 DEF TypeOK
  <2> QED
    BY <2>1 DEF Unit
<1>4. UnitsDistinct' /\ UnitsUncached'
  BY <1>1, <1>3 DEF KeysApart, UnitsDistinct, UnitsUncached, cacheEnabled, cacheable
<1>5. stats'.failOpenServed = stats.failOpenServed
  BY FailOpenCount DEF PrepareDuplicate, TypeOK
<1> QED
  BY <1>4, <1>5 DEF KeysApart, FailOpenNeverServes

\* A new unit: its key is in no other unit and not in the cache any more.
LEMMA UnitKeys ==
  ASSUME TypeOK, KeysApart, PrepareUnit
  PROVE  KeysApart'
<1> DEFINE r == Head(chunk)
           n == Len(units) + 1
           u == [primary |-> r, duplicates |-> {}]
<1>0. /\ r \in Requests /\ Misses(r) /\ cache' = ForgetExpired(CacheKey[r])
      /\ \A i \in DOMAIN units : ~SameKey(i, r)
      /\ units' = Append(units, u)
      /\ stats' = stats
  BY DEF PrepareUnit, TypeOK
<1>1. /\ DOMAIN cache' \subseteq DOMAIN cache
      /\ cacheEnabled /\ cacheable(r) => CacheKey[r] \notin DOMAIN cache'
  BY <1>0, ForgetFacts
<1>2. /\ units \in Seq(Unit) /\ u \in Unit
      /\ Len(units) \in Nat
      /\ DOMAIN units = 1 .. Len(units)
      /\ DOMAIN units' = 1 .. n
      /\ \A i \in 1 .. Len(units) : units'[i] = units[i]
      /\ units'[n] = u
      /\ u.primary = r
  BY <1>0 DEF TypeOK, Unit
<1>3. \A i \in 1 .. n : i = n \/ i \in 1 .. Len(units)
  BY <1>2
<1>4. UnitsDistinct'
  <2> SUFFICES ASSUME NEW i \in 1 .. n, NEW j \in 1 .. n, i # j,
                      cacheable(units'[i].primary)
               PROVE  CacheKey[units'[i].primary] # CacheKey[units'[j].primary]
    BY <1>2 DEF UnitsDistinct, cacheable
  <2>1. CASE i = n
    BY <1>0, <1>2, <1>3, <2>1 DEF SameKey
  <2>2. CASE j = n
    BY <1>0, <1>2, <1>3, <2>2 DEF SameKey, cacheable
  <2>3. CASE i # n /\ j # n
    BY <1>2, <1>3, <2>3 DEF KeysApart, UnitsDistinct, cacheable
  <2> QED
    BY <2>1, <2>2, <2>3
<1>5. UnitsUncached'
  BY <1>1, <1>2, <1>3 DEF KeysApart, UnitsUncached, cacheable, cacheEnabled
<1> QED
  BY <1>0, <1>4, <1>5 DEF KeysApart, FailOpenNeverServes

\* A unit at the head is answered with its own result or an error, never with a
\* stale response, and what it stores is the key of no other unit.
LEMMA AnswerKeys ==
  ASSUME TypeOK, KeysApart, DeliverUnit \/ FailUnit
  PROVE  KeysApart'
<1> DEFINE unit == Head(units)
<1>1. /\ units \in Seq(Unit) /\ unit \in Unit
      /\ Len(units) \in Nat \ {0}
      /\ DOMAIN units = 1 .. Len(units)
      /\ DOMAIN units' = 1 .. (Len(units) - 1)
      /\ \A i \in 1 .. (Len(units) - 1) : units'[i] = units[i + 1]
      /\ unit = units[1]
  <2>1. units \in Seq(Unit) /\ units # <<>> /\ units' = Tail(units)
    BY DEF DeliverUnit, FailUnit, TypeOK
  <2> QED
    BY <2>1
<1>2. ~Recovers(unit)
  BY <1>1 DEF Recovers, StaleUsable, KeysApart, UnitsUncached
<1>3. stats'.failOpenServed = stats.failOpenServed
  <2>1. PICK ok \in BOOLEAN :
          stats' = Recorded(FailOpenServed(stats, FALSE), ok, 1 + Cardinality(unit.duplicates))
    <3>1. CASE DeliverUnit
      <4>1. PrimaryResult(unit).ok \in BOOLEAN
        BY <1>1, UnitResultTypes DEF Result
      <4> QED
        BY <1>2, <3>1, <4>1 DEF DeliverUnit
    <3>2. CASE FailUnit
      <4>1. Substitute(unit, FALSE, failCode).ok \in BOOLEAN
        BY DEF Substitute, errorResult
      <4> QED
        BY <1>2, <3>2, <4>1 DEF FailUnit
    <3> QED
      BY <3>1, <3>2
  <2>2. 1 + Cardinality(unit.duplicates) \in Nat
    BY <1>1, UnitFacts
  <2>3. stats \in [Counters -> Nat] /\ FailOpenServed(stats, FALSE) = stats
    BY DEF TypeOK, FailOpenServed
  <2>4. Recorded(stats, ok, 1 + Cardinality(unit.duplicates)).failOpenServed = stats.failOpenServed
    BY <2>2, <2>3, RecordedFailOpen
  <2> QED
    BY <2>1, <2>3, <2>4
<1>4. UnitsDistinct'
  <2> SUFFICES ASSUME NEW i \in DOMAIN units', NEW j \in DOMAIN units', i # j,
                      CacheKey[units'[i].primary] # NoKey
               PROVE  CacheKey[units'[i].primary] # CacheKey[units'[j].primary]
    BY DEF UnitsDistinct, cacheable
  <2>1. /\ i + 1 \in DOMAIN units /\ j + 1 \in DOMAIN units /\ i + 1 # j + 1
        /\ units'[i] = units[i + 1] /\ units'[j] = units[j + 1]
    BY <1>1
  <2> QED
    BY <2>1 DEF KeysApart, UnitsDistinct, cacheable
<1>5. \A k \in DOMAIN cache' : k \in DOMAIN cache \/ (cacheable(unit.primary) /\ k = CacheKey[unit.primary])
  <2>1. CASE UNCHANGED cache
    BY <2>1
  <2>2. CASE /\ cacheable(unit.primary)
             /\ \E x : storeCacheEntry(CacheKey[unit.primary], x)
    <3>1. PICK x : storeCacheEntry(CacheKey[unit.primary], x)
      BY <2>2
    <3>2. CASE cacheEnabled
      <4>1. PICK dropped \in Victims :
              DOMAIN cache' = (DOMAIN cache \ dropped) \cup {CacheKey[unit.primary]}
        BY <3>1, <3>2 DEF storeCacheEntry
      <4> QED
        BY <2>2, <4>1
    <3>3. CASE ~cacheEnabled
      BY <3>1, <3>3 DEF storeCacheEntry
    <3> QED
      BY <3>2, <3>3
  <2>3. CASE FailUnit
    BY <2>1, <2>3 DEF FailUnit
  <2>4. CASE DeliverUnit
    <3>1. \/ UNCHANGED cache
          \/ /\ cacheable(unit.primary)
             /\ storeCacheEntry(CacheKey[unit.primary], PrimaryResult(unit))
      BY <2>4, Zenon DEF DeliverUnit
    <3> QED
      BY <2>1, <2>2, <3>1
  <2> QED
    BY <2>3, <2>4
<1>6. UnitsUncached'
  <2> SUFFICES ASSUME NEW i \in 1 .. (Len(units) - 1), cacheEnabled,
                      cacheable(units[i + 1].primary)
               PROVE  CacheKey[units[i + 1].primary] \notin DOMAIN cache'
    BY <1>1 DEF UnitsUncached, cacheable, cacheEnabled
  <2>1. i + 1 \in DOMAIN units /\ 1 \in DOMAIN units /\ i + 1 # 1
    BY <1>1
  <2>2. CacheKey[units[i + 1].primary] \notin DOMAIN cache
    BY <2>1 DEF KeysApart, UnitsUncached
  <2>3. CacheKey[units[i + 1].primary] # CacheKey[units[1].primary]
    BY <2>1 DEF KeysApart, UnitsDistinct
  <2> QED
    BY <1>1, <1>5, <2>2, <2>3
<1> QED
  BY <1>3, <1>4, <1>6 DEF KeysApart, FailOpenNeverServes

\* Every step keeps the keys of the units apart and out of the cache.
LEMMA NextKeys == TypeOK /\ KeysApart /\ [Next]_vars => KeysApart'
<1> SUFFICES ASSUME TypeOK, KeysApart, [Next]_vars PROVE KeysApart'
  OBVIOUS
<1>1. CASE UNCHANGED vars
  BY <1>1, SameUnits DEF vars, KeysApart, FailOpenNeverServes
<1>2. CASE \E r \in Requests : Submit(r)
  BY <1>2, SubmitKeys
<1>3. CASE RunStep \/ Elapse \/ ContextDone
  BY <1>3, LoopKeys, HitKeys, DuplicateKeys, UnitKeys, AnswerKeys DEF RunStep
<1> QED
  BY <1>1, <1>2, <1>3 DEF Next

\* The primaries of the units are among the requests they answer.
LEMMA PrimariesAreMembers ==
  ASSUME TypeOK
  PROVE  Primaries \subseteq UnitMembers
<1> SUFFICES ASSUME NEW i \in DOMAIN units PROVE units[i].primary \in UnitMembers
  BY DEF Primaries
<1>1. units[i] \in Unit
  BY DEF TypeOK
<1>2. units[i].primary \in Requests
  BY <1>1 DEF Unit
<1>3. units[i].primary \in Members(units[i])
  BY DEF Members
<1> QED
  BY <1>2, <1>3 DEF UnitMembers

\* What a request enters through: Submit.
LEMMA SubmitNotExecuted ==
  ASSUME TypeOK, Conserved, NotYetExecuted, NEW r \in Requests, Submit(r)
  PROVE  NotYetExecuted'
<1> USE DEF batchVars
<1>1. /\ UNCHANGED <<pending, chunk, remaining, units, pc, executed>>
      /\ UnitMembers' = UnitMembers
  BY DEF Submit, SubmitClassified, SubmitBackpressured, SubmitChecked, Enqueue, QueueOverflow,
     RecordSubmitted, ReceiveResult, CallerGivesUp, UnitMembers, Members
<1>2. /\ \A q \in Requests : q # r => caller'[q] = caller[q]
      /\ caller[r] \notin {"idle", "checked"} => caller'[r] \notin {"idle", "checked"}
  BY DEF Submit, SubmitClassified, SubmitBackpressured, SubmitChecked, Enqueue, QueueOverflow,
     RecordSubmitted, ReceiveResult, CallerGivesUp, RejectLocally, Return, TypeOK
<1>3. executed \cap Range(queue') = {}
  <2>1. CASE Enqueue(r)
    <3>1. r \notin executed /\ r \notin Held
      BY <2>1 DEF Enqueue, NotYetExecuted, Conserved, HeldUnanswered
    <3>2. Range(queue') = Range(queue) \cup {r}
      BY <2>1, <3>1, AppendFacts DEF Enqueue, TypeOK, Conserved, SingleHolder, Held
    <3> QED
      BY <3>1, <3>2 DEF NotYetExecuted
  <2>2. CASE ~Enqueue(r)
    <3>1. UNCHANGED queue
      BY <2>2 DEF Submit, SubmitClassified, SubmitBackpressured, SubmitChecked, QueueOverflow,
         RecordSubmitted, ReceiveResult, CallerGivesUp
    <3> QED
      BY <3>1 DEF NotYetExecuted
  <2> QED
    BY <2>1, <2>2
<1> QED
  BY <1>1, <1>2, <1>3 DEF NotYetExecuted, TypeOK

\* Run moves requests between its places, or answers them.
LEMMA MoveNotExecuted ==
  ASSUME NotYetExecuted, UNCHANGED <<caller, executed>>,
         Range(queue') \cup Range(pending') \cup Range(chunk') \cup Range(remaining')
           \subseteq Range(queue) \cup Range(pending) \cup Range(chunk) \cup Range(remaining),
         pc' = "prepare" =>
           UnitMembers' \subseteq (IF pc = "prepare" THEN UnitMembers ELSE {}) \cup Range(chunk)
  PROVE  NotYetExecuted'
BY DEF NotYetExecuted

\* The select loop and pickBatchChunk.
LEMMA LoopNotExecuted ==
  ASSUME TypeOK, Conserved, LoopShape, NotYetExecuted,
         \/ RunStops \/ RunReceives \/ TickIdle \/ TickBackpressured \/ TickPicks
         \/ PickInto \/ PickLater \/ PickTooLarge \/ PickDone
  PROVE  NotYetExecuted'
<1> USE DEF callerVars, batchVars, timeVars
<1>1. UNCHANGED <<caller, executed, units>> /\ units = <<>>
  BY DEF RunStops, RunReceives, TickIdle, TickBackpressured, TickPicks, TakeTick, PickInto,
     PickLater, PickTooLarge, PickDone, LoopShape
<1>2. UnitMembers' = {}
  BY <1>1 DEF UnitMembers
<1>3. CASE RunStops \/ TickIdle \/ TickBackpressured \/ TickPicks
  <2>1. UNCHANGED <<queue, chunk, remaining>> /\ (pending' = pending \/ pending' = <<>>)
    BY <1>3 DEF RunStops, TickIdle, TickBackpressured, TickPicks, TakeTick
  <2>2. Range(pending') \subseteq Range(pending)
    BY <2>1, EmptyRange
  <2> QED
    BY <1>1, <1>2, <2>1, <2>2, MoveNotExecuted
<1>4. CASE RunReceives
  <2>1. /\ UNCHANGED <<chunk, remaining>> /\ queue # <<>>
        /\ queue' = Tail(queue) /\ pending' = Append(pending, Head(queue))
    BY <1>4 DEF RunReceives
  <2>2. /\ Head(queue) \in Range(queue)
        /\ Range(queue') = Range(queue) \ {Head(queue)}
    BY <2>1, TailFacts DEF TypeOK, Conserved, SingleHolder
  <2>3. Range(pending') = Range(pending) \cup {Head(queue)}
    <3>1. Head(queue) \notin Range(pending) /\ Head(queue) \in Requests
      BY <2>1, <2>2 DEF TypeOK, Conserved, SingleHolder
    <3> QED
      BY <2>1, <3>1, AppendFacts DEF TypeOK, Conserved, SingleHolder
  <2> QED
    BY <1>1, <1>2, <2>1, <2>2, <2>3, MoveNotExecuted
<1>5. CASE PickInto \/ PickLater \/ PickTooLarge
  <2> DEFINE r == Head(pending)
  <2>1. /\ UNCHANGED queue /\ pending # <<>> /\ pending' = Tail(pending)
        /\ chunk' = chunk \/ chunk' = Append(chunk, r)
        /\ remaining' = remaining \/ remaining' = Append(remaining, r)
    BY <1>5 DEF PickInto, PickLater, PickTooLarge
  <2>2. r \in Range(pending) /\ r \in Requests /\ Range(pending') = Range(pending) \ {r}
    BY <2>1, TailFacts, HeldRequests DEF TypeOK, Conserved, SingleHolder
  <2>3. r \notin Range(chunk) /\ r \notin Range(remaining)
    BY <2>2 DEF Conserved, SingleHolder
  <2>4. Range(chunk') \subseteq Range(chunk) \cup {r}
    <3>1. Range(Append(chunk, r)) = Range(chunk) \cup {r}
      BY <2>2, <2>3, AppendFacts DEF TypeOK, Conserved, SingleHolder
    <3> QED
      BY <2>1, <3>1
  <2>5. Range(remaining') \subseteq Range(remaining) \cup {r}
    <3>1. Range(Append(remaining, r)) = Range(remaining) \cup {r}
      BY <2>2, <2>3, AppendFacts DEF TypeOK, Conserved, SingleHolder
    <3> QED
      BY <2>1, <3>1
  <2> QED
    BY <1>1, <1>2, <2>1, <2>2, <2>4, <2>5, MoveNotExecuted
<1>6. CASE PickDone
  <2>1. UNCHANGED <<queue, chunk>> /\ pending' = remaining /\ remaining' = <<>>
    BY <1>6 DEF PickDone
  <2>2. Range(remaining') = {}
    BY <2>1, EmptyRange
  <2> QED
    BY <1>1, <1>2, <2>1, <2>2, MoveNotExecuted
<1> QED
  BY <1>3, <1>4, <1>5, <1>6

\* prepareDispatchUnits moves requests of the chunk into units; after the dispatch
\* the units are answered and never go back.
LEMMA BatchNotExecuted ==
  ASSUME TypeOK, Conserved, LoopShape, NotYetExecuted,
         \/ PrepareHit \/ PrepareDuplicate \/ PrepareUnit
         \/ NothingToDispatch \/ RefuseBatch \/ StartDispatch
         \/ ProcessBatchReturns \/ DeliverUnit \/ FailUnit \/ BatchDone
  PROVE  NotYetExecuted'
<1> USE DEF callerVars, batchVars, timeVars
<1> DEFINE r == Head(chunk)
<1>1. UNCHANGED <<caller, queue, pending, remaining>>
  BY DEF PrepareHit, PrepareDuplicate, PrepareUnit, NothingToDispatch, RefuseBatch,
     StartDispatch, ProcessBatchReturns, DispatchFails, PackageMismatch, PackageArrives,
     DeliverUnit, FailUnit, BatchDone
<1>2. CASE PrepareHit \/ PrepareDuplicate \/ PrepareUnit
  <2>1. pc = "prepare" /\ chunk # <<>> /\ chunk' = Tail(chunk) /\ UNCHANGED executed
    BY <1>2 DEF PrepareHit, PrepareDuplicate, PrepareUnit
  <2>2. r \in Range(chunk) /\ r \in Requests /\ Range(chunk') = Range(chunk) \ {r}
    BY <2>1, TailFacts, HeldRequests DEF TypeOK, Conserved, SingleHolder
  <2>3. UnitsDisjoint /\ r \notin UnitMembers
    BY <2>2 DEF Conserved, SingleHolder
  <2>4. UnitMembers' \subseteq UnitMembers \cup {r}
    <3>1. CASE PrepareHit
      BY <3>1 DEF PrepareHit, UnitMembers, Members
    <3>2. CASE PrepareDuplicate
      <4>1. PICK i \in DOMAIN units : units' = [units EXCEPT ![i].duplicates = @ \cup {r}]
        BY <3>2 DEF PrepareDuplicate
      <4> QED
        BY <2>2, <2>3, <4>1, JoinUnit
    <3>3. CASE PrepareUnit
      <4>1. units' = Append(units, [primary |-> r, duplicates |-> {}])
        BY <3>3 DEF PrepareUnit
      <4> QED
        BY <2>2, <2>3, <4>1, AppendUnit
    <3> QED
      BY <1>2, <3>1, <3>2, <3>3
  <2> QED
    BY <1>1, <2>1, <2>2, <2>4, MoveNotExecuted
<1>3. CASE NothingToDispatch \/ RefuseBatch \/ ProcessBatchReturns \/ DeliverUnit \/ FailUnit
             \/ BatchDone
  <2>1. UNCHANGED <<chunk, executed>> /\ pc' # "prepare"
    BY <1>3 DEF NothingToDispatch, RefuseBatch, ProcessBatchReturns, DispatchFails,
       PackageMismatch, PackageArrives, DeliverUnit, FailUnit, BatchDone
  <2> QED
    BY <1>1, <2>1, MoveNotExecuted
<1>4. CASE StartDispatch
  <2>1. /\ UNCHANGED chunk /\ pc' = "process" /\ executed' = executed \cup Primaries
    BY <1>4 DEF StartDispatch
  <2>2. Primaries \subseteq UnitMembers
    BY PrimariesAreMembers
  <2>3. \A q \in UnitMembers : caller[q] \notin {"idle", "checked"}
    BY DEF Conserved, HeldUnanswered, Held
  <2>4. UnitMembers \cap (Range(queue) \cup Range(pending) \cup Range(chunk) \cup Range(remaining)) = {}
    BY DEF Conserved, SingleHolder
  <2> QED
    BY <1>1, <2>1, <2>2, <2>3, <2>4 DEF NotYetExecuted
<1> QED
  BY <1>2, <1>3, <1>4

\* Every step keeps the executed requests out of reach of a later batch.
LEMMA NextNotExecuted ==
  TypeOK /\ Conserved /\ LoopShape /\ NotYetExecuted /\ [Next]_vars => NotYetExecuted'
<1> SUFFICES ASSUME TypeOK, Conserved, LoopShape, NotYetExecuted, [Next]_vars
             PROVE  NotYetExecuted'
  OBVIOUS
<1>1. CASE Elapse \/ ContextDone \/ UNCHANGED vars
  <2>1. UNCHANGED <<caller, queue, pending, chunk, remaining, units, pc, executed>>
    BY <1>1 DEF Elapse, ContextDone, vars, callerVars, batchVars
  <2>2. UnitMembers' = UnitMembers
    BY <2>1 DEF UnitMembers, Members
  <2> QED
    BY <2>1, <2>2 DEF NotYetExecuted
<1>2. CASE \E r \in Requests : Submit(r)
  BY <1>2, SubmitNotExecuted
<1>3. CASE RunStep
  BY <1>3, LoopNotExecuted, BatchNotExecuted DEF RunStep
<1> QED
  BY <1>1, <1>2, <1>3 DEF Next

\* At every point of dispatchBatch (src/client/internal/agent/agent.go) Run's locals, the
\* cache, the cooldown and what has been dispatched fit together as BatchCycle says, which
\* is inductive beside TypeOK and Conserved.
THEOREM AlwaysBatchCycle == Spec => []BatchCycle
<1>1. Init => BatchCycle
  BY InitCycle
<1>2. TypeOK /\ Conserved /\ BatchCycle /\ [Next]_vars => BatchCycle'
  BY NextShape, NextCooldown, NextKeys, NextNotExecuted DEF BatchCycle, KeysApart
<1> QED
  BY <1>1, <1>2, TypeCorrect, AlwaysConserved, PTL DEF Spec

\* The stale fallback of fail_open never serves anything, for any settings.
THEOREM FailOpenIsDead == Spec => []FailOpenNeverServes
<1>1. BatchCycle => FailOpenNeverServes
  BY DEF BatchCycle
<1> QED
  BY <1>1, AlwaysBatchCycle, PTL

\* No two units of a batch have the same cache key.
THEOREM UnitsHaveOwnKeys == Spec => []UnitsDistinct
<1>1. BatchCycle => UnitsDistinct
  BY DEF BatchCycle
<1> QED
  BY <1>1, AlwaysBatchCycle, PTL

\* Nothing is dispatched while a cooldown runs.
THEOREM CooldownHoldsBatches == Spec => []NoDispatchInCooldown
<1>1. BatchCycle => NoDispatchInCooldown
  BY DEF BatchCycle
<1> QED
  BY <1>1, AlwaysBatchCycle, PTL

\* No request is dispatched twice.
THEOREM DispatchedAtMostOnce == Spec => ExecutedOnce
<1>1. TypeOK /\ BatchCycle /\ [Next]_vars => [StartDispatch => Primaries \cap executed = {}]_vars
  <2> SUFFICES ASSUME TypeOK, BatchCycle, StartDispatch PROVE Primaries \cap executed = {}
    OBVIOUS
  <2>1. Primaries \subseteq UnitMembers
    BY PrimariesAreMembers
  <2> QED
    BY <2>1 DEF BatchCycle, NotYetExecuted, StartDispatch
<1> QED
  BY <1>1, TypeCorrect, AlwaysBatchCycle, PTL DEF Spec, ExecutedOnce
----------------------------------------------------------------------------
(* The cooldown as the operator sees it. *)

\* While a cooldown runs the delayed run is the last error.
CooldownIsTold == BackpressureActive => lastError = "RUN_DELAYED"

\* Only a dispatch changes the last error, and none happens in a cooldown.
LEMMA NextTold ==
  TypeOK /\ NoDispatchInCooldown /\ CooldownIsTold /\ [Next]_vars => CooldownIsTold'
<1> SUFFICES ASSUME TypeOK, NoDispatchInCooldown, CooldownIsTold, [Next]_vars PROVE CooldownIsTold'
  OBVIOUS
<1> USE DEF CooldownIsTold, BackpressureActive, callerVars, timeVars, batchVars, runtime
<1>0. backpressure \in Int
  BY SettingsAssumption DEF TypeOK, NoBackpressure
<1>1. CASE UNCHANGED vars
  BY <1>1 DEF vars
<1>2. ASSUME NEW r \in Requests, Submit(r) PROVE CooldownIsTold'
  <2>1. UNCHANGED lastError /\ (backpressure' = backpressure \/ backpressure' = NoBackpressure)
    BY <1>2 DEF Submit, SubmitClassified, SubmitBackpressured, SubmitChecked, Enqueue,
       QueueOverflow, RecordSubmitted, ReceiveResult, CallerGivesUp, backpressureState
  <2> QED
    BY <2>1 DEF NoBackpressure
<1>3. CASE RunStops \/ RunReceives \/ TickIdle \/ TickBackpressured \/ TickPicks
  <2>1. UNCHANGED lastError /\ (backpressure' = backpressure \/ backpressure' = NoBackpressure)
    BY <1>3 DEF RunStops, RunReceives, TickIdle, TickBackpressured, TickPicks, TakeTick,
       backpressureState, setPendingInBatchBuffer
  <2> QED
    BY <2>1 DEF NoBackpressure
<1>4. CASE PickInto \/ PickLater \/ PickTooLarge \/ PickDone
  BY <1>4 DEF PickInto, PickLater, PickTooLarge, PickDone, setPendingInBatchBuffer
<1>5. CASE PrepareHit \/ PrepareDuplicate \/ PrepareUnit \/ NothingToDispatch \/ RefuseBatch
  BY <1>5 DEF PrepareHit, PrepareDuplicate, PrepareUnit, NothingToDispatch, RefuseBatch
<1>6. CASE StartDispatch
  BY <1>6 DEF StartDispatch, NoDispatchInCooldown
<1>7. CASE ProcessBatchReturns
  <2>1. ASSUME NEW code \in DispatchErrors, DispatchFails(code) PROVE CooldownIsTold'
    BY <2>1 DEF DispatchFails, recordDispatchError, SetInFlight, activateBackpressure,
       NoDispatchInCooldown
  <2>2. ASSUME NEW ids \in SUBSET Requests, PackageMismatch(ids) PROVE CooldownIsTold'
    BY <2>2 DEF PackageMismatch, NoDispatchInCooldown
  <2>3. ASSUME NEW results \in [Primaries -> Outcomes], PackageArrives(results) PROVE CooldownIsTold'
    BY <2>3 DEF PackageArrives, NoDispatchInCooldown
  <2> QED
    BY <1>7, <2>1, <2>2, <2>3 DEF ProcessBatchReturns
<1>8. CASE DeliverUnit \/ FailUnit \/ BatchDone
  BY <1>8 DEF DeliverUnit, FailUnit, BatchDone
<1>9. CASE Elapse \/ ContextDone
  BY <1>0, <1>9 DEF Elapse, ContextDone
<1> QED
  BY <1>1, <1>2, <1>3, <1>4, <1>5, <1>6, <1>7, <1>8, <1>9 DEF Next, RunStep

\* What status makes of a cooldown whose cause is the last error.
LEMMA ToldIsDegraded == CooldownIsTold => ThrottledIsDegraded
<1> SUFFICES ASSUME BackpressureActive, lastError = "RUN_DELAYED" PROVE ThrottledIsDegraded
  BY DEF CooldownIsTold, ThrottledIsDegraded
<1>1. Snapshot.LastDispatchErrorCode = "RUN_DELAYED" /\ Snapshot.BackpressureActive = BackpressureActive
  BY DEF Snapshot
<1>2. buildSupportability(Snapshot, FALSE) # "healthy"
  BY <1>1 DEF buildSupportability
<1> DEFINE issue == [issue |-> "backpressure_active", severity |-> "warning"]
<1>3. issue \in buildDiagnostics(Snapshot, FALSE, FALSE)
  BY <1>1 DEF buildDiagnostics
<1>4. maxSeverity(buildDiagnostics(Snapshot, FALSE, FALSE)) # "ok"
  BY <1>3 DEF maxSeverity
<1> QED
  BY <1>2, <1>4 DEF ThrottledIsDegraded

\* While a cooldown turns callers away (src/client/internal/agent/agent.go), status does
\* not call the agent healthy (buildSupportability and buildDiagnostics,
\* src/client/cmd/actionrelay/main.go), for any settings and calls.
THEOREM CooldownIsSeen == Spec => []ThrottledIsDegraded
<1>1. Init => CooldownIsTold
  BY DEF Init, CooldownIsTold, BackpressureActive, NoBackpressure
<1>2. TypeOK /\ BatchCycle /\ CooldownIsTold /\ [Next]_vars => CooldownIsTold'
  BY NextTold DEF BatchCycle
<1> QED
  BY <1>1, <1>2, ToldIsDegraded, TypeCorrect, AlwaysBatchCycle, PTL DEF Spec
----------------------------------------------------------------------------
(* The size of the cache. *)

\* The cache is finite, within its limit and empty when it is switched off.
CacheFits == IsFiniteSet(DOMAIN cache) /\ CacheBounded

\* Entries that are dropped leave a cache that fits.
LEMMA FewerFit ==
  ASSUME CacheFits, DOMAIN cache' \subseteq DOMAIN cache
  PROVE  CacheFits'
<1> DEFINE D == DOMAIN cache
           E == DOMAIN cache'
           limit == IF cacheEnabled THEN CacheMaxEntries ELSE 0
<1>1. IsFiniteSet(E) /\ Cardinality(E) <= Cardinality(D) /\ Cardinality(D) \in Nat /\ Cardinality(E) \in Nat
  BY FS_Subset, FS_CardinalityType DEF CacheFits
<1>2. Cardinality(D) <= limit /\ limit \in Nat
  BY SettingsAssumption DEF CacheFits, CacheBounded
<1>3. Cardinality(E) <= limit
  BY <1>1, <1>2
<1> QED
  BY <1>1, <1>3 DEF CacheFits, CacheBounded, cacheEnabled

\* storeCacheEntry makes room first.
LEMMA StoreFits ==
  ASSUME CacheFits, NEW k, NEW result, storeCacheEntry(k, result)
  PROVE  CacheFits'
<1> DEFINE D == DOMAIN cache
           E == DOMAIN cache'
<1>1. CASE ~cacheEnabled
  <2>1. E \subseteq D
    BY <1>1 DEF storeCacheEntry
  <2> QED
    BY <2>1, FewerFit
<1>2. CASE cacheEnabled
  <2>1. PICK dropped \in Victims : E = (D \ dropped) \cup {k}
    BY <1>2 DEF storeCacheEntry
  <2>2. IsFiniteSet(D) /\ Cardinality(D) \in Nat /\ Cardinality(D) <= CacheMaxEntries
        /\ CacheMaxEntries \in Nat /\ CacheMaxEntries > 0
    BY <1>2, SettingsAssumption, FS_CardinalityType DEF CacheFits, CacheBounded, cacheEnabled
  <2>3. IsFiniteSet(D \ dropped) /\ Cardinality(D \ dropped) \in Nat /\ Cardinality(D \ dropped) + 1 <= CacheMaxEntries
    <3>1. CASE Cardinality(D) >= CacheMaxEntries /\ D # {}
      <4>1. PICK j \in D : dropped = {j}
        BY <2>1, <3>1 DEF Victims
      <4>2. IsFiniteSet(D \ {j}) /\ Cardinality(D \ {j}) = Cardinality(D) - 1
        BY <2>2, <4>1, FS_RemoveElement
      <4>3. Cardinality(D \ {j}) \in Nat
        BY <4>2, FS_CardinalityType
      <4> QED
        BY <2>2, <4>1, <4>2, <4>3
    <3>2. CASE ~(Cardinality(D) >= CacheMaxEntries /\ D # {})
      <4>1. dropped = {} /\ D \ dropped = D
        BY <2>1, <3>2 DEF Victims
      <4>2. D = {} => Cardinality(D) = 0
        BY FS_EmptySet
      <4>3. Cardinality(D) < CacheMaxEntries
        <5>1. CASE D = {}
          BY <2>2, <4>2, <5>1
        <5>2. CASE ~(Cardinality(D) >= CacheMaxEntries)
          BY <2>2, <5>2
        <5> QED
          BY <3>2, <5>1, <5>2
      <4>4. Cardinality(D) + 1 <= CacheMaxEntries
        BY <2>2, <4>3
      <4> HIDE DEF D
      <4> QED
        BY <2>2, <4>1, <4>4
    <3> QED
      BY <3>1, <3>2
  <2>4. IsFiniteSet(E) /\ Cardinality(E) <= Cardinality(D \ dropped) + 1 /\ Cardinality(E) \in Nat
    <3>1. /\ IsFiniteSet((D \ dropped) \cup {k})
          /\ Cardinality((D \ dropped) \cup {k}) = IF k \in D \ dropped THEN Cardinality(D \ dropped)
                                                    ELSE Cardinality(D \ dropped) + 1
      BY <2>3, FS_AddElement
    <3> QED
      BY <2>1, <2>3, <3>1
  <2>5. Cardinality(E) <= CacheMaxEntries
    BY <2>2, <2>3, <2>4
  <2> QED
    BY <1>2, <2>4, <2>5 DEF CacheFits, CacheBounded, cacheEnabled
<1> QED
  BY <1>1, <1>2

\* Every step keeps the cache within its limit.
LEMMA NextFits == TypeOK /\ CacheFits /\ [Next]_vars => CacheFits'
<1> SUFFICES ASSUME TypeOK, CacheFits, [Next]_vars PROVE CacheFits'
  OBVIOUS
<1> USE DEF batchVars, callerVars, timeVars
<1>1. CASE TickIdle \/ TickBackpressured \/ TickPicks
  BY <1>1, FewerFit DEF TickIdle, TickBackpressured, TickPicks, TakeTick, evictExpiredCache, Without
<1>2. CASE Elapse
  BY <1>2, FewerFit DEF Elapse
<1>3. CASE PrepareDuplicate \/ PrepareUnit
  BY <1>3, FewerFit DEF PrepareDuplicate, PrepareUnit, ForgetExpired, Without
<1>4. CASE DeliverUnit
  <2>1. \/ UNCHANGED cache
        \/ storeCacheEntry(CacheKey[Head(units).primary], PrimaryResult(Head(units)))
    BY <1>4 DEF DeliverUnit
  <2> QED
    BY <2>1, StoreFits, FewerFit
<1>5. CASE UNCHANGED cache
  BY <1>5, FewerFit
<1>6. (\E r \in Requests : Submit(r)) => UNCHANGED cache
  BY DEF Submit, SubmitClassified, SubmitBackpressured, SubmitChecked, Enqueue,
     QueueOverflow, RecordSubmitted, ReceiveResult, CallerGivesUp
<1>7. \/ RunStops \/ RunReceives \/ PickInto \/ PickLater \/ PickTooLarge \/ PickDone \/ PrepareHit
      \/ NothingToDispatch \/ RefuseBatch \/ StartDispatch \/ ProcessBatchReturns \/ FailUnit
      \/ BatchDone \/ ContextDone \/ UNCHANGED vars
      => UNCHANGED cache
  BY DEF RunStops, RunReceives, PickInto, PickLater, PickTooLarge, PickDone, PrepareHit,
     NothingToDispatch, RefuseBatch, StartDispatch, ProcessBatchReturns, DispatchFails,
     PackageMismatch, PackageArrives, FailUnit, BatchDone, ContextDone, vars
<1> QED
  BY <1>1, <1>2, <1>3, <1>4, <1>5, <1>6, <1>7 DEF Next, RunStep

\* The cache never outgrows CacheMaxEntries, whatever keys are asked for and whatever
\* mix of stores, expiries and evictions happens (storeCacheEntry and evictExpiredCache,
\* src/client/internal/agent/agent.go).
THEOREM CacheStaysBounded == Spec => []CacheBounded
<1>1. Init => CacheFits
  <2> SUFFICES ASSUME Init PROVE CacheFits
    OBVIOUS
  <2>1. DOMAIN cache = {}
    BY DEF Init
  <2>2. IsFiniteSet(DOMAIN cache) /\ Cardinality(DOMAIN cache) = 0
    BY <2>1, FS_EmptySet
  <2> QED
    BY <2>2, SettingsAssumption DEF CacheFits, CacheBounded
<1>2. TypeOK /\ CacheFits /\ [Next]_vars => CacheFits'
  BY NextFits
<1>3. CacheFits => CacheBounded
  BY DEF CacheFits
<1> QED
  BY <1>1, <1>2, <1>3, TypeCorrect, PTL DEF Spec
----------------------------------------------------------------------------
(* The counters of Snapshot. *)

AnsweredOnes == {r \in Requests : Answered(r)}

CountedOnes == {r \in Requests : caller[r] \in {"waiting", "returned", "cancelled"}}

\* The sums that the counters make up.
Told(s) == s.completed + s.failed
Entries(s) == s.submitted + s.localRejected
Savings(s) == s.cacheHits + s.deduplicated

\* The requests that have been dispatched or still may be: neither a cache hit nor a
\* duplicate, and not answered without a dispatch.
Usable ==
  executed \cup {r \in Requests : caller[r] \in {"idle", "checked"}}
    \cup Range(queue) \cup Range(pending) \cup Range(chunk) \cup Range(remaining)
    \cup (IF pc = "prepare" THEN Primaries ELSE {})

\* The inductive invariant of the counters: a hit or a duplicate is taken from Usable,
\* which is what keeps the savings and the dispatches apart.
CountersTrue ==
  /\ Told(stats) = Cardinality(AnsweredOnes)
  /\ Entries(stats) = Cardinality(CountedOnes)
  /\ stats.dispatchedRequests = Cardinality(executed)
  /\ Savings(stats) + Cardinality(Usable) <= Cardinality(Requests)

\* From s to t there are a answers, e entries, d dispatches and g savings more.
Moved(s, t, a, e, d, g) ==
  /\ Told(t) = Told(s) + a
  /\ Entries(t) = Entries(s) + e
  /\ t.dispatchedRequests = s.dispatchedRequests + d
  /\ Savings(t) = Savings(s) + g

\* What each of the recording methods adds.
LEMMA CounterMoves ==
  ASSUME NEW s \in [Counters -> Nat], NEW n \in Nat
  PROVE  /\ Moved(s, s, 0, 0, 0, 0)
         /\ \A ok \in BOOLEAN : Moved(s, Recorded(s, ok, n), n, 0, 0, 0)
         /\ Moved(s, LocallyRejected(s), 1, 1, 0, 0)
         /\ Moved(s, Dispatched(s, n), 0, 0, n, 0)
         /\ Moved(s, [s EXCEPT !.submitted = @ + 1], 0, 1, 0, 0)
         /\ Moved(s, [s EXCEPT !.deduplicated = @ + 1], 0, 0, 0, 1)
         /\ \A ok \in BOOLEAN : Moved(s, Recorded([s EXCEPT !.cacheHits = @ + 1], ok, 1), 1, 0, 0, 1)
         /\ \A ok, stale \in BOOLEAN : Moved(s, Recorded(FailOpenServed(s, stale), ok, n), n, 0, 0, 0)
<1> USE DEF Counters
<1>0. /\ s.completed \in Nat /\ s.failed \in Nat /\ s.submitted \in Nat /\ s.localRejected \in Nat
      /\ s.dispatchedRequests \in Nat /\ s.cacheHits \in Nat /\ s.deduplicated \in Nat
  OBVIOUS
<1>1. ASSUME NEW t \in [Counters -> Nat], NEW m \in Nat, NEW ok \in BOOLEAN
      PROVE  Moved(t, Recorded(t, ok, m), m, 0, 0, 0)
  <2>1. CASE ok
    BY <2>1 DEF Recorded, Moved, Told, Entries, Savings
  <2>2. CASE ~ok
    BY <2>2 DEF Recorded, Moved, Told, Entries, Savings
  <2> QED
    BY <2>1, <2>2
<1>2. Moved(s, LocallyRejected(s), 1, 1, 0, 0)
  <2> DEFINE t == [s EXCEPT !.localRejected = @ + 1]
  <2>1. t \in [Counters -> Nat] /\ Moved(s, t, 0, 1, 0, 0)
    BY <1>0 DEF Moved, Told, Entries, Savings
  <2>2. Moved(t, Recorded(t, FALSE, 1), 1, 0, 0, 0)
    BY <1>1, <2>1
  <2>3. Moved(t, LocallyRejected(s), 1, 0, 0, 0)
    BY <2>2, Zenon DEF LocallyRejected
  <2>4. Told(s) \in Nat /\ Entries(s) \in Nat /\ Savings(s) \in Nat
    BY <1>0 DEF Told, Entries, Savings
  <2> HIDE DEF t
  <2> QED
    BY <1>0, <2>1, <2>3, <2>4 DEF Moved
<1>3. Moved(s, Dispatched(s, n), 0, 0, n, 0)
  BY <1>0 DEF Dispatched, Moved, Told, Entries, Savings
<1>4. Moved(s, [s EXCEPT !.submitted = @ + 1], 0, 1, 0, 0)
  BY <1>0 DEF Moved, Told, Entries, Savings
<1>5. Moved(s, [s EXCEPT !.deduplicated = @ + 1], 0, 0, 0, 1)
  BY <1>0 DEF Moved, Told, Entries, Savings
<1>6. ASSUME NEW ok \in BOOLEAN
      PROVE  Moved(s, Recorded([s EXCEPT !.cacheHits = @ + 1], ok, 1), 1, 0, 0, 1)
  <2> DEFINE t == [s EXCEPT !.cacheHits = @ + 1]
  <2>1. t \in [Counters -> Nat] /\ Moved(s, t, 0, 0, 0, 1)
    BY <1>0 DEF Moved, Told, Entries, Savings
  <2>2. Moved(t, Recorded(t, ok, 1), 1, 0, 0, 0)
    BY <1>1, <2>1
  <2>3. Told(s) \in Nat /\ Entries(s) \in Nat /\ Savings(s) \in Nat
    BY <1>0 DEF Told, Entries, Savings
  <2> HIDE DEF t
  <2> QED
    BY <1>0, <2>1, <2>2, <2>3 DEF Moved, t
<1>7. ASSUME NEW ok \in BOOLEAN, NEW stale \in BOOLEAN
      PROVE  Moved(s, Recorded(FailOpenServed(s, stale), ok, n), n, 0, 0, 0)
  <2> DEFINE t == FailOpenServed(s, stale)
  <2>1. t \in [Counters -> Nat]
    BY CounterTypes
  <2>2. Moved(s, t, 0, 0, 0, 0)
    BY <1>0 DEF FailOpenServed, Moved, Told, Entries, Savings
  <2>3. Moved(t, Recorded(t, ok, n), n, 0, 0, 0)
    BY <1>1, <2>1
  <2>4. Told(s) \in Nat /\ Entries(s) \in Nat /\ Savings(s) \in Nat
    BY <1>0 DEF Told, Entries, Savings
  <2> HIDE DEF t
  <2> QED
    BY <1>0, <2>2, <2>3, <2>4 DEF Moved, t
<1>8. Moved(s, s, 0, 0, 0, 0)
  BY <1>0 DEF Moved, Told, Entries, Savings
<1> QED
  BY <1>1, <1>2, <1>3, <1>4, <1>5, <1>6, <1>7, <1>8

\* There are n positions in a sequence of length n.
LEMMA PositionsCount ==
  \A n \in Nat : IsFiniteSet(1 .. n) /\ Cardinality(1 .. n) = n
<1> TAKE n \in Nat
<1>1. 1 \in Int /\ n \in Int
  OBVIOUS
<1>2. IsFiniteSet(1 .. n)
  BY <1>1, FS_Interval
<1>3. Cardinality(1 .. n) = IF 1 > n THEN 0 ELSE n - 1 + 1
  BY <1>1, FS_Interval
<1>4. Cardinality(1 .. n) = n
  BY <1>3
<1> QED
  BY <1>2, <1>4

\* A batch has one request per unit.
LEMMA BatchSize ==
  ASSUME TypeOK, UnitsDisjoint
  PROVE  Cardinality(Primaries) = Len(units)
<1> DEFINE n == Len(units)
           f == [i \in 1 .. n |-> units[i].primary]
<1>1. units \in Seq(Unit) /\ n \in Nat /\ DOMAIN units = 1 .. n
  BY DEF TypeOK
<1>2. Primaries = {units[i].primary : i \in 1 .. n}
  BY <1>1 DEF Primaries
<1>3. \A i, j \in 1 .. n : f[i] = f[j] => i = j
  BY <1>1 DEF UnitsDisjoint, Members
<1>4. f \in Bijection(1 .. n, Primaries)
  <2>1. f \in [1 .. n -> Primaries]
    BY <1>2
  <2>2. \A p \in Primaries : \E i \in 1 .. n : f[i] = p
    BY <1>2
  <2> QED
    BY <1>3, <2>1, <2>2 DEF Bijection, Injection, Surjection, IsInjective
<1>5. IsFiniteSet(1 .. n) /\ Cardinality(1 .. n) = n
  BY <1>1, PositionsCount
<1>6. ExistsBijection(1 .. n, Primaries)
  BY <1>4 DEF ExistsBijection
<1> QED
  BY <1>5, <1>6, FS_Bijection

\* A sequence without repetitions has as many elements as positions.
LEMMA SequenceSize ==
  ASSUME NEW S, NEW s \in Seq(S), IsInjective(s)
  PROVE  Cardinality(Range(s)) = Len(s)
<1> DEFINE n == Len(s)
<1>1. n \in Nat /\ DOMAIN s = 1 .. n /\ s \in [1 .. n -> S]
  OBVIOUS
<1>2. Range(s) = {s[i] : i \in 1 .. n}
  BY <1>1 DEF Range
<1>3. s \in Bijection(1 .. n, Range(s))
  <2>1. s \in [1 .. n -> Range(s)]
    BY <1>1, <1>2
  <2>2. \A i, j \in 1 .. n : s[i] = s[j] => i = j
    BY <1>1 DEF IsInjective
  <2>3. \A y \in Range(s) : \E i \in 1 .. n : s[i] = y
    BY <1>2
  <2> QED
    BY <1>1, <2>1, <2>2, <2>3 DEF Bijection, Injection, Surjection, IsInjective
<1>4. IsFiniteSet(1 .. n) /\ Cardinality(1 .. n) = n
  BY <1>1, PositionsCount
<1>5. ExistsBijection(1 .. n, Range(s))
  BY <1>3 DEF ExistsBijection
<1> QED
  BY <1>4, <1>5, FS_Bijection

\* The head of one place moves to the end of another.
LEMMA TransferFacts ==
  ASSUME NEW s \in Seq(Requests), NEW t \in Seq(Requests), IsInjective(s), IsInjective(t),
         s # <<>>, Range(s) \cap Range(t) = {}
  PROVE  /\ Head(s) \in Range(s) /\ Head(s) \in Requests
         /\ Range(Tail(s)) = Range(s) \ {Head(s)}
         /\ Range(Append(t, Head(s))) = Range(t) \cup {Head(s)}
<1>1. Head(s) \in Range(s) /\ Range(Tail(s)) = Range(s) \ {Head(s)}
  BY TailFacts
<1>2. Head(s) \in Requests /\ Head(s) \notin Range(t)
  BY <1>1
<1>3. Range(Append(t, Head(s))) = Range(t) \cup {Head(s)}
  BY <1>2, AppendFacts
<1> QED
  BY <1>1, <1>2, <1>3

\* Sets of requests are finite, and disjoint ones add up.
LEMMA RequestSets ==
  ASSUME NEW S, NEW T, S \subseteq Requests, T \subseteq Requests
  PROVE  /\ Cardinality(S) \in Nat /\ Cardinality(T) \in Nat
         /\ S \cap T = {} => Cardinality(S \cup T) = Cardinality(S) + Cardinality(T)
         /\ S \subseteq T => Cardinality(S) <= Cardinality(T)
<1>1. IsFiniteSet(S) /\ IsFiniteSet(T)
  BY RequestsAssumption, FS_Subset
<1>2. Cardinality(S) \in Nat /\ Cardinality(T) \in Nat
  BY <1>1, FS_CardinalityType
<1>3. ASSUME S \cap T = {} PROVE Cardinality(S \cup T) = Cardinality(S) + Cardinality(T)
  <2>1. Cardinality(S \cup T) = Cardinality(S) + Cardinality(T) - Cardinality(S \cap T)
    BY <1>1, FS_Union
  <2>2. Cardinality(S \cap T) = 0
    BY <1>3, FS_EmptySet
  <2> QED
    BY <1>2, <2>1, <2>2
<1>4. S \subseteq T => Cardinality(S) <= Cardinality(T)
  BY <1>1, FS_Subset
<1> QED
  BY <1>2, <1>3, <1>4

\* All that Usable holds are requests.
LEMMA UsableRequests == TypeOK => Usable \subseteq Requests
<1> SUFFICES ASSUME TypeOK PROVE Usable \subseteq Requests
  OBVIOUS
<1>1. Primaries \subseteq Requests
  BY PrimariesAreMembers DEF UnitMembers
<1>2. executed \subseteq Requests
  BY DEF TypeOK
<1> QED
  BY <1>1, <1>2, HeldRequests DEF Usable

\* A step that answers A, lets in E, dispatches D and saves G, and counts just that.
LEMMA Recount ==
  ASSUME TypeOK, TypeOK', CountersTrue, NEW A, NEW E, NEW D, NEW G,
         A \subseteq Requests, A \cap AnsweredOnes = {}, AnsweredOnes' = AnsweredOnes \cup A,
         E \subseteq Requests, E \cap CountedOnes = {}, CountedOnes' = CountedOnes \cup E,
         D \subseteq Requests, D \cap executed = {}, executed' = executed \cup D,
         G \subseteq Usable, Usable' \subseteq Usable \ G,
         Moved(stats, stats', Cardinality(A), Cardinality(E), Cardinality(D), Cardinality(G))
  PROVE  CountersTrue'
<1>1. Told(stats') = Cardinality(AnsweredOnes')
  <2>1. AnsweredOnes \subseteq Requests
    BY DEF AnsweredOnes
  <2>2. Cardinality(AnsweredOnes \cup A) = Cardinality(AnsweredOnes) + Cardinality(A)
    BY <2>1, RequestSets
  <2> QED
    BY <2>2 DEF CountersTrue, Moved
<1>2. Entries(stats') = Cardinality(CountedOnes')
  <2>1. CountedOnes \subseteq Requests
    BY DEF CountedOnes
  <2>2. Cardinality(CountedOnes \cup E) = Cardinality(CountedOnes) + Cardinality(E)
    BY <2>1, RequestSets
  <2> QED
    BY <2>2 DEF CountersTrue, Moved
<1>3. stats'.dispatchedRequests = Cardinality(executed')
  <2>1. executed \subseteq Requests
    BY DEF TypeOK
  <2>2. Cardinality(executed \cup D) = Cardinality(executed) + Cardinality(D)
    BY <2>1, RequestSets
  <2> QED
    BY <2>2 DEF CountersTrue, Moved
<1>4. Savings(stats') + Cardinality(Usable') <= Cardinality(Requests)
  <2>1. Usable \subseteq Requests
    BY UsableRequests
  <2> DEFINE rest == Usable \ G
  <2>2. rest \subseteq Requests /\ G \subseteq Requests /\ rest \cap G = {} /\ rest \cup G = Usable
        /\ Usable' \subseteq rest
    BY <2>1
  <2> HIDE DEF rest
  <2>3. /\ Cardinality(rest) \in Nat /\ Cardinality(G) \in Nat
        /\ Cardinality(Usable) = Cardinality(rest) + Cardinality(G)
    BY <2>2, RequestSets
  <2>4. Cardinality(Usable') \in Nat /\ Cardinality(Usable') <= Cardinality(rest)
    <3>1. Usable' \subseteq Requests
      BY <2>2
    <3> QED
      BY <2>2, <3>1, RequestSets
  <2>5. Cardinality(Requests) \in Nat
    BY RequestSets
  <2>6. Savings(stats) \in Nat /\ Savings(stats') = Savings(stats) + Cardinality(G)
    <3>1. stats.cacheHits \in Nat /\ stats.deduplicated \in Nat
      BY DEF TypeOK, Counters
    <3>2. Savings(stats) \in Nat
      BY <3>1 DEF Savings
    <3> QED
      BY <3>2 DEF Moved
  <2>7. Savings(stats) + Cardinality(Usable) <= Cardinality(Requests)
    BY DEF CountersTrue
  <2> QED
    BY <2>3, <2>4, <2>5, <2>6, <2>7
<1> QED
  BY <1>1, <1>2, <1>3, <1>4 DEF CountersTrue

\* A step that answers requests that were held.
LEMMA SendAnswers ==
  ASSUME TypeOK, Conserved, NEW S, S \subseteq Held, UNCHANGED caller,
         NEW answers, DOMAIN answers = S, Send(answers)
  PROVE  /\ S \subseteq Requests /\ S \cap AnsweredOnes = {}
         /\ AnsweredOnes' = AnsweredOnes \cup S /\ CountedOnes' = CountedOnes
<1>1. S \subseteq Requests
  BY HeldRequests
<1>2. /\ \A r \in S : resultCh'[r] # <<>>
      /\ \A r \in Requests \ S : resultCh'[r] = resultCh[r]
  BY <1>1, SendFacts
<1>3. \A r \in S : resultCh[r] = <<>> /\ caller[r] # "returned"
  BY DEF Conserved, HeldUnanswered
<1>4. S \cap AnsweredOnes = {}
  BY <1>3 DEF AnsweredOnes, Answered
<1>5. AnsweredOnes' = AnsweredOnes \cup S
  BY <1>1, <1>2 DEF AnsweredOnes, Answered
<1>6. CountedOnes' = CountedOnes
  BY DEF CountedOnes
<1> QED
  BY <1>1, <1>4, <1>5, <1>6

\* A step that touches neither callers nor channels.
LEMMA QuietStep ==
  ASSUME UNCHANGED <<caller, resultCh>>
  PROVE  AnsweredOnes' = AnsweredOnes /\ CountedOnes' = CountedOnes
BY DEF AnsweredOnes, Answered, CountedOnes

\* The sizes of the smallest sets.
LEMMA SmallSizes == Cardinality({}) = 0 /\ \A r : Cardinality({r}) = 1
BY FS_EmptySet, FS_Singleton

\* A step that counts nothing and makes no request usable.
LEMMA NothingCounted ==
  ASSUME TypeOK, TypeOK', CountersTrue, UNCHANGED <<stats, executed>>,
         AnsweredOnes' = AnsweredOnes, CountedOnes' = CountedOnes, Usable' \subseteq Usable
  PROVE  CountersTrue'
<1>1. stats \in [Counters -> Nat]
  BY DEF TypeOK
<1>2. Moved(stats, stats, 0, 0, 0, 0)
  BY <1>1, CounterMoves
<1> DEFINE none == {}
<1>3. Cardinality(none) = 0
  BY SmallSizes
<1>4. Moved(stats, stats', Cardinality(none), Cardinality(none), Cardinality(none), Cardinality(none))
  BY <1>2, <1>3
<1>5. /\ none \subseteq Requests /\ none \cap AnsweredOnes = {} /\ none \cap CountedOnes = {}
      /\ none \cap executed = {} /\ AnsweredOnes' = AnsweredOnes \cup none
      /\ CountedOnes' = CountedOnes \cup none /\ executed' = executed \cup none
      /\ none \subseteq Usable /\ Usable' \subseteq Usable \ none
  OBVIOUS
<1> HIDE DEF none
<1> QED
  BY <1>4, <1>5, Recount

\* A step that answers A, and nothing else that is counted.
LEMMA AnswersCounted ==
  ASSUME TypeOK, TypeOK', CountersTrue, UNCHANGED executed, NEW A, A \subseteq Requests,
         A \cap AnsweredOnes = {}, AnsweredOnes' = AnsweredOnes \cup A,
         CountedOnes' = CountedOnes, Usable' \subseteq Usable,
         Moved(stats, stats', Cardinality(A), 0, 0, 0)
  PROVE  CountersTrue'
<1> DEFINE none == {}
<1>1. Moved(stats, stats', Cardinality(A), Cardinality(none), Cardinality(none), Cardinality(none))
  BY SmallSizes
<1>2. /\ none \subseteq Requests /\ none \cap CountedOnes = {} /\ none \cap executed = {}
      /\ CountedOnes' = CountedOnes \cup none /\ executed' = executed \cup none
      /\ none \subseteq Usable /\ Usable' \subseteq Usable \ none
  OBVIOUS
<1> HIDE DEF none
<1> QED
  BY <1>1, <1>2, Recount

\* The counters through the steps of Submit.
LEMMA SubmitCounts ==
  ASSUME TypeOK, TypeOK', Conserved, CountersTrue, NEW r \in Requests, Submit(r)
  PROVE  CountersTrue'
<1> USE DEF callerVars, timeVars, batchVars
<1>0. stats \in [Counters -> Nat]
  BY DEF TypeOK
<1>1. UNCHANGED <<pending, chunk, remaining, units, pc, executed>>
  BY DEF Submit, SubmitClassified, SubmitBackpressured, SubmitChecked, Enqueue, QueueOverflow,
     RecordSubmitted, ReceiveResult, CallerGivesUp
<1>2. Primaries' = Primaries
  BY <1>1 DEF Primaries
<1>3. /\ \A q \in Requests : q # r => caller'[q] = caller[q]
      /\ caller[r] \notin {"idle", "checked"} => caller'[r] \notin {"idle", "checked"}
  BY DEF Submit, SubmitClassified, SubmitBackpressured, SubmitChecked, Enqueue, QueueOverflow,
     RecordSubmitted, ReceiveResult, CallerGivesUp, RejectLocally, Return, TypeOK
<1>4. Range(queue') \subseteq Range(queue) \cup {r} /\ (~Enqueue(r) => queue' = queue)
  <2>1. CASE Enqueue(r)
    <3>1. r \notin Held
      BY <2>1 DEF Enqueue, Conserved, HeldUnanswered
    <3>2. Range(queue') = Range(queue) \cup {r}
      BY <2>1, <3>1, AppendFacts DEF Enqueue, TypeOK, Conserved, SingleHolder, Held
    <3> QED
      BY <2>1, <3>2
  <2>2. CASE ~Enqueue(r)
    <3>1. UNCHANGED queue
      BY <2>2 DEF Submit, SubmitClassified, SubmitBackpressured, SubmitChecked, QueueOverflow,
         RecordSubmitted, ReceiveResult, CallerGivesUp
    <3> QED
      BY <3>1
  <2> QED
    BY <2>1, <2>2
<1>5. Usable' \subseteq Usable
  <2>1. {q \in Requests : caller'[q] \in {"idle", "checked"}}
          \subseteq {q \in Requests : caller[q] \in {"idle", "checked"}}
    BY <1>3
  <2>2. Range(queue') \subseteq Range(queue) \cup {q \in Requests : caller[q] \in {"idle", "checked"}}
    BY <1>4 DEF Enqueue
  <2> QED
    BY <1>1, <1>2, <2>1, <2>2 DEF Usable
<1> DEFINE one == {r}
           none == {}
<1>6. Cardinality(one) = 1 /\ Cardinality(none) = 0
  BY SmallSizes
<1>7. /\ none \subseteq Requests /\ one \subseteq Requests /\ none \cap executed = {}
      /\ none \cap AnsweredOnes = {} /\ AnsweredOnes \cup none = AnsweredOnes
      /\ executed' = executed \cup none /\ none \subseteq Usable /\ Usable' \subseteq Usable \ none
  BY <1>1, <1>5
<1>8. CASE SubmitClassified(r) \/ SubmitBackpressured(r) \/ QueueOverflow(r)
  <2>1. /\ caller[r] \in {"idle", "checked"} /\ caller'[r] = "returned"
        /\ stats' = LocallyRejected(stats) /\ UNCHANGED resultCh
    BY <1>8 DEF SubmitClassified, SubmitBackpressured, QueueOverflow, RejectLocally, Return, TypeOK
  <2>2. resultCh[r] = <<>>
    BY <2>1 DEF Conserved, HeldUnanswered
  <2>3. one \cap AnsweredOnes = {} /\ AnsweredOnes' = AnsweredOnes \cup one
    BY <1>3, <2>1, <2>2 DEF AnsweredOnes, Answered
  <2>4. one \cap CountedOnes = {} /\ CountedOnes' = CountedOnes \cup one
    BY <1>3, <2>1 DEF CountedOnes
  <2>5. Moved(stats, stats', 1, 1, 0, 0)
    BY <1>0, <2>1, CounterMoves
  <2>6. Moved(stats, stats', Cardinality(one), Cardinality(one), Cardinality(none), Cardinality(none))
    BY <1>6, <2>5
  <2> HIDE DEF one, none
  <2> QED
    BY <1>7, <2>3, <2>4, <2>6, Recount
<1>9. CASE RecordSubmitted(r)
  <2>1. /\ caller[r] = "enqueued" /\ caller'[r] = "waiting" /\ UNCHANGED resultCh
        /\ stats' = [stats EXCEPT !.submitted = @ + 1]
    BY <1>9 DEF RecordSubmitted, TypeOK
  <2>2. AnsweredOnes' = AnsweredOnes
    BY <1>3, <2>1 DEF AnsweredOnes, Answered
  <2>3. one \cap CountedOnes = {} /\ CountedOnes' = CountedOnes \cup one
    BY <1>3, <2>1 DEF CountedOnes
  <2>4. Moved(stats, stats', 0, 1, 0, 0)
    BY <1>0, <2>1, CounterMoves
  <2>5. Moved(stats, stats', Cardinality(none), Cardinality(one), Cardinality(none), Cardinality(none))
    BY <1>6, <2>4
  <2> HIDE DEF one, none
  <2> QED
    BY <1>7, <2>2, <2>3, <2>5, Recount
<1>10. CASE SubmitChecked(r) \/ Enqueue(r) \/ CallerGivesUp(r)
  <2>1. /\ UNCHANGED <<resultCh, stats>>
        /\ \/ caller[r] \in {"idle", "checked"} /\ caller'[r] \in {"checked", "enqueued"}
           \/ caller[r] = "waiting" /\ caller'[r] = "cancelled"
    BY <1>10 DEF SubmitChecked, Enqueue, CallerGivesUp, TypeOK
  <2>2. AnsweredOnes' = AnsweredOnes /\ CountedOnes' = CountedOnes
    BY <1>3, <2>1 DEF AnsweredOnes, Answered, CountedOnes
  <2> QED
    BY <1>1, <1>5, <2>1, <2>2, NothingCounted
<1>11. CASE ReceiveResult(r)
  <2>1. /\ caller[r] = "waiting" /\ caller'[r] = "returned" /\ resultCh[r] # <<>>
        /\ UNCHANGED stats /\ \A q \in Requests : q # r => resultCh'[q] = resultCh[q]
    BY <1>11 DEF ReceiveResult, Return, TypeOK
  <2>2. AnsweredOnes' = AnsweredOnes /\ CountedOnes' = CountedOnes
    BY <1>3, <2>1 DEF AnsweredOnes, Answered, CountedOnes
  <2> QED
    BY <1>1, <1>5, <2>1, <2>2, NothingCounted
<1> QED
  BY <1>8, <1>9, <1>10, <1>11 DEF Submit

\* The counters through the select loop and pickBatchChunk.
LEMMA LoopCounts ==
  ASSUME TypeOK, TypeOK', Conserved, CountersTrue,
         \/ RunStops \/ RunReceives \/ TickIdle \/ TickBackpressured \/ TickPicks
         \/ PickInto \/ PickLater \/ PickTooLarge \/ PickDone, LoopShape
  PROVE  CountersTrue'
<1> USE DEF callerVars, batchVars, timeVars
<1>0. stats \in [Counters -> Nat]
  BY DEF TypeOK
<1>1. UNCHANGED <<caller, executed, units>> /\ units = <<>>
  BY DEF RunStops, RunReceives, TickIdle, TickBackpressured, TickPicks, TakeTick, PickInto,
     PickLater, PickTooLarge, PickDone, LoopShape
<1>2. Primaries' = {}
  BY <1>1 DEF Primaries
<1> DEFINE places == Range(queue) \cup Range(pending) \cup Range(chunk) \cup Range(remaining)
<1>3. places' \subseteq places => Usable' \subseteq Usable
  BY <1>1, <1>2 DEF Usable
<1>4. CASE RunStops \/ TickBackpressured
  <2>1. /\ UNCHANGED <<queue, chunk, remaining>> /\ pending' = <<>>
        /\ stats' = Recorded(stats, FALSE, Len(pending))
    BY <1>4 DEF RunStops, TickBackpressured, TakeTick
  <2>2. Range(pending') = {}
    BY <2>1, EmptyRange
  <2>3. Usable' \subseteq Usable
    BY <1>3, <2>1, <2>2
  <2> DEFINE S == Range(pending)
  <2>4. Cardinality(S) = Len(pending) /\ Len(pending) \in Nat
    BY SequenceSize DEF TypeOK, Conserved, SingleHolder
  <2>5. Moved(stats, stats', Cardinality(S), 0, 0, 0)
    BY <1>0, <2>1, <2>4, CounterMoves
  <2>6. PICK code : SendError(S, code)
    BY <1>4 DEF RunStops, TickBackpressured
  <2> DEFINE answers == [q \in S |-> errorResult(q, code)]
  <2>7. Send(answers) /\ DOMAIN answers = S /\ S \subseteq Held
    BY <2>6 DEF SendError, Held
  <2> HIDE DEF answers, S
  <2>8. /\ S \subseteq Requests /\ S \cap AnsweredOnes = {}
        /\ AnsweredOnes' = AnsweredOnes \cup S /\ CountedOnes' = CountedOnes
    BY <1>1, <2>7, SendAnswers
  <2> QED
    BY <1>1, <2>3, <2>5, <2>8, AnswersCounted
<1>5. CASE RunReceives
  <2>1. /\ UNCHANGED <<chunk, remaining, resultCh, stats>> /\ queue # <<>>
        /\ queue' = Tail(queue) /\ pending' = Append(pending, Head(queue))
    BY <1>5 DEF RunReceives
  <2>2. /\ Head(queue) \in Range(queue) /\ Range(queue') = Range(queue) \ {Head(queue)}
        /\ Range(pending') = Range(pending) \cup {Head(queue)}
    <3>1. Range(queue) \cap Range(pending) = {}
      BY DEF Conserved, SingleHolder
    <3> QED
      BY <2>1, <3>1, TransferFacts DEF TypeOK, Conserved, SingleHolder
  <2>3. Usable' \subseteq Usable
    BY <1>3, <2>1, <2>2
  <2> QED
    BY <1>1, <2>1, <2>3, QuietStep, NothingCounted
<1>6. CASE TickIdle \/ TickPicks
  <2>1. UNCHANGED <<queue, pending, chunk, remaining, resultCh, stats>>
    BY <1>6 DEF TickIdle, TickPicks, TakeTick
  <2>2. Usable' \subseteq Usable
    BY <1>3, <2>1
  <2> QED
    BY <1>1, <2>1, <2>2, QuietStep, NothingCounted
<1>7. CASE PickInto \/ PickLater
  <2> DEFINE r == Head(pending)
  <2>1. /\ UNCHANGED <<queue, resultCh, stats>> /\ pending # <<>> /\ pending' = Tail(pending)
        /\ chunk' = chunk \/ chunk' = Append(chunk, r)
        /\ remaining' = remaining \/ remaining' = Append(remaining, r)
    BY <1>7 DEF PickInto, PickLater
  <2>2. /\ r \in Range(pending) /\ Range(pending') = Range(pending) \ {r}
        /\ Range(Append(chunk, r)) = Range(chunk) \cup {r}
    <3>1. Range(pending) \cap Range(chunk) = {}
      BY DEF Conserved, SingleHolder
    <3> QED
      BY <2>1, <3>1, TransferFacts DEF TypeOK, Conserved, SingleHolder
  <2>3. Range(Append(remaining, r)) = Range(remaining) \cup {r}
    <3>1. Range(pending) \cap Range(remaining) = {}
      BY DEF Conserved, SingleHolder
    <3> QED
      BY <2>1, <3>1, TransferFacts DEF TypeOK, Conserved, SingleHolder
  <2>4. Range(chunk') \subseteq Range(chunk) \cup {r}
    BY <2>1, <2>2
  <2>5. Range(remaining') \subseteq Range(remaining) \cup {r}
    BY <2>1, <2>3
  <2>6. Usable' \subseteq Usable
    BY <1>3, <2>1, <2>2, <2>4, <2>5
  <2> QED
    BY <1>1, <2>1, <2>6, QuietStep, NothingCounted
<1>8. CASE PickTooLarge
  <2> DEFINE r == Head(pending)
             S == {r}
  <2>1. /\ UNCHANGED <<queue, chunk, remaining>> /\ pending # <<>> /\ pending' = Tail(pending)
        /\ SendError(S, "BATCH_TOO_LARGE") /\ stats' = Recorded(stats, FALSE, 1)
    BY <1>8 DEF PickTooLarge
  <2>2. r \in Range(pending) /\ Range(pending') = Range(pending) \ {r}
    BY <2>1, TailFacts DEF TypeOK, Conserved, SingleHolder
  <2>3. Usable' \subseteq Usable
    BY <1>3, <2>1, <2>2
  <2>4. Cardinality(S) = 1
    BY SmallSizes
  <2>5. Moved(stats, stats', Cardinality(S), 0, 0, 0)
    BY <1>0, <2>1, <2>4, CounterMoves
  <2> DEFINE answers == [q \in S |-> errorResult(q, "BATCH_TOO_LARGE")]
  <2>6. Send(answers) /\ DOMAIN answers = S /\ S \subseteq Held
    BY <2>1, <2>2 DEF SendError, Held
  <2> HIDE DEF answers, S
  <2>7. /\ S \subseteq Requests /\ S \cap AnsweredOnes = {}
        /\ AnsweredOnes' = AnsweredOnes \cup S /\ CountedOnes' = CountedOnes
    BY <1>1, <2>6, SendAnswers
  <2> QED
    BY <1>1, <2>3, <2>5, <2>7, AnswersCounted
<1>9. CASE PickDone
  <2>1. /\ UNCHANGED <<queue, chunk, resultCh, stats>> /\ pending' = remaining /\ remaining' = <<>>
    BY <1>9 DEF PickDone
  <2>2. Range(remaining') = {} /\ Range(pending') = Range(remaining)
    <3>1. Range(remaining') = {}
      BY <2>1, EmptyRange
    <3> QED
      BY <2>1, <3>1
  <2>3. Usable' \subseteq Usable
    BY <1>3, <2>1, <2>2
  <2> QED
    BY <1>1, <2>1, <2>3, QuietStep, NothingCounted
<1> QED
  BY <1>4, <1>5, <1>6, <1>7, <1>8, <1>9

\* The counters through prepareDispatchUnits: what is a hit or a duplicate is no
\* longer usable.
LEMMA PrepareCounts ==
  ASSUME TypeOK, TypeOK', Conserved, NotYetExecuted, CountersTrue,
         PrepareHit \/ PrepareDuplicate \/ PrepareUnit
  PROVE  CountersTrue'
<1> USE DEF callerVars, batchVars, timeVars
<1> DEFINE r == Head(chunk)
           one == {r}
           none == {}
<1>0. stats \in [Counters -> Nat]
  BY DEF TypeOK
<1>1. /\ UNCHANGED <<caller, queue, pending, remaining, pc, executed>>
      /\ pc = "prepare" /\ chunk # <<>> /\ chunk' = Tail(chunk)
  BY DEF PrepareHit, PrepareDuplicate, PrepareUnit
<1>2. r \in Range(chunk) /\ r \in Requests /\ Range(chunk') = Range(chunk) \ {r}
  BY <1>1, TailFacts, HeldRequests DEF TypeOK, Conserved, SingleHolder
<1>3. Primaries \subseteq UnitMembers
  BY PrimariesAreMembers
<1>4. /\ r \notin executed /\ r \notin Primaries /\ r \in Held
      /\ r \notin Range(queue) \cup Range(pending) \cup Range(remaining)
      /\ caller[r] \notin {"idle", "checked"}
  <2>1. r \notin executed
    BY <1>2 DEF NotYetExecuted
  <2>2. r \notin Primaries /\ r \notin Range(queue) \cup Range(pending) \cup Range(remaining)
    BY <1>2, <1>3 DEF Conserved, SingleHolder
  <2>3. r \in Held
    BY <1>2 DEF Held
  <2>4. caller[r] \notin {"idle", "checked"}
    BY <2>3 DEF Conserved, HeldUnanswered
  <2> QED
    BY <2>1, <2>2, <2>3, <2>4
<1>5. r \in Usable
  BY <1>2 DEF Usable
<1>6. Primaries' \subseteq Primaries => Usable' \subseteq Usable \ {r}
  BY <1>1, <1>2, <1>4 DEF Usable
<1>7. Cardinality(one) = 1 /\ Cardinality(none) = 0
  BY SmallSizes
<1>8. /\ none \subseteq Requests /\ one \subseteq Requests /\ one \subseteq Usable
      /\ none \cap executed = {} /\ executed' = executed \cup none
      /\ none \cap AnsweredOnes = {} /\ AnsweredOnes \cup none = AnsweredOnes
      /\ none \cap CountedOnes = {} /\ CountedOnes \cup none = CountedOnes
  BY <1>1, <1>2, <1>5
<1>9. CASE PrepareHit
  <2> DEFINE x == cache[CacheKey[r]].result
  <2>1. /\ UNCHANGED units /\ CacheKey[r] \in DOMAIN cache
        /\ Send([q \in {r} |-> cloneResultForRequest(x, q)])
        /\ stats' = Recorded([stats EXCEPT !.cacheHits = @ + 1], x.ok, 1)
    BY <1>9 DEF PrepareHit, Fresh
  <2>2. x.ok \in BOOLEAN
    <3>1. cache[CacheKey[r]] \in Entry
      BY <2>1 DEF TypeOK
    <3> QED
      BY <3>1 DEF Entry, Result
  <2>3. Moved(stats, stats', 1, 0, 0, 1)
    <3> HIDE DEF x
    <3> QED
      BY <1>0, <2>1, <2>2, CounterMoves
  <2>4. Primaries' = Primaries
    BY <2>1 DEF Primaries
  <2>5. Usable' \subseteq Usable \ one
    BY <1>6, <2>4
  <2> DEFINE answers == [q \in one |-> cloneResultForRequest(x, q)]
  <2>6. Send(answers) /\ DOMAIN answers = one /\ one \subseteq Held
    BY <1>4, <2>1
  <2>7. Moved(stats, stats', Cardinality(one), Cardinality(none), Cardinality(none), Cardinality(one))
    BY <1>7, <2>3
  <2> HIDE DEF answers, one, none
  <2>8. /\ one \cap AnsweredOnes = {} /\ AnsweredOnes' = AnsweredOnes \cup one
        /\ CountedOnes' = CountedOnes
    BY <1>1, <2>6, SendAnswers
  <2> QED
    BY <1>8, <2>5, <2>7, <2>8, Recount
<1>10. CASE PrepareDuplicate
  <2>1. PICK i \in DOMAIN units : units' = [units EXCEPT ![i].duplicates = @ \cup {r}]
    BY <1>10 DEF PrepareDuplicate
  <2>2. UNCHANGED resultCh /\ stats' = [stats EXCEPT !.deduplicated = @ + 1]
    BY <1>10 DEF PrepareDuplicate
  <2>3. Primaries' = Primaries
    <3>0. units \in Seq(Unit)
      BY DEF TypeOK
    <3>1. /\ DOMAIN units' = DOMAIN units
          /\ \A j \in DOMAIN units : j # i => units'[j] = units[j]
          /\ units'[i] = [units[i] EXCEPT !.duplicates = @ \cup {r}]
          /\ units[i] \in Unit
      BY <2>1, <3>0
    <3>2. units'[i].primary = units[i].primary
      BY <3>1 DEF Unit
    <3>3. \A j \in DOMAIN units : units'[j].primary = units[j].primary
      BY <3>1, <3>2
    <3> QED
      BY <3>1, <3>3 DEF Primaries
  <2>4. Usable' \subseteq Usable \ one
    BY <1>6, <2>3
  <2>5. AnsweredOnes' = AnsweredOnes /\ CountedOnes' = CountedOnes
    BY <1>1, <2>2, QuietStep
  <2>6. Moved(stats, stats', 0, 0, 0, 1)
    BY <1>0, <2>2, CounterMoves
  <2>7. Moved(stats, stats', Cardinality(none), Cardinality(none), Cardinality(none), Cardinality(one))
    BY <1>7, <2>6
  <2> HIDE DEF one, none
  <2> QED
    BY <1>8, <2>4, <2>5, <2>7, Recount
<1>11. CASE PrepareUnit
  <2>1. /\ units' = Append(units, [primary |-> r, duplicates |-> {}])
        /\ UNCHANGED <<resultCh, stats>>
    BY <1>11 DEF PrepareUnit
  <2>2. Primaries' \subseteq Primaries \cup {r}
    <3> DEFINE n == Len(units) + 1
               u == [primary |-> r, duplicates |-> {}]
    <3>0. units \in Seq(Unit) /\ units' = Append(units, u)
      BY <2>1 DEF TypeOK
    <3> HIDE DEF u
    <3>1. /\ Len(units) \in Nat /\ DOMAIN units = 1 .. Len(units) /\ DOMAIN units' = 1 .. n
          /\ \A i \in 1 .. Len(units) : units'[i] = units[i]
          /\ units'[n] = u
      BY <3>0
    <3>2. \A i \in 1 .. n : i = n \/ i \in 1 .. Len(units)
      BY <3>1
    <3>3. units'[n].primary = r
      BY <3>1 DEF u
    <3>4. \A i \in 1 .. n : units'[i].primary = r \/ units'[i].primary \in Primaries
      BY <3>1, <3>2, <3>3 DEF Primaries
    <3> QED
      BY <3>1, <3>4 DEF Primaries
  <2>3. Usable' \subseteq Usable
    BY <1>1, <1>2, <2>2 DEF Usable
  <2> QED
    BY <1>1, <2>1, <2>3, QuietStep, NothingCounted
<1> QED
  BY <1>9, <1>10, <1>11

\* The counters when the prepared batch is sent, refused or found empty.
LEMMA DispatchCounts ==
  ASSUME TypeOK, TypeOK', Conserved, NotYetExecuted, CountersTrue,
         \/ NothingToDispatch \/ RefuseBatch \/ StartDispatch
         \/ ProcessBatchReturns \/ BatchDone
  PROVE  CountersTrue'
<1> USE DEF callerVars, batchVars, timeVars
<1>0. stats \in [Counters -> Nat]
  BY DEF TypeOK
<1>1. UNCHANGED <<caller, resultCh, queue, pending, chunk, remaining, units>> /\ pc' # "prepare"
  BY DEF NothingToDispatch, RefuseBatch, StartDispatch, ProcessBatchReturns, DispatchFails,
     PackageMismatch, PackageArrives, BatchDone
<1>2. AnsweredOnes' = AnsweredOnes /\ CountedOnes' = CountedOnes
  BY <1>1, QuietStep
<1>3. CASE StartDispatch
  <2> DEFINE none == {}
             sent == Primaries
  <2>1. /\ pc = "prepare" /\ executed' = executed \cup sent /\ stats' = Dispatched(stats, Len(units))
    BY <1>3 DEF StartDispatch, recordBatchDispatched
  <2>2. sent \subseteq UnitMembers /\ sent \subseteq Requests
    BY PrimariesAreMembers DEF UnitMembers
  <2>3. sent \cap executed = {}
    BY <2>1, <2>2 DEF NotYetExecuted
  <2>4. Cardinality(sent) = Len(units) /\ Len(units) \in Nat
    <3>1. UnitsDisjoint
      BY DEF Conserved, SingleHolder
    <3>2. Len(units) \in Nat
      BY DEF TypeOK
    <3> QED
      BY <3>1, <3>2, BatchSize
  <2>5. Moved(stats, stats', 0, 0, Len(units), 0)
    BY <1>0, <2>1, <2>4, CounterMoves
  <2>6. Cardinality(none) = 0
    BY SmallSizes
  <2>7. Moved(stats, stats', Cardinality(none), Cardinality(none), Cardinality(sent), Cardinality(none))
    BY <2>4, <2>5, <2>6
  <2>8. Usable' \subseteq Usable
    BY <1>1, <2>1 DEF Usable
  <2>9. /\ none \subseteq Requests /\ none \cap AnsweredOnes = {} /\ none \cap CountedOnes = {}
        /\ AnsweredOnes' = AnsweredOnes \cup none /\ CountedOnes' = CountedOnes \cup none
        /\ none \subseteq Usable /\ Usable' \subseteq Usable \ none
    BY <1>2, <2>8
  <2> HIDE DEF none, sent
  <2> QED
    BY <2>1, <2>2, <2>3, <2>7, <2>9, Recount
<1>4. CASE ~StartDispatch
  <2>1. UNCHANGED <<stats, executed>>
    BY <1>4 DEF NothingToDispatch, RefuseBatch, ProcessBatchReturns, DispatchFails,
       PackageMismatch, PackageArrives, BatchDone
  <2>2. Usable' \subseteq Usable
    BY <1>1, <2>1 DEF Usable
  <2> QED
    BY <1>2, <2>1, <2>2, NothingCounted
<1> QED
  BY <1>3, <1>4

\* A unit has its primary and its duplicates.
LEMMA UnitSize ==
  ASSUME NEW unit \in Unit, unit.primary \notin unit.duplicates
  PROVE  Cardinality(Members(unit)) = 1 + Cardinality(unit.duplicates)
<1>1. unit.primary \in Requests /\ unit.duplicates \subseteq Requests
  BY DEF Unit
<1> DEFINE one == {unit.primary}
           others == unit.duplicates
<1>2. one \subseteq Requests /\ others \subseteq Requests /\ one \cap others = {}
  BY <1>1
<1>3. Cardinality(one) = 1
  BY SmallSizes
<1>4. Members(unit) = one \cup others
  BY DEF Members
<1> HIDE DEF one
<1>5. Cardinality(one \cup others) = Cardinality(one) + Cardinality(others)
  BY <1>2, RequestSets
<1> QED
  BY <1>3, <1>4, <1>5

\* The counters when a unit's callers get its result or its error.
LEMMA AnswerCounts ==
  ASSUME TypeOK, TypeOK', Conserved, CountersTrue, DeliverUnit \/ FailUnit
  PROVE  CountersTrue'
<1> USE DEF callerVars, batchVars, timeVars
<1> DEFINE unit == Head(units)
           n == 1 + Cardinality(unit.duplicates)
           S == Members(unit)
<1>0. stats \in [Counters -> Nat]
  BY DEF TypeOK
<1>1. /\ UNCHANGED <<caller, queue, pending, chunk, remaining, executed, pc>>
      /\ pc # "prepare" /\ units # <<>> /\ units' = Tail(units)
  BY DEF DeliverUnit, FailUnit
<1>2. unit \in Unit /\ unit.primary \notin unit.duplicates /\ S \subseteq Held
  <2>1. units \in Seq(Unit) /\ 1 \in DOMAIN units /\ unit = units[1]
    BY <1>1 DEF TypeOK
  <2>2. unit \in Unit
    BY <2>1
  <2>3. unit.primary \notin unit.duplicates
    BY <2>1 DEF Conserved, SingleHolder, UnitsDisjoint
  <2>4. S \subseteq UnitMembers
    BY <1>1, TailUnits DEF Conserved, SingleHolder
  <2> QED
    BY <2>2, <2>3, <2>4 DEF Held
<1>3. n \in Nat /\ Cardinality(S) = n
  BY <1>2, UnitFacts, UnitSize
<1>4. PICK x \in Result, stale \in BOOLEAN :
        /\ SendToUnit(unit, x)
        /\ stats' = Recorded(FailOpenServed(stats, stale), x.ok, n)
  <2>0. Recovers(unit) \in BOOLEAN
    BY SettingsAssumption DEF Recovers, StaleUsable, cacheable
  <2>1. CASE DeliverUnit
    <3> DEFINE stale == unit.primary \notin DOMAIN package /\ Recovers(unit)
    <3>1. PrimaryResult(unit) \in Result /\ stale \in BOOLEAN
      BY <1>2, <2>0, UnitResultTypes
    <3>2. /\ SendToUnit(unit, PrimaryResult(unit))
          /\ stats' = Recorded(FailOpenServed(stats, stale), PrimaryResult(unit).ok, n)
      BY <2>1, Zenon DEF DeliverUnit
    <3> HIDE DEF stale, unit, n
    <3> QED
      BY <3>1, <3>2, Zenon
  <2>2. CASE FailUnit
    <3> DEFINE stale == isRecoverableCode(failCode) /\ Recovers(unit)
               x == Substitute(unit, stale, failCode)
    <3>1. stale \in BOOLEAN /\ (stale => Recovers(unit)) /\ failCode \in Codes
      BY <2>0, <2>2 DEF FailUnit, TypeOK, isRecoverableCode
    <3>2. /\ SendToUnit(unit, x)
          /\ stats' = Recorded(FailOpenServed(stats, stale), x.ok, n)
      BY <2>2, Zenon DEF FailUnit
    <3> HIDE DEF stale, unit, n
    <3>3. x \in Result
      BY <1>2, <3>1, UnitResultTypes, Zenon
    <3> QED
      BY <3>1, <3>2, <3>3, Zenon
  <2> QED
    BY <2>1, <2>2
<1>5. Moved(stats, stats', n, 0, 0, 0)
  <2>1. x.ok \in BOOLEAN
    BY DEF Result
  <2> HIDE DEF n
  <2>2. Moved(stats, Recorded(FailOpenServed(stats, stale), x.ok, n), n, 0, 0, 0)
    BY <1>0, <1>3, <2>1, CounterMoves
  <2> QED
    BY <1>4, <2>2
<1> DEFINE answers == [q \in S |-> cloneResultForRequest(x, q)]
<1>6. Send(answers) /\ DOMAIN answers = S
  BY <1>4 DEF SendToUnit
<1>7. Usable' \subseteq Usable
  BY <1>1 DEF Usable
<1> HIDE DEF answers, S, n
<1>8. /\ S \subseteq Requests /\ S \cap AnsweredOnes = {}
      /\ AnsweredOnes' = AnsweredOnes \cup S /\ CountedOnes' = CountedOnes
  BY <1>1, <1>2, <1>6, SendAnswers
<1>9. Moved(stats, stats', Cardinality(S), 0, 0, 0)
  BY <1>3, <1>5
<1> QED
  BY <1>1, <1>7, <1>8, <1>9, AnswersCounted

\* Every step counts what it does.
LEMMA NextCounts ==
  TypeOK /\ TypeOK' /\ Conserved /\ BatchCycle /\ CountersTrue /\ [Next]_vars => CountersTrue'
<1> SUFFICES ASSUME TypeOK, TypeOK', Conserved, BatchCycle, CountersTrue, [Next]_vars
             PROVE  CountersTrue'
  OBVIOUS
<1>0. LoopShape /\ NotYetExecuted
  BY DEF BatchCycle
<1>1. CASE Elapse \/ ContextDone \/ UNCHANGED vars
  <2>1. UNCHANGED <<caller, resultCh, queue, pending, chunk, remaining, units, pc, stats, executed>>
    BY <1>1 DEF Elapse, ContextDone, vars, callerVars, batchVars
  <2>2. Primaries' = Primaries
    BY <2>1 DEF Primaries
  <2>3. Usable' \subseteq Usable
    BY <2>1, <2>2 DEF Usable
  <2> QED
    BY <2>1, <2>3, QuietStep, NothingCounted
<1>2. CASE \E r \in Requests : Submit(r)
  BY <1>2, SubmitCounts
<1>3. CASE RunStep
  BY <1>0, <1>3, LoopCounts, PrepareCounts, DispatchCounts, AnswerCounts DEF RunStep
<1> QED
  BY <1>1, <1>2, <1>3 DEF Next

\* Nothing is counted at first, and every request is usable.
LEMMA InitCounts == Init => CountersTrue
<1> SUFFICES ASSUME Init PROVE CountersTrue
  OBVIOUS
<1>0. TypeOK
  BY InitType
<1>1. AnsweredOnes = {} /\ CountedOnes = {} /\ executed = {}
  BY DEF Init, AnsweredOnes, Answered, CountedOnes
<1>2. Told(stats) = 0 /\ Entries(stats) = 0 /\ Savings(stats) = 0 /\ stats.dispatchedRequests = 0
  BY DEF Init, Counters, Told, Entries, Savings
<1>3. Cardinality(Usable) \in Nat /\ Cardinality(Requests) \in Nat
      /\ Cardinality(Usable) <= Cardinality(Requests)
  BY <1>0, UsableRequests, RequestSets
<1> QED
  BY <1>1, <1>2, <1>3, SmallSizes DEF CountersTrue

\* The counters of Snapshot (runtimeState and its record methods,
\* src/client/internal/agent/agent.go) account for every call, however callers, Run and
\* cancellations interleave: what is answered is counted once, what passed the queue once,
\* what was dispatched once, and a cache hit or a duplicate is never dispatched as well.
THEOREM CountersAddUp == Spec => []Accounting
<1>1. Init => CountersTrue
  BY InitCounts
<1>2. TypeOK /\ TypeOK' /\ Conserved /\ BatchCycle /\ CountersTrue /\ [Next]_vars => CountersTrue'
  BY NextCounts
<1>3. TypeOK /\ CountersTrue => Accounting
  <2> SUFFICES ASSUME TypeOK, CountersTrue PROVE Accounting
    OBVIOUS
  <2>1. /\ stats.completed + stats.failed = Cardinality({r \in Requests : Answered(r)})
        /\ stats.submitted + stats.localRejected
             = Cardinality({r \in Requests : caller[r] \in {"waiting", "returned", "cancelled"}})
        /\ stats.dispatchedRequests = Cardinality(executed)
    BY DEF CountersTrue, Told, Entries, AnsweredOnes, CountedOnes
  <2>2. executed \subseteq Usable /\ executed \subseteq Requests /\ Usable \subseteq Requests
    BY UsableRequests DEF Usable, TypeOK
  <2>3. /\ Cardinality(executed) \in Nat /\ Cardinality(Usable) \in Nat
        /\ Cardinality(executed) <= Cardinality(Usable)
    BY <2>2, RequestSets
  <2>4. Cardinality(Requests) \in Nat
    BY RequestSets
  <2>5. Savings(stats) + Cardinality(Usable) <= Cardinality(Requests)
    BY DEF CountersTrue
  <2>6. stats.cacheHits \in Nat /\ stats.deduplicated \in Nat
    BY DEF TypeOK, Counters
  <2>7. stats.cacheHits + stats.deduplicated + stats.dispatchedRequests <= Cardinality(Requests)
    BY <2>1, <2>3, <2>4, <2>5, <2>6 DEF Savings
  <2> QED
    BY <2>1, <2>7 DEF Accounting
<1> QED
  BY <1>1, <1>2, <1>3, TypeCorrect, AlwaysConserved, AlwaysBatchCycle, PTL DEF Spec
----------------------------------------------------------------------------
(* The caps on a batch. *)

\* What pickBatchChunk has taken and what prepareDispatchUnits has made of it never
\* exceed the cap together; a batch being processed has passed the size check.
CapsKept ==
  /\ Len(chunk) + Len(units) <= MaxBatchRequests
  /\ pc = "process" => batchSizeBytes <= MaxBatchBytes

\* A step that leaves the batch alone, or only shortens it, keeps it within the caps.
LEMMA SmallerBatch ==
  ASSUME TypeOK, TypeOK', CapsKept, Len(chunk') + Len(units') <= Len(chunk) + Len(units),
         pc' = "process" => pc = "process" /\ units' = units
  PROVE  CapsKept'
<1>0. /\ chunk \in Seq(Requests) /\ chunk' \in Seq(Requests)
      /\ units \in Seq(Unit) /\ units' \in Seq(Unit)
  BY DEF TypeOK
<1>1. /\ Len(chunk) \in Nat /\ Len(units) \in Nat /\ Len(chunk') \in Nat /\ Len(units') \in Nat
      /\ MaxBatchRequests \in Nat
  BY <1>0, SettingsAssumption
<1>2. (Len(chunk) + Len(units) <= MaxBatchRequests)'
  BY <1>1 DEF CapsKept
<1>3. ASSUME pc' = "process" PROVE batchSizeBytes' <= MaxBatchBytes
  <2>1. batchSizeBytes' = batchSizeBytes
    BY <1>3 DEF batchSizeBytes, batchSizeForPending
  <2> QED
    BY <1>3, <2>1 DEF CapsKept
<1> QED
  BY <1>2, <1>3 DEF CapsKept

\* Every step keeps the batch within the caps.
LEMMA NextCaps ==
  TypeOK /\ TypeOK' /\ LoopShape /\ CapsKept /\ [Next]_vars => CapsKept'
<1> SUFFICES ASSUME TypeOK, TypeOK', LoopShape, CapsKept, [Next]_vars PROVE CapsKept'
  OBVIOUS
<1> USE DEF callerVars, batchVars, timeVars
<1>0. /\ chunk \in Seq(Requests) /\ units \in Seq(Unit)
      /\ Len(chunk) \in Nat /\ Len(units) \in Nat /\ MaxBatchRequests \in Nat
  BY SettingsAssumption DEF TypeOK
<1>1. ASSUME UNCHANGED <<chunk, units>>, pc' = "process" => pc = "process" PROVE CapsKept'
  BY <1>0, <1>1, SmallerBatch
<1>2. CASE Elapse \/ ContextDone \/ UNCHANGED vars
  <2>1. UNCHANGED <<chunk, units, pc>>
    BY <1>2 DEF Elapse, ContextDone, vars
  <2> QED
    BY <1>1, <2>1
<1>3. CASE \E r \in Requests : Submit(r)
  <2>1. UNCHANGED <<chunk, units, pc>>
    BY <1>3 DEF Submit, SubmitClassified, SubmitBackpressured, SubmitChecked, Enqueue,
       QueueOverflow, RecordSubmitted, ReceiveResult, CallerGivesUp
  <2> QED
    BY <1>1, <2>1
<1>4. CASE RunStops \/ RunReceives \/ TickIdle \/ TickBackpressured \/ TickPicks
             \/ PickLater \/ PickTooLarge \/ PickDone
  <2>1. UNCHANGED <<chunk, units>> /\ pc' # "process"
    BY <1>4 DEF RunStops, RunReceives, TickIdle, TickBackpressured, TickPicks, TakeTick,
       PickLater, PickTooLarge, PickDone
  <2> QED
    BY <1>1, <2>1
<1>5. CASE PickInto
  <2>1. /\ Len(chunk) < MaxBatchRequests /\ chunk' = Append(chunk, Head(pending))
        /\ UNCHANGED units /\ units = <<>> /\ pc' = "pick"
    BY <1>5 DEF PickInto, LoopShape
  <2>2. Len(chunk') = Len(chunk) + 1 /\ Len(units') = 0
    BY <1>0, <2>1
  <2> QED
    BY <1>0, <2>1, <2>2 DEF CapsKept
<1>6. CASE PrepareHit \/ PrepareDuplicate \/ PrepareUnit
  <2>1. chunk # <<>> /\ chunk' = Tail(chunk) /\ pc' = "prepare"
    BY <1>6 DEF PrepareHit, PrepareDuplicate, PrepareUnit
  <2>2. Len(chunk') = Len(chunk) - 1
    BY <1>0, <2>1
  <2>3. Len(units') <= Len(units) + 1 /\ Len(units') \in Nat
    <3>1. CASE PrepareHit
      BY <1>0, <3>1 DEF PrepareHit
    <3>2. CASE PrepareDuplicate
      <4>1. PICK i \in DOMAIN units, r \in Requests :
              units' = [units EXCEPT ![i].duplicates = @ \cup {r}]
        <5>1. Head(chunk) \in Requests
          BY <1>0, <2>1
        <5> QED
          BY <3>2, <5>1 DEF PrepareDuplicate
      <4>2. DOMAIN units' = DOMAIN units /\ units' \in Seq(Unit)
        BY <4>1 DEF TypeOK
      <4>3. Len(units') = Len(units)
        BY <1>0, <4>2
      <4> QED
        BY <1>0, <4>3
    <3>3. CASE PrepareUnit
      <4>1. PICK u \in Unit : units' = Append(units, u)
        <5>1. Head(chunk) \in Requests
          BY <1>0, <2>1
        <5>2. [primary |-> Head(chunk), duplicates |-> {}] \in Unit
          BY <5>1 DEF Unit
        <5> QED
          BY <3>3, <5>2 DEF PrepareUnit
      <4> QED
        BY <1>0, <4>1
    <3> QED
      BY <1>6, <3>1, <3>2, <3>3
  <2>4. Len(chunk') + Len(units') <= Len(chunk) + Len(units)
    BY <1>0, <2>2, <2>3
  <2> QED
    BY <2>1, <2>4, SmallerBatch
<1>7. CASE NothingToDispatch \/ RefuseBatch \/ ProcessBatchReturns \/ BatchDone
  <2>1. UNCHANGED <<chunk, units>> /\ pc' # "process"
    BY <1>7 DEF NothingToDispatch, RefuseBatch, ProcessBatchReturns, DispatchFails,
       PackageMismatch, PackageArrives, BatchDone
  <2> QED
    BY <1>1, <2>1
<1>8. CASE StartDispatch
  <2>1. UNCHANGED <<chunk, units>> /\ Refusal = "none"
    BY <1>8 DEF StartDispatch
  <2>2. batchSizeBytes <= MaxBatchBytes
    BY <2>1 DEF Refusal
  <2>3. batchSizeBytes' = batchSizeBytes
    BY <2>1 DEF batchSizeBytes, batchSizeForPending
  <2> QED
    BY <2>1, <2>2, <2>3 DEF CapsKept
<1>9. CASE DeliverUnit \/ FailUnit
  <2>1. UNCHANGED chunk /\ units # <<>> /\ units' = Tail(units) /\ pc' # "process"
    BY <1>9 DEF DeliverUnit, FailUnit
  <2>2. Len(units') = Len(units) - 1
    BY <1>0, <2>1
  <2>3. Len(chunk') + Len(units') <= Len(chunk) + Len(units)
    BY <1>0, <2>1, <2>2
  <2> QED
    BY <2>1, <2>3, SmallerBatch
<1> QED
  BY <1>2, <1>3, <1>4, <1>5, <1>6, <1>7, <1>8, <1>9 DEF Next, RunStep

\* No batch is sent with more requests or more bytes than the settings allow (dispatchBatch,
\* src/client/internal/agent/agent.go), although what pickBatchChunk measured is not what is
\* sent: hits and duplicates leave the batch and its id grows by a byte.
THEOREM BatchesStayWithinCaps == Spec => []BatchWithinCaps
<1>1. Init => CapsKept
  BY SettingsAssumption DEF Init, CapsKept
<1>2. TypeOK /\ TypeOK' /\ BatchCycle /\ CapsKept /\ [Next]_vars => CapsKept'
  BY NextCaps DEF BatchCycle
<1>3. TypeOK /\ CapsKept => BatchWithinCaps
  <2> SUFFICES ASSUME TypeOK, CapsKept, pc = "process"
               PROVE  Len(units) <= MaxBatchRequests /\ batchSizeBytes <= MaxBatchBytes
    BY DEF BatchWithinCaps
  <2>1. Len(chunk) \in Nat /\ Len(units) \in Nat /\ MaxBatchRequests \in Nat
    BY SettingsAssumption DEF TypeOK
  <2> QED
    BY <2>1 DEF CapsKept
<1> QED
  BY <1>1, <1>2, <1>3, TypeCorrect, AlwaysBatchCycle, PTL DEF Spec
============================================================================
