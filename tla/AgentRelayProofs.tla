------------------------- MODULE AgentRelayProofs --------------------------
(***************************************************************************)
(* Agent implements Relay: first where every answer comes from             *)
(* (NoCrossTalk), then, step by step, the refinement.                      *)
(***************************************************************************)
EXTENDS AgentBatchProofs, AgentRelay

\* x may be given to r, when the requests in sentOnes have been sent.
Proper(x, r, sentOnes) == x.id = r /\ MayShare(x.origin, r) /\ (x.ok => x.origin \in sentOnes)

\* x may be kept under the key k.
ProperEntry(x, k, sentOnes) ==
  shouldCacheResult(x) /\ CacheKey[x.origin] = k /\ x.origin \in sentOnes

ProperSlots(slots, sentOnes) ==
  \A r \in Requests : slots[r] # <<>> => Proper(slots[r][1], r, sentOnes)

ProperCache == \A k \in DOMAIN cache : ProperEntry(cache[k].result, k, executed)

\* What joins a unit has the key of its primary.
UnitsShare ==
  \A i \in DOMAIN units : \A d \in units[i].duplicates : MayShare(units[i].primary, d)

\* A unit that waits for its result has been sent.
UnitsSent == pc \in {"process", "deliver"} => Primaries \subseteq executed

\* The inductive invariant: NoCrossTalk rests on the units and on the cache.
Provenance ==
  /\ ProperSlots(resultCh, executed) /\ ProperSlots(reply, executed)
  /\ ProperCache /\ UnitsShare /\ UnitsSent

\* Provenance says what NoCrossTalk says.
LEMMA ProvenanceSuffices == TypeOK /\ Provenance => NoCrossTalk
<1> SUFFICES ASSUME TypeOK, Provenance PROVE NoCrossTalk
  OBVIOUS
<1>1. ASSUME NEW slot \in Slot, NEW x \in Range(slot)
      PROVE  slot # <<>> /\ slot[1] = x
  <2>1. slot # <<>>
    BY EmptyRange, <1>1
  <2>2. PICK y \in Result : slot = <<y>>
    BY <2>1 DEF Slot
  <2> QED
    BY <1>1, <2>2 DEF Range
<1>2. ASSUME NEW r \in Requests, NEW x \in Range(resultCh[r]) \cup Range(reply[r])
      PROVE  Proper(x, r, executed)
  <2>1. resultCh[r] \in Slot /\ reply[r] \in Slot
    BY DEF TypeOK
  <2>2. CASE x \in Range(resultCh[r])
    <3>1. resultCh[r] # <<>> /\ resultCh[r][1] = x
      BY <1>1, <2>1, <2>2
    <3> QED
      BY <3>1 DEF Provenance, ProperSlots
  <2>3. CASE x \in Range(reply[r])
    <3>1. reply[r] # <<>> /\ reply[r][1] = x
      BY <1>1, <2>1, <2>3
    <3> QED
      BY <3>1 DEF Provenance, ProperSlots
  <2> QED
    BY <1>2, <2>2, <2>3
<1> QED
  BY <1>2 DEF NoCrossTalk, Proper, Provenance, ProperCache, ProperEntry

\* No answer, entry or unit at first.
LEMMA InitProvenance == Init => Provenance
BY DEF Init, Provenance, ProperSlots, ProperCache, UnitsShare, UnitsSent

\* What was proper stays so: requests are only ever added to those sent.
LEMMA KeptSlots ==
  ASSUME NEW old, NEW new, NEW E, NEW F, ProperSlots(old, E), E \subseteq F,
         \A r \in Requests : new[r] = old[r] \/ new[r] = <<>>
  PROVE  ProperSlots(new, F)
BY DEF ProperSlots, Proper

\* So do the entries that stay in the cache, whatever their age.
LEMMA KeptCache ==
  ASSUME ProperCache, executed \subseteq executed', DOMAIN cache' \subseteq DOMAIN cache,
         \A k \in DOMAIN cache' : cache'[k].result = cache[k].result
  PROVE  ProperCache'
BY DEF ProperCache, ProperEntry, shouldCacheResult

\* An error is for the request it names.
LEMMA ErrorProper ==
  ASSUME NEW r \in Requests, NEW code, NEW E
  PROVE  Proper(errorResult(r, code), r, E)
BY DEF Proper, errorResult, MayShare

\* The element of a channel of one.
LEMMA SlotElement == \A x : <<x>>[1] = x /\ <<x>> # <<>>
OBVIOUS

\* Sending proper answers.
LEMMA SendProper ==
  ASSUME ProperSlots(resultCh, executed), NEW answers,
         \A r \in DOMAIN answers : Proper(answers[r], r, executed), Send(answers)
  PROVE  ProperSlots(resultCh', executed)
<1> SUFFICES ASSUME NEW r \in Requests, resultCh'[r] # <<>>
             PROVE  Proper(resultCh'[r][1], r, executed)
  BY DEF ProperSlots
<1>1. CASE r \in DOMAIN answers
  <2>1. resultCh'[r] = <<answers[r]>>
    BY <1>1 DEF Send
  <2> QED
    BY <1>1, <2>1, SlotElement
<1>2. CASE r \notin DOMAIN answers
  <2>1. resultCh'[r] = resultCh[r]
    BY <1>2 DEF Send
  <2> QED
    BY <2>1 DEF ProperSlots
<1> QED
  BY <1>1, <1>2

\* Sending errors.
LEMMA SendErrorProper ==
  ASSUME ProperSlots(resultCh, executed), NEW S, S \subseteq Requests, NEW code,
         SendError(S, code)
  PROVE  ProperSlots(resultCh', executed)
<1> DEFINE answers == [r \in S |-> errorResult(r, code)]
<1>1. \A r \in DOMAIN answers : Proper(answers[r], r, executed)
  BY ErrorProper
<1>2. Send(answers)
  BY DEF SendError
<1> HIDE DEF answers
<1> QED
  BY <1>1, <1>2, SendProper

\* Copies of a unit's result for those it answers.
LEMMA SendToUnitProper ==
  ASSUME ProperSlots(resultCh, executed), NEW unit, NEW x \in Result,
         x.ok => x.origin \in executed,
         \A r \in Members(unit) : MayShare(x.origin, r),
         SendToUnit(unit, x)
  PROVE  ProperSlots(resultCh', executed)
<1> DEFINE answers == [r \in Members(unit) |-> cloneResultForRequest(x, r)]
<1>1. ASSUME NEW r \in Members(unit) PROVE Proper(cloneResultForRequest(x, r), r, executed)
  <2>1. /\ cloneResultForRequest(x, r).id = r
        /\ cloneResultForRequest(x, r).origin = x.origin
        /\ cloneResultForRequest(x, r).ok = x.ok
    BY DEF cloneResultForRequest, Result
  <2> QED
    BY <2>1 DEF Proper
<1>2. \A r \in DOMAIN answers : Proper(answers[r], r, executed)
  BY <1>1
<1>3. Send(answers)
  BY DEF SendToUnit
<1> HIDE DEF answers
<1> QED
  BY <1>2, <1>3, SendProper

\* Submit hands a caller an error or what its channel holds.
LEMMA SubmitProvenance ==
  ASSUME TypeOK, Provenance, NEW r \in Requests, Submit(r)
  PROVE  Provenance'
<1>1. UNCHANGED <<pc, units, cache, executed>>
  BY DEF Submit, SubmitClassified, SubmitBackpressured, SubmitChecked, Enqueue,
     QueueOverflow, RecordSubmitted, ReceiveResult, CallerGivesUp, batchVars
<1>2. ProperSlots(resultCh', executed)
  <2>1. \A q \in Requests : resultCh'[q] = resultCh[q] \/ resultCh'[q] = <<>>
    BY DEF Submit, SubmitClassified, SubmitBackpressured, SubmitChecked, Enqueue,
       QueueOverflow, RecordSubmitted, ReceiveResult, CallerGivesUp, TypeOK
  <2> QED
    BY <2>1, KeptSlots DEF Provenance
<1>3. ProperSlots(reply', executed)
  <2>1. CASE UNCHANGED reply
    BY <2>1 DEF Provenance
  <2>2. ASSUME NEW x, Proper(x, r, executed), reply' = [reply EXCEPT ![r] = <<x>>]
        PROVE  ProperSlots(reply', executed)
    <3>1. /\ reply'[r] = <<x>>
          /\ \A q \in Requests : q # r => reply'[q] = reply[q]
      BY <2>2 DEF TypeOK
    <3> QED
      BY <2>2, <3>1, SlotElement DEF Provenance, ProperSlots
  <2>3. CASE ReceiveResult(r)
    <3>1. resultCh[r] # <<>> /\ reply' = [reply EXCEPT ![r] = <<Head(resultCh[r])>>]
      BY <2>3 DEF ReceiveResult, Return
    <3>2. Head(resultCh[r]) = resultCh[r][1]
      BY <3>1 DEF TypeOK, Slot
    <3>3. Proper(Head(resultCh[r]), r, executed)
      BY <3>1, <3>2 DEF Provenance, ProperSlots
    <3> QED
      BY <2>2, <3>1, <3>3
  <2>4. CASE SubmitClassified(r) \/ SubmitBackpressured(r) \/ QueueOverflow(r)
    <3>1. PICK code : reply' = [reply EXCEPT ![r] = <<errorResult(r, code)>>]
      BY <2>4 DEF SubmitClassified, SubmitBackpressured, QueueOverflow, RejectLocally, Return
    <3> QED
      BY <2>2, <3>1, ErrorProper
  <2>5. CASE SubmitChecked(r) \/ Enqueue(r) \/ RecordSubmitted(r) \/ CallerGivesUp(r)
    BY <2>1, <2>5 DEF SubmitChecked, Enqueue, RecordSubmitted, CallerGivesUp
  <2> QED
    BY <2>3, <2>4, <2>5 DEF Submit
<1>4. ProperCache' /\ UnitsShare' /\ UnitsSent'
  BY <1>1 DEF Provenance, ProperCache, ProperEntry, shouldCacheResult, UnitsShare, MayShare,
     cacheable, UnitsSent, Primaries
<1> QED
  BY <1>1, <1>2, <1>3, <1>4 DEF Provenance

\* Units that do not change, of requests that stay sent.
LEMMA KeptUnits ==
  ASSUME UnitsShare, UnitsSent, UNCHANGED units, executed \subseteq executed',
         pc' \in {"process", "deliver"} => pc \in {"process", "deliver"}
  PROVE  UnitsShare' /\ UnitsSent'
BY DEF UnitsShare, UnitsSent, MayShare, cacheable, Primaries

\* The select loop and pickBatchChunk only send errors.
LEMMA LoopProvenance ==
  ASSUME TypeOK, Provenance,
         \/ RunStops \/ RunReceives \/ TickIdle \/ TickBackpressured \/ TickPicks
         \/ PickInto \/ PickLater \/ PickTooLarge \/ PickDone
  PROVE  Provenance'
<1> USE DEF callerVars, timeVars, batchVars
<1>1. UNCHANGED <<reply, executed, units>> /\ (pc' = pc \/ pc' \in {"select", "stopped", "pick", "prepare"})
  BY DEF RunStops, RunReceives, TickIdle, TickBackpressured, TickPicks, TakeTick, PickInto,
     PickLater, PickTooLarge, PickDone
<1>2. ProperSlots(resultCh', executed)
  <2>1. CASE RunStops \/ TickBackpressured \/ PickTooLarge
    <3>1. \E S, code : S \subseteq Range(pending) /\ SendError(S, code)
      <4>1. CASE RunStops \/ TickBackpressured
        BY <4>1 DEF RunStops, TickBackpressured
      <4>2. CASE PickTooLarge
        <5>1. pending # <<>> /\ SendError({Head(pending)}, "BATCH_TOO_LARGE")
          BY <4>2 DEF PickTooLarge
        <5>2. Head(pending) \in Range(pending)
          BY <5>1 DEF TypeOK, Range
        <5> QED
          BY <5>1, <5>2
      <4> QED
        BY <2>1, <4>1, <4>2
    <3>2. Range(pending) \subseteq Requests
      BY HeldRequests
    <3>3. PICK S, code : S \subseteq Requests /\ SendError(S, code)
      BY <3>1, <3>2
    <3> QED
      BY <3>3, SendErrorProper DEF Provenance
  <2>2. CASE UNCHANGED resultCh
    BY <2>2 DEF Provenance
  <2> QED
    BY <2>1, <2>2 DEF RunReceives, TickIdle, TickPicks, PickInto, PickLater, PickDone
<1>3. ProperCache'
  <2>1. CASE TickIdle \/ TickBackpressured \/ TickPicks
    <3>1. cache' = evictExpiredCache
      BY <2>1 DEF TickIdle, TickBackpressured, TickPicks, TakeTick
    <3>2. /\ DOMAIN cache' \subseteq DOMAIN cache
          /\ \A k \in DOMAIN cache' : cache'[k] = cache[k]
      BY <3>1 DEF evictExpiredCache, Without
    <3> QED
      BY <1>1, <3>2, KeptCache DEF Provenance
  <2>2. CASE UNCHANGED cache
    BY <1>1, <2>2, KeptCache DEF Provenance
  <2> QED
    BY <2>1, <2>2 DEF RunStops, RunReceives, PickInto, PickLater, PickTooLarge, PickDone
<1> QED
  BY <1>1, <1>2, <1>3, KeptUnits DEF Provenance

\* A cache hit was produced for the key of the request it answers.
LEMMA HitProvenance ==
  ASSUME TypeOK, Provenance, PrepareHit
  PROVE  Provenance'
<1> DEFINE r == Head(chunk)
           x == cache[CacheKey[r]].result
           answers == [q \in {r} |-> cloneResultForRequest(x, q)]
<1>1. UNCHANGED <<reply, executed, units, cache, pc>>
  BY DEF PrepareHit, callerVars
<1>2. r \in Requests /\ cacheable(r) /\ CacheKey[r] \in DOMAIN cache /\ Send(answers)
  BY DEF PrepareHit, TypeOK, Fresh
<1>3. x \in Result
  BY <1>2 DEF TypeOK, Entry
<1>4. x.origin \in executed /\ CacheKey[x.origin] = CacheKey[r]
  BY <1>2 DEF Provenance, ProperCache, ProperEntry
<1>5. Proper(cloneResultForRequest(x, r), r, executed)
  <2>1. /\ cloneResultForRequest(x, r).id = r
        /\ cloneResultForRequest(x, r).origin = x.origin
    BY <1>3 DEF cloneResultForRequest, Result
  <2> QED
    BY <1>2, <1>4, <2>1 DEF Proper, MayShare
<1>6. \A q \in DOMAIN answers : Proper(answers[q], q, executed)
  BY <1>5
<1>7. ProperSlots(resultCh', executed)
  <2> HIDE DEF answers
  <2> QED
    BY <1>2, <1>6, SendProper DEF Provenance
<1> QED
  BY <1>1, <1>7, KeptUnits, KeptCache DEF Provenance

\* A request joins the unit with its key, or makes one of its own.
LEMMA UnitProvenance ==
  ASSUME TypeOK, Provenance, PrepareDuplicate \/ PrepareUnit
  PROVE  Provenance'
<1> DEFINE r == Head(chunk)
<1>1. UNCHANGED <<reply, resultCh, executed, pc>> /\ pc = "prepare"
  BY DEF PrepareDuplicate, PrepareUnit, callerVars
<1>2. ProperCache'
  <2>1. cache' = ForgetExpired(CacheKey[r])
    BY DEF PrepareDuplicate, PrepareUnit
  <2>2. /\ DOMAIN cache' \subseteq DOMAIN cache
        /\ \A k \in DOMAIN cache' : cache'[k] = cache[k]
    BY <2>1 DEF ForgetExpired, Without
  <2> QED
    BY <1>1, <2>2, KeptCache DEF Provenance
<1>3. UnitsShare'
  <2> USE DEF MayShare, cacheable
  <2>1. CASE PrepareDuplicate
    <3>1. PICK i \in DOMAIN units :
            SameKey(i, r) /\ units' = [units EXCEPT ![i].duplicates = @ \cup {r}]
      BY <2>1 DEF PrepareDuplicate
    <3>2. /\ DOMAIN units' = DOMAIN units
          /\ \A j \in DOMAIN units : j # i => units'[j] = units[j]
          /\ units'[i] = [units[i] EXCEPT !.duplicates = @ \cup {r}]
          /\ units[i] \in Unit
      BY <3>1 DEF TypeOK
    <3>3. /\ units'[i].primary = units[i].primary
          /\ units'[i].duplicates = units[i].duplicates \cup {r}
      BY <3>2 DEF Unit
    <3>4. MayShare(units[i].primary, r)
      BY <3>1 DEF SameKey
    <3>5. ASSUME NEW j \in DOMAIN units', NEW d \in units'[j].duplicates
          PROVE  MayShare(units'[j].primary, d)
      <4> HIDE DEF MayShare
      <4>1. CASE j # i
        BY <3>2, <3>5, <4>1 DEF Provenance, UnitsShare
      <4>2. CASE j = i /\ d \in units[i].duplicates
        BY <3>2, <3>3, <3>5, <4>2 DEF Provenance, UnitsShare
      <4>3. CASE j = i /\ d = r
        BY <3>3, <3>4, <4>3
      <4> QED
        BY <3>3, <3>5, <4>1, <4>2, <4>3
    <3> QED
      BY <3>5 DEF UnitsShare
  <2>2. CASE PrepareUnit
    <3>1. units' = Append(units, [primary |-> r, duplicates |-> {}]) /\ units \in Seq(Unit)
      BY <2>2 DEF PrepareUnit, TypeOK
    <3>2. \A i \in DOMAIN units' :
            \/ i \in DOMAIN units /\ units'[i] = units[i]
            \/ units'[i].duplicates = {}
      BY <3>1
    <3> QED
      BY <3>2 DEF Provenance, UnitsShare
  <2> QED
    BY <2>1, <2>2
<1> QED
  BY <1>1, <1>2, <1>3 DEF Provenance, UnitsSent

\* The dispatch sends the primaries; what follows keeps them.
LEMMA DispatchProvenance ==
  ASSUME TypeOK, Provenance,
         NothingToDispatch \/ RefuseBatch \/ StartDispatch \/ ProcessBatchReturns \/ BatchDone
  PROVE  Provenance'
<1> USE DEF callerVars, batchVars, timeVars
<1>1. UNCHANGED <<reply, resultCh, cache, units>>
  BY DEF NothingToDispatch, RefuseBatch, StartDispatch, ProcessBatchReturns, DispatchFails,
     PackageMismatch, PackageArrives, BatchDone
<1>2. executed \subseteq executed'
  BY DEF NothingToDispatch, RefuseBatch, StartDispatch, ProcessBatchReturns, DispatchFails,
     PackageMismatch, PackageArrives, BatchDone
<1>3. ProperSlots(resultCh', executed') /\ ProperSlots(reply', executed')
  BY <1>1, <1>2, KeptSlots DEF Provenance
<1>4. ProperCache'
  BY <1>1, <1>2, KeptCache DEF Provenance
<1>5. UnitsShare'
  BY <1>1 DEF Provenance, UnitsShare, MayShare, cacheable
<1>6. UnitsSent'
  <2>1. CASE StartDispatch
    BY <1>1, <2>1 DEF StartDispatch, UnitsSent, Primaries
  <2>2. CASE ~StartDispatch
    <3>1. UNCHANGED executed /\ (pc' \in {"process", "deliver"} => pc = "process")
      BY <2>2 DEF NothingToDispatch, RefuseBatch, ProcessBatchReturns, DispatchFails,
         PackageMismatch, PackageArrives, BatchDone
    <3> QED
      BY <1>1, <3>1, KeptUnits DEF Provenance
  <2> QED
    BY <2>1, <2>2
<1> QED
  BY <1>3, <1>4, <1>5, <1>6 DEF Provenance

\* A unit's members get its primary's own result or an error, and only the former
\* is kept.
LEMMA AnswerProvenance ==
  ASSUME TypeOK, BatchCycle, Provenance, DeliverUnit \/ FailUnit
  PROVE  Provenance'
<1> DEFINE unit == Head(units)
<1>1. /\ units \in Seq(Unit) /\ unit \in Unit
      /\ DOMAIN units' \subseteq Nat
      /\ \A i \in DOMAIN units' : i + 1 \in DOMAIN units /\ units'[i] = units[i + 1]
      /\ unit = units[1] /\ 1 \in DOMAIN units
      /\ UNCHANGED <<reply, executed, pc>>
  <2>1. units \in Seq(Unit) /\ units # <<>> /\ units' = Tail(units) /\ UNCHANGED <<reply, executed, pc>>
    BY DEF DeliverUnit, FailUnit, TypeOK, callerVars
  <2> QED
    BY <2>1
<1>2. ~Recovers(unit)
  BY <1>1 DEF Recovers, StaleUsable, BatchCycle, UnitsUncached
<1>3. PICK x \in Result :
        /\ SendToUnit(unit, x)
        /\ x.origin = unit.primary
        /\ x.ok => pc = "deliver"
        /\ \/ UNCHANGED cache
           \/ /\ cacheable(unit.primary) /\ shouldCacheResult(x)
              /\ storeCacheEntry(CacheKey[unit.primary], x)
  <2>1. CASE FailUnit
    <3> DEFINE x == Substitute(unit, FALSE, failCode)
    <3>1. x = errorResult(unit.primary, failCode)
      BY DEF Substitute
    <3>2. x \in Result
      <4>1. failCode \in Codes /\ unit.primary \in Requests
        BY <1>1, <2>1 DEF FailUnit, TypeOK, Unit
      <4> QED
        BY <3>1, <4>1, ResultTypes
    <3>3. SendToUnit(unit, x) /\ UNCHANGED cache
      BY <1>2, <2>1 DEF FailUnit
    <3>4. x.origin = unit.primary /\ ~x.ok
      <4>1. x = [id |-> unit.primary, ok |-> FALSE, code |-> failCode, origin |-> unit.primary]
        BY <3>1, Zenon DEF errorResult
      <4> HIDE DEF x
      <4> QED
        BY <4>1
    <3> HIDE DEF x
    <3> QED
      BY <3>2, <3>3, <3>4
  <2>2. CASE DeliverUnit
    <3> DEFINE x == PrimaryResult(unit)
    <3>1. x \in Result
      BY <1>1, UnitResultTypes
    <3>2. x.origin = unit.primary
      BY <1>2 DEF PrimaryResult, Substitute, errorResult
    <3>3. SendToUnit(unit, x) /\ pc = "deliver"
      BY <2>2 DEF DeliverUnit
    <3>4. \/ UNCHANGED cache
          \/ /\ cacheable(unit.primary) /\ shouldCacheResult(x)
             /\ storeCacheEntry(CacheKey[unit.primary], x)
      BY <2>2, Zenon DEF DeliverUnit
    <3> HIDE DEF x
    <3> QED
      BY <3>1, <3>2, <3>3, <3>4
  <2> QED
    BY <2>1, <2>2
<1>4. x.ok => x.origin \in executed
  BY <1>1, <1>3 DEF Provenance, UnitsSent, Primaries
<1>5. \A r \in Members(unit) : MayShare(x.origin, r)
  BY <1>1, <1>3 DEF Members, Provenance, UnitsShare, MayShare
<1>6. ProperSlots(resultCh', executed)
  BY <1>3, <1>4, <1>5, SendToUnitProper DEF Provenance
<1>7. ProperCache'
  <2>1. CASE UNCHANGED cache
    BY <1>1, <2>1, KeptCache DEF Provenance
  <2>2. CASE ~UNCHANGED cache
    <3> DEFINE k == CacheKey[unit.primary]
    <3>1. shouldCacheResult(x) /\ storeCacheEntry(k, x) /\ cacheEnabled
      BY <1>3, <2>2 DEF storeCacheEntry
    <3>2. PICK dropped \in Victims :
            cache' = [j \in (DOMAIN cache \ dropped) \cup {k} |->
                        IF j = k THEN [age |-> 0, result |-> x] ELSE cache[j]]
      BY <3>1 DEF storeCacheEntry
    <3>3. ProperEntry(x, k, executed)
      BY <1>3, <1>4, <3>1 DEF ProperEntry, shouldCacheResult
    <3> HIDE DEF k
    <3>4. ASSUME NEW j \in DOMAIN cache' PROVE ProperEntry(cache'[j].result, j, executed)
      <4>1. CASE j = k
        <5>1. cache'[j] = [age |-> 0, result |-> x]
          BY <3>2, <4>1
        <5> QED
          BY <3>3, <4>1, <5>1
      <4>2. CASE j # k
        <5>1. j \in DOMAIN cache /\ cache'[j] = cache[j]
          BY <3>2, <4>2
        <5> QED
          BY <5>1 DEF Provenance, ProperCache
      <4> QED
        BY <4>1, <4>2
    <3> QED
      BY <1>1, <3>4 DEF ProperCache, ProperEntry, shouldCacheResult
  <2> QED
    BY <2>1, <2>2
<1>8. UnitsShare' /\ UnitsSent'
  BY <1>1 DEF Provenance, UnitsShare, UnitsSent, Primaries, MayShare, cacheable
<1> QED
  BY <1>1, <1>6, <1>7, <1>8 DEF Provenance

\* Every step keeps the provenance of answers.
LEMMA NextProvenance ==
  TypeOK /\ BatchCycle /\ Provenance /\ [Next]_vars => Provenance'
<1> SUFFICES ASSUME TypeOK, BatchCycle, Provenance, [Next]_vars PROVE Provenance'
  OBVIOUS
<1>1. CASE Elapse \/ ContextDone \/ UNCHANGED vars
  <2>1. UNCHANGED <<pc, reply, resultCh, units, executed>>
    BY <1>1 DEF Elapse, ContextDone, vars, callerVars, batchVars
  <2>2. /\ DOMAIN cache' \subseteq DOMAIN cache
        /\ \A k \in DOMAIN cache' : cache'[k].result = cache[k].result
    <3>1. CASE Elapse
      <4>1. cache' = [k \in DOMAIN cache |-> Older(cache[k])]
        BY <3>1 DEF Elapse
      <4>2. \A k \in DOMAIN cache : Older(cache[k]).result = cache[k].result
        BY DEF TypeOK, Entry, Older
      <4> QED
        BY <4>1, <4>2
    <3>2. CASE UNCHANGED cache
      BY <3>2
    <3> QED
      BY <1>1, <3>1, <3>2 DEF ContextDone, vars
  <2> QED
    BY <2>1, <2>2, KeptUnits, KeptCache DEF Provenance
<1>2. CASE \E r \in Requests : Submit(r)
  BY <1>2, SubmitProvenance
<1>3. CASE RunStep
  BY <1>3, LoopProvenance, HitProvenance, UnitProvenance, DispatchProvenance, AnswerProvenance
     DEF RunStep
<1> QED
  BY <1>1, <1>2, <1>3 DEF Next

\* So every answer has its provenance at all times.
LEMMA AlwaysProvenance == Spec => []Provenance
<1>1. Init => Provenance
  BY InitProvenance
<1>2. TypeOK /\ BatchCycle /\ Provenance /\ [Next]_vars => Provenance'
  BY NextProvenance
<1> QED
  BY <1>1, <1>2, TypeCorrect, AlwaysBatchCycle, PTL DEF Spec

\* Nobody is given a result that was made for another's request, or a success that
\* no worker produced, directly or through the cache.
THEOREM AnswersBelong == Spec => []NoCrossTalk
<1>1. TypeOK /\ Provenance => NoCrossTalk
  BY ProvenanceSuffices
<1> QED
  BY <1>1, TypeCorrect, AlwaysProvenance, PTL
----------------------------------------------------------------------------
(* The refinement. *)

\* Of all counters recorded, only a dispatch changes the one that is mapped.
LEMMA DispatchedCount ==
  ASSUME NEW s \in [Counters -> Nat], NEW n \in Nat
  PROVE  /\ \A ok \in BOOLEAN : Recorded(s, ok, n).dispatchedRequests = s.dispatchedRequests
         /\ LocallyRejected(s).dispatchedRequests = s.dispatchedRequests
         /\ Dispatched(s, n).dispatchedRequests = s.dispatchedRequests + n
         /\ \A stale \in BOOLEAN :
              FailOpenServed(s, stale).dispatchedRequests = s.dispatchedRequests
         /\ [s EXCEPT !.submitted = @ + 1].dispatchedRequests = s.dispatchedRequests
         /\ [s EXCEPT !.deduplicated = @ + 1].dispatchedRequests = s.dispatchedRequests
         /\ [s EXCEPT !.cacheHits = @ + 1].dispatchedRequests = s.dispatchedRequests
<1>1. \A ok \in BOOLEAN : Recorded(s, ok, n).dispatchedRequests = s.dispatchedRequests
  BY DEF Recorded, Counters
<1>2. LocallyRejected(s).dispatchedRequests = s.dispatchedRequests
  BY DEF LocallyRejected, Recorded, Counters
<1>3. Dispatched(s, n).dispatchedRequests = s.dispatchedRequests + n
  BY DEF Dispatched, Counters
<1>4. \A stale \in BOOLEAN : FailOpenServed(s, stale).dispatchedRequests = s.dispatchedRequests
  BY DEF FailOpenServed, Counters
<1>5. /\ [s EXCEPT !.submitted = @ + 1].dispatchedRequests = s.dispatchedRequests
      /\ [s EXCEPT !.deduplicated = @ + 1].dispatchedRequests = s.dispatchedRequests
      /\ [s EXCEPT !.cacheHits = @ + 1].dispatchedRequests = s.dispatchedRequests
  BY DEF Counters
<1> QED
  BY <1>1, <1>2, <1>3, <1>4, <1>5

\* The call of each request, as Relay sees it.
calls == [r \in Requests |-> CallOf[caller[r]]]

\* What CallOf makes of the states of a caller.
LEMMA CallStates ==
  /\ CallOf["idle"] = "idle" /\ CallOf["checked"] = "open" /\ CallOf["enqueued"] = "open"
  /\ CallOf["waiting"] = "open" /\ CallOf["returned"] = "answered"
  /\ CallOf["cancelled"] = "abandoned"
BY DEF CallOf

\* One caller moves on.
LEMMA CallMoves ==
  ASSUME TypeOK, NEW r \in Requests,
         NEW to \in {"checked", "enqueued", "waiting", "returned", "cancelled"},
         caller' = [caller EXCEPT ![r] = to]
  PROVE  /\ calls' = [calls EXCEPT ![r] = CallOf[to]]
         /\ calls[r] = CallOf[caller[r]]
BY DEF TypeOK, calls

\* An answer of the agent is one of Relay's.
LEMMA AnswerRefines ==
  ASSUME TypeOK, NEW r \in Requests, NEW x \in Result, Proper(x, r, executed),
         caller[r] \in {"idle", "checked", "enqueued", "waiting"},
         x.ok => caller[r] # "idle",
         Return(r, x), UNCHANGED executed, stats'.dispatchedRequests = stats.dispatchedRequests
  PROVE  R!Answer(r)
<1>1. calls' = [calls EXCEPT ![r] = "answered"] /\ calls[r] \in {"idle", "open"}
  <2>1. calls' = [calls EXCEPT ![r] = CallOf["returned"]] /\ calls[r] = CallOf[caller[r]]
    BY CallMoves DEF Return
  <2> QED
    BY <2>1, CallStates
<1>2. x.ok => calls[r] = "open"
  BY CallStates DEF calls
<1> DEFINE a == [ok |-> x.ok, code |-> x.code]
<1>3. a \in [ok : BOOLEAN, code : Codes] /\ x.origin \in Requests
  BY DEF Result
<1>4. x = [id |-> r, ok |-> x.ok, code |-> x.code, origin |-> x.origin]
  BY DEF Result, Proper
<1>5. reply' = [reply EXCEPT ![r] = <<[id |-> r, ok |-> a.ok, code |-> a.code, origin |-> x.origin]>>]
  BY <1>4 DEF Return
<1>6. R!MayShare(x.origin, r)
  BY DEF Proper, MayShare, cacheable, R!MayShare
<1>7. a.ok => x.origin \in executed /\ calls[r] = "open"
  BY <1>2 DEF Proper
<1> HIDE DEF a
<1> QED
  BY <1>1, <1>3, <1>5, <1>6, <1>7 DEF R!Answer, calls

\* Every step of Submit is a step of Relay or changes nothing it sees.
LEMMA SubmitRefines ==
  ASSUME TypeOK, Conserved, Provenance, NEW r \in Requests, Submit(r)
  PROVE  [R!RelayNext]_(R!relayVars)
<1>1. UNCHANGED executed
  BY DEF Submit, SubmitClassified, SubmitBackpressured, SubmitChecked, Enqueue,
     QueueOverflow, RecordSubmitted, ReceiveResult, CallerGivesUp
<1>2. stats'.dispatchedRequests = stats.dispatchedRequests
  <2>1. \/ stats' = stats \/ stats' = LocallyRejected(stats)
        \/ stats' = [stats EXCEPT !.submitted = @ + 1]
    BY DEF Submit, SubmitClassified, SubmitBackpressured, SubmitChecked, Enqueue,
       QueueOverflow, RecordSubmitted, ReceiveResult, CallerGivesUp, RejectLocally
  <2>2. stats \in [Counters -> Nat]
    BY DEF TypeOK
  <2> QED
    BY <2>1, <2>2, DispatchedCount
<1>3. CASE SubmitClassified(r) \/ SubmitBackpressured(r) \/ QueueOverflow(r)
  <2>1. PICK code \in Codes : Return(r, errorResult(r, code)) /\ caller[r] \in {"idle", "checked"}
    BY <1>3 DEF SubmitClassified, SubmitBackpressured, QueueOverflow, RejectLocally, Codes,
       DispatchErrors
  <2> DEFINE x == errorResult(r, code)
  <2>2. x \in Result /\ Proper(x, r, executed) /\ ~x.ok
    BY ResultTypes, ErrorProper DEF errorResult
  <2> HIDE DEF x
  <2>3. Return(r, x)
    BY <2>1 DEF x
  <2>4. R!Answer(r)
    BY <1>1, <1>2, <2>1, <2>2, <2>3, AnswerRefines
  <2> QED
    BY <2>4 DEF R!RelayNext
<1>4. CASE SubmitChecked(r)
  <2>1. caller[r] = "idle" /\ caller' = [caller EXCEPT ![r] = "checked"] /\ UNCHANGED reply
    BY <1>4 DEF SubmitChecked
  <2>2. calls[r] = "idle" /\ calls' = [calls EXCEPT ![r] = "open"]
    <3>1. calls' = [calls EXCEPT ![r] = CallOf["checked"]] /\ calls[r] = CallOf[caller[r]]
      BY <2>1, CallMoves
    <3> QED
      BY <2>1, <3>1, CallStates
  <2>3. R!Ask(r)
    BY <1>1, <1>2, <2>1, <2>2 DEF R!Ask, calls
  <2> QED
    BY <2>3 DEF R!RelayNext
<1>5. CASE Enqueue(r) \/ RecordSubmitted(r)
  <2>1. PICK to \in {"enqueued", "waiting"} :
          /\ caller[r] \in {"checked", "enqueued"}
          /\ caller' = [caller EXCEPT ![r] = to] /\ UNCHANGED reply
    BY <1>5 DEF Enqueue, RecordSubmitted
  <2>2. calls[r] = "open" /\ calls' = [calls EXCEPT ![r] = "open"]
    <3>1. calls' = [calls EXCEPT ![r] = CallOf[to]] /\ calls[r] = CallOf[caller[r]]
      BY <2>1, CallMoves
    <3> QED
      BY <2>1, <3>1, CallStates
  <2>3. calls' = calls
    BY <2>2 DEF calls
  <2> QED
    BY <1>1, <1>2, <2>1, <2>3 DEF R!relayVars, calls
<1>6. CASE ReceiveResult(r)
  <2>1. /\ caller[r] = "waiting" /\ resultCh[r] # <<>>
        /\ Return(r, Head(resultCh[r]))
    BY <1>6 DEF ReceiveResult
  <2>2. PICK x \in Result : resultCh[r] = <<x>>
    BY <2>1 DEF TypeOK, Slot
  <2>3. Head(resultCh[r]) = x /\ resultCh[r][1] = x
    BY <2>2
  <2>4. Proper(x, r, executed)
    BY <2>1, <2>3 DEF Provenance, ProperSlots
  <2>5. R!Answer(r)
    BY <1>1, <1>2, <2>1, <2>3, <2>4, AnswerRefines
  <2> QED
    BY <2>5 DEF R!RelayNext
<1>7. CASE CallerGivesUp(r)
  <2>1. caller[r] = "waiting" /\ caller' = [caller EXCEPT ![r] = "cancelled"] /\ UNCHANGED reply
    BY <1>7 DEF CallerGivesUp
  <2>2. calls[r] = "open" /\ calls' = [calls EXCEPT ![r] = "abandoned"]
    <3>1. calls' = [calls EXCEPT ![r] = CallOf["cancelled"]] /\ calls[r] = CallOf[caller[r]]
      BY <2>1, CallMoves
    <3> QED
      BY <2>1, <3>1, CallStates
  <2>3. R!Abandon(r)
    BY <1>1, <1>2, <2>1, <2>2 DEF R!Abandon, calls
  <2> QED
    BY <2>3 DEF R!RelayNext
<1> QED
  BY <1>3, <1>4, <1>5, <1>6, <1>7 DEF Submit

\* Relay counts as the agent does.
LEMMA SameCardinality == \A S : R!Cardinality(S) = Cardinality(S)
BY Zenon DEF R!Cardinality, Cardinality

\* A dispatch executes requests that were never executed before, each asked for and
\* no two with one key.
LEMMA DispatchRefines ==
  ASSUME TypeOK, Conserved, BatchCycle, StartDispatch
  PROVE  R!Execute
<1>1. /\ UNCHANGED <<caller, reply>> /\ pc = "prepare"
      /\ executed' = executed \cup Primaries
      /\ stats' = Dispatched(stats, Len(units))
  BY DEF StartDispatch, callerVars, recordBatchDispatched
<1>2. Primaries \subseteq UnitMembers /\ Primaries \cap executed = {}
  BY <1>1, PrimariesAreMembers DEF BatchCycle, NotYetExecuted
<1>3. Primaries \in SUBSET (Requests \ executed)
  BY <1>2 DEF UnitMembers
<1>4. stats'.dispatchedRequests = stats.dispatchedRequests + Cardinality(Primaries)
  <2>1. stats \in [Counters -> Nat] /\ Len(units) \in Nat
    BY DEF TypeOK
  <2>2. Cardinality(Primaries) = Len(units)
    BY BatchSize DEF Conserved, SingleHolder
  <2> QED
    BY <1>1, <2>1, <2>2, DispatchedCount
<1>5. ASSUME NEW r \in Primaries PROVE calls[r] \in {"open", "abandoned"}
  <2>1. r \in Requests /\ caller[r] \in {"enqueued", "waiting", "cancelled"}
    BY <1>2, <1>3 DEF Conserved, HeldUnanswered, Held
  <2> QED
    BY <2>1, CallStates DEF calls
<1>6. ASSUME NEW q \in Primaries, NEW r \in Primaries, q # r PROVE ~R!MayShare(q, r)
  <2>1. PICK i \in DOMAIN units : q = units[i].primary
    BY DEF Primaries
  <2>2. PICK j \in DOMAIN units : r = units[j].primary
    BY DEF Primaries
  <2> QED
    BY <1>6, <2>1, <2>2 DEF BatchCycle, UnitsDistinct, cacheable, R!MayShare
<1>7. calls' = calls
  BY <1>1 DEF calls
<1>8. stats'.dispatchedRequests = stats.dispatchedRequests + R!Cardinality(Primaries)
  BY <1>4, SameCardinality
<1> QED
  BY <1>1, <1>3, <1>5, <1>6, <1>7, <1>8 DEF R!Execute, calls

\* Everything else that Run does, and time, change nothing Relay sees.
LEMMA RunRefines ==
  ASSUME TypeOK, BatchCycle, RunStep \/ Elapse \/ ContextDone, ~StartDispatch
  PROVE  UNCHANGED <<caller, reply, executed>> /\ stats'.dispatchedRequests = stats.dispatchedRequests
<1> USE DEF callerVars, batchVars, timeVars
<1>0. stats \in [Counters -> Nat] /\ Len(pending) \in Nat
  BY DEF TypeOK
<1>1. CASE \/ RunReceives \/ TickIdle \/ TickPicks \/ PickInto \/ PickLater \/ PickDone
           \/ PrepareUnit \/ NothingToDispatch \/ RefuseBatch \/ ProcessBatchReturns
           \/ BatchDone \/ Elapse \/ ContextDone
  BY <1>1 DEF RunReceives, TickIdle, TickPicks, TakeTick, PickInto, PickLater, PickDone,
     PrepareUnit, NothingToDispatch, RefuseBatch, ProcessBatchReturns, DispatchFails,
     PackageMismatch, PackageArrives, BatchDone, Elapse, ContextDone
<1>2. CASE RunStops \/ TickBackpressured \/ PickTooLarge
  <2>1. UNCHANGED <<caller, reply, executed>>
    BY <1>2 DEF RunStops, TickBackpressured, TakeTick, PickTooLarge
  <2>2. PICK n \in Nat : stats' = Recorded(stats, FALSE, n)
    BY <1>0, <1>2 DEF RunStops, TickBackpressured, PickTooLarge
  <2> QED
    BY <1>0, <2>1, <2>2, DispatchedCount
<1>3. CASE PrepareDuplicate
  BY <1>0, <1>3, DispatchedCount DEF PrepareDuplicate
<1>4. CASE PrepareHit
  <2> DEFINE k == CacheKey[Head(chunk)]
             s == [stats EXCEPT !.cacheHits = @ + 1]
  <2>1. /\ UNCHANGED <<caller, reply, executed>> /\ k \in DOMAIN cache
        /\ stats' = Recorded(s, cache[k].result.ok, 1)
    BY <1>4 DEF PrepareHit, Fresh
  <2>2. cache[k].result.ok \in BOOLEAN
    BY <2>1 DEF TypeOK, Entry, Result
  <2>3. s \in [Counters -> Nat] /\ s.dispatchedRequests = stats.dispatchedRequests
    <3>1. "cacheHits" \in Counters
      BY DEF Counters
    <3> QED
      BY <1>0, <3>1, DispatchedCount
  <2> HIDE DEF k, s
  <2>4. \A ok \in BOOLEAN : Recorded(s, ok, 1).dispatchedRequests = s.dispatchedRequests
    BY <2>3, DispatchedCount
  <2> QED
    BY <2>1, <2>2, <2>3, <2>4
<1>5. CASE DeliverUnit \/ FailUnit
  <2> DEFINE unit == Head(units)
  <2>1. UNCHANGED <<caller, reply, executed>> /\ unit \in Unit
    BY <1>5 DEF DeliverUnit, FailUnit, TypeOK
  <2>2. PICK ok \in BOOLEAN, stale \in BOOLEAN :
          stats' = Recorded(FailOpenServed(stats, stale), ok, 1 + Cardinality(unit.duplicates))
    <3>1. CASE DeliverUnit
      <4>1. PrimaryResult(unit).ok \in BOOLEAN
        BY <2>1, UnitResultTypes DEF Result
      <4> QED
        BY <3>1, <4>1 DEF DeliverUnit
    <3>2. CASE FailUnit
      <4> DEFINE st == isRecoverableCode(failCode) /\ Recovers(unit)
      <4>1. Substitute(unit, st, failCode) \in Result
        BY <2>1, <3>2, UnitResultTypes DEF FailUnit, TypeOK
      <4>2. Substitute(unit, st, failCode).ok \in BOOLEAN
        BY <4>1 DEF Result
      <4>3. stats' = Recorded(FailOpenServed(stats, st), Substitute(unit, st, failCode).ok,
                              1 + Cardinality(unit.duplicates))
        BY <3>2 DEF FailUnit
      <4>4. st \in BOOLEAN
        OBVIOUS
      <4> HIDE DEF st
      <4> QED
        BY <4>2, <4>3, <4>4
    <3> QED
      BY <1>5, <3>1, <3>2
  <2>3. 1 + Cardinality(unit.duplicates) \in Nat
    BY <2>1, UnitFacts
  <2>4. FailOpenServed(stats, stale) \in [Counters -> Nat]
    BY <1>0, CounterTypes
  <2>5. /\ Recorded(FailOpenServed(stats, stale), ok, 1 + Cardinality(unit.duplicates)).dispatchedRequests
             = FailOpenServed(stats, stale).dispatchedRequests
        /\ FailOpenServed(stats, stale).dispatchedRequests = stats.dispatchedRequests
    BY <1>0, <2>3, <2>4, DispatchedCount
  <2> QED
    BY <2>1, <2>2, <2>5
<1> QED
  BY <1>1, <1>2, <1>3, <1>4, <1>5 DEF RunStep

\* Every step of the agent is a step of Relay or a stutter.
LEMMA StepRefines ==
  TypeOK /\ Conserved /\ BatchCycle /\ Provenance /\ [Next]_vars => [R!RelayNext]_(R!relayVars)
<1> SUFFICES ASSUME TypeOK, Conserved, BatchCycle, Provenance, [Next]_vars
             PROVE  [R!RelayNext]_(R!relayVars)
  OBVIOUS
<1>1. CASE \E r \in Requests : Submit(r)
  BY <1>1, SubmitRefines
<1>2. CASE StartDispatch
  BY <1>2, DispatchRefines DEF R!RelayNext
<1>3. CASE (RunStep \/ Elapse \/ ContextDone) /\ ~StartDispatch
  BY <1>3, RunRefines DEF R!relayVars
<1>4. CASE UNCHANGED vars
  BY <1>4 DEF vars, R!relayVars
<1> QED
  BY <1>1, <1>2, <1>3, <1>4 DEF Next

\* The agent starts where Relay starts.
LEMMA InitRefines == Init => R!RelayInit
BY CallStates DEF Init, R!RelayInit, Counters

\* The agent implements Relay: for every number of calls and every setting, its
\* callers cannot tell it from a relay that has no queue, batches or cache.
THEOREM AgentImplementsRelay == Spec => ImplementsRelay
<1>1. Init => R!RelayInit
  BY InitRefines
<1>2. TypeOK /\ Conserved /\ BatchCycle /\ Provenance /\ [Next]_vars
        => [R!RelayNext]_(R!relayVars)
  BY StepRefines
<1> QED
  BY <1>1, <1>2, TypeCorrect, AlwaysConserved, AlwaysBatchCycle, AlwaysProvenance, PTL
     DEF Spec, ImplementsRelay, R!RelaySpec
============================================================================
