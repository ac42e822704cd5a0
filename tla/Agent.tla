------------------------------- MODULE Agent -------------------------------
(***************************************************************************)
(* The batching agent of the local client (client/internal/agent).  Any    *)
(* number of goroutines call Submit; one goroutine executes Run, the loop  *)
(* that buffers queued requests and, on a ticker, sends one batch at a     *)
(* time through the dispatcher and hands every caller its result.          *)
(*                                                                         *)
(* A member of Requests is one call of Submit.  What the agent looks at in *)
(* a request is a constant function of it: CacheKey (NoKey when the        *)
(* request is not a GET or HEAD without a body), Size (its bytes in the    *)
(* serialized batch, separator included) and whether classifyRequest       *)
(* turns it down.  A result keeps the request id it is addressed to, its   *)
(* outcome and `origin', the request whose dispatch produced it.           *)
(*                                                                         *)
(* There is no clock: a cache entry carries its age, the backpressure      *)
(* deadline the time it still has to run, and Elapse advances them all by  *)
(* one unit.  Ages saturate one unit after the last comparison made on     *)
(* them, so no time bound is needed.  The loops of the code are unrolled   *)
(* into one action per iteration.                                          *)
(***************************************************************************)
EXTENDS Integers, Sequences, FiniteSets, Functions

CONSTANTS
  Requests,             \* the calls of Submit
  Keys,                 \* cache keys
  NoKey,                \* cacheKeyForRequest answers ("", false)
  CacheKey,             \* request -> cache key or NoKey
  Size,                 \* request -> bytes it adds to a batch
  Rejected,             \* requests that classifyRequest turns down
  EnvelopeBytes,        \* bytes of an empty batch, as the sizing sees it
  BatchInterval,        \* Settings, in time units where a duration
  MaxBatchRequests,
  MaxBatchBytes,
  MaxQueueRequests,
  CacheTTL,
  CacheMaxEntries,
  StaleIfErrorTTL,
  BackpressureCooldown,
  FailOpen,             \* ReliabilityMode = "fail_open"
  MayStop               \* whether the context given to Run is ever cancelled

\* Agent.New refuses settings outside these ranges.
ASSUME SettingsAssumption ==
  /\ BatchInterval \in Nat \ {0}
  /\ MaxBatchRequests \in Nat \ {0}
  /\ MaxBatchBytes \in Nat \ {0}
  /\ MaxQueueRequests \in Nat \ {0}
  /\ CacheTTL \in Nat
  /\ CacheMaxEntries \in Nat
  /\ StaleIfErrorTTL \in Nat
  /\ BackpressureCooldown \in Nat \ {0}
  /\ FailOpen \in BOOLEAN
  /\ MayStop \in BOOLEAN

\* What a request is made of.
ASSUME RequestsAssumption ==
  /\ IsFiniteSet(Requests)
  /\ NoKey \notin Keys
  /\ CacheKey \in [Requests -> Keys \cup {NoKey}]
  /\ Size \in [Requests -> Nat]
  /\ Rejected \subseteq Requests
  /\ EnvelopeBytes \in Nat

VARIABLES
  caller,        \* where each Submit call stands
  reply,         \* what it returned: <<>> or <<result>>
  resultCh,      \* its result channel, of capacity one
  queue,         \* the channel from Submit to Run
  pc,            \* where Run stands
  pending,       \* Run's buffer; in pickBatchChunk the part not examined yet
  chunk,         \* batchChunk; in prepareDispatchUnits the part not examined yet
  remaining,     \* what pickBatchChunk leaves for a later tick
  units,         \* dispatch units of the batch at hand
  package,       \* results by request id of the package being delivered
  failCode,      \* the code failUnits gives to the units it fails
  cache,         \* cache key -> entry, for the keys cached
  backpressure,  \* time left until BackpressureUntil, NoBackpressure if unset
  ticker,        \* time until the ticker fires
  tickReady,     \* a tick waits in the ticker's channel (capacity one)
  stopping,      \* the context given to Run is cancelled
  stats,         \* the counters of runtimeState
  buffered,      \* its PendingInBatchBuffer
  dispatchInFlight,
  lastError,     \* its LastDispatchErrorCode
  executed       \* requests that a dispatched batch has carried

callerVars == <<caller, reply>>
timeVars   == <<ticker, tickReady, stopping>>
runtime    == <<buffered, dispatchInFlight, lastError>>
batchVars  == <<chunk, remaining, units, package, failCode>>
vars == <<caller, reply, resultCh, queue, pc, pending, chunk, remaining, units,
          package, failCode, cache, backpressure, ticker, tickReady, stopping,
          stats, buffered, dispatchInFlight, lastError, executed>>
----------------------------------------------------------------------------
(* Data. *)

NoBackpressure == -1

\* Codes the dispatcher's error text can carry (inferErrorCode).  The BATCH_TOO_LARGE
\* of a batch that cannot be sized is left out: what Submit accepts always encodes.
DispatchErrors ==
  {"RUN_DELAYED", "RESULT_PACKAGE_NOT_FOUND", "WORKER_ERROR", "DISPATCH_FAILED"}

\* Outcomes of one request in a result package: a response that may be
\* cached, one that may not, and an error of the worker's.
Outcomes == { [ok |-> TRUE,  code |-> "2xx"],
              [ok |-> TRUE,  code |-> "non2xx"],
              [ok |-> FALSE, code |-> "TIMEOUT"] }

Codes == DispatchErrors \cup
  {"2xx", "non2xx", "TIMEOUT", "CLASSIFIED", "QUEUE_OVERFLOW", "BATCH_TOO_LARGE"}

Result == [id : Requests, ok : BOOLEAN, code : Codes, origin : Requests]

\* A channel of capacity one, and what a call has returned.
Slot == {<<>>} \cup {<<x>> : x \in Result}

MaxAge == (IF CacheTTL > StaleIfErrorTTL THEN CacheTTL ELSE StaleIfErrorTTL) + 1

Entry == [age : 0 .. MaxAge, result : Result]

Unit == [primary : Requests, duplicates : SUBSET Requests]

\* The requests whose callers a unit will answer.
Members(unit) == {unit.primary} \cup unit.duplicates

Primaries == {units[i].primary : i \in DOMAIN units}

cacheable(r) == CacheKey[r] # NoKey

errorResult(r, code) == [id |-> r, ok |-> FALSE, code |-> code, origin |-> r]

\* Mutant: the copy keeps the id of the request it was made for.
MutantClone(result, r) == result

cloneResultForRequest(result, r) == [result EXCEPT !.id = r]

shouldCacheResult(result) == result.ok /\ result.code = "2xx"
----------------------------------------------------------------------------
(* Counters.  recordResult, recordLocalRejection, recordCacheHit and the   *)
(* others each take the mutex once.                                        *)

Counters ==
  {"submitted", "localRejected", "completed", "failed", "dispatchedBatches",
   "dispatchedRequests", "cacheHits", "deduplicated", "failOpenServed"}

Recorded(s, ok, n) ==
  IF ok THEN [s EXCEPT !.completed = @ + n] ELSE [s EXCEPT !.failed = @ + n]

LocallyRejected(s) == Recorded([s EXCEPT !.localRejected = @ + 1], FALSE, 1)

Dispatched(s, n) ==
  [[s EXCEPT !.dispatchedBatches = @ + 1] EXCEPT !.dispatchedRequests = @ + n]

setPendingInBatchBuffer(n) == buffered' = n /\ UNCHANGED <<dispatchInFlight, lastError>>

SetInFlight(flag, code) ==
  dispatchInFlight' = flag /\ lastError' = code /\ UNCHANGED buffered

recordBatchDispatched ==
  /\ stats' = Dispatched(stats, Len(units))
  /\ SetInFlight(TRUE, "none")

recordDispatchError(code) == SetInFlight(FALSE, code)

recordDispatchSuccess == SetInFlight(FALSE, "none")
----------------------------------------------------------------------------
(* Cache. *)

cacheEnabled == CacheTTL > 0 /\ CacheMaxEntries > 0

\* now.After(entry.ExpiresAt)
Expired(entry) == entry.age > CacheTTL

\* The key is cached and its entry still fresh.
Fresh(k) == cacheEnabled /\ k \in DOMAIN cache /\ ~Expired(cache[k])

Without(dropped) == [k \in DOMAIN cache \ dropped |-> cache[k]]

evictExpiredCache == Without({k \in DOMAIN cache : cacheEnabled /\ Expired(cache[k])})

\* Mutant: an entry is dropped only once the cache is over its limit.
MutantVictims ==
  IF Cardinality(DOMAIN cache) > CacheMaxEntries
  THEN {{k} : k \in DOMAIN cache}
  ELSE {{}}

\* The sets of keys that make room for a new entry: one entry that expires no
\* later than any other (map order breaks ties) when the cache is full.
Victims ==
  IF Cardinality(DOMAIN cache) >= CacheMaxEntries /\ DOMAIN cache # {}
  THEN {{k} : k \in {k \in DOMAIN cache :
                       \A j \in DOMAIN cache : cache[j].age <= cache[k].age}}
  ELSE {{}}

storeCacheEntry(k, result) ==
  IF cacheEnabled
  THEN \E dropped \in Victims :
         cache' = [j \in (DOMAIN cache \ dropped) \cup {k} |->
                     IF j = k THEN [age |-> 0, result |-> result] ELSE cache[j]]
  ELSE UNCHANGED cache

\* loadStaleCacheEntry finds an entry that is not older than StaleIfErrorTTL.
StaleUsable(k) ==
  /\ cacheEnabled
  /\ StaleIfErrorTTL > 0
  /\ k \in DOMAIN cache
  /\ cache[k].age <= StaleIfErrorTTL

isRecoverableCode(code) ==
  code \in {"RUN_DELAYED", "DISPATCH_FAILED", "WORKER_ERROR", "RESULT_PACKAGE_NOT_FOUND"}

\* recoverStaleForMissing; recoverStaleForError also asks isRecoverableCode.
Recovers(unit) ==
  FailOpen /\ cacheable(unit.primary) /\ StaleUsable(CacheKey[unit.primary])

\* What a unit gets instead of a result: the stale response or the error.
Substitute(unit, recovers, code) ==
  IF recovers
  THEN cloneResultForRequest(cache[CacheKey[unit.primary]].result, unit.primary)
  ELSE errorResult(unit.primary, code)

FailOpenServed(s, recovers) ==
  IF recovers THEN [s EXCEPT !.failOpenServed = @ + 1] ELSE s
----------------------------------------------------------------------------
(* Backpressure and batch size. *)

BackpressureActive == backpressure > 0

\* backpressureState clears a deadline that has passed.
backpressureState ==
  backpressure' = IF BackpressureActive THEN backpressure ELSE NoBackpressure

batchSizeForPending(s) ==
  EnvelopeBytes + SumFunction([i \in DOMAIN s |-> Size[s[i]]])

\* The sizing uses a placeholder batch id one byte shorter than those newID makes.
PlaceholderDeficit == 1

batchSizeBytes ==
  batchSizeForPending([i \in DOMAIN units |-> units[i].primary]) + PlaceholderDeficit

ValidateRequestBatch ==
  units # <<>> /\ \A i, j \in DOMAIN units : units[i].primary = units[j].primary => i = j

\* The ids of a package are exactly those of the batch.
VerifyResultPackageForBatch(ids) == ids = Primaries
----------------------------------------------------------------------------
(* Result channels.  A send to a full channel would block Run for ever:    *)
(* the guard keeps that outcome in the model.                              *)

CanSend(S) == \A r \in S : resultCh[r] = <<>>

\* answers maps requests to the results sent to them.
Send(answers) ==
  /\ CanSend(DOMAIN answers)
  /\ resultCh' = [r \in Requests |->
                    IF r \in DOMAIN answers THEN <<answers[r]>> ELSE resultCh[r]]

\* The same error for each request in S.
SendError(S, code) == Send([r \in S |-> errorResult(r, code)])

\* A unit's result, copied for each of its members.
SendToUnit(unit, result) ==
  Send([r \in Members(unit) |-> cloneResultForRequest(result, r)])
----------------------------------------------------------------------------
(* Submit. *)

Return(r, result) ==
  /\ caller' = [caller EXCEPT ![r] = "returned"]
  /\ reply' = [reply EXCEPT ![r] = <<result>>]

RejectLocally(r, code) ==
  /\ Return(r, errorResult(r, code))
  /\ stats' = LocallyRejected(stats)

\* classifyRequest turns the request down.
SubmitClassified(r) ==
  /\ caller[r] = "idle"
  /\ r \in Rejected
  /\ RejectLocally(r, "CLASSIFIED")
  /\ UNCHANGED <<resultCh, queue, pc, pending, batchVars, cache, backpressure,
                 timeVars, runtime, executed>>

SubmitBackpressured(r) ==
  /\ caller[r] = "idle"
  /\ r \notin Rejected
  /\ BackpressureActive
  /\ RejectLocally(r, "RUN_DELAYED")
  /\ UNCHANGED <<resultCh, queue, pc, pending, batchVars, cache, backpressure,
                 timeVars, runtime, executed>>

\* Both checks pass; the request is not in the queue yet.
SubmitChecked(r) ==
  /\ caller[r] = "idle"
  /\ r \notin Rejected
  /\ ~BackpressureActive
  /\ backpressureState
  /\ caller' = [caller EXCEPT ![r] = "checked"]
  /\ UNCHANGED <<reply, resultCh, queue, pc, pending, batchVars, cache,
                 timeVars, stats, runtime, executed>>

\* Mutant: the queue takes one request too many.
MutantEnqueue(r) ==
  /\ caller[r] = "checked"
  /\ Len(queue) <= MaxQueueRequests
  /\ queue' = Append(queue, r)
  /\ caller' = [caller EXCEPT ![r] = "enqueued"]
  /\ UNCHANGED <<reply, resultCh, pc, pending, batchVars, cache, backpressure,
                 timeVars, stats, runtime, executed>>

Enqueue(r) ==
  /\ caller[r] = "checked"
  /\ Len(queue) < MaxQueueRequests
  /\ queue' = Append(queue, r)
  /\ caller' = [caller EXCEPT ![r] = "enqueued"]
  /\ UNCHANGED <<reply, resultCh, pc, pending, batchVars, cache, backpressure,
                 timeVars, stats, runtime, executed>>

QueueOverflow(r) ==
  /\ caller[r] = "checked"
  /\ Len(queue) >= MaxQueueRequests
  /\ RejectLocally(r, "QUEUE_OVERFLOW")
  /\ UNCHANGED <<resultCh, queue, pc, pending, batchVars, cache, backpressure,
                 timeVars, runtime, executed>>

\* recordSubmitted runs after the send, when Run may already hold the request.
RecordSubmitted(r) ==
  /\ caller[r] = "enqueued"
  /\ caller' = [caller EXCEPT ![r] = "waiting"]
  /\ stats' = [stats EXCEPT !.submitted = @ + 1]
  /\ UNCHANGED <<reply, resultCh, queue, pc, pending, batchVars, cache,
                 backpressure, timeVars, runtime, executed>>

ReceiveResult(r) ==
  /\ caller[r] = "waiting"
  /\ resultCh[r] # <<>>
  /\ Return(r, Head(resultCh[r]))
  /\ resultCh' = [resultCh EXCEPT ![r] = <<>>]
  /\ UNCHANGED <<queue, pc, pending, batchVars, cache, backpressure, timeVars,
                 stats, runtime, executed>>

\* The caller's context ends; the request stays wherever it is.
CallerGivesUp(r) ==
  /\ caller[r] = "waiting"
  /\ caller' = [caller EXCEPT ![r] = "cancelled"]
  /\ UNCHANGED <<reply, resultCh, queue, pc, pending, batchVars, cache,
                 backpressure, timeVars, stats, runtime, executed>>

Submit(r) ==
  \/ SubmitClassified(r)
  \/ SubmitBackpressured(r)
  \/ SubmitChecked(r)
  \/ Enqueue(r)
  \/ QueueOverflow(r)
  \/ RecordSubmitted(r)
  \/ ReceiveResult(r)
  \/ CallerGivesUp(r)
----------------------------------------------------------------------------
(* Run: the select loop. *)

\* Mutant: the buffered callers are not answered.
MutantRunStops ==
  /\ pc = "select"
  /\ stopping
  /\ setPendingInBatchBuffer(0)
  /\ pending' = <<>>
  /\ pc' = "stopped"
  /\ UNCHANGED <<callerVars, resultCh, queue, batchVars, cache, backpressure, timeVars,
                 stats, executed>>

\* case <-ctx.Done()
RunStops ==
  /\ pc = "select"
  /\ stopping
  /\ SendError(Range(pending), "WORKER_ERROR")
  /\ stats' = Recorded(stats, FALSE, Len(pending))
  /\ setPendingInBatchBuffer(0)
  /\ pending' = <<>>
  /\ pc' = "stopped"
  /\ UNCHANGED <<callerVars, queue, batchVars, cache, backpressure, timeVars, executed>>

\* case item := <-a.queue
RunReceives ==
  /\ pc = "select"
  /\ queue # <<>>
  /\ pending' = Append(pending, Head(queue))
  /\ queue' = Tail(queue)
  /\ setPendingInBatchBuffer(Len(pending) + 1)
  /\ UNCHANGED <<callerVars, resultCh, pc, batchVars, cache, backpressure,
                 timeVars, stats, executed>>

TakeTick ==
  /\ pc = "select"
  /\ tickReady
  /\ tickReady' = FALSE
  /\ cache' = evictExpiredCache
  /\ UNCHANGED <<callerVars, queue, batchVars, ticker, stopping, executed>>

\* case <-ticker.C with nothing buffered
TickIdle ==
  /\ TakeTick
  /\ pending = <<>>
  /\ UNCHANGED <<resultCh, pc, pending, backpressure, stats, runtime>>

\* Mutant: the rejected requests stay in the buffer.
MutantTickBackpressured ==
  /\ TakeTick
  /\ pending # <<>>
  /\ BackpressureActive
  /\ SendError(Range(pending), "RUN_DELAYED")
  /\ stats' = Recorded(stats, FALSE, Len(pending))
  /\ setPendingInBatchBuffer(0)
  /\ UNCHANGED <<pc, pending, backpressure>>

\* rejectPendingForBackpressure
TickBackpressured ==
  /\ TakeTick
  /\ pending # <<>>
  /\ BackpressureActive
  /\ SendError(Range(pending), "RUN_DELAYED")
  /\ stats' = Recorded(stats, FALSE, Len(pending))
  /\ setPendingInBatchBuffer(0)
  /\ pending' = <<>>
  /\ UNCHANGED <<pc, backpressure>>

\* Mutant: the cooldown is not looked at.
MutantTickPicks ==
  /\ TakeTick
  /\ pending # <<>>
  /\ backpressureState
  /\ pc' = "pick"
  /\ UNCHANGED <<resultCh, pending, stats, runtime>>

\* The tick goes on to pickBatchChunk.
TickPicks ==
  /\ TakeTick
  /\ pending # <<>>
  /\ ~BackpressureActive
  /\ backpressureState
  /\ pc' = "pick"
  /\ UNCHANGED <<resultCh, pending, stats, runtime>>
----------------------------------------------------------------------------
(* Run: pickBatchChunk, one action per item of pending. *)

Fits(r) == batchSizeForPending(Append(chunk, r)) <= MaxBatchBytes

\* Mutant: the item goes into the chunk and stays behind as well.
MutantPickInto ==
  /\ pc = "pick"
  /\ pending # <<>>
  /\ Len(chunk) < MaxBatchRequests
  /\ Fits(Head(pending))
  /\ chunk' = Append(chunk, Head(pending))
  /\ remaining' = Append(remaining, Head(pending))
  /\ pending' = Tail(pending)
  /\ UNCHANGED <<callerVars, resultCh, queue, pc, units, package, failCode,
                 cache, backpressure, timeVars, stats, runtime, executed>>

PickInto ==
  /\ pc = "pick"
  /\ pending # <<>>
  /\ Len(chunk) < MaxBatchRequests
  /\ Fits(Head(pending))
  /\ chunk' = Append(chunk, Head(pending))
  /\ pending' = Tail(pending)
  /\ UNCHANGED <<callerVars, resultCh, queue, pc, remaining, units, package, failCode,
                 cache, backpressure, timeVars, stats, runtime, executed>>

\* Mutant: what does not fit is dropped.
MutantPickLater ==
  /\ pc = "pick"
  /\ pending # <<>>
  /\ \/ Len(chunk) >= MaxBatchRequests
     \/ ~Fits(Head(pending)) /\ chunk # <<>>
  /\ pending' = Tail(pending)
  /\ UNCHANGED <<callerVars, resultCh, queue, pc, batchVars, cache, backpressure,
                 timeVars, stats, runtime, executed>>

\* The chunk is full, or the item does not fit beside those already in it.
PickLater ==
  /\ pc = "pick"
  /\ pending # <<>>
  /\ \/ Len(chunk) >= MaxBatchRequests
     \/ ~Fits(Head(pending)) /\ chunk # <<>>
  /\ remaining' = Append(remaining, Head(pending))
  /\ pending' = Tail(pending)
  /\ UNCHANGED <<callerVars, resultCh, queue, pc, chunk, units, package, failCode,
                 cache, backpressure, timeVars, stats, runtime, executed>>

\* Mutant: the rejection is not counted.
MutantPickTooLarge ==
  /\ pc = "pick"
  /\ pending # <<>>
  /\ chunk = <<>>
  /\ ~Fits(Head(pending))
  /\ SendError({Head(pending)}, "BATCH_TOO_LARGE")
  /\ pending' = Tail(pending)
  /\ UNCHANGED <<callerVars, queue, pc, batchVars, cache, backpressure, timeVars,
                 stats, runtime, executed>>

\* The item exceeds the batch limit on its own.
PickTooLarge ==
  /\ pc = "pick"
  /\ pending # <<>>
  /\ chunk = <<>>
  /\ ~Fits(Head(pending))
  /\ SendError({Head(pending)}, "BATCH_TOO_LARGE")
  /\ stats' = Recorded(stats, FALSE, 1)
  /\ pending' = Tail(pending)
  /\ UNCHANGED <<callerVars, queue, pc, batchVars, cache, backpressure, timeVars,
                 runtime, executed>>

\* Mutant: the chunk is put back beside the leftovers.
MutantPickDone ==
  /\ pc = "pick"
  /\ pending = <<>>
  /\ pending' = remaining \o chunk
  /\ remaining' = <<>>
  /\ setPendingInBatchBuffer(Len(remaining))
  /\ pc' = IF chunk = <<>> THEN "select" ELSE "prepare"
  /\ UNCHANGED <<callerVars, resultCh, queue, chunk, units, package, failCode, cache,
                 backpressure, timeVars, stats, executed>>

PickDone ==
  /\ pc = "pick"
  /\ pending = <<>>
  /\ pending' = remaining
  /\ remaining' = <<>>
  /\ setPendingInBatchBuffer(Len(remaining))
  /\ pc' = IF chunk = <<>> THEN "select" ELSE "prepare"
  /\ UNCHANGED <<callerVars, resultCh, queue, chunk, units, package, failCode, cache,
                 backpressure, timeVars, stats, executed>>
----------------------------------------------------------------------------
(* Run: dispatchBatch, from prepareDispatchUnits (one action per item of   *)
(* the chunk; the clock is read once for all of them, so no time passes in *)
(* between) to the delivery of the results (one action per unit).          *)

\* Mutant: the expired entry stays.
MutantForgetExpired(k) == cache

\* loadCacheEntry forgets an expired entry it comes across.
ForgetExpired(k) == Without({j \in DOMAIN cache \cap {k} : cacheEnabled /\ Expired(cache[j])})

\* Mutant: a duplicate is never recognised.
MutantSameKey(i, r) == FALSE

\* The unit that waits for the same cache key (dedupeIndex).
SameKey(i, r) ==
  cacheable(r) /\ CacheKey[units[i].primary] = CacheKey[r]

PrepareHit ==
  /\ pc = "prepare"
  /\ chunk # <<>>
  /\ LET r == Head(chunk)
         k == CacheKey[r]
     IN  /\ cacheable(r)
         /\ Fresh(k)
         /\ Send([q \in {r} |-> cloneResultForRequest(cache[k].result, q)])
         /\ stats' = Recorded([stats EXCEPT !.cacheHits = @ + 1], cache[k].result.ok, 1)
  /\ chunk' = Tail(chunk)
  /\ UNCHANGED <<callerVars, queue, pc, pending, remaining, units, package, failCode,
                 cache, backpressure, timeVars, runtime, executed>>

\* No fresh entry: the request joins a unit or makes one.
Misses(r) == ~(cacheable(r) /\ Fresh(CacheKey[r]))

PrepareDuplicate ==
  /\ pc = "prepare"
  /\ chunk # <<>>
  /\ LET r == Head(chunk)
     IN  /\ Misses(r)
         /\ \E i \in DOMAIN units :
              /\ SameKey(i, r)
              /\ units' = [units EXCEPT ![i].duplicates = @ \cup {r}]
         /\ cache' = ForgetExpired(CacheKey[r])
  /\ stats' = [stats EXCEPT !.deduplicated = @ + 1]
  /\ chunk' = Tail(chunk)
  /\ UNCHANGED <<callerVars, resultCh, queue, pc, pending, remaining, package, failCode,
                 backpressure, timeVars, runtime, executed>>

\* Mutant: a new unit leaves an expired entry in the cache.
MutantPrepareUnit ==
  /\ pc = "prepare"
  /\ chunk # <<>>
  /\ LET r == Head(chunk)
     IN  /\ Misses(r)
         /\ \A i \in DOMAIN units : ~SameKey(i, r)
         /\ units' = Append(units, [primary |-> r, duplicates |-> {}])
  /\ chunk' = Tail(chunk)
  /\ UNCHANGED <<callerVars, resultCh, queue, pc, pending, remaining, package, failCode,
                 cache, backpressure, timeVars, stats, runtime, executed>>

PrepareUnit ==
  /\ pc = "prepare"
  /\ chunk # <<>>
  /\ LET r == Head(chunk)
     IN  /\ Misses(r)
         /\ \A i \in DOMAIN units : ~SameKey(i, r)
         /\ units' = Append(units, [primary |-> r, duplicates |-> {}])
         /\ cache' = ForgetExpired(CacheKey[r])
  /\ chunk' = Tail(chunk)
  /\ UNCHANGED <<callerVars, resultCh, queue, pc, pending, remaining, package, failCode,
                 backpressure, timeVars, stats, runtime, executed>>

\* Every request was a cache hit.
NothingToDispatch ==
  /\ pc = "prepare"
  /\ chunk = <<>>
  /\ units = <<>>
  /\ pc' = "select"
  /\ UNCHANGED <<callerVars, resultCh, queue, pending, batchVars, cache, backpressure,
                 timeVars, stats, runtime, executed>>

\* Mutant: the size of the batch is not checked again.
MutantRefusal == IF ~ValidateRequestBatch THEN "WORKER_ERROR" ELSE "none"

\* Why a batch is refused before it is sent, or "none" when it is sent.
Refusal ==
  IF ~ValidateRequestBatch THEN "WORKER_ERROR"
  ELSE IF batchSizeBytes <= MaxBatchBytes THEN "none"
  ELSE "BATCH_TOO_LARGE"

RefuseBatch ==
  /\ pc = "prepare"
  /\ chunk = <<>>
  /\ units # <<>>
  /\ Refusal # "none"
  /\ failCode' = Refusal
  /\ pc' = "fail"
  /\ UNCHANGED <<callerVars, resultCh, queue, pending, chunk, remaining, units, package,
                 cache, backpressure, timeVars, stats, runtime, executed>>

StartDispatch ==
  /\ pc = "prepare"
  /\ chunk = <<>>
  /\ units # <<>>
  /\ Refusal = "none"
  /\ recordBatchDispatched
  /\ executed' = executed \cup Primaries
  /\ pc' = "process"
  /\ UNCHANGED <<callerVars, resultCh, queue, pending, batchVars, cache, backpressure,
                 timeVars>>

activateBackpressure(code) ==
  backpressure' = IF code = "RUN_DELAYED" THEN BackpressureCooldown ELSE backpressure

\* ProcessBatch returns an error; code is what inferErrorCode reads in it.
DispatchFails(code) ==
  /\ pc = "process"
  /\ recordDispatchError(code)
  /\ activateBackpressure(code)
  /\ failCode' = IF code = "RUN_DELAYED" THEN code ELSE "DISPATCH_FAILED"
  /\ pc' = "fail"
  /\ UNCHANGED <<callerVars, resultCh, queue, pending, chunk, remaining, units, package,
                 cache, timeVars, stats, executed>>

\* ProcessBatch returns a package that is not the one of this batch.
PackageMismatch(ids) ==
  /\ pc = "process"
  /\ ~VerifyResultPackageForBatch(ids)
  /\ recordDispatchError("DISPATCH_FAILED")
  /\ failCode' = "RESULT_PACKAGE_NOT_FOUND"
  /\ pc' = "fail"
  /\ UNCHANGED <<callerVars, resultCh, queue, pending, chunk, remaining, units, package,
                 cache, backpressure, timeVars, stats, executed>>

\* ProcessBatch returns results, one per id.
PackageArrives(results) ==
  /\ pc = "process"
  /\ VerifyResultPackageForBatch(DOMAIN results)
  /\ recordDispatchSuccess
  /\ package' = results
  /\ pc' = "deliver"
  /\ UNCHANGED <<callerVars, resultCh, queue, pending, chunk, remaining, units, failCode,
                 cache, backpressure, timeVars, stats, executed>>

\* The primary's own result in the package, or what stands in for it.
PrimaryResult(unit) ==
  IF unit.primary \in DOMAIN package
  THEN [id |-> unit.primary, ok |-> package[unit.primary].ok,
        code |-> package[unit.primary].code, origin |-> unit.primary]
  ELSE Substitute(unit, Recovers(unit), "RESULT_PACKAGE_NOT_FOUND")

DeliverUnit ==
  /\ pc = "deliver"
  /\ units # <<>>
  /\ LET unit   == Head(units)
         result == PrimaryResult(unit)
         stale  == unit.primary \notin DOMAIN package /\ Recovers(unit)
     IN  /\ SendToUnit(unit, result)
         /\ stats' = Recorded(FailOpenServed(stats, stale), result.ok,
                              1 + Cardinality(unit.duplicates))
         /\ IF cacheable(unit.primary) /\ shouldCacheResult(result)
            THEN storeCacheEntry(CacheKey[unit.primary], result)
            ELSE UNCHANGED cache
  /\ units' = Tail(units)
  /\ UNCHANGED <<callerVars, queue, pc, pending, chunk, remaining, package, failCode,
                 backpressure, timeVars, runtime, executed>>

\* Mutant: duplicates are not counted.
MutantFailUnit ==
  /\ pc = "fail"
  /\ units # <<>>
  /\ LET unit   == Head(units)
         stale  == isRecoverableCode(failCode) /\ Recovers(unit)
         result == Substitute(unit, stale, failCode)
     IN  /\ SendToUnit(unit, result)
         /\ stats' = Recorded(FailOpenServed(stats, stale), result.ok, 1)
  /\ units' = Tail(units)
  /\ UNCHANGED <<callerVars, queue, pc, pending, chunk, remaining, package, failCode,
                 cache, backpressure, timeVars, runtime, executed>>

\* failUnits
FailUnit ==
  /\ pc = "fail"
  /\ units # <<>>
  /\ LET unit   == Head(units)
         stale  == isRecoverableCode(failCode) /\ Recovers(unit)
         result == Substitute(unit, stale, failCode)
     IN  /\ SendToUnit(unit, result)
         /\ stats' = Recorded(FailOpenServed(stats, stale), result.ok,
                              1 + Cardinality(unit.duplicates))
  /\ units' = Tail(units)
  /\ UNCHANGED <<callerVars, queue, pc, pending, chunk, remaining, package, failCode,
                 cache, backpressure, timeVars, runtime, executed>>

\* Mutant: the failure path does not return to the loop.
MutantBatchDone ==
  /\ pc = "deliver"
  /\ units = <<>>
  /\ package' = <<>>
  /\ failCode' = "none"
  /\ pc' = "select"
  /\ UNCHANGED <<callerVars, resultCh, queue, pending, chunk, remaining, units, cache,
                 backpressure, timeVars, stats, runtime, executed>>

\* dispatchBatch returns to the select loop.
BatchDone ==
  /\ pc \in {"deliver", "fail"}
  /\ units = <<>>
  /\ package' = <<>>
  /\ failCode' = "none"
  /\ pc' = "select"
  /\ UNCHANGED <<callerVars, resultCh, queue, pending, chunk, remaining, units, cache,
                 backpressure, timeVars, stats, runtime, executed>>

\* The dispatcher's answers (external to this module).
ProcessBatchReturns ==
  \/ \E code \in DispatchErrors : DispatchFails(code)
  \/ \E ids \in SUBSET Requests : PackageMismatch(ids)
  \/ \E results \in [Primaries -> Outcomes] : PackageArrives(results)

RunStep ==
  \/ RunStops \/ RunReceives \/ TickIdle \/ TickBackpressured \/ TickPicks
  \/ PickInto \/ PickLater \/ PickTooLarge \/ PickDone
  \/ PrepareHit \/ PrepareDuplicate \/ PrepareUnit
  \/ NothingToDispatch \/ RefuseBatch \/ StartDispatch
  \/ ProcessBatchReturns
  \/ DeliverUnit \/ FailUnit \/ BatchDone
----------------------------------------------------------------------------
(* The surroundings: time, and the cancellation of Run's context. *)

Older(entry) == [entry EXCEPT !.age = IF @ < MaxAge THEN @ + 1 ELSE MaxAge]

Elapse ==
  /\ pc # "prepare"
  /\ cache' = [k \in DOMAIN cache |-> Older(cache[k])]
  /\ backpressure' = IF BackpressureActive THEN backpressure - 1 ELSE backpressure
  /\ ticker' = IF ticker = 1 THEN BatchInterval ELSE ticker - 1
  /\ tickReady' = (tickReady \/ ticker = 1)
  /\ UNCHANGED <<callerVars, resultCh, queue, pc, pending, batchVars, stopping,
                 stats, runtime, executed>>

ContextDone ==
  /\ MayStop
  /\ ~stopping
  /\ stopping' = TRUE
  /\ UNCHANGED <<callerVars, resultCh, queue, pc, pending, batchVars, cache,
                 backpressure, ticker, tickReady, stats, runtime, executed>>
----------------------------------------------------------------------------
Init ==
  /\ caller = [r \in Requests |-> "idle"]
  /\ reply = [r \in Requests |-> <<>>]
  /\ resultCh = [r \in Requests |-> <<>>]
  /\ queue = <<>>
  /\ pc = "select"
  /\ pending = <<>>
  /\ chunk = <<>>
  /\ remaining = <<>>
  /\ units = <<>>
  /\ package = <<>>
  /\ failCode = "none"
  /\ cache = <<>>
  /\ backpressure = NoBackpressure
  /\ ticker = BatchInterval
  /\ tickReady = FALSE
  /\ stopping = FALSE
  /\ stats = [c \in Counters |-> 0]
  /\ buffered = 0
  /\ dispatchInFlight = FALSE
  /\ lastError = "none"
  /\ executed = {}

Next ==
  \/ \E r \in Requests : Submit(r)
  \/ RunStep
  \/ Elapse
  \/ ContextDone

\* Go schedules runnable goroutines, so Run and the callers that have called
\* keep moving; select picks among ready cases at random, so neither a tick nor
\* the cancellation is passed over for ever; every wait in ProcessBatch has a
\* deadline; time goes on.  Nobody is obliged to call Submit or to give up.
Fairness ==
  /\ WF_vars(RunStep)
  /\ SF_vars(TickIdle \/ TickBackpressured \/ TickPicks)
  /\ SF_vars(RunReceives)
  /\ SF_vars(RunStops)
  /\ \A r \in Requests :
       WF_vars(Enqueue(r) \/ QueueOverflow(r) \/ RecordSubmitted(r) \/ ReceiveResult(r))
  /\ WF_vars(Elapse)

Spec == Init /\ [][Next]_vars /\ Fairness
----------------------------------------------------------------------------
(* Properties. *)

\* Every variable keeps the shape its Go counterpart has.
TypeOK ==
  /\ caller \in [Requests -> {"idle", "checked", "enqueued", "waiting",
                              "returned", "cancelled"}]
  /\ reply \in [Requests -> Slot]
  /\ resultCh \in [Requests -> Slot]
  /\ queue \in Seq(Requests)
  /\ pending \in Seq(Requests)
  /\ chunk \in Seq(Requests)
  /\ remaining \in Seq(Requests)
  /\ Len(queue) <= MaxQueueRequests
  /\ pc \in {"select", "pick", "prepare", "process", "deliver", "fail", "stopped"}
  /\ units \in Seq(Unit)
  /\ DOMAIN package \subseteq Requests
  /\ \A r \in DOMAIN package : package[r] \in Outcomes
  /\ failCode \in IF pc = "fail" THEN Codes ELSE {"none"}
  /\ DOMAIN cache \subseteq Keys
  /\ \A k \in DOMAIN cache : cache[k] \in Entry
  /\ backpressure \in NoBackpressure .. BackpressureCooldown
  /\ ticker \in 1 .. BatchInterval
  /\ tickReady \in BOOLEAN
  /\ stopping \in BOOLEAN
  /\ stats \in [Counters -> Nat]
  /\ buffered \in Nat
  /\ dispatchInFlight \in BOOLEAN
  /\ lastError \in DispatchErrors \cup {"none"}
  /\ executed \subseteq Requests

UnitMembers == {r \in Requests : \E i \in DOMAIN units : r \in Members(units[i])}

UnitsDisjoint ==
  /\ \A i \in DOMAIN units : units[i].primary \notin units[i].duplicates
  /\ \A i, j \in DOMAIN units : i # j => Members(units[i]) \cap Members(units[j]) = {}

\* The requests that Run or its queue still has to answer.
Held == Range(queue) \cup Range(pending) \cup Range(chunk) \cup Range(remaining)
          \cup UnitMembers

Answered(r) == resultCh[r] # <<>> \/ caller[r] = "returned"

\* A request is in one place only: at one position of the queue, of Run's buffer,
\* of the chunk, of the leftovers, or in one role in one dispatch unit.  This is
\* what keeps Run from answering or dispatching it twice as it is moved from the
\* channel through pickBatchChunk and prepareDispatchUnits.
SingleHolder ==
  /\ IsInjective(queue) /\ IsInjective(pending)
  /\ IsInjective(chunk) /\ IsInjective(remaining)
  /\ Range(queue) \cap (Range(pending) \cup Range(chunk) \cup Range(remaining) \cup UnitMembers) = {}
  /\ Range(pending) \cap (Range(chunk) \cup Range(remaining) \cup UnitMembers) = {}
  /\ Range(chunk) \cap (Range(remaining) \cup UnitMembers) = {}
  /\ Range(remaining) \cap UnitMembers = {}
  /\ UnitsDisjoint

\* A request still to be answered has an empty result channel and a caller that
\* has been let into the queue, and a call not yet queued has been sent nothing: so
\* no send of Run's ever blocks (one blocked send would stop the relay for
\* everybody) and no caller is answered twice.
HeldUnanswered ==
  /\ \A r \in Held : resultCh[r] = <<>> /\ caller[r] \in {"enqueued", "waiting", "cancelled"}
  /\ \A r \in Requests : caller[r] \in {"idle", "checked"} => resultCh[r] = <<>>

\* A caller that waits is still held, or its answer is in its channel: no path
\* through chunking, deduplication, rejection, failure and shutdown drops a request.
NothingLost ==
  \A r \in Requests :
    caller[r] \in {"enqueued", "waiting"} => r \in Held \/ resultCh[r] # <<>>

\* r may be answered with what came back for q.
MayShare(q, r) == q = r \/ (cacheable(r) /\ CacheKey[q] = CacheKey[r])

\* Whatever a caller is given, now or through the cache later, is addressed to it
\* and was produced for it or for a request with its cache key; a success was
\* produced by a dispatched request.
NoCrossTalk ==
  /\ \A r \in Requests : \A x \in Range(resultCh[r]) \cup Range(reply[r]) :
       x.id = r /\ MayShare(x.origin, r) /\ (x.ok => x.origin \in executed)
  /\ \A k \in DOMAIN cache :
       LET x == cache[k].result
       IN  shouldCacheResult(x) /\ CacheKey[x.origin] = k /\ x.origin \in executed

\* No request is carried by two batches: relayed methods include POST, so a
\* second dispatch would repeat a side effect.
ExecutedOnce == [][StartDispatch => Primaries \cap executed = {}]_vars

\* The cache never outgrows its limit, whatever mix of stores, expiries and
\* evictions happens while a batch is delivered.
CacheBounded == Cardinality(DOMAIN cache) <= (IF cacheEnabled THEN CacheMaxEntries ELSE 0)

\* Two units of a batch never ask for the same cache key, so what one stores is
\* never overwritten by another of the same batch.
UnitsDistinct ==
  \A i, j \in DOMAIN units :
    i # j /\ cacheable(units[i].primary)
      => CacheKey[units[i].primary] # CacheKey[units[j].primary]

\* Between the tick and the end of ProcessBatch no cooldown runs: a delayed run
\* keeps every later batch back until the cooldown is over.
NoDispatchInCooldown == pc \in {"pick", "prepare", "process"} => ~BackpressureActive

\* The batch that is sent respects both caps although pickBatchChunk measured a
\* different batch (placeholder id, before cache hits and deduplication).
BatchWithinCaps ==
  pc = "process" => Len(units) <= MaxBatchRequests /\ batchSizeBytes <= MaxBatchBytes

\* The counters of Snapshot account for every call: each answered request is
\* counted once, as completed or failed; each dispatched one once; each call that
\* got past the queue once; cache hits and duplicates are never also dispatched.
Accounting ==
  /\ stats.completed + stats.failed = Cardinality({r \in Requests : Answered(r)})
  /\ stats.submitted + stats.localRejected
       = Cardinality({r \in Requests : caller[r] \in {"waiting", "returned", "cancelled"}})
  /\ stats.dispatchedRequests = Cardinality(executed)
  /\ stats.cacheHits + stats.deduplicated + stats.dispatchedRequests <= Cardinality(Requests)

\* No unit's key is in the cache while the unit waits for its result.
UnitsUncached ==
  \A i \in DOMAIN units :
    cacheEnabled /\ cacheable(units[i].primary) => CacheKey[units[i].primary] \notin DOMAIN cache

\* The stale fallback of fail_open never serves anything: when a unit exists, its
\* key has been found absent or forgotten as expired, and nothing stores that key
\* before the unit is answered.
FailOpenNeverServes == stats.failOpenServed = 0

\* What Run's local variables hold at each point of the loop.
LoopShape ==
  /\ pc \in {"select", "pick", "stopped"} => units = <<>>
  /\ pc \notin {"pick", "prepare"} => chunk = <<>>
  /\ pc # "pick" => remaining = <<>>
  /\ pc = "stopped" => pending = <<>>

\* What has been dispatched is no longer anywhere a batch could take it from.
NotYetExecuted ==
  /\ executed \cap (Range(queue) \cup Range(pending) \cup Range(chunk) \cup Range(remaining)) = {}
  /\ pc = "prepare" => executed \cap UnitMembers = {}
  /\ \A r \in executed : caller[r] \notin {"idle", "checked"}

\* The inductive invariant of the batch cycle.
BatchCycle ==
  /\ LoopShape
  /\ UnitsDistinct
  /\ UnitsUncached
  /\ FailOpenNeverServes
  /\ NotYetExecuted
  /\ NoDispatchInCooldown

\* A call that passed the checks returns, whatever the dispatcher does, unless Run
\* stops while the call is still in the queue.
CallsReturnOrStranded ==
  \A r \in Requests :
    caller[r] \in {"checked", "enqueued", "waiting"}
      ~> (caller[r] \in {"returned", "cancelled"} \/ (pc = "stopped" /\ r \in Range(queue)))

\* A cancelled Run stops, from wherever in the batch cycle it is.
ShutdownCompletes == stopping ~> (pc = "stopped")

\* "callers are released quickly and do not wait forever" (docs/architecture.md):
\* every call that passed the checks returns.
CallsReturn ==
  \A r \in Requests :
    caller[r] \in {"checked", "enqueued", "waiting"}
      ~> (caller[r] \in {"returned", "cancelled"})

\* "RESULT_PACKAGE_NOT_FOUND: Result package was unavailable" (docs/protocol.md):
\* that is what the callers are told when the dispatcher could not get the package.
UnavailablePackageReported ==
  [][DispatchFails("RESULT_PACKAGE_NOT_FOUND") => failCode' = "RESULT_PACKAGE_NOT_FOUND"]_vars
============================================================================
