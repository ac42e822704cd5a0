---------------------------- MODULE WorkerProofs ----------------------------
(***************************************************************************)
(* Worker: its type invariant, that the shared index hands out each        *)
(* request once and the package is complete, what redirects cannot undo,   *)
(* and that one deadline spans a request's fetches, for every batch, every *)
(* set of URLs and all limits.                                             *)
(***************************************************************************)
EXTENDS Worker, TLAPS

\* There is at least one fetcher.
LEMMA SomeFetcher == workerCount \in Nat /\ 1 \in Fetchers
<1>1. asInt(EnvConcurrency, BatchConcurrency, DefaultConcurrency) \in Nat
  BY BatchAssumption DEF asInt, DefaultConcurrency
<1>2. \A n \in Nat : clampConcurrency(n) \in 1 .. 8
  BY DEF clampConcurrency, MaxWorkerConcurrency
<1>3. workerCount \in Nat /\ workerCount >= 1
  BY <1>1, <1>2, BatchAssumption DEF workerCount
<1> QED
  BY <1>3 DEF Fetchers

\* The codes a request can be answered with, by the part of the code that does.
LEMMA CodesOf ==
  /\ \A u \in URLs : Rejections(u) \subseteq Codes
  /\ \A i \in Indexes : Normalized[i] \in Codes
  /\ {"ok", "cut", "URL_REJECTED", "TIMEOUT", "WORKER_ERROR"} \subseteq Codes
  /\ "none" \notin Codes
BY BatchAssumption DEF Codes, Rejections

\* A request that is answered.
LEMMA FinishType ==
  ASSUME TypeOK, NEW f \in Fetchers, NEW result \in Codes, Finish(f, result)
  PROVE  TypeOK'
BY DEF TypeOK, Finish, request

\* A fetcher that goes on, within its request or to its end.
LEMMA MoveType ==
  ASSUME TypeOK, NEW f \in Fetchers, NEW to \in {"idle", "done"} \cup Active,
         at' = [at EXCEPT ![f] = to],
         UNCHANGED <<phase, ids, nextIndex, results, request, left, jobLeft>>
  PROVE  TypeOK'
BY DEF TypeOK, request

\* What a fetcher can do once it has a request: answer it, move on or be redirected.
Ends(f)  == \E result \in Codes : Finish(f, result)
Moves(f) ==
  \E to \in {"guard", "fetch", "body"} :
    /\ at' = [at EXCEPT ![f] = to]
    /\ to = "fetch" => left[f] > 0
    /\ UNCHANGED <<phase, ids, nextIndex, results, request, left, jobLeft>>
IsRedirected(f) == \E u \in URLs, status \in {"303", "moved", "kept"} : Redirected(f, u, status)

\* The steps of a fetcher.
LEMMA StepsOfFetcher ==
  ASSUME TypeOK, NEW f \in Fetchers, FetcherStep(f)
  PROVE  /\ phase = "fetching" /\ UNCHANGED <<phase, ids>>
         /\ Take(f) \/ FetcherDone(f) \/ (at[f] \in Active /\ (Ends(f) \/ Moves(f) \/ IsRedirected(f)))
<1>1. url[f] \in URLs
  BY DEF TypeOK
<1>2. CASE Take(f) \/ FetcherDone(f)
  BY <1>2 DEF Take, FetcherDone
<1>3. CASE GuardRejects(f) /\ phase = "fetching"
  BY <1>1, <1>3, CodesOf DEF GuardRejects, Ends, Finish, Active
<1>4. CASE (DeadlinePassed(f) \/ FetchAborted(f) \/ FetchFails(f) \/ RedirectRefused(f)) /\ phase = "fetching"
  BY <1>4, CodesOf DEF DeadlinePassed, FetchAborted, FetchFails, RedirectRefused, Ends, Finish, Active
<1>5. CASE phase = "fetching" /\ \E result \in {"ok", "cut", "WORKER_ERROR"} : BodyEnds(f, result)
  BY <1>5, CodesOf DEF BodyEnds, Ends, Finish, Active
<1>6. CASE (GuardPasses(f) \/ NextPasses(f) \/ FetchResponds(f)) /\ phase = "fetching"
  BY <1>6 DEF GuardPasses, NextPasses, FetchResponds, Moves, Active
<1>7. CASE IsRedirected(f) /\ phase = "fetching"
  BY <1>7 DEF IsRedirected, Redirected, Active
<1> QED
  BY <1>2, <1>3, <1>4, <1>5, <1>6, <1>7 DEF FetcherStep, IsRedirected
----------------------------------------------------------------------------
(* Types. *)

\* A request that is taken has the types of its batch.
LEMMA TakeType ==
  ASSUME TypeOK, NEW f \in Fetchers, Take(f)
  PROVE  TypeOK'
<1>1. nextIndex \in Indexes /\ nextIndex' \in 1 .. Total + 1
  BY BatchAssumption DEF TypeOK, Take, Indexes
<1>2. /\ Target[nextIndex] \in URLs /\ Method[nextIndex] \in Methods
      /\ Normalized[nextIndex] \in Codes /\ RequestTimeout \in -1 .. RequestTimeout
      /\ 0 \in 0 .. MaxRedirects
  BY <1>1, BatchAssumption, CodesOf
<1>3. CASE Normalized[nextIndex] = "ok"
  <2>1. at' \in [Fetchers -> {"idle", "done"} \cup Active]
    BY <1>3 DEF Take, TypeOK, Active
  <2>2. index' \in [Fetchers -> Indexes] /\ url' \in [Fetchers -> URLs] /\ method' \in [Fetchers -> Methods]
    BY <1>1, <1>2, <1>3 DEF Take, TypeOK
  <2>3. body' \in [Fetchers -> BOOLEAN] /\ secret' \in [Fetchers -> BOOLEAN]
    BY <1>3 DEF Take, TypeOK
  <2>4. redirects' \in [Fetchers -> 0 .. MaxRedirects] /\ left' \in [Fetchers -> -1 .. RequestTimeout]
        /\ taken' \in [Fetchers -> 0 .. JobTimeout]
    BY <1>2, <1>3 DEF Take, TypeOK
  <2>5. UNCHANGED <<phase, ids, results, jobLeft>>
    BY <1>3 DEF Take
  <2> QED
    BY <1>1, <2>1, <2>2, <2>3, <2>4, <2>5 DEF TypeOK
<1>4. CASE Normalized[nextIndex] # "ok"
  BY <1>1, <1>2, <1>4 DEF Take, TypeOK, request
<1> QED
  BY <1>3, <1>4

\* So has one that is redirected.
LEMMA RedirectType ==
  ASSUME TypeOK, NEW f \in Fetchers, IsRedirected(f)
  PROVE  TypeOK'
<1>1. PICK u \in URLs, status \in {"303", "moved", "kept"} : Redirected(f, u, status)
  BY DEF IsRedirected
<1>2. redirects[f] + 1 \in 0 .. MaxRedirects
  BY <1>1, BatchAssumption DEF Redirected, TypeOK
<1>3. redirects' \in [Fetchers -> 0 .. MaxRedirects]
  BY <1>1, <1>2 DEF Redirected, TypeOK
<1>4. method' \in [Fetchers -> Methods]
  BY <1>1 DEF Redirected, TypeOK, Methods
<1>5. body' \in [Fetchers -> BOOLEAN] /\ secret' \in [Fetchers -> BOOLEAN]
  <2>1. (body[f] /\ ~BecomesGet(f, status)) \in BOOLEAN
    BY Zenon
  <2>2. KeepsSecrets(f, u) \in BOOLEAN
    BY Zenon DEF KeepsSecrets
  <2> QED
    BY <1>1, <2>1, <2>2 DEF Redirected, TypeOK
<1>6. at' \in [Fetchers -> {"idle", "done"} \cup Active] /\ url' \in [Fetchers -> URLs]
  BY <1>1 DEF Redirected, TypeOK, Active
<1>7. UNCHANGED <<phase, ids, nextIndex, results, index, taken, left, jobLeft>>
  BY <1>1 DEF Redirected
<1> QED
  BY <1>3, <1>4, <1>5, <1>6, <1>7 DEF TypeOK

\* Every step keeps the types.
LEMMA NextType == TypeOK /\ [Next]_vars => TypeOK'
<1> SUFFICES ASSUME TypeOK, [Next]_vars PROVE TypeOK'
  OBVIOUS
<1>1. CASE BatchRejected \/ BatchAccepted \/ PackageGenerated \/ JobKilled \/ UNCHANGED vars
  BY <1>1 DEF BatchRejected, BatchAccepted, PackageGenerated, JobKilled, vars, request, TypeOK
<1>2. CASE Tick
  <2>1. jobLeft' \in 0 .. JobTimeout
    BY <1>2, BatchAssumption DEF Tick, TypeOK
  <2>2. \A f \in Fetchers : Later(f) \in -1 .. RequestTimeout
    BY BatchAssumption DEF TypeOK, Later
  <2> QED
    BY <1>2, <2>1, <2>2 DEF Tick, TypeOK, request
<1>3. ASSUME NEW f \in Fetchers, FetcherStep(f) PROVE TypeOK'
  <2>1. CASE Take(f)
    BY <2>1, TakeType
  <2>2. CASE FetcherDone(f)
    BY <2>2, MoveType DEF FetcherDone
  <2>3. CASE Ends(f)
    BY <2>3, FinishType DEF Ends
  <2>4. CASE Moves(f)
    BY <2>4, MoveType DEF Moves, Active
  <2>5. CASE IsRedirected(f)
    BY <2>5, RedirectType
  <2> QED
    BY <1>3, <2>1, <2>2, <2>3, <2>4, <2>5, StepsOfFetcher
<1> QED
  BY <1>1, <1>2, <1>3 DEF Next

\* The worker's state keeps its types: indexes stay in the batch, redirects within
\* their limit and deadlines in their range.
THEOREM TypeCorrect == Spec => []TypeOK
<1>1. Init => TypeOK
  <2>1. 1 \in Indexes /\ 0 \in 0 .. MaxRedirects /\ 0 \in -1 .. RequestTimeout
        /\ JobTimeout \in 0 .. JobTimeout /\ Target[1] \in URLs /\ 1 \in 1 .. Total + 1
    BY BatchAssumption DEF Indexes
  <2> QED
    BY <2>1 DEF Init, TypeOK, Methods
<1>2. TypeOK /\ [Next]_vars => TypeOK'
  BY NextType
<1> QED
  BY <1>1, <1>2, PTL DEF Spec
----------------------------------------------------------------------------
(* Each request once. *)

\* What `in flight' means, without the set.
LEMMA InFlightIs ==
  \A i : i \in InFlight <=> \E f \in Fetchers : at[f] \in Active /\ index[f] = i
BY DEF InFlight

\* A fetcher takes the next request.
LEMMA TakeOnce ==
  ASSUME TypeOK, EachRequestOnce, NEW f \in Fetchers, Take(f)
  PROVE  EachRequestOnce'
<1> DEFINE n == nextIndex
<1>1. n \in Indexes /\ nextIndex' = n + 1 /\ at[f] = "idle"
  BY BatchAssumption DEF TypeOK, Take, Indexes
<1>2. \A g \in Fetchers : at[g] \in Active => index[g] < n
  BY InFlightIs DEF EachRequestOnce
<1>3. results[n] = "none" /\ n \notin InFlight
  BY <1>1, <1>2, InFlightIs DEF EachRequestOnce, Indexes, TypeOK
<1>4. \A g \in Fetchers : at[g] # "done"
  BY <1>1, BatchAssumption DEF EachRequestOnce, Indexes
<1>5. CASE Normalized[n] = "ok"
  <2>1. /\ at' = [at EXCEPT ![f] = "guard"] /\ index' = [index EXCEPT ![f] = n]
        /\ results' = results
    BY <1>5 DEF Take
  <2>2. \A g \in Fetchers : /\ at'[g] \in Active <=> (g = f \/ at[g] \in Active)
                            /\ index'[g] = IF g = f THEN n ELSE index[g]
                            /\ at'[g] # "done"
    BY <1>1, <1>4, <2>1 DEF TypeOK, Active
  <2>3. \A i : i \in InFlight' <=> (i = n \/ i \in InFlight)
    <3>1. \A i : i \in InFlight' <=> \E g \in Fetchers : at'[g] \in Active /\ index'[g] = i
      BY DEF InFlight
    <3> QED
      BY <1>1, <2>2, <3>1, InFlightIs DEF Active
  <2>4. \A g, h \in Fetchers :
          g # h /\ at'[g] \in Active /\ at'[h] \in Active => index'[g] # index'[h]
    <3>1. \A g \in Fetchers : index[g] \in Nat
      BY BatchAssumption DEF TypeOK, Indexes
    <3>2. n \in Nat
      BY <1>1, BatchAssumption DEF Indexes
    <3>3. \A g \in Fetchers : at[g] \in Active => index[g] # n
      BY <1>2, <3>1, <3>2
    <3> QED
      BY <2>2, <3>3 DEF EachRequestOnce
  <2>5. \A i \in Indexes : results'[i] # "none" <=> (i < n + 1 /\ i \notin InFlight')
    BY <1>1, <1>3, <2>1, <2>3 DEF EachRequestOnce, Indexes
  <2>6. \A i \in InFlight' : i < n + 1
    <3>1. \A i \in InFlight : i \in Nat /\ i < n
      BY InFlightIs, BatchAssumption DEF TypeOK, Indexes, EachRequestOnce
    <3>2. n \in Nat
      BY <1>1, BatchAssumption DEF Indexes
    <3> QED
      BY <2>3, <3>1, <3>2
  <2> QED
    BY <1>1, <2>2, <2>4, <2>5, <2>6 DEF EachRequestOnce
<1>6. CASE Normalized[n] # "ok"
  <2>1. UNCHANGED <<at, index>> /\ results' = [results EXCEPT ![n] = Normalized[n]]
    BY <1>6 DEF Take, request
  <2>2. InFlight' = InFlight
    BY <2>1 DEF InFlight
  <2>3. Normalized[n] # "none"
    BY <1>1, CodesOf
  <2>4. \A i \in Indexes : results'[i] # "none" <=> (i < n + 1 /\ i \notin InFlight)
    BY <1>1, <1>3, <2>1, <2>3 DEF EachRequestOnce, Indexes, TypeOK
  <2>5. \A i \in InFlight : i < n + 1
    <3>1. InFlight \subseteq Indexes
      BY InFlightIs DEF TypeOK
    <3> QED
      BY <1>1, <3>1 DEF EachRequestOnce, Indexes
  <2> QED
    BY <1>1, <1>4, <2>1, <2>2, <2>4, <2>5 DEF EachRequestOnce
<1> QED
  BY <1>5, <1>6

\* A fetcher answers its request.
LEMMA FinishOnce ==
  ASSUME TypeOK, EachRequestOnce, NEW f \in Fetchers, at[f] \in Active, Ends(f)
  PROVE  EachRequestOnce'
<1>1. PICK result \in Codes : Finish(f, result)
  BY DEF Ends
<1> DEFINE n == index[f]
<1>2. /\ results' = [results EXCEPT ![n] = result] /\ at' = [at EXCEPT ![f] = "idle"]
      /\ UNCHANGED <<nextIndex, index>> /\ n \in Indexes /\ result # "none"
  BY <1>1, CodesOf DEF Finish, request, TypeOK
<1>3. \A g \in Fetchers : /\ at'[g] \in Active <=> (g # f /\ at[g] \in Active)
                          /\ at'[g] = "done" => at[g] = "done"
  BY <1>2 DEF TypeOK, Active
<1>4. \A i : i \in InFlight' <=> (i # n /\ i \in InFlight)
  <2>1. \A i : i \in InFlight' <=> \E g \in Fetchers : at'[g] \in Active /\ index[g] = i
    BY <1>2 DEF InFlight
  <2> QED
    BY <1>3, <2>1, InFlightIs DEF EachRequestOnce
<1>5. n < nextIndex
  BY InFlightIs DEF EachRequestOnce
<1>6. \A i \in Indexes : results'[i] # "none" <=> (i < nextIndex /\ i \notin InFlight')
  BY <1>2, <1>4, <1>5 DEF EachRequestOnce, TypeOK
<1> QED
  BY <1>2, <1>3, <1>4, <1>6 DEF EachRequestOnce

\* A fetcher goes on with its request, or stops.
LEMMA MoveOnce ==
  ASSUME TypeOK, EachRequestOnce, NEW f \in Fetchers, NEW to,
         at' = [at EXCEPT ![f] = to], UNCHANGED <<nextIndex, results, index>>,
         to \in Active <=> at[f] \in Active, to = "done" => nextIndex = Total + 1
  PROVE  EachRequestOnce'
<1>1. \A g \in Fetchers : /\ at'[g] \in Active <=> at[g] \in Active
                          /\ at'[g] = "done" => nextIndex = Total + 1
  BY DEF TypeOK, EachRequestOnce
<1>2. InFlight' = InFlight
  BY <1>1 DEF InFlight
<1> QED
  BY <1>1, <1>2 DEF EachRequestOnce

\* Every step keeps the requests apart.
LEMMA NextOnce == TypeOK /\ EachRequestOnce /\ [Next]_vars => EachRequestOnce'
<1> SUFFICES ASSUME TypeOK, EachRequestOnce, [Next]_vars PROVE EachRequestOnce'
  OBVIOUS
<1>1. CASE BatchRejected \/ BatchAccepted \/ PackageGenerated \/ JobKilled \/ Tick \/ UNCHANGED vars
  BY <1>1 DEF BatchRejected, BatchAccepted, PackageGenerated, JobKilled, Tick, vars, request,
     EachRequestOnce, InFlight
<1>2. ASSUME NEW f \in Fetchers, FetcherStep(f) PROVE EachRequestOnce'
  <2>1. CASE Take(f)
    BY <2>1, TakeOnce
  <2>2. CASE FetcherDone(f)
    <3>1. nextIndex = Total + 1
      BY <2>2, BatchAssumption DEF FetcherDone, TypeOK
    <3> QED
      BY <2>2, <3>1, MoveOnce DEF FetcherDone, request, Active
  <2>3. CASE at[f] \in Active /\ Ends(f)
    BY <2>3, FinishOnce
  <2>4. CASE at[f] \in Active /\ Moves(f)
    BY <2>4, MoveOnce DEF Moves, request, Active
  <2>5. CASE at[f] \in Active /\ IsRedirected(f)
    BY <2>5, MoveOnce DEF IsRedirected, Redirected, Active
  <2> QED
    BY <1>2, <2>1, <2>2, <2>3, <2>4, <2>5, StepsOfFetcher
<1> QED
  BY <1>1, <1>2 DEF Next

\* The shared index hands out every request once, for any batch and any number of
\* fetchers: none is fetched twice, skipped or left without its result.
THEOREM IndexSharedSafely == Spec => []EachRequestOnce
<1>1. Init => EachRequestOnce
  BY BatchAssumption DEF Init, EachRequestOnce, InFlight, Active, Indexes
<1>2. TypeOK /\ EachRequestOnce /\ [Next]_vars => EachRequestOnce'
  BY NextOnce
<1> QED
  BY <1>1, <1>2, TypeCorrect, PTL DEF Spec
----------------------------------------------------------------------------
(* The package. *)

\* PackageComplete and why: what is being fetched has passed validateBatch.
Validated == PackageComplete /\ (phase = "fetching" => IsInjective(ids))

\* When all fetchers are done every request has its result.
LEMMA DoneMeansAll ==
  ASSUME TypeOK, EachRequestOnce, AllFetched
  PROVE  \A i \in Indexes : results[i] # "none"
<1>1. nextIndex = Total + 1
  BY SomeFetcher DEF AllFetched, EachRequestOnce
<1>2. \A i : i \notin InFlight
  BY InFlightIs DEF AllFetched, Active
<1> QED
  BY <1>1, <1>2, BatchAssumption DEF EachRequestOnce, Indexes

\* Every step keeps that.
LEMMA NextValidated == TypeOK /\ EachRequestOnce /\ Validated /\ [Next]_vars => Validated'
<1> SUFFICES ASSUME TypeOK, EachRequestOnce, Validated, [Next]_vars PROVE Validated'
  OBVIOUS
<1> USE DEF Validated, PackageComplete
<1>1. CASE BatchRejected \/ BatchAccepted \/ JobKilled \/ Tick \/ UNCHANGED vars
  BY <1>1 DEF BatchRejected, BatchAccepted, validateBatch, JobKilled, Tick, vars
<1>2. CASE PackageGenerated
  <2>1. \A i \in Indexes : results[i] # "none"
    BY <1>2, DoneMeansAll DEF PackageGenerated
  <2>2. phase = "fetching" /\ IsInjective(ids) /\ DOMAIN ids = Indexes
    BY <1>2, BatchAssumption DEF PackageGenerated, AllFetched, TypeOK
  <2>3. validateGeneratedResultPackage
    BY <2>1, <2>2 DEF validateGeneratedResultPackage, IsInjective
  <2> QED
    BY <1>2, <2>1, <2>3 DEF PackageGenerated
<1>3. ASSUME NEW f \in Fetchers, FetcherStep(f) PROVE Validated'
  BY <1>3, StepsOfFetcher
<1> QED
  BY <1>1, <1>2, <1>3 DEF Next

\* A package that is written answers every request, and the final validation of ids
\* never fails a batch that the first one let pass.
THEOREM PackagesComplete == Spec => []PackageComplete
<1>1. Init => Validated
  BY DEF Init, Validated, PackageComplete
<1>2. TypeOK /\ EachRequestOnce /\ Validated /\ [Next]_vars => Validated'
  BY NextValidated
<1>3. Validated => PackageComplete
  BY DEF Validated
<1> QED
  BY <1>1, <1>2, <1>3, TypeCorrect, IndexSharedSafely, PTL DEF Spec
----------------------------------------------------------------------------
(* Redirects. *)

\* What is true of every request in flight, whatever chain of redirects it followed.
Guarded == SecretsStayHome /\ BodyKeepsMethod

\* The parts of Guarded that concern one fetcher.
GuardedAt(f) ==
  /\ at[f] \in Active /\ secret[f] => Origin[url[f]] = Origin[Target[index[f]]]
  /\ at[f] \in Active /\ body[f] => method[f] = Method[index[f]]

\* Guarded speaks of each fetcher by itself.
LEMMA GuardedEach == Guarded <=> \A f \in Fetchers : GuardedAt(f)
BY DEF Guarded, SecretsStayHome, BodyKeepsMethod, GuardedAt

\* A fetcher whose request is new, is redirected or goes on is still guarded.
LEMMA StepGuarded ==
  ASSUME TypeOK, Guarded, NEW f \in Fetchers, FetcherStep(f)
  PROVE  GuardedAt(f)'
<1>0. GuardedAt(f)
  BY GuardedEach
<1>1. CASE Take(f)
  <2>1. CASE Normalized[nextIndex] = "ok"
    <3> DEFINE n == nextIndex
    <3>1. /\ at'[f] = "guard" /\ index'[f] = n /\ url'[f] = Target[n] /\ method'[f] = Method[n]
      BY <1>1, <2>1 DEF Take, TypeOK
    <3> QED
      BY <3>1 DEF GuardedAt
  <2>2. CASE Normalized[nextIndex] # "ok"
    <3>1. UNCHANGED <<at, request>> /\ at[f] = "idle"
      BY <1>1, <2>2 DEF Take
    <3> QED
      BY <3>1 DEF GuardedAt, Active
  <2> QED
    BY <2>1, <2>2
<1>2. CASE FetcherDone(f) \/ Ends(f)
  <2>1. at'[f] \in {"idle", "done"}
    BY <1>2 DEF FetcherDone, Ends, Finish, TypeOK
  <2> QED
    BY <2>1 DEF GuardedAt, Active
<1>3. CASE Moves(f) /\ at[f] \in Active
  <2>1. UNCHANGED request
    BY <1>3 DEF Moves
  <2> QED
    BY <1>0, <1>3, <2>1 DEF GuardedAt, request
<1>4. CASE IsRedirected(f)
  <2>1. PICK u \in URLs, status \in {"303", "moved", "kept"} : Redirected(f, u, status)
    BY <1>4 DEF IsRedirected
  <2>2. /\ at[f] = "fetch" /\ at'[f] = "next" /\ url'[f] = u /\ index'[f] = index[f]
        /\ method'[f] = (IF BecomesGet(f, status) THEN "GET" ELSE method[f])
        /\ body'[f] = (body[f] /\ ~BecomesGet(f, status))
        /\ secret'[f] = KeepsSecrets(f, u)
    BY <2>1 DEF Redirected, TypeOK
  <2> HIDE DEF BecomesGet
  <2> QED
    BY <1>0, <2>2 DEF GuardedAt, KeepsSecrets, Active
<1> QED
  BY <1>1, <1>2, <1>3, <1>4, StepsOfFetcher

\* The others are not touched.
LEMMA OthersKept ==
  ASSUME TypeOK, NEW f \in Fetchers, FetcherStep(f), NEW g \in Fetchers, g # f
  PROVE  /\ at'[g] = at[g] /\ index'[g] = index[g] /\ url'[g] = url[g] /\ method'[g] = method[g]
         /\ body'[g] = body[g] /\ secret'[g] = secret[g]
         /\ taken'[g] = taken[g] /\ left'[g] = left[g]
<1> USE DEF TypeOK, request
<1>1. CASE Take(f)
  BY <1>1 DEF Take
<1>2. CASE FetcherDone(f) \/ Ends(f) \/ Moves(f)
  BY <1>2 DEF FetcherDone, Ends, Finish, Moves
<1>3. CASE IsRedirected(f)
  BY <1>3 DEF IsRedirected, Redirected
<1> QED
  BY <1>1, <1>2, <1>3, StepsOfFetcher

\* Every step keeps every request guarded.
LEMMA NextGuarded == TypeOK /\ Guarded /\ [Next]_vars => Guarded'
<1> SUFFICES ASSUME TypeOK, Guarded, [Next]_vars PROVE Guarded'
  OBVIOUS
<1>1. CASE BatchRejected \/ BatchAccepted \/ PackageGenerated \/ JobKilled \/ Tick \/ UNCHANGED vars
  BY <1>1 DEF BatchRejected, BatchAccepted, PackageGenerated, JobKilled, Tick, vars, request,
     Guarded, SecretsStayHome, BodyKeepsMethod
<1>2. ASSUME NEW f \in Fetchers, FetcherStep(f) PROVE Guarded'
  <2>1. \A g \in Fetchers : GuardedAt(g)
    BY GuardedEach
  <2>2. ASSUME NEW g \in Fetchers, g # f PROVE GuardedAt(g)'
    BY <1>2, <2>1, <2>2, OthersKept DEF GuardedAt
  <2>3. GuardedAt(f)'
    BY <1>2, StepGuarded
  <2>4. \A g \in Fetchers : GuardedAt(g)'
    BY <2>2, <2>3
  <2> QED
    BY <2>4 DEF Guarded, SecretsStayHome, BodyKeepsMethod, GuardedAt
<1> QED
  BY <1>1, <1>2 DEF Next

\* So every request stays guarded.
LEMMA AlwaysGuarded == Spec => []Guarded
<1>1. Init => Guarded
  BY DEF Init, Guarded, SecretsStayHome, BodyKeepsMethod, Active
<1>2. TypeOK /\ Guarded /\ [Next]_vars => Guarded'
  BY NextGuarded
<1> QED
  BY <1>1, <1>2, TypeCorrect, PTL DEF Spec

\* Sensitive headers never leave the origin the caller addressed, through any chain
\* of redirects.
THEOREM SecretsNeverLeave == Spec => []SecretsStayHome
<1>1. Guarded => SecretsStayHome
  BY DEF Guarded
<1> QED
  BY <1>1, AlwaysGuarded, PTL

\* Neither the body nor the headers that describe it survive a redirect that
\* changes the method.
THEOREM BodiesKeepTheirMethod == Spec => []BodyKeepsMethod
<1>1. Guarded => BodyKeepsMethod
  BY DEF Guarded
<1> QED
  BY <1>1, AlwaysGuarded, PTL
----------------------------------------------------------------------------
(* The deadline. *)

\* Why FetchWithinDeadline holds.  Until it is past, what is left of a request's time
\* and what the job's clock has counted since it was taken make up RequestTimeout,
\* across lookups and redirects; and a fetch ends at its deadline.
TimedAt(f) ==
  at[f] \in Active =>
    /\ left[f] >= 0 => left[f] + (taken[f] - jobLeft) = RequestTimeout
    /\ at[f] = "fetch" => left[f] >= 0
Timed == \A f \in Fetchers : TimedAt(f)

\* The clocks are integers.
LEMMA ClockTypes ==
  ASSUME TypeOK
  PROVE  /\ jobLeft \in Nat /\ RequestTimeout \in Nat
         /\ \A f \in Fetchers : taken[f] \in Nat /\ left[f] \in Int
BY BatchAssumption DEF TypeOK

\* A fetcher does not gain time by what it does with its request.
LEMMA StepTimed ==
  ASSUME TypeOK, Timed, NEW f \in Fetchers, FetcherStep(f)
  PROVE  TimedAt(f)'
<1>0. TimedAt(f) /\ jobLeft' = jobLeft
  <2>1. jobLeft' = jobLeft
    BY StepsOfFetcher DEF Take, FetcherDone, Ends, Finish, Moves, IsRedirected, Redirected
  <2> QED
    BY <2>1 DEF Timed
<1>1. CASE Take(f)
  <2>1. CASE Normalized[nextIndex] = "ok"
    <3>1. at'[f] = "guard" /\ taken'[f] = jobLeft /\ left'[f] = RequestTimeout
      BY <1>1, <2>1 DEF Take, TypeOK
    <3> QED
      BY <1>0, <3>1, ClockTypes DEF TimedAt
  <2>2. CASE Normalized[nextIndex] # "ok"
    <3>1. UNCHANGED at /\ at[f] = "idle"
      BY <1>1, <2>2 DEF Take
    <3> QED
      BY <3>1 DEF TimedAt, Active
  <2> QED
    BY <2>1, <2>2
<1>2. CASE FetcherDone(f) \/ Ends(f)
  <2>1. at'[f] \in {"idle", "done"}
    BY <1>2 DEF FetcherDone, Ends, Finish, TypeOK
  <2> QED
    BY <2>1 DEF TimedAt, Active
<1>3. CASE Moves(f) /\ at[f] \in Active
  <2>1. UNCHANGED <<taken, left>> /\ (at'[f] = "fetch" => left[f] > 0)
    BY <1>3 DEF Moves, request, TypeOK
  <2> QED
    BY <1>0, <1>3, <2>1, ClockTypes DEF TimedAt
<1>4. CASE IsRedirected(f)
  <2>1. at[f] \in Active /\ at'[f] = "next" /\ UNCHANGED <<taken, left>>
    BY <1>4 DEF IsRedirected, Redirected, TypeOK, Active
  <2> QED
    BY <1>0, <2>1 DEF TimedAt
<1> QED
  BY <1>1, <1>2, <1>3, <1>4, StepsOfFetcher

\* Every step keeps the two clocks together.
LEMMA NextTimed == TypeOK /\ Timed /\ [Next]_vars => Timed'
<1> SUFFICES ASSUME TypeOK, Timed, [Next]_vars PROVE Timed'
  OBVIOUS
<1>1. CASE BatchRejected \/ BatchAccepted \/ PackageGenerated \/ JobKilled \/ UNCHANGED vars
  BY <1>1 DEF BatchRejected, BatchAccepted, PackageGenerated, JobKilled, vars, request, Timed, TimedAt
<1>2. CASE Tick
  <2> SUFFICES ASSUME NEW f \in Fetchers, at[f] \in Active PROVE TimedAt(f)'
    BY <1>2 DEF Timed, TimedAt, Tick
  <2>1. /\ at' = at /\ taken' = taken /\ jobLeft' = jobLeft - 1
        /\ left'[f] = IF left[f] >= 0 THEN left[f] - 1 ELSE left[f]
        /\ at[f] = "fetch" => left[f] # 0
    BY <1>2 DEF Tick, Later, request
  <2>2. TimedAt(f)
    BY DEF Timed
  <2> QED
    BY <2>1, <2>2, ClockTypes DEF TimedAt
<1>3. ASSUME NEW f \in Fetchers, FetcherStep(f) PROVE Timed'
  <2>1. jobLeft' = jobLeft
    BY <1>3, StepsOfFetcher DEF Take, FetcherDone, Ends, Finish, Moves, IsRedirected, Redirected
  <2>2. ASSUME NEW g \in Fetchers, g # f PROVE TimedAt(g)'
    BY <1>3, <2>1, <2>2, OthersKept DEF Timed, TimedAt
  <2>3. TimedAt(f)'
    BY <1>3, StepTimed
  <2> QED
    BY <2>2, <2>3 DEF Timed
<1> QED
  BY <1>1, <1>2, <1>3 DEF Next

\* One deadline spans all fetches of a request: after any number of lookups and
\* redirects, nobody waits for an answer's headers later than RequestTimeout after
\* the request was taken.
THEOREM DeadlineSpansRedirects == Spec => []FetchWithinDeadline
<1>1. Init => Timed
  BY DEF Init, Timed, TimedAt, Active
<1>2. TypeOK /\ Timed /\ [Next]_vars => Timed'
  BY NextTimed
<1>3. TypeOK /\ Timed => FetchWithinDeadline
  BY ClockTypes DEF Timed, TimedAt, FetchWithinDeadline, Active
<1> QED
  BY <1>1, <1>2, <1>3, TypeCorrect, PTL DEF Spec
============================================================================
