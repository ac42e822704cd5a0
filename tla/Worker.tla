------------------------------- MODULE Worker -------------------------------
(***************************************************************************)
(* The batch worker (worker/run-batch.mjs) that a GitHub Actions run       *)
(* executes: it validates the batch, fetches its requests with a few       *)
(* concurrent fetchers that share one index, follows redirects under the   *)
(* URL guardrails, and writes one result package.  JavaScript runs one     *)
(* fetcher at a time between two awaits, so an action is what happens from *)
(* one await to the next.                                                  *)
(*                                                                         *)
(* A URL is a model value with an origin and what its text alone tells the *)
(* guardrails.  What a lookup of its host gives is chosen anew at each     *)
(* check.  fetch looks the host up once more by itself; to which address   *)
(* it then connects is outside this model, and no property speaks of it.   *)
(* Time is counted in ticks until a request's deadline; -1 stands for any  *)
(* time past it.                                                           *)
(***************************************************************************)
EXTENDS Integers, FiniteSets, Functions

CONSTANTS
  Total,             \* requests in the batch
  BatchIds,          \* the assignments of ids to requests that batches may have
  URLs,
  Origin,            \* URL -> its origin
  Verdict,           \* URL -> "ok" for an address that passes, "lookup" for the name of
                     \* a host, or the code with which its text is rejected
  Target,            \* request -> its URL
  Method,            \* request -> its method
  Normalized,        \* request -> "ok" or the code normalizeRequest throws
  EnvConcurrency,    \* the workflow's input, 0 when it is not a positive integer
  BatchConcurrency,  \* the batch's own limit, likewise
  MaxRedirects,
  RequestTimeout,
  JobTimeout         \* timeout-minutes of the job

DefaultConcurrency   == 4
MaxWorkerConcurrency == 8

Indexes == 1 .. Total
Methods == {"GET", "POST", "PUT"}

\* A batch is never empty and all its requests have an id; what the maps range over.
ASSUME BatchAssumption ==
  /\ Total \in Nat \ {0}
  /\ \A b \in BatchIds : DOMAIN b = Indexes
  /\ Verdict \in [URLs -> {"ok", "lookup", "URL_REJECTED", "REQUEST_BLOCKED"}]
  /\ Target \in [Indexes -> URLs]
  /\ Method \in [Indexes -> Methods]
  /\ Normalized \in [Indexes -> {"ok", "METHOD_REJECTED", "URL_REJECTED", "BODY_TOO_LARGE",
                                 "WORKER_ERROR"}]
  /\ EnvConcurrency \in Nat
  /\ BatchConcurrency \in Nat
  /\ MaxRedirects \in Nat
  /\ RequestTimeout \in Nat \ {0}
  /\ JobTimeout \in Nat

VARIABLES
  phase,      \* main: start, fetching, written; failed in a validation, unwritten when
              \* the file cannot be; killed by the job timeout
  ids,        \* the request ids of the batch
  nextIndex,
  results,    \* what processSingleRequest returned, "none" where it has not
  at,         \* where each fetcher stands
  index,      \* the request it works on
  url, method,   \* current URL and method
  body,       \* whether the body and the headers that describe it are kept
  secret,     \* whether the sensitive headers are
  redirects,
  taken,      \* history: jobLeft when the request was taken
  left,       \* time until the request's deadline
  jobLeft     \* time until GitHub ends the job

request == <<index, url, method, body, secret, redirects, taken>>
vars == <<phase, ids, nextIndex, results, at, request, left, jobLeft>>
----------------------------------------------------------------------------
(* Limits. *)

asInt(primary, secondary, fallback) ==
  IF primary > 0 THEN primary ELSE IF secondary > 0 THEN secondary ELSE fallback

clampConcurrency(n) == IF n > MaxWorkerConcurrency THEN MaxWorkerConcurrency
                       ELSE IF n < 1 THEN 1 ELSE n

\* workerCount of processRequests
workerCount ==
  LET n == clampConcurrency(asInt(EnvConcurrency, BatchConcurrency, DefaultConcurrency))
  IN  IF n < Total THEN n ELSE Total

Fetchers == 1 .. workerCount

Active == {"guard", "fetch", "next", "body"}
----------------------------------------------------------------------------
(* main *)

\* validateBatch throws on a repeated request id.
validateBatch == IsInjective(ids)

BatchRejected ==
  /\ phase = "start"
  /\ ~validateBatch
  /\ phase' = "failed"
  /\ UNCHANGED <<ids, nextIndex, results, at, request, left, jobLeft>>

\* processRequests starts its fetchers.
BatchAccepted ==
  /\ phase = "start"
  /\ validateBatch
  /\ phase' = "fetching"
  /\ UNCHANGED <<ids, nextIndex, results, at, request, left, jobLeft>>

\* One result for every request id, and none twice.  What is checked of a single
\* result holds of whatever processSingleRequest builds, as long as the clock is
\* not set back while it does (timing_ms).
validateGeneratedResultPackage ==
  \A i \in Indexes : results[i] # "none" /\ \A j \in Indexes : ids[i] = ids[j] => i = j

\* Promise.all is fulfilled.
AllFetched == phase = "fetching" /\ \A f \in Fetchers : at[f] = "done"

\* The package is written, or main fails: mkdir and writeFile may.
PackageGenerated ==
  /\ AllFetched
  /\ phase' \in IF validateGeneratedResultPackage THEN {"written", "unwritten"} ELSE {"failed"}
  /\ UNCHANGED <<ids, nextIndex, results, at, request, left, jobLeft>>
----------------------------------------------------------------------------
(* A fetcher: processRequests, processSingleRequest, fetchWithGuardrails.  *)

\* processSingleRequest returns; the fetcher's loop goes on.
Finish(f, result) ==
  /\ results' = [results EXCEPT ![index[f]] = result]
  /\ at' = [at EXCEPT ![f] = "idle"]
  /\ UNCHANGED <<phase, ids, nextIndex, request, left, jobLeft>>

\* Mutant: the index is advanced after the first await only.
MutantTake(f) ==
  /\ phase = "fetching"
  /\ at[f] = "idle"
  /\ nextIndex <= Total
  /\ at' = [at EXCEPT ![f] = "guard"]
  /\ index' = [index EXCEPT ![f] = nextIndex]
  /\ UNCHANGED <<phase, ids, nextIndex, results, url, method, body, secret, redirects, taken, left, jobLeft>>

\* const index = nextIndex; nextIndex += 1: the request is normalized, its deadline
\* set and the guardrails entered before the first await.
Take(f) ==
  /\ phase = "fetching"
  /\ at[f] = "idle"
  /\ nextIndex <= Total
  /\ nextIndex' = nextIndex + 1
  /\ IF Normalized[nextIndex] = "ok"
     THEN /\ at' = [at EXCEPT ![f] = "guard"]
          /\ index' = [index EXCEPT ![f] = nextIndex]
          /\ url' = [url EXCEPT ![f] = Target[nextIndex]]
          /\ method' = [method EXCEPT ![f] = Method[nextIndex]]
          /\ body' = [body EXCEPT ![f] = TRUE]
          /\ secret' = [secret EXCEPT ![f] = TRUE]
          /\ redirects' = [redirects EXCEPT ![f] = 0]
          /\ taken' = [taken EXCEPT ![f] = jobLeft]
          /\ left' = [left EXCEPT ![f] = RequestTimeout]
          /\ UNCHANGED results
     ELSE /\ results' = [results EXCEPT ![nextIndex] = Normalized[nextIndex]]
          /\ UNCHANGED <<at, request, left>>
  /\ UNCHANGED <<phase, ids, jobLeft>>

\* Mutant: the last request is left out.
MutantFetcherDone(f) ==
  /\ phase = "fetching"
  /\ at[f] = "idle"
  /\ nextIndex >= Total
  /\ at' = [at EXCEPT ![f] = "done"]
  /\ UNCHANGED <<phase, ids, nextIndex, results, request, left, jobLeft>>

FetcherDone(f) ==
  /\ phase = "fetching"
  /\ at[f] = "idle"
  /\ nextIndex > Total
  /\ at' = [at EXCEPT ![f] = "done"]
  /\ UNCHANGED <<phase, ids, nextIndex, results, request, left, jobLeft>>

\* enforceURLGuardrails may let u pass; a lookup decides for the name of a host.
MayPass(u) == Verdict[u] \in {"ok", "lookup"}

\* The codes with which it may throw: a lookup can fail or give a blocked address.
Rejections(u) == IF Verdict[u] = "lookup" THEN {"URL_REJECTED", "REQUEST_BLOCKED"}
                 ELSE {Verdict[u]} \ {"ok"}

\* Mutant: the rejection of a redirect's URL is not handled.
MutantGuardRejects(f) ==
  /\ at[f] = "guard"
  /\ \E code \in Rejections(url[f]) : Finish(f, code)

\* enforceURLGuardrails throws, for the current URL or for that of a redirect.
GuardRejects(f) ==
  /\ at[f] \in {"guard", "next"}
  /\ \E code \in Rejections(url[f]) : Finish(f, code)

\* Mutant: every fetch of a chain of redirects gets the whole timeout.
MutantGuardPasses(f) ==
  /\ at[f] = "guard"
  /\ MayPass(url[f])
  /\ at' = [at EXCEPT ![f] = "fetch"]
  /\ left' = [left EXCEPT ![f] = RequestTimeout]
  /\ UNCHANGED <<phase, ids, nextIndex, results, request, jobLeft>>

\* The current URL passes in time; the timer is set to what is left.
GuardPasses(f) ==
  /\ at[f] = "guard"
  /\ MayPass(url[f])
  /\ left[f] > 0
  /\ at' = [at EXCEPT ![f] = "fetch"]
  /\ UNCHANGED <<phase, ids, nextIndex, results, request, left, jobLeft>>

\* It passes too late.
DeadlinePassed(f) ==
  /\ at[f] = "guard"
  /\ MayPass(url[f])
  /\ left[f] <= 0
  /\ Finish(f, "TIMEOUT")

\* The timer aborts the fetch.
FetchAborted(f) ==
  /\ at[f] = "fetch"
  /\ left[f] = 0
  /\ Finish(f, "TIMEOUT")

\* A network error.
FetchFails(f) ==
  /\ at[f] = "fetch"
  /\ Finish(f, "WORKER_ERROR")

\* Headers of a final answer; the timer is cleared and the body is read.
FetchResponds(f) ==
  /\ at[f] = "fetch"
  /\ at' = [at EXCEPT ![f] = "body"]
  /\ UNCHANGED <<phase, ids, nextIndex, results, request, left, jobLeft>>

\* A redirect too many, or one without a usable location.
RedirectRefused(f) ==
  /\ at[f] = "fetch"
  /\ Finish(f, "URL_REJECTED")

\* adjustRedirectMethodAndBody; a 301 or 302 is "moved", a 307 or 308 "kept".
BecomesGet(f, status) == status = "303" \/ (status = "moved" /\ method[f] = "POST")

\* Mutant: the headers are kept.
MutantKeepsSecrets(f, u) == secret[f]

\* dropSensitiveHeadersOnCrossOriginRedirect
KeepsSecrets(f, u) == secret[f] /\ Origin[url[f]] = Origin[u]

\* Mutant: one redirect too many, and body and content headers are kept.
MutantRedirected(f, u, status) ==
  /\ at[f] = "fetch"
  /\ redirects[f] <= MaxRedirects
  /\ at' = [at EXCEPT ![f] = "next"]
  /\ url' = [url EXCEPT ![f] = u]
  /\ method' = [method EXCEPT ![f] = IF BecomesGet(f, status) THEN "GET" ELSE @]
  /\ secret' = [secret EXCEPT ![f] = KeepsSecrets(f, u)]
  /\ redirects' = [redirects EXCEPT ![f] = @ + 1]
  /\ UNCHANGED <<phase, ids, nextIndex, results, index, body, taken, left, jobLeft>>

\* A redirect to u.  Method, body, headers and URL are replaced here and not after
\* the guardrails have passed u, which only a rejected request could tell apart.
Redirected(f, u, status) ==
  /\ at[f] = "fetch"
  /\ redirects[f] < MaxRedirects
  /\ at' = [at EXCEPT ![f] = "next"]
  /\ url' = [url EXCEPT ![f] = u]
  /\ method' = [method EXCEPT ![f] = IF BecomesGet(f, status) THEN "GET" ELSE @]
  /\ body' = [body EXCEPT ![f] = @ /\ ~BecomesGet(f, status)]
  /\ secret' = [secret EXCEPT ![f] = KeepsSecrets(f, u)]
  /\ redirects' = [redirects EXCEPT ![f] = @ + 1]
  /\ UNCHANGED <<phase, ids, nextIndex, results, index, taken, left, jobLeft>>

\* The redirect's URL passes; the loop checks it once more as the current URL.
NextPasses(f) ==
  /\ at[f] = "next"
  /\ MayPass(url[f])
  /\ at' = [at EXCEPT ![f] = "guard"]
  /\ UNCHANGED <<phase, ids, nextIndex, results, request, left, jobLeft>>

\* response.arrayBuffer() gives the body or throws.  A body over the response limit
\* is cut to it; the result says so ("cut"), and is a success all the same.
BodyEnds(f, result) ==
  /\ at[f] = "body"
  /\ Finish(f, result)

FetcherStep(f) ==
  \/ Take(f) \/ FetcherDone(f)
  \/ phase = "fetching" /\
       \/ GuardRejects(f) \/ GuardPasses(f) \/ DeadlinePassed(f) \/ NextPasses(f)
       \/ FetchAborted(f) \/ FetchFails(f) \/ FetchResponds(f) \/ RedirectRefused(f)
       \/ \E u \in URLs, status \in {"303", "moved", "kept"} : Redirected(f, u, status)
       \/ \E result \in {"ok", "cut", "WORKER_ERROR"} : BodyEnds(f, result)
----------------------------------------------------------------------------
(* Time and the job. *)

Later(f) == IF at[f] \in Active /\ left[f] >= 0 THEN left[f] - 1 ELSE left[f]

\* A timer that is due fires before time goes on.
Tick ==
  /\ phase = "fetching"
  /\ jobLeft > 0
  /\ ~ \E f \in Fetchers : at[f] = "fetch" /\ left[f] = 0
  /\ jobLeft' = jobLeft - 1
  /\ left' = [f \in Fetchers |-> Later(f)]
  /\ UNCHANGED <<phase, ids, nextIndex, results, at, request>>

\* GitHub ends the job: nothing is published.
JobKilled ==
  /\ phase = "fetching"
  /\ jobLeft = 0
  /\ phase' = "killed"
  /\ UNCHANGED <<ids, nextIndex, results, at, request, left, jobLeft>>
----------------------------------------------------------------------------
Init ==
  /\ phase = "start"
  /\ ids \in BatchIds
  /\ nextIndex = 1
  /\ results = [i \in Indexes |-> "none"]
  /\ at = [f \in Fetchers |-> "idle"]
  /\ index = [f \in Fetchers |-> 1]
  /\ url = [f \in Fetchers |-> Target[1]]
  /\ method = [f \in Fetchers |-> "GET"]
  /\ body = [f \in Fetchers |-> FALSE]
  /\ secret = [f \in Fetchers |-> FALSE]
  /\ redirects = [f \in Fetchers |-> 0]
  /\ taken = [f \in Fetchers |-> JobTimeout]
  /\ left = [f \in Fetchers |-> 0]
  /\ jobLeft = JobTimeout

Next ==
  \/ BatchRejected \/ BatchAccepted \/ PackageGenerated
  \/ \E f \in Fetchers : FetcherStep(f)
  \/ Tick
  \/ JobKilled

\* The event loop runs whatever is ready; lookups, fetches and bodies end some
\* time, with an answer or an error.  Time need not pass.
Fairness ==
  /\ WF_vars(BatchRejected \/ BatchAccepted \/ PackageGenerated)
  /\ \A f \in Fetchers : WF_vars(FetcherStep(f))

Spec == Init /\ [][Next]_vars /\ Fairness
----------------------------------------------------------------------------
(* Properties. *)

Codes == {"ok", "cut", "URL_REJECTED", "REQUEST_BLOCKED", "METHOD_REJECTED", "BODY_TOO_LARGE",
          "TIMEOUT", "WORKER_ERROR"}

\* Every variable keeps its shape.
TypeOK ==
  /\ phase \in {"start", "fetching", "written", "unwritten", "failed", "killed"}
  /\ ids \in BatchIds
  /\ nextIndex \in 1 .. Total + 1
  /\ results \in [Indexes -> Codes \cup {"none"}]
  /\ at \in [Fetchers -> {"idle", "done"} \cup Active]
  /\ index \in [Fetchers -> Indexes]
  /\ url \in [Fetchers -> URLs]
  /\ method \in [Fetchers -> Methods]
  /\ body \in [Fetchers -> BOOLEAN]
  /\ secret \in [Fetchers -> BOOLEAN]
  /\ redirects \in [Fetchers -> 0 .. MaxRedirects]
  /\ taken \in [Fetchers -> 0 .. JobTimeout]
  /\ left \in [Fetchers -> -1 .. RequestTimeout]
  /\ jobLeft \in 0 .. JobTimeout

\* The requests some fetcher is working on.
InFlight == {index[f] : f \in {g \in Fetchers : at[g] \in Active}}

\* The shared index hands out every request once: two fetchers never work on the
\* same one, a request is in flight, answered or still to be taken, and only one
\* of these, and a fetcher stops only when nothing is left to take.
EachRequestOnce ==
  /\ \A f, g \in Fetchers :
       f # g /\ at[f] \in Active /\ at[g] \in Active => index[f] # index[g]
  /\ \A i \in Indexes : results[i] # "none" <=> (i < nextIndex /\ i \notin InFlight)
  /\ \A i \in InFlight : i < nextIndex
  /\ \A f \in Fetchers : at[f] = "done" => nextIndex = Total + 1

\* The package that is written answers every request of the batch, and a batch with
\* distinct ids never fails the final validation of its ids: one bad request does not
\* cost the others their results.
PackageComplete ==
  /\ phase = "written" => \A i \in Indexes : results[i] # "none"
  /\ phase = "failed" => ~IsInjective(ids)

\* Authorization and cookie headers are only ever sent to the origin the caller
\* addressed, through any chain of redirects, one that comes back included.
SecretsStayHome ==
  \A f \in Fetchers :
    at[f] \in Active /\ secret[f] => Origin[url[f]] = Origin[Target[index[f]]]

\* A request has one deadline for all its fetches: however many lookups without a
\* timer and however many redirects came before, nobody waits for the headers of
\* an answer when more than RequestTimeout has passed, by the job's clock, since the
\* request was taken.  (For the body, see StrictTimeouts.)
FetchWithinDeadline ==
  \A f \in Fetchers : at[f] = "fetch" => taken[f] - jobLeft <= RequestTimeout

\* Once a redirect has changed the method, neither the body nor the headers that
\* describe it go on.  (allowsBody withholds the body from GET once more, when
\* it is sent, but not the headers.)
BodyKeepsMethod ==
  \A f \in Fetchers : at[f] \in Active /\ body[f] => method[f] = Method[index[f]]

\* As long as the servers answer or fail, the fetchers run out of requests and the
\* batch ends in a package or an error, or the job is killed before.
BatchEnds == <>(phase \in {"written", "unwritten", "failed", "killed"})

\* "Use strict per-request timeouts" (docs/performance.md): no fetch goes on
\* past the request's deadline, from the connection to the last byte of the body.
StrictTimeouts == \A f \in Fetchers : at[f] \in {"fetch", "body"} => left[f] >= 0
============================================================================
