# ActionRelay in TLA+

ActionRelay relays HTTP requests of a local machine through GitHub Actions. A
client collects requests into batches, starts a workflow run for each batch,
waits for it and hands the results back; a worker script in the run performs the
requests and publishes one result package. This directory models the programs
that make up that path and the commands around it, checks them with TLC and
proves every safety property that the passing runs check with TLAPS.

## The system

| Part | State | Operations | Hard because |
| --- | --- | --- | --- |
| agent, `client/internal/agent` | queue channel, buffer of Run, dispatch units, cache, backpressure deadline, counters, one result channel per call | `Submit`, `Run`, `Snapshot` | callers, one loop, a ticker and the clock interleave; a blocked send stops everything; many paths move a request |
| dispatcher, `client/internal/githubapi` | clock offset; everything else is local to `ProcessBatch` | `ProcessBatch`: dispatch, find the run, wait, download | GitHub is slow, loses answers and shows its state late; three deadlines |
| worker, `worker/run-batch.mjs` | shared index, results, per fetch URL, method, headers, deadline | `main`, `processRequests`, `fetchWithGuardrails` | fetchers share an index across awaits; redirect chains; the job can be killed |
| protocol, `client/internal/protocol` | none | validation of batch and package | pure |
| workflow, `.github/workflows/actionrelay.yml` | results branch | runs the worker, publishes the package | two runs may publish at once |
| proxy, `client/internal/proxy` | one handler per request | HTTP proxy in front of `Submit` | a timeout, a client that leaves and a late answer cross; encodings |
| command line and serve, `client/cmd/actionrelay` | two listeners, one shutdown deadline; the files and settings below | init, route and proxy install and uninstall, serve, fetch, status | several processes share files; any of them is killed; shutdown order |
| route state, `client/internal/route` | one JSON file | load, save, mark, clear | read-modify-write without a lock, truncation in place |
| proxyplatform, `client/internal/proxyplatform` | settings of the operating system, a file with the ones to restore | install, uninstall on three platforms | sequences of commands that fail in the middle; rollbacks that fail too |
| config, `client/internal/config` | one JSON file | load, save, validate | the same torn file |
| retention workflow, scripts, schemas | results branch | delete old results; build and release | not modelled, see below |

A call goes `Submit` -> queue -> `Run` -> `ProcessBatch` -> GitHub -> worker ->
results branch -> `ProcessBatch` -> `Run` -> result channel -> `Submit`. Callers
and Run share the queue, the result channels and the state under `Agent.mu`;
Run calls the dispatcher synchronously, so while a batch is under way nobody
drains the queue. Cancelling serve's context reaches Run, the dispatcher's calls
and its sleeps.

In front of `Submit` stand two listeners of one process: the HTTP proxy, whose
handlers give up after 90 s, and the local API, whose client `fetch` gives up after
60 s. Around it, every command is a process of its own; they meet in the route
state file, the configuration, the proxy settings and the listen address.

What makes each part correct:

* agent: no request is lost, held twice, answered twice or dispatched twice; no
  send of Run's blocks; nobody gets another's result; caps, cache limit and
  cooldown are respected; the counters add up; every call returns.
* dispatcher: it returns, in bounded time, and what it reports happened.
* worker: every request is fetched once and answered in the package; credentials
  stay with the origin they were meant for; one deadline spans all its redirects; it
  ends.
* serve and proxy: a client can tell from its status whether its request was sent
  on, and gets nobody else's response; it is cut off only
  when the time for an orderly shutdown is spent; no handler stays for ever and
  serve ends, whatever agent and clients do.
* commands: a torn state file is not taken for an empty one; the cleanup flag tells
  the truth between commands; no traffic goes to the relay that nobody recorded.
* status: an agent that turns callers away is not called healthy.

## Modules

| Module | Models |
| --- | --- |
| `Relay` | what the agent promises its callers: the abstract specification |
| `Agent` | `Submit` and `Run` with all they call |
| `AgentRelay` | the refinement mapping from `Agent` to `Relay` |
| `AgentStatus` | what `status` computes from the agent's `Snapshot` |
| `AgentHistory` | `Agent` with a history variable, for what the documents say of fail_open |
| `Dispatcher` | `ProcessBatch`, and GitHub around it |
| `Worker` | `run-batch.mjs` |
| `Serve` | proxy, local API, `fetch` and shutdown, on top of `Relay` |
| `RouteState` | the route state file |
| `ProxyPlatform` | the proxy settings; extends `RouteState` |
| `Commands` | all commands as processes; extends `ProxyPlatform` |
| `MCAgent`, `MCAgentHistory`, `MCDispatcher`, `MCWorker`, `MCServe`, `MCCommands` | instances for TLC |
| `AgentProofs`, `AgentSafetyProofs`, `AgentBatchProofs`, `AgentRelayProofs` | theorems on `Agent`, `AgentStatus` and `AgentRelay` |
| `DispatcherProofs`, `WorkerProofs`, `ServeProofs`, `CommandsProofs` | theorems on the module they are named after |

Operators named `Mutant...` are plausible mistakes: each replaces the definition
that follows it in one test, which must then break a property. No specification
uses them.

### Agent

A member of `Requests` is one call of `Submit`; its cache key, its size and
whether `classifyRequest` turns it down are constants. `caller` is the position of
the call, `resultCh` its channel of capacity one, `queue` the channel to Run.
`pc`, `pending`, `chunk`, `remaining`, `units`, `package` and `failCode` are the
position and the locals of Run. Loops over items are unrolled, one action per
item (`PickInto`, `PickLater`, `PickTooLarge`; `PrepareHit`, `PrepareDuplicate`,
`PrepareUnit`; `DeliverUnit`, `FailUnit`), because callers can come in between;
a unit's sends, counters and cache entry are one action, for no caller can tell
them apart by anything modelled. `Submit` is cut where another goroutine can
interfere: after the two checks, after the send to the queue, after
`recordSubmitted`.

There is no clock. A cache entry has an age that saturates past the last
comparison, the cooldown a remaining time, the ticker a countdown with a one-place
channel, and `Elapse` advances all of them, except inside
`prepareDispatchUnits`, which reads the clock once. `ProcessBatch` is an external
call here: it returns any error code, a package for any set of ids, or one for
this batch with any outcome per request.

`executed` and the `origin` of a result exist for the properties only.

### Dispatcher

One call of `ProcessBatch` at a time, as Run makes them. `pc` is the API call or
sleep in progress, `left` what remains of it, `deadline` what remains of the
current wait. GitHub creates the run when it accepts the dispatch (the answer may
be lost), lists it later, runs it, publishes, shows the file later. `early` is
the case that a run's `created_at` falls in the second before the `Date` of the
answer, which the filter of `findRunForBatch` skips. The list of 30 runs is
taken to be long enough for the one run that is looked for.

### Worker

An action is what happens between two awaits. `at` is the await a fetcher is in:
the guardrails' lookup, the fetch, the lookup for a redirect, the body. URLs are
model values with an origin and what their text tells the guardrails: an address
that passes, one that does not, or a name. What the lookup of a name gives is
chosen anew at each check, so a name that passed once may be rejected the next
time. `fetch` resolves the name once more inside the JavaScript runtime; which
address it connects to is outside the model, and no property says that a blocked
address is never reached. `body` stands for the body and the headers that describe
it. A response over the limit ends as `cut`, a success with a truncated body.
`left` counts to the request's deadline and goes below zero where the code has no
timer; `taken` is history, the job's clock when the request was taken.
`PackageGenerated` may fail to write its file (`unwritten`). `JobKilled` is the
workflow's `timeout-minutes`.

### Relay and its implementation

`Relay` knows calls, replies and the set of requests that workers have executed:
`Ask`, `Execute` (several requests, none twice, no two with one key), `Answer`
(an error, or what came back for this request or one with its key) and `Abandon`.
`AgentRelay` maps `caller` to `call`: a call is open from the moment it has passed
the checks of `Submit` (a refusal before that is an answer to an idle call), and
`stats.dispatchedRequests` to `sent`, so that a request sent twice would show even
where the set of executed requests does not grow. Everything Run does between is a
stuttering step: queueing, picking, caching, the cooldown, counting.

`AgentStatus` has no state. What depends on the age of a timestamp is a parameter
of its operators, because the agent's model has no absolute time.

### Serve

`Serve` extends `Relay`: the agent is known by its promise alone and may never
answer. A handler reads its request, turns it down or submits it, and answers a
client that is still there. `Shapes` describes requests by what the handlers tell
apart, and the status they are turned down with is computed from a shape as in the
code; when a request arrives, its outcome is chosen among those. `age` counts to
the submit timeout in the proxy and to `fetch`'s in the API. `phase` follows
`runServe`: the goroutine that waits for the context first shuts the proxy down,
with its handlers, then the API, both on one deadline; `ListenAndServe` returns
when the second `Shutdown` begins, and the process ends without waiting for that
`Shutdown`. A response is base64, base64 of a body the worker has cut, or utf8; as
in the code, the proxy does not tell the first two apart. `clock` runs from the cancellation, as `shutdownCtx` does.

### Commands

A process runs one command at a time: `op` names it, `pc` its place, `copy` the
state it has loaded, `step` its place in a loop over network services. Each read,
each of the two halves of `os.WriteFile` and each command given to the operating
system is a step; between any two another process may act and this one may be
killed. `serve` appears as what it does to the cleanup flag (`clear` when it
starts, `mark` in its deferred call). Environment variables are not part of the
state: a command sets only those of its own process, which ends with it.

`alone`, `trust` and `stopped` are history: whether the operator runs one command
at a time, whether a proxy command was cut short or ignored a failure, whether the
last serve ended in good order. Without the first, no property of the flag can
hold, since nothing locks the file; `CleanupMeansInstalled` and `DamageIsKept` hold
without it. `trust` exempts from `NoStrayProxy` what the code does not roll back: a
kill, a failed `route.Save` after `Install` (`main.go:191`), a failed `saveState` on
macOS (`platform.go:318`) and ignored failures of an uninstall. What is claimed of
an install is the rollback when a settings command fails, and of an uninstall
that goes through, that it repairs all of the above.

## Runs

| Run | Result | Shows |
| --- | --- | --- |
| `agent` | pass, 1,609,120 states | all safety properties of the agent and of its status, and `ExecutedOnce`, three calls |
| `agent_live` | pass, 20,960 states | `Agent` implements `Relay`; calls return unless Run stops while they are queued; Run stops when cancelled |
| `dispatcher` | pass, 837,660 states | truth, time bound, no early RUN_DELAYED, `ProcessBatch` returns |
| `worker` | pass, 1,504,689 states | shared index, package, redirects, one deadline per request, termination |
| `commands` | pass, 1,276,137 states | the flag, the damaged file and the proxy settings, two processes, three platforms |
| `serve` | pass, 324,163 states | what a status tells, orderly shutdown, handlers and serve end |
| `agent_stop` | violation | a call queued when Run stops never returns |
| `fail_open` | violation | a known recent response is not served on a recoverable error |
| `error_code` | violation | RESULT_PACKAGE_NOT_FOUND reaches callers as DISPATCH_FAILED |
| `run_delayed` | violation | RUN_DELAYED of a run that has started |
| `worker_timeout` | violation | a body is read past the request's deadline |
| `proxy_text` | violation | the proxy answers 502 to every text response of a worker |

The six violations are disagreements between the code and a sentence of its
documentation; `PROJECT.json` quotes the sentences. Two take a feature
away. `proxy_text`: the worker sends text as utf8 and the proxy's
`decodeResponseBody` does not know that encoding. `fail_open`: an entry that could be stale is deleted when it is first
seen expired, and `FailOpenIsDead` proves that the fallback never serves.

Bounds. `agent`: three requests, two with one cache key and one with another,
batches of two, a queue of two, a cache of one entry, lifetime 1, stale
lifetime 2, cooldown 2: enough for overflow, leftovers, deduplication, hit,
expiry, eviction, a cooldown that is seen by Submit and by the tick, and a batch
that fits when it is picked and not when it is sent. The two requests with one
key are interchangeable, so the run uses symmetry. `agent_live`: one ordinary
request, one too large, one rejected, batches and queue of one. `dispatcher`: two
batches, so that a late run of the first meets the second; every wait is polled
at least twice. `worker`: four requests (two ordinary, one blocked, one that does
not normalize) on two fetchers, two redirects, so that a chain can leave an
origin and return, a request timeout of one tick and a job of two, so that a
deadline passes while the job goes on; a name that is looked up and two addresses; a good batch and one with a repeated id. Two is the smallest
number of fetchers that interfere. `serve`: two requests with one key, a submit
timeout longer than fetch's, so that each timeout and the shutdown can come first;
responses that are whole, cut and in an encoding the proxy does not decode, two kinds
of error. `commands`: two
processes, the least that interfere, which may run any number of commands one
after the other; one network service, whose five settings are enough for a failure
before, between and after them. Processes are interchangeable (symmetry). Deadlock
is not checked where the system may stop: after the last batch, after the package,
after shutdown.

The refinement is checked in `agent_live`, where one request can be dispatched and
no two share a key; on the larger instance of `agent` it takes longer than the other
properties together, and has been checked there apart from the run. The theorem
`AgentImplementsRelay` covers the general case. In `agent` the one-entry cache
evicts between batches; several results of one batch that compete for a full
cache are covered by the theorem `CacheStaysBounded`.

Fairness. Go runs every runnable goroutine, so Run's steps and those of callers
who have called are weakly fair; `select` chooses at random among ready cases,
so a tick, a receive and the cancellation are strongly fair; time passes. A
caller need not call or give up. `ProcessBatch` returns: that is `Returns` of
`Dispatcher`, whose own fairness asks only that time passes, that sleepers wake
and that the HTTP client's timeout ends a call; GitHub owes nothing. The worker's
event loop serves what is ready, and lookups, fetches and bodies end some time.
The runtime gives no such promise for bodies, which is what `worker_timeout` is
about. In `Serve` time passes, timers that have fired are acted upon, a handler whose
`Submit` has returned goes on and the shutdown goes its way; the agent owes no
answer, and a client need not send the body it announced. `Commands` has only
safety properties.

## Proofs

Every invariant and every action property of the passing runs, and the refinement,
is a theorem. The theorems hold for every value of the constants that the named
assumptions allow. These are the ranges that `New`, the configuration and the
worker's own checks enforce; that the calls of `Submit` (`Agent`, `Serve`) are
finitely many, because they are counted; and, in `Worker`, that a batch is a
sequence with one id per request. TLC also finds every inductive invariant named below
to hold on the instance of the component's run.

Agent:

* `AgentProofs!TypeCorrect`: `TypeOK`, by one lemma per part of the loop.
* `AgentSafetyProofs`: `SingleHolder`, `HeldUnanswered` and `NothingLost`. None is
  inductive alone: that a send does not block rests on the request being in one
  place, and that nothing is lost on every member of a unit being answered. Their
  conjunction `Conserved` is, given `TypeOK`.
* `AgentBatchProofs`: `BatchCycle`, and from it `FailOpenNeverServes`,
  `UnitsDistinct`, `NoDispatchInCooldown` and `ExecutedOnce`. It says what Run's
  locals hold at each point, that no unit's key is in the cache while the unit
  waits, that no dispatched request is anywhere a batch takes requests from. It
  needs `Conserved`.
  * `ThrottledIsDegraded` from `CooldownIsTold`: only a dispatch changes the last
    error, and no dispatch happens in a cooldown.
  * `CacheBounded` from `CacheFits`, which adds that the cache is finite:
    `storeCacheEntry` makes room before it stores.
  * `Accounting` from `CountersTrue`. Its fourth part, that hits, duplicates and
    dispatches do not overlap, is not inductive; what is inductive is that hits
    and duplicates are at most the requests outside `Usable`, the ones that were
    dispatched or may yet be. One lemma, `Recount`, does the arithmetic: a step that
    answers A, admits E, dispatches D and saves G, all new, and adds their sizes
    to the counters keeps the invariant. Each action supplies its four sets.
  * `BatchWithinCaps` from `CapsKept`: chunk and units together are within the cap,
    since every unit was an item of the chunk. The bytes are compared again just
    before the batch is sent; that pickBatchChunk's own estimate could not serve
    instead is what the refusal in run `agent` shows.
* `AgentRelayProofs`: `NoCrossTalk`, from the invariant `Provenance`: what is in a
  result channel or in the cache belongs to a request that may share it, a success to
  one that was executed, and the units being delivered were dispatched. The refinement
  `ImplementsRelay` follows from the invariants of the other modules and this one,
  step by step: a dispatch is `Execute` because a batch holds requests never executed
  and no two with one key (`BatchCycle`), whose calls are open (`Conserved`), and
  because it has as many members as units; the other steps of Run are stutters.

Dispatcher, worker, serve, commands:

* `DispatcherProofs`: `TypeOK`; `TimeSpent`, which is inductive as it stands, and
  `TimeBounded` from it: `elapsed + deadline` is constant within a wait, and a
  deadline can be overrun only so far; `DelayedNotEarly` from the bound in the
  other direction (`WaitsItsTime`); `OutcomeTruthful` from `Progress`, since only the
  batch at hand, which has no outcome yet, gets a run.
* `WorkerProofs`: a step of a fetcher takes a request, ends it, moves it on or
  redirects it (`StepsOfFetcher`), and these four cases carry all proofs.
  `EachRequestOnce` is inductive; `PackageComplete` needs that what is being fetched
  has passed `validateBatch` (`Validated`); `SecretsStayHome` and `BodyKeepsMethod`
  are proved together (`Guarded`), fetcher by fetcher. `FetchWithinDeadline` says
  nothing of a request between two fetches, so it is not inductive; `Timed` is:
  until the deadline is past, what is left of it and what the job's clock has counted
  since the request was taken make up the timeout, and a fetch never outlives it.
* `ServeProofs`: `StatusTruthful` from `Handled`, which ties the states of handler,
  call and client of one request together, with the promise of `Relay` about its
  reply and what its status says of the call (`Told`). It needs that a handler which
  is at work has a client that waits or has left, and that the context of a call by
  the API ends with its client only: so no 504 is ever delivered; `ResetOnlyLate` from `Closing`: which listeners are open in which phase, and
  that the proxy is closed with handlers at work only when the time is up.
* `CommandsProofs`: `TypeOK` with `Placed`, which says where each command can stand;
  `CleanupMeansInstalled` and `DamageIsKept` for any interleaving and any kill.
  `FlagTruthful` from `FlagKept`: commands that do not overlap are one command
  beside at most one serve that is up (`Exclusive`); neither the file nor a copy
  that may be written has the flag while serve is up; a serve that has ended in good
  order still has its mark to make or has made it. `NoStrayProxy` from `ProxyKept`:
  what an install has changed is recorded, still to be recorded by the process
  that changed it (`Dirty`), or being turned off, and the loop of an uninstall has
  turned off all it has passed.

Only model-checked are the liveness properties (`CallsReturnOrStranded`,
`ShutdownCompletes`, `Returns`, `BatchEnds`, `HandlersFinish`, `ServeEnds`): TLAPS
does not reason about fairness and ENABLED. That the value of `batchSizeForPending` is a
number is not proved either, because it is a fold; no proof needs it.

## Seen on the way

Read in the code while modelling it, outside what a run states:

* `src/docs/usage.md:605` says "Shutdown now drains both listeners together". The
  proxy is drained, then the API is closed; its handlers are not waited for
  (`main.go:647`, `ResetOnlyLate`).
* A route state file torn by a crash cannot be repaired by any command
  (`DamageIsKept`), `route uninstall` included, nor can serve start with it: it has
  to be removed by hand.
* A serve that is killed, or whose mark cannot be saved, leaves the route installed
  without the mark. A second serve on a machine where one is running clears the
  flag, fails to listen, and marks cleanup of a route that is being served.
* On Linux, and for the variables on Windows, `proxy install` sets environment
  variables of its own process only (`platform.go:230`): no other program sees them.
* A body over the response limit is cut by the worker, which says so in the result
  (`run-batch.mjs:297-298`). The proxy does not look at it and relays the shortened
  body, with a new Content-Length, as a success (`server.go:381-388`).
  `src/docs/protocol.md:102` lists "`RESPONSE_TOO_LARGE`: Response exceeded the cap.",
  which no part of the program sends. `StatusTruthful` therefore claims nothing of a
  relayed body's completeness.
* A 502 of the proxy may stand for a request that is executed, or will be, after the
  submit timeout; only 400, 413 and 501 mean that it was not sent. The API's 504
  is written when its client has left (`StatusTruthful`).
* A clock set back while the worker fetches a request makes its `timing_ms` negative,
  and `validateGeneratedResultPackage` then fails the whole batch.
* CONNECT is answered 501, so https through the proxy does not work; the functions
  for tunnels in `server.go` are called by nobody.

## Not modelled

Redaction, wording of errors and logs; the fields of batches and packages beyond
ids and outcomes; address ranges; formatting of `status`, `proxy status` and
`Snapshot`, which change nothing; the ranges that `Validate` checks, which are the
assumptions on the constants here; what `networksetup` and `netsh` really do; the
retention workflow, which deletes files older than a day, while a client waits
minutes; build and release scripts, schemas.

The composition of client, dispatcher and worker in one state space is not built:
the interfaces between them are `ProcessBatch`, whose outcomes are enumerated in
`Agent` and produced in `Dispatcher`, and the end of a run, chosen freely in
`Dispatcher` and produced in `Worker`.

## Plan

What is left is beyond the present modules: a composition of `Dispatcher` and
`Worker` through the end of a run, whose outcomes each of them now takes as given,
and with it the theorem that a package `ProcessBatch` returns answers every request
of its batch.
