----------------------------- MODULE Dispatcher -----------------------------
(***************************************************************************)
(* The dispatcher (client/internal/githubapi): ProcessBatch sends a batch  *)
(* to GitHub as a workflow dispatch, looks for the run it started, waits   *)
(* for the run to complete and downloads the result package the run        *)
(* published.  Run of module Agent calls it for one batch after another.   *)
(*                                                                         *)
(* GitHub is the environment: it creates a run, lists it after a while,    *)
(* runs the worker, lets it publish and shows the published file, each at  *)
(* its own pace.  Answers of the API reflect GitHub's state when they      *)
(* arrive.  Time is counted in ticks: `left' is what remains of the HTTP   *)
(* client's timeout or of the sleep between two polls, `deadline' what     *)
(* remains until the deadline of the current wait, negative once past it.  *)
(***************************************************************************)
EXTENDS Integers

CONSTANTS
  Batches,               \* batch ids
  HTTPTimeout,           \* the HTTP client's timeout
  PollInterval,
  RunStartTimeout,
  RunCompletionTimeout,
  MayCancel              \* whether Run's context is ever cancelled

\* Config validation and NewDispatcher make every duration positive.
ASSUME DurationsAssumption ==
  /\ HTTPTimeout \in Nat \ {0}
  /\ PollInterval \in Nat \ {0}
  /\ RunStartTimeout \in Nat \ {0}
  /\ RunCompletionTimeout \in Nat \ {0}
  /\ MayCancel \in BOOLEAN

VARIABLES
  pc,          \* where ProcessBatch stands; "idle" between calls
  batch,       \* the batch at hand
  left,        \* time left of the HTTP call or of the sleep in progress
  deadline,    \* time left until the deadline of the wait in progress
  clockSynced, \* serverClockSynced
  cancelled,   \* Run's context is cancelled
  outcome,     \* what ProcessBatch returned for each batch
  elapsed,     \* time since ProcessBatch was called
  run,         \* GitHub: the run of each batch
  listed,      \* GitHub: the list of runs shows it
  early,       \* GitHub: its created_at is a second before the Date of the answer
  stored       \* GitHub: its result file: none, committed, visible

github == <<run, listed, early, stored>>
vars == <<pc, batch, left, deadline, clockSynced, cancelled, outcome, elapsed, github>>

Calls  == {"sync", "dispatch", "find", "complete", "fetch"}
Sleeps == {"findSleep", "completeSleep", "fetchSleep"}

\* Return values: a package, or an error with the code its text starts with
\* ("FAILED" when it has none).
Outcomes == {"package", "RUN_DELAYED", "WORKER_ERROR", "RESULT_PACKAGE_NOT_FOUND", "FAILED"}
----------------------------------------------------------------------------
(* Moves of ProcessBatch. *)

\* The next API call starts.
Call(where) == pc' = where /\ left' = HTTPTimeout

\* Mutant: the sleep takes the wrong duration.
MutantSleep(where) == pc' = where /\ left' = RunStartTimeout

\* select on the context and time.After(pollInterval)
Sleep(where) == pc' = where /\ left' = PollInterval

Return(result) ==
  /\ outcome' = [outcome EXCEPT ![batch] = result]
  /\ pc' = "idle"
  /\ left' = 0
  /\ deadline' = 0

\* Any answer may carry a Date header (updateServerClockFromDateHeader).
SeesDate == clockSynced' \in {clockSynced, TRUE}

\* Mutant: overdue before the deadline has passed.
MutantOverdue == deadline <= PollInterval

\* now.After(deadline)
Overdue == deadline < 0

\* ValidateRequestBatch has passed already in Agent.
ProcessBatch(b) ==
  /\ pc = "idle"
  /\ outcome[b] = "none"
  /\ batch' = b
  /\ Call(IF clockSynced THEN "dispatch" ELSE "sync")
  /\ elapsed' = 0
  /\ UNCHANGED <<deadline, clockSynced, cancelled, outcome, github>>

\* An API call fails: no answer in time, an error status, a body that does not
\* decode, a package that does not validate or names another batch; or the
\* context ends it.
CallFails ==
  /\ pc \in Calls
  /\ IF pc = "sync" THEN UNCHANGED clockSynced ELSE SeesDate
  /\ Return("FAILED")
  /\ UNCHANGED <<batch, cancelled, elapsed, github>>

\* The context ends a sleep.
SleepCancelled ==
  /\ pc \in Sleeps
  /\ cancelled
  /\ Return("FAILED")
  /\ UNCHANGED <<batch, clockSynced, cancelled, elapsed, github>>

\* syncServerClock got a Date header.
syncServerClock ==
  /\ pc = "sync"
  /\ clockSynced' = TRUE
  /\ Call("dispatch")
  /\ UNCHANGED <<batch, deadline, cancelled, outcome, elapsed, github>>

\* GitHub accepts the dispatch and creates the run.
Accept ==
  /\ run' = [run EXCEPT ![batch] = "queued"]
  /\ \E e \in BOOLEAN : early' = [early EXCEPT ![batch] = e]
  /\ UNCHANGED <<listed, stored>>

\* Status 204: waitForRun begins.
dispatchBatch ==
  /\ pc = "dispatch"
  /\ SeesDate
  /\ Accept
  /\ Call("find")
  /\ deadline' = RunStartTimeout
  /\ UNCHANGED <<batch, cancelled, outcome, elapsed>>

\* GitHub accepts it but the answer does not arrive.
DispatchAnswerLost ==
  /\ pc = "dispatch"
  /\ Accept
  /\ Return("FAILED")
  /\ UNCHANGED <<batch, clockSynced, cancelled, elapsed>>

\* findRunForBatch skips a run created before the dispatch was answered.
Matches(b) == listed[b] /\ ~early[b]

RunFound ==
  /\ pc = "find"
  /\ SeesDate
  /\ Matches(batch)
  /\ Call("complete")
  /\ deadline' = RunCompletionTimeout
  /\ UNCHANGED <<batch, cancelled, outcome, elapsed, github>>

RunNotFound ==
  /\ pc = "find"
  /\ SeesDate
  /\ ~Matches(batch)
  /\ Sleep("findSleep")
  /\ UNCHANGED <<batch, deadline, cancelled, outcome, elapsed, github>>

\* getRun reports a run that has not completed.
RunPending ==
  /\ pc = "complete"
  /\ SeesDate
  /\ run[batch] \in {"queued", "running"}
  /\ Sleep("completeSleep")
  /\ UNCHANGED <<batch, deadline, cancelled, outcome, elapsed, github>>

RunFailed ==
  /\ pc = "complete"
  /\ SeesDate
  /\ run[batch] = "failure"
  /\ Return("WORKER_ERROR")
  /\ UNCHANGED <<batch, cancelled, elapsed, github>>

\* Mutant: the conclusion of a completed run is not looked at.
MutantRunSucceeded ==
  /\ pc = "complete"
  /\ SeesDate
  /\ run[batch] \in {"success", "failure"}
  /\ Call("fetch")
  /\ deadline' = RunCompletionTimeout
  /\ UNCHANGED <<batch, cancelled, outcome, elapsed, github>>

\* waitForResultPackage begins.
RunSucceeded ==
  /\ pc = "complete"
  /\ SeesDate
  /\ run[batch] = "success"
  /\ Call("fetch")
  /\ deadline' = RunCompletionTimeout
  /\ UNCHANGED <<batch, cancelled, outcome, elapsed, github>>

\* Mutant: each poll starts the wait anew.
MutantPollAgain ==
  /\ left = 0
  /\ ~Overdue
  /\ \/ pc = "findSleep" /\ Call("find") /\ deadline' = RunStartTimeout
     \/ pc = "completeSleep" /\ Call("complete") /\ deadline' = RunCompletionTimeout
  /\ UNCHANGED <<batch, clockSynced, cancelled, outcome, elapsed, github>>

\* waitForRun and waitForRunCompletion look at the deadline before each poll.
PollAgain ==
  /\ left = 0
  /\ ~Overdue
  /\ \/ pc = "findSleep" /\ Call("find")
     \/ pc = "completeSleep" /\ Call("complete")
  /\ UNCHANGED <<batch, deadline, clockSynced, cancelled, outcome, elapsed, github>>

\* Mutant: only waitForRun gives up.
MutantRunDelayed ==
  /\ pc = "findSleep"
  /\ left = 0
  /\ Overdue
  /\ Return("RUN_DELAYED")
  /\ UNCHANGED <<batch, clockSynced, cancelled, elapsed, github>>

RunDelayed ==
  /\ pc \in {"findSleep", "completeSleep"}
  /\ left = 0
  /\ Overdue
  /\ Return("RUN_DELAYED")
  /\ UNCHANGED <<batch, clockSynced, cancelled, elapsed, github>>

\* downloadResultPackage got the file and it is the package of this batch.
PackageFound ==
  /\ pc = "fetch"
  /\ SeesDate
  /\ stored[batch] = "visible"
  /\ Return("package")
  /\ UNCHANGED <<batch, cancelled, elapsed, github>>

\* Mutant: waitForResultPackage sleeps whatever the deadline says.
MutantPackageNotYet ==
  /\ pc = "fetch"
  /\ SeesDate
  /\ stored[batch] # "visible"
  /\ Sleep("fetchSleep")
  /\ UNCHANGED <<batch, deadline, cancelled, outcome, elapsed, github>>

\* Status 404: waitForResultPackage looks at the deadline after the poll.
PackageNotYet ==
  /\ pc = "fetch"
  /\ SeesDate
  /\ stored[batch] # "visible"
  /\ ~Overdue
  /\ Sleep("fetchSleep")
  /\ UNCHANGED <<batch, deadline, cancelled, outcome, elapsed, github>>

PackageMissing ==
  /\ pc = "fetch"
  /\ SeesDate
  /\ stored[batch] # "visible"
  /\ Overdue
  /\ Return("RESULT_PACKAGE_NOT_FOUND")
  /\ UNCHANGED <<batch, cancelled, elapsed, github>>

\* The answer is not a base64 file: GitHub leaves the content of a large one out.
PackageUnusable ==
  /\ pc = "fetch"
  /\ SeesDate
  /\ stored[batch] = "visible"
  /\ Return("RESULT_PACKAGE_NOT_FOUND")
  /\ UNCHANGED <<batch, cancelled, elapsed, github>>

FetchAgain ==
  /\ pc = "fetchSleep"
  /\ left = 0
  /\ Call("fetch")
  /\ UNCHANGED <<batch, deadline, clockSynced, cancelled, outcome, elapsed, github>>

\* Once the context is cancelled every call fails; GitHub may have acted on it.
Answer ==
  \/ CallFails \/ DispatchAnswerLost
  \/ /\ ~cancelled
     /\ \/ syncServerClock \/ dispatchBatch
        \/ RunFound \/ RunNotFound \/ RunPending \/ RunFailed \/ RunSucceeded
        \/ PackageFound \/ PackageUnusable \/ PackageNotYet \/ PackageMissing

Wake == PollAgain \/ RunDelayed \/ FetchAgain \/ SleepCancelled

\* A call ends within the client's timeout, a sleep when it is over.
Tick ==
  /\ pc # "idle"
  /\ left > 0
  /\ left' = left - 1
  /\ deadline' = IF pc \in {"sync", "dispatch"} THEN deadline ELSE deadline - 1
  /\ elapsed' = elapsed + 1
  /\ UNCHANGED <<pc, batch, clockSynced, cancelled, outcome, github>>

ContextDone ==
  /\ MayCancel
  /\ ~cancelled
  /\ cancelled' = TRUE
  /\ UNCHANGED <<pc, batch, left, deadline, clockSynced, outcome, elapsed, github>>
----------------------------------------------------------------------------
(* GitHub. *)

client == <<pc, batch, left, deadline, clockSynced, cancelled, outcome, elapsed>>

Listed(b) ==
  /\ run[b] # "none"
  /\ ~listed[b]
  /\ listed' = [listed EXCEPT ![b] = TRUE]
  /\ UNCHANGED <<client, run, early, stored>>

RunStarts(b) ==
  /\ run[b] = "queued"
  /\ run' = [run EXCEPT ![b] = "running"]
  /\ UNCHANGED <<client, listed, early, stored>>

\* The last step of the job commits the package to the results branch.
Publishes(b) ==
  /\ run[b] = "running"
  /\ stored[b] = "none"
  /\ stored' = [stored EXCEPT ![b] = "committed"]
  /\ UNCHANGED <<client, run, listed, early>>

BecomesVisible(b) ==
  /\ stored[b] = "committed"
  /\ stored' = [stored EXCEPT ![b] = "visible"]
  /\ UNCHANGED <<client, run, listed, early>>

RunEnds(b, conclusion) ==
  /\ run[b] = "running"
  /\ conclusion = "success" => stored[b] # "none"
  /\ run' = [run EXCEPT ![b] = conclusion]
  /\ UNCHANGED <<client, listed, early, stored>>

GitHub ==
  \E b \in Batches :
    \/ Listed(b) \/ RunStarts(b) \/ Publishes(b) \/ BecomesVisible(b)
    \/ \E conclusion \in {"success", "failure"} : RunEnds(b, conclusion)
----------------------------------------------------------------------------
Init ==
  /\ pc = "idle"
  /\ batch \in Batches
  /\ left = 0
  /\ deadline = 0
  /\ clockSynced = FALSE
  /\ cancelled = FALSE
  /\ outcome = [b \in Batches |-> "none"]
  /\ elapsed = 0
  /\ run = [b \in Batches |-> "none"]
  /\ listed = [b \in Batches |-> FALSE]
  /\ early = [b \in Batches |-> FALSE]
  /\ stored = [b \in Batches |-> "none"]

Next ==
  \/ \E b \in Batches : ProcessBatch(b)
  \/ Answer
  \/ Wake
  \/ Tick
  \/ ContextDone
  \/ GitHub

\* The HTTP client's timeout ends every call, the runtime wakes every sleeper and
\* time passes.  GitHub owes nothing.
Fairness == WF_vars(Tick) /\ WF_vars(Wake) /\ WF_vars(left = 0 /\ Answer)

Spec == Init /\ [][Next]_vars /\ Fairness
----------------------------------------------------------------------------
(* Properties. *)

\* Every variable keeps its shape.
TypeOK ==
  /\ pc \in {"idle"} \cup Calls \cup Sleeps
  /\ batch \in Batches
  /\ left \in 0 .. (IF pc \in Sleeps THEN PollInterval ELSE HTTPTimeout)
  /\ deadline \in Int
  /\ clockSynced \in BOOLEAN
  /\ cancelled \in BOOLEAN
  /\ outcome \in [Batches -> Outcomes \cup {"none"}]
  /\ elapsed \in Nat
  /\ run \in [Batches -> {"none", "queued", "running", "success", "failure"}]
  /\ listed \in [Batches -> BOOLEAN]
  /\ early \in [Batches -> BOOLEAN]
  /\ stored \in [Batches -> {"none", "committed", "visible"}]

\* What ProcessBatch reports agrees with what happened to the run of that batch: a
\* package comes from a run that succeeded, WORKER_ERROR means that it failed, and a
\* missing package is only reported of a run that succeeded.
OutcomeTruthful ==
  \A b \in Batches :
    /\ outcome[b] = "package" => run[b] = "success" /\ stored[b] = "visible"
    /\ outcome[b] = "WORKER_ERROR" => run[b] = "failure"
    /\ outcome[b] = "RESULT_PACKAGE_NOT_FOUND" => run[b] = "success"

\* Why: nothing is returned for the batch at hand before its wait ends, and the
\* package is only looked for after the run succeeded.
Progress ==
  /\ pc # "idle" => outcome[batch] = "none"
  /\ pc \in {"fetch", "fetchSleep"} => run[batch] = "success"

\* The longest ProcessBatch can take: the clock call and the dispatch, the three
\* deadlines, the call in which each wait overruns its deadline, and the sleep
\* before the last download.
Bound == RunStartTimeout + 2 * RunCompletionTimeout + 5 * HTTPTimeout + PollInterval

\* The agent's loop, which cannot drain its queue meanwhile, is never held
\* longer than this, however GitHub behaves.
TimeBounded == elapsed <= Bound

\* Why: elapsed + deadline does not change within a wait, and a wait ends before
\* its deadline is further past than a call, or a call and a sleep.
TimeSpent ==
  /\ pc = "sync" => elapsed + left <= HTTPTimeout
  /\ pc = "dispatch" => elapsed + left <= 2 * HTTPTimeout
  /\ pc \in {"find", "findSleep"} => elapsed + deadline <= 2 * HTTPTimeout + RunStartTimeout
  /\ pc \in {"complete", "completeSleep"} =>
       elapsed + deadline <= 3 * HTTPTimeout + RunStartTimeout + RunCompletionTimeout
  /\ pc \in {"fetch", "fetchSleep"} =>
       elapsed + deadline <= 4 * HTTPTimeout + RunStartTimeout + 2 * RunCompletionTimeout
  /\ pc \in {"find", "complete"} => deadline >= left - HTTPTimeout
  /\ pc \in {"findSleep", "completeSleep"} => deadline >= left - PollInterval - HTTPTimeout
  /\ pc = "fetchSleep" => deadline >= left - PollInterval
  /\ pc = "fetch" => deadline >= left - HTTPTimeout - PollInterval
  /\ TimeBounded

\* RUN_DELAYED, which makes the agent refuse requests for a cooldown, is never
\* reported before one of the two configured timeouts has passed.
DelayedNotEarly ==
  [][RunDelayed => elapsed > (IF RunStartTimeout < RunCompletionTimeout
                              THEN RunStartTimeout ELSE RunCompletionTimeout)]_vars

\* Every call of ProcessBatch returns.
Returns == (pc # "idle") ~> (pc = "idle")

\* RUN_DELAYED says that the workflow did not start quickly enough (docs/protocol.md).
DelayedMeansNotStarted ==
  [][RunDelayed => run[batch] \in {"none", "queued"}]_vars
============================================================================
