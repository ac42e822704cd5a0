-------------------------- MODULE DispatcherProofs --------------------------
(***************************************************************************)
(* Dispatcher: its type invariant, the bound on the time of ProcessBatch,  *)
(* the time a delayed run takes at least and the truth of what it returns, *)
(* for all durations and batches.                                          *)
(***************************************************************************)
EXTENDS Dispatcher, TLAPS

\* The initial state has the right types.
LEMMA InitType == Init => TypeOK
<1> SUFFICES ASSUME Init PROVE TypeOK
  OBVIOUS
<1>1. /\ outcome \in [Batches -> Outcomes \cup {"none"}]
      /\ run \in [Batches -> {"none", "queued", "running", "success", "failure"}]
      /\ stored \in [Batches -> {"none", "committed", "visible"}]
  BY DEF Init
<1>2. listed \in [Batches -> BOOLEAN] /\ early \in [Batches -> BOOLEAN]
  BY DEF Init
<1>3. left \in 0 .. (IF pc \in Sleeps THEN PollInterval ELSE HTTPTimeout)
  BY DurationsAssumption DEF Init
<1>4. clockSynced \in BOOLEAN /\ cancelled \in BOOLEAN
  BY DEF Init
<1> QED
  BY <1>1, <1>2, <1>3, <1>4 DEF Init, TypeOK

\* GitHub's acceptance keeps the types of its state.
LEMMA AcceptType ==
  ASSUME TypeOK, Accept
  PROVE  /\ run' \in [Batches -> {"none", "queued", "running", "success", "failure"}]
         /\ early' \in [Batches -> BOOLEAN]
         /\ UNCHANGED <<listed, stored>>
<1>1. run' \in [Batches -> {"none", "queued", "running", "success", "failure"}]
  BY DEF TypeOK, Accept
<1>2. PICK e \in BOOLEAN : early' = [early EXCEPT ![batch] = e]
  BY DEF Accept
<1>3. early' \in [Batches -> BOOLEAN]
  BY <1>2 DEF TypeOK
<1> QED
  BY <1>1, <1>3 DEF Accept

\* A return keeps the types of what it writes.
LEMMA ReturnType ==
  ASSUME TypeOK, NEW x \in Outcomes, Return(x)
  PROVE  /\ outcome' \in [Batches -> Outcomes \cup {"none"}]
         /\ pc' = "idle" /\ left' = 0 /\ deadline' = 0
BY DEF TypeOK, Return

\* An answer's Date header can only set the flag.
LEMMA DateType == TypeOK /\ SeesDate => clockSynced' \in BOOLEAN
BY Zenon DEF TypeOK, SeesDate

\* Steps of ProcessBatch keep the types.
LEMMA ClientType ==
  ASSUME TypeOK, (\E b \in Batches : ProcessBatch(b)) \/ Answer \/ Wake \/ Tick \/ ContextDone
  PROVE  TypeOK'
<1> USE DurationsAssumption DEF Calls, Sleeps, Call, Sleep, github
<1>1. CASE \E b \in Batches : ProcessBatch(b)
  BY <1>1 DEF ProcessBatch, TypeOK
<1>2. CASE CallFails
  <2>1. Return("FAILED") /\ clockSynced' \in BOOLEAN
    BY <1>2, DateType DEF CallFails, TypeOK
  <2> QED
    BY <1>2, <2>1, ReturnType DEF CallFails, TypeOK, Outcomes
<1>3. CASE syncServerClock
  BY <1>3 DEF syncServerClock, TypeOK
<1>4. CASE dispatchBatch
  BY <1>4, AcceptType, DateType DEF dispatchBatch, TypeOK
<1>5. CASE DispatchAnswerLost
  <2>1. Return("FAILED")
    BY <1>5 DEF DispatchAnswerLost
  <2> QED
    BY <1>5, <2>1, ReturnType, AcceptType DEF DispatchAnswerLost, TypeOK, Outcomes
<1>6. CASE RunFound \/ RunNotFound \/ RunPending \/ RunSucceeded \/ PackageNotYet
  BY <1>6, DateType DEF RunFound, RunNotFound, RunPending, RunSucceeded, PackageNotYet, TypeOK
<1>7. CASE RunFailed \/ PackageFound \/ PackageMissing \/ PackageUnusable
  <2>1. PICK x \in Outcomes : Return(x)
    BY <1>7 DEF RunFailed, PackageFound, PackageMissing, PackageUnusable, Outcomes
  <2> QED
    BY <1>7, <2>1, ReturnType, DateType
       DEF RunFailed, PackageFound, PackageMissing, PackageUnusable, TypeOK
<1>8. CASE PollAgain \/ FetchAgain
  BY <1>8 DEF PollAgain, FetchAgain, TypeOK
<1>9. CASE RunDelayed \/ SleepCancelled
  <2>1. PICK x \in Outcomes : Return(x)
    BY <1>9 DEF RunDelayed, SleepCancelled, Outcomes
  <2> QED
    BY <1>9, <2>1, ReturnType DEF RunDelayed, SleepCancelled, TypeOK
<1>10. CASE Tick
  BY <1>10 DEF Tick, TypeOK
<1>11. CASE ContextDone
  BY <1>11 DEF ContextDone, TypeOK
<1> QED
  BY <1>1, <1>2, <1>3, <1>4, <1>5, <1>6, <1>7, <1>8, <1>9, <1>10, <1>11 DEF Answer, Wake

\* Steps of GitHub keep the types.
LEMMA GitHubType == TypeOK /\ GitHub => TypeOK'
<1> SUFFICES ASSUME TypeOK, NEW b \in Batches,
                    \/ Listed(b) \/ RunStarts(b) \/ Publishes(b) \/ BecomesVisible(b)
                    \/ \E c \in {"success", "failure"} : RunEnds(b, c)
             PROVE  TypeOK'
  BY DEF GitHub
<1>1. UNCHANGED <<client, early>>
  BY DEF Listed, RunStarts, Publishes, BecomesVisible, RunEnds
<1>2. UNCHANGED <<pc, batch, left, deadline, clockSynced, cancelled, outcome, elapsed, early>>
  BY <1>1 DEF client
<1>3. run' \in [Batches -> {"none", "queued", "running", "success", "failure"}]
  BY DEF Listed, RunStarts, Publishes, BecomesVisible, RunEnds, TypeOK
<1>4. listed' \in [Batches -> BOOLEAN]
  BY DEF Listed, RunStarts, Publishes, BecomesVisible, RunEnds, TypeOK
<1>5. stored' \in [Batches -> {"none", "committed", "visible"}]
  BY DEF Listed, RunStarts, Publishes, BecomesVisible, RunEnds, TypeOK
<1> QED
  BY <1>2, <1>3, <1>4, <1>5 DEF TypeOK

\* Dispatcher's variables keep their types.
THEOREM TypeCorrect == Spec => []TypeOK
<1>1. Init => TypeOK
  BY InitType
<1>2. TypeOK /\ [Next]_vars => TypeOK'
  <2>1. TypeOK /\ UNCHANGED vars => TypeOK'
    BY DEF vars, github, TypeOK
  <2> QED
    BY <2>1, ClientType, GitHubType DEF Next
<1> QED
  BY <1>1, <1>2, PTL DEF Spec

\* Each step of ProcessBatch spends what its wait still has, and no more.
LEMMA NextTime == TypeOK /\ TimeSpent /\ [Next]_vars => TimeSpent'
<1> SUFFICES ASSUME TypeOK, TimeSpent, [Next]_vars PROVE TimeSpent'
  OBVIOUS
<1> USE DurationsAssumption DEF TimeSpent, TimeBounded, Bound
<1>0. /\ elapsed \in Nat /\ deadline \in Int /\ left \in Nat
      /\ pc \in Calls \cup {"idle"} => left <= HTTPTimeout
      /\ pc \in Sleeps => left <= PollInterval
  BY DEF TypeOK, Calls, Sleeps
<1>1. CASE UNCHANGED <<pc, left, deadline, elapsed>>
  BY <1>1
<1>2. CASE \E b \in Batches : ProcessBatch(b)
  BY <1>0, <1>2 DEF ProcessBatch, Call
<1>3. ASSUME UNCHANGED elapsed, pc' = "idle" PROVE TimeSpent'
  BY <1>3
<1>4. CASE CallFails \/ DispatchAnswerLost \/ RunFailed \/ PackageFound \/ PackageMissing
             \/ PackageUnusable \/ RunDelayed \/ SleepCancelled
  <2>1. UNCHANGED elapsed /\ pc' = "idle"
    BY <1>4 DEF CallFails, DispatchAnswerLost, RunFailed, PackageFound, PackageMissing,
       PackageUnusable, RunDelayed, SleepCancelled, Return
  <2> QED
    BY <2>1, <1>3
<1>5. CASE syncServerClock
  BY <1>0, <1>5 DEF syncServerClock, Call
<1>6. CASE dispatchBatch
  BY <1>0, <1>6 DEF dispatchBatch, Call
<1>7. CASE RunFound
  BY <1>0, <1>7 DEF RunFound, Call
<1>8. CASE RunNotFound
  BY <1>0, <1>8 DEF RunNotFound, Sleep
<1>9. CASE RunPending
  BY <1>0, <1>9 DEF RunPending, Sleep
<1>10. CASE RunSucceeded
  BY <1>0, <1>10 DEF RunSucceeded, Call
<1>11. CASE PackageNotYet
  BY <1>0, <1>11 DEF PackageNotYet, Sleep, Overdue
<1>12. CASE PollAgain
  BY <1>0, <1>12 DEF PollAgain, Call, Overdue
<1>13. CASE FetchAgain
  BY <1>0, <1>13 DEF FetchAgain, Call
<1>14. CASE Tick
  <2>1. /\ left > 0 /\ left' = left - 1 /\ elapsed' = elapsed + 1 /\ pc' = pc /\ pc # "idle"
        /\ pc \in {"sync", "dispatch"} => deadline' = deadline
        /\ pc \notin {"sync", "dispatch"} => deadline' = deadline - 1
    BY <1>14 DEF Tick
  <2>2. pc \in {"sync", "dispatch", "find", "findSleep", "complete", "completeSleep", "fetch",
                "fetchSleep"}
    BY <2>1 DEF TypeOK, Calls, Sleeps
  <2> QED
    BY <1>0, <2>1, <2>2 DEF Calls, Sleeps
<1>15. CASE ContextDone \/ GitHub \/ UNCHANGED vars
  BY <1>1, <1>15 DEF ContextDone, GitHub, Listed, RunStarts, Publishes, BecomesVisible, RunEnds,
     client, vars
<1> QED
  BY <1>2, <1>4, <1>5, <1>6, <1>7, <1>8, <1>9, <1>10, <1>11, <1>12, <1>13, <1>14, <1>15
     DEF Next, Answer, Wake

\* At every point of ProcessBatch (src/client/internal/githubapi/dispatcher.go) the time
\* spent and the time its wait has left add up to no more than what the calls and waits
\* up to there allow.
THEOREM TimeIsSpent == Spec => []TimeSpent
<1>1. Init => TimeSpent
  BY DurationsAssumption DEF Init, TimeSpent, TimeBounded, Bound
<1>2. TypeOK /\ TimeSpent /\ [Next]_vars => TimeSpent'
  BY NextTime
<1> QED
  BY <1>1, <1>2, TypeCorrect, PTL DEF Spec

\* ProcessBatch never holds the agent's loop longer than Bound.
THEOREM ProcessBatchTime == Spec => []TimeBounded
<1>1. TimeSpent => TimeBounded
  BY DEF TimeSpent
<1> QED
  BY <1>1, TimeIsSpent, PTL

\* A wait has lasted at least what its timeout has lost.
WaitsItsTime ==
  /\ pc \in {"find", "findSleep"} => elapsed + deadline >= RunStartTimeout
  /\ pc \in {"complete", "completeSleep"} => elapsed + deadline >= RunCompletionTimeout

\* Each wait starts with its whole timeout, and only time takes from it.
LEMMA NextWaits == TypeOK /\ WaitsItsTime /\ [Next]_vars => WaitsItsTime'
<1> SUFFICES ASSUME TypeOK, WaitsItsTime, [Next]_vars PROVE WaitsItsTime'
  OBVIOUS
<1> USE DurationsAssumption DEF WaitsItsTime
<1>0. elapsed \in Nat /\ deadline \in Int
  BY DEF TypeOK
<1>1. CASE UNCHANGED <<pc, deadline, elapsed>>
  BY <1>1
<1>2. CASE \E b \in Batches : ProcessBatch(b)
  BY <1>2 DEF ProcessBatch, Call
<1>3. CASE CallFails \/ DispatchAnswerLost \/ RunFailed \/ PackageFound \/ PackageMissing
             \/ PackageUnusable \/ RunDelayed \/ SleepCancelled
  BY <1>3 DEF CallFails, DispatchAnswerLost, RunFailed, PackageFound, PackageMissing,
     PackageUnusable, RunDelayed, SleepCancelled, Return
<1>4. CASE syncServerClock \/ RunSucceeded \/ PackageNotYet \/ FetchAgain
  BY <1>4 DEF syncServerClock, RunSucceeded, PackageNotYet, FetchAgain, Call, Sleep
<1>5. CASE dispatchBatch \/ RunFound
  BY <1>0, <1>5 DEF dispatchBatch, RunFound, Call
<1>6. CASE RunNotFound \/ RunPending \/ PollAgain
  BY <1>0, <1>6 DEF RunNotFound, RunPending, PollAgain, Call, Sleep
<1>7. CASE Tick
  <2>1. /\ elapsed' = elapsed + 1 /\ pc' = pc
        /\ pc \notin {"sync", "dispatch"} => deadline' = deadline - 1
    BY <1>7 DEF Tick
  <2> QED
    BY <1>0, <2>1
<1>8. CASE ContextDone \/ GitHub \/ UNCHANGED vars
  BY <1>1, <1>8 DEF ContextDone, GitHub, Listed, RunStarts, Publishes, BecomesVisible, RunEnds,
     client, vars
<1> QED
  BY <1>2, <1>3, <1>4, <1>5, <1>6, <1>7, <1>8 DEF Next, Answer, Wake

\* RUN_DELAYED, on which the agent starts its cooldown, is never reported before one of
\* the two configured timeouts has passed (waitForRun and waitForRunCompletion).
THEOREM DelayedTakesTime == Spec => DelayedNotEarly
<1>1. Init => WaitsItsTime
  BY DEF Init, WaitsItsTime
<1>2. TypeOK /\ WaitsItsTime /\ [Next]_vars => WaitsItsTime'
  BY NextWaits
<1>3. TypeOK /\ WaitsItsTime /\ [Next]_vars =>
        [RunDelayed => elapsed > (IF RunStartTimeout < RunCompletionTimeout
                                  THEN RunStartTimeout ELSE RunCompletionTimeout)]_vars
  <2> SUFFICES ASSUME TypeOK, WaitsItsTime, RunDelayed
               PROVE  elapsed > (IF RunStartTimeout < RunCompletionTimeout
                                 THEN RunStartTimeout ELSE RunCompletionTimeout)
    OBVIOUS
  <2>1. elapsed \in Nat /\ deadline \in Int /\ deadline < 0 /\ pc \in {"findSleep", "completeSleep"}
    BY DEF TypeOK, RunDelayed, Overdue
  <2> QED
    BY <2>1, DurationsAssumption DEF WaitsItsTime
<1> QED
  BY <1>1, <1>2, <1>3, TypeCorrect, PTL DEF Spec, DelayedNotEarly

\* A run that has ended, and a file that is visible, stay so: only the batch at
\* hand, which has no outcome yet, gets a new run.
LEMMA NextTruth ==
  TypeOK /\ OutcomeTruthful /\ Progress /\ [Next]_vars => OutcomeTruthful' /\ Progress'
<1> SUFFICES ASSUME TypeOK, OutcomeTruthful, Progress, [Next]_vars
             PROVE  OutcomeTruthful' /\ Progress'
  OBVIOUS
<1> USE DEF OutcomeTruthful, Progress, github, Call, Sleep
<1>1. CASE \E b \in Batches : ProcessBatch(b)
  BY <1>1 DEF ProcessBatch
<1>2. CASE /\ UNCHANGED <<outcome, run, stored, batch>>
           /\ pc' # "idle" => pc # "idle"
           /\ pc' \in {"fetch", "fetchSleep"} =>
                pc \in {"fetch", "fetchSleep"} \/ run[batch] = "success"
  BY <1>2
<1>3. CASE dispatchBatch \/ DispatchAnswerLost
  <2>1. /\ outcome[batch] = "none"
        /\ \A b \in Batches : b # batch => run'[b] = run[b] /\ outcome'[b] = outcome[b]
        /\ outcome'[batch] \in {"none", "FAILED"}
        /\ UNCHANGED <<stored, batch>>
        /\ pc' \notin {"fetch", "fetchSleep"}
        /\ pc' # "idle" => UNCHANGED outcome
    BY <1>3 DEF dispatchBatch, DispatchAnswerLost, Accept, Return, TypeOK
  <2> QED
    BY <2>1 DEF TypeOK
<1>4. ASSUME NEW x \in Outcomes, Return(x), UNCHANGED <<run, stored>>,
             x = "package" => run[batch] = "success" /\ stored[batch] = "visible",
             x = "WORKER_ERROR" => run[batch] = "failure",
             x = "RESULT_PACKAGE_NOT_FOUND" => run[batch] = "success"
      PROVE  OutcomeTruthful' /\ Progress'
  <2>1. /\ \A b \in Batches : b # batch => outcome'[b] = outcome[b]
        /\ outcome'[batch] = x
        /\ pc' = "idle"
    BY <1>4 DEF Return, TypeOK
  <2> QED
    BY <1>4, <2>1 DEF TypeOK
<1>5. CASE CallFails \/ SleepCancelled \/ RunDelayed
  <2>1. PICK x \in {"FAILED", "RUN_DELAYED"} : Return(x) /\ UNCHANGED <<run, stored>>
    BY <1>5 DEF CallFails, SleepCancelled, RunDelayed
  <2> QED
    BY <1>4, <2>1 DEF Outcomes
<1>6. CASE RunFailed
  BY <1>4, <1>6 DEF RunFailed, Outcomes
<1>7. CASE PackageFound
  BY <1>4, <1>7 DEF PackageFound, Outcomes
<1>8. CASE PackageMissing \/ PackageUnusable
  BY <1>4, <1>8 DEF PackageMissing, PackageUnusable, Outcomes
<1>9. CASE GitHub
  <2>1. PICK b \in Batches :
          \/ Listed(b) \/ RunStarts(b) \/ Publishes(b) \/ BecomesVisible(b)
          \/ \E c \in {"success", "failure"} : RunEnds(b, c)
    BY <1>9 DEF GitHub
  <2>2. /\ UNCHANGED <<pc, batch, outcome>>
        /\ \A a \in Batches : run[a] \in {"success", "failure"} => run'[a] = run[a]
        /\ \A a \in Batches : stored[a] = "visible" => stored'[a] = "visible"
    BY <2>1 DEF Listed, RunStarts, Publishes, BecomesVisible, RunEnds, client, TypeOK
  <2> QED
    BY <2>2 DEF TypeOK
<1>10. CASE \/ syncServerClock \/ RunFound \/ RunNotFound \/ RunPending \/ RunSucceeded
            \/ PackageNotYet \/ PollAgain \/ FetchAgain \/ Tick \/ ContextDone \/ UNCHANGED vars
  BY <1>2, <1>10 DEF syncServerClock, RunFound, RunNotFound, RunPending, RunSucceeded,
     PackageNotYet, PollAgain, FetchAgain, Tick, ContextDone, vars
<1> QED
  BY <1>1, <1>3, <1>5, <1>6, <1>7, <1>8, <1>9, <1>10 DEF Next, Answer, Wake

\* What ProcessBatch returns agrees with what became of the run.
THEOREM ReturnsTheTruth == Spec => []OutcomeTruthful
<1>1. Init => OutcomeTruthful /\ Progress
  BY DEF Init, OutcomeTruthful, Progress
<1>2. TypeOK /\ OutcomeTruthful /\ Progress /\ [Next]_vars => OutcomeTruthful' /\ Progress'
  BY NextTruth
<1> QED
  BY <1>1, <1>2, TypeCorrect, PTL DEF Spec
============================================================================
