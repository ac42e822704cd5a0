----------------------------- MODULE AgentStatus -----------------------------
(***************************************************************************)
(* What `actionrelay status' tells the operator about a running agent: the *)
(* issues and severity of buildDiagnostics and the health class of         *)
(* buildSupportability, both computed from the agent's Snapshot.  The      *)
(* agent's model has no absolute time, so what depends on the age of a     *)
(* timestamp is a parameter:                                               *)
(*   slow    the last batch took longer than two minutes,                  *)
(*   stuck   the last batch was sent more than two minutes ago,            *)
(*   silent  the last result is more than fifteen minutes old.             *)
(***************************************************************************)
EXTENDS Agent

\* What the API hands to status.
Snapshot ==
  [QueueDepth |-> Len(queue), QueueCapacity |-> MaxQueueRequests,
   BackpressureActive |-> BackpressureActive, DispatchInFlight |-> dispatchInFlight,
   LastDispatchErrorCode |-> lastError,
   TotalCompleted |-> stats.completed, TotalFailed |-> stats.failed]

buildDiagnostics(s, slow, stuck) ==
  { x \in [issue : {"batch_latency_high", "backpressure_active", "queue_pressure_high",
                    "last_dispatch_error", "error_rate_elevated"}, severity : {"warning"}]
            \cup {[issue |-> "dispatch_inflight_stuck", severity |-> "critical"]} :
      CASE x.issue = "batch_latency_high"      -> slow
        [] x.issue = "backpressure_active"     -> s.BackpressureActive
        [] x.issue = "queue_pressure_high"     -> s.QueueDepth > (8 * s.QueueCapacity) \div 10
        [] x.issue = "last_dispatch_error"     -> s.LastDispatchErrorCode # "none"
        [] x.issue = "dispatch_inflight_stuck" -> s.DispatchInFlight /\ stuck
        [] x.issue = "error_rate_elevated"     -> s.TotalFailed > s.TotalCompleted
                                                  /\ s.TotalFailed > 10 }

\* maxSeverity over the issues found.
maxSeverity(issues) ==
  IF \E x \in issues : x.severity = "critical" THEN "critical"
  ELSE IF issues # {} THEN "warning" ELSE "ok"

\* Twenty failures and 30 in a hundred make the agent unhealthy.
buildSupportability(s, silent) ==
  IF s.TotalFailed >= 20
       /\ 10 * s.TotalFailed >= 3 * (s.TotalCompleted + s.TotalFailed)
  THEN "unhealthy"
  ELSE IF s.LastDispatchErrorCode # "none" \/ silent THEN "degraded"
  ELSE "healthy"

\* While a cooldown turns callers away, status never calls the agent healthy: the
\* delayed run stays the last error until the cooldown is over, although
\* buildSupportability does not look at the cooldown at all and every batch, cache
\* hit and shutdown in between has its chance to wipe the error.
ThrottledIsDegraded ==
  BackpressureActive =>
    /\ lastError = "RUN_DELAYED"
    /\ buildSupportability(Snapshot, FALSE) # "healthy"
    /\ maxSeverity(buildDiagnostics(Snapshot, FALSE, FALSE)) # "ok"
============================================================================
