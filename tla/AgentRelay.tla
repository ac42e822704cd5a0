----------------------------- MODULE AgentRelay -----------------------------
(***************************************************************************)
(* The agent implements Relay: a call is open from the moment it has       *)
(* passed the checks, and a request is sent when a batch carries it.       *)
(***************************************************************************)
EXTENDS Agent

CallOf == [idle |-> "idle", checked |-> "open", enqueued |-> "open", waiting |-> "open",
           returned |-> "answered", cancelled |-> "abandoned"]

R == INSTANCE Relay WITH
       Answers <- [ok : BOOLEAN, code : Codes],
       call    <- [r \in Requests |-> CallOf[caller[r]]],
       sent    <- stats.dispatchedRequests

\* Every step of Submit, Run and the dispatcher is a step of Relay or none that its
\* callers can see: whatever the queue, the batches and the cache do, a call is
\* answered once, with its own or a shared response that a worker has produced, and no
\* request is sent to a worker twice.
ImplementsRelay == R!RelaySpec
============================================================================
