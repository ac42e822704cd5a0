------------------------------- MODULE Serve -------------------------------
(***************************************************************************)
(* `actionrelay serve' while it runs: the HTTP proxy                       *)
(* (client/internal/proxy), the local API of runServe with its client      *)
(* `fetch', their handlers around the agent's Submit, and the shutdown of  *)
(* the two listeners.  The agent is known by its abstract specification    *)
(* only: it executes and answers when it likes, or never.                  *)
(*                                                                         *)
(* A member of Requests is one HTTP request, which reaches the agent as    *)
(* the call of the same name if its handler lets it pass.  The code of a   *)
(* response is the encoding of its body: "base64", "cut" for base64 of a   *)
(* body the worker has truncated, or "utf8".                               *)
(***************************************************************************)
EXTENDS Relay

CONSTANTS SubmitTimeout,    \* submitTimeout, 90 s
          FetchTimeout,     \* fetchTimeout, 60 s
          ShutdownTimeout   \* of shutdownCtx, 5 s

ASSUME RequestsAssumption == IsFiniteSet(Requests)

ASSUME TimeoutAssumption ==
  SubmitTimeout \in Nat \ {0} /\ FetchTimeout \in Nat \ {0} /\ ShutdownTimeout \in Nat \ {0}

VARIABLES
  via,        \* proxy, or api for the local API, whose client is fetch
  refusal,    \* the status with which the handler turns the request down, or "none"
  handler,    \* none, reading the request, submitting it, or finished
  client,     \* idle, waiting, answered, gone, or reset by the end of the process
  status,     \* what the client was answered
  age,        \* time since the request, in the proxy since the call of Submit; 0 at the end
  phase,      \* run, drain (the proxy), close (the API), exited or failed
  proxyOpen,  \* whether each listener accepts
  apiOpen,
  clock       \* time since the context was cancelled

requestVars == <<via, refusal>>
serverVars  == <<phase, proxyOpen, apiOpen, clock>>
vars == <<relayVars, requestVars, handler, client, status, age, serverVars>>

MaxAge == IF SubmitTimeout > FetchTimeout THEN SubmitTimeout ELSE FetchTimeout
----------------------------------------------------------------------------
(* What a handler makes of a request before it calls Submit. *)

\* target: a URL, none that could be built, or one that is not accepted.
Shapes ==
  [method  : {"allowed", "CONNECT", "other"},
   target  : {"valid", "missing", "invalid"},
   headers : {"accepted", "refused"},
   body    : {"valid", "large", "invalid"}]

validateConnectAuthority(s) == s.target = "valid"
proxyTargetURL(s)           == s.target # "missing"
readBoundedBody(s)          == s.body # "large"
normalizeProxyURL(s)        == s.target = "valid"
normalizeProxyHeaders(s)    == s.headers = "accepted"

normalizeSubmission(s) ==
  s.method = "allowed" /\ normalizeProxyURL(s) /\ normalizeProxyHeaders(s)

\* Tunnels are not supported, whatever their target.
handleConnect(s) == IF validateConnectAuthority(s) THEN "501" ELSE "400"

handleProxyRequest(s) ==
  IF s.method = "CONNECT" THEN handleConnect(s)
  ELSE IF ~proxyTargetURL(s) THEN "400"
  ELSE IF ~readBoundedBody(s) THEN "413"
  ELSE IF ~normalizeSubmission(s) THEN "400"
  ELSE "none"

\* The handler of /v1/requests; the URL is left to the agent, and a payload over
\* the limit is cut and does not decode.
handleRequests(s) ==
  IF s.method # "allowed" THEN "405" ELSE IF s.body # "valid" THEN "400" ELSE "none"

\* The outcomes there are: a status, or "none" when the request goes to the agent.
ProxyOutcomes == {handleProxyRequest(s) : s \in Shapes}
ApiOutcomes   == {handleRequests(s) : s \in Shapes}

\* Each listener takes requests while it is open.
Arrives(r, v) ==
  /\ client[r] = "idle"
  /\ IF v = "proxy" THEN proxyOpen ELSE apiOpen
  /\ via' = [via EXCEPT ![r] = v]
  /\ \E s \in IF v = "proxy" THEN ProxyOutcomes ELSE ApiOutcomes :
       refusal' = [refusal EXCEPT ![r] = s]
  /\ client' = [client EXCEPT ![r] = "waiting"]
  /\ handler' = [handler EXCEPT ![r] = "reading"]
  /\ UNCHANGED <<relayVars, age, status, serverVars>>
----------------------------------------------------------------------------
(* Handlers. *)

\* The handler returns; a client that is still there gets its answer.
Respond(r, s) ==
  /\ handler' = [handler EXCEPT ![r] = "finished"]
  /\ IF client[r] = "waiting"
     THEN /\ client' = [client EXCEPT ![r] = "answered"]
          /\ status' = [status EXCEPT ![r] = s]
     ELSE UNCHANGED <<client, status>>
  /\ age' = [age EXCEPT ![r] = 0]
  /\ UNCHANGED <<requestVars, serverVars>>

\* The request is read and turned down, or cannot be read to its end.
Refuses(r) ==
  /\ handler[r] = "reading"
  /\ refusal[r] # "none" \/ client[r] = "gone"
  /\ Respond(r, IF refusal[r] # "none" THEN refusal[r] ELSE "400")
  /\ UNCHANGED relayVars

Submits(r) ==
  /\ handler[r] = "reading"
  /\ refusal[r] = "none"
  /\ Ask(r)
  /\ handler' = [handler EXCEPT ![r] = "submitting"]
  /\ age' = [age EXCEPT ![r] = IF via[r] = "proxy" THEN 0 ELSE @]
  /\ UNCHANGED <<requestVars, client, status, serverVars>>

\* decodeResponseBody knows base64 and no encoding at all; nobody looks at Truncated.
decodeResponseBody(x) == x.code \in {"base64", "cut"}

\* Mutant: what cannot be decoded is passed on as it is.
MutantResultStatus(r) ==
  LET x == reply[r][1]
  IN  IF via[r] # "proxy" THEN "200"
      ELSE IF x.ok THEN "relayed"
      ELSE IF x.code = "METHOD_REJECTED" THEN "405" ELSE "502"

\* writeResultAsHTTP; the API answers 200 with the result, whatever it says.
ResultStatus(r) ==
  LET x == reply[r][1]
  IN  IF via[r] # "proxy" THEN "200"
      ELSE IF x.ok /\ decodeResponseBody(x) THEN "relayed"
      ELSE IF ~x.ok /\ x.code = "METHOD_REJECTED" THEN "405" ELSE "502"

\* Submit has returned a result.
ResultReturned(r) ==
  /\ handler[r] = "submitting"
  /\ call[r] = "answered"
  /\ Respond(r, ResultStatus(r))
  /\ UNCHANGED relayVars

\* Mutant: the call has no timeout of its own.
MutantNoTimeout(r) == client[r] = "gone"

\* The context given to Submit ends with the connection, and in the proxy by
\* itself.
ContextEnded(r) == client[r] = "gone" \/ (via[r] = "proxy" /\ age[r] >= SubmitTimeout)

\* Submit returns the context's error.
SubmitCancelled(r) ==
  /\ handler[r] = "submitting"
  /\ ContextEnded(r)
  /\ Abandon(r)
  /\ Respond(r, IF via[r] = "proxy" THEN "502" ELSE "504")
----------------------------------------------------------------------------
(* Clients, the agent and time. *)

ClientLeaves(r) ==
  /\ client[r] = "waiting"
  /\ client' = [client EXCEPT ![r] = "gone"]
  /\ age' = [age EXCEPT ![r] = 0]
  /\ UNCHANGED <<relayVars, requestVars, handler, status, serverVars>>

\* http.Client.Timeout of runFetch
FetchTimesOut(r) ==
  /\ via[r] = "api"
  /\ age[r] >= FetchTimeout
  /\ ClientLeaves(r)

AgentExecutes ==
  /\ phase \notin {"exited", "failed"}
  /\ Execute
  /\ UNCHANGED <<requestVars, handler, client, status, age, serverVars>>

AgentAnswers(r) ==
  /\ handler[r] = "submitting"
  /\ Answer(r)
  /\ UNCHANGED <<requestVars, handler, client, status, age, serverVars>>

\* Mutant: the clock does not saturate.
MutantOlder(r) == IF client[r] = "waiting" THEN age[r] + 1 ELSE age[r]

\* Ages stop at the last comparison made on them.
Older(r) == IF client[r] = "waiting" /\ age[r] < MaxAge THEN age[r] + 1 ELSE age[r]

Tick ==
  /\ phase \notin {"exited", "failed"}
  /\ age' = [r \in Requests |-> Older(r)]
  /\ clock' = IF phase = "drain" /\ clock < ShutdownTimeout THEN clock + 1 ELSE clock
  /\ UNCHANGED <<relayVars, requestVars, handler, client, status, phase, proxyOpen, apiOpen>>
----------------------------------------------------------------------------
(* Listeners and shutdown. *)

\* server.ListenAndServe, some time after the proxy's listener was started.
ApiListens ==
  /\ phase \in {"run", "drain"}
  /\ ~apiOpen
  /\ apiOpen' = TRUE
  /\ UNCHANGED <<relayVars, requestVars, handler, client, status, age, phase, proxyOpen, clock>>

\* A signal, or the proxy's listener has failed; the proxy's Shutdown closes its
\* listener and waits for its handlers.
ContextDone ==
  /\ phase = "run"
  /\ phase' = "drain"
  /\ proxyOpen' = FALSE
  /\ UNCHANGED <<relayVars, requestVars, handler, client, status, age, apiOpen, clock>>

ProxyActive == \E r \in Requests : via[r] = "proxy" /\ handler[r] \in {"reading", "submitting"}

\* Mutants: Close instead of Shutdown; a Shutdown without a deadline.
MutantDrained     == TRUE
MutantDrainedOnly == ~ProxyActive

Drained == ~ProxyActive \/ clock >= ShutdownTimeout

\* server.Shutdown closes the API's listener and makes ListenAndServe return.
DrainEnds ==
  /\ phase = "drain"
  /\ Drained
  /\ phase' = "close"
  /\ apiOpen' = FALSE
  /\ UNCHANGED <<relayVars, requestVars, handler, client, status, age, proxyOpen, clock>>

\* The process is gone, and with it the handlers and the connections.
ProcessEnds(last) ==
  /\ phase' = last
  /\ handler' = [r \in Requests |->
                   IF handler[r] \in {"reading", "submitting"} THEN "finished" ELSE handler[r]]
  /\ client' = [r \in Requests |-> IF client[r] = "waiting" THEN "reset" ELSE client[r]]
  /\ proxyOpen' = FALSE
  /\ apiOpen' = FALSE
  /\ age' = [r \in Requests |-> 0]
  /\ UNCHANGED <<relayVars, requestVars, status, clock>>

\* ListenAndServe has returned ErrServerClosed, so runServe returns: it waits for
\* no handler of the API and not for the Shutdown that does.
Exits == phase = "close" /\ ProcessEnds("exited")

\* The API's listener fails, or before it is opened the update of the state file
\* does, with the proxy already serving; runServe returns the error.
ApiFails == phase \in {"run", "drain"} /\ ProcessEnds("failed")
----------------------------------------------------------------------------
\* The API is opened last; to a proxy that is disabled no request comes.
Init ==
  /\ RelayInit
  /\ via = [r \in Requests |-> "api"]
  /\ refusal = [r \in Requests |-> "none"]
  /\ handler = [r \in Requests |-> "none"]
  /\ client = [r \in Requests |-> "idle"]
  /\ status = [r \in Requests |-> "none"]
  /\ age = [r \in Requests |-> 0]
  /\ phase = "run"
  /\ proxyOpen = TRUE
  /\ apiOpen = FALSE
  /\ clock = 0

HandlerStep(r) == Refuses(r) \/ Submits(r) \/ ResultReturned(r) \/ SubmitCancelled(r)

Next ==
  \/ \E r \in Requests :
       \/ \E v \in {"proxy", "api"} : Arrives(r, v)
       \/ HandlerStep(r) \/ AgentAnswers(r) \/ ClientLeaves(r) \/ FetchTimesOut(r)
  \/ AgentExecutes \/ Tick
  \/ ApiListens \/ ContextDone \/ DrainEnds \/ Exits \/ ApiFails

\* Time goes on, a timer that has fired is acted upon, handlers run once Submit has
\* returned, and the shutdown goes its way.  A client need not send the body it
\* announced, and nothing is asked of the agent.
Fairness ==
  /\ WF_vars(Tick) /\ WF_vars(DrainEnds) /\ WF_vars(Exits)
  /\ \A r \in Requests :
       WF_vars(FetchTimesOut(r)) /\ WF_vars(ResultReturned(r) \/ SubmitCancelled(r))

Spec == Init /\ [][Next]_vars /\ Fairness
----------------------------------------------------------------------------
(* Properties. *)

\* Every variable keeps its shape; ages and the clock stop at their bounds.
TypeOK ==
  /\ call \in [Requests -> {"idle", "open", "answered", "abandoned"}]
  /\ DOMAIN reply = Requests
  /\ \A r \in Requests :
       reply[r] = <<>> \/ \E a \in Answers, q \in Requests :
         reply[r] = <<[id |-> r, ok |-> a.ok, code |-> a.code, origin |-> q]>>
  /\ executed \subseteq Requests
  /\ sent = Cardinality(executed)
  /\ via \in [Requests -> {"proxy", "api"}]
  /\ refusal \in [Requests -> ProxyOutcomes \cup ApiOutcomes]
  /\ handler \in [Requests -> {"none", "reading", "submitting", "finished"}]
  /\ client \in [Requests -> {"idle", "waiting", "answered", "gone", "reset"}]
  /\ status \in [Requests -> ProxyOutcomes \cup ApiOutcomes \cup {"200", "502", "504", "relayed"}]
  /\ age \in [Requests -> 0 .. MaxAge]
  /\ phase \in {"run", "drain", "close", "exited", "failed"}
  /\ proxyOpen \in BOOLEAN /\ apiOpen \in BOOLEAN
  /\ clock \in 0 .. ShutdownTimeout

\* The statuses of a request that was turned down, by the way it came.
Refusals(v) == IF v = "proxy" THEN {"400", "413", "501"} ELSE {"400", "405"}

\* What a client may conclude from the status it gets, whenever timeouts,
\* disconnections and answers cross.  It tells whether the agent was asked: a refused
\* request is not executed, then or later, and every other status follows a call.
\* A relayed response is the answer of a worker to this request or one with its key,
\* which may have been cut.  A 502 follows the submit timeout, a failure, or a body
\* that does not decode; so the request may have been executed, or may be yet.
\* A call is given up without an answer only when its client has left or gets a
\* 502: the API's 504 reaches nobody.
StatusTruthful ==
  \A r \in Requests :
    /\ client[r] = "answered" =>
         /\ status[r] \in Refusals(via[r]) <=> call[r] = "idle"
         /\ status[r] \in {"relayed", "200"} => call[r] = "answered"
         /\ status[r] = "relayed" =>
              /\ reply[r][1].ok /\ decodeResponseBody(reply[r][1])
              /\ \E q \in executed : MayShare(q, r) /\ reply[r][1].origin = q
         /\ status[r] = "502" =>
              \/ call[r] = "abandoned"
              \/ call[r] = "answered" /\ ~(reply[r][1].ok /\ decodeResponseBody(reply[r][1]))
         /\ status[r] # "504"
    /\ call[r] = "idle" => r \notin executed
    /\ call[r] = "abandoned" => client[r] = "gone" \/ (client[r] = "answered" /\ status[r] = "502")

\* A client is cut off only when the API's listener fails, when it uses the API
\* (whose handlers nobody waits for), or when the whole shutdown timeout has been
\* spent on waiting for the proxy's handlers.
ResetOnlyLate ==
  \A r \in Requests :
    client[r] = "reset" => phase = "failed" \/ via[r] # "proxy" \/ clock = ShutdownTimeout

\* No handler stays in Submit, even if the agent never answers: its client is
\* answered, or has left and the call is given up, or is cut off.  The timeouts of the
\* proxy and of fetch see to it, and when a shutdown strands the call, the end of
\* the process.
HandlersFinish ==
  \A r \in Requests : handler[r] = "submitting" ~> handler[r] = "finished"

\* serve ends once it is told to, whatever its handlers, clients and agent do: one
\* client that never sends the rest of its body cannot hold it up.
ServeEnds == phase = "drain" ~> phase \in {"exited", "failed"}

\* "encoding": "utf8" (docs/protocol.md) is how a worker sends a text: the proxy's
\* client gets it.
TextDelivered ==
  \A r \in Requests :
    client[r] = "answered" /\ via[r] = "proxy" /\ call[r] = "answered"
      /\ reply[r][1].ok /\ reply[r][1].code = "utf8" => status[r] = "relayed"
============================================================================
