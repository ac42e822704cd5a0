---------------------------- MODULE ServeProofs ----------------------------
(***************************************************************************)
(* Serve: its type invariant, what a client may conclude from a status and *)
(* when a client is cut off, for any number of requests, any results the   *)
(* agent may give and all timeouts.                                        *)
(***************************************************************************)
EXTENDS Serve, FiniteSetTheorems, TLAPS

\* The statuses with which a request is turned down.
LEMMA Outcomes ==
  /\ ProxyOutcomes \subseteq {"none", "400", "413", "501"}
  /\ ApiOutcomes \subseteq {"none", "400", "405"}
  /\ "400" \in ProxyOutcomes /\ "405" \in ApiOutcomes
  /\ "none" \in ProxyOutcomes \cup ApiOutcomes
<1>1. ProxyOutcomes \subseteq {"none", "400", "413", "501"} /\ ApiOutcomes \subseteq {"none", "400", "405"}
  BY DEF ProxyOutcomes, ApiOutcomes, handleProxyRequest, handleConnect, handleRequests
<1> DEFINE s == [method |-> "allowed", target |-> "valid", headers |-> "accepted", body |-> "valid"]
           m == [s EXCEPT !.target = "missing"]
           o == [s EXCEPT !.method = "other"]
<1>2. s \in Shapes /\ m \in Shapes /\ o \in Shapes
  BY DEF Shapes
<1>3. handleProxyRequest(m) = "400" /\ handleRequests(o) = "405" /\ handleRequests(s) = "none"
  BY DEF handleProxyRequest, proxyTargetURL, handleRequests
<1> HIDE DEF s, m, o
<1> QED
  BY <1>1, <1>2, <1>3 DEF ProxyOutcomes, ApiOutcomes

\* Every status there is.
Statuses == ProxyOutcomes \cup ApiOutcomes \cup {"200", "502", "504", "relayed"}

\* The parts of the state that belong to the relay keep their types.
RelayTypes ==
  /\ call \in [Requests -> {"idle", "open", "answered", "abandoned"}]
  /\ DOMAIN reply = Requests
  /\ \A r \in Requests :
       reply[r] = <<>> \/ \E a \in Answers, q \in Requests :
         reply[r] = <<[id |-> r, ok |-> a.ok, code |-> a.code, origin |-> q]>>
  /\ executed \subseteq Requests
  /\ sent = Cardinality(executed)

\* The others.
ServeTypes ==
  /\ via \in [Requests -> {"proxy", "api"}]
  /\ refusal \in [Requests -> ProxyOutcomes \cup ApiOutcomes]
  /\ handler \in [Requests -> {"none", "reading", "submitting", "finished"}]
  /\ client \in [Requests -> {"idle", "waiting", "answered", "gone", "reset"}]
  /\ status \in [Requests -> Statuses]
  /\ age \in [Requests -> 0 .. MaxAge]
  /\ phase \in {"run", "drain", "close", "exited", "failed"}
  /\ proxyOpen \in BOOLEAN /\ apiOpen \in BOOLEAN
  /\ clock \in 0 .. ShutdownTimeout

\* Together they are the type invariant.
LEMMA TypesSplit == TypeOK <=> RelayTypes /\ ServeTypes
BY DEF TypeOK, RelayTypes, ServeTypes, Statuses

\* The bound of ages is a number.
LEMMA MaxAgeNat == MaxAge \in Nat \ {0} /\ SubmitTimeout <= MaxAge /\ FetchTimeout <= MaxAge
BY TimeoutAssumption DEF MaxAge
----------------------------------------------------------------------------
(* Types. *)

\* What the agent does keeps the relay's types; a request that is executed was not
\* counted before.
LEMMA RelayStepTypes ==
  ASSUME RelayTypes,
         Execute \/ (\E r \in Requests : Ask(r) \/ Answer(r) \/ Abandon(r)) \/ UNCHANGED relayVars
  PROVE  RelayTypes'
<1>1. CASE Execute
  <2>1. PICK S \in SUBSET (Requests \ executed) :
          /\ executed' = executed \cup S /\ sent' = sent + Cardinality(S)
          /\ UNCHANGED <<call, reply>>
    BY <1>1 DEF Execute
  <2>2. executed \subseteq Requests /\ S \subseteq Requests /\ executed \cap S = {}
    BY <2>1 DEF RelayTypes
  <2>3. IsFiniteSet(executed) /\ IsFiniteSet(S)
    BY <2>2, RequestsAssumption, FS_Subset
  <2>4. Cardinality(executed \cup S) = Cardinality(executed) + Cardinality(S) - Cardinality(executed \cap S)
    BY <2>3, FS_Union
  <2>5. Cardinality(executed) \in Nat /\ Cardinality(S) \in Nat /\ Cardinality(executed \cap S) = 0
    BY <2>2, <2>3, FS_CardinalityType, FS_EmptySet
  <2>6. sent' = Cardinality(executed')
    BY <2>1, <2>4, <2>5 DEF RelayTypes
  <2> QED
    BY <2>1, <2>2, <2>6 DEF RelayTypes
<1>2. CASE \E r \in Requests : Answer(r)
  <2>1. PICK r \in Requests : Answer(r)
    BY <1>2
  <2>2. PICK a \in Answers, q \in Requests :
          reply' = [reply EXCEPT ![r] = <<[id |-> r, ok |-> a.ok, code |-> a.code, origin |-> q]>>]
    BY <2>1 DEF Answer
  <2>3. UNCHANGED <<executed, sent>> /\ call' = [call EXCEPT ![r] = "answered"]
    BY <2>1 DEF Answer
  <2>4. \A p \in Requests : p # r => reply'[p] = reply[p]
    BY <2>2 DEF RelayTypes
  <2>5. reply'[r] = <<[id |-> r, ok |-> a.ok, code |-> a.code, origin |-> q]>> /\ DOMAIN reply' = Requests
    BY <2>2 DEF RelayTypes
  <2>6. call' \in [Requests -> {"idle", "open", "answered", "abandoned"}]
    BY <2>3 DEF RelayTypes
  <2>7. \A p \in Requests :
          reply'[p] = <<>> \/ \E b \in Answers, o \in Requests :
            reply'[p] = <<[id |-> p, ok |-> b.ok, code |-> b.code, origin |-> o]>>
    <3> TAKE p \in Requests
    <3>1. CASE p = r
      BY <2>5, <3>1, Zenon
    <3>2. CASE p # r
      <4>1. reply'[p] = reply[p]
        BY <2>4, <3>2
      <4>2. reply[p] = <<>> \/ \E b \in Answers, o \in Requests :
              reply[p] = <<[id |-> p, ok |-> b.ok, code |-> b.code, origin |-> o]>>
        BY Zenon DEF RelayTypes
      <4> QED
        BY <4>1, <4>2
    <3> QED
      BY <3>1, <3>2
  <2>8. executed' \subseteq Requests /\ sent' = Cardinality(executed')
    BY <2>3 DEF RelayTypes
  <2> QED
    BY <2>5, <2>6, <2>7, <2>8, Zenon DEF RelayTypes
<1>3. CASE UNCHANGED relayVars \/ \E r \in Requests : Ask(r) \/ Abandon(r)
  <2>1. UNCHANGED <<reply, executed, sent>>
    BY <1>3 DEF Ask, Abandon, relayVars
  <2>2. call' = call \/ \E r \in Requests, c \in {"open", "abandoned"} : call' = [call EXCEPT ![r] = c]
    BY <1>3 DEF Ask, Abandon, relayVars
  <2>3. call' \in [Requests -> {"idle", "open", "answered", "abandoned"}]
    BY <2>2 DEF RelayTypes
  <2> QED
    BY <2>1, <2>3, Zenon DEF RelayTypes
<1> QED
  BY <1>1, <1>2, <1>3

\* A handler that returns.
LEMMA RespondTypes ==
  ASSUME ServeTypes, NEW r \in Requests, NEW s \in Statuses, Respond(r, s)
  PROVE  ServeTypes'
<1>1. handler' \in [Requests -> {"none", "reading", "submitting", "finished"}]
  BY DEF ServeTypes, Respond
<1>2. client' \in [Requests -> {"idle", "waiting", "answered", "gone", "reset"}]
      /\ status' \in [Requests -> Statuses]
  BY DEF ServeTypes, Respond
<1>3. age' \in [Requests -> 0 .. MaxAge]
  BY MaxAgeNat DEF ServeTypes, Respond
<1> QED
  BY <1>1, <1>2, <1>3 DEF ServeTypes, Respond, requestVars, serverVars

\* Handlers only give statuses there are.
LEMMA HandlerTypes ==
  ASSUME ServeTypes, NEW r \in Requests, HandlerStep(r)
  PROVE  ServeTypes'
<1>1. CASE Refuses(r)
  <2>1. refusal[r] \in Statuses /\ "400" \in Statuses
    BY Outcomes DEF ServeTypes, Statuses
  <2>2. (IF refusal[r] # "none" THEN refusal[r] ELSE "400") \in Statuses
    BY <2>1
  <2> QED
    BY <1>1, <2>2, RespondTypes DEF Refuses
<1>2. CASE Submits(r)
  BY <1>2, MaxAgeNat DEF Submits, ServeTypes, requestVars, serverVars
<1>3. CASE ResultReturned(r)
  <2>1. ResultStatus(r) \in Statuses
    BY Outcomes DEF ResultStatus, Statuses
  <2> QED
    BY <1>3, <2>1, RespondTypes DEF ResultReturned
<1>4. CASE SubmitCancelled(r)
  BY <1>4, RespondTypes DEF SubmitCancelled, Statuses
<1> QED
  BY <1>1, <1>2, <1>3, <1>4 DEF HandlerStep

\* Every step keeps the types.
LEMMA NextType == TypeOK /\ [Next]_vars => TypeOK'
<1> SUFFICES ASSUME RelayTypes, ServeTypes, [Next]_vars PROVE RelayTypes' /\ ServeTypes'
  BY TypesSplit DEF TypeOK, RelayTypes, ServeTypes, Statuses
<1>1. RelayTypes'
  <2>1. \/ Execute \/ UNCHANGED relayVars
        \/ \E r \in Requests : Ask(r) \/ Answer(r) \/ Abandon(r)
    BY DEF Next, Arrives, HandlerStep, Refuses, Submits, ResultReturned, SubmitCancelled,
       AgentAnswers, ClientLeaves, FetchTimesOut, AgentExecutes, Tick, ApiListens, ContextDone,
       DrainEnds, Exits, ApiFails, ProcessEnds, vars
  <2> QED
    BY <2>1, RelayStepTypes
<1>2. CASE \E r \in Requests : HandlerStep(r)
  BY <1>1, <1>2, HandlerTypes
<1>3. CASE \E r \in Requests : ClientLeaves(r) \/ FetchTimesOut(r)
  <2>1. PICK r \in Requests : ClientLeaves(r)
    BY <1>3 DEF FetchTimesOut
  <2>2. client' \in [Requests -> {"idle", "waiting", "answered", "gone", "reset"}]
    BY <2>1 DEF ClientLeaves, ServeTypes
  <2>3. age' \in [Requests -> 0 .. MaxAge]
    BY <2>1, MaxAgeNat DEF ClientLeaves, ServeTypes
  <2> QED
    BY <1>1, <2>1, <2>2, <2>3 DEF ClientLeaves, ServeTypes, requestVars, serverVars
<1>4. CASE \E r \in Requests, v \in {"proxy", "api"} : Arrives(r, v)
  <2>1. PICK r \in Requests, v \in {"proxy", "api"} : Arrives(r, v)
    BY <1>4
  <2>2. PICK s \in ProxyOutcomes \cup ApiOutcomes : refusal' = [refusal EXCEPT ![r] = s]
    BY <2>1 DEF Arrives
  <2> QED
    BY <1>1, <2>1, <2>2 DEF Arrives, ServeTypes, serverVars
<1>5. CASE AgentExecutes \/ (\E r \in Requests : AgentAnswers(r)) \/ UNCHANGED vars
  BY <1>1, <1>5 DEF AgentExecutes, AgentAnswers, vars, requestVars, serverVars, ServeTypes
<1>6. CASE Tick
  <2>1. \A r \in Requests : Older(r) \in 0 .. MaxAge
    BY MaxAgeNat DEF Older, ServeTypes
  <2>2. clock' \in 0 .. ShutdownTimeout
    BY <1>6, TimeoutAssumption DEF Tick, ServeTypes
  <2> QED
    BY <1>1, <1>6, <2>1, <2>2 DEF Tick, ServeTypes, requestVars
<1>7. CASE ApiListens \/ ContextDone \/ DrainEnds
  BY <1>1, <1>7 DEF ApiListens, ContextDone, DrainEnds, ServeTypes, requestVars
<1>8. CASE Exits \/ ApiFails
  <2>1. PICK last \in {"exited", "failed"} : ProcessEnds(last)
    BY <1>8 DEF Exits, ApiFails
  <2>2. handler' \in [Requests -> {"none", "reading", "submitting", "finished"}]
    BY <2>1 DEF ProcessEnds, ServeTypes
  <2>3. client' \in [Requests -> {"idle", "waiting", "answered", "gone", "reset"}]
    BY <2>1 DEF ProcessEnds, ServeTypes
  <2>4. age' \in [Requests -> 0 .. MaxAge]
    BY <2>1, MaxAgeNat DEF ProcessEnds
  <2> QED
    BY <1>1, <2>1, <2>2, <2>3, <2>4 DEF ProcessEnds, ServeTypes, requestVars
<1> QED
  BY <1>2, <1>3, <1>4, <1>5, <1>6, <1>7, <1>8 DEF Next

\* The initial state has the right types.
LEMMA InitType == Init => TypeOK
<1> SUFFICES ASSUME Init PROVE RelayTypes /\ ServeTypes
  BY TypesSplit
<1>1. RelayTypes
  BY FS_EmptySet DEF Init, RelayInit, RelayTypes
<1>2. ServeTypes
  <2>1. 0 \in 0 .. MaxAge /\ 0 \in 0 .. ShutdownTimeout
    BY MaxAgeNat, TimeoutAssumption
  <2>2. "none" \in ProxyOutcomes \cup ApiOutcomes /\ "none" \in Statuses
    BY Outcomes DEF Statuses
  <2> QED
    BY <2>1, <2>2 DEF Init, ServeTypes
<1> QED
  BY <1>1, <1>2

\* The state of serve keeps its types: ages and the clock stay in their bounds, and
\* the number of requests sent is the number executed.
THEOREM TypeCorrect == Spec => []TypeOK
<1>1. Init => TypeOK
  BY InitType
<1>2. TypeOK /\ [Next]_vars => TypeOK'
  BY NextType
<1> QED
  BY <1>1, <1>2, PTL DEF Spec
----------------------------------------------------------------------------
(* What a client is told. *)

\* The reply to r was made for a request that r may share, and a success for one
\* that was executed.
ReplyProper(r) ==
  \E q \in Requests :
    /\ reply[r][1].origin = q /\ MayShare(q, r)
    /\ reply[r][1].ok => q \in executed

\* What the status of an answer says of the call.
Told(r) ==
  /\ status[r] \in Refusals(via[r]) <=> call[r] = "idle"
  /\ status[r] \in {"relayed", "200"} => call[r] = "answered"
  /\ status[r] = "relayed" => reply[r][1].ok /\ decodeResponseBody(reply[r][1])
  /\ status[r] = "502" =>
       \/ call[r] = "abandoned"
       \/ call[r] = "answered" /\ ~(reply[r][1].ok /\ decodeResponseBody(reply[r][1]))
  /\ status[r] # "504"

\* How the call, the handler and the client of one request go together.
HandledAt(r) ==
  /\ client[r] = "idle" => handler[r] = "none"
  /\ client[r] = "waiting" => handler[r] \in {"reading", "submitting"}
  /\ client[r] = "answered" => handler[r] = "finished" /\ Told(r)
  /\ client[r] = "reset" => handler[r] = "finished"
  /\ handler[r] \in {"none", "reading"} => call[r] = "idle"
  /\ handler[r] = "reading" => refusal[r] \in Refusals(via[r]) \cup {"none"}
  /\ handler[r] = "submitting" => call[r] \in {"open", "answered"}
  /\ call[r] = "idle" => r \notin executed
  /\ call[r] = "answered" => ReplyProper(r)
  /\ call[r] = "abandoned" => client[r] = "gone" \/ (client[r] = "answered" /\ status[r] = "502")

\* The inductive invariant behind StatusTruthful.
Handled == \A r \in Requests : HandledAt(r)

\* It says enough.
LEMMA HandledSuffices == Handled => StatusTruthful
<1> SUFFICES ASSUME Handled, NEW r \in Requests
             PROVE  /\ client[r] = "answered" => Told(r)
                    /\ client[r] = "answered" /\ status[r] = "relayed" =>
                         \E q \in executed : MayShare(q, r) /\ reply[r][1].origin = q
                    /\ call[r] = "idle" => r \notin executed
                    /\ call[r] = "abandoned" =>
                         client[r] = "gone" \/ (client[r] = "answered" /\ status[r] = "502")
  BY DEF StatusTruthful, Told
<1>1. HandledAt(r)
  BY DEF Handled
<1>2. client[r] = "answered" /\ status[r] = "relayed" =>
        \E q \in executed : MayShare(q, r) /\ reply[r][1].origin = q
  BY <1>1 DEF HandledAt, Told, ReplyProper
<1> QED
  BY <1>1, <1>2 DEF HandledAt

\* What is said of a call stays true as long as the call does not change.
LEMMA KeptTold ==
  ASSUME NEW r \in Requests, call'[r] = call[r], reply'[r] = reply[r], via'[r] = via[r],
         status'[r] = status[r], Told(r)
  PROVE  Told(r)'
BY DEF Told, Refusals, decodeResponseBody

\* What a step leaves alone of a request keeps it handled, though more may have been
\* executed.
LEMMA KeptHandled ==
  ASSUME NEW r \in Requests, HandledAt(r),
         call'[r] = call[r], reply'[r] = reply[r], via'[r] = via[r], refusal'[r] = refusal[r],
         handler'[r] = handler[r], client'[r] = client[r], status'[r] = status[r],
         executed \subseteq executed', call[r] = "idle" => r \notin executed'
  PROVE  HandledAt(r)'
<1>1. ReplyProper(r) => ReplyProper(r)'
  BY DEF ReplyProper, MayShare
<1>2. Told(r) => Told(r)'
  BY KeptTold
<1> QED
  BY <1>1, <1>2 DEF HandledAt, Refusals

\* The same when its client leaves or is cut off, or its handler ends with the
\* process.
LEMMA CutHandled ==
  ASSUME ServeTypes, NEW r \in Requests, HandledAt(r),
         UNCHANGED <<relayVars, via, refusal, status>>,
         \/ client[r] = "waiting" /\ client'[r] = "gone" /\ handler'[r] = handler[r]
         \/ client[r] = "waiting" /\ client'[r] = "reset" /\ handler'[r] = "finished"
         \/ client'[r] = client[r] /\ client[r] \notin {"idle", "waiting"} /\ handler'[r] = "finished"
  PROVE  HandledAt(r)'
<1>1. ReplyProper(r) => ReplyProper(r)'
  BY DEF ReplyProper, MayShare, relayVars
<1>2. Told(r) => Told(r)'
  BY KeptTold DEF relayVars
<1> QED
  BY <1>1, <1>2 DEF HandledAt, relayVars, Refusals

\* A step that concerns one request leaves the others as they were.
LEMMA OthersHandled ==
  ASSUME RelayTypes, ServeTypes, Handled, NEW r \in Requests,
         HandlerStep(r) \/ AgentAnswers(r) \/ ClientLeaves(r) \/ (\E v \in {"proxy", "api"} : Arrives(r, v)),
         NEW p \in Requests, p # r
  PROVE  HandledAt(p)'
<1>1. /\ handler'[p] = handler[p] /\ client'[p] = client[p] /\ status'[p] = status[p]
      /\ via'[p] = via[p] /\ refusal'[p] = refusal[p]
  BY DEF HandlerStep, Refuses, Submits, ResultReturned, SubmitCancelled, Respond, AgentAnswers,
     ClientLeaves, Arrives, ServeTypes, requestVars
<1>2. call'[p] = call[p] /\ reply'[p] = reply[p] /\ executed' = executed
  <2>1. UNCHANGED relayVars \/ Ask(r) \/ Answer(r) \/ Abandon(r)
    BY DEF HandlerStep, Refuses, Submits, ResultReturned, SubmitCancelled, AgentAnswers,
       ClientLeaves, Arrives
  <2> QED
    BY <2>1 DEF Ask, Answer, Abandon, relayVars, RelayTypes
<1>3. HandledAt(p)
  BY DEF Handled
<1> QED
  BY <1>1, <1>2, <1>3, KeptHandled DEF HandledAt

\* A request arrives: nothing has happened to it yet.
LEMMA ArrivesHandled ==
  ASSUME RelayTypes, ServeTypes, NEW r \in Requests, HandledAt(r), NEW v \in {"proxy", "api"}, Arrives(r, v)
  PROVE  HandledAt(r)'
<1>1. /\ client[r] = "idle" /\ client'[r] = "waiting" /\ handler'[r] = "reading"
      /\ UNCHANGED relayVars
  BY DEF Arrives, ServeTypes
<1>2. call'[r] = "idle" /\ r \notin executed'
  BY <1>1 DEF HandledAt, relayVars
<1>3. refusal'[r] \in Refusals(v) \cup {"none"} /\ via'[r] = v
  BY Outcomes DEF Arrives, ServeTypes, Refusals
<1> QED
  BY <1>1, <1>2, <1>3 DEF HandledAt, Refusals

\* A handler answers, with a status that says the right thing of the call.
LEMMA RespondHandled ==
  ASSUME ServeTypes, NEW r \in Requests, HandledAt(r), NEW s, Respond(r, s),
         handler[r] \in {"reading", "submitting"},
         executed' = executed, reply'[r] = reply[r],
         \/ call'[r] = call[r]
         \/ call[r] = "open" /\ call'[r] = "abandoned" /\ (client[r] = "gone" \/ s = "502"),
         client[r] = "waiting" /\ status'[r] = s => Told(r)'
  PROVE  HandledAt(r)'
<1>1. handler'[r] = "finished" /\ refusal'[r] = refusal[r]
  BY DEF Respond, ServeTypes, requestVars
<1>2. \/ client[r] = "waiting" /\ client'[r] = "answered" /\ status'[r] = s
      \/ client[r] # "waiting" /\ client'[r] = client[r] /\ status'[r] = status[r]
  BY DEF Respond, ServeTypes
<1>3. ReplyProper(r) => ReplyProper(r)'
  BY DEF ReplyProper, MayShare
<1>4. client[r] \in {"waiting", "gone"}
  BY DEF HandledAt, ServeTypes
<1>5. client'[r] = "answered" => Told(r)'
  BY <1>2, <1>4
<1>6. call'[r] = "abandoned" => client'[r] = "gone" \/ (client'[r] = "answered" /\ status'[r] = "502")
  BY <1>2, <1>4 DEF HandledAt
<1>7. client'[r] \in {"answered", "gone"}
  BY <1>2, <1>4
<1>8. (call'[r] = "answered" => ReplyProper(r)') /\ (call'[r] = "idle" => r \notin executed')
  BY <1>3 DEF HandledAt
<1> QED
  BY <1>1, <1>5, <1>6, <1>7, <1>8 DEF HandledAt

\* The context of a call by the API ends with its client only.
LEMMA ContextEndedMeans ==
  ASSUME NEW r \in Requests, ContextEnded(r), client[r] # "gone"
  PROVE  via[r] = "proxy"
BY DEF ContextEnded

\* Every step of a handler keeps its request handled.
LEMMA HandlerHandled ==
  ASSUME RelayTypes, ServeTypes, NEW r \in Requests, HandledAt(r), HandlerStep(r)
  PROVE  HandledAt(r)'
<1>1. CASE Refuses(r)
  <2> DEFINE s == IF refusal[r] # "none" THEN refusal[r] ELSE "400"
  <2>1. s \in Refusals(via[r])
    BY <1>1 DEF Refuses, HandledAt, Refusals
  <2> HIDE DEF s
  <2>2. Respond(r, s) /\ UNCHANGED <<relayVars, via>> /\ handler[r] = "reading" /\ call[r] = "idle"
    BY <1>1 DEF Refuses, s, HandledAt, Respond, requestVars
  <2>3. s \notin {"relayed", "200", "502", "504"}
    BY <2>1 DEF Refusals
  <2>4. status'[r] = s => Told(r)'
    BY <2>1, <2>2, <2>3 DEF Told, relayVars, Refusals
  <2> QED
    BY <2>2, <2>4, RespondHandled DEF relayVars
<1>2. CASE Submits(r)
  <2>1. /\ handler[r] = "reading" /\ handler'[r] = "submitting"
        /\ call'[r] = "open" /\ UNCHANGED client
    BY <1>2 DEF Submits, Ask, RelayTypes, ServeTypes
  <2> QED
    BY <2>1 DEF HandledAt
<1>3. CASE ResultReturned(r)
  <2> DEFINE s == ResultStatus(r)
             good == reply[r][1].ok /\ decodeResponseBody(reply[r][1])
  <2>1. /\ handler[r] = "submitting" /\ call[r] = "answered" /\ UNCHANGED <<relayVars, via>>
        /\ Respond(r, s)
    BY <1>3 DEF ResultReturned, Respond, requestVars
  <2>2. /\ s \in {"200", "relayed", "405", "502"}
        /\ s = "405" => via[r] = "proxy"
        /\ s = "relayed" => good
        /\ s = "502" => ~good
    BY DEF ResultStatus
  <2>3. s \notin Refusals(via[r])
    BY <2>2 DEF Refusals
  <2> HIDE DEF s
  <2>4. status'[r] = s => Told(r)'
    BY <2>1, <2>2, <2>3 DEF Told, relayVars, Refusals, decodeResponseBody
  <2> QED
    BY <2>1, <2>4, RespondHandled DEF relayVars
<1>4. CASE SubmitCancelled(r)
  <2> DEFINE s == IF via[r] = "proxy" THEN "502" ELSE "504"
  <2>1. /\ handler[r] = "submitting" /\ Respond(r, s) /\ UNCHANGED via
        /\ call[r] = "open" /\ call'[r] = "abandoned" /\ UNCHANGED <<reply, executed>>
    BY <1>4 DEF SubmitCancelled, Abandon, RelayTypes, Respond, requestVars
  <2>2. client[r] = "gone" \/ s = "502"
    BY <1>4, ContextEndedMeans DEF SubmitCancelled
  <2> HIDE DEF s
  <2>3. client[r] = "waiting" /\ status'[r] = s => Told(r)'
    BY <2>1, <2>2 DEF Told, Refusals
  <2> QED
    BY <2>1, <2>2, <2>3, RespondHandled
<1> QED
  BY <1>1, <1>2, <1>3, <1>4 DEF HandlerStep

\* The agent's answer is a proper one.
LEMMA AnswerHandled ==
  ASSUME RelayTypes, ServeTypes, NEW r \in Requests, HandledAt(r), AgentAnswers(r)
  PROVE  HandledAt(r)'
<1>1. /\ handler[r] = "submitting" /\ Answer(r) /\ UNCHANGED <<handler, client>>
  BY DEF AgentAnswers, requestVars
<1>2. PICK a \in Answers, q \in Requests :
        /\ MayShare(q, r)
        /\ a.ok => q \in executed
        /\ reply' = [reply EXCEPT ![r] = <<[id |-> r, ok |-> a.ok, code |-> a.code, origin |-> q]>>]
  BY <1>1 DEF Answer
<1>3. call[r] # "idle" /\ call'[r] = "answered" /\ executed' = executed
  BY <1>1 DEF Answer, RelayTypes, HandledAt
<1>4. reply'[r][1].origin = q /\ reply'[r][1].ok = a.ok
  BY <1>2 DEF RelayTypes
<1>5. ReplyProper(r)'
  BY <1>2, <1>3, <1>4 DEF ReplyProper, MayShare
<1> QED
  BY <1>1, <1>3, <1>5 DEF HandledAt

\* Every step keeps all requests handled.
LEMMA NextHandled == TypeOK /\ Handled /\ [Next]_vars => Handled'
<1> SUFFICES ASSUME RelayTypes, ServeTypes, Handled, [Next]_vars, NEW r \in Requests
             PROVE  HandledAt(r)'
  BY TypesSplit DEF Handled
<1>0. HandledAt(r)
  BY DEF Handled
<1>1. ASSUME NEW p \in Requests,
             HandlerStep(p) \/ AgentAnswers(p) \/ ClientLeaves(p) \/ (\E v \in {"proxy", "api"} : Arrives(p, v))
      PROVE  HandledAt(r)'
  <2>1. CASE p # r
    BY <1>1, <2>1, OthersHandled
  <2>2. CASE p = r /\ ClientLeaves(p)
    <3>1. client[r] = "waiting" /\ client'[r] = "gone" /\ UNCHANGED <<relayVars, via, refusal, status, handler>>
      BY <2>2 DEF ClientLeaves, ServeTypes, requestVars
    <3> QED
      BY <1>0, <3>1, CutHandled
  <2> QED
    BY <1>0, <1>1, <2>1, <2>2, HandlerHandled, AnswerHandled, ArrivesHandled
<1>2. CASE AgentExecutes
  <2>1. UNCHANGED <<via, refusal, handler, client, status, call, reply>> /\ executed \subseteq executed'
    BY <1>2 DEF AgentExecutes, Execute, requestVars
  <2>2. call[r] = "idle" => r \notin executed'
    BY <1>0, <1>2 DEF AgentExecutes, Execute, HandledAt
  <2> QED
    BY <1>0, <2>1, <2>2, KeptHandled
<1>3. CASE Tick \/ ApiListens \/ ContextDone \/ DrainEnds \/ UNCHANGED vars
  <2>1. UNCHANGED <<relayVars, via, refusal, handler, client, status>>
    BY <1>3 DEF Tick, ApiListens, ContextDone, DrainEnds, vars, requestVars
  <2> QED
    BY <1>0, <2>1, KeptHandled DEF relayVars, HandledAt
<1>4. CASE Exits \/ ApiFails
  <2>1. PICK last \in {"exited", "failed"} : ProcessEnds(last)
    BY <1>4 DEF Exits, ApiFails
  <2>2. UNCHANGED <<relayVars, via, refusal, status>>
    BY <2>1 DEF ProcessEnds, requestVars
  <2>3. /\ client'[r] = IF client[r] = "waiting" THEN "reset" ELSE client[r]
        /\ handler'[r] = IF handler[r] \in {"reading", "submitting"} THEN "finished" ELSE handler[r]
    BY <2>1 DEF ProcessEnds
  <2>4. CASE handler[r] \notin {"reading", "submitting"}
    BY <1>0, <2>2, <2>3, <2>4, KeptHandled DEF relayVars, HandledAt
  <2>5. CASE handler[r] \in {"reading", "submitting"}
    BY <1>0, <2>2, <2>3, <2>5, CutHandled DEF HandledAt
  <2> QED
    BY <2>4, <2>5
<1> QED
  BY <1>1, <1>2, <1>3, <1>4 DEF Next, FetchTimesOut

\* All requests stay handled.
LEMMA AlwaysHandled == Spec => []Handled
<1>1. Init => Handled
  BY DEF Init, RelayInit, Handled, HandledAt
<1>2. TypeOK /\ Handled /\ [Next]_vars => Handled'
  BY NextHandled
<1> QED
  BY <1>1, <1>2, TypeCorrect, PTL DEF Spec

\* What a client may conclude from its status, for any results the agent may give
\* and however timeouts, disconnections and answers cross: whether the agent was
\* asked, whose answer it has, and that a call given up reaches nobody or is a 502.
THEOREM StatusIsTrue == Spec => []StatusTruthful
<1>1. Handled => StatusTruthful
  BY HandledSuffices
<1> QED
  BY <1>1, AlwaysHandled, PTL
----------------------------------------------------------------------------
(* Who is cut off. *)

\* The inductive invariant behind ResetOnlyLate: once the context is cancelled no
\* request comes through the proxy, and the proxy is closed with handlers at work
\* only when the time is up.
Closing ==
  /\ phase # "run" => ~proxyOpen
  /\ phase \in {"close", "exited", "failed"} => ~apiOpen
  /\ phase = "close" => ~ProxyActive \/ clock = ShutdownTimeout
  /\ \A r \in Requests : client[r] = "reset" => phase \in {"exited", "failed"}
  /\ ResetOnlyLate

\* The steps of single requests.
LEMMA RequestClosing ==
  ASSUME ServeTypes, Closing, NEW r \in Requests,
         HandlerStep(r) \/ AgentAnswers(r) \/ ClientLeaves(r)
  PROVE  Closing'
<1>1. UNCHANGED <<serverVars, via>>
  BY DEF HandlerStep, Refuses, Submits, ResultReturned, SubmitCancelled, Respond, AgentAnswers,
     ClientLeaves, requestVars
<1>2. \A p \in Requests : client'[p] = "reset" => client[p] = "reset"
  BY DEF HandlerStep, Refuses, Submits, ResultReturned, SubmitCancelled, Respond, AgentAnswers,
     ClientLeaves, ServeTypes
<1>3. \A p \in Requests :
        handler'[p] \in {"reading", "submitting"} => handler[p] \in {"reading", "submitting"}
  BY DEF HandlerStep, Refuses, Submits, ResultReturned, SubmitCancelled, Respond, AgentAnswers,
     ClientLeaves, ServeTypes
<1>4. ~ProxyActive => ~ProxyActive'
  BY <1>1, <1>3 DEF ProxyActive
<1> QED
  BY <1>1, <1>2, <1>4 DEF Closing, ResetOnlyLate, serverVars

\* A request arrives, at a listener that is open.
LEMMA ArrivesClosing ==
  ASSUME ServeTypes, Closing, NEW r \in Requests, NEW v \in {"proxy", "api"}, Arrives(r, v)
  PROVE  Closing'
<1>1. UNCHANGED serverVars /\ phase \in {"run", "drain"}
  BY DEF Arrives, Closing, ServeTypes
<1>2. \A p \in Requests : client'[p] # "reset"
  BY <1>1 DEF Arrives, Closing, ServeTypes
<1> QED
  BY <1>1, <1>2 DEF Closing, ResetOnlyLate, serverVars

\* The process ends: whoever is waiting has an active handler.
LEMMA EndClosing ==
  ASSUME ServeTypes, Closing, Handled, Exits \/ ApiFails
  PROVE  Closing'
<1>1. PICK last \in {"exited", "failed"} : ProcessEnds(last) /\ (last = "exited" => phase = "close")
  BY DEF Exits, ApiFails
<1>2. /\ phase' = last /\ ~proxyOpen' /\ ~apiOpen' /\ UNCHANGED <<via, clock>>
      /\ \A r \in Requests : client'[r] = "reset" => client[r] \in {"waiting", "reset"}
  BY <1>1 DEF ProcessEnds, requestVars
<1>3. ASSUME NEW r \in Requests, client'[r] = "reset", last = "exited", via[r] = "proxy"
      PROVE  clock = ShutdownTimeout
  <2>1. phase = "close" /\ client[r] = "waiting"
    BY <1>1, <1>2, <1>3 DEF Closing
  <2>2. handler[r] \in {"reading", "submitting"}
    BY <2>1 DEF Handled, HandledAt
  <2> QED
    BY <1>3, <2>1, <2>2 DEF Closing, ProxyActive
<1> QED
  BY <1>2, <1>3 DEF Closing, ResetOnlyLate

\* Time and the listeners.
LEMMA ListenersClosing ==
  ASSUME ServeTypes, Closing, Tick \/ ApiListens \/ ContextDone \/ DrainEnds
  PROVE  Closing'
<1>1. UNCHANGED <<via, client, handler>> /\ (ProxyActive' <=> ProxyActive)
  BY DEF Tick, ApiListens, ContextDone, DrainEnds, requestVars, ProxyActive
<1>2. CASE Tick
  <2>1. UNCHANGED <<phase, proxyOpen, apiOpen>> /\ (phase # "drain" => clock' = clock)
    BY <1>2 DEF Tick
  <2>2. \A r \in Requests : client[r] # "reset"
    BY <1>2 DEF Tick, Closing
  <2> QED
    BY <1>1, <2>1, <2>2 DEF Closing, ResetOnlyLate
<1>3. CASE ApiListens
  BY <1>1, <1>3 DEF ApiListens, Closing, ResetOnlyLate
<1>4. CASE ContextDone
  BY <1>1, <1>4 DEF ContextDone, Closing, ResetOnlyLate
<1>5. CASE DrainEnds
  <2>1. ~ProxyActive \/ clock = ShutdownTimeout
    BY <1>5, TimeoutAssumption DEF DrainEnds, Drained, ServeTypes
  <2> QED
    BY <1>1, <1>5, <2>1 DEF DrainEnds, Closing, ResetOnlyLate
<1> QED
  BY <1>2, <1>3, <1>4, <1>5

\* Every step keeps Closing.
LEMMA NextClosing == TypeOK /\ Handled /\ Closing /\ [Next]_vars => Closing'
<1> SUFFICES ASSUME ServeTypes, Handled, Closing, [Next]_vars PROVE Closing'
  BY TypesSplit
<1>1. CASE AgentExecutes \/ UNCHANGED vars
  BY <1>1 DEF AgentExecutes, vars, requestVars, serverVars, Closing, ResetOnlyLate, ProxyActive
<1> QED
  BY <1>1, RequestClosing, ArrivesClosing, EndClosing, ListenersClosing DEF Next, FetchTimesOut

\* A client of the proxy is cut off only when a listener fails or the shutdown has
\* used up its timeout waiting.
THEOREM ShutdownWaits == Spec => []ResetOnlyLate
<1>1. Init => Closing
  BY DEF Init, Closing, ResetOnlyLate
<1>2. TypeOK /\ Handled /\ Closing /\ [Next]_vars => Closing'
  BY NextClosing
<1>3. Closing => ResetOnlyLate
  BY DEF Closing
<1> QED
  BY <1>1, <1>2, <1>3, TypeCorrect, AlwaysHandled, PTL DEF Spec
============================================================================
