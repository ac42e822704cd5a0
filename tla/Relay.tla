------------------------------- MODULE Relay -------------------------------
(***************************************************************************)
(* What the agent promises to those who call Submit, without queue,        *)
(* batches, cache or dispatcher: a call is answered at most once, with an  *)
(* error or with a response to its own request or to one with its cache    *)
(* key, and no request is executed twice.  Agent is shown to implement it  *)
(* (module AgentRelay) and Serve is built on it.                           *)
(***************************************************************************)
EXTENDS Naturals, FiniteSets

CONSTANTS
  Requests,   \* the calls of Submit
  CacheKey,   \* request -> its cache key, or NoKey
  NoKey,
  Answers     \* what a result can say: [ok, code]

VARIABLES
  call,       \* idle, open, answered or abandoned by its caller
  reply,      \* <<>>, or <<result>> once it is answered
  executed,   \* the requests that were sent to a worker
  sent        \* how many requests were sent, a request sent twice counting twice

relayVars == <<call, reply, executed, sent>>

\* r may be answered with what came back for q.
MayShare(q, r) == q = r \/ (CacheKey[r] # NoKey /\ CacheKey[q] = CacheKey[r])

Ask(r) ==
  /\ call[r] = "idle"
  /\ call' = [call EXCEPT ![r] = "open"]
  /\ UNCHANGED <<reply, executed, sent>>

\* Requests are executed together, none a second time; callers may have gone.
Execute ==
  \E S \in SUBSET (Requests \ executed) :
    /\ executed' = executed \cup S
    /\ sent' = sent + Cardinality(S)
    /\ \A r \in S : call[r] \in {"open", "abandoned"}
    /\ \A q, r \in S : q # r => ~MayShare(q, r)
    /\ UNCHANGED <<call, reply>>

\* r is answered with what came back for q; a call can also be refused at once.
Answer(r) ==
  /\ call[r] \in {"idle", "open"}
  /\ call' = [call EXCEPT ![r] = "answered"]
  /\ UNCHANGED <<executed, sent>>
  /\ \E a \in Answers, q \in Requests :
       /\ MayShare(q, r)
       /\ a.ok => q \in executed /\ call[r] = "open"
       /\ reply' = [reply EXCEPT ![r] = <<[id |-> r, ok |-> a.ok, code |-> a.code, origin |-> q]>>]

Abandon(r) ==
  /\ call[r] = "open"
  /\ call' = [call EXCEPT ![r] = "abandoned"]
  /\ UNCHANGED <<reply, executed, sent>>

RelayInit ==
  /\ call = [r \in Requests |-> "idle"]
  /\ reply = [r \in Requests |-> <<>>]
  /\ executed = {}
  /\ sent = 0

RelayNext ==
  \/ \E r \in Requests : Ask(r) \/ Answer(r) \/ Abandon(r)
  \/ Execute

RelaySpec == RelayInit /\ [][RelayNext]_relayVars
============================================================================
