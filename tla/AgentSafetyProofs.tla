------------------------- MODULE AgentSafetyProofs -------------------------
(***************************************************************************)
(* Conservation of requests in Agent: every request let into the queue is  *)
(* in one place, is answered once and is never lost.                       *)
(***************************************************************************)
EXTENDS AgentProofs

\* Appending a new element to a sequence without repetitions.
LEMMA AppendFacts ==
  ASSUME NEW S, NEW s \in Seq(S), NEW x \in S, IsInjective(s), x \notin Range(s)
  PROVE  /\ IsInjective(Append(s, x))
         /\ Range(Append(s, x)) = Range(s) \cup {x}
<1> DEFINE t == Append(s, x)
<1>1. /\ t \in Seq(S)
      /\ DOMAIN t = 1 .. (Len(s) + 1)
      /\ DOMAIN s = 1 .. Len(s)
      /\ Len(s) \in Nat
      /\ \A i \in 1 .. Len(s) : t[i] = s[i]
      /\ t[Len(s) + 1] = x
  OBVIOUS
<1>2. \A i \in 1 .. Len(s) : s[i] # x
  BY <1>1 DEF Range
<1> QED
  BY <1>1, <1>2 DEF IsInjective, Range

\* Taking the head of a sequence without repetitions.
LEMMA TailFacts ==
  ASSUME NEW S, NEW s \in Seq(S), s # <<>>, IsInjective(s)
  PROVE  /\ IsInjective(Tail(s))
         /\ Head(s) \in Range(s)
         /\ Range(Tail(s)) = Range(s) \ {Head(s)}
<1> DEFINE t == Tail(s)
<1>1. /\ t \in Seq(S)
      /\ Len(s) \in Nat \ {0}
      /\ DOMAIN t = 1 .. (Len(s) - 1)
      /\ DOMAIN s = 1 .. Len(s)
      /\ \A i \in 1 .. (Len(s) - 1) : t[i] = s[i + 1]
      /\ Head(s) = s[1]
  OBVIOUS
<1>2. IsInjective(t)
  BY <1>1 DEF IsInjective
<1>3. Range(t) \subseteq Range(s) \ {Head(s)}
  BY <1>1 DEF IsInjective, Range
<1>4. ASSUME NEW y \in Range(s) \ {Head(s)} PROVE y \in Range(t)
  <2>1. PICK i \in 1 .. Len(s) : y = s[i]
    BY <1>1 DEF Range
  <2>2. i - 1 \in 1 .. (Len(s) - 1) /\ t[i - 1] = s[i]
    BY <1>1, <2>1, <1>4
  <2> QED
    BY <1>1, <2>1, <2>2 DEF Range
<1>5. Head(s) \in Range(s)
  BY <1>1 DEF Range
<1> QED
  BY <1>2, <1>3, <1>4, <1>5

\* The head unit is answered and leaves.
LEMMA TailUnits ==
  ASSUME TypeOK, UnitsDisjoint, units # <<>>, units' = Tail(units)
  PROVE  /\ UnitsDisjoint'
         /\ UnitMembers' = UnitMembers \ Members(Head(units))
         /\ Members(Head(units)) \subseteq UnitMembers
<1>1. /\ units \in Seq(Unit)
      /\ Len(units) \in Nat \ {0}
      /\ DOMAIN units = 1 .. Len(units)
      /\ DOMAIN units' = 1 .. (Len(units) - 1)
      /\ \A i \in 1 .. (Len(units) - 1) : units'[i] = units[i + 1]
      /\ Head(units) = units[1]
  BY DEF TypeOK
<1>2. UnitsDisjoint'
  <2>1. ASSUME NEW i \in DOMAIN units'
        PROVE  i + 1 \in DOMAIN units /\ units'[i] = units[i + 1]
    BY <1>1
  <2>2. ASSUME NEW i \in DOMAIN units' PROVE units'[i].primary \notin units'[i].duplicates
    BY <2>1, Zenon DEF UnitsDisjoint
  <2>3. ASSUME NEW i \in DOMAIN units', NEW j \in DOMAIN units', i # j
        PROVE  Members(units'[i]) \cap Members(units'[j]) = {}
    <3>1. i + 1 # j + 1
      BY <1>1, <2>3
    <3>2. Members(units[i + 1]) \cap Members(units[j + 1]) = {}
      BY <2>1, <3>1 DEF UnitsDisjoint
    <3> QED
      BY <2>1, <3>2
  <2> QED
    BY <2>2, <2>3 DEF UnitsDisjoint, Members
<1>3. UnitMembers' \subseteq UnitMembers \ Members(Head(units))
  BY <1>1 DEF UnitsDisjoint, UnitMembers, Members
<1>4. ASSUME NEW r \in UnitMembers \ Members(Head(units)) PROVE r \in UnitMembers'
  <2>1. PICK i \in 1 .. Len(units) : r \in Members(units[i])
    BY <1>1 DEF UnitMembers
  <2>2. i - 1 \in 1 .. (Len(units) - 1) /\ units'[i - 1] = units[i]
    BY <1>1, <1>4, <2>1
  <2> QED
    BY <1>1, <2>1, <2>2 DEF UnitMembers, Members
<1>5. Members(Head(units)) \subseteq UnitMembers
  <2>1. Head(units) \in Unit /\ 1 \in DOMAIN units
    BY <1>1
  <2> QED
    BY <1>1, <2>1, UnitFacts DEF UnitMembers
<1> QED
  BY <1>2, <1>3, <1>4, <1>5

\* A request becomes a unit of its own.
LEMMA AppendUnit ==
  ASSUME TypeOK, UnitsDisjoint, NEW r \in Requests, r \notin UnitMembers,
         units' = Append(units, [primary |-> r, duplicates |-> {}])
  PROVE  UnitsDisjoint' /\ UnitMembers' = UnitMembers \cup {r}
<1> DEFINE n == Len(units) + 1
           u == [primary |-> r, duplicates |-> {}]
<1>1. /\ units \in Seq(Unit)
      /\ Len(units) \in Nat
      /\ DOMAIN units = 1 .. Len(units)
      /\ DOMAIN units' = 1 .. n
      /\ \A i \in 1 .. Len(units) : units'[i] = units[i]
      /\ units'[n] = u
  BY DEF TypeOK
<1>2. Members(u) = {r} /\ u.primary \notin u.duplicates
  BY DEF Members
<1>3. \A i \in 1 .. Len(units) : r \notin Members(units[i])
  BY <1>1 DEF UnitMembers
<1>4. \A i \in 1 .. n : i = n \/ i \in 1 .. Len(units)
  BY <1>1
<1>5. UnitsDisjoint'
  <2>1. \A i \in 1 .. n : units'[i].primary \notin units'[i].duplicates
    BY <1>1, <1>2, <1>4 DEF UnitsDisjoint
  <2>2. ASSUME NEW i \in 1 .. n, NEW j \in 1 .. n, i # j
        PROVE  Members(units'[i]) \cap Members(units'[j]) = {}
    <3>1. CASE i = n
      BY <1>1, <1>2, <1>3, <1>4, <2>2, <3>1
    <3>2. CASE j = n
      BY <1>1, <1>2, <1>3, <1>4, <2>2, <3>2
    <3>3. CASE i # n /\ j # n
      BY <1>1, <1>4, <2>2, <3>3 DEF UnitsDisjoint
    <3> QED
      BY <3>1, <3>2, <3>3
  <2> QED
    BY <1>1, <2>1, <2>2 DEF UnitsDisjoint, Members
<1>6. UnitMembers' = UnitMembers \cup {r}
  <2>1. UnitMembers' = {q \in Requests : \E i \in 1 .. n : q \in Members(units'[i])}
    BY <1>1 DEF UnitMembers, Members
  <2>2. UnitMembers = {q \in Requests : \E i \in 1 .. Len(units) : q \in Members(units[i])}
    BY <1>1 DEF UnitMembers
  <2>3. UnitMembers \subseteq UnitMembers'
    BY <1>1, <2>1, <2>2
  <2>4. r \in UnitMembers'
    <3>1. n \in 1 .. n
      BY <1>1
    <3>2. Members(units'[n]) = {r}
      BY <1>1, <1>2, Zenon
    <3> QED
      BY <2>1, <3>1, <3>2
  <2>5. ASSUME NEW q \in UnitMembers' PROVE q \in UnitMembers \cup {r}
    <3>1. PICK i \in 1 .. n : q \in Members(units'[i])
      BY <2>1
    <3>2. CASE i = n
      BY <1>1, <1>2, <3>1, <3>2
    <3>3. CASE i \in 1 .. Len(units)
      BY <1>1, <2>1, <2>2, <3>1, <3>3
    <3> QED
      BY <1>4, <3>2, <3>3
  <2> QED
    BY <2>3, <2>4, <2>5
<1> QED
  BY <1>5, <1>6

\* A request joins a unit as a duplicate.
LEMMA JoinUnit ==
  ASSUME TypeOK, UnitsDisjoint, NEW r \in Requests, r \notin UnitMembers,
         NEW i \in DOMAIN units,
         units' = [units EXCEPT ![i].duplicates = @ \cup {r}]
  PROVE  UnitsDisjoint' /\ UnitMembers' = UnitMembers \cup {r}
<1>1. /\ units \in Seq(Unit)
      /\ DOMAIN units' = DOMAIN units
      /\ \A j \in DOMAIN units : j # i => units'[j] = units[j]
      /\ units'[i] = [units[i] EXCEPT !.duplicates = @ \cup {r}]
      /\ units[i] \in Unit
  BY DEF TypeOK
<1>2. /\ units'[i].primary = units[i].primary
      /\ units'[i].duplicates = units[i].duplicates \cup {r}
  BY <1>1 DEF Unit
<1>3. Members(units'[i]) = Members(units[i]) \cup {r}
  BY <1>2 DEF Members
<1>4. \A j \in DOMAIN units : r \notin Members(units[j])
  BY DEF UnitMembers
<1>5. UnitsDisjoint'
  <2>1. \A j \in DOMAIN units : units'[j].primary \notin units'[j].duplicates
    BY <1>1, <1>2, <1>4 DEF UnitsDisjoint, Members
  <2>2. ASSUME NEW j \in DOMAIN units, NEW k \in DOMAIN units, j # k
        PROVE  Members(units'[j]) \cap Members(units'[k]) = {}
    <3>1. Members(units[j]) \cap Members(units[k]) = {}
      BY <2>2 DEF UnitsDisjoint
    <3>2. \A m \in DOMAIN units : m # i => Members(units'[m]) = Members(units[m])
      BY <1>1
    <3>3. CASE j = i
      <4>1. Members(units'[k]) = Members(units[k])
        BY <2>2, <3>2, <3>3
      <4> QED
        BY <1>3, <1>4, <3>1, <3>3, <4>1
    <3>4. CASE k = i
      <4>1. Members(units'[j]) = Members(units[j])
        BY <2>2, <3>2, <3>4
      <4> QED
        BY <1>3, <1>4, <3>1, <3>4, <4>1
    <3>5. CASE j # i /\ k # i
      BY <3>1, <3>2, <3>5
    <3> QED
      BY <3>3, <3>4, <3>5
  <2> QED
    BY <1>1, <2>1, <2>2 DEF UnitsDisjoint, Members
<1>6. UnitMembers' = UnitMembers \cup {r}
  <2>1. UnitMembers' = {q \in Requests : \E j \in DOMAIN units : q \in Members(units'[j])}
    BY <1>1 DEF UnitMembers, Members
  <2> QED
    BY <1>1, <1>3, <2>1 DEF UnitMembers
<1> QED
  BY <1>5, <1>6

\* A step that only moves requests between Run's places disturbs no answer.
LEMMA MoveStep ==
  ASSUME HeldUnanswered, NothingLost, Held' = Held, UNCHANGED <<caller, resultCh>>
  PROVE  HeldUnanswered' /\ NothingLost'
BY DEF HeldUnanswered, NothingLost

\* A step that answers some of the requests held.
LEMMA AnswerStep ==
  ASSUME HeldUnanswered, NothingLost, NEW S, S \subseteq Held, Held \subseteq Requests,
         Held' = Held \ S, UNCHANGED caller,
         \A r \in S : resultCh'[r] # <<>>,
         \A r \in Requests \ S : resultCh'[r] = resultCh[r]
  PROVE  HeldUnanswered' /\ NothingLost'
BY DEF HeldUnanswered, NothingLost

\* Everything held is a request.
LEMMA HeldRequests ==
  ASSUME TypeOK
  PROVE  /\ Range(queue) \subseteq Requests
         /\ Range(pending) \subseteq Requests
         /\ Range(chunk) \subseteq Requests
         /\ Range(remaining) \subseteq Requests
         /\ Held \subseteq Requests
BY DEF TypeOK, Range, Held, UnitMembers

\* What Send leaves in the channels.
LEMMA SendFacts ==
  ASSUME NEW answers, DOMAIN answers \subseteq Requests, Send(answers)
  PROVE  /\ \A r \in DOMAIN answers : resultCh'[r] # <<>>
         /\ \A r \in Requests \ DOMAIN answers : resultCh'[r] = resultCh[r]
BY DEF Send

\* Nothing in a place.
LEMMA EmptyRange == Range(<<>>) = {} /\ IsInjective(<<>>)
BY DEF Range, IsInjective

\* The inductive invariant: it holds the three properties that only together survive
\* a step, since a send is safe only to a request that is held once.
Conserved == SingleHolder /\ HeldUnanswered /\ NothingLost

\* Nothing is held and nobody waits at first.
LEMMA InitConserved == Init => Conserved
<1> SUFFICES ASSUME Init PROVE Conserved
  OBVIOUS
<1>1. /\ queue = <<>> /\ pending = <<>> /\ chunk = <<>> /\ remaining = <<>>
      /\ units = <<>>
      /\ \A r \in Requests : caller[r] = "idle" /\ resultCh[r] = <<>>
  BY DEF Init
<1>2. UnitMembers = {} /\ UnitsDisjoint
  BY <1>1 DEF UnitMembers, UnitsDisjoint
<1> QED
  BY <1>1, <1>2, EmptyRange DEF Conserved, SingleHolder, HeldUnanswered, NothingLost, Held

\* Steps of a caller in Submit keep every request in its one place.
LEMMA SubmitConserved ==
  ASSUME TypeOK, Conserved, NEW r \in Requests, Submit(r)
  PROVE  Conserved'
<1> USE DEF callerVars, timeVars, batchVars
<1>0. Held \subseteq Requests
  BY HeldRequests
<1>1. CASE Enqueue(r)
  <2>1. /\ r \notin Held
        /\ resultCh[r] = <<>>
    BY <1>1 DEF Conserved, HeldUnanswered, Enqueue
  <2>2. /\ IsInjective(queue')
        /\ Range(queue') = Range(queue) \cup {r}
    BY <1>1, <2>1, AppendFacts DEF TypeOK, Conserved, SingleHolder, Enqueue, Held
  <2>3. /\ UNCHANGED <<pending, chunk, remaining, units, resultCh>>
        /\ UnitMembers' = UnitMembers
        /\ UnitsDisjoint' = UnitsDisjoint
    BY <1>1 DEF Enqueue, UnitMembers, Members, UnitsDisjoint
  <2>4. SingleHolder'
    BY <2>1, <2>2, <2>3 DEF Conserved, SingleHolder, Held
  <2>5. Held' = Held \cup {r}
    BY <2>2, <2>3 DEF Held
  <2>6. /\ caller'[r] = "enqueued"
        /\ \A q \in Requests : q # r => caller'[q] = caller[q]
    BY <1>1 DEF Enqueue, TypeOK
  <2>7. HeldUnanswered'
    BY <1>0, <2>1, <2>3, <2>5, <2>6 DEF Conserved, HeldUnanswered
  <2>8. NothingLost'
    BY <1>0, <2>1, <2>3, <2>5, <2>6 DEF Conserved, NothingLost
  <2> QED
    BY <2>4, <2>7, <2>8 DEF Conserved
<1>2. CASE ReceiveResult(r)
  <2>1. /\ UNCHANGED <<queue, pending, chunk, remaining, units>>
        /\ UnitMembers' = UnitMembers
        /\ UnitsDisjoint' = UnitsDisjoint
    BY <1>2 DEF ReceiveResult, UnitMembers, Members, UnitsDisjoint
  <2>2. Held' = Held /\ SingleHolder'
    BY <2>1 DEF Held, Conserved, SingleHolder
  <2>3. r \notin Held
    BY <1>2 DEF Conserved, HeldUnanswered, ReceiveResult
  <2>4. /\ caller'[r] = "returned"
        /\ resultCh'[r] = <<>>
        /\ \A q \in Requests : q # r => caller'[q] = caller[q] /\ resultCh'[q] = resultCh[q]
    BY <1>2 DEF ReceiveResult, Return, TypeOK
  <2>5. HeldUnanswered' /\ NothingLost'
    BY <1>0, <2>2, <2>3, <2>4 DEF Conserved, HeldUnanswered, NothingLost
  <2> QED
    BY <2>2, <2>5 DEF Conserved
<1>3. CASE SubmitClassified(r) \/ SubmitBackpressured(r) \/ SubmitChecked(r)
             \/ QueueOverflow(r) \/ RecordSubmitted(r) \/ CallerGivesUp(r)
  <2>1. /\ UNCHANGED <<queue, pending, chunk, remaining, units, resultCh>>
        /\ UnitMembers' = UnitMembers
        /\ UnitsDisjoint' = UnitsDisjoint
    BY <1>3 DEF SubmitClassified, SubmitBackpressured, SubmitChecked, QueueOverflow,
                RecordSubmitted, CallerGivesUp, UnitMembers, Members, UnitsDisjoint
  <2>2. Held' = Held /\ SingleHolder'
    BY <2>1 DEF Held, Conserved, SingleHolder
  <2>3. /\ \A q \in Requests : q # r => caller'[q] = caller[q]
        /\ \/ caller[r] \in {"idle", "checked"} /\ caller'[r] \in {"checked", "returned"}
           \/ caller[r] = "enqueued" /\ caller'[r] = "waiting"
           \/ caller[r] = "waiting" /\ caller'[r] = "cancelled"
    BY <1>3 DEF SubmitClassified, SubmitBackpressured, SubmitChecked, QueueOverflow,
                RecordSubmitted, CallerGivesUp, RejectLocally, Return, TypeOK
  <2>4. HeldUnanswered' /\ NothingLost'
    BY <1>0, <2>1, <2>2, <2>3 DEF Conserved, HeldUnanswered, NothingLost
  <2> QED
    BY <2>2, <2>4 DEF Conserved
<1> QED
  BY <1>1, <1>2, <1>3 DEF Submit

\* So do the cases of the select loop of Run.
LEMMA LoopConserved ==
  ASSUME TypeOK, Conserved,
         RunStops \/ RunReceives \/ TickIdle \/ TickBackpressured \/ TickPicks
  PROVE  Conserved'
<1> USE DEF callerVars, timeVars, batchVars
<1>0. /\ Held \subseteq Requests
      /\ Range(pending) \subseteq Requests
  BY HeldRequests
<1>1. CASE RunStops \/ TickBackpressured
  <2>1. /\ UNCHANGED <<caller, queue, chunk, remaining, units>>
        /\ UnitMembers' = UnitMembers
        /\ UnitsDisjoint' = UnitsDisjoint
        /\ pending' = <<>>
    BY <1>1 DEF RunStops, TickBackpressured, TakeTick, UnitMembers, Members, UnitsDisjoint
  <2>2. SingleHolder'
    BY <2>1, EmptyRange DEF Conserved, SingleHolder
  <2>3. Held' = Held \ Range(pending) /\ Range(pending) \subseteq Held
    BY <2>1, EmptyRange DEF Held, Conserved, SingleHolder
  <2>4. /\ \A r \in Range(pending) : resultCh'[r] # <<>>
        /\ \A r \in Requests \ Range(pending) : resultCh'[r] = resultCh[r]
    <3>1. PICK code \in {"WORKER_ERROR", "RUN_DELAYED"} : SendError(Range(pending), code)
      BY <1>1 DEF RunStops, TickBackpressured
    <3> QED
      BY <1>0, <3>1, SendFacts DEF SendError
  <2>5. HeldUnanswered' /\ NothingLost'
    BY <1>0, <2>1, <2>3, <2>4, AnswerStep DEF Conserved
  <2> QED
    BY <2>2, <2>5 DEF Conserved
<1>2. CASE RunReceives
  <2>1. /\ UNCHANGED <<caller, resultCh, chunk, remaining, units>>
        /\ UnitMembers' = UnitMembers
        /\ UnitsDisjoint' = UnitsDisjoint
        /\ queue # <<>>
        /\ queue' = Tail(queue)
        /\ pending' = Append(pending, Head(queue))
    BY <1>2 DEF RunReceives, UnitMembers, Members, UnitsDisjoint
  <2>2. /\ IsInjective(queue')
        /\ Head(queue) \in Range(queue)
        /\ Range(queue') = Range(queue) \ {Head(queue)}
    BY <2>1, TailFacts DEF TypeOK, Conserved, SingleHolder
  <2>3. /\ IsInjective(pending')
        /\ Range(pending') = Range(pending) \cup {Head(queue)}
    <3>1. /\ Head(queue) \notin Range(pending)
          /\ Head(queue) \in Requests
      BY <2>1, <2>2 DEF TypeOK, Conserved, SingleHolder
    <3> QED
      BY <2>1, <3>1, AppendFacts DEF TypeOK, Conserved, SingleHolder
  <2>4. SingleHolder'
    BY <2>1, <2>2, <2>3 DEF Conserved, SingleHolder
  <2>5. Held' = Held
    BY <2>1, <2>2, <2>3 DEF Held
  <2> QED
    BY <2>1, <2>4, <2>5, MoveStep DEF Conserved
<1>3. CASE TickIdle \/ TickPicks
  <2>1. /\ UNCHANGED <<caller, resultCh, queue, pending, chunk, remaining, units>>
        /\ UnitMembers' = UnitMembers
        /\ UnitsDisjoint' = UnitsDisjoint
    BY <1>3 DEF TickIdle, TickPicks, TakeTick, UnitMembers, Members, UnitsDisjoint
  <2>2. Held' = Held /\ SingleHolder'
    BY <2>1 DEF Held, Conserved, SingleHolder
  <2> QED
    BY <2>1, <2>2, MoveStep DEF Conserved
<1> QED
  BY <1>1, <1>2, <1>3

\* So does pickBatchChunk, as it sorts pending into chunk and leftovers.
LEMMA PickConserved ==
  ASSUME TypeOK, Conserved, PickInto \/ PickLater \/ PickTooLarge \/ PickDone
  PROVE  Conserved'
<1> USE DEF callerVars, timeVars, batchVars
<1>0. Held \subseteq Requests
  BY HeldRequests
<1>1. ASSUME pending # <<>>, pending' = Tail(pending)
      PROVE  /\ IsInjective(pending')
             /\ Head(pending) \in Range(pending)
             /\ Head(pending) \in Requests
             /\ Range(pending') = Range(pending) \ {Head(pending)}
  BY <1>1, TailFacts, HeldRequests DEF TypeOK, Conserved, SingleHolder
<1>2. ASSUME UNCHANGED units
      PROVE  UnitMembers' = UnitMembers /\ UnitsDisjoint' = UnitsDisjoint
  BY <1>2 DEF UnitMembers, Members, UnitsDisjoint
<1>3. CASE PickInto
  <2>1. /\ UNCHANGED <<caller, resultCh, queue, remaining, units>>
        /\ pending # <<>>
        /\ pending' = Tail(pending)
        /\ chunk' = Append(chunk, Head(pending))
    BY <1>3 DEF PickInto
  <2>2. /\ IsInjective(chunk')
        /\ Range(chunk') = Range(chunk) \cup {Head(pending)}
    <3>1. Head(pending) \notin Range(chunk)
      BY <1>1, <2>1 DEF Conserved, SingleHolder
    <3> QED
      BY <1>1, <2>1, <3>1, AppendFacts DEF TypeOK, Conserved, SingleHolder
  <2>3. SingleHolder' /\ Held' = Held
    BY <1>1, <1>2, <2>1, <2>2 DEF Conserved, SingleHolder, Held
  <2> QED
    BY <2>1, <2>3, MoveStep DEF Conserved
<1>4. CASE PickLater
  <2>1. /\ UNCHANGED <<caller, resultCh, queue, chunk, units>>
        /\ pending # <<>>
        /\ pending' = Tail(pending)
        /\ remaining' = Append(remaining, Head(pending))
    BY <1>4 DEF PickLater
  <2>2. /\ IsInjective(remaining')
        /\ Range(remaining') = Range(remaining) \cup {Head(pending)}
    <3>1. Head(pending) \notin Range(remaining)
      BY <1>1, <2>1 DEF Conserved, SingleHolder
    <3> QED
      BY <1>1, <2>1, <3>1, AppendFacts DEF TypeOK, Conserved, SingleHolder
  <2>3. SingleHolder' /\ Held' = Held
    BY <1>1, <1>2, <2>1, <2>2 DEF Conserved, SingleHolder, Held
  <2> QED
    BY <2>1, <2>3, MoveStep DEF Conserved
<1>5. CASE PickTooLarge
  <2> DEFINE r == Head(pending)
  <2>1. /\ UNCHANGED <<caller, queue, chunk, remaining, units>>
        /\ pending # <<>>
        /\ pending' = Tail(pending)
        /\ SendError({r}, "BATCH_TOO_LARGE")
    BY <1>5 DEF PickTooLarge
  <2>2. SingleHolder' /\ Held' = Held \ {r} /\ {r} \subseteq Held
    BY <1>1, <1>2, <2>1 DEF Conserved, SingleHolder, Held
  <2>3. /\ \A q \in {r} : resultCh'[q] # <<>>
        /\ \A q \in Requests \ {r} : resultCh'[q] = resultCh[q]
    BY <1>1, <2>1, SendFacts DEF SendError
  <2> DEFINE S == {r}
  <2>4. /\ S \subseteq Held
        /\ Held' = Held \ S
        /\ \A q \in S : resultCh'[q] # <<>>
        /\ \A q \in Requests \ S : resultCh'[q] = resultCh[q]
    BY <2>2, <2>3
  <2> HIDE DEF S
  <2> QED
    BY <1>0, <2>1, <2>2, <2>4, AnswerStep DEF Conserved
<1>6. CASE PickDone
  <2>1. /\ UNCHANGED <<caller, resultCh, queue, chunk, units>>
        /\ pending = <<>>
        /\ pending' = remaining
        /\ remaining' = <<>>
    BY <1>6 DEF PickDone
  <2>2. /\ Range(pending) = {} /\ Range(remaining') = {} /\ IsInjective(remaining')
        /\ Range(pending') = Range(remaining)
        /\ IsInjective(remaining) => IsInjective(pending')
    <3>1. Range(pending) = {}
      BY <2>1, EmptyRange
    <3>2. Range(remaining') = {} /\ IsInjective(remaining')
      BY <2>1, EmptyRange
    <3>3. /\ Range(pending') = Range(remaining)
          /\ IsInjective(remaining) => IsInjective(pending')
      BY <2>1
    <3> QED
      BY <3>1, <3>2, <3>3
  <2>3. SingleHolder'
    BY <1>2, <2>1, <2>2 DEF Conserved, SingleHolder
  <2>4. Held' = Held
    BY <1>2, <2>1, <2>2 DEF Held
  <2> QED
    BY <2>1, <2>3, <2>4, MoveStep DEF Conserved
<1> QED
  BY <1>3, <1>4, <1>5, <1>6

\* So does prepareDispatchUnits, as it turns the chunk into units.
LEMMA PrepareConserved ==
  ASSUME TypeOK, Conserved,
         \/ PrepareHit \/ PrepareDuplicate \/ PrepareUnit
         \/ NothingToDispatch \/ RefuseBatch \/ StartDispatch
  PROVE  Conserved'
<1> USE DEF callerVars, timeVars, batchVars
<1> DEFINE r == Head(chunk)
<1>0. Held \subseteq Requests
  BY HeldRequests
<1>1. ASSUME chunk # <<>>, chunk' = Tail(chunk)
      PROVE  /\ IsInjective(chunk')
             /\ r \in Range(chunk)
             /\ r \in Requests
             /\ Range(chunk') = Range(chunk) \ {r}
  BY <1>1, TailFacts, HeldRequests DEF TypeOK, Conserved, SingleHolder
<1>2. ASSUME UNCHANGED units
      PROVE  UnitMembers' = UnitMembers /\ UnitsDisjoint' = UnitsDisjoint
  BY <1>2 DEF UnitMembers, Members, UnitsDisjoint
<1>3. CASE PrepareHit
  <2>1. /\ UNCHANGED <<caller, queue, pending, remaining, units>>
        /\ chunk # <<>>
        /\ chunk' = Tail(chunk)
    BY <1>3 DEF PrepareHit
  <2>2. SingleHolder' /\ Held' = Held \ {r} /\ {r} \subseteq Held
    BY <1>1, <1>2, <2>1 DEF Conserved, SingleHolder, Held
  <2>3. /\ \A q \in {r} : resultCh'[q] # <<>>
        /\ \A q \in Requests \ {r} : resultCh'[q] = resultCh[q]
    <3> DEFINE answers == [q \in {r} |-> cloneResultForRequest(cache[CacheKey[r]].result, q)]
    <3>1. Send(answers) /\ DOMAIN answers = {r}
      BY <1>3 DEF PrepareHit
    <3> HIDE DEF answers
    <3> QED
      BY <1>1, <2>1, <3>1, SendFacts
  <2> DEFINE S == {r}
  <2>4. /\ S \subseteq Held
        /\ Held' = Held \ S
        /\ \A q \in S : resultCh'[q] # <<>>
        /\ \A q \in Requests \ S : resultCh'[q] = resultCh[q]
    BY <2>2, <2>3
  <2> HIDE DEF S
  <2> QED
    BY <1>0, <2>1, <2>2, <2>4, AnswerStep DEF Conserved
<1>4. CASE PrepareDuplicate \/ PrepareUnit
  <2>1. /\ UNCHANGED <<caller, resultCh, queue, pending, remaining>>
        /\ chunk # <<>>
        /\ chunk' = Tail(chunk)
    BY <1>4 DEF PrepareDuplicate, PrepareUnit
  <2>2. UnitsDisjoint' /\ UnitMembers' = UnitMembers \cup {r}
    <3>1. UnitsDisjoint /\ r \notin UnitMembers /\ r \in Requests
      BY <1>1, <2>1 DEF Conserved, SingleHolder
    <3>2. CASE PrepareDuplicate
      <4>1. PICK i \in DOMAIN units : units' = [units EXCEPT ![i].duplicates = @ \cup {r}]
        BY <3>2 DEF PrepareDuplicate
      <4> QED
        BY <3>1, <4>1, JoinUnit
    <3>3. CASE PrepareUnit
      <4>1. units' = Append(units, [primary |-> r, duplicates |-> {}])
        BY <3>3 DEF PrepareUnit
      <4> QED
        BY <3>1, <4>1, AppendUnit
    <3> QED
      BY <1>4, <3>2, <3>3
  <2>3. SingleHolder'
    BY <1>1, <2>1, <2>2 DEF Conserved, SingleHolder
  <2>4. Held' = Held
    BY <1>1, <2>1, <2>2 DEF Held
  <2> QED
    BY <2>1, <2>3, <2>4, MoveStep DEF Conserved
<1>5. CASE NothingToDispatch \/ RefuseBatch \/ StartDispatch
  <2>1. UNCHANGED <<caller, resultCh, queue, pending, chunk, remaining, units>>
    BY <1>5 DEF NothingToDispatch, RefuseBatch, StartDispatch
  <2>2. SingleHolder' /\ Held' = Held
    BY <1>2, <2>1 DEF Conserved, SingleHolder, Held
  <2> QED
    BY <2>1, <2>2, MoveStep DEF Conserved
<1> QED
  BY <1>3, <1>4, <1>5

\* Delivering or failing a unit answers all its members and drops no other request.
LEMMA AnswerConserved ==
  ASSUME TypeOK, Conserved, ProcessBatchReturns \/ DeliverUnit \/ FailUnit \/ BatchDone
  PROVE  Conserved'
<1> USE DEF callerVars, timeVars, batchVars
<1>0. Held \subseteq Requests
  BY HeldRequests
<1>1. CASE DeliverUnit \/ FailUnit
  <2> DEFINE S == Members(Head(units))
  <2>1. /\ UNCHANGED <<caller, queue, pending, chunk, remaining>>
        /\ units # <<>>
        /\ units' = Tail(units)
    BY <1>1 DEF DeliverUnit, FailUnit
  <2>2. /\ UnitsDisjoint'
        /\ UnitMembers' = UnitMembers \ S
        /\ S \subseteq UnitMembers
    BY <2>1, TailUnits DEF Conserved, SingleHolder
  <2>3. SingleHolder' /\ Held' = Held \ S /\ S \subseteq Held
    BY <2>1, <2>2 DEF Conserved, SingleHolder, Held
  <2>4. /\ \A q \in S : resultCh'[q] # <<>>
        /\ \A q \in Requests \ S : resultCh'[q] = resultCh[q]
    <3>1. PICK x : SendToUnit(Head(units), x)
      BY <1>1 DEF DeliverUnit, FailUnit
    <3> DEFINE answers == [q \in S |-> cloneResultForRequest(x, q)]
    <3>2. Send(answers) /\ DOMAIN answers = S
      BY <3>1 DEF SendToUnit
    <3> HIDE DEF answers
    <3> QED
      BY <1>0, <2>3, <3>2, SendFacts
  <2> QED
    BY <1>0, <2>1, <2>3, <2>4, AnswerStep DEF Conserved
<1>2. CASE ProcessBatchReturns \/ BatchDone
  <2>1. UNCHANGED <<caller, resultCh, queue, pending, chunk, remaining, units>>
    BY <1>2 DEF ProcessBatchReturns, DispatchFails, PackageMismatch, PackageArrives, BatchDone
  <2>2. /\ UnitMembers' = UnitMembers
        /\ UnitsDisjoint' = UnitsDisjoint
    BY <2>1 DEF UnitMembers, Members, UnitsDisjoint
  <2>3. SingleHolder' /\ Held' = Held
    BY <2>1, <2>2 DEF Conserved, SingleHolder, Held
  <2> QED
    BY <2>1, <2>3, MoveStep DEF Conserved
<1> QED
  BY <1>1, <1>2

\* Every step keeps every request in its one place until it is answered.
LEMMA NextConserved == TypeOK /\ Conserved /\ [Next]_vars => Conserved'
<1> SUFFICES ASSUME TypeOK, Conserved, [Next]_vars PROVE Conserved'
  OBVIOUS
<1>1. CASE Elapse \/ ContextDone \/ UNCHANGED vars
  <2>1. UNCHANGED <<caller, resultCh, queue, pending, chunk, remaining, units>>
    BY <1>1 DEF Elapse, ContextDone, vars, callerVars, batchVars
  <2>2. /\ UnitMembers' = UnitMembers
        /\ UnitsDisjoint' = UnitsDisjoint
    BY <2>1 DEF UnitMembers, Members, UnitsDisjoint
  <2>3. SingleHolder' /\ Held' = Held
    BY <2>1, <2>2 DEF Conserved, SingleHolder, Held
  <2> QED
    BY <2>1, <2>3, MoveStep DEF Conserved
<1>2. CASE \E r \in Requests : Submit(r)
  BY <1>2, SubmitConserved
<1>3. CASE RunStep
  BY <1>3, LoopConserved, PickConserved, PrepareConserved, AnswerConserved DEF RunStep
<1> QED
  BY <1>1, <1>2, <1>3 DEF Next

\* Hence no request is lost, held twice or answered twice.
LEMMA AlwaysConserved == Spec => []Conserved
<1>1. Init => Conserved
  BY InitConserved
<1>2. TypeOK /\ Conserved /\ [Next]_vars => Conserved'
  BY NextConserved
<1> QED
  BY <1>1, <1>2, TypeCorrect, PTL DEF Spec

\* No request is ever in two of Run's places at once.
THEOREM RequestsInOnePlace == Spec => []SingleHolder
<1>1. Conserved => SingleHolder
  BY DEF Conserved
<1> QED
  BY <1>1, AlwaysConserved, PTL

\* Every request still held can be sent its answer without blocking, and none is
\* answered twice.
THEOREM SendsNeverBlock == Spec => []HeldUnanswered
<1>1. Conserved => HeldUnanswered
  BY DEF Conserved
<1> QED
  BY <1>1, AlwaysConserved, PTL

\* No waiting caller's request is dropped.
THEOREM RequestsNeverLost == Spec => []NothingLost
<1>1. Conserved => NothingLost
  BY DEF Conserved
<1> QED
  BY <1>1, AlwaysConserved, PTL
============================================================================
