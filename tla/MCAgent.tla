------------------------------ MODULE MCAgent ------------------------------
(***************************************************************************)
(* Instances of Agent, of its refinement and of its status for TLC.        *)
(***************************************************************************)
EXTENDS AgentRelay, AgentStatus, TLC

CONSTANTS r1, r2, r3, k1, k2

TwoRequests   == {r1, r2}
ThreeRequests == {r1, r2, r3}
TwoKeys       == {k1, k2}

\* Two requests share a key; a third competes with them for the cache.
PairAndOther == r1 :> k1 @@ r2 :> k1 @@ r3 :> k2

\* Two requests share a key; no other is cacheable.
Pair == [r \in Requests |-> IF r \in {r1, r2} THEN k1 ELSE NoKey]

UnitSizes == [r \in Requests |-> 1]

\* pickBatchChunk takes the third request beside another, dispatchBatch refuses the two.
OneLarge  == [r \in Requests |-> IF r = r3 THEN 2 ELSE 1]

\* pickBatchChunk rejects the second request.
SecondTooLarge == [r \in Requests |-> IF r = r2 THEN 4 ELSE 1]

\* The two requests with one key are interchangeable.
Symmetry == Permutations({r1, r2})

NoRequests == {}
Third      == {r3}
============================================================================
