------------------------------ MODULE MCWorker ------------------------------
(***************************************************************************)
(* Instances of Worker for TLC.                                            *)
(***************************************************************************)
EXTENDS Worker, TLC

CONSTANTS home, away, blocked

AllURLs    == {home, away, blocked}
Origins    == home :> "A" @@ away :> "B" @@ blocked :> "B"
\* A name that is looked up, an address that passes and one that does not.
Verdicts   == home :> "lookup" @@ away :> "ok" @@ blocked :> "REQUEST_BLOCKED"
\* A good batch, and one that repeats an id.
GoodAndBad == {[i \in Indexes |-> i], [i \in Indexes |-> IF i = 1 THEN 2 ELSE i]}
\* The third request is blocked, the fourth does not normalize.
ThirdBlocked == [i \in Indexes |-> IF i = 3 THEN blocked ELSE home]
PostThenPut == [i \in Indexes |-> IF i = 1 THEN "POST" ELSE "PUT"]
FourthBad  == [i \in Indexes |-> IF i = 4 THEN "WORKER_ERROR" ELSE "ok"]
============================================================================
