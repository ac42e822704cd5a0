--------------------------- MODULE MCAgentHistory ---------------------------
(***************************************************************************)
(* Instances of AgentHistory for TLC.                                      *)
(***************************************************************************)
EXTENDS AgentHistory, TLC

CONSTANTS r1, r2, k1

TwoRequests == {r1, r2}
OneKey      == {k1}
SameKeyAll  == [r \in Requests |-> k1]
UnitSizes   == [r \in Requests |-> 1]
NoRequests  == {}
============================================================================
