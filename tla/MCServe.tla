------------------------------ MODULE MCServe ------------------------------
(***************************************************************************)
(* Instances of Serve for TLC.                                             *)
(***************************************************************************)
EXTENDS Serve

CONSTANTS r1, r2, k1

TwoRequests == {r1, r2}
SameKey     == [r \in Requests |-> k1]

\* Responses the proxy can decode, one of them cut, one it cannot, and two errors.
Results ==
  [ok : {TRUE}, code : {"base64", "cut", "utf8"}]
    \cup [ok : {FALSE}, code : {"METHOD_REJECTED", "FAILED"}]
============================================================================
