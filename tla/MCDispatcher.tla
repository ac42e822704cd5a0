---------------------------- MODULE MCDispatcher ----------------------------
(***************************************************************************)
(* Instances of Dispatcher for TLC.                                        *)
(***************************************************************************)
EXTENDS Dispatcher

CONSTANTS b1, b2

OneBatch   == {b1}
TwoBatches == {b1, b2}
============================================================================
