----------------------------- MODULE MCCommands -----------------------------
(***************************************************************************)
(* Instances of Commands for TLC.                                          *)
(***************************************************************************)
EXTENDS Commands, TLC

CONSTANTS p1, p2

TwoProcesses == {p1, p2}

Symmetry == Permutations(Procs)
============================================================================
