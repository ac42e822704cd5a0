----------------------------- MODULE RouteState -----------------------------
(***************************************************************************)
(* The route state file (client/internal/route).  Every command that       *)
(* touches it is a process of its own: it reads the file, changes its copy *)
(* and writes the whole file back, with no lock.  os.WriteFile truncates   *)
(* the file and then writes it, so between the two the file is empty, and  *)
(* stays so if the process dies there; two writers that overlap can leave  *)
(* the end of the longer content behind the shorter one.                   *)
(*                                                                         *)
(* CleanupReason is set and cleared with CleanupRequired; the times,       *)
(* addresses and the last action are only shown.                           *)
(***************************************************************************)

CONSTANT Procs   \* the processes that run a command

VARIABLES
  file,          \* the file: what is on disk, and the state it decodes to; the
                 \* default state when there is none
  copy           \* the state each process holds in memory

State == [installed : BOOLEAN, proxyInstalled : BOOLEAN, cleanupRequired : BOOLEAN]

DefaultState == [installed |-> FALSE, proxyInstalled |-> FALSE, cleanupRequired |-> FALSE]

Kinds == {"absent", "empty", "garbled", "whole"}

Undecodable == {"empty", "garbled"}
----------------------------------------------------------------------------
(* os.WriteFile, for every file the commands write. *)

\* A write over what another writer has put there since the truncation may leave
\* the tail of the longer content.
Written(kind) == IF kind = "empty" THEN {"whole"} ELSE {"whole", "garbled"}
----------------------------------------------------------------------------
(* Load and save. *)

\* Mutant: whatever the error, the defaults are used.
MutantLoadable == file.kind \in Kinds

\* LoadOrDefault takes a missing file for the default state; any other error is
\* its caller's.
Loadable == file.kind \notin Undecodable

LoadOrDefault == file.state

\* Save: the file is opened and truncated, ...
SaveOpens == file' = [kind |-> "empty", state |-> DefaultState]

\* ... then the copy is written.
SaveWrites(p) ==
  \E kind \in Written(file.kind) :
    file' = [kind |-> kind, state |-> IF kind = "whole" THEN copy[p] ELSE DefaultState]
----------------------------------------------------------------------------
(* What serve does to the flag. *)

MarkSkips(s) == ~s.installed

MarkCleanupRequired(s) == [s EXCEPT !.cleanupRequired = TRUE]

ClearSkips(s) == ~s.cleanupRequired

ClearCleanupRequired(s) == [s EXCEPT !.cleanupRequired = FALSE]
============================================================================
