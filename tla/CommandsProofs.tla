--------------------------- MODULE CommandsProofs ---------------------------
(***************************************************************************)
(* Commands: its type invariant, what holds of the route state however     *)
(* commands interleave and wherever they are killed, and the truth of the  *)
(* cleanup flag and of the recorded proxy when they do not overlap; for    *)
(* any number of processes and network services.                           *)
(***************************************************************************)
EXTENDS Commands, TLAPS

\* Where a process can stand.
Places ==
  {"idle", "ended", "init", "init write", "config", "setup", "load", "save", "write", "listen",
   "serving", "mark", "list", "set", "backup", "backup write", "netsh", "setenv", "unlist", "off",
   "reset", "unload", "clear"}

\* Where the command a process runs, and the platform, allow it to stand.  A process
\* has a copy of the state only between its load and its save.
PlacedAt(p) ==
  /\ pc[p] \in {"init", "init write"} => op[p] = "init"
  /\ pc[p] = "config" => op[p] \in {"route install", "proxy install", "clear"}
  /\ pc[p] \in {"setup", "listen", "serving", "mark"} => op[p] = "clear"
  /\ pc[p] \in {"load", "save", "write"} => op[p] # "init"
  /\ pc[p] \in {"list", "set", "backup", "backup write", "netsh", "setenv"} => op[p] = "proxy install"
  /\ pc[p] \in {"unlist", "off", "reset", "unload", "clear"} => op[p] \in ProxyCommands
  /\ pc[p] \in {"list", "set", "unlist", "off"} => platform = "macos"
  /\ pc[p] \in {"netsh", "reset"} => platform = "windows"
  /\ pc[p] \in {"setenv", "unload"} => platform # "macos"
  /\ pc[p] \notin {"save", "write"} => copy[p] = DefaultState

\* The same of all of them.
Placed == \A p \in Procs : PlacedAt(p)

\* The types, with the places named.
LEMMA PlaceTypes == TypeOK => pc \in [Procs -> Places]
BY DEF TypeOK, Places
----------------------------------------------------------------------------
(* The steps of the platform change the settings, the backup and the loop   *)
(* counter of a process, and where it stands.                               *)

\* The next step of a loop exists.
LEMMA StepTypes ==
  ASSUME TypeOK, NEW p \in Procs
  PROVE  /\ step[p] \in Nat /\ step[p] >= 1 /\ 1 \in 1 .. 5 * ServiceCount + 1
         /\ step[p] <= 5 * ServiceCount => step[p] + 1 \in 1 .. 5 * ServiceCount + 1
         /\ step[p] <= 2 * ServiceCount => step[p] + 1 \in 1 .. 5 * ServiceCount + 1
<1>1. step[p] \in 1 .. 5 * ServiceCount + 1
  BY DEF TypeOK
<1>2. 5 * ServiceCount \in Nat /\ 2 * ServiceCount \in Nat /\ 2 * ServiceCount <= 5 * ServiceCount
  BY ServiceAssumption
<1> QED
  BY <1>1, <1>2

\* What each step of the platform does to the settings.
LEMMA PlatformOS ==
  ASSUME TypeOK, NEW p \in Procs, PlatformStep(p) \/ PlatformFailure(p)
  PROVE  \/ os' = os
         \/ pc[p] = "set" /\ step[p] <= 5 * ServiceCount /\ os' = [os EXCEPT ![InstallStep(step[p])] = "relay"]
         \/ pc[p] = "netsh" /\ os' = [os EXCEPT ![WinHTTP] = "relay"]
         \/ pc[p] = "off" /\ step[p] <= 2 * ServiceCount /\ os' = [os EXCEPT ![UninstallStep(step[p])] = "off"]
         \/ pc[p] = "reset" /\ os' = [os EXCEPT ![WinHTTP] = "off"]
BY DEF PlatformStep, PlatformFailure, ServicesListed, SettingChanged, SettingFails, AllSet,
   BackupOpens, BackupWritten, WinHTTPSet, WinHTTPFails, EnvironmentSet, EnvironmentFails,
   ServicesListedAgain, TurnedOff, AllOff, WinHTTPReset, StateLoaded, StateCleared,
   BackupFails, UninstallFails, FailureIgnored, Goto

\* What each does to the loop counter and the backup.
LEMMA PlatformCounts ==
  ASSUME TypeOK, NEW p \in Procs, PlatformStep(p) \/ PlatformFailure(p)
  PROVE  /\ step' \in [Procs -> 1 .. 5 * ServiceCount + 1]
         /\ backup' \in Kinds
<1>1. \/ step' = step \/ step' = [step EXCEPT ![p] = 1]
      \/ step[p] <= 5 * ServiceCount /\ step' = [step EXCEPT ![p] = @ + 1]
      \/ step[p] <= 2 * ServiceCount /\ step' = [step EXCEPT ![p] = @ + 1]
  BY DEF PlatformStep, PlatformFailure, ServicesListed, SettingChanged, SettingFails, AllSet,
     BackupOpens, BackupWritten, WinHTTPSet, WinHTTPFails, EnvironmentSet, EnvironmentFails,
     ServicesListedAgain, TurnedOff, AllOff, WinHTTPReset, StateLoaded, StateCleared,
     BackupFails, UninstallFails, FailureIgnored
<1>2. step' \in [Procs -> 1 .. 5 * ServiceCount + 1]
  <2>1. PICK n \in 1 .. 5 * ServiceCount + 1 : step' = step \/ step' = [step EXCEPT ![p] = n]
    BY <1>1, StepTypes
  <2> QED
    BY <2>1 DEF TypeOK
<1>3. backup' \in Kinds
  BY DEF PlatformStep, PlatformFailure, ServicesListed, SettingChanged, SettingFails, AllSet,
     BackupOpens, BackupWritten, WinHTTPSet, WinHTTPFails, EnvironmentSet, EnvironmentFails,
     ServicesListedAgain, TurnedOff, AllOff, WinHTTPReset, StateLoaded, StateCleared,
     BackupFails, UninstallFails, FailureIgnored, TypeOK, Kinds, Written
<1> QED
  BY <1>2, <1>3

\* What a move says of the process itself.
LEMMA GotoAt ==
  ASSUME TypeOK, NEW p \in Procs
  PROVE  \A from, to : Goto(p, from, to) => pc[p] = from /\ pc'[p] = to
BY DEF TypeOK, Goto

\* One process moves at a time.
LEMMA OneMoves ==
  ASSUME TypeOK, NEW p \in Procs, \E to : pc' = [pc EXCEPT ![p] = to], pc'[p] \in Places
  PROVE  pc' \in [Procs -> Places]
BY PlaceTypes

\* The platform's steps move it.
LEMMA PlatformMoves ==
  ASSUME NEW p \in Procs, PlatformStep(p) \/ PlatformFailure(p)
  PROVE  \E to : pc' = [pc EXCEPT ![p] = to]
BY DEF PlatformStep, PlatformFailure, ServicesListed, SettingChanged, SettingFails, AllSet,
   BackupOpens, BackupWritten, WinHTTPSet, WinHTTPFails, EnvironmentSet, EnvironmentFails,
   ServicesListedAgain, TurnedOff, AllOff, WinHTTPReset, StateLoaded, StateCleared,
   BackupFails, UninstallFails, FailureIgnored, Goto

\* The moves of an install.
LEMMA InstallMoves ==
  ASSUME TypeOK, NEW p \in Procs, platform \in Platforms,
         \/ ServicesListed(p) \/ SettingChanged(p) \/ SettingFails(p) \/ AllSet(p)
         \/ BackupOpens(p) \/ BackupWritten(p) \/ BackupFails(p)
         \/ WinHTTPSet(p) \/ WinHTTPFails(p) \/ EnvironmentSet(p) \/ EnvironmentFails(p)
  PROVE  \/ pc[p] = "list" /\ pc'[p] \in {"set", "ended"}
         \/ pc[p] = "set" /\ pc'[p] \in {"set", "unlist", "backup"}
         \/ pc[p] = "backup" /\ pc'[p] \in {"backup write", "ended"}
         \/ pc[p] = "backup write" /\ pc'[p] = "ended"
         \/ platform = "macos" /\ pc[p] = "backup write" /\ pc'[p] = "load"
         \/ platform = "windows" /\ pc[p] = "backup write" /\ pc'[p] = "netsh"
         \/ platform = "linux" /\ pc[p] = "backup write" /\ pc'[p] = "setenv"
         \/ pc[p] = "netsh" /\ pc'[p] \in {"setenv", "ended"}
         \/ pc[p] = "setenv" /\ pc'[p] \in {"load", "ended"}
         \/ platform = "windows" /\ pc[p] = "setenv" /\ pc'[p] = "reset"
<1>1. \/ \E to \in {"set", "ended"} : Goto(p, "list", to)
      \/ \E to \in {"set", "unlist", "backup"} : Goto(p, "set", to)
      \/ \E to \in {"backup write", "ended"} : Goto(p, "backup", to)
      \/ Goto(p, "backup write", "ended")
      \/ platform = "macos" /\ Goto(p, "backup write", "load")
      \/ platform = "windows" /\ Goto(p, "backup write", "netsh")
      \/ platform = "linux" /\ Goto(p, "backup write", "setenv")
      \/ \E to \in {"setenv", "ended"} : Goto(p, "netsh", to)
      \/ \E to \in {"load", "ended"} : Goto(p, "setenv", to)
      \/ platform = "windows" /\ Goto(p, "setenv", "reset")
  BY DEF Goto, Platforms, ServicesListed, SettingChanged, SettingFails, AllSet, BackupOpens,
     BackupWritten, BackupFails, WinHTTPSet, WinHTTPFails, EnvironmentSet, EnvironmentFails
<1> QED
  BY <1>1, GotoAt

\* The moves of an uninstall and of a rollback.
LEMMA UninstallMoves ==
  ASSUME TypeOK, NEW p \in Procs,
         \/ ServicesListedAgain(p) \/ TurnedOff(p) \/ AllOff(p) \/ WinHTTPReset(p)
         \/ StateLoaded(p) \/ StateCleared(p) \/ UninstallFails(p) \/ FailureIgnored(p)
  PROVE  \/ pc[p] = "unlist" /\ pc'[p] \in {"off", "ended"}
         \/ pc[p] = "off" /\ pc'[p] \in {"off", "clear"}
         \/ pc[p] = "reset" /\ pc'[p] = "unload"
         \/ pc[p] = "unload" /\ pc'[p] \in {"clear", "ended"}
         \/ pc[p] = "clear" /\ pc'[p] = "ended"
         \/ op[p] = "proxy uninstall" /\ pc[p] \in {"unload", "clear"} /\ pc'[p] = "load"
<1>1. \/ \E to \in {"off", "ended"} : Goto(p, "unlist", to)
      \/ \E to \in {"off", "clear"} : Goto(p, "off", to)
      \/ Goto(p, "reset", "unload")
      \/ \E to \in {"clear", "ended"} : Goto(p, "unload", to)
      \/ Goto(p, "clear", "ended")
      \/ op[p] = "proxy uninstall" /\ (Goto(p, "unload", "load") \/ Goto(p, "clear", "load"))
  BY DEF Goto, Returned, ServicesListedAgain, TurnedOff, AllOff, WinHTTPReset, StateLoaded,
     StateCleared, UninstallFails, FailureIgnored
<1> QED
  BY <1>1, GotoAt

----------------------------------------------------------------------------
(* The other steps. *)

\* A step of process p.
StepOf(p) ==
  \/ \E o \in OneShot \cup {"clear"} : Start(p, o)
  \/ InitOpens(p) \/ InitWrites(p) \/ InitFails(p) \/ ConfigLoaded(p) \/ ConfigFails(p)
  \/ Platform(p) \/ Route(p) \/ Serve(p)
  \/ Kill(p) \/ Exit(p)

\* Steps that only move a process, or write the configuration.
Moves(p) ==
  \/ InitOpens(p) \/ InitWrites(p) \/ InitFails(p) \/ ConfigLoaded(p) \/ ConfigFails(p)
  \/ NothingToChange(p) \/ ServeReady(p) \/ SetupFails(p) \/ Listens(p) \/ ListenFails(p)

\* Every step is one of these.
LEMMA StepsOfProcess ==
  ASSUME NEW p \in Procs
  PROVE  StepOf(p) <=>
           \/ \E o \in OneShot \cup {"clear"} : Start(p, o)
           \/ Moves(p) \/ Platform(p) \/ Kill(p) \/ Exit(p)
           \/ StateChanged(p) \/ LoadFails(p) \/ StateOpened(p) \/ StateSaved(p) \/ SaveFails(p)
           \/ ServeStops(p) \/ MarkDeferred(p)
BY DEF StepOf, Moves, Route, Serve

\* And leaves the other processes, the platform and the operator's habit alone.
LEMMA OthersKept ==
  ASSUME TypeOK, NEW p \in Procs, StepOf(p)
  PROVE  /\ UNCHANGED <<platform, alone>>
         /\ \A q \in Procs \ {p} :
              pc'[q] = pc[q] /\ op'[q] = op[q] /\ copy'[q] = copy[q] /\ step'[q] = step[q]
<1> USE DEF TypeOK, Goto
<1>1. CASE (\E o \in OneShot \cup {"clear"} : Start(p, o)) \/ Kill(p) \/ Exit(p)
  BY <1>1 DEF Start, Kill, Exit, Vanish, platformVars, ghosts
<1>2. CASE Moves(p) \/ ServeStops(p) \/ MarkDeferred(p)
  BY <1>2 DEF Moves, InitOpens, InitWrites, InitFails, ConfigLoaded, ConfigFails, NothingToChange,
     ServeReady, SetupFails, Listens, ListenFails, ServeStops, MarkDeferred, platformVars, ghosts
<1>3. CASE \/ StateChanged(p) \/ LoadFails(p) \/ StateOpened(p) \/ StateSaved(p) \/ SaveFails(p)
  BY <1>3 DEF StateChanged, LoadFails, StateOpened, StateSaved, SaveFails, platformVars, ghosts
<1>4. CASE Platform(p)
  <2>1. UNCHANGED <<platform, alone, op, copy>> /\ (PlatformStep(p) \/ PlatformFailure(p))
    BY <1>4 DEF Platform
  <2>2. \E to : pc' = [pc EXCEPT ![p] = to]
    BY <2>1, PlatformMoves
  <2>3. step' = step \/ \E n : step' = [step EXCEPT ![p] = n]
    BY <2>1 DEF PlatformStep, PlatformFailure, ServicesListed, SettingChanged, SettingFails, AllSet,
       BackupOpens, BackupWritten, WinHTTPSet, WinHTTPFails, EnvironmentSet, EnvironmentFails,
       ServicesListedAgain, TurnedOff, AllOff, WinHTTPReset, StateLoaded, StateCleared,
       BackupFails, UninstallFails, FailureIgnored
  <2> QED
    BY <2>1, <2>2, <2>3
<1> QED
  BY <1>1, <1>2, <1>3, <1>4, StepsOfProcess

\* Where moves lead.
LEMMA MovesLead ==
  ASSUME TypeOK, Placed, NEW p \in Procs, Moves(p)
  PROVE  /\ UNCHANGED <<file, copy, platform, platformVars, op, ghosts>>
         /\ config' \in Kinds /\ \E to : pc' = [pc EXCEPT ![p] = to]
         /\ \/ pc[p] = "init" /\ pc'[p] \in {"init write", "ended"}
            \/ pc[p] = "init write" /\ pc'[p] = "ended"
            \/ pc[p] = "config" /\ pc'[p] = "ended"
            \/ op[p] = "route install" /\ pc[p] = "config" /\ pc'[p] = "load"
            \/ op[p] = "proxy install" /\ pc[p] = "config" /\ pc'[p] = InstallEntry
            \/ op[p] = "clear" /\ pc[p] = "config" /\ pc'[p] = "setup"
            \/ op[p] = "clear" /\ pc[p] = "load" /\ pc'[p] = "listen" /\ ~file.state.cleanupRequired
            \/ op[p] = "mark" /\ pc[p] = "load" /\ pc'[p] = "ended" /\ ~file.state.installed
            \/ op[p] = "route uninstall" /\ pc[p] = "load" /\ pc'[p] = "ended"
                 /\ ~file.state.installed /\ ~file.state.cleanupRequired
            \/ pc[p] = "setup" /\ pc'[p] \in {"load", "mark"}
            \/ pc[p] = "listen" /\ pc'[p] = "serving" /\ ~Listening
            \/ pc[p] = "listen" /\ pc'[p] = "mark"
<1>0. SUFFICES /\ UNCHANGED <<file, copy, platform, platformVars, op, ghosts>>
               /\ config' \in Kinds
               /\ \/ \E to \in {"init write", "ended"} : Goto(p, "init", to)
                  \/ Goto(p, "init write", "ended")
                  \/ Goto(p, "config", "ended")
                  \/ op[p] = "route install" /\ Goto(p, "config", "load")
                  \/ op[p] = "proxy install" /\ Goto(p, "config", InstallEntry)
                  \/ op[p] = "clear" /\ Goto(p, "config", "setup")
                  \/ op[p] = "clear" /\ Goto(p, "load", "listen") /\ ~file.state.cleanupRequired
                  \/ op[p] = "mark" /\ Goto(p, "load", "ended") /\ ~file.state.installed
                  \/ op[p] = "route uninstall" /\ Goto(p, "load", "ended")
                       /\ ~file.state.installed /\ ~file.state.cleanupRequired
                  \/ \E to \in {"load", "mark"} : Goto(p, "setup", to)
                  \/ Goto(p, "listen", "serving") /\ ~Listening
                  \/ Goto(p, "listen", "mark")
  <2>1. \E to : pc' = [pc EXCEPT ![p] = to]
    BY DEF Moves, InitOpens, InitWrites, InitFails, ConfigLoaded, ConfigFails, NothingToChange,
       ServeReady, SetupFails, Listens, ListenFails, Goto
  <2> QED
    BY <2>1, GotoAt
<1>1. CASE \/ InitOpens(p) \/ InitWrites(p) \/ InitFails(p) \/ ConfigFails(p)
           \/ ServeReady(p) \/ SetupFails(p) \/ Listens(p) \/ ListenFails(p)
  BY <1>1 DEF InitOpens, InitWrites, InitFails, ConfigFails, ServeReady, SetupFails, Listens,
     ListenFails, Written, Kinds, TypeOK
<1>2. CASE ConfigLoaded(p)
  <2>1. pc[p] = "config" /\ op[p] \in {"route install", "proxy install", "clear"}
    BY <1>2 DEF ConfigLoaded, Goto, Placed, PlacedAt
  <2> QED
    BY <1>2, <2>1 DEF ConfigLoaded, Goto, TypeOK
<1>3. CASE NothingToChange(p)
  BY <1>3 DEF NothingToChange, Skips, Done, ClearSkips, MarkSkips, LoadOrDefault, Goto, TypeOK
<1> QED
  BY <1>1, <1>2, <1>3 DEF Moves

\* A change of a state is a state.
LEMMA ChangeTypes ==
  ASSUME NEW o \in (OneShot \cup {"clear", "mark"}) \ {"init"}, NEW s \in State
  PROVE  Change(o, s) \in State
BY DEF OneShot, Change, RouteInstall, RouteUninstall, ProxyInstall, ProxyUninstall,
   ClearCleanupRequired, MarkCleanupRequired, State

\* Nothing is known of a state that was not written.
LEMMA DefaultTypes == DefaultState \in State /\ "empty" \in Kinds /\ "whole" \in Kinds /\ "garbled" \in Kinds
BY DEF DefaultState, State, Kinds
----------------------------------------------------------------------------
(* Types and places. *)

\* Where a command starts.
LEMMA EntryPlaces ==
  ASSUME platform \in Platforms, NEW o \in OneShot \cup {"clear"}
  PROVE  /\ o = "init" => Entry(o) = "init"
         /\ o = "route uninstall" => Entry(o) = "load"
         /\ o = "proxy uninstall" => /\ Entry(o) \in {"unlist", "reset", "unload"}
                                     /\ Entry(o) = "unlist" <=> platform = "macos"
                                     /\ Entry(o) = "reset" <=> platform = "windows"
         /\ o \in {"route install", "proxy install", "clear"} => Entry(o) = "config"
BY DEF OneShot, Entry, UninstallEntry, Platforms

\* A process that starts, is killed or ends.
LEMMA LifeTypes ==
  ASSUME TypeOK, Placed, NEW p \in Procs,
         (\E o \in OneShot \cup {"clear"} : Start(p, o)) \/ Kill(p) \/ Exit(p)
  PROVE  TypeOK' /\ PlacedAt(p)'
<1>1. ASSUME NEW o \in OneShot \cup {"clear"}, Start(p, o) PROVE TypeOK' /\ PlacedAt(p)'
  <2>1. /\ pc' = [pc EXCEPT ![p] = Entry(o)] /\ op' = [op EXCEPT ![p] = o] /\ pc[p] = "idle"
        /\ UNCHANGED <<file, copy, platform, platformVars, config, alone>>
    BY <1>1 DEF Start, Goto
  <2>2. Entry(o) \in Places
    BY EntryPlaces DEF Places, OneShot, TypeOK
  <2>3. pc' \in [Procs -> Places] /\ op' \in [Procs -> OneShot \cup {"clear", "mark"}]
    BY <2>1, <2>2, PlaceTypes DEF TypeOK
  <2>4. trust' \in {"yes", "no", "repairing"}
    BY <1>1 DEF Start, TypeOK
  <2>5. stopped' \in BOOLEAN
    BY <1>1, Zenon DEF Start
  <2>6. TypeOK'
    BY <2>1, <2>3, <2>4, <2>5 DEF TypeOK, Places, platformVars
  <2>7. pc'[p] = Entry(o) /\ op'[p] = o /\ copy'[p] = DefaultState /\ platform' = platform
    BY <2>1 DEF TypeOK, Placed, PlacedAt
  <2>8. PlacedAt(p)'
    BY <2>7, EntryPlaces DEF PlacedAt, ProxyCommands, OneShot, TypeOK, Platforms
  <2> QED
    BY <2>6, <2>8
<1>2. CASE Kill(p) \/ Exit(p)
  <2>1. Vanish(p) /\ UNCHANGED <<file, platform, os, backup, config, alone>>
    BY <1>2 DEF Kill, Exit, ghosts
  <2>2. pc' \in [Procs -> Places] /\ op' \in [Procs -> OneShot \cup {"clear", "mark"}]
    BY <2>1, PlaceTypes DEF Vanish, TypeOK, Places, OneShot
  <2>3. copy' \in [Procs -> State] /\ step' \in [Procs -> 1 .. 5 * ServiceCount + 1]
    BY <2>1, DefaultTypes, StepTypes DEF Vanish, TypeOK
  <2>4. trust' \in {"yes", "no", "repairing"} /\ stopped' \in BOOLEAN
    BY <1>2 DEF Kill, Exit, Distrust, ghosts, TypeOK
  <2>5. TypeOK'
    BY <2>1, <2>2, <2>3, <2>4 DEF TypeOK, Places
  <2>6. pc'[p] = "idle" /\ copy'[p] = DefaultState
    BY <2>1 DEF Vanish, TypeOK
  <2> QED
    BY <2>5, <2>6 DEF PlacedAt
<1> QED
  BY <1>1, <1>2

\* A process that only moves.
LEMMA MovesTypes ==
  ASSUME TypeOK, Placed, NEW p \in Procs, Moves(p)
  PROVE  TypeOK' /\ PlacedAt(p)'
<1>1. InstallEntry \in {"list", "backup"} /\ (InstallEntry = "list" => platform = "macos")
  BY DEF InstallEntry
<1>2. PlacedAt(p)
  BY DEF Placed
<1>3. pc' \in [Procs -> Places]
  <2>1. pc'[p] \in Places /\ \E to : pc' = [pc EXCEPT ![p] = to]
    BY <1>1, MovesLead DEF Places
  <2> QED
    BY <2>1, OneMoves
<1>4. UNCHANGED <<file, copy, platform, platformVars, op, ghosts>> /\ config' \in Kinds
  BY MovesLead
<1>5. TypeOK'
  BY <1>3, <1>4 DEF TypeOK, Places, platformVars, ghosts
<1>6. copy'[p] = DefaultState /\ op'[p] = op[p] /\ platform' = platform
  BY <1>2, <1>4, MovesLead DEF PlacedAt
<1>7. \/ pc'[p] \in {"ended", "mark", "load", "setup", "listen", "serving"}
             /\ (pc'[p] \in {"mark", "setup", "listen", "serving"} => op[p] = "clear")
             /\ (pc'[p] = "load" => op[p] # "init")
      \/ pc'[p] = "init write" /\ op[p] = "init"
      \/ pc'[p] = InstallEntry /\ op[p] = "proxy install"
  BY <1>2, MovesLead DEF PlacedAt
<1>8. PlacedAt(p)'
  BY <1>1, <1>6, <1>7 DEF PlacedAt
<1> QED
  BY <1>5, <1>8

\* A process that changes the route state.
LEMMA StateTypes ==
  ASSUME TypeOK, Placed, NEW p \in Procs,
         StateChanged(p) \/ LoadFails(p) \/ StateOpened(p) \/ StateSaved(p) \/ SaveFails(p)
  PROVE  TypeOK' /\ PlacedAt(p)'
<1>0. PlacedAt(p)
  BY DEF Placed
<1>1. UNCHANGED <<platform, platformVars, op, config, alone>>
  BY DEF StateChanged, LoadFails, StateOpened, StateSaved, SaveFails, ghosts
<1>2. Done(p) \in {"listen", "ended"} /\ Failed(p) \in {"mark", "ended"}
  BY DEF Done, Failed
<1>3. pc' \in [Procs -> Places]
  BY <1>2, PlaceTypes DEF StateChanged, LoadFails, StateOpened, StateSaved, SaveFails, Goto, Places
<1>4. trust' \in {"yes", "no", "repairing"}
  BY DEF StateChanged, LoadFails, StateOpened, StateSaved, SaveFails, Distrust, TypeOK, ghosts
<1>5. stopped' \in BOOLEAN
  <2>1. stopped' = stopped \/ stopped' = (stopped /\ op[p] # "mark")
          \/ stopped' = (stopped /\ op[p] \notin {"route install", "route uninstall"})
    BY DEF StateChanged, LoadFails, StateOpened, StateSaved, SaveFails, ghosts
  <2>2. stopped \in BOOLEAN
    BY DEF TypeOK
  <2> QED
    BY <2>1, <2>2, Zenon
<1>6. file' \in [kind : Kinds, state : State]
  <2>1. CASE StateSaved(p)
    <3>1. PICK kind \in Kinds :
            file' = [kind |-> kind, state |-> IF kind = "whole" THEN copy[p] ELSE DefaultState]
      BY <2>1 DEF StateSaved, SaveWrites, Written, Kinds
    <3>2. copy[p] \in State
      BY DEF TypeOK
    <3> QED
      BY <3>1, <3>2, DefaultTypes
  <2>2. CASE StateOpened(p)
    BY <2>2, DefaultTypes DEF StateOpened, SaveOpens
  <2>3. CASE StateChanged(p) \/ LoadFails(p) \/ SaveFails(p)
    BY <2>3 DEF StateChanged, LoadFails, SaveFails, TypeOK
  <2> QED
    BY <2>1, <2>2, <2>3
<1>7. copy' \in [Procs -> State]
  <2>1. CASE StateChanged(p)
    <3>1. Change(op[p], file.state) \in State
      BY <1>0, <2>1, ChangeTypes DEF StateChanged, Goto, PlacedAt, TypeOK
    <3> QED
      BY <2>1, <3>1 DEF StateChanged, LoadOrDefault, TypeOK
  <2>2. CASE LoadFails(p) \/ StateOpened(p) \/ StateSaved(p) \/ SaveFails(p)
    BY <2>2, DefaultTypes DEF LoadFails, StateOpened, StateSaved, SaveFails, TypeOK
  <2> QED
    BY <2>1, <2>2
<1>8. TypeOK'
  BY <1>1, <1>3, <1>4, <1>5, <1>6, <1>7 DEF TypeOK, Places, platformVars
<1>9. op'[p] = op[p] /\ platform' = platform /\ pc[p] \in {"load", "save", "write"}
  BY <1>1 DEF StateChanged, LoadFails, StateOpened, StateSaved, SaveFails, Goto
<1>10. \/ pc'[p] \in {"save", "write"}
       \/ /\ pc'[p] = "ended" \/ (pc'[p] \in {"listen", "mark"} /\ op[p] = "clear")
          /\ copy'[p] = DefaultState
  BY <1>0 DEF StateChanged, LoadFails, StateOpened, StateSaved, SaveFails, Goto, Done, Failed,
     TypeOK, PlacedAt
<1>11. PlacedAt(p)'
  BY <1>0, <1>9, <1>10 DEF PlacedAt
<1> QED
  BY <1>8, <1>11

\* serve stops, and marks.
LEMMA ServeTypes ==
  ASSUME TypeOK, Placed, NEW p \in Procs, ServeStops(p) \/ MarkDeferred(p)
  PROVE  TypeOK' /\ PlacedAt(p)'
<1>1. PlacedAt(p)
  BY DEF Placed
<1>2. CASE ServeStops(p)
  BY <1>1, <1>2 DEF ServeStops, Goto, TypeOK, PlacedAt, platformVars
<1>3. CASE MarkDeferred(p)
  BY <1>1, <1>3 DEF MarkDeferred, Goto, TypeOK, PlacedAt, platformVars, ghosts
<1> QED
  BY <1>2, <1>3

\* A step of the platform.
LEMMA PlatformTypes ==
  ASSUME TypeOK, Placed, NEW p \in Procs, Platform(p)
  PROVE  TypeOK' /\ PlacedAt(p)'
<1>1. /\ PlatformStep(p) \/ PlatformFailure(p)
      /\ UNCHANGED <<file, copy, platform, op, config, alone, stopped>>
      /\ trust' \in {"yes", "no", "repairing"} /\ PlacedAt(p) /\ platform \in Platforms
  BY DEF Platform, Distrust, Placed, TypeOK
<1>2. CASE \/ ServicesListed(p) \/ SettingChanged(p) \/ SettingFails(p) \/ AllSet(p)
           \/ BackupOpens(p) \/ BackupWritten(p) \/ BackupFails(p)
           \/ WinHTTPSet(p) \/ WinHTTPFails(p) \/ EnvironmentSet(p) \/ EnvironmentFails(p)
  <2>1. pc' \in [Procs -> Places]
    <3>1. pc'[p] \in Places /\ \E to : pc' = [pc EXCEPT ![p] = to]
      BY <1>1, <1>2, InstallMoves, PlatformMoves DEF Places
    <3> QED
      BY <3>1, OneMoves
  <2>2. pc[p] \notin {"save", "write"} /\ op'[p] = op[p] /\ platform' = platform /\ copy'[p] = copy[p]
    BY <1>1, <1>2, InstallMoves
  <2>3. /\ pc'[p] \in {"set", "ended", "unlist", "backup", "backup write", "load", "netsh", "setenv", "reset"}
        /\ op[p] = "proxy install"
        /\ pc'[p] \in {"set", "unlist"} => platform = "macos"
        /\ pc'[p] \in {"netsh", "reset"} => platform = "windows"
        /\ pc'[p] = "setenv" => platform # "macos"
    BY <1>1, <1>2, InstallMoves DEF PlacedAt
  <2>4. PlacedAt(p)'
    BY <1>1, <2>2, <2>3 DEF PlacedAt, ProxyCommands
  <2> QED
    BY <1>1, <2>1, <2>4, PlatformCounts, PlatformOS DEF TypeOK, Places
<1>3. CASE \/ ServicesListedAgain(p) \/ TurnedOff(p) \/ AllOff(p) \/ WinHTTPReset(p)
           \/ StateLoaded(p) \/ StateCleared(p) \/ UninstallFails(p) \/ FailureIgnored(p)
  <2>1. pc' \in [Procs -> Places]
    <3>1. pc'[p] \in Places /\ \E to : pc' = [pc EXCEPT ![p] = to]
      BY <1>1, <1>3, UninstallMoves, PlatformMoves DEF Places
    <3> QED
      BY <3>1, OneMoves
  <2>2. pc[p] \notin {"save", "write"} /\ op'[p] = op[p] /\ platform' = platform /\ copy'[p] = copy[p]
    BY <1>1, <1>3, UninstallMoves
  <2>3. /\ pc'[p] \in {"off", "ended", "clear", "unload", "load"}
        /\ op[p] \in ProxyCommands
        /\ pc'[p] = "off" => platform = "macos"
        /\ pc'[p] = "unload" => platform # "macos"
    BY <1>1, <1>3, UninstallMoves DEF PlacedAt, ProxyCommands
  <2>4. PlacedAt(p)'
    BY <1>1, <2>2, <2>3 DEF PlacedAt, ProxyCommands
  <2> QED
    BY <1>1, <2>1, <2>4, PlatformCounts, PlatformOS DEF TypeOK, Places
<1> QED
  BY <1>1, <1>2, <1>3 DEF PlatformStep, PlatformFailure

\* Every step keeps types and places.
LEMMA NextTypes == TypeOK /\ Placed /\ [Next]_vars => TypeOK' /\ Placed'
<1> SUFFICES ASSUME TypeOK, Placed, [Next]_vars PROVE TypeOK' /\ Placed'
  OBVIOUS
<1>1. CASE UNCHANGED vars
  BY <1>1 DEF vars, platformVars, ghosts, TypeOK, Placed, PlacedAt
<1>2. ASSUME NEW p \in Procs, StepOf(p) PROVE TypeOK' /\ Placed'
  <2>1. TypeOK' /\ PlacedAt(p)'
    BY <1>2, StepsOfProcess, LifeTypes, MovesTypes, StateTypes, ServeTypes, PlatformTypes
  <2>2. ASSUME NEW q \in Procs, q # p PROVE PlacedAt(q)'
    <3>1. /\ pc'[q] = pc[q] /\ op'[q] = op[q] /\ copy'[q] = copy[q]
          /\ platform' = platform /\ PlacedAt(q)
      BY <1>2, <2>2, OthersKept DEF Placed
    <3> QED
      BY <3>1 DEF PlacedAt
  <2> QED
    BY <2>1, <2>2 DEF Placed
<1> QED
  BY <1>1, <1>2 DEF Next, StepOf

\* Types and places hold at the start.
LEMMA InitTypes == Init => TypeOK /\ Placed
<1> SUFFICES ASSUME Init PROVE TypeOK /\ Placed
  OBVIOUS
<1>1. step \in [Procs -> 1 .. 5 * ServiceCount + 1]
  BY ServiceAssumption DEF Init
<1>2. TypeOK
  BY <1>1, DefaultTypes DEF Init, TypeOK, Kinds, OneShot
<1> QED
  BY <1>2 DEF Init, Placed, PlacedAt

\* So they always hold.
LEMMA AlwaysPlaced == Spec => [](TypeOK /\ Placed)
<1>1. Init => TypeOK /\ Placed
  BY InitTypes
<1>2. TypeOK /\ Placed /\ [Next]_vars => TypeOK' /\ Placed'
  BY NextTypes
<1> QED
  BY <1>1, <1>2, PTL DEF Spec

\* The state of the commands keeps its types, for any number of processes.
THEOREM TypeCorrect == Spec => []TypeOK
BY AlwaysPlaced, PTL
----------------------------------------------------------------------------
(* The route state, on disk and in memory. *)

\* How a step changes the file, and whether it is one that saves.
LEMMA FileChanges ==
  ASSUME NEW p \in Procs, StepOf(p)
  PROVE  \/ file' = file
         \/ StateOpened(p) /\ pc[p] = "save" /\ file' = [kind |-> "empty", state |-> DefaultState]
         \/ /\ StateSaved(p) /\ pc[p] = "write"
            /\ \/ file' = [kind |-> "whole", state |-> copy[p]]
               \/ file' = [kind |-> "garbled", state |-> DefaultState]
<1>1. CASE StateSaved(p)
  BY <1>1 DEF StateSaved, SaveWrites, Written, Goto
<1>2. CASE StateOpened(p)
  BY <1>2 DEF StateOpened, SaveOpens, Goto
<1>3. CASE ~StateSaved(p) /\ ~StateOpened(p)
  BY <1>3, StepsOfProcess DEF Start, Moves, Platform, Kill, Exit, StateChanged, LoadFails, SaveFails, ServeStops,
     MarkDeferred, InitOpens, InitWrites, InitFails, ConfigLoaded, ConfigFails, NothingToChange,
     ServeReady, SetupFails, Listens, ListenFails
<1> QED
  BY <1>1, <1>2, <1>3

\* How a step changes the copy of its process.
LEMMA CopyChanges ==
  ASSUME TypeOK, NEW p \in Procs, StepOf(p)
  PROVE  \/ copy'[p] = copy[p] \/ copy'[p] = DefaultState
         \/ /\ StateChanged(p) /\ pc[p] = "load" /\ Loadable /\ ~Skips(op[p], file.state)
            /\ copy'[p] = Change(op[p], file.state)
<1>1. CASE StateChanged(p)
  BY <1>1 DEF StateChanged, LoadOrDefault, Goto, TypeOK
<1>2. CASE ~StateChanged(p)
  BY <1>2, StepsOfProcess DEF Start, Moves, Platform, Kill, Exit, Vanish, LoadFails, StateOpened, StateSaved,
     SaveFails, ServeStops, MarkDeferred, InitOpens, InitWrites, InitFails, ConfigLoaded, ConfigFails,
     NothingToChange, ServeReady, SetupFails, Listens, ListenFails, TypeOK
<1> QED
  BY <1>1, <1>2

\* What a change does to each field.
LEMMA ChangeFields ==
  ASSUME NEW o \in (OneShot \cup {"clear", "mark"}) \ {"init"}, NEW s \in State, ~Skips(o, s)
  PROVE  /\ o = "route install" => Change(o, s).installed /\ ~Change(o, s).cleanupRequired
         /\ o = "route uninstall" => ~Change(o, s).installed /\ ~Change(o, s).cleanupRequired
         /\ o = "clear" => ~Change(o, s).cleanupRequired /\ Change(o, s).installed = s.installed
         /\ o = "mark" => Change(o, s).cleanupRequired /\ Change(o, s).installed
         /\ o \in ProxyCommands => /\ Change(o, s).installed = s.installed
                                   /\ Change(o, s).cleanupRequired = s.cleanupRequired
         /\ o = "proxy install" => Change(o, s).proxyInstalled
         /\ o \notin ProxyCommands => Change(o, s).proxyInstalled = s.proxyInstalled
<1> USE DEF OneShot, Change, RouteInstall, RouteUninstall, ProxyInstall, ProxyUninstall,
    ClearCleanupRequired, MarkCleanupRequired, State, ProxyCommands
<1>1. CASE o = "mark"
  BY <1>1 DEF Skips, MarkSkips
<1>2. CASE o = "clear"
  BY <1>2
<1>3. CASE o = "route install"
  BY <1>3
<1>4. CASE o = "route uninstall"
  BY <1>4
<1>5. CASE o = "proxy install"
  BY <1>5
<1>6. CASE o = "proxy uninstall"
  BY <1>6
<1> QED
  BY <1>1, <1>2, <1>3, <1>4, <1>5, <1>6

\* What a process that has just loaded the state is about to write.
LEMMA LoadedOps ==
  ASSUME TypeOK, Placed, NEW p \in Procs, pc[p] = "load"
  PROVE  op[p] \in (OneShot \cup {"clear", "mark"}) \ {"init"} /\ file.state \in State
BY DEF TypeOK, Placed, PlacedAt

\* The flag of a state comes with Installed.
Coherent(s) == s.cleanupRequired => s.installed

\* Every change keeps that: only mark sets the flag, and it skips a state without a
\* route.
LEMMA CoherentChange ==
  ASSUME NEW o \in (OneShot \cup {"clear", "mark"}) \ {"init"}, NEW s \in State, ~Skips(o, s),
         Coherent(s)
  PROVE  Coherent(Change(o, s))
<1>1. CASE o \in ProxyCommands
  <2>1. Change(o, s).installed = s.installed /\ Change(o, s).cleanupRequired = s.cleanupRequired
    BY <1>1, ChangeFields
  <2> QED
    BY <2>1 DEF Coherent
<1>2. CASE o = "mark"
  BY <1>2, ChangeFields DEF Coherent
<1>3. CASE o \in {"clear", "route install", "route uninstall"}
  BY <1>3, ChangeFields DEF Coherent
<1> QED
  BY <1>1, <1>2, <1>3 DEF OneShot, ProxyCommands

\* A step keeps that of the file and of all copies.
LEMMA CoherentSteps ==
  ASSUME TypeOK, Placed, CleanupMeansInstalled, NEW p \in Procs, StepOf(p)
  PROVE  CleanupMeansInstalled'
<1>1. Coherent(file.state) /\ \A q \in Procs : Coherent(copy[q])
  BY DEF CleanupMeansInstalled, Coherent
<1>2. Coherent(DefaultState)
  BY DEF Coherent, DefaultState
<1>3. Coherent(file'.state)
  BY <1>1, <1>2, FileChanges
<1>4. Coherent(copy'[p])
  <2>1. CASE copy'[p] = copy[p] \/ copy'[p] = DefaultState
    BY <1>1, <1>2, <2>1
  <2>2. CASE pc[p] = "load" /\ ~Skips(op[p], file.state) /\ copy'[p] = Change(op[p], file.state)
    <3>1. op[p] \in (OneShot \cup {"clear", "mark"}) \ {"init"} /\ file.state \in State
      BY <2>2, LoadedOps
    <3> QED
      BY <1>1, <2>2, <3>1, CoherentChange
  <2> QED
    BY <2>1, <2>2, CopyChanges
<1>5. \A q \in Procs : Coherent(copy'[q])
  BY <1>1, <1>4, OthersKept
<1> QED
  BY <1>3, <1>5 DEF CleanupMeansInstalled, Coherent

\* However commands interleave and wherever they are killed, no state asks for the
\* cleanup of a route that it does not say is installed, so that route uninstall
\* (src/client/internal/route/state.go), which accepts either, clears both.
THEOREM FlagComesWithRoute == Spec => []CleanupMeansInstalled
<1>1. Init => CleanupMeansInstalled
  BY DEF Init, CleanupMeansInstalled, DefaultState
<1>2. TypeOK /\ Placed /\ CleanupMeansInstalled /\ [Next]_vars => CleanupMeansInstalled'
  <2> SUFFICES ASSUME TypeOK, Placed, CleanupMeansInstalled, [Next]_vars PROVE CleanupMeansInstalled'
    OBVIOUS
  <2>1. CASE UNCHANGED vars
    BY <2>1 DEF vars, CleanupMeansInstalled
  <2> QED
    BY <2>1, CoherentSteps DEF Next, StepOf
<1> QED
  BY <1>1, <1>2, AlwaysPlaced, PTL DEF Spec
----------------------------------------------------------------------------
(* A damaged file. *)

\* A process gets to write only from a state it could load.
LEMMA WritersLoaded ==
  ASSUME TypeOK, Placed, NEW p \in Procs, StepOf(p), pc'[p] \in {"save", "write"}
  PROVE  (StateChanged(p) /\ pc[p] = "load" /\ Loadable) \/ (StateOpened(p) /\ pc[p] = "save")
<1>1. ~Kill(p) /\ ~Exit(p) /\ ~(\E o \in OneShot \cup {"clear"} : Start(p, o))
  <2>1. ASSUME NEW o \in OneShot \cup {"clear"}, Start(p, o) PROVE pc'[p] = Entry(o)
    BY <2>1 DEF Start, Goto, TypeOK
  <2>2. ASSUME NEW o \in OneShot \cup {"clear"} PROVE Entry(o) \notin {"save", "write"}
    BY EntryPlaces DEF TypeOK, OneShot
  <2>3. Kill(p) \/ Exit(p) => pc'[p] = "idle"
    BY DEF Kill, Exit, Vanish, TypeOK
  <2> QED
    BY <2>1, <2>2, <2>3
<1>2. ~Moves(p)
  BY MovesLead DEF InstallEntry
<1>3. ~Platform(p)
  <2>1. Platform(p) => (PlatformStep(p) \/ PlatformFailure(p)) /\ platform \in Platforms
    BY DEF Platform, TypeOK
  <2> QED
    BY <2>1, InstallMoves, UninstallMoves DEF PlatformStep, PlatformFailure
<1>4. ~LoadFails(p) /\ ~StateSaved(p) /\ ~SaveFails(p)
  BY DEF LoadFails, StateSaved, SaveFails, Done, Failed, Goto, TypeOK
<1>5. ~ServeStops(p) /\ ~MarkDeferred(p)
  BY DEF ServeStops, MarkDeferred, Goto, TypeOK
<1> QED
  BY <1>1, <1>2, <1>3, <1>4, <1>5, StepsOfProcess DEF StateChanged, StateOpened, Goto

\* Once the route state file does not decode and nobody is about to write it, no step
\* of any command changes it (LoadOrDefault, src/client/internal/route/state.go, only
\* takes a missing file for the default state).
THEOREM DamageStays == Spec => DamageIsKept
<1>1. TypeOK /\ Placed /\ [Next]_vars => [Damaged => Damaged' /\ UNCHANGED file]_vars
  <2> SUFFICES ASSUME TypeOK, Placed, Damaged, NEW p \in Procs, StepOf(p)
               PROVE  Damaged' /\ UNCHANGED file
    BY DEF Next, StepOf
  <2>1. ~Loadable /\ \A q \in Procs : pc[q] \notin {"save", "write"}
    BY DEF Damaged, Loadable
  <2>2. UNCHANGED file
    BY <2>1, FileChanges
  <2>3. \A q \in Procs : pc'[q] \notin {"save", "write"}
    BY <2>1, WritersLoaded, OthersKept
  <2> QED
    BY <2>2, <2>3 DEF Damaged
<1> QED
  BY <1>1, AlwaysPlaced, PTL DEF Spec, DamageIsKept
----------------------------------------------------------------------------
(* Commands that run one at a time. *)

\* When the operator runs one command at a time, of two processes one is a serve that
\* is up and the other a command beside it.
Exclusive ==
  alone => \A p, q \in Procs :
             p # q /\ pc[p] # "idle" /\ pc[q] # "idle" =>
               \/ pc[p] = "serving" /\ op[q] \in OneShot
               \/ pc[q] = "serving" /\ op[p] \in OneShot

\* How a process goes on.
LEMMA GoesOn ==
  ASSUME TypeOK, Placed, NEW p \in Procs, StepOf(p)
  PROVE  \/ \E o \in OneShot \cup {"clear"} : Start(p, o)
         \/ (Kill(p) \/ Exit(p)) /\ pc'[p] = "idle"
         \/ ServeStops(p) /\ pc[p] = "serving" /\ pc'[p] = "mark" /\ op'[p] = op[p]
         \/ MarkDeferred(p) /\ pc[p] = "mark" /\ pc'[p] = "load" /\ op'[p] = "mark"
         \/ pc[p] \notin {"idle", "serving", "mark"} /\ op'[p] = op[p] /\ ~ServeStops(p) /\ ~Kill(p)
              /\ (Moves(p) \/ Platform(p) \/ StateChanged(p) \/ LoadFails(p) \/ StateOpened(p)
                   \/ StateSaved(p) \/ SaveFails(p))
<1>1. Kill(p) \/ Exit(p) => pc'[p] = "idle"
  BY DEF Kill, Exit, Vanish, TypeOK
<1>2. ServeStops(p) => pc[p] = "serving" /\ pc'[p] = "mark" /\ op'[p] = op[p]
  BY DEF ServeStops, Goto, TypeOK
<1>3. MarkDeferred(p) => pc[p] = "mark" /\ pc'[p] = "load" /\ op'[p] = "mark"
  BY DEF MarkDeferred, Goto, TypeOK
<1>4. Moves(p) => pc[p] \notin {"idle", "serving", "mark"} /\ op'[p] = op[p]
  BY MovesLead
<1>5. Platform(p) => pc[p] \notin {"idle", "serving", "mark"} /\ op'[p] = op[p]
  <2>1. Platform(p) => (PlatformStep(p) \/ PlatformFailure(p)) /\ platform \in Platforms /\ op' = op
    BY DEF Platform, TypeOK
  <2> QED
    BY <2>1, InstallMoves, UninstallMoves DEF PlatformStep, PlatformFailure
<1>6. StateChanged(p) \/ LoadFails(p) \/ StateOpened(p) \/ StateSaved(p) \/ SaveFails(p) =>
        pc[p] \notin {"idle", "serving", "mark"} /\ op'[p] = op[p]
  BY DEF StateChanged, LoadFails, StateOpened, StateSaved, SaveFails, Goto
<1>7. CASE Moves(p) \/ Platform(p) \/ StateChanged(p) \/ LoadFails(p) \/ StateOpened(p)
             \/ StateSaved(p) \/ SaveFails(p)
  <2>1. CASE Kill(p)
    BY <1>1, <2>1
  <2>2. CASE ServeStops(p)
    BY <1>2, <2>2
  <2> QED
    BY <1>4, <1>5, <1>6, <1>7, <2>1, <2>2
<1> QED
  BY <1>1, <1>2, <1>3, <1>7, StepsOfProcess

\* The other processes, when a command runs beside a serve, and when serve starts or
\* ends.
LEMMA Beside ==
  ASSUME Exclusive, alone, NEW p \in Procs, pc[p] \notin {"idle", "serving"}
  PROVE  /\ \A q \in Procs \ {p} : pc[q] \in {"idle", "serving"}
         /\ op[p] \notin OneShot => \A q \in Procs \ {p} : pc[q] = "idle"
BY DEF Exclusive

\* A process that starts finds the others idle or serving; a serve, all idle.
LEMMA StartsBeside ==
  ASSUME TypeOK, NEW p \in Procs, NEW o \in OneShot \cup {"clear"}, Start(p, o)
  PROVE  /\ pc[p] = "idle" /\ pc'[p] = Entry(o) /\ op'[p] = o
         /\ alone => \A q \in Procs \ {p} : pc[q] \in {"idle", "serving"}
         /\ alone /\ o = "clear" => \A q \in Procs \ {p} : pc[q] = "idle"
BY DEF Start, Goto, MayRun, TypeOK

\* The operator's habit is kept.
LEMMA ExclusiveSteps ==
  ASSUME TypeOK, Placed, Exclusive, NEW p \in Procs, StepOf(p)
  PROVE  Exclusive'
<1> SUFFICES ASSUME alone' PROVE Exclusive'
  BY DEF Exclusive
<1>0. alone
  BY OthersKept
<1>1. ASSUME NEW q \in Procs \ {p}, pc'[p] # "idle", pc[q] # "idle"
      PROVE  (pc'[p] = "serving" /\ op[q] \in OneShot) \/ (pc[q] = "serving" /\ op'[p] \in OneShot)
  <2>1. ASSUME NEW o \in OneShot \cup {"clear"}, Start(p, o)
        PROVE  pc[q] = "serving" /\ op'[p] \in OneShot
    BY <1>0, <1>1, <2>1, StartsBeside
  <2>2. CASE ServeStops(p)
    BY <1>0, <1>1, <2>2 DEF ServeStops, MayRun
  <2>3. CASE pc[p] = "mark" /\ op'[p] = "mark"
    <3>1. op[p] \notin OneShot
      BY <2>3 DEF Placed, PlacedAt, OneShot
    <3> QED
      BY <1>0, <1>1, <2>3, <3>1, Beside
  <2>4. CASE pc[p] \notin {"idle", "serving", "mark"} /\ op'[p] = op[p]
    BY <1>0, <1>1, <2>4 DEF Exclusive
  <2> QED
    BY <1>1, <2>1, <2>2, <2>3, <2>4, GoesOn
<1>2. \A q \in Procs \ {p} : pc'[q] = pc[q] /\ op'[q] = op[q]
  BY OthersKept
<1> QED
  BY <1>0, <1>1, <1>2 DEF Exclusive
----------------------------------------------------------------------------
(* The cleanup flag. *)

\* serve is up, or about to listen.
Up == {"listen", "serving"}

\* A serve that is to end has yet to mark the route.
Marking(p) == pc[p] = "mark" \/ (op[p] = "mark" /\ pc[p] \in {"load", "save", "write"})

\* The flag is not set while serve is up, on disk or in a copy that may be written.
UpIsClear ==
  alone /\ (\E p \in Procs : pc[p] \in Up) =>
    ~file.state.cleanupRequired /\ \A q \in Procs : ~copy[q].cleanupRequired

\* What a process that saves is about to make of the flag.
CopyTruthful(p) ==
  pc[p] \in {"save", "write"} =>
    /\ op[p] = "clear" => ~copy[p].cleanupRequired
    /\ op[p] = "mark" => copy[p].cleanupRequired
    /\ stopped /\ op[p] \in ProxyCommands /\ copy[p].installed => copy[p].cleanupRequired

\* After a serve that has ended in good order no other has started.
StoppedLast ==
  stopped => alone /\ \A p \in Procs : pc[p] # "idle" /\ op[p] = "clear" => pc[p] = "mark"

\* It marks the route, or has marked it.
StoppedMarks ==
  stopped => \/ \E p \in Procs : Marking(p)
             \/ file.state.installed => file.state.cleanupRequired

\* What FlagTruthful rests on.
FlagKept ==
  Exclusive /\ UpIsClear /\ (\A p \in Procs : CopyTruthful(p)) /\ StoppedLast /\ StoppedMarks

\* How a step sets or keeps `stopped'.
LEMMA StoppedSteps ==
  ASSUME TypeOK, Placed, NEW p \in Procs, StepOf(p), stopped'
  PROVE  \/ ServeStops(p) /\ alone
         \/ /\ stopped /\ ~Kill(p)
            /\ \A o \in OneShot \cup {"clear"} : Start(p, o) => o # "clear"
            /\ LoadFails(p) \/ SaveFails(p) => op[p] # "mark"
            /\ StateSaved(p) => op[p] \notin {"route install", "route uninstall"}
<1>1. CASE ServeStops(p)
  BY <1>1 DEF ServeStops
<1>2. CASE ~ServeStops(p)
  <2>1. ASSUME NEW o \in OneShot \cup {"clear"}, Start(p, o) PROVE stopped /\ o # "clear"
    BY <2>1, Zenon DEF Start
  <2>2. ~Kill(p)
    BY Zenon DEF Kill
  <2>3. LoadFails(p) \/ SaveFails(p) => stopped /\ op[p] # "mark"
    BY Zenon DEF LoadFails, SaveFails
  <2>4. StateSaved(p) => stopped /\ op[p] \notin {"route install", "route uninstall"}
    BY Zenon DEF StateSaved
  <2>5. Moves(p) => stopped
    BY MovesLead DEF ghosts
  <2>6. Platform(p) \/ Exit(p) \/ StateChanged(p) \/ StateOpened(p) \/ MarkDeferred(p) => stopped
    BY DEF Platform, Exit, StateChanged, StateOpened, MarkDeferred, ghosts
  <2> QED
    BY <1>2, <2>1, <2>2, <2>3, <2>4, <2>5, <2>6, StepsOfProcess
<1> QED
  BY <1>1, <1>2

\* A serve gets to listen with the flag cleared.
LEMMA ListensClear ==
  ASSUME TypeOK, Placed, NEW p \in Procs, CopyTruthful(p), StepOf(p), pc[p] \notin Up, pc'[p] \in Up
  PROVE  op[p] = "clear" /\ pc[p] \in {"load", "write"} /\ ~file'.state.cleanupRequired
<1>1. CASE Moves(p)
  BY <1>1, MovesLead DEF Up, InstallEntry
<1>2. CASE StateSaved(p)
  <2>1. pc[p] = "write" /\ op[p] = "clear"
    BY <1>2 DEF StateSaved, Goto, Done, TypeOK, Up
  <2>2. ~copy[p].cleanupRequired /\ ~DefaultState.cleanupRequired
    BY <2>1 DEF CopyTruthful, DefaultState
  <2>3. file'.state \in {copy[p], DefaultState}
    <3>1. PICK kind \in Written(file.kind) :
            file' = [kind |-> kind, state |-> IF kind = "whole" THEN copy[p] ELSE DefaultState]
      BY <1>2 DEF StateSaved, SaveWrites
    <3> QED
      BY <3>1
  <2> QED
    BY <2>1, <2>2, <2>3
<1>3. ~Platform(p)
  <2>1. Platform(p) => (PlatformStep(p) \/ PlatformFailure(p)) /\ platform \in Platforms
    BY DEF Platform, TypeOK
  <2> QED
    BY <2>1, InstallMoves, UninstallMoves DEF PlatformStep, PlatformFailure, Up
<1>4. ~StateChanged(p) /\ ~LoadFails(p) /\ ~StateOpened(p) /\ ~SaveFails(p)
  BY DEF StateChanged, LoadFails, StateOpened, SaveFails, Failed, Goto, TypeOK, Up
<1>5. ASSUME NEW o \in OneShot \cup {"clear"}, Start(p, o) PROVE FALSE
  BY <1>5, StartsBeside, EntryPlaces DEF Up, TypeOK, OneShot
<1> QED
  BY <1>1, <1>2, <1>3, <1>4, <1>5, GoesOn DEF Up

\* No change but mark sets the flag.
LEMMA FlagOnlyMarked ==
  ASSUME NEW o \in (OneShot \cup {"clear"}) \ {"init"}, NEW s \in State, ~Skips(o, s),
         ~s.cleanupRequired
  PROVE  ~Change(o, s).cleanupRequired
<1>0. o \in (OneShot \cup {"clear", "mark"}) \ {"init"}
  OBVIOUS
<1>1. CASE o \in ProxyCommands
  <2>1. Change(o, s).cleanupRequired = s.cleanupRequired
    BY <1>0, <1>1, ChangeFields
  <2> QED
    BY <2>1
<1>2. CASE o \in {"clear", "route install", "route uninstall"}
  BY <1>0, <1>2, ChangeFields
<1> QED
  BY <1>1, <1>2 DEF OneShot, ProxyCommands

\* The flag stays clear while serve is up.
LEMMA UpSteps ==
  ASSUME TypeOK, Placed, FlagKept, NEW p \in Procs, StepOf(p)
  PROVE  UpIsClear'
<1> SUFFICES ASSUME alone', NEW r \in Procs, pc'[r] \in Up
             PROVE  ~file'.state.cleanupRequired /\ \A q \in Procs : ~copy'[q].cleanupRequired
  BY DEF UpIsClear
<1>0. alone /\ \A q \in Procs \ {p} : pc'[q] = pc[q] /\ copy'[q] = copy[q]
  BY OthersKept
<1>1. ~DefaultState.cleanupRequired /\ Exclusive /\ CopyTruthful(p)
  BY DEF DefaultState, FlagKept
<1>2. CASE \E q \in Procs : pc[q] \in Up
  <2>1. ~file.state.cleanupRequired /\ \A q \in Procs : ~copy[q].cleanupRequired
    BY <1>0, <1>2 DEF FlagKept, UpIsClear
  <2>2. ~file'.state.cleanupRequired
    BY <1>1, <2>1, FileChanges
  <2>3. ~copy'[p].cleanupRequired
    <3>1. CASE copy'[p] = copy[p] \/ copy'[p] = DefaultState
      BY <1>1, <2>1, <3>1
    <3>2. CASE pc[p] = "load" /\ ~Skips(op[p], file.state) /\ copy'[p] = Change(op[p], file.state)
      <4>1. op[p] \in (OneShot \cup {"clear", "mark"}) \ {"init"} /\ file.state \in State
        BY <3>2, LoadedOps
      <4>2. op[p] \in OneShot
        BY <1>0, <1>1, <1>2, <3>2, Beside DEF Up
      <4>3. op[p] \in (OneShot \cup {"clear"}) \ {"init"}
        BY <4>1, <4>2
      <4> QED
        BY <2>1, <3>2, <4>1, <4>3, FlagOnlyMarked
    <3> QED
      BY <3>1, <3>2, CopyChanges
  <2> QED
    BY <1>0, <2>1, <2>2, <2>3
<1>3. CASE \A q \in Procs : pc[q] \notin Up
  <2>1. r = p /\ pc'[p] \in Up
    BY <1>0, <1>3
  <2>2. op[p] = "clear" /\ pc[p] \in {"load", "write"} /\ ~file'.state.cleanupRequired
    BY <1>1, <1>3, <2>1, ListensClear
  <2>3. \A q \in Procs \ {p} : pc[q] = "idle"
    BY <1>0, <1>1, <2>2, Beside DEF OneShot
  <2>4. \A q \in Procs : copy'[q] = DefaultState
    <3>1. Placed'
      BY NextTypes DEF Next, StepOf
    <3>2. \A q \in Procs : pc'[q] \notin {"save", "write"}
      BY <1>0, <2>1, <2>3 DEF Up
    <3> QED
      BY <3>1, <3>2 DEF Placed, PlacedAt
  <2> QED
    BY <1>1, <2>2, <2>4
<1> QED
  BY <1>2, <1>3

\* A process that saves while another marks is that process.
LEMMA MarksAlone ==
  ASSUME Placed, Exclusive, alone, NEW p \in Procs, NEW q \in Procs, Marking(q),
         pc[p] \notin {"idle", "serving"}
  PROVE  p = q
<1>1. pc[q] \notin {"idle", "serving"} /\ op[q] \notin OneShot
  BY DEF Marking, Placed, PlacedAt, OneShot
<1> QED
  BY <1>1, Beside

\* What is about to be written stays truthful.
LEMMA CopySteps ==
  ASSUME TypeOK, Placed, FlagKept, NEW p \in Procs, StepOf(p), NEW q \in Procs
  PROVE  CopyTruthful(q)'
<1>0. Exclusive /\ CopyTruthful(q) /\ StoppedLast /\ StoppedMarks
  BY DEF FlagKept
<1>1. CASE q # p
  <2>1. pc'[q] = pc[q] /\ op'[q] = op[q] /\ copy'[q] = copy[q]
    BY <1>1, OthersKept
  <2>2. CASE stopped' => stopped
    BY <1>0, <2>1, <2>2 DEF CopyTruthful
  <2>3. CASE ServeStops(p) /\ alone
    <3>1. pc[q] = "idle"
      BY <1>1, <2>3 DEF ServeStops, MayRun
    <3> QED
      BY <2>1, <3>1 DEF CopyTruthful
  <2> QED
    BY <2>2, <2>3, StoppedSteps
<1>2. CASE q = p
  <2> SUFFICES ASSUME pc'[p] \in {"save", "write"} PROVE CopyTruthful(p)'
    BY <1>2 DEF CopyTruthful
  <2>1. CASE StateOpened(p) /\ pc[p] = "save"
    <3>1. op'[p] = op[p] /\ copy'[p] = copy[p] /\ stopped' = stopped
      BY <2>1 DEF StateOpened, ghosts
    <3> QED
      BY <1>0, <1>2, <2>1, <3>1 DEF CopyTruthful
  <2>2. CASE StateChanged(p) /\ pc[p] = "load"
    <3>1. /\ op'[p] = op[p] /\ stopped' = stopped /\ ~Skips(op[p], file.state)
          /\ copy'[p] = Change(op[p], file.state)
      BY <2>2 DEF StateChanged, LoadOrDefault, ghosts, TypeOK
    <3>2. op[p] \in (OneShot \cup {"clear", "mark"}) \ {"init"} /\ file.state \in State
      BY <2>2, LoadedOps
    <3> DEFINE new == Change(op[p], file.state)
    <3>3. /\ op[p] = "clear" => ~copy'[p].cleanupRequired
          /\ op[p] = "mark" => copy'[p].cleanupRequired
      <4>1. (op[p] = "clear" => ~new.cleanupRequired) /\ (op[p] = "mark" => new.cleanupRequired)
        BY <3>1, <3>2, ChangeFields, Zenon
      <4> QED
        BY <3>1, <4>1
    <3>4. ASSUME stopped, op[p] \in ProxyCommands, copy'[p].installed PROVE copy'[p].cleanupRequired
      <4>1. alone /\ ~Marking(p)
        BY <1>0, <2>2, <3>4 DEF StoppedLast, Marking, ProxyCommands
      <4>2. ~ \E r \in Procs : Marking(r)
        BY <1>0, <2>2, <4>1, MarksAlone
      <4>3. file.state.installed => file.state.cleanupRequired
        BY <1>0, <3>4, <4>2 DEF StoppedMarks
      <4>4. /\ copy'[p].installed = file.state.installed
            /\ copy'[p].cleanupRequired = file.state.cleanupRequired
        <5>1. new.installed = file.state.installed /\ new.cleanupRequired = file.state.cleanupRequired
          BY <3>1, <3>2, <3>4, ChangeFields, Zenon
        <5> QED
          BY <3>1, <5>1
      <4> QED
        BY <3>4, <4>3, <4>4
    <3> QED
      BY <3>1, <3>3, <3>4 DEF CopyTruthful
  <2> QED
    BY <2>1, <2>2, WritersLoaded
<1> QED
  BY <1>1, <1>2

\* No other serve has started.
LEMMA StoppedLastSteps ==
  ASSUME TypeOK, Placed, FlagKept, NEW p \in Procs, StepOf(p)
  PROVE  StoppedLast'
<1> SUFFICES ASSUME stopped' PROVE StoppedLast'
  BY DEF StoppedLast
<1>0. /\ alone' = alone
      /\ \A q \in Procs \ {p} : pc'[q] = pc[q] /\ op'[q] = op[q]
  BY OthersKept
<1>1. CASE ServeStops(p) /\ alone
  <2>1. pc'[p] = "mark" /\ \A q \in Procs \ {p} : pc[q] = "idle"
    BY <1>1 DEF ServeStops, MayRun, Goto, TypeOK
  <2> QED
    BY <1>0, <1>1, <2>1 DEF StoppedLast
<1>2. CASE /\ stopped /\ ~Kill(p)
           /\ \A o \in OneShot \cup {"clear"} : Start(p, o) => o # "clear"
  <2>1. alone /\ \A q \in Procs : pc[q] # "idle" /\ op[q] = "clear" => pc[q] = "mark"
    BY <1>2 DEF FlagKept, StoppedLast
  <2>2. pc'[p] # "idle" /\ op'[p] = "clear" => pc'[p] = "mark"
    BY <1>2, <2>1, GoesOn, StartsBeside
  <2> QED
    BY <1>0, <2>1, <2>2 DEF StoppedLast
<1> QED
  BY <1>1, <1>2, StoppedSteps

\* A process that is to mark marks, or finds that there is no route.
LEMMA MarkingSteps ==
  ASSUME TypeOK, Placed, NEW p \in Procs, StepOf(p), CopyTruthful(p), Marking(p), ~Kill(p),
         LoadFails(p) \/ SaveFails(p) => op[p] # "mark"
  PROVE  Marking(p)' \/ (file'.state.installed => file'.state.cleanupRequired)
<1>1. PlacedAt(p) /\ ~DefaultState.installed
  BY DEF Placed, DefaultState
<1>2. pc[p] \notin {"idle", "serving", "ended"} /\ op[p] \notin ProxyCommands
  BY <1>1 DEF Marking, PlacedAt, ProxyCommands
<1>3. CASE MarkDeferred(p) /\ pc'[p] = "load" /\ op'[p] = "mark"
  BY <1>3 DEF Marking
<1>4. CASE Moves(p)
  <2>1. ~file.state.installed /\ file' = file
    BY <1>2, <1>4, MovesLead DEF Marking
  <2> QED
    BY <2>1
<1>5. CASE StateChanged(p) \/ StateOpened(p)
  <2>1. op[p] = "mark" /\ op'[p] = op[p] /\ pc'[p] \in {"save", "write"}
    BY <1>5 DEF StateChanged, StateOpened, Goto, Marking, TypeOK
  <2> QED
    BY <2>1 DEF Marking
<1>6. CASE StateSaved(p)
  <2>1. op[p] = "mark" /\ pc[p] = "write"
    BY <1>6 DEF StateSaved, Goto, Marking
  <2>2. copy[p].cleanupRequired
    BY <2>1 DEF CopyTruthful
  <2>3. file'.state \in {copy[p], DefaultState}
    <3>1. PICK kind \in Written(file.kind) :
            file' = [kind |-> kind, state |-> IF kind = "whole" THEN copy[p] ELSE DefaultState]
      BY <1>6 DEF StateSaved, SaveWrites
    <3> QED
      BY <3>1
  <2> QED
    BY <1>1, <2>2, <2>3
<1>7. ~Platform(p)
  <2>1. Platform(p) => (PlatformStep(p) \/ PlatformFailure(p)) /\ platform \in Platforms
    BY DEF Platform, TypeOK
  <2> QED
    BY <1>2, <2>1, InstallMoves, UninstallMoves DEF PlatformStep, PlatformFailure, Marking
<1>8. ~LoadFails(p) /\ ~SaveFails(p)
  BY DEF LoadFails, SaveFails, Goto, Marking
<1>9. ~Exit(p)
  BY <1>2 DEF Exit
<1>10. ~(\E o \in OneShot \cup {"clear"} : Start(p, o)) /\ pc[p] # "serving"
  BY <1>2, StartsBeside
<1> QED
  BY <1>3, <1>4, <1>5, <1>6, <1>7, <1>8, <1>9, <1>10, GoesOn

\* The route is marked, or will be.
LEMMA StoppedMarksSteps ==
  ASSUME TypeOK, Placed, FlagKept, NEW p \in Procs, StepOf(p)
  PROVE  StoppedMarks'
<1> SUFFICES ASSUME stopped'
             PROVE  (\E q \in Procs : Marking(q)') \/ (file'.state.installed => file'.state.cleanupRequired)
  BY DEF StoppedMarks
<1>0. Exclusive /\ CopyTruthful(p) /\ StoppedLast /\ StoppedMarks /\ ~DefaultState.installed /\ PlacedAt(p)
  BY DEF FlagKept, DefaultState, Placed
<1>1. CASE ServeStops(p)
  BY <1>1 DEF Marking, ServeStops, Goto, TypeOK
<1>2. CASE /\ stopped /\ ~Kill(p)
           /\ LoadFails(p) \/ SaveFails(p) => op[p] # "mark"
           /\ StateSaved(p) => op[p] \notin {"route install", "route uninstall"}
  <2>0. alone
    BY <1>0, <1>2 DEF StoppedLast
  <2>1. CASE Marking(p)
    BY <1>0, <1>2, <2>1, MarkingSteps
  <2>2. ASSUME NEW q \in Procs, Marking(q), ~Marking(p) PROVE FALSE
    <3>1. pc[q] \notin {"idle", "serving"} /\ q # p
      BY <1>0, <2>2 DEF Marking
    <3>2. pc[p] \in {"idle", "serving"}
      BY <1>0, <2>0, <2>2, <3>1, MarksAlone
    <3>3. \A o \in OneShot \cup {"clear"} : ~Start(p, o)
      BY <2>0, <3>1, StartsBeside
    <3>4. ~ServeStops(p)
      BY <2>0, <3>1 DEF ServeStops, MayRun
    <3>5. ~Exit(p)
      BY <3>2 DEF Exit
    <3> QED
      BY <1>2, <3>2, <3>3, <3>4, <3>5, GoesOn
  <2>3. CASE \A q \in Procs : ~Marking(q)
    <3>1. file.state.installed => file.state.cleanupRequired
      BY <1>0, <1>2, <2>3 DEF StoppedMarks
    <3>2. CASE file' = file \/ file'.state = DefaultState
      BY <1>0, <3>1, <3>2
    <3>3. CASE StateSaved(p) /\ pc[p] = "write" /\ file'.state = copy[p]
      <4>1. op[p] \notin {"clear", "mark", "init", "route install", "route uninstall"}
        BY <1>0, <1>2, <2>3, <3>3 DEF StoppedLast, Marking, PlacedAt
      <4>2. op[p] \in ProxyCommands
        BY <4>1 DEF TypeOK, OneShot, ProxyCommands
      <4> QED
        BY <1>0, <1>2, <3>3, <4>2 DEF CopyTruthful
    <3> QED
      BY <3>2, <3>3, FileChanges
  <2> QED
    BY <2>1, <2>2, <2>3
<1> QED
  BY <1>1, <1>2, StoppedSteps

\* It all holds together.
LEMMA AlwaysFlagKept == Spec => []FlagKept
<1>1. Init => FlagKept
  BY DEF Init, FlagKept, Exclusive, UpIsClear, Up, CopyTruthful, StoppedLast, StoppedMarks
<1>2. TypeOK /\ Placed /\ FlagKept /\ [Next]_vars => FlagKept'
  <2> SUFFICES ASSUME TypeOK, Placed, FlagKept, [Next]_vars PROVE FlagKept'
    OBVIOUS
  <2>1. CASE UNCHANGED vars
    BY <2>1 DEF vars, ghosts, FlagKept, Exclusive, UpIsClear, Up, CopyTruthful, StoppedLast, StoppedMarks, Marking
  <2>2. ASSUME NEW p \in Procs, StepOf(p) PROVE FlagKept'
    <3>1. Exclusive
      BY DEF FlagKept
    <3> QED
      BY <2>2, <3>1, ExclusiveSteps, UpSteps, CopySteps, StoppedLastSteps, StoppedMarksSteps DEF FlagKept
  <2> QED
    BY <2>1, <2>2 DEF Next, StepOf
<1> QED
  BY <1>1, <1>2, AlwaysPlaced, PTL DEF Spec

\* Between commands that do not overlap the flag tells the truth (ClearCleanupRequired
\* and the deferred MarkCleanupRequired of serve, src/client/cmd/actionrelay/main.go):
\* it is not set while serve is up, and it is set after a serve that ended in good
\* order with the route installed; with any number of processes killed anywhere.
THEOREM FlagIsTrue == Spec => []FlagTruthful
<1>1. FlagKept => FlagTruthful
  <2> SUFFICES ASSUME FlagKept, alone, Quiet, Loadable
               PROVE  /\ Listening => ~LoadOrDefault.cleanupRequired
                      /\ stopped /\ LoadOrDefault.installed => LoadOrDefault.cleanupRequired
    BY DEF FlagTruthful
  <2>1. Listening => ~file.state.cleanupRequired
    BY DEF FlagKept, UpIsClear, Up, Listening
  <2>2. \A p \in Procs : ~Marking(p)
    BY DEF Quiet, Marking
  <2>3. stopped /\ file.state.installed => file.state.cleanupRequired
    BY <2>2 DEF FlagKept, StoppedMarks
  <2> QED
    BY <2>1, <2>3 DEF LoadOrDefault
<1> QED
  BY <1>1, AlwaysFlagKept, PTL
----------------------------------------------------------------------------
(* The proxy settings. *)

\* The settings that traffic depends on.
LEMMA SettingNames ==
  /\ WinHTTP \in Settings
  /\ \A s \in Services : \A x \in {"web", "secure", "webstate", "securestate"} :
       <<s, x>> \in Settings /\ <<s, x>> # WinHTTP
<1>1. /\ Switches[1] = "web" /\ Switches[2] = "secure" /\ Switches[3] = "webstate"
      /\ Switches[4] = "securestate"
  BY DEF Switches
<1>2. {"web", "secure", "webstate", "securestate"} \subseteq {Switches[i] : i \in 1 .. 5}
  BY <1>1
<1>3. \A s \in Services : s # 0
  BY ServiceAssumption DEF Services
<1> QED
  BY <1>2, <1>3 DEF Settings, WinHTTP

\* No step of a loop touches the WinHTTP proxy.
LEMMA LoopSettings ==
  ASSUME NEW n \in Nat, n >= 1
  PROVE  InstallStep(n) # WinHTTP /\ UninstallStep(n) # WinHTTP
<1>1. ((n - 1) \div 5) + 1 # 0 /\ ((n - 1) \div 2) + 1 # 0
  OBVIOUS
<1> QED
  BY <1>1 DEF InstallStep, UninstallStep, WinHTTP

\* The uninstall loop stays within the settings and turns off both switches of every
\* service.
LEMMA UninstallLoop ==
  /\ \A k \in 1 .. 2 * ServiceCount : UninstallStep(k) \in Settings
  /\ \A s \in Services :
       /\ 2 * s - 1 \in 1 .. 2 * ServiceCount /\ UninstallStep(2 * s - 1) = <<s, "webstate">>
       /\ 2 * s \in 1 .. 2 * ServiceCount /\ UninstallStep(2 * s) = <<s, "securestate">>
<1>1. ASSUME NEW k \in 1 .. 2 * ServiceCount PROVE UninstallStep(k) \in Settings
  <2>1. ((k - 1) \div 2) + 1 \in Services
    BY ServiceAssumption DEF Services
  <2>2. ((k - 1) % 2) + 3 \in 1 .. 5
    BY ServiceAssumption
  <2> QED
    BY <2>1, <2>2 DEF UninstallStep, Settings
<1>2. ASSUME NEW s \in Services
      PROVE  /\ 2 * s - 1 \in 1 .. 2 * ServiceCount /\ UninstallStep(2 * s - 1) = <<s, "webstate">>
             /\ 2 * s \in 1 .. 2 * ServiceCount /\ UninstallStep(2 * s) = <<s, "securestate">>
  <2>1. s \in Nat /\ s >= 1 /\ s <= ServiceCount
    BY ServiceAssumption DEF Services
  <2>2. ((2 * s - 1 - 1) \div 2) + 1 = s /\ ((2 * s - 1 - 1) % 2) + 3 = 3
    BY <2>1
  <2>3. ((2 * s - 1) \div 2) + 1 = s /\ ((2 * s - 1) % 2) + 3 = 4
    BY <2>1
  <2>4. Switches[3] = "webstate" /\ Switches[4] = "securestate"
    BY DEF Switches
  <2>5. 2 * s - 1 \in 1 .. 2 * ServiceCount /\ 2 * s \in 1 .. 2 * ServiceCount
    BY <2>1, ServiceAssumption
  <2> QED
    BY <2>2, <2>3, <2>4, <2>5 DEF UninstallStep
<1> QED
  BY <1>1, <1>2

\* Only the platform's own settings are ever the relay's.
SettingsMatch ==
  /\ platform # "windows" => os[WinHTTP] # "relay"
  /\ platform # "macos" => \A s \in Services : os[<<s, "web">>] # "relay" /\ os[<<s, "secure">>] # "relay"

\* Where nothing was left to the relay, nothing is relayed.
LEMMA NothingRelayed ==
  ASSUME SettingsMatch
  PROVE  /\ platform = "linux" => ~Relayed
         /\ platform = "windows" /\ os[WinHTTP] # "relay" => ~Relayed
         /\ /\ platform = "macos"
            /\ \A s \in Services : os[<<s, "webstate">>] = "off" /\ os[<<s, "securestate">>] = "off"
            => ~Relayed
BY DEF SettingsMatch, Relayed

\* Turning settings off relays no more.
LEMMA TurningOff ==
  ASSUME TypeOK, NEW x \in Settings, os' = [os EXCEPT ![x] = "off"]
  PROVE  Relayed' => Relayed
<1>1. \A y \in Settings : os'[y] = os[y] \/ os'[y] = "off"
  BY DEF TypeOK
<1>2. ASSUME NEW s \in Services
      PROVE  /\ os'[<<s, "web">>] = "relay" => os[<<s, "web">>] = "relay"
             /\ os'[<<s, "secure">>] = "relay" => os[<<s, "secure">>] = "relay"
             /\ os'[<<s, "webstate">>] # "off" => os[<<s, "webstate">>] # "off"
             /\ os'[<<s, "securestate">>] # "off" => os[<<s, "securestate">>] # "off"
  <2>1. <<s, "web">> \in Settings /\ <<s, "secure">> \in Settings /\ <<s, "webstate">> \in Settings
        /\ <<s, "securestate">> \in Settings
    BY SettingNames
  <2>2. \A y \in Settings : (os[y] = "off" => os'[y] = "off") /\ (os'[y] = "relay" => os[y] = "relay")
    BY DEF TypeOK
  <2> QED
    BY <2>1, <2>2
<1>3. os'[WinHTTP] = "relay" => os[WinHTTP] = "relay"
  BY <1>1, SettingNames
<1> QED
  BY <1>2, <1>3 DEF Relayed

\* The platform's steps keep to the platform's settings.
LEMMA SettingsSteps ==
  ASSUME TypeOK, Placed, SettingsMatch, NEW p \in Procs, PlatformStep(p) \/ PlatformFailure(p),
         platform' = platform
  PROVE  SettingsMatch'
<1>0. PlacedAt(p) /\ step[p] \in Nat /\ step[p] >= 1
  BY StepTypes DEF Placed
<1>1. CASE os' = os
  BY <1>1 DEF SettingsMatch, Services
<1>2. CASE pc[p] = "set" /\ os' = [os EXCEPT ![InstallStep(step[p])] = "relay"]
  <2>1. os'[WinHTTP] = os[WinHTTP] /\ platform = "macos"
    BY <1>0, <1>2, LoopSettings, SettingNames DEF PlacedAt, TypeOK
  <2> QED
    BY <2>1 DEF SettingsMatch
<1>3. CASE pc[p] = "netsh" /\ os' = [os EXCEPT ![WinHTTP] = "relay"]
  <2>1. platform = "windows" /\ \A s \in Services : os'[<<s, "web">>] = os[<<s, "web">>] /\ os'[<<s, "secure">>] = os[<<s, "secure">>]
    BY <1>0, <1>3, SettingNames DEF PlacedAt, TypeOK
  <2> QED
    BY <2>1 DEF SettingsMatch
<1>4. ASSUME NEW x, os' = [os EXCEPT ![x] = "off"] PROVE SettingsMatch'
  <2>1. \A y \in Settings : os[y] # "relay" => os'[y] # "relay"
    BY <1>4 DEF TypeOK
  <2>2. WinHTTP \in Settings /\ \A s \in Services : <<s, "web">> \in Settings /\ <<s, "secure">> \in Settings
    BY SettingNames
  <2> QED
    BY <2>1, <2>2 DEF SettingsMatch
<1> QED
  BY <1>1, <1>2, <1>3, <1>4, PlatformOS

\* A proxy install has changed settings and has not yet recorded or undone them.
Dirty(p) ==
  /\ op[p] = "proxy install"
  /\ \/ pc[p] \in {"set", "setenv", "load", "save", "write", "unlist", "off", "reset"}
     \/ platform = "macos" /\ pc[p] \in {"backup", "backup write"}

\* The part of the uninstall loop that is done has turned its settings off.
OffSoFar(p) ==
  pc[p] = "off" => \A k \in 1 .. 2 * ServiceCount : k < step[p] => os[UninstallStep(k)] = "off"

\* The settings have been undone, by an uninstall or a rollback.
Undone(p) ==
  \/ pc[p] \in {"clear", "unload"}
  \/ op[p] = "proxy uninstall" /\ pc[p] \in {"load", "save", "write"}

\* While no proxy command has gone wrong, an uninstall undoes the settings.
UndoneIsOff(p) == trust # "no" => OffSoFar(p) /\ (Undone(p) => ~Relayed)

\* A step of the platform that goes as planned: the settings are undone where they
\* should be, and relay no more than before unless they are yet to be recorded.
LEMMA InstallRelays ==
  ASSUME TypeOK, Placed, SettingsMatch, NEW p \in Procs, UNCHANGED <<platform, op>>,
         \/ ServicesListed(p) \/ SettingFails(p) \/ AllSet(p) \/ BackupOpens(p) \/ BackupWritten(p)
         \/ WinHTTPFails(p) \/ EnvironmentSet(p) \/ EnvironmentFails(p)
         \/ SettingChanged(p) \/ WinHTTPSet(p)
  PROVE  /\ OffSoFar(p)' /\ ~Undone(p)'
         /\ Dirty(p)' \/ (Relayed' => Relayed /\ ~Dirty(p))
<1>0. PlacedAt(p) /\ platform \in Platforms /\ op'[p] = op[p]
  BY DEF Placed, TypeOK
<1>1. CASE SettingChanged(p) \/ WinHTTPSet(p) \/ SettingFails(p) \/ EnvironmentSet(p)
  <2>1. pc[p] \in {"set", "netsh", "setenv"} /\ pc'[p] \in {"set", "setenv", "unlist", "load"}
    BY <1>1 DEF SettingChanged, WinHTTPSet, SettingFails, EnvironmentSet, Goto, TypeOK
  <2>2. op[p] = "proxy install"
    BY <1>0, <2>1 DEF PlacedAt
  <2> QED
    BY <1>0, <2>1, <2>2 DEF OffSoFar, Undone, Dirty
<1>2. CASE ServicesListed(p)
  <2>1. pc[p] = "list" /\ pc'[p] \in {"set", "ended"} /\ os' = os
    BY <1>2 DEF ServicesListed, Goto, TypeOK
  <2>2. op[p] = "proxy install"
    BY <1>0, <2>1 DEF PlacedAt
  <2> QED
    BY <1>0, <2>1, <2>2 DEF OffSoFar, Undone, Dirty, Relayed
<1>3. CASE AllSet(p)
  <2>1. pc[p] = "set" /\ pc'[p] = "backup"
    BY <1>3 DEF AllSet, Goto, TypeOK
  <2>2. op[p] = "proxy install" /\ platform = "macos"
    BY <1>0, <2>1 DEF PlacedAt
  <2> QED
    BY <1>0, <2>1, <2>2 DEF OffSoFar, Undone, Dirty
<1>4. CASE BackupOpens(p) \/ BackupWritten(p) \/ WinHTTPFails(p)
  <2>1. /\ os' = os
        /\ \/ pc[p] = "backup" /\ pc'[p] = "backup write"
           \/ pc[p] = "backup write" /\ platform = "macos" /\ pc'[p] = "load"
           \/ pc[p] = "backup write" /\ platform # "macos" /\ pc'[p] \in {"netsh", "setenv"}
           \/ pc[p] = "netsh" /\ pc'[p] = "ended"
    <3>1. CASE BackupOpens(p)
      BY <3>1, GotoAt DEF BackupOpens
    <3>2. CASE BackupWritten(p)
      <4>1. CASE platform = "macos"
        BY <3>2, <4>1 DEF BackupWritten, Goto, TypeOK
      <4>2. CASE platform = "windows"
        BY <3>2, <4>2 DEF BackupWritten, Goto, TypeOK
      <4>3. CASE platform = "linux"
        BY <3>2, <4>3 DEF BackupWritten, Goto, TypeOK
      <4> QED
        BY <1>0, <4>1, <4>2, <4>3 DEF Platforms
    <3>3. CASE WinHTTPFails(p)
      BY <3>3, GotoAt DEF WinHTTPFails
    <3> QED
      BY <1>4, <3>1, <3>2, <3>3
  <2>2. op[p] = "proxy install"
    BY <1>0, <2>1 DEF PlacedAt
  <2>3. OffSoFar(p)' /\ ~Undone(p)'
    BY <1>0, <2>1, <2>2 DEF OffSoFar, Undone
  <2>4. Relayed' => Relayed
    BY <2>1 DEF Relayed
  <2> QED
    BY <1>0, <2>1, <2>2, <2>3, <2>4 DEF Dirty
<1>5. CASE EnvironmentFails(p)
  <2>1. /\ pc[p] = "setenv" /\ os' = os
        /\ IF platform = "windows" THEN pc'[p] = "reset" ELSE pc'[p] = "ended"
    BY <1>5 DEF EnvironmentFails, Goto, TypeOK
  <2>2. op[p] = "proxy install" /\ platform # "macos"
    BY <1>0, <2>1 DEF PlacedAt
  <2>3. platform = "linux" => ~Relayed'
    BY <2>1, NothingRelayed DEF Relayed
  <2> QED
    BY <1>0, <2>1, <2>2, <2>3 DEF OffSoFar, Undone, Dirty, Platforms
<1> QED
  BY <1>1, <1>2, <1>3, <1>4, <1>5

\* The same of an uninstall and of a rollback.
LEMMA UninstallRelays ==
  ASSUME TypeOK, Placed, SettingsMatch, SettingsMatch', NEW p \in Procs, UNCHANGED <<platform, op>>,
         OffSoFar(p), Undone(p) => ~Relayed,
         \/ ServicesListedAgain(p) \/ TurnedOff(p) \/ AllOff(p) \/ WinHTTPReset(p)
         \/ StateLoaded(p) \/ StateCleared(p)
  PROVE  /\ OffSoFar(p)' /\ (Undone(p)' => ~Relayed')
         /\ Dirty(p)' \/ (Relayed' => Relayed /\ ~Dirty(p))
<1>0. PlacedAt(p) /\ platform \in Platforms /\ op'[p] = op[p] /\ platform' = platform
  BY DEF Placed, TypeOK
<1>1. CASE ServicesListedAgain(p)
  <2>1. pc[p] = "unlist" /\ pc'[p] = "off" /\ step'[p] = 1 /\ os' = os
    BY <1>1 DEF ServicesListedAgain, Goto, TypeOK
  <2>2. OffSoFar(p)'
    BY <2>1, ServiceAssumption DEF OffSoFar
  <2>3. Relayed' => Relayed
    BY <2>1 DEF Relayed
  <2>4. ~Undone(p)' /\ (Dirty(p) => Dirty(p)')
    BY <1>0, <2>1 DEF Undone, Dirty
  <2> QED
    BY <2>2, <2>3, <2>4
<1>2. CASE TurnedOff(p)
  <2>1. pc[p] = "off" /\ pc'[p] = "off" /\ step[p] \in 1 .. 2 * ServiceCount /\ step'[p] = step[p] + 1
        /\ os' = [os EXCEPT ![UninstallStep(step[p])] = "off"]
    <3>1. pc[p] = "off" /\ pc'[p] = "off"
      BY <1>2, GotoAt DEF TurnedOff
    <3>2. step[p] <= 2 * ServiceCount /\ step' = [step EXCEPT ![p] = step[p] + 1]
          /\ os' = [os EXCEPT ![UninstallStep(step[p])] = "off"]
      BY <1>2 DEF TurnedOff
    <3>3. step'[p] = step[p] + 1
      BY <3>2 DEF TypeOK
    <3>4. step[p] \in 1 .. 2 * ServiceCount
      BY <3>2, StepTypes, ServiceAssumption
    <3> QED
      BY <3>1, <3>2, <3>3, <3>4
  <2>2. UninstallStep(step[p]) \in Settings
    BY <2>1, UninstallLoop
  <2>3. OffSoFar(p)'
    <3> SUFFICES ASSUME NEW k \in 1 .. 2 * ServiceCount, k < step[p] + 1
                 PROVE  os'[UninstallStep(k)] = "off"
      BY <2>1 DEF OffSoFar
    <3>1. k < step[p] \/ k = step[p]
      BY <2>1, ServiceAssumption
    <3>2. UninstallStep(k) \in Settings
      BY UninstallLoop
    <3>3. k < step[p] => os[UninstallStep(k)] = "off"
      BY <2>1 DEF OffSoFar
    <3> QED
      BY <2>1, <2>2, <3>1, <3>2, <3>3 DEF TypeOK
  <2>4. Relayed' => Relayed
    BY <2>1, <2>2, TurningOff
  <2>5. ~Undone(p)' /\ (Dirty(p) => Dirty(p)')
    BY <1>0, <2>1 DEF Undone, Dirty
  <2> QED
    BY <2>3, <2>4, <2>5
<1>3. CASE AllOff(p)
  <2>1. pc[p] = "off" /\ pc'[p] = "clear" /\ step[p] > 2 * ServiceCount /\ os' = os
    BY <1>3 DEF AllOff, Goto, TypeOK
  <2>2. ASSUME NEW s \in Services PROVE os[<<s, "webstate">>] = "off" /\ os[<<s, "securestate">>] = "off"
    <3>1. 2 * s - 1 \in 1 .. 2 * ServiceCount /\ 2 * s \in 1 .. 2 * ServiceCount
      BY UninstallLoop
    <3>2. 2 * s - 1 < step[p] /\ 2 * s < step[p]
      BY <2>1, <3>1, StepTypes, ServiceAssumption
    <3>3. os[UninstallStep(2 * s - 1)] = "off" /\ os[UninstallStep(2 * s)] = "off"
      BY <2>1, <3>1, <3>2 DEF OffSoFar
    <3> QED
      BY <3>3, UninstallLoop
  <2>3. platform = "macos"
    BY <1>0, <2>1 DEF PlacedAt
  <2>4. ~Relayed
    BY <2>2, <2>3, NothingRelayed
  <2>5. ~Relayed'
    BY <2>1, <2>4 DEF Relayed
  <2> QED
    BY <2>1, <2>5 DEF OffSoFar
<1>4. CASE WinHTTPReset(p)
  <2>1. pc[p] = "reset" /\ pc'[p] = "unload" /\ os' = [os EXCEPT ![WinHTTP] = "off"]
    BY <1>4, GotoAt DEF WinHTTPReset
  <2>2. platform = "windows" /\ os'[WinHTTP] = "off"
    BY <1>0, <2>1, SettingNames DEF PlacedAt, TypeOK
  <2>3. ~Relayed'
    BY <1>0, <2>2 DEF SettingsMatch, Relayed
  <2> QED
    BY <2>1, <2>3 DEF OffSoFar
<1>5. CASE StateLoaded(p) \/ StateCleared(p)
  <2>1. pc[p] \in {"unload", "clear"} /\ pc'[p] # "off" /\ os' = os
    BY <1>5 DEF StateLoaded, StateCleared, Goto, Returned, TypeOK
  <2>2. ~Relayed'
    BY <2>1 DEF Undone, Relayed
  <2> QED
    BY <2>1, <2>2 DEF OffSoFar
<1> QED
  BY <1>1, <1>2, <1>3, <1>4, <1>5

\* A copy that is about to be written records the proxy.
CopyRecords(p) == trust = "yes" /\ pc[p] \in {"save", "write"} /\ Relayed => copy[p].proxyInstalled

\* The file records it, but for an install on its way.
Recorded ==
  trust = "yes" /\ Loadable /\ (\A p \in Procs : ~Dirty(p)) /\ Relayed => file.state.proxyInstalled

\* What NoStrayProxy rests on.
ProxyKept ==
  /\ trust # "no" => alone
  /\ SettingsMatch
  /\ \A p \in Procs : UndoneIsOff(p) /\ CopyRecords(p)
  /\ Recorded

\* The platform works for a proxy command.
LEMMA PlatformOps ==
  ASSUME TypeOK, Placed, NEW p \in Procs, Platform(p)
  PROVE  /\ op[p] \in ProxyCommands /\ pc[p] \notin {"idle", "serving"}
         /\ pc'[p] \notin {"save", "write"}
         /\ trust' # "no" => PlatformStep(p) /\ trust' = trust
<1>1. /\ (PlatformStep(p) /\ trust' = trust) \/ (PlatformFailure(p) /\ Distrust(p))
      /\ platform \in Platforms /\ PlacedAt(p)
  BY DEF Platform, TypeOK, Placed
<1>2. /\ pc[p] \in {"list", "set", "backup", "backup write", "netsh", "setenv", "unlist", "off", "reset",
                    "unload", "clear"}
      /\ pc'[p] \notin {"save", "write"}
  BY <1>1, InstallMoves, UninstallMoves DEF PlatformStep, PlatformFailure
<1>3. op[p] \in ProxyCommands
  BY <1>1, <1>2 DEF PlacedAt, ProxyCommands
<1> QED
  BY <1>1, <1>2, <1>3 DEF Distrust

\* How a step that is not the platform's changes the trust.
LEMMA TrustSteps ==
  ASSUME TypeOK, Placed, NEW p \in Procs, StepOf(p), ~Platform(p), trust' # "no"
  PROVE  /\ os' = os
         /\ trust # "no" \/ (alone /\ trust' # "yes" /\ \E o \in OneShot \cup {"clear"} : Start(p, o))
         /\ trust' = "yes" => \/ trust = "yes"
                              \/ StateSaved(p) /\ op[p] = "proxy uninstall" /\ trust = "repairing"
         /\ op[p] \in ProxyCommands => ~Kill(p) /\ ~LoadFails(p) /\ ~SaveFails(p)
<1>1. ASSUME NEW o \in OneShot \cup {"clear"}, Start(p, o)
      PROVE  /\ os' = os
             /\ trust' = trust \/ (alone /\ trust' = "repairing")
    BY <1>1 DEF Start, platformVars
<1>2. Moves(p) => os' = os /\ trust' = trust
  BY MovesLead DEF platformVars, ghosts
<1>3. StateChanged(p) \/ StateOpened(p) \/ MarkDeferred(p) \/ ServeStops(p) \/ Exit(p) => os' = os /\ trust' = trust
  BY DEF StateChanged, StateOpened, MarkDeferred, ServeStops, Exit, platformVars, ghosts
<1>4. Kill(p) \/ LoadFails(p) \/ SaveFails(p) => os' = os /\ trust' = trust /\ op[p] \notin ProxyCommands
  BY DEF Kill, LoadFails, SaveFails, Distrust, platformVars
<1>5. StateSaved(p) => /\ os' = os
                       /\ trust' = trust \/ (op[p] = "proxy uninstall" /\ trust = "repairing" /\ trust' = "yes")
  BY DEF StateSaved, platformVars
<1>6. op[p] \in ProxyCommands => ~Kill(p) /\ ~LoadFails(p) /\ ~SaveFails(p)
  BY <1>4
<1>7. CASE \E o \in OneShot \cup {"clear"} : Start(p, o)
  BY <1>1, <1>6, <1>7
<1>8. CASE Moves(p) \/ StateChanged(p) \/ StateOpened(p) \/ MarkDeferred(p) \/ ServeStops(p) \/ Exit(p)
           \/ Kill(p) \/ LoadFails(p) \/ SaveFails(p)
  BY <1>2, <1>3, <1>4, <1>6, <1>8
<1>9. CASE StateSaved(p)
  BY <1>5, <1>6, <1>9
<1> QED
  BY <1>7, <1>8, <1>9, StepsOfProcess

\* A command that is not at the platform has its settings undone only when they were,
\* or on Linux, where nothing is relayed.
LEMMA UndoneBefore ==
  ASSUME TypeOK, Placed, NEW p \in Procs, StepOf(p), ~Platform(p)
  PROVE  pc'[p] # "off" /\ (Undone(p)' => Undone(p) \/ platform = "linux")
<1>0. PlacedAt(p)
  BY DEF Placed
<1>1. ASSUME NEW o \in OneShot \cup {"clear"}, Start(p, o)
      PROVE  pc'[p] # "off" /\ (Undone(p)' => platform = "linux")
  <2>1. pc'[p] = Entry(o) /\ op'[p] = o /\ platform \in Platforms
    BY <1>1, StartsBeside DEF TypeOK
  <2>2. Entry(o) # "off" /\ Entry(o) # "clear"
    BY <2>1, EntryPlaces DEF OneShot
  <2>3. o = "proxy uninstall" => Entry(o) \notin {"load", "save", "write"}
    BY <2>1, EntryPlaces DEF OneShot
  <2>4. Entry(o) = "unload" => platform = "linux"
    BY <2>1, EntryPlaces DEF OneShot, Platforms
  <2> QED
    BY <2>1, <2>2, <2>3, <2>4 DEF Undone
<1>2. CASE Moves(p)
  <2>1. op'[p] = op[p] /\ pc'[p] \notin {"off", "clear", "unload", "save", "write"}
    BY <1>2, MovesLead DEF InstallEntry
  <2>2. pc'[p] = "load" => op[p] \in {"route install", "clear"}
    BY <1>0, <1>2, MovesLead DEF InstallEntry, PlacedAt
  <2> QED
    BY <2>1, <2>2 DEF Undone
<1>3. CASE StateChanged(p) \/ StateOpened(p)
  BY <1>3 DEF StateChanged, StateOpened, Goto, TypeOK, Undone
<1>4. CASE LoadFails(p) \/ StateSaved(p) \/ SaveFails(p)
  BY <1>4 DEF LoadFails, StateSaved, SaveFails, Goto, TypeOK, Undone, Done, Failed
<1>5. CASE pc'[p] \in {"idle", "mark"} \/ (pc'[p] = "load" /\ op'[p] = "mark")
  BY <1>5 DEF Undone
<1> QED
  BY <1>1, <1>2, <1>3, <1>4, <1>5, GoesOn

\* An install on its way goes on, or is saved.
LEMMA DirtyGoesOn ==
  ASSUME TypeOK, Placed, NEW p \in Procs, StepOf(p), ~Platform(p), ~StateSaved(p), Dirty(p), trust' # "no"
  PROVE  Dirty(p)'
<1>0. PlacedAt(p) /\ op[p] \in ProxyCommands /\ op[p] = "proxy install"
      /\ pc[p] \notin {"idle", "ended", "serving", "mark", "config", "init", "init write", "setup", "listen"}
  BY DEF Placed, Dirty, ProxyCommands
<1>1. ~Kill(p) /\ ~LoadFails(p) /\ ~SaveFails(p)
  BY <1>0, TrustSteps
<1>2. ~Moves(p)
  BY <1>0, MovesLead
<1>3. ~Exit(p) /\ ~(\E o \in OneShot \cup {"clear"} : Start(p, o))
  BY <1>0, StartsBeside DEF Exit
<1>4. CASE StateChanged(p) \/ StateOpened(p)
  <2>1. op'[p] = op[p] /\ pc'[p] \in {"save", "write"}
    BY <1>4 DEF StateChanged, StateOpened, Goto, TypeOK
  <2> QED
    BY <1>0, <2>1 DEF Dirty
<1> QED
  BY <1>0, <1>1, <1>2, <1>3, <1>4, GoesOn

\* Beside a command that is not a serve, no other command is on its way.
LEMMA NobodyElse ==
  ASSUME NEW q \in Procs, pc[q] \in {"idle", "serving"}
  PROVE  UndoneIsOff(q) /\ CopyRecords(q) /\ ~Dirty(q)
BY DEF UndoneIsOff, OffSoFar, Undone, CopyRecords, Dirty

\* A step of the platform keeps it all.
LEMMA PlatformKeeps ==
  ASSUME TypeOK, Placed, Exclusive, ProxyKept, NEW p \in Procs, StepOf(p), Platform(p)
  PROVE  ProxyKept'
<1>0. /\ UNCHANGED <<file, platform, op, alone>> /\ (PlatformStep(p) \/ PlatformFailure(p))
      /\ SettingsMatch /\ (trust # "no" => alone)
  BY DEF Platform, ProxyKept
<1>1. SettingsMatch'
  BY <1>0, SettingsSteps
<1>2. CASE trust' = "no"
  BY <1>1, <1>2 DEF ProxyKept, UndoneIsOff, CopyRecords, Recorded
<1>3. CASE trust' # "no"
  <2>0. PlatformStep(p) /\ trust' = trust /\ op[p] \in ProxyCommands /\ pc[p] \notin {"idle", "serving"}
        /\ pc'[p] \notin {"save", "write"}
    BY <1>3, PlatformOps
  <2>1. alone /\ alone' /\ UndoneIsOff(p)
    BY <1>0, <1>3, <2>0 DEF ProxyKept
  <2>2. \A q \in Procs \ {p} : pc[q] \in {"idle", "serving"} /\ pc'[q] = pc[q]
    BY <2>0, <2>1, Beside, OthersKept
  <2>3. \A q \in Procs \ {p} : UndoneIsOff(q)' /\ CopyRecords(q)' /\ ~Dirty(q)
    BY <2>2 DEF UndoneIsOff, OffSoFar, Undone, CopyRecords, Dirty
  <2>4. OffSoFar(p) /\ (Undone(p) => ~Relayed)
    BY <1>3, <2>0, <2>1 DEF UndoneIsOff
  <2>5. /\ OffSoFar(p)' /\ (Undone(p)' => ~Relayed')
        /\ Dirty(p)' \/ (Relayed' => Relayed /\ ~Dirty(p))
    <3>1. CASE \/ ServicesListed(p) \/ SettingFails(p) \/ AllSet(p) \/ BackupOpens(p) \/ BackupWritten(p)
               \/ WinHTTPFails(p) \/ EnvironmentSet(p) \/ EnvironmentFails(p)
               \/ SettingChanged(p) \/ WinHTTPSet(p)
      BY <1>0, <3>1, InstallRelays
    <3>2. CASE \/ ServicesListedAgain(p) \/ TurnedOff(p) \/ AllOff(p) \/ WinHTTPReset(p)
               \/ StateLoaded(p) \/ StateCleared(p)
      BY <1>0, <1>1, <2>4, <3>2, UninstallRelays
    <3> QED
      BY <2>0, <3>1, <3>2 DEF PlatformStep
  <2>6. UndoneIsOff(p)' /\ CopyRecords(p)'
    BY <2>0, <2>5 DEF UndoneIsOff, CopyRecords
  <2>7. Recorded'
    <3> SUFFICES ASSUME trust' = "yes", Loadable', \A q \in Procs : ~Dirty(q)', Relayed'
                 PROVE  file'.state.proxyInstalled
      BY DEF Recorded
    <3>1. Relayed /\ ~Dirty(p)
      BY <2>5
    <3>2. Loadable /\ trust = "yes" /\ \A q \in Procs : ~Dirty(q)
      BY <1>0, <2>0, <2>3, <3>1 DEF Loadable
    <3> QED
      BY <1>0, <3>1, <3>2 DEF ProxyKept, Recorded
  <2> QED
    BY <1>1, <2>1, <2>3, <2>6, <2>7 DEF ProxyKept
<1> QED
  BY <1>2, <1>3

\* What a process that is not at the platform records.
LEMMA CopyRecordsSteps ==
  ASSUME TypeOK, Placed, Exclusive, ProxyKept, NEW p \in Procs, StepOf(p), ~Platform(p)
  PROVE  CopyRecords(p)'
<1> SUFFICES ASSUME trust' = "yes", pc'[p] \in {"save", "write"}, Relayed'
             PROVE  copy'[p].proxyInstalled
  BY DEF CopyRecords
<1>0. UndoneIsOff(p) /\ CopyRecords(p) /\ os' = os
  BY TrustSteps DEF ProxyKept
<1>1. Relayed
  BY <1>0 DEF Relayed
<1>2. CASE StateOpened(p) /\ pc[p] = "save"
  <2>1. trust' = trust /\ copy'[p] = copy[p]
    BY <1>2 DEF StateOpened, ghosts
  <2> QED
    BY <1>0, <1>1, <1>2, <2>1 DEF CopyRecords
<1>3. CASE StateChanged(p) /\ pc[p] = "load" /\ Loadable
  <2> DEFINE new == Change(op[p], file.state)
  <2>1. trust' = trust /\ ~Skips(op[p], file.state) /\ copy'[p] = new
    BY <1>3 DEF StateChanged, LoadOrDefault, ghosts, TypeOK
  <2>2. op[p] \in (OneShot \cup {"clear", "mark"}) \ {"init"} /\ file.state \in State
    BY <1>3, LoadedOps
  <2>3. op[p] # "proxy uninstall"
    BY <1>0, <1>1, <1>3, <2>1 DEF UndoneIsOff, Undone
  <2>4. CASE op[p] = "proxy install"
    <3>1. new.proxyInstalled
      BY <2>1, <2>2, <2>4, ChangeFields, Zenon
    <3> QED
      BY <2>1, <3>1
  <2>5. CASE op[p] \notin ProxyCommands
    <3>1. new.proxyInstalled = file.state.proxyInstalled
      BY <2>1, <2>2, <2>5, ChangeFields, Zenon
    <3>2. alone /\ Recorded
      BY <2>1 DEF ProxyKept
    <3>3. \A q \in Procs \ {p} : pc[q] \in {"idle", "serving"}
      BY <1>3, <3>2, Beside
    <3>4. \A q \in Procs : ~Dirty(q)
      BY <2>5, <3>3 DEF Dirty, ProxyCommands
    <3>5. file.state.proxyInstalled
      BY <1>1, <1>3, <2>1, <3>2, <3>4 DEF Recorded
    <3> QED
      BY <2>1, <3>1, <3>5
  <2> QED
    BY <2>3, <2>4, <2>5 DEF ProxyCommands
<1> QED
  BY <1>2, <1>3, WritersLoaded

\* What the file records after a step that is not the platform's.
LEMMA RecordedSteps ==
  ASSUME TypeOK, Placed, Exclusive, ProxyKept, NEW p \in Procs, StepOf(p), ~Platform(p)
  PROVE  Recorded'
<1> SUFFICES ASSUME trust' = "yes", Loadable', \A q \in Procs : ~Dirty(q)', Relayed'
             PROVE  file'.state.proxyInstalled
  BY DEF Recorded
<1>0. UndoneIsOff(p) /\ CopyRecords(p) /\ Recorded /\ os' = os
  BY TrustSteps DEF ProxyKept
<1>1. Relayed
  BY <1>0 DEF Relayed
<1>2. trust = "yes" \/ (StateSaved(p) /\ op[p] = "proxy uninstall" /\ trust = "repairing")
  BY TrustSteps
<1>3. CASE StateSaved(p)
  <2>1. pc[p] = "write"
    BY <1>3 DEF StateSaved, Goto
  <2>2. trust = "yes"
    BY <1>0, <1>1, <1>2, <2>1 DEF UndoneIsOff, Undone
  <2>3. copy[p].proxyInstalled
    BY <1>0, <1>1, <2>1, <2>2 DEF CopyRecords
  <2>4. file'.state = copy[p]
    <3>1. PICK kind \in Written(file.kind) :
            file' = [kind |-> kind, state |-> IF kind = "whole" THEN copy[p] ELSE DefaultState]
      BY <1>3 DEF StateSaved, SaveWrites
    <3>2. kind = "whole"
      BY <3>1 DEF Written, Loadable, Undecodable
    <3> QED
      BY <3>1, <3>2
  <2> QED
    BY <2>3, <2>4
<1>4. CASE ~StateSaved(p)
  <2>1. file' = file
    BY <1>4, FileChanges DEF Loadable, Undecodable
  <2>2. \A q \in Procs \ {p} : ~Dirty(q)
    BY OthersKept DEF Dirty
  <2>3. ~Dirty(p)
    BY <1>4, DirtyGoesOn
  <2>4. Loadable /\ trust = "yes"
    BY <1>2, <1>4, <2>1 DEF Loadable
  <2> QED
    BY <1>0, <1>1, <2>1, <2>2, <2>3, <2>4 DEF Recorded
<1> QED
  BY <1>3, <1>4

\* And so does every other step.
LEMMA OtherKeeps ==
  ASSUME TypeOK, Placed, Exclusive, ProxyKept, NEW p \in Procs, StepOf(p), ~Platform(p)
  PROVE  ProxyKept'
<1>0. /\ UNCHANGED <<platform, alone>>
      /\ \A q \in Procs \ {p} : pc'[q] = pc[q] /\ op'[q] = op[q] /\ copy'[q] = copy[q] /\ step'[q] = step[q]
  BY OthersKept
<1>1. SettingsMatch /\ (trust # "no" => alone) /\ \A q \in Procs : UndoneIsOff(q) /\ CopyRecords(q)
  BY DEF ProxyKept
<1>2. os' = os
  BY StepsOfProcess, MovesLead DEF Start, Kill, Exit, StateChanged, LoadFails, StateOpened, StateSaved,
     SaveFails, ServeStops, MarkDeferred, platformVars
<1>3. SettingsMatch' /\ (Relayed' <=> Relayed)
  BY <1>0, <1>1, <1>2 DEF SettingsMatch, Relayed
<1>4. trust' # "no" => alone'
  BY <1>0, <1>1, TrustSteps
<1>5. UndoneIsOff(p)'
  <2> SUFFICES ASSUME trust' # "no" PROVE OffSoFar(p)' /\ (Undone(p)' => ~Relayed')
    BY DEF UndoneIsOff
  <2>1. pc'[p] # "off" /\ (Undone(p)' => Undone(p) \/ platform = "linux")
    BY UndoneBefore
  <2>2. Undone(p) => trust # "no"
    BY TrustSteps, StartsBeside DEF Undone
  <2>3. Undone(p) => ~Relayed
    BY <1>1, <2>2 DEF UndoneIsOff
  <2>4. platform = "linux" => ~Relayed
    BY <1>1, NothingRelayed
  <2> QED
    BY <1>3, <2>1, <2>3, <2>4 DEF OffSoFar
<1>6. ASSUME NEW q \in Procs \ {p} PROVE UndoneIsOff(q)'
  <2> SUFFICES ASSUME trust' # "no" PROVE OffSoFar(q)' /\ (Undone(q)' => ~Relayed')
    BY DEF UndoneIsOff
  <2>1. CASE trust # "no"
    BY <1>0, <1>1, <1>2, <1>3, <2>1 DEF UndoneIsOff, OffSoFar, Undone
  <2>2. CASE alone /\ \E o \in OneShot \cup {"clear"} : Start(p, o)
    <3>1. pc[q] \in {"idle", "serving"}
      BY <2>2, StartsBeside
    <3> QED
      BY <1>0, <3>1 DEF OffSoFar, Undone
  <2> QED
    BY <2>1, <2>2, TrustSteps
<1>7. ASSUME NEW q \in Procs \ {p} PROVE CopyRecords(q)'
  <2> SUFFICES ASSUME trust' = "yes" PROVE CopyRecords(q)'
    BY DEF CopyRecords
  <2>1. CASE trust = "yes"
    BY <1>0, <1>1, <1>3, <2>1 DEF CopyRecords
  <2>2. CASE StateSaved(p) /\ trust = "repairing"
    <3>1. alone /\ pc[p] = "write"
      BY <1>1, <2>2 DEF StateSaved, Goto
    <3>2. pc[q] \in {"idle", "serving"}
      BY <3>1, Beside
    <3> QED
      BY <1>0, <3>2 DEF CopyRecords
  <2> QED
    BY <2>1, <2>2, TrustSteps
<1>8. CopyRecords(p)' /\ Recorded'
  BY CopyRecordsSteps, RecordedSteps
<1> QED
  BY <1>3, <1>4, <1>5, <1>6, <1>7, <1>8 DEF ProxyKept

\* As long as proxy commands do not overlap and none was cut short or ignored a
\* failure, traffic only goes to the relay when the route state says that the proxy is
\* installed (runProxyInstall and runProxyUninstall, src/client/cmd/actionrelay/main.go,
\* with the rollbacks of src/client/internal/proxyplatform/platform.go), on every
\* platform and with any number of network services.
THEOREM StrayProxyNever == Spec => []NoStrayProxy
<1>1. Init => ProxyKept
  <2> SUFFICES ASSUME Init PROVE ProxyKept
    OBVIOUS
  <2>1. \A x \in Settings : os[x] = "user"
    BY DEF Init
  <2>2. SettingsMatch /\ ~Relayed
    BY <2>1, SettingNames DEF SettingsMatch, Relayed
  <2>3. \A p \in Procs : pc[p] = "idle"
    BY DEF Init
  <2>4. trust # "no" => alone
    BY DEF Init
  <2> QED
    BY <2>2, <2>3, <2>4, NobodyElse DEF ProxyKept, Recorded
<1>2. TypeOK /\ Placed /\ FlagKept /\ ProxyKept /\ [Next]_vars => ProxyKept'
  <2> SUFFICES ASSUME TypeOK, Placed, Exclusive, ProxyKept, [Next]_vars PROVE ProxyKept'
    BY DEF FlagKept
  <2>1. CASE UNCHANGED vars
    BY <2>1 DEF vars, ghosts, platformVars, ProxyKept, SettingsMatch, UndoneIsOff, OffSoFar, Undone, CopyRecords,
       Recorded, Relayed, Dirty, Loadable
  <2> QED
    BY <2>1, PlatformKeeps, OtherKeeps DEF Next, StepOf
<1>3. TypeOK /\ Placed /\ ProxyKept => NoStrayProxy
  BY DEF ProxyKept, Recorded, NoStrayProxy, Quiet, Dirty, LoadOrDefault
<1> QED
  BY <1>1, <1>2, <1>3, AlwaysPlaced, AlwaysFlagKept, PTL DEF Spec
============================================================================
