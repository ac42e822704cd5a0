------------------------------ MODULE Commands ------------------------------
(***************************************************************************)
(* The commands of the client (client/cmd/actionrelay): init, route        *)
(* install and uninstall, proxy install and uninstall, and serve from its  *)
(* start to its end, as processes that share the configuration, the route  *)
(* state, the proxy settings and the address serve listens on.  Any        *)
(* process may be killed at any point, and any write may fail.             *)
(*                                                                         *)
(* A serve process runs under the name of what it does to the cleanup      *)
(* flag: "clear" while it starts, "mark" once it is to end.  `alone' tells *)
(* whether the operator runs one command at a time, beside a serve that    *)
(* is up.  `trust' and `stopped' only record what has happened: whether    *)
(* some proxy command was cut short or left a failure behind, and whether  *)
(* the last serve ended in good order and has marked its end; they are     *)
(* kept when commands run alone, the case the properties on them are for.  *)
(***************************************************************************)
EXTENDS ProxyPlatform

VARIABLES config, alone, trust, stopped

ghosts == <<alone, trust, stopped>>
platformVars == <<os, backup, step>>
vars == <<file, copy, platform, platformVars, pc, op, config, ghosts>>

Platforms == {"linux", "macos", "windows"}

OneShot == {"init", "route install", "route uninstall", "proxy install", "proxy uninstall"}
ProxyCommands == {"proxy install", "proxy uninstall"}
----------------------------------------------------------------------------
(* What a command does to the state it has loaded. *)

\* Mutant: the flag is left.
MutantRouteUninstall(s) == [s EXCEPT !.installed = FALSE]

RouteInstall(s)   == [s EXCEPT !.installed = TRUE, !.cleanupRequired = FALSE]
RouteUninstall(s) == [s EXCEPT !.installed = FALSE, !.cleanupRequired = FALSE]
ProxyInstall(s)   == [s EXCEPT !.proxyInstalled = TRUE]
ProxyUninstall(s) == [s EXCEPT !.proxyInstalled = FALSE]

Change(o, s) ==
  CASE o = "route install"   -> RouteInstall(s)
    [] o = "route uninstall" -> RouteUninstall(s)
    [] o = "proxy install"   -> ProxyInstall(s)
    [] o = "proxy uninstall" -> ProxyUninstall(s)
    [] o = "clear"           -> ClearCleanupRequired(s)
    [] o = "mark"            -> MarkCleanupRequired(s)

\* The command has nothing to save; for route uninstall that is an error.
Skips(o, s) ==
  \/ o = "route uninstall" /\ ~s.installed /\ ~s.cleanupRequired
  \/ o = "clear" /\ ClearSkips(s)
  \/ o = "mark" /\ MarkSkips(s)
----------------------------------------------------------------------------
(* Start and end of a process. *)

Entry(o) ==
  CASE o = "init"            -> "init"
    [] o = "route uninstall" -> "load"
    [] o = "proxy uninstall" -> UninstallEntry
    [] OTHER                 -> "config"

\* The operator waits for the other commands to end.
MayRun(p, others) == alone => \A q \in Procs \ {p} : pc[q] \in others

Start(p, o) ==
  /\ Goto(p, "idle", Entry(o))
  /\ MayRun(p, IF o = "clear" THEN {"idle"} ELSE {"idle", "serving"})
  /\ op' = [op EXCEPT ![p] = o]
  /\ trust' = IF alone /\ o = "proxy uninstall" /\ trust = "no" THEN "repairing" ELSE trust
  /\ stopped' = (stopped /\ o # "clear")
  /\ UNCHANGED <<file, copy, platform, platformVars, config, alone>>

\* A proxy command that goes wrong may leave settings nobody has recorded.
Distrust(p) == trust' = IF op[p] \in ProxyCommands THEN "no" ELSE trust

\* The process is gone, and its memory with it.
Vanish(p) ==
  /\ pc' = [pc EXCEPT ![p] = "idle"]
  /\ op' = [op EXCEPT ![p] = "init"]
  /\ copy' = [copy EXCEPT ![p] = DefaultState]
  /\ step' = [step EXCEPT ![p] = 1]

\* SIGKILL, a crash or a power cut: nothing deferred runs.
Kill(p) ==
  /\ pc[p] # "idle"
  /\ Vanish(p)
  /\ Distrust(p)
  /\ stopped' = FALSE
  /\ UNCHANGED <<file, platform, os, backup, config, alone>>

Exit(p) ==
  /\ pc[p] = "ended"
  /\ Vanish(p)
  /\ UNCHANGED <<file, platform, os, backup, config, ghosts>>
----------------------------------------------------------------------------
(* The configuration. *)

\* runInit writes the defaults with the values it was given.
InitOpens(p) ==
  /\ Goto(p, "init", "init write")
  /\ config' = "empty"
  /\ UNCHANGED <<file, copy, platform, platformVars, op, ghosts>>

InitWrites(p) ==
  /\ Goto(p, "init write", "ended")
  /\ config' \in Written(config)
  /\ UNCHANGED <<file, copy, platform, platformVars, op, ghosts>>

\* The values given do not pass Validate, or the file cannot be written.
InitFails(p) ==
  /\ Goto(p, "init", "ended") \/ Goto(p, "init write", "ended")
  /\ UNCHANGED <<file, copy, platform, platformVars, op, config, ghosts>>

ConfigLoaded(p) ==
  /\ config = "whole"
  /\ Goto(p, "config", CASE op[p] = "route install" -> "load"
                         [] op[p] = "proxy install" -> InstallEntry
                         [] op[p] = "clear"         -> "setup")
  /\ UNCHANGED <<file, copy, platform, platformVars, op, config, ghosts>>

\* There is no configuration, it does not decode, or its values or those given on
\* the command line do not pass Validate.
ConfigFails(p) ==
  /\ Goto(p, "config", "ended")
  /\ UNCHANGED <<file, copy, platform, platformVars, op, config, ghosts>>
----------------------------------------------------------------------------
(* Changing the route state: load, change, save. *)

\* Where a process goes when its change is saved, or skipped, or has failed: serve
\* goes on to listen, or to its deferred mark; a process that marks is at its end.
Done(p)   == IF op[p] = "clear" THEN "listen" ELSE "ended"
Failed(p) == IF op[p] = "clear" THEN "mark" ELSE "ended"

StateChanged(p) ==
  /\ Loadable
  /\ ~Skips(op[p], LoadOrDefault)
  /\ Goto(p, "load", "save")
  /\ copy' = [copy EXCEPT ![p] = Change(op[p], LoadOrDefault)]
  /\ UNCHANGED <<file, platform, platformVars, op, config, ghosts>>

NothingToChange(p) ==
  /\ Loadable
  /\ Skips(op[p], LoadOrDefault)
  /\ Goto(p, "load", Done(p))
  /\ UNCHANGED <<file, copy, platform, platformVars, op, config, ghosts>>

\* The file does not decode; serve ignores that when it marks.
LoadFails(p) ==
  /\ ~Loadable
  /\ Goto(p, "load", Failed(p))
  /\ Distrust(p)
  /\ stopped' = (stopped /\ op[p] # "mark")
  /\ UNCHANGED <<file, copy, platform, platformVars, op, config, alone>>

StateOpened(p) ==
  /\ Goto(p, "save", "write")
  /\ SaveOpens
  /\ UNCHANGED <<copy, platform, platformVars, op, config, ghosts>>

StateSaved(p) ==
  /\ Goto(p, "write", Done(p))
  /\ SaveWrites(p)
  /\ copy' = [copy EXCEPT ![p] = DefaultState]
  /\ trust' = IF op[p] = "proxy uninstall" /\ trust = "repairing" THEN "yes" ELSE trust
  /\ stopped' = (stopped /\ op[p] \notin {"route install", "route uninstall"})
  /\ UNCHANGED <<platform, platformVars, op, config, alone>>

\* The disk is full, or the file cannot be opened.
SaveFails(p) ==
  /\ Goto(p, "save", Failed(p)) \/ Goto(p, "write", Failed(p))
  /\ copy' = [copy EXCEPT ![p] = DefaultState]
  /\ Distrust(p)
  /\ stopped' = (stopped /\ op[p] # "mark")
  /\ UNCHANGED <<file, platform, platformVars, op, config, alone>>
----------------------------------------------------------------------------
(* serve *)

\* Token, dispatcher, agent and proxy server are made; the agent starts.
ServeReady(p) ==
  /\ Goto(p, "setup", "load")
  /\ UNCHANGED <<file, copy, platform, platformVars, op, config, ghosts>>

\* One of them cannot be made.
SetupFails(p) ==
  /\ Goto(p, "setup", "mark")
  /\ UNCHANGED <<file, copy, platform, platformVars, op, config, ghosts>>

Listening == \E q \in Procs : pc[q] = "serving"

\* Only one process can listen on the address.
Listens(p) ==
  /\ ~Listening
  /\ Goto(p, "listen", "serving")
  /\ UNCHANGED <<file, copy, platform, platformVars, op, config, ghosts>>

\* The address is in use, or the proxy's listener failed and the context is done.
ListenFails(p) ==
  /\ Goto(p, "listen", "mark")
  /\ UNCHANGED <<file, copy, platform, platformVars, op, config, ghosts>>

\* A signal, or the proxy's listener fails: ListenAndServe returns.
ServeStops(p) ==
  /\ Goto(p, "serving", "mark")
  /\ MayRun(p, {"idle"})
  /\ stopped' = alone
  /\ UNCHANGED <<file, copy, platform, platformVars, op, config, alone, trust>>

\* Mutant: nothing is marked once serve has listened.
MutantMarkDeferred(p) ==
  /\ Goto(p, "mark", IF stopped THEN "ended" ELSE "load")
  /\ op' = [op EXCEPT ![p] = "mark"]
  /\ UNCHANGED <<file, copy, platform, platformVars, config, ghosts>>

\* The deferred MarkCleanupRequired, the last thing serve does.
MarkDeferred(p) ==
  /\ Goto(p, "mark", "load")
  /\ op' = [op EXCEPT ![p] = "mark"]
  /\ UNCHANGED <<file, copy, platform, platformVars, config, ghosts>>
----------------------------------------------------------------------------
\* A step of Install or Uninstall that goes as planned, or whose failure is undone.
PlatformStep(p) ==
  \/ ServicesListed(p) \/ SettingChanged(p) \/ SettingFails(p) \/ AllSet(p)
  \/ BackupOpens(p) \/ BackupWritten(p)
  \/ WinHTTPSet(p) \/ WinHTTPFails(p) \/ EnvironmentSet(p) \/ EnvironmentFails(p)
  \/ ServicesListedAgain(p) \/ TurnedOff(p) \/ AllOff(p)
  \/ WinHTTPReset(p) \/ StateLoaded(p) \/ StateCleared(p)

\* A step that fails and leaves what was done.
PlatformFailure(p) == BackupFails(p) \/ UninstallFails(p) \/ FailureIgnored(p)

Platform(p) ==
  /\ \/ PlatformStep(p) /\ UNCHANGED trust
     \/ PlatformFailure(p) /\ Distrust(p)
  /\ UNCHANGED <<file, copy, platform, op, config, alone, stopped>>

Route(p) ==
  \/ StateChanged(p) \/ NothingToChange(p) \/ LoadFails(p)
  \/ StateOpened(p) \/ StateSaved(p) \/ SaveFails(p)

Serve(p) ==
  \/ ServeReady(p) \/ SetupFails(p) \/ Listens(p) \/ ListenFails(p)
  \/ ServeStops(p) \/ MarkDeferred(p)

Init ==
  /\ file = [kind |-> "absent", state |-> DefaultState]
  /\ copy = [p \in Procs |-> DefaultState]
  /\ platform \in Platforms
  /\ os = [x \in Settings |-> "user"]
  /\ backup = "absent"
  /\ step = [p \in Procs |-> 1]
  /\ pc = [p \in Procs |-> "idle"]
  /\ op = [p \in Procs |-> "init"]
  /\ config = "absent"
  /\ alone \in BOOLEAN
  /\ trust = IF alone THEN "yes" ELSE "no"
  /\ stopped = FALSE

Next ==
  \E p \in Procs :
    \/ \E o \in OneShot \cup {"clear"} : Start(p, o)
    \/ InitOpens(p) \/ InitWrites(p) \/ InitFails(p) \/ ConfigLoaded(p) \/ ConfigFails(p)
    \/ Platform(p) \/ Route(p) \/ Serve(p)
    \/ Kill(p) \/ Exit(p)

Spec == Init /\ [][Next]_vars
----------------------------------------------------------------------------
(* Properties. *)

\* Every variable keeps its shape.
TypeOK ==
  /\ file \in [kind : Kinds, state : State]
  /\ copy \in [Procs -> State]
  /\ platform \in Platforms
  /\ os \in [Settings -> {"user", "relay", "off"}]
  /\ backup \in Kinds
  /\ step \in [Procs -> 1 .. 5 * ServiceCount + 1]
  /\ pc \in [Procs -> {"idle", "ended", "init", "init write", "config", "setup", "load",
                       "save", "write", "listen", "serving", "mark", "list", "set", "backup",
                       "backup write", "netsh", "setenv", "unlist", "off", "reset", "unload",
                       "clear"}]
  /\ op \in [Procs -> OneShot \cup {"clear", "mark"}]
  /\ config \in Kinds
  /\ alone \in BOOLEAN
  /\ trust \in {"yes", "no", "repairing"}
  /\ stopped \in BOOLEAN

\* The cleanup flag is only ever set together with Installed, on disk and in the
\* memory of every process, however the commands interleave and wherever they are
\* killed: route uninstall, which accepts either, always clears both.
CleanupMeansInstalled ==
  \A s \in {file.state} \cup {copy[p] : p \in Procs} : s.cleanupRequired => s.installed

\* The route state file does not decode, and no process has a copy to write.
Damaged == file.kind \in Undecodable /\ \A p \in Procs : pc[p] \notin {"save", "write"}

\* A damaged route state file is never replaced by one made from the defaults, which
\* would forget an installed route: every command fails on it, serve included, and
\* none of them ever gets to write again.
DamageIsKept == [][Damaged => Damaged' /\ UNCHANGED file]_vars

\* No command is running.
Quiet == \A p \in Procs : pc[p] \in {"idle", "ended", "serving"}

\* As long as commands do not overlap, the flag tells the truth between them: it is
\* not set while serve is up, and it is set after a serve that ended in good order
\* with the route installed, until the next serve or route command.
FlagTruthful ==
  alone /\ Quiet /\ Loadable =>
    /\ Listening => ~LoadOrDefault.cleanupRequired
    /\ stopped /\ LoadOrDefault.installed => LoadOrDefault.cleanupRequired

\* As long as commands do not overlap, traffic only goes to the relay when the state
\* says that the proxy is installed: an install that one of the settings commands
\* fails is rolled back.  trust exempts what the code does not roll back, a kill,
\* a failed save of the backup (saveState) or of the route state after the settings
\* were made, and failures that uninstall ignores; until a proxy uninstall that
\* goes through, which sets right whatever was left before it.
NoStrayProxy ==
  alone /\ Quiet /\ Loadable /\ trust = "yes" /\ Relayed => LoadOrDefault.proxyInstalled
============================================================================
