---------------------------- MODULE ProxyPlatform ----------------------------
(***************************************************************************)
(* The proxy settings of the operating system (client/internal/            *)
(* proxyplatform).  Install and Uninstall run a sequence of commands, any  *)
(* of which can fail; some failures are rolled back and some ignored.      *)
(*                                                                         *)
(* `os' holds the settings that outlive the command: the macOS proxy       *)
(* settings of every network service and the WinHTTP proxy of Windows.     *)
(* Environment variables do not: a command sets those of its own process,  *)
(* so they are left out but for the failure of setting one.  The file with *)
(* the variables to restore is `backup'.                                   *)
(***************************************************************************)
EXTENDS Naturals, RouteState

CONSTANT ServiceCount   \* macOS network services, in the order they are listed

ASSUME ServiceAssumption == ServiceCount \in Nat

VARIABLES
  platform,   \* Detect(): never changes
  os,         \* setting -> the user's, the relay's, or off
  backup,     \* what is on disk of the platform state file
  pc,         \* where each process stands
  op,         \* the command it runs
  step        \* the next network service command of its loop

Services == 1 .. ServiceCount

\* networksetup is run with these, in this order, for every service.
Switches == <<"web", "secure", "webstate", "securestate", "bypass">>

WinHTTP == <<0, "winhttp">>

Settings == (Services \X {Switches[i] : i \in 1 .. 5}) \cup {WinHTTP}

\* The setting that step n of the install loop, and of the uninstall loop, changes.
InstallStep(n)   == <<((n - 1) \div 5) + 1, Switches[((n - 1) % 5) + 1]>>
UninstallStep(n) == <<((n - 1) \div 2) + 1, Switches[((n - 1) % 2) + 3]>>

\* Some traffic of the user goes to the relay.
Relayed ==
  \/ os[WinHTTP] = "relay"
  \/ \E s \in Services :
       \/ os[<<s, "web">>] = "relay" /\ os[<<s, "webstate">>] # "off"
       \/ os[<<s, "secure">>] = "relay" /\ os[<<s, "securestate">>] # "off"

Goto(p, from, to) == pc[p] = from /\ pc' = [pc EXCEPT ![p] = to]

\* Where the caller of Install or Uninstall goes on; a rollback ends in its error.
Returned(p) == IF op[p] = "proxy uninstall" THEN "load" ELSE "ended"
----------------------------------------------------------------------------
(* Install *)

\* The first step of a platform's Install.
InstallEntry == IF platform = "macos" THEN "list" ELSE "backup"

\* macOSNetworkServices
ServicesListed(p) ==
  /\ step' = [step EXCEPT ![p] = 1]
  /\ \/ Goto(p, "list", "set") /\ ServiceCount > 0
     \/ Goto(p, "list", "ended")      \* the listing fails or is empty
  /\ UNCHANGED <<os, backup>>

\* Mutant: one step too many.
MutantSettingChanged(p) ==
  /\ step[p] <= 5 * ServiceCount + 1
  /\ Goto(p, "set", "set")
  /\ os' = [os EXCEPT ![InstallStep(step[p])] = "relay"]
  /\ step' = [step EXCEPT ![p] = @ + 1]
  /\ UNCHANGED backup

\* One networksetup command of installMacOSProxy.
SettingChanged(p) ==
  /\ step[p] <= 5 * ServiceCount
  /\ Goto(p, "set", "set")
  /\ os' = [os EXCEPT ![InstallStep(step[p])] = "relay"]
  /\ step' = [step EXCEPT ![p] = @ + 1]
  /\ UNCHANGED backup

\* Mutant: the settings changed so far are left.
MutantSettingFails(p) ==
  /\ step[p] <= 5 * ServiceCount
  /\ Goto(p, "set", "ended")
  /\ UNCHANGED <<os, backup, step>>

\* It fails: uninstallMacOSProxy.
SettingFails(p) ==
  /\ step[p] <= 5 * ServiceCount
  /\ Goto(p, "set", "unlist")
  /\ UNCHANGED <<os, backup, step>>

AllSet(p) ==
  /\ step[p] > 5 * ServiceCount
  /\ Goto(p, "set", "backup")
  /\ step' = [step EXCEPT ![p] = 1]
  /\ UNCHANGED <<os, backup>>

\* saveState
BackupOpens(p) ==
  /\ Goto(p, "backup", "backup write")
  /\ backup' = "empty"
  /\ UNCHANGED <<os, step>>

BackupWritten(p) ==
  /\ Goto(p, "backup write",
          CASE platform = "macos"   -> "load"
            [] platform = "windows" -> "netsh"
            [] platform = "linux"   -> "setenv")
  /\ backup' \in Written(backup)
  /\ UNCHANGED <<os, step>>

\* It fails before or after the truncation; on macOS the proxy is already on.
BackupFails(p) ==
  /\ Goto(p, "backup", "ended") \/ Goto(p, "backup write", "ended")
  /\ UNCHANGED <<os, backup, step>>

\* netsh winhttp set proxy
WinHTTPSet(p) ==
  /\ Goto(p, "netsh", "setenv")
  /\ os' = [os EXCEPT ![WinHTTP] = "relay"]
  /\ UNCHANGED <<backup, step>>

\* It fails: the state file is removed, or that fails too.
WinHTTPFails(p) ==
  /\ Goto(p, "netsh", "ended")
  /\ backup' \in {backup, "absent"}
  /\ UNCHANGED <<os, step>>

\* The variables of this process are set.
EnvironmentSet(p) ==
  /\ Goto(p, "setenv", "load")
  /\ UNCHANGED <<os, backup, step>>

\* Windows rolls back with Uninstall; Linux (rollbackLinux) restores the variables
\* and leaves the state file.
EnvironmentFails(p) ==
  /\ Goto(p, "setenv", IF platform = "windows" THEN "reset" ELSE "ended")
  /\ UNCHANGED <<os, backup, step>>
----------------------------------------------------------------------------
(* Uninstall, and the rollback of an install *)

UninstallEntry ==
  CASE platform = "macos"   -> "unlist"
    [] platform = "windows" -> "reset"
    [] platform = "linux"   -> "unload"

ServicesListedAgain(p) ==
  /\ Goto(p, "unlist", "off")
  /\ step' = [step EXCEPT ![p] = 1]
  /\ UNCHANGED <<os, backup>>

TurnedOff(p) ==
  /\ step[p] <= 2 * ServiceCount
  /\ Goto(p, "off", "off")
  /\ os' = [os EXCEPT ![UninstallStep(step[p])] = "off"]
  /\ step' = [step EXCEPT ![p] = @ + 1]
  /\ UNCHANGED backup

AllOff(p) ==
  /\ step[p] > 2 * ServiceCount
  /\ Goto(p, "off", "clear")
  /\ step' = [step EXCEPT ![p] = 1]
  /\ UNCHANGED <<os, backup>>

\* netsh winhttp reset proxy
WinHTTPReset(p) ==
  /\ Goto(p, "reset", "unload")
  /\ os' = [os EXCEPT ![WinHTTP] = "off"]
  /\ UNCHANGED <<backup, step>>

\* loadState: the variables of this process are restored, or cleared when there is
\* no state.
StateLoaded(p) ==
  /\ backup \notin Undecodable
  /\ Goto(p, "unload", IF backup = "absent" THEN Returned(p) ELSE "clear")
  /\ UNCHANGED <<os, backup, step>>

\* clearState
StateCleared(p) ==
  /\ Goto(p, "clear", Returned(p))
  /\ backup' = "absent"
  /\ UNCHANGED <<os, step>>

\* A failure that ends Uninstall with its error.
UninstallFails(p) ==
  /\ \/ Goto(p, "unlist", "ended")
     \/ backup \in Undecodable /\ Goto(p, "unload", "ended")
     \/ Goto(p, "clear", "ended")
  /\ UNCHANGED <<os, backup, step>>

\* A command that fails and is ignored.
FailureIgnored(p) ==
  /\ \/ /\ step[p] <= 2 * ServiceCount
        /\ Goto(p, "off", "off")
        /\ step' = [step EXCEPT ![p] = @ + 1]
     \/ Goto(p, "reset", "unload") /\ UNCHANGED step
  /\ UNCHANGED <<os, backup>>
============================================================================
