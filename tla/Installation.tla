---------------------------- MODULE Installation ----------------------------
(***************************************************************************)
(* What puts the daemon in the way of connections: a LaunchDaemon's plist  *)
(* and launchd's job (launchdaemon_darwin.go), the rules of the pf anchor  *)
(* (kernel/pf_darwin.go), and the user's LaunchAgent (install_darwin.go).  *)
(* install, uninstall and enable (install.go) change them one by one, each *)
(* step may fail, and a command may be killed between two of them; the     *)
(* menu bar flushes and reinstalls the rules (menubar/control.go).         *)
(*                                                                         *)
(* A plist, a job and the rules are each the port they name, or None; a    *)
(* file whose writing failed may be Torn: it is there and names no port.   *)
(* One administrator command and one command of the user run at a time,    *)
(* and a bootout that reports an error has left the job running.           *)
(***************************************************************************)
EXTENDS Integers

CONSTANTS Port, None, Torn

ASSUME InstallationAssumption == None \notin Port /\ Torn \notin Port /\ Torn # None

VARIABLES
    plist,      \* the LaunchDaemon's plist
    job,        \* the job launchd runs in the system domain
    rules,      \* the redirection loaded in the anchor
    anchorFile, \* the rules on disk
    declared,   \* the main ruleset of pf reaches the anchor
    agent,      \* the user's LaunchAgent: [plist, job]
    root,       \* the administrator's command: its pc, an install's port, the plist and the
                \* rules before it, the job it stopped, the plist it replaced, and
                \* history: which of its writes and undoings failed
    user,       \* the user's command
    broken      \* history: since the last install that succeeded, a command was "killed",
                \* its "rollback" or "restart" failed, or its new daemon was "kept" beside
                \* the rules of another port

system      == <<plist, job, rules, anchorFile, declared>>
installVars == <<system, agent, root, user, broken>>

Idle == [pc |-> "idle", port |-> None, before |-> [plist |-> None, rules |-> None],
         stopped |-> None, previous |-> None, lost |-> {}]

InstallInit ==
    /\ plist = None /\ job = None /\ rules = None /\ anchorFile = None
    /\ declared \in BOOLEAN
    /\ agent = [plist |-> None, job |-> None]
    /\ root = Idle /\ user = "idle" /\ broken = {}

\* The states in which a command has ended.
Over == {"installed", "uninstalled", "kept", "failed"}

Goes(pc)   == root' = [root EXCEPT !.pc = pc]
Fails(pc, what) == root' = [root EXCEPT !.pc = pc, !.lost = @ \cup {what}]
onlySystem == <<agent, user>>

-----------------------------------------------------------------------------
(* install: installProtection, installLaunchDaemonPlist.                   *)

BootDaemonInstalled == plist # None

Install(p) ==
    /\ root.pc = "idle"
    /\ root' = [Idle EXCEPT !.pc = "bootout", !.port = p,
                            !.before = [plist |-> plist, rules |-> rules]]
    /\ UNCHANGED <<system, agent, user, broken>>

\* What install needs before it touches anything: the user's home, the directories.
InstallFails ==
    /\ root.pc = "bootout" /\ Goes("failed")
    /\ UNCHANGED <<system, onlySystem, broken>>

\* bootout fails where there is no job, and may fail where there is one.
Bootout ==
    /\ root.pc = "bootout"
    /\ \/ job # None /\ job' = None /\ root' = [root EXCEPT !.pc = "write", !.stopped = job]
       \/ job' = job /\ Goes("write")
    /\ UNCHANGED <<plist, rules, anchorFile, declared, onlySystem, broken>>

\* The plist that was there is read and replaced in place.
WritePlist ==
    /\ root.pc = "write"
    /\ plist' = root.port
    /\ root' = [root EXCEPT !.pc = "bootstrap", !.previous = plist]
    /\ UNCHANGED <<job, rules, anchorFile, declared, onlySystem, broken>>

\* Where a daemon was stopped, it is started again from the plist that is there.
Restarts == IF root.before.plist # None /\ root.stopped # None THEN "restart" ELSE "failed"

\* The plist cannot be read, or opened, or is truncated and not written: nothing puts it back.
WritePlistFails ==
    /\ root.pc = "write"
    /\ \/ Goes(Restarts) /\ UNCHANGED plist
       \/ Fails(Restarts, "write") /\ plist' = Torn
    /\ UNCHANGED <<job, rules, anchorFile, declared, onlySystem, broken>>

\* launchd takes no second job of the label.
Bootstrap ==
    /\ root.pc = "bootstrap" /\ job = None
    /\ job' = plist /\ Goes("anchor")
    /\ UNCHANGED <<plist, rules, anchorFile, declared, onlySystem, broken>>

BootstrapFails ==
    /\ root.pc = "bootstrap" /\ Goes("rollback")
    /\ UNCHANGED <<system, onlySystem, broken>>

\* mutant: the new plist stays
KeepNewPlist ==
    /\ root.pc = "rollback" /\ Goes(Restarts)
    /\ UNCHANGED <<system, onlySystem, broken>>

\* The old plist is written in place, or the new one removed; either may fail.
rollbackLaunchDaemonPlist ==
    /\ root.pc = "rollback"
    /\ \/ plist' = root.previous /\ Goes(Restarts) /\ UNCHANGED broken
       \/ /\ plist' \in {plist} \cup (IF root.previous = None THEN {} ELSE {Torn})
          /\ Fails(Restarts, "rollback") /\ broken' = broken \cup {"rollback"}
    /\ UNCHANGED <<job, rules, anchorFile, declared, onlySystem>>

Restart ==
    /\ root.pc = "restart"
    /\ \/ job = None /\ plist \in Port /\ job' = plist /\ Goes("failed") /\ UNCHANGED broken
       \/ UNCHANGED job /\ Fails("failed", "restart") /\ broken' = broken \cup {"restart"}
    /\ UNCHANGED <<plist, rules, anchorFile, declared, onlySystem>>

\* pfDarwin.Install writes the anchor's file and loads it.
WriteAnchor ==
    /\ root.pc = "anchor"
    /\ \/ anchorFile' = root.port /\ Goes("load")
       \/ anchorFile' \in {anchorFile, Torn} /\ Goes("undo")
    /\ UNCHANGED <<plist, job, rules, declared, onlySystem, broken>>

LoadAnchor ==
    /\ root.pc = "load" /\ rules' = anchorFile /\ Goes("installed") /\ broken' = {}
    /\ UNCHANGED <<plist, job, anchorFile, declared, onlySystem>>

LoadFails ==
    /\ root.pc = "load" /\ Goes("undo")
    /\ UNCHANGED <<system, onlySystem, broken>>

\* A daemon that replaced another stays, on the new port, under the rules of before.
KeepDaemon ==
    /\ root.pc = "undo" /\ root.before.plist # None /\ Goes("kept")
    /\ broken' = broken \cup (IF root.before.rules \in {None, root.port} THEN {} ELSE {"kept"})
    /\ UNCHANGED <<system, onlySystem>>

UndoDaemon ==
    /\ root.pc = "undo" /\ root.before.plist = None /\ Goes("undo bootout")
    /\ UNCHANGED <<system, onlySystem, broken>>

-----------------------------------------------------------------------------
(* uninstall, and installProtection's rollback, which is its second half.  *)

\* mutant: the daemon is stopped first
UninstallDaemonFirst ==
    /\ root.pc = "idle" /\ root' = [Idle EXCEPT !.pc = "remove bootout"]
    /\ UNCHANGED <<system, agent, user, broken>>

Uninstall ==
    /\ root.pc = "idle" /\ root' = [Idle EXCEPT !.pc = "flush"]
    /\ UNCHANGED <<system, agent, user, broken>>

\* pfDarwin.Uninstall
Flush ==
    /\ root.pc = "flush" /\ rules' = None
    /\ \/ anchorFile' = None /\ Goes("remove bootout")
       \/ UNCHANGED anchorFile /\ Goes("failed")
    /\ UNCHANGED <<plist, job, declared, onlySystem, broken>>

FlushFails ==
    /\ root.pc = "flush" /\ Goes("failed")
    /\ UNCHANGED <<system, onlySystem, broken>>

\* uninstallLaunchDaemon does not ask whether the job is gone.
UninstallBootout ==
    /\ \/ root.pc = "undo bootout" /\ Goes("undo remove")
       \/ root.pc = "remove bootout" /\ Goes("remove")
    /\ job' \in {job, None}
    /\ UNCHANGED <<plist, rules, anchorFile, declared, onlySystem, broken>>

RemovePlist ==
    /\ root.pc \in {"undo remove", "remove"}
    /\ \/ plist' = None /\ Goes(IF root.pc = "remove" THEN "uninstalled" ELSE "failed")
       \/ UNCHANGED plist /\ Fails("failed", "remove")
    /\ UNCHANGED <<job, rules, anchorFile, declared, onlySystem, broken>>

Return ==
    /\ root.pc \in Over /\ root' = Idle
    /\ UNCHANGED <<system, agent, user, broken>>

-----------------------------------------------------------------------------
(* enable, and uninstall as the user.                                      *)

Enable ==
    /\ user = "idle"
    /\ user' = IF BootDaemonInstalled THEN "unload" ELSE "load"
    /\ UNCHANGED <<system, agent, root, broken>>

\* The agent is unloaded first; a load that fails leaves the plist.
LoadAgent ==
    /\ user = "load" /\ user' = "idle"
    /\ \E p \in Port : agent' \in {[plist |-> p, job |-> p], [plist |-> p, job |-> None]}
    /\ UNCHANGED <<system, root, broken>>

UninstallAgent ==
    /\ user = "idle" /\ user' = "unload"
    /\ UNCHANGED <<system, agent, root, broken>>

uninstallLaunchAgent ==
    /\ user = "unload" /\ user' = "idle"
    /\ agent' \in {[plist |-> None, job |-> None], [plist |-> None, job |-> agent.job]}
    /\ UNCHANGED <<system, root, broken>>

-----------------------------------------------------------------------------
(* What happens around them.                                               *)

\* The menu bar's pause; its resume is install.
Pause ==
    /\ root.pc = "idle" /\ rules' = None
    /\ UNCHANGED <<plist, job, anchorFile, declared, agent, root, user, broken>>

Killed ==
    /\ root.pc \notin Over \cup {"idle"} /\ root' = Idle /\ broken' = broken \cup {"killed"}
    /\ UNCHANGED <<system, agent, user>>

\* launchd loads what has a plist it can read; the anchor is empty.
Reboot ==
    /\ job' = (IF plist \in Port THEN plist ELSE None) /\ rules' = None
    /\ agent' = [agent EXCEPT !.job = agent.plist]
    /\ root' = Idle /\ user' = "idle" /\ broken' = {}
    /\ UNCHANGED <<plist, anchorFile, declared>>

InstallNext ==
    \/ \E p \in Port : Install(p)
    \/ InstallFails \/ Bootout \/ WritePlist \/ WritePlistFails \/ Bootstrap \/ BootstrapFails
    \/ rollbackLaunchDaemonPlist \/ Restart
    \/ WriteAnchor \/ LoadAnchor \/ LoadFails \/ KeepDaemon \/ UndoDaemon
    \/ Uninstall \/ Flush \/ FlushFails \/ UninstallBootout \/ RemovePlist \/ Return
    \/ Enable \/ LoadAgent \/ UninstallAgent \/ uninstallLaunchAgent
    \/ Pause \/ Killed \/ Reboot

InstallSpec == InstallInit /\ [][InstallNext]_installVars

-----------------------------------------------------------------------------
(* What status and the menu bar say of it.                                 *)

\* pfDarwin.IsInstalled
IsInstalled == rules # None /\ declared

AnchorUnreachable == rules # None /\ ~declared

-----------------------------------------------------------------------------
(* Properties.                                                             *)

(* Between commands, and after every sequence of steps that fail, what is  *)
(* redirected goes to a port where launchd runs the daemon, unless since   *)
(* the last install that succeeded a command was killed, install could not *)
(* put the old plist back or start the old daemon again, or its pf step    *)
(* failed over rules of another port (install.go:38 undoes nothing then:   *)
(* a daemon runs, and not where the rules point).                          *)
RedirectsReachTheDaemon ==
    root.pc \in Over \cup {"idle"} /\ rules # None =>
        /\ broken = {} => job = rules
        /\ broken \subseteq {"kept"} => job # None

(* An install that fails has not touched the rules, and unless a write tore*)
(* the plist or an undoing failed itself it leaves the plist it found and, *)
(* where it stopped that plist's daemon, a daemon on its port; where there *)
(* was a plist and only the pf step failed, it leaves the new daemon.      *)
FailedInstallUndone ==
    /\ root.pc = "failed" /\ root.port # None =>
        /\ rules = root.before.rules
        /\ root.lost = {} =>
            /\ plist = root.before.plist
            /\ root.stopped # None /\ plist # None => job = plist
    /\ root.pc = "kept" =>
        /\ root.before.plist # None /\ rules = root.before.rules
        /\ plist = root.port /\ job = root.port

(* status answers rules that no ruleset reaches with "Fix: sudo            *)
(* egress-guard install": after an install that succeeds, they are reached.*)
InstallReaches == root.pc = "installed" => ~AnchorUnreachable
=============================================================================
