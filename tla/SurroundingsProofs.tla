-------------------------- MODULE SurroundingsProofs --------------------------
(***************************************************************************)
(* What surrounds the daemon: the rules of pf that a command installs      *)
(* (Installation), the bridge that the network extension asks              *)
(* (BridgeServer), and the reader of its log (TailFollower).               *)
(*                                                                         *)
(* What a command leaves behind, for any set of ports.  At each step of a  *)
(* command the inductive invariant says where the port of the redirection  *)
(* still is: in the job and the plist before install touches them, in the  *)
(* plist it has kept aside while it replaces them (Sound); that something  *)
(* runs or can be started again (Runs); and what an install has put in the *)
(* place of what it found (Undoing).                                       *)
(*                                                                         *)
(* Of the bridge, for any number of connections and frames: types, the     *)
(* pairing of responses with requests and the log, and what is left when   *)
(* Serve returns.                                                          *)
(*                                                                         *)
(* Of the follower, for any number of rotations, lines and events: what is *)
(* before its place in the open file was printed or passed over            *)
(* (PlaceInv), and a log that was there when it was called is not closed   *)
(* before it is renamed (OldInv), so that it is not read from its start.   *)
(***************************************************************************)
EXTENDS Installation, BridgeServer, TailFollower, SequenceTheorems, TLAPS


Installing == {"bootout", "write", "bootstrap", "rollback", "restart",
               "anchor", "load", "undo", "undo bootout", "undo remove"}
Removing   == {"flush", "remove bootout", "remove"}
Replacing  == {"bootstrap", "rollback"}
Replaced   == {"anchor", "load", "undo"}
Undone     == {"undo bootout", "undo remove"}
Still      == Over \cup {"idle", "bootout", "flush"}

RootType ==
    /\ DOMAIN root = DOMAIN Idle
    /\ root.pc \in Over \cup {"idle"} \cup Installing \cup Removing
    /\ root.pc \in Installing => root.port \in Port

\* Where the port of the rules is while nothing is broken.
Sound ==
    broken = {} /\ rules # None =>
        /\ root.pc \in Still => job = rules /\ plist \in {rules, Torn}
        /\ root.pc \in {"write", "restart"} => plist \in {rules, Torn}
        /\ root.pc \in Replacing => root.previous \in {rules, Torn}
        /\ root.pc \in {"write"} \cup Replacing => job = IF root.stopped = None THEN rules ELSE None

\* What runs, and what it would be started from, while at most a daemon was kept.
Runs ==
    broken \subseteq {"kept"} /\ rules # None =>
        /\ root.pc \in Still => job # None /\ plist # None
        /\ root.pc \in {"write", "restart"} => plist # None
        /\ root.pc \in Replacing => root.previous # None
        /\ root.pc \in {"write"} \cup Replacing => root.stopped # None \/ job # None
        /\ root.pc \in Replaced => root.before.plist # None
        /\ root.pc \notin Undone

\* What install has done so far, and what it found.
Undoing ==
    /\ root.pc \in Installing \ {"restart"} => root.lost = {}
    /\ root.pc \in {"bootout", "write"} => plist = root.before.plist
    /\ root.pc = "restart" => root.stopped # None /\ (root.lost = {} => plist = root.before.plist)
    /\ root.pc = "bootout" => root.stopped = None
    /\ root.pc \in Replacing => root.previous = root.before.plist
    /\ root.pc \in Replacing \cup Replaced \cup Undone => plist = root.port
    /\ root.pc \in Replaced => job = root.port
    /\ root.pc = "load" => anchorFile = root.port
    /\ root.pc \in Undone => root.before.plist = None
    /\ root.pc \in Installing => rules = root.before.rules
    /\ root.pc \in Removing => root.port = None
    /\ root.pc \in Removing \ {"flush"} => rules = None

InstallationInv == RootType /\ Sound /\ Runs /\ Undoing /\ FailedInstallUndone

-----------------------------------------------------------------------------
LEMMA InitInv == InstallInit => InstallationInv
<1> SUFFICES ASSUME InstallInit PROVE InstallationInv
  OBVIOUS
<1>1. root.pc = "idle" /\ DOMAIN root = DOMAIN Idle /\ rules = None
  BY DEF InstallInit, Idle
<1> QED
  BY <1>1 DEF InstallationInv, RootType, Sound, Runs, Undoing, FailedInstallUndone,
         Over, Still, Installing, Removing, Replacing, Replaced, Undone

\* What of the command's record a step that only goes on keeps.
Keeps == /\ DOMAIN root' = DOMAIN Idle
         /\ root'.port = root.port /\ root'.before = root.before
         /\ root'.stopped = root.stopped /\ root'.previous = root.previous

LEMMA GoesOn ==
    ASSUME RootType, NEW at, Goes(at)
    PROVE  Keeps /\ root'.pc = at /\ root'.lost = root.lost
  BY DEF RootType, Goes, Idle, Keeps

LEMMA FailsOn ==
    ASSUME RootType, NEW at, NEW what, Fails(at, what)
    PROVE  Keeps /\ root'.pc = at /\ root'.lost # {}
<1>1. Keeps /\ root'.pc = at /\ root'.lost = root.lost \cup {what}
  BY DEF RootType, Fails, Idle, Keeps
<1> QED
  BY <1>1

LEMMA StartsKeep ==
    ASSUME InstallationInv, InstallFails \/ \E p \in Port : Install(p)
    PROVE  InstallationInv'
<1>1. CASE InstallFails
  <2>1. Keeps /\ root'.pc = "failed" /\ root'.lost = root.lost
    BY <1>1, GoesOn DEF InstallFails, InstallationInv
  <2> QED
    BY <1>1, <2>1 DEF Keeps, InstallFails, system, InstallationInv, RootType, Sound, Runs, Undoing,
       FailedInstallUndone, Over, Still, Installing, Removing, Replacing, Replaced, Undone
<1>2. ASSUME NEW p \in Port, Install(p) PROVE InstallationInv'
  <2>1. /\ DOMAIN root' = DOMAIN Idle /\ root'.pc = "bootout" /\ root'.stopped = None
        /\ root'.before.plist = plist /\ root'.before.rules = rules
        /\ root'.port = p /\ root'.lost = {}
    BY <1>2 DEF Install, Idle
  <2> QED
    BY <1>2, <2>1 DEF Install, system, InstallationInv, RootType, Sound, Runs, Undoing,
       FailedInstallUndone, Over, Still, Installing, Removing, Replacing, Replaced, Undone
<1> QED
  BY <1>1, <1>2

LEMMA BootoutKeeps ==
    ASSUME InstallationInv, Bootout
    PROVE  InstallationInv'
<1>1. root.pc = "bootout" /\ root.stopped = None /\ UNCHANGED <<plist, rules, broken>>
  BY DEF Bootout, InstallationInv, Undoing
<1>2. /\ DOMAIN root' = DOMAIN Idle /\ root'.pc = "write" /\ root'.before = root.before
      /\ root'.port = root.port /\ root'.lost = root.lost
      /\ job' = IF root'.stopped = None THEN job ELSE None
  <2>1. CASE Goes("write") /\ job' = job
    BY <1>1, <2>1, GoesOn DEF InstallationInv, Keeps
  <2>2. CASE job # None /\ job' = None /\ root' = [root EXCEPT !.pc = "write", !.stopped = job]
    BY <2>2 DEF InstallationInv, RootType, Idle
  <2> QED
    BY <2>1, <2>2 DEF Bootout
<1>3. Sound' /\ Runs'
  BY <1>1, <1>2 DEF InstallationInv, Sound, Runs, Over, Still, Replacing, Replaced, Undone
<1> QED
  BY <1>1, <1>2, <1>3 DEF InstallationInv, RootType, Undoing,
     FailedInstallUndone, Over, Installing, Removing, Replacing, Replaced, Undone

LEMMA WritePlistKeeps ==
    ASSUME InstallationInv, WritePlist
    PROVE  InstallationInv'
<1>1. /\ DOMAIN root' = DOMAIN Idle /\ root'.pc = "bootstrap" /\ root'.previous = plist
      /\ root'.before = root.before /\ root'.port = root.port /\ root'.stopped = root.stopped
      /\ root'.lost = root.lost
  BY DEF WritePlist, InstallationInv, RootType, Idle
<1> QED
  BY <1>1 DEF WritePlist, InstallationInv, RootType, Sound, Runs, Undoing,
         FailedInstallUndone, Over, Still, Installing, Removing, Replacing, Replaced, Undone

\* A plist that could not be written, and its rollback: what runs is started again.
LEMMA WriteFailureKeeps ==
    ASSUME InstallationInv, WritePlistFails
    PROVE  InstallationInv'
<1>1. /\ Keeps /\ root'.pc = Restarts
      /\ \/ root'.lost = root.lost /\ plist' = plist
         \/ root'.lost # {} /\ plist' = Torn
  BY GoesOn, FailsOn DEF WritePlistFails, InstallationInv
<1> QED
  BY <1>1, InstallationAssumption DEF Keeps, Restarts, WritePlistFails, InstallationInv, RootType,
     Sound, Runs, Undoing, FailedInstallUndone, Over, Still, Installing, Removing, Replacing,
     Replaced, Undone

LEMMA RollbackKeeps ==
    ASSUME InstallationInv, rollbackLaunchDaemonPlist
    PROVE  InstallationInv'
<1>1. CASE plist' = root.previous /\ Goes(Restarts) /\ UNCHANGED broken
  <2>1. Keeps /\ root'.pc = Restarts /\ root'.lost = root.lost
    BY <1>1, GoesOn DEF InstallationInv
  <2> QED
    BY <1>1, <2>1 DEF Keeps, Restarts, rollbackLaunchDaemonPlist, InstallationInv,
       RootType, Sound, Runs, Undoing, FailedInstallUndone, Over, Still, Installing, Removing,
       Replacing, Replaced, Undone
<1>2. CASE Fails(Restarts, "rollback") /\ broken' = broken \cup {"rollback"}
  <2>1. Keeps /\ root'.pc = Restarts /\ root'.lost # {}
    BY <1>2, FailsOn DEF InstallationInv
  <2>2. "rollback" \in broken'
    BY <1>2
  <2> QED
    BY <2>1, <2>2 DEF Keeps, Restarts, rollbackLaunchDaemonPlist, InstallationInv,
       RootType, Sound, Runs, Undoing, FailedInstallUndone, Over, Still, Installing, Removing,
       Replacing, Replaced, Undone
<1> QED
  BY <1>1, <1>2 DEF rollbackLaunchDaemonPlist

\* The steps of install that ask launchd for a daemon.
LEMMA BootstrapsKeep ==
    ASSUME InstallationInv, Bootstrap \/ BootstrapFails \/ Restart
    PROVE  InstallationInv'
<1>1. CASE Bootstrap
  <2>1. Keeps /\ root'.pc = "anchor" /\ root'.lost = root.lost
    BY <1>1, GoesOn DEF Bootstrap, InstallationInv
  <2> QED
    BY <1>1, <2>1 DEF Keeps, Bootstrap, InstallationInv, RootType, Sound, Runs, Undoing,
       FailedInstallUndone, Over, Still, Installing, Removing, Replacing, Replaced, Undone
<1>2. CASE BootstrapFails
  <2>1. Keeps /\ root'.pc = "rollback" /\ root'.lost = root.lost
    BY <1>2, GoesOn DEF BootstrapFails, InstallationInv
  <2> QED
    BY <1>2, <2>1 DEF Keeps, BootstrapFails, system, InstallationInv, RootType, Sound, Runs, Undoing,
       FailedInstallUndone, Over, Still, Installing, Removing, Replacing, Replaced, Undone
<1>3. CASE Restart /\ job' = plist /\ plist \in Port /\ Goes("failed") /\ UNCHANGED broken
  <2>1. Keeps /\ root'.pc = "failed" /\ root'.lost = root.lost
    BY <1>3, GoesOn DEF InstallationInv
  <2> QED
    BY <1>3, <2>1, InstallationAssumption DEF Keeps, Restart, InstallationInv, RootType, Sound,
       Runs, Undoing, FailedInstallUndone, Over, Still, Installing, Removing, Replacing, Replaced,
       Undone
<1>4. CASE Restart /\ Fails("failed", "restart") /\ broken' = broken \cup {"restart"}
  <2>1. Keeps /\ root'.pc = "failed" /\ root'.lost # {}
    BY <1>4, FailsOn DEF InstallationInv
  <2>2. "restart" \in broken'
    BY <1>4
  <2> QED
    BY <1>4, <2>1, <2>2 DEF Keeps, Restart, InstallationInv, RootType, Sound, Runs, Undoing,
       FailedInstallUndone, Over, Still, Installing, Removing, Replacing, Replaced, Undone
<1> QED
  BY <1>1, <1>2, <1>3, <1>4 DEF Restart

\* The steps of install on the anchor, and its second thoughts.
LEMMA AnchorStepsKeep ==
    ASSUME InstallationInv,
           WriteAnchor \/ LoadAnchor \/ LoadFails \/ KeepDaemon \/ UndoDaemon
    PROVE  InstallationInv'
<1>1. CASE WriteAnchor
  <2>1. /\ Keeps /\ root'.pc \in {"load", "undo"} /\ root'.lost = root.lost
        /\ root'.pc = "load" => anchorFile' = root.port
    BY <1>1, GoesOn DEF WriteAnchor, InstallationInv
  <2> QED
    BY <1>1, <2>1 DEF Keeps, WriteAnchor, InstallationInv, RootType, Sound, Runs, Undoing,
       FailedInstallUndone, Over, Still, Installing, Removing, Replacing, Replaced, Undone
<1>2. CASE LoadAnchor
  <2>1. Keeps /\ root'.pc = "installed"
    BY <1>2, GoesOn DEF LoadAnchor, InstallationInv
  <2>2. root.port # None
    BY <1>2, InstallationAssumption DEF LoadAnchor, InstallationInv, RootType, Installing
  <2> QED
    BY <1>2, <2>1, <2>2 DEF Keeps, LoadAnchor, InstallationInv, RootType, Sound, Runs, Undoing,
       FailedInstallUndone, Over, Still, Installing, Removing, Replacing, Replaced, Undone
<1>3. CASE LoadFails
  <2>1. Keeps /\ root'.pc = "undo" /\ root'.lost = root.lost
    BY <1>3, GoesOn DEF LoadFails, InstallationInv
  <2> QED
    BY <1>3, <2>1 DEF Keeps, LoadFails, system, InstallationInv, RootType, Sound, Runs, Undoing,
       FailedInstallUndone, Over, Still, Installing, Removing, Replacing, Replaced, Undone
<1>4. CASE KeepDaemon
  <2>1. Keeps /\ root'.pc = "kept"
    BY <1>4, GoesOn DEF KeepDaemon, InstallationInv
  <2>2. /\ root.port # None /\ job = root.port /\ plist = root.port /\ rules = root.before.rules
    BY <1>4, InstallationAssumption
       DEF KeepDaemon, InstallationInv, RootType, Undoing, Installing, Replaced
  <2>3. broken' = {} /\ rules # None => rules = root.port
    BY <1>4, <2>2 DEF KeepDaemon
  <2> QED
    BY <1>4, <2>1, <2>2, <2>3 DEF Keeps, KeepDaemon, system, InstallationInv, RootType, Sound, Runs,
       Undoing, FailedInstallUndone, Over, Still, Installing, Removing, Replacing, Replaced, Undone
<1>5. CASE UndoDaemon
  <2>1. Keeps /\ root'.pc = "undo bootout" /\ root'.lost = root.lost
    BY <1>5, GoesOn DEF UndoDaemon, InstallationInv
  <2> QED
    BY <1>5, <2>1 DEF Keeps, UndoDaemon, system, InstallationInv, RootType, Sound, Runs, Undoing,
       FailedInstallUndone, Over, Still, Installing, Removing, Replacing, Replaced, Undone
<1> QED
  BY <1>1, <1>2, <1>3, <1>4, <1>5

\* The steps of uninstall, and of an install's rollback.
LEMMA RemovalKeeps ==
    ASSUME InstallationInv,
           Uninstall \/ Flush \/ FlushFails \/ UninstallBootout \/ RemovePlist
    PROVE  InstallationInv'
<1>1. CASE Uninstall
  <2>1. DOMAIN root' = DOMAIN Idle /\ root'.pc = "flush" /\ root'.port = None
    BY <1>1 DEF Uninstall, Idle
  <2> QED
    BY <1>1, <2>1 DEF Uninstall, system, InstallationInv, RootType, Sound, Runs, Undoing,
       FailedInstallUndone, Over, Still, Installing, Removing, Replacing, Replaced, Undone
<1>2. CASE Flush
  <2>1. Keeps /\ root'.pc \in {"remove bootout", "failed"}
    BY <1>2, GoesOn DEF Flush, InstallationInv
  <2> QED
    BY <1>2, <2>1 DEF Keeps, Flush, InstallationInv, RootType, Sound, Runs, Undoing,
       FailedInstallUndone, Over, Still, Installing, Removing, Replacing, Replaced, Undone
<1>3. CASE FlushFails
  <2>1. Keeps /\ root'.pc = "failed"
    BY <1>3, GoesOn DEF FlushFails, InstallationInv
  <2> QED
    BY <1>3, <2>1 DEF Keeps, FlushFails, system, InstallationInv, RootType, Sound, Runs, Undoing,
       FailedInstallUndone, Over, Still, Installing, Removing, Replacing, Replaced, Undone
<1>4. CASE UninstallBootout
  <2>1. /\ Keeps /\ root'.pc = IF root.pc = "undo bootout" THEN "undo remove" ELSE "remove"
        /\ root'.lost = root.lost
    BY <1>4, GoesOn DEF UninstallBootout, InstallationInv
  <2> QED
    BY <1>4, <2>1 DEF Keeps, UninstallBootout, InstallationInv, RootType, Sound, Runs, Undoing,
       FailedInstallUndone, Over, Still, Installing, Removing, Replacing, Replaced, Undone
<1>5. CASE RemovePlist
  <2>1. /\ Keeps /\ root'.pc \in {"failed", "uninstalled"}
        /\ \/ plist' = None
           \/ root'.lost # {}
    BY <1>5, GoesOn, FailsOn DEF RemovePlist, InstallationInv
  <2> QED
    BY <1>5, <2>1 DEF Keeps, RemovePlist, InstallationInv, RootType, Sound, Runs, Undoing,
       FailedInstallUndone, Over, Still, Installing, Removing, Replacing, Replaced, Undone
<1> QED
  BY <1>1, <1>2, <1>3, <1>4, <1>5

\* A command ends, or the machine or the menu bar does something of its own.
LEMMA AroundKeeps ==
    ASSUME InstallationInv, Return \/ Pause \/ Killed \/ Reboot
    PROVE  InstallationInv'
<1>1. Idle.pc = "idle"
  BY DEF Idle
<1>2. CASE Return
  BY <1>1, <1>2 DEF Return, system, InstallationInv, RootType, Sound, Runs, Undoing,
     FailedInstallUndone, Over, Still, Installing, Removing, Replacing, Replaced, Undone
<1>3. CASE Pause \/ Reboot
  BY <1>1, <1>3 DEF Pause, Reboot, InstallationInv, RootType, Sound, Runs, Undoing,
     FailedInstallUndone, Over, Still, Installing, Removing, Replacing, Replaced, Undone
<1>4. CASE Killed
  <2>1. "killed" \in broken'
    BY <1>4 DEF Killed
  <2> QED
    BY <1>1, <1>4, <2>1 DEF Killed, InstallationInv, RootType, Sound, Runs, Undoing,
       FailedInstallUndone, Over, Still, Installing, Removing, Replacing, Replaced, Undone
<1> QED
  BY <1>2, <1>3, <1>4

LEMMA StepKeeps == InstallationInv /\ [InstallNext]_installVars => InstallationInv'
<1> SUFFICES ASSUME InstallationInv, [InstallNext]_installVars PROVE InstallationInv'
  OBVIOUS
<1>1. ASSUME UNCHANGED <<plist, job, rules, anchorFile, root, broken>>
      PROVE  InstallationInv'
  BY <1>1 DEF InstallationInv, RootType, Sound, Runs, Undoing, FailedInstallUndone
<1>2. CASE UNCHANGED installVars
  BY <1>1, <1>2 DEF installVars, system
<1>3. CASE Enable \/ LoadAgent \/ UninstallAgent \/ uninstallLaunchAgent
  BY <1>1, <1>3 DEF Enable, LoadAgent, UninstallAgent, uninstallLaunchAgent, system
<1> QED
  BY <1>2, <1>3, StartsKeep, BootoutKeeps, WritePlistKeeps, WriteFailureKeeps, RollbackKeeps,
     BootstrapsKeep, AnchorStepsKeep, RemovalKeeps, AroundKeeps DEF InstallNext

-----------------------------------------------------------------------------
(* What is redirected goes to the daemon's port after every sequence of    *)
(* commands, steps that fail, pauses and restarts of the machine in which, *)
(* since the last install that succeeded, none was killed, no rollback and *)
(* no restart of the old daemon failed and no daemon was kept under rules  *)
(* of another port (installProtection, Uninstall); with the last of these, *)
(* a daemon still runs.                                                    *)
THEOREM RedirectsProved == InstallSpec => []RedirectsReachTheDaemon
<1>1. InstallationInv => RedirectsReachTheDaemon
  BY DEF InstallationInv, Sound, Runs, RedirectsReachTheDaemon, Over, Still
<1> QED
  BY <1>1, InitInv, StepKeeps, PTL DEF InstallSpec

(* An install that fails has left the rules alone; if no write tore the    *)
(* plist and no undoing failed, the plist is what it was and what was      *)
(* stopped runs; and a failure at pf over a daemon leaves the new one      *)
(* (rollbackLaunchDaemonPlist, installProtection).                         *)
THEOREM UndoneProved == InstallSpec => []FailedInstallUndone
<1>1. InstallationInv => FailedInstallUndone
  BY DEF InstallationInv
<1> QED
  BY <1>1, InitInv, StepKeeps, PTL DEF InstallSpec

-----------------------------------------------------------------------------
(* The bridge server.                                                      *)


Running(c) == h[c] \notin {"none", "ended"}

\* A connection has a handler only once it was accepted; while it is open the shutdown can
\* find it, but for the moment between Accept and its entry in the table.
Tracked ==
    /\ serve \in {"register", "spawn"} => sock[cur] \in {"open", "closed"}
    /\ \A c \in Conn :
        /\ sock[c] \in {"none", "backlog"} => h[c] = "none"
        /\ sock[c] = "open" => c \in active \/ (serve = "register" /\ cur = c)

\* The WaitGroup counts the handlers that run, and no connection is accepted twice.
Counted ==
    /\ handlers = {c \in Conn : Running(c)}
    /\ serve \in {"register", "spawn"} => h[cur] = "none"

\* From the drain on no connection is open, and none will be.
NoneOpen == \A c \in Conn : sock[c] # "open"

Stopped ==
    /\ ret # "none" <=> serve = "returned"
    /\ serve = "drain" => NoneOpen
    /\ ret \in {"nil", "drain_timeout"} => NoneOpen
    /\ ret = "nil" => handlers = {}

\* A handler owes the response to the last frame it has read, and no other; and it holds
\* no allow that the log has not.
Paired ==
    \A c \in Conn :
        /\ h[c] = "none" => got[c] = <<>> /\ seen[c] = 0
        /\ h[c] = "reading" => seen[c] = Len(got[c])
        /\ h[c] \in {"judge", "log", "reply"} => seen[c] = Len(got[c]) + 1
        /\ h[c] = "reply" /\ verdictFor(dec[c]) = "allow" => seen[c] \in logged[c]

BridgeInv == TypeOK /\ Tracked /\ Counted /\ Stopped /\ Paired /\ AnswersAreLogged
-----------------------------------------------------------------------------
(* Each part of the invariant, one step per action. *)

\* Every variable keeps its type.
LEMMA TypeStep ==
    ASSUME TypeOK, [Next]_vars
    PROVE  TypeOK'
<1>. USE DEF TypeOK, Response, verdictFor, Decision
<1>1. ASSUME NEW c \in Conn, Connect(c) PROVE TypeOK'
    BY <1>1 DEF Connect, vars, server, tables, peer, handler, outputs
<1>2. ASSUME NEW c \in Conn, NEW f \in Frame, Send(c, f) PROVE TypeOK'
    BY <1>2, BridgeAssumption DEF Send, vars, server, tables, peer, handler, outputs
<1>3. ASSUME NEW c \in Conn, Hangup(c) PROVE TypeOK'
    BY <1>3 DEF Hangup, vars, server, tables, peer, handler, outputs
<1>4. ASSUME NEW c \in Conn, DecodeRequest(c) PROVE TypeOK'
    BY <1>4 DEF DecodeRequest, Read, Go, vars, server, tables, peer, handler, outputs
<1>5. ASSUME NEW c \in Conn, DecodeFails(c) PROVE TypeOK'
    BY <1>5 DEF DecodeFails, Unreadable, Read, Go, vars, server, tables, peer, handler, outputs
<1>6. ASSUME NEW c \in Conn, ReadTimesOut(c) PROVE TypeOK'
    BY <1>6 DEF ReadTimesOut, Unreadable, Read, Go, vars, server, tables, peer, handler, outputs
<1>7. ASSUME NEW c \in Conn, EndOfStream(c) PROVE TypeOK'
    BY <1>7 DEF EndOfStream, Go, vars, server, tables, peer, handler, outputs
<1>8. ASSUME NEW c \in Conn, ReadOnClosed(c) PROVE TypeOK'
    BY <1>8 DEF ReadOnClosed, Go, vars, server, tables, peer, handler, outputs
<1>9. ASSUME NEW c \in Conn, CannotJudge(c) PROVE TypeOK'
    BY <1>9 DEF CannotJudge, Go, vars, server, tables, peer, handler, outputs
<1>10. ASSUME NEW c \in Conn, Decide(c) PROVE TypeOK'
    BY <1>10 DEF Decide, Go, vars, server, tables, peer, handler, outputs
<1>11. ASSUME NEW c \in Conn, LogDecision(c) PROVE TypeOK'
    BY <1>11 DEF LogDecision, Go, vars, server, tables, peer, handler, outputs
<1>12. ASSUME NEW c \in Conn, LogFails(c) PROVE TypeOK'
    BY <1>12 DEF LogFails, Go, vars, server, tables, peer, handler, outputs
<1>13. ASSUME NEW c \in Conn, Reply(c) PROVE TypeOK'
    BY <1>13 DEF Reply, Go, vars, server, tables, peer, handler, outputs
<1>14. ASSUME NEW c \in Conn, ReplyFails(c) PROVE TypeOK'
    BY <1>14 DEF ReplyFails, Go, vars, server, tables, peer, handler, outputs
<1>15. ASSUME NEW c \in Conn, Leave(c) PROVE TypeOK'
    BY <1>15 DEF Leave, Go, vars, server, tables, peer, handler, outputs
<1>16. ASSUME NEW c \in Conn, Accept(c) PROVE TypeOK'
    BY <1>16 DEF Accept, vars, server, tables, peer, handler, outputs
<1>17. CASE CloseListener
    BY <1>17 DEF CloseListener, Reset, vars, server, tables, peer, handler, outputs
<1>18. CASE CloseActive
    BY <1>18 DEF CloseActive, Shut, vars, server, tables, peer, handler, outputs
<1>19. CASE StopWatching
    BY <1>19 DEF StopWatching, vars, server, tables, peer, handler, outputs
<1>20. CASE Cancel
    BY <1>20 DEF Cancel, vars, server, tables, peer, handler, outputs
<1>21. CASE Register
    BY <1>21 DEF Register, vars, server, tables, peer, handler, outputs
<1>22. CASE Spawn
    BY <1>22 DEF Spawn, vars, server, tables, peer, handler, outputs
<1>23. CASE AcceptFails
    BY <1>23 DEF AcceptFails, vars, server, tables, peer, handler, outputs
<1>24. CASE Drain
    BY <1>24 DEF Drain, Shut, vars, server, tables, peer, handler, outputs
<1>25. CASE Drained
    BY <1>25 DEF Drained, vars, server, tables, peer, handler, outputs
<1>26. CASE DrainTimesOut
    BY <1>26 DEF DrainTimesOut, vars, server, tables, peer, handler, outputs
<1>27. CASE UNCHANGED vars
    BY <1>27 DEF vars, server, tables, peer, handler, outputs
<1>. QED
    BY <1>1, <1>2, <1>3, <1>4, <1>5, <1>6, <1>7, <1>8, <1>9, <1>10, <1>11, <1>12, <1>13, <1>14,
       <1>15, <1>16, <1>17, <1>18, <1>19, <1>20, <1>21, <1>22, <1>23, <1>24, <1>25, <1>26, <1>27
    DEF Next, Handle, Serving

\* Closing the listener and the table leaves out no open connection.
LEMMA TrackedStep ==
    ASSUME TypeOK, Tracked, [Next]_vars
    PROVE  Tracked'
<1>. USE DEF TypeOK, Tracked
<1>1. ASSUME NEW c \in Conn, Connect(c) PROVE Tracked'
    BY <1>1 DEF Connect, vars, server, tables, peer, handler, outputs
<1>2. ASSUME NEW c \in Conn, NEW f \in Frame, Send(c, f) PROVE Tracked'
    BY <1>2 DEF Send, vars, server, tables, peer, handler, outputs
<1>3. ASSUME NEW c \in Conn, Hangup(c) PROVE Tracked'
    BY <1>3 DEF Hangup, vars, server, tables, peer, handler, outputs
<1>4. ASSUME NEW c \in Conn, DecodeRequest(c) PROVE Tracked'
    BY <1>4 DEF DecodeRequest, Read, Go, vars, server, tables, peer, handler, outputs
<1>5. ASSUME NEW c \in Conn, DecodeFails(c) PROVE Tracked'
    BY <1>5 DEF DecodeFails, Unreadable, Read, Go, vars, server, tables, peer, handler, outputs
<1>6. ASSUME NEW c \in Conn, ReadTimesOut(c) PROVE Tracked'
    BY <1>6 DEF ReadTimesOut, Unreadable, Read, Go, vars, server, tables, peer, handler, outputs
<1>7. ASSUME NEW c \in Conn, EndOfStream(c) PROVE Tracked'
    BY <1>7 DEF EndOfStream, Go, vars, server, tables, peer, handler, outputs
<1>8. ASSUME NEW c \in Conn, ReadOnClosed(c) PROVE Tracked'
    BY <1>8 DEF ReadOnClosed, Go, vars, server, tables, peer, handler, outputs
<1>9. ASSUME NEW c \in Conn, CannotJudge(c) PROVE Tracked'
    BY <1>9 DEF CannotJudge, Go, vars, server, tables, peer, handler, outputs
<1>10. ASSUME NEW c \in Conn, Decide(c) PROVE Tracked'
    BY <1>10 DEF Decide, Go, vars, server, tables, peer, handler, outputs
<1>11. ASSUME NEW c \in Conn, LogDecision(c) PROVE Tracked'
    BY <1>11 DEF LogDecision, Go, vars, server, tables, peer, handler, outputs
<1>12. ASSUME NEW c \in Conn, LogFails(c) PROVE Tracked'
    BY <1>12 DEF LogFails, Go, vars, server, tables, peer, handler, outputs
<1>13. ASSUME NEW c \in Conn, Reply(c) PROVE Tracked'
    BY <1>13 DEF Reply, Go, vars, server, tables, peer, handler, outputs
<1>14. ASSUME NEW c \in Conn, ReplyFails(c) PROVE Tracked'
    BY <1>14 DEF ReplyFails, Go, vars, server, tables, peer, handler, outputs
<1>15. ASSUME NEW c \in Conn, Leave(c) PROVE Tracked'
    BY <1>15 DEF Leave, Go, vars, server, tables, peer, handler, outputs
<1>16. ASSUME NEW c \in Conn, Accept(c) PROVE Tracked'
    BY <1>16 DEF Accept, vars, server, tables, peer, handler, outputs
<1>17. CASE CloseListener
    BY <1>17 DEF CloseListener, Reset, vars, server, tables, peer, handler, outputs
<1>18. CASE CloseActive
    BY <1>18 DEF CloseActive, Shut, vars, server, tables, peer, handler, outputs
<1>19. CASE StopWatching
    BY <1>19 DEF StopWatching, vars, server, tables, peer, handler, outputs
<1>20. CASE Cancel
    BY <1>20 DEF Cancel, vars, server, tables, peer, handler, outputs
<1>21. CASE Register
    BY <1>21 DEF Register, vars, server, tables, peer, handler, outputs
<1>22. CASE Spawn
    BY <1>22 DEF Spawn, vars, server, tables, peer, handler, outputs
<1>23. CASE AcceptFails
    BY <1>23 DEF AcceptFails, vars, server, tables, peer, handler, outputs
<1>24. CASE Drain
    BY <1>24 DEF Drain, Shut, vars, server, tables, peer, handler, outputs
<1>25. CASE Drained
    BY <1>25 DEF Drained, vars, server, tables, peer, handler, outputs
<1>26. CASE DrainTimesOut
    BY <1>26 DEF DrainTimesOut, vars, server, tables, peer, handler, outputs
<1>27. CASE UNCHANGED vars
    BY <1>27 DEF vars, server, tables, peer, handler, outputs
<1>. QED
    BY <1>1, <1>2, <1>3, <1>4, <1>5, <1>6, <1>7, <1>8, <1>9, <1>10, <1>11, <1>12, <1>13, <1>14,
       <1>15, <1>16, <1>17, <1>18, <1>19, <1>20, <1>21, <1>22, <1>23, <1>24, <1>25, <1>26, <1>27
    DEF Next, Handle, Serving

\* handlers.Add comes before the handler runs, Done with its end.
LEMMA CountedStep ==
    ASSUME TypeOK, Tracked, Counted, [Next]_vars
    PROVE  Counted'
<1>. USE DEF TypeOK, Tracked, Counted, Running
<1>1. ASSUME NEW c \in Conn, Connect(c) PROVE Counted'
    BY <1>1 DEF Connect, vars, server, tables, peer, handler, outputs
<1>2. ASSUME NEW c \in Conn, NEW f \in Frame, Send(c, f) PROVE Counted'
    BY <1>2 DEF Send, vars, server, tables, peer, handler, outputs
<1>3. ASSUME NEW c \in Conn, Hangup(c) PROVE Counted'
    BY <1>3 DEF Hangup, vars, server, tables, peer, handler, outputs
<1>4. ASSUME NEW c \in Conn, DecodeRequest(c) PROVE Counted'
    BY <1>4 DEF DecodeRequest, Read, Go, vars, server, tables, peer, handler, outputs
<1>5. ASSUME NEW c \in Conn, DecodeFails(c) PROVE Counted'
    BY <1>5 DEF DecodeFails, Unreadable, Read, Go, vars, server, tables, peer, handler, outputs
<1>6. ASSUME NEW c \in Conn, ReadTimesOut(c) PROVE Counted'
    BY <1>6 DEF ReadTimesOut, Unreadable, Read, Go, vars, server, tables, peer, handler, outputs
<1>7. ASSUME NEW c \in Conn, EndOfStream(c) PROVE Counted'
    BY <1>7 DEF EndOfStream, Go, vars, server, tables, peer, handler, outputs
<1>8. ASSUME NEW c \in Conn, ReadOnClosed(c) PROVE Counted'
    BY <1>8 DEF ReadOnClosed, Go, vars, server, tables, peer, handler, outputs
<1>9. ASSUME NEW c \in Conn, CannotJudge(c) PROVE Counted'
    BY <1>9 DEF CannotJudge, Go, vars, server, tables, peer, handler, outputs
<1>10. ASSUME NEW c \in Conn, Decide(c) PROVE Counted'
    BY <1>10 DEF Decide, Go, vars, server, tables, peer, handler, outputs
<1>11. ASSUME NEW c \in Conn, LogDecision(c) PROVE Counted'
    BY <1>11 DEF LogDecision, Go, vars, server, tables, peer, handler, outputs
<1>12. ASSUME NEW c \in Conn, LogFails(c) PROVE Counted'
    BY <1>12 DEF LogFails, Go, vars, server, tables, peer, handler, outputs
<1>13. ASSUME NEW c \in Conn, Reply(c) PROVE Counted'
    BY <1>13 DEF Reply, Go, vars, server, tables, peer, handler, outputs
<1>14. ASSUME NEW c \in Conn, ReplyFails(c) PROVE Counted'
    BY <1>14 DEF ReplyFails, Go, vars, server, tables, peer, handler, outputs
<1>15. ASSUME NEW c \in Conn, Leave(c) PROVE Counted'
    BY <1>15 DEF Leave, Go, vars, server, tables, peer, handler, outputs
<1>16. ASSUME NEW c \in Conn, Accept(c) PROVE Counted'
    BY <1>16 DEF Accept, vars, server, tables, peer, handler, outputs
<1>17. CASE CloseListener
    BY <1>17 DEF CloseListener, Reset, vars, server, tables, peer, handler, outputs
<1>18. CASE CloseActive
    BY <1>18 DEF CloseActive, Shut, vars, server, tables, peer, handler, outputs
<1>19. CASE StopWatching
    BY <1>19 DEF StopWatching, vars, server, tables, peer, handler, outputs
<1>20. CASE Cancel
    BY <1>20 DEF Cancel, vars, server, tables, peer, handler, outputs
<1>21. CASE Register
    BY <1>21 DEF Register, vars, server, tables, peer, handler, outputs
<1>22. CASE Spawn
    BY <1>22 DEF Spawn, vars, server, tables, peer, handler, outputs
<1>23. CASE AcceptFails
    BY <1>23 DEF AcceptFails, vars, server, tables, peer, handler, outputs
<1>24. CASE Drain
    BY <1>24 DEF Drain, Shut, vars, server, tables, peer, handler, outputs
<1>25. CASE Drained
    BY <1>25 DEF Drained, vars, server, tables, peer, handler, outputs
<1>26. CASE DrainTimesOut
    BY <1>26 DEF DrainTimesOut, vars, server, tables, peer, handler, outputs
<1>27. CASE UNCHANGED vars
    BY <1>27 DEF vars, server, tables, peer, handler, outputs
<1>. QED
    BY <1>1, <1>2, <1>3, <1>4, <1>5, <1>6, <1>7, <1>8, <1>9, <1>10, <1>11, <1>12, <1>13, <1>14,
       <1>15, <1>16, <1>17, <1>18, <1>19, <1>20, <1>21, <1>22, <1>23, <1>24, <1>25, <1>26, <1>27
    DEF Next, Handle, Serving

\* What Drain closes stays closed, and Serve returns nil only with no handler counted.
LEMMA StoppedStep ==
    ASSUME TypeOK, Tracked, Counted, Stopped, [Next]_vars
    PROVE  Stopped'
<1>. USE DEF TypeOK, Tracked, Counted, Stopped, NoneOpen
<1>1. ASSUME NEW c \in Conn, Connect(c) PROVE Stopped'
    BY <1>1 DEF Connect, vars, server, tables, peer, handler, outputs
<1>2. ASSUME NEW c \in Conn, NEW f \in Frame, Send(c, f) PROVE Stopped'
    BY <1>2 DEF Send, vars, server, tables, peer, handler, outputs
<1>3. ASSUME NEW c \in Conn, Hangup(c) PROVE Stopped'
    BY <1>3 DEF Hangup, vars, server, tables, peer, handler, outputs
<1>4. ASSUME NEW c \in Conn, DecodeRequest(c) PROVE Stopped'
    BY <1>4 DEF DecodeRequest, Read, Go, vars, server, tables, peer, handler, outputs
<1>5. ASSUME NEW c \in Conn, DecodeFails(c) PROVE Stopped'
    BY <1>5 DEF DecodeFails, Unreadable, Read, Go, vars, server, tables, peer, handler, outputs
<1>6. ASSUME NEW c \in Conn, ReadTimesOut(c) PROVE Stopped'
    BY <1>6 DEF ReadTimesOut, Unreadable, Read, Go, vars, server, tables, peer, handler, outputs
<1>7. ASSUME NEW c \in Conn, EndOfStream(c) PROVE Stopped'
    BY <1>7 DEF EndOfStream, Go, vars, server, tables, peer, handler, outputs
<1>8. ASSUME NEW c \in Conn, ReadOnClosed(c) PROVE Stopped'
    BY <1>8 DEF ReadOnClosed, Go, vars, server, tables, peer, handler, outputs
<1>9. ASSUME NEW c \in Conn, CannotJudge(c) PROVE Stopped'
    BY <1>9 DEF CannotJudge, Go, vars, server, tables, peer, handler, outputs
<1>10. ASSUME NEW c \in Conn, Decide(c) PROVE Stopped'
    BY <1>10 DEF Decide, Go, vars, server, tables, peer, handler, outputs
<1>11. ASSUME NEW c \in Conn, LogDecision(c) PROVE Stopped'
    BY <1>11 DEF LogDecision, Go, vars, server, tables, peer, handler, outputs
<1>12. ASSUME NEW c \in Conn, LogFails(c) PROVE Stopped'
    BY <1>12 DEF LogFails, Go, vars, server, tables, peer, handler, outputs
<1>13. ASSUME NEW c \in Conn, Reply(c) PROVE Stopped'
    BY <1>13 DEF Reply, Go, vars, server, tables, peer, handler, outputs
<1>14. ASSUME NEW c \in Conn, ReplyFails(c) PROVE Stopped'
    BY <1>14 DEF ReplyFails, Go, vars, server, tables, peer, handler, outputs
<1>15. ASSUME NEW c \in Conn, Leave(c) PROVE Stopped'
    BY <1>15 DEF Leave, Go, vars, server, tables, peer, handler, outputs
<1>16. ASSUME NEW c \in Conn, Accept(c) PROVE Stopped'
    BY <1>16 DEF Accept, vars, server, tables, peer, handler, outputs
<1>17. CASE CloseListener
    BY <1>17 DEF CloseListener, Reset, vars, server, tables, peer, handler, outputs
<1>18. CASE CloseActive
    BY <1>18 DEF CloseActive, Shut, vars, server, tables, peer, handler, outputs
<1>19. CASE StopWatching
    BY <1>19 DEF StopWatching, vars, server, tables, peer, handler, outputs
<1>20. CASE Cancel
    BY <1>20 DEF Cancel, vars, server, tables, peer, handler, outputs
<1>21. CASE Register
    BY <1>21 DEF Register, vars, server, tables, peer, handler, outputs
<1>22. CASE Spawn
    BY <1>22 DEF Spawn, vars, server, tables, peer, handler, outputs
<1>23. CASE AcceptFails
    BY <1>23 DEF AcceptFails, vars, server, tables, peer, handler, outputs
<1>24. CASE Drain
    BY <1>24 DEF Drain, Shut, vars, server, tables, peer, handler, outputs
<1>25. CASE Drained
    BY <1>25 DEF Drained, vars, server, tables, peer, handler, outputs
<1>26. CASE DrainTimesOut
    BY <1>26 DEF DrainTimesOut, vars, server, tables, peer, handler, outputs
<1>27. CASE UNCHANGED vars
    BY <1>27 DEF vars, server, tables, peer, handler, outputs
<1>. QED
    BY <1>1, <1>2, <1>3, <1>4, <1>5, <1>6, <1>7, <1>8, <1>9, <1>10, <1>11, <1>12, <1>13, <1>14,
       <1>15, <1>16, <1>17, <1>18, <1>19, <1>20, <1>21, <1>22, <1>23, <1>24, <1>25, <1>26, <1>27
    DEF Next, Handle, Serving

\* A frame is read only when the response to the one before it was sent.
LEMMA PairedStep ==
    ASSUME TypeOK, Counted, Paired, [Next]_vars
    PROVE  Paired'
<1>. USE DEF TypeOK, Counted, Paired, Decision, verdictFor, logEntryForDecision
<1>1. ASSUME NEW c \in Conn, Connect(c) PROVE Paired'
    BY <1>1 DEF Connect, vars, server, tables, peer, handler, outputs
<1>2. ASSUME NEW c \in Conn, NEW f \in Frame, Send(c, f) PROVE Paired'
    BY <1>2 DEF Send, vars, server, tables, peer, handler, outputs
<1>3. ASSUME NEW c \in Conn, Hangup(c) PROVE Paired'
    BY <1>3 DEF Hangup, vars, server, tables, peer, handler, outputs
<1>4. ASSUME NEW c \in Conn, DecodeRequest(c) PROVE Paired'
    BY <1>4 DEF DecodeRequest, Read, Go, vars, server, tables, peer, handler, outputs
<1>5. ASSUME NEW c \in Conn, DecodeFails(c) PROVE Paired'
    BY <1>5 DEF DecodeFails, Unreadable, Read, Go, vars, server, tables, peer, handler, outputs
<1>6. ASSUME NEW c \in Conn, ReadTimesOut(c) PROVE Paired'
    BY <1>6 DEF ReadTimesOut, Unreadable, Read, Go, vars, server, tables, peer, handler, outputs
<1>7. ASSUME NEW c \in Conn, EndOfStream(c) PROVE Paired'
    BY <1>7 DEF EndOfStream, Go, vars, server, tables, peer, handler, outputs
<1>8. ASSUME NEW c \in Conn, ReadOnClosed(c) PROVE Paired'
    BY <1>8 DEF ReadOnClosed, Go, vars, server, tables, peer, handler, outputs
<1>9. ASSUME NEW c \in Conn, CannotJudge(c) PROVE Paired'
    BY <1>9 DEF CannotJudge, Go, vars, server, tables, peer, handler, outputs
<1>10. ASSUME NEW c \in Conn, Decide(c) PROVE Paired'
    BY <1>10 DEF Decide, Go, vars, server, tables, peer, handler, outputs
<1>11. ASSUME NEW c \in Conn, LogDecision(c) PROVE Paired'
    BY <1>11 DEF LogDecision, Go, vars, server, tables, peer, handler, outputs
<1>12. ASSUME NEW c \in Conn, LogFails(c) PROVE Paired'
    BY <1>12 DEF LogFails, Go, vars, server, tables, peer, handler, outputs
<1>13. ASSUME NEW c \in Conn, Reply(c) PROVE Paired'
    BY <1>13 DEF Reply, Go, vars, server, tables, peer, handler, outputs
<1>14. ASSUME NEW c \in Conn, ReplyFails(c) PROVE Paired'
    BY <1>14 DEF ReplyFails, Go, vars, server, tables, peer, handler, outputs
<1>15. ASSUME NEW c \in Conn, Leave(c) PROVE Paired'
    BY <1>15 DEF Leave, Go, vars, server, tables, peer, handler, outputs
<1>16. ASSUME NEW c \in Conn, Accept(c) PROVE Paired'
    BY <1>16 DEF Accept, vars, server, tables, peer, handler, outputs
<1>17. CASE CloseListener
    BY <1>17 DEF CloseListener, Reset, vars, server, tables, peer, handler, outputs
<1>18. CASE CloseActive
    BY <1>18 DEF CloseActive, Shut, vars, server, tables, peer, handler, outputs
<1>19. CASE StopWatching
    BY <1>19 DEF StopWatching, vars, server, tables, peer, handler, outputs
<1>20. CASE Cancel
    BY <1>20 DEF Cancel, vars, server, tables, peer, handler, outputs
<1>21. CASE Register
    BY <1>21 DEF Register, vars, server, tables, peer, handler, outputs
<1>22. CASE Spawn
    BY <1>22 DEF Spawn, vars, server, tables, peer, handler, outputs
<1>23. CASE AcceptFails
    BY <1>23 DEF AcceptFails, vars, server, tables, peer, handler, outputs
<1>24. CASE Drain
    BY <1>24 DEF Drain, Shut, vars, server, tables, peer, handler, outputs
<1>25. CASE Drained
    BY <1>25 DEF Drained, vars, server, tables, peer, handler, outputs
<1>26. CASE DrainTimesOut
    BY <1>26 DEF DrainTimesOut, vars, server, tables, peer, handler, outputs
<1>27. CASE UNCHANGED vars
    BY <1>27 DEF vars, server, tables, peer, handler, outputs
<1>. QED
    BY <1>1, <1>2, <1>3, <1>4, <1>5, <1>6, <1>7, <1>8, <1>9, <1>10, <1>11, <1>12, <1>13, <1>14,
       <1>15, <1>16, <1>17, <1>18, <1>19, <1>20, <1>21, <1>22, <1>23, <1>24, <1>25, <1>26, <1>27
    DEF Next, Handle, Serving

\* A response is about the frame read last, and an allow has been logged by then.
LEMMA AnswersStep ==
    ASSUME TypeOK, Paired, AnswersAreLogged, [Next]_vars
    PROVE  AnswersAreLogged'
<1>. USE DEF TypeOK, Paired, AnswersAreLogged
<1>1. ASSUME NEW c \in Conn, Connect(c) PROVE AnswersAreLogged'
    BY <1>1 DEF Connect, vars, server, tables, peer, handler, outputs
<1>2. ASSUME NEW c \in Conn, NEW f \in Frame, Send(c, f) PROVE AnswersAreLogged'
    BY <1>2 DEF Send, vars, server, tables, peer, handler, outputs
<1>3. ASSUME NEW c \in Conn, Hangup(c) PROVE AnswersAreLogged'
    BY <1>3 DEF Hangup, vars, server, tables, peer, handler, outputs
<1>4. ASSUME NEW c \in Conn, DecodeRequest(c) PROVE AnswersAreLogged'
    BY <1>4 DEF DecodeRequest, Read, Go, vars, server, tables, peer, handler, outputs
<1>5. ASSUME NEW c \in Conn, DecodeFails(c) PROVE AnswersAreLogged'
    BY <1>5 DEF DecodeFails, Unreadable, Read, Go, vars, server, tables, peer, handler, outputs
<1>6. ASSUME NEW c \in Conn, ReadTimesOut(c) PROVE AnswersAreLogged'
    BY <1>6 DEF ReadTimesOut, Unreadable, Read, Go, vars, server, tables, peer, handler, outputs
<1>7. ASSUME NEW c \in Conn, EndOfStream(c) PROVE AnswersAreLogged'
    BY <1>7 DEF EndOfStream, Go, vars, server, tables, peer, handler, outputs
<1>8. ASSUME NEW c \in Conn, ReadOnClosed(c) PROVE AnswersAreLogged'
    BY <1>8 DEF ReadOnClosed, Go, vars, server, tables, peer, handler, outputs
<1>9. ASSUME NEW c \in Conn, CannotJudge(c) PROVE AnswersAreLogged'
    BY <1>9 DEF CannotJudge, Go, vars, server, tables, peer, handler, outputs
<1>10. ASSUME NEW c \in Conn, Decide(c) PROVE AnswersAreLogged'
    BY <1>10 DEF Decide, Go, vars, server, tables, peer, handler, outputs
<1>11. ASSUME NEW c \in Conn, LogDecision(c) PROVE AnswersAreLogged'
    BY <1>11 DEF LogDecision, Go, vars, server, tables, peer, handler, outputs
<1>12. ASSUME NEW c \in Conn, LogFails(c) PROVE AnswersAreLogged'
    BY <1>12 DEF LogFails, Go, vars, server, tables, peer, handler, outputs
<1>13. ASSUME NEW c \in Conn, Reply(c) PROVE AnswersAreLogged'
    BY <1>13 DEF Reply, Go, vars, server, tables, peer, handler, outputs
<1>14. ASSUME NEW c \in Conn, ReplyFails(c) PROVE AnswersAreLogged'
    BY <1>14 DEF ReplyFails, Go, vars, server, tables, peer, handler, outputs
<1>15. ASSUME NEW c \in Conn, Leave(c) PROVE AnswersAreLogged'
    BY <1>15 DEF Leave, Go, vars, server, tables, peer, handler, outputs
<1>16. ASSUME NEW c \in Conn, Accept(c) PROVE AnswersAreLogged'
    BY <1>16 DEF Accept, vars, server, tables, peer, handler, outputs
<1>17. CASE CloseListener
    BY <1>17 DEF CloseListener, Reset, vars, server, tables, peer, handler, outputs
<1>18. CASE CloseActive
    BY <1>18 DEF CloseActive, Shut, vars, server, tables, peer, handler, outputs
<1>19. CASE StopWatching
    BY <1>19 DEF StopWatching, vars, server, tables, peer, handler, outputs
<1>20. CASE Cancel
    BY <1>20 DEF Cancel, vars, server, tables, peer, handler, outputs
<1>21. CASE Register
    BY <1>21 DEF Register, vars, server, tables, peer, handler, outputs
<1>22. CASE Spawn
    BY <1>22 DEF Spawn, vars, server, tables, peer, handler, outputs
<1>23. CASE AcceptFails
    BY <1>23 DEF AcceptFails, vars, server, tables, peer, handler, outputs
<1>24. CASE Drain
    BY <1>24 DEF Drain, Shut, vars, server, tables, peer, handler, outputs
<1>25. CASE Drained
    BY <1>25 DEF Drained, vars, server, tables, peer, handler, outputs
<1>26. CASE DrainTimesOut
    BY <1>26 DEF DrainTimesOut, vars, server, tables, peer, handler, outputs
<1>27. CASE UNCHANGED vars
    BY <1>27 DEF vars, server, tables, peer, handler, outputs
<1>. QED
    BY <1>1, <1>2, <1>3, <1>4, <1>5, <1>6, <1>7, <1>8, <1>9, <1>10, <1>11, <1>12, <1>13, <1>14,
       <1>15, <1>16, <1>17, <1>18, <1>19, <1>20, <1>21, <1>22, <1>23, <1>24, <1>25, <1>26, <1>27
    DEF Next, Handle, Serving

-----------------------------------------------------------------------------
(* The theorems. *)

\* The invariant, from which the properties follow.
THEOREM Invariance == Spec => []BridgeInv
<1>1. Init => BridgeInv
  <2>. SUFFICES ASSUME Init PROVE BridgeInv
      OBVIOUS
  <2>. USE DEF Init
  <2>1. TypeOK
    <3>1. <<>> \in Seq(Frame) /\ <<>> \in Seq(Response)
        OBVIOUS
    <3>2. 0 \in Nat /\ 0 \in 0..MaxRequests
        BY BridgeAssumption
    <3>. QED BY <3>1, <3>2 DEF TypeOK, Decision
  <2>2. Tracked /\ Counted /\ Stopped
      BY DEF Tracked, Counted, Running, Stopped
  <2>3. Paired /\ AnswersAreLogged
      BY DEF Paired, AnswersAreLogged
  <2>. QED BY <2>1, <2>2, <2>3 DEF BridgeInv
<1>2. BridgeInv /\ [Next]_vars => BridgeInv'
  <2>. SUFFICES ASSUME BridgeInv, [Next]_vars PROVE BridgeInv'
      OBVIOUS
  <2>. USE DEF BridgeInv
  <2>1. TypeOK'
      BY TypeStep
  <2>2. Tracked'
      BY TrackedStep
  <2>3. Counted'
      BY CountedStep
  <2>4. Stopped'
      BY StoppedStep
  <2>5. Paired'
      BY PairedStep
  <2>6. AnswersAreLogged'
      BY AnswersStep
  <2>. QED BY <2>1, <2>2, <2>3, <2>4, <2>5, <2>6
<1>. QED BY <1>1, <1>2, PTL DEF Spec

\* Every variable keeps its type.
THEOREM TypeCorrectness == Spec => []TypeOK
BY Invariance, PTL DEF BridgeInv

\* The i-th response answers the i-th frame, and an allow is in the log before the peer
\* has it (handleConn, drop).
THEOREM AnswersMatchLog == Spec => []AnswersAreLogged
BY Invariance, PTL DEF BridgeInv

\* Serve that returns nil leaves no open connection and no handler (waitForHandlers).
THEOREM ReturnIsClean == Spec => []CleanReturn
<1>1. BridgeInv => CleanReturn
    BY DEF BridgeInv, TypeOK, Counted, Running, Stopped, NoneOpen, CleanReturn
<1>. QED BY Invariance, <1>1, PTL

\* After a cancelled Serve has returned no response goes out (closeActive).
THEOREM ReturnIsSilent == Spec => SilentAfterReturn
<1>1. ASSUME BridgeInv, [Next]_vars, got' # got
      PROVE  ret \notin {"nil", "drain_timeout"}
  <2>1. PICK c \in Conn : Reply(c)
      BY <1>1
      DEF Next, Handle, Serving, Connect, Hangup, Send, DecodeRequest, DecodeFails,
          ReadTimesOut, EndOfStream, ReadOnClosed, CannotJudge, Decide, LogDecision,
          LogFails, ReplyFails, Leave, Accept, CloseListener, CloseActive, StopWatching,
          Register, Spawn, Drain, Drained, DrainTimesOut, Cancel, AcceptFails,
          vars, outputs
  <2>. QED BY <1>1, <2>1 DEF Reply, BridgeInv, Stopped, NoneOpen
<1>2. BridgeInv /\ [Next]_vars => [got' # got => ret \notin {"nil", "drain_timeout"}]_vars
    BY <1>1
<1>. QED BY Invariance, <1>2, PTL DEF Spec, SilentAfterReturn

-----------------------------------------------------------------------------
(* The follower of the log.                                                *)

Spot  == File \X Nat
Event == {"write", "rename", "create"}

FollowerType ==
    /\ files \in Nat /\ files =< MaxFiles
    /\ current # NoFile => current \in File /\ current =< files
    /\ len \in [File -> Nat] /\ \A f \in File : f > files => len[f] = 0
    /\ fp # NoFile => fp \in [file : File, off : Nat] /\ fp.off =< len[fp.file]
    /\ events \in Seq(Event)
    /\ printed \subseteq Spot /\ old \subseteq Spot

Passed == printed \cup skipped

\* What is before the place of the open file has been printed or passed over.
PlaceInv ==
    /\ fp # NoFile => \A i \in 1..fp.off : <<fp.file, i>> \in Passed
    /\ \A l \in printed : \A i \in 1..l[2] : <<l[1], i>> \in Passed
    /\ pc \in {"looked", "watching"} => printed = {}

\* The log still is a file that was there when Follow was called.
Echo == current # NoFile /\ \E l \in old : l[1] = current

\* Such a file has not been renamed, so no event says so, and once it is followed it is
\* open, at or behind what was in it.
OldInv ==
    /\ printed \cap old = {}
    /\ \A l \in old : l[1] =< files /\ l[2] =< len[l[1]]
    /\ pc \in {"off", "looked"} => events = <<>>
    /\ pc = "following" /\ fp # NoFile => \A l \in old : l[1] = fp.file => l[2] =< fp.off
    /\ pc # "off" /\ Echo =>
          /\ exists /\ \A i \in 1..Len(events) : events[i] # "rename"
          /\ pc = "following" => fp # NoFile /\ fp.file = current

FollowerInv == FollowerType /\ PlaceInv /\ OldInv /\ NoGaps

-----------------------------------------------------------------------------
(* What a read may open and print. *)
Reads(r) ==
    /\ r.out \subseteq Spot \ old
    /\ \A l \in r.out : \A i \in 1..l[2] : <<l[1], i>> \in Passed \cup r.out
    /\ Echo => r.fp # NoFile /\ r.fp.file = current
    /\ r.fp # NoFile =>
          /\ r.fp \in [file : File, off : Nat] /\ r.fp.off =< len[r.fp.file]
          /\ \A i \in 1..r.fp.off : <<r.fp.file, i>> \in Passed \cup r.out
          /\ \A l \in old : l[1] = r.fp.file => l[2] =< r.fp.off

(* Nothing is opened only where the log is not an echo. *)
LEMMA NothingReads ==
    ASSUME ~Echo
    PROVE  Reads(Nothing)
BY DEF Reads, Nothing

LEMMA DrainReads ==
    ASSUME NEW place \in [file : File, off : Nat], place.off =< len[place.file], FollowerInv,
           \A i \in 1..place.off : <<place.file, i>> \in Passed,
           \A l \in old : l[1] = place.file => l[2] =< place.off,
           Echo => place.file = current
    PROVE  Reads(drain(place))
<1> DEFINE r == drain(place)
<1>0. len \in [File -> Nat] /\ old \subseteq Spot /\ TailAssumption
  BY TailAssumption DEF FollowerInv, FollowerType
<1>1. r.out = Lines(place.file, place.off) /\ r.fp = [file |-> place.file, off |-> len[place.file]]
  BY DEF drain
<1>2. r.fp # NoFile /\ r.fp.file = place.file /\ r.fp.off = len[place.file] /\ len[place.file] \in Nat
  BY <1>0, <1>1 DEF TailAssumption
<1>3. ASSUME NEW l \in r.out
      PROVE  l \in Spot /\ l[1] = place.file /\ l[2] \in place.off + 1 .. len[place.file]
  BY <1>0, <1>1, <1>2, <1>3 DEF Lines, Spot
<1>4. \A i \in 1..len[place.file] : <<place.file, i>> \in Passed \cup r.out
  <2> TAKE i \in 1..len[place.file]
  <2>1. i \in 1..place.off \/ i \in place.off + 1 .. len[place.file]
    BY <1>2
  <2> QED
    BY <2>1, <1>1 DEF Lines
<1>5. r.out \subseteq Spot \ old
  BY <1>3, <1>0
<1>6. \A l \in r.out : \A i \in 1..l[2] : <<l[1], i>> \in Passed \cup r.out
  BY <1>2, <1>3, <1>4
<1>7. \A l \in old : l[1] = place.file => l[2] =< len[place.file]
  BY DEF FollowerInv, OldInv
<1> HIDE DEF r
<1>8. Reads(r)
  BY <1>1, <1>2, <1>4, <1>5, <1>6, <1>7, <1>0 DEF Reads
<1> QED
  BY <1>8 DEF r

LEMMA OpenReads ==
    ASSUME FollowerInv, ~Echo
    PROVE  Reads(openAndDrain)
<1>1. CASE current = NoFile \/ len[current] = 0
  BY <1>1, NothingReads DEF openAndDrain
<1>2. CASE current # NoFile /\ len[current] # 0
  <2> DEFINE place == [file |-> current, off |-> 0]
  <2>1. current \in File /\ len \in [File -> Nat]
    BY <1>2 DEF FollowerInv, FollowerType
  <2>2. place \in [file : File, off : Nat] /\ place.off =< len[place.file] /\ place.off = 0 /\ place.file = current
    BY <2>1
  <2>3. \A l \in old : l[1] # current
    BY <1>2 DEF Echo
  <2> HIDE DEF place
  <2>4. Reads(drain(place))
    BY <2>2, <2>3, DrainReads
  <2> QED
    BY <1>2, <2>4 DEF openAndDrain, place
<1> QED
  BY <1>1, <1>2

LEMMA OpenFileReads ==
    ASSUME FollowerInv, pc = "following", fp # NoFile
    PROVE  Reads(drain(fp))
BY DrainReads DEF FollowerInv, FollowerType, PlaceInv, OldInv

-----------------------------------------------------------------------------
(* A read keeps the invariant. *)
LEMMA ReadKeeps ==
    ASSUME FollowerInv, NEW r, Reads(r), Does(r), pc \in {"watching", "following"},
           pc' = "following", UNCHANGED <<log, exists, skipped, old>>,
           events' = events \/ (events # <<>> /\ events' = Tail(events))
    PROVE  FollowerInv'
<1>1. FollowerType /\ fp' = r.fp /\ printed' = printed \cup r.out
  BY DEF FollowerInv, Does
<1>2. FollowerType'
  <2>1. events' \in Seq(Event)
    BY <1>1 DEF FollowerType
  <2> QED
    BY <1>1, <2>1 DEF FollowerType, Reads, log
<1>3. Passed' = Passed \cup r.out
  BY <1>1 DEF Passed
<1>4. PlaceInv' /\ NoGaps'
  BY <1>1, <1>3 DEF FollowerInv, PlaceInv, NoGaps, Reads, Passed
<1>5. Echo' <=> Echo
  BY DEF Echo, log
<1>6. (\A i \in 1..Len(events) : events[i] # "rename")
      => \A j \in 1..Len(events') : events'[j] # "rename"
  <2>1. events \in Seq(Event)
    BY <1>1 DEF FollowerType
  <2>2. CASE events' = events
    BY <2>2
  <2>3. CASE events # <<>> /\ events' = Tail(events)
    <3>1. /\ Len(Tail(events)) = Len(events) - 1 /\ Len(events) \in Nat
          /\ \A j \in 1..Len(events) - 1 : Tail(events)[j] = events[j + 1]
      BY <2>1, <2>3, HeadTailProperties
    <3>2. \A j \in 1..Len(events) - 1 : j + 1 \in 1..Len(events)
      BY <3>1
    <3>3. Len(events') = Len(events) - 1 /\ \A j \in 1..Len(events) - 1 : events'[j] = events[j + 1]
      BY <2>3, <3>1
    <3> QED
      BY <3>2, <3>3
  <2> QED
    BY <2>2, <2>3
<1>7. OldInv'
  BY <1>1, <1>5 DEF FollowerInv, OldInv, Reads, log
<1> QED
  BY <1>2, <1>4, <1>7 DEF FollowerInv

(* The writer of the log. *)
LEMMA NotifyKeeps ==
    ASSUME FollowerInv, NEW e \in Event, Notify(e)
    PROVE  /\ events' \in Seq(Event)
           /\ pc \in {"off", "looked"} => events' = events
           /\ (\A i \in 1..Len(events) : events[i] # "rename") /\ e # "rename"
              => \A i \in 1..Len(events') : events'[i] # "rename"
<1>1. events \in Seq(Event)
  BY DEF FollowerInv, FollowerType
<1>2. CASE events' = events
  BY <1>1, <1>2
<1>3. CASE events' = Append(events, e) /\ pc \in {"watching", "following"}
  BY <1>1, <1>3
<1> QED
  BY <1>2, <1>3 DEF Notify

LEMMA WriterKeeps ==
    ASSUME FollowerInv, AppendLine \/ RenameAway \/ CreateFile
    PROVE  FollowerInv'
<1>1. FollowerType /\ PlaceInv /\ OldInv /\ NoGaps /\ TailAssumption
  BY TailAssumption DEF FollowerInv
<1>2. UNCHANGED <<pc, exists, fp, printed, skipped, old>>
  BY DEF AppendLine, RenameAway, CreateFile, reader
<1>3. PlaceInv' /\ NoGaps'
  BY <1>1, <1>2 DEF PlaceInv, NoGaps, Passed
<1>4. CASE AppendLine
  <2>1. current \in File /\ current =< files /\ UNCHANGED <<current, files>>
        /\ len' = [len EXCEPT ![current] = @ + 1]
    BY <1>1, <1>4 DEF AppendLine, FollowerType
  <2>2. /\ len' \in [File -> Nat] /\ \A f \in File : f > files => len'[f] = 0
        /\ \A f \in File : len[f] =< len'[f]
    BY <1>1, <2>1 DEF FollowerType, File, TailAssumption
  <2>3. /\ events' \in Seq(Event) /\ (pc \in {"off", "looked"} => events' = events)
        /\ (\A i \in 1..Len(events) : events[i] # "rename")
           => \A i \in 1..Len(events') : events'[i] # "rename"
    BY <1>4, NotifyKeeps DEF AppendLine, Event
  <2>4. fp' # NoFile => fp' \in [file : File, off : Nat] /\ fp'.off =< len'[fp'.file]
    BY <1>1, <1>2, <2>2 DEF FollowerType
  <2>5. FollowerType'
    BY <1>1, <1>2, <2>1, <2>2, <2>3, <2>4 DEF FollowerType
  <2>6. \A l \in old : l[1] \in File /\ l[2] \in Nat /\ l[2] =< len'[l[1]]
    BY <1>1, <2>2 DEF OldInv, FollowerType, Spot
  <2>7. Echo' <=> Echo
    BY <1>2, <2>1 DEF Echo
  <2>8. OldInv'
    BY <1>1, <1>2, <2>1, <2>3, <2>6, <2>7 DEF OldInv
  <2> QED
    BY <1>3, <2>5, <2>8 DEF FollowerInv
<1>5. CASE RenameAway
  <2>1. current' = NoFile /\ UNCHANGED <<files, len>>
    BY <1>5 DEF RenameAway
  <2>2. events' \in Seq(Event) /\ (pc \in {"off", "looked"} => events' = events)
    BY <1>5, NotifyKeeps DEF RenameAway, Event
  <2>3. FollowerType' /\ ~Echo'
    BY <1>1, <1>2, <2>1, <2>2 DEF FollowerType, Echo
  <2>4. OldInv'
    BY <1>1, <1>2, <2>1, <2>2, <2>3 DEF OldInv
  <2> QED
    BY <1>3, <2>3, <2>4 DEF FollowerInv
<1>6. CASE CreateFile
  <2>1. files' = files + 1 /\ current' = files + 1 /\ UNCHANGED len /\ files < MaxFiles
    BY <1>6 DEF CreateFile
  <2>2. events' \in Seq(Event) /\ (pc \in {"off", "looked"} => events' = events)
    BY <1>6, NotifyKeeps DEF CreateFile, Event
  <2>3. FollowerType'
    BY <1>1, <1>2, <2>1, <2>2 DEF FollowerType, File, TailAssumption
  <2>4. \A l \in old : l[1] \in Nat /\ l[1] =< files /\ files \in Nat
    BY <1>1 DEF OldInv, FollowerType, Spot, File
  <2>5. ~Echo'
    BY <1>2, <2>1, <2>4 DEF Echo
  <2>6. OldInv'
    BY <1>1, <1>2, <2>1, <2>2, <2>4, <2>5 DEF OldInv
  <2> QED
    BY <1>3, <2>3, <2>6 DEF FollowerInv
<1> QED
  BY <1>4, <1>5, <1>6

-----------------------------------------------------------------------------
(* Follow. *)
LEMMA FollowKeeps ==
    ASSUME FollowerInv, Follow
    PROVE  FollowerInv'
<1>1. FollowerType /\ OldInv
  BY DEF FollowerInv
<1>2. /\ pc = "off" /\ pc' = "looked" /\ exists' = (current # NoFile) /\ fp' = NoFile
      /\ printed' = {} /\ UNCHANGED <<current, files, len, events>>
  BY DEF Follow, log
<1>3. \A l \in old' : l \in Spot /\ l[2] \in 1..len[l[1]]
  <2> TAKE l \in old'
  <2>1. PICK f \in File : l \in Lines(f, 0)
    BY DEF Follow
  <2>2. PICK i \in 1..len[f] : l = <<f, i>>
    BY <2>1, <1>1 DEF Lines, FollowerType
  <2> QED
    BY <2>2, <1>1 DEF Spot, FollowerType
<1>4. \A l \in old' : l[1] =< files /\ l[2] =< len[l[1]]
  <2> TAKE l \in old'
  <2>1. l[1] \in File /\ l[2] \in 1..len[l[1]] /\ len[l[1]] # 0
    BY <1>1, <1>3 DEF Spot, FollowerType
  <2> QED
    BY <1>1, <2>1 DEF FollowerType, File
<1>5. FollowerType'
  BY <1>1, <1>2, <1>3 DEF FollowerType
<1>6. PlaceInv' /\ NoGaps'
  BY <1>2 DEF PlaceInv, NoGaps
<1>7. events' = <<>> /\ \A i \in 1..Len(events') : events'[i] # "rename"
  BY <1>1, <1>2 DEF OldInv
<1>8. Echo' => exists'
  BY <1>2 DEF Echo
<1>9. OldInv'
  BY <1>2, <1>4, <1>7, <1>8 DEF OldInv
<1> QED
  BY <1>5, <1>6, <1>9 DEF FollowerInv

LEMMA WatchKeeps ==
    ASSUME FollowerInv, Watch
    PROVE  FollowerInv'
BY DEF Watch, log, FollowerInv, FollowerType, PlaceInv, OldInv, NoGaps, Echo, Passed

LEMMA StartKeeps ==
    ASSUME FollowerInv, Start
    PROVE  FollowerInv'
<1>1. FollowerType /\ PlaceInv /\ OldInv /\ TailAssumption
  BY TailAssumption DEF FollowerInv
<1>2. pc = "watching" /\ pc' = "following" /\ UNCHANGED <<log, exists, old, events>>
  BY DEF Start
<1>3. CASE exists /\ current # NoFile
  <2>1. /\ fp' = [file |-> current, off |-> len[current]]
        /\ skipped' = Lines(current, 0) /\ UNCHANGED printed
    BY <1>3 DEF Start
  <2>2. current \in File /\ len[current] \in Nat /\ printed = {}
    BY <1>1, <1>2, <1>3 DEF FollowerType, PlaceInv
  <2>3. fp' # NoFile /\ fp' \in [file : File, off : Nat] /\ fp'.file = current
        /\ fp'.off = len[current]
    BY <1>1, <2>1, <2>2 DEF TailAssumption
  <2>4. FollowerType'
    BY <1>1, <1>2, <2>1, <2>2, <2>3 DEF FollowerType, log
  <2>5. \A i \in 1..len[current] : <<current, i>> \in skipped'
    BY <2>1, <2>2 DEF Lines
  <2>6. PlaceInv' /\ NoGaps'
    BY <1>2, <2>1, <2>2, <2>3, <2>5 DEF PlaceInv, NoGaps, Passed
  <2>7. \A l \in old : l[1] = current => l[2] =< len[current]
    BY <1>1 DEF OldInv
  <2>8. OldInv'
    BY <1>1, <1>2, <2>1, <2>2, <2>3, <2>7 DEF OldInv, Echo, log
  <2> QED
    BY <2>4, <2>6, <2>8 DEF FollowerInv
<1>4. CASE ~(exists /\ current # NoFile)
  <2>1. ~Echo
    BY <1>1, <1>2, <1>4 DEF OldInv, Echo
  <2>2. Reads(openAndDrain) /\ Does(openAndDrain) /\ UNCHANGED skipped
    BY <1>4, <2>1, OpenReads DEF Start
  <2> DEFINE r == openAndDrain
  <2>3. Reads(r) /\ Does(r)
    BY <2>2
  <2> HIDE DEF r
  <2> QED
    BY <1>2, <2>2, <2>3, ReadKeeps
<1> QED
  BY <1>3, <1>4

LEMMA SyncReads ==
    ASSUME FollowerInv, pc = "following"
    PROVE  Reads(syncPath)
<1>1. Echo => fp # NoFile /\ fp.file = current /\ current # NoFile
  BY DEF FollowerInv, OldInv, Echo
<1>2. CASE fp = NoFile \/ current = NoFile
  <2>1. Reads(openAndDrain) /\ Reads(Nothing)
    BY <1>1, <1>2, OpenReads, NothingReads
  <2>2. syncPath = openAndDrain \/ syncPath = Nothing
    BY <1>2 DEF syncPath
  <2> QED
    BY <2>1, <2>2
<1>4. CASE fp # NoFile /\ current # NoFile /\ fp.file # current
  BY <1>1, <1>4, OpenReads DEF syncPath
<1>5. CASE fp # NoFile /\ current # NoFile /\ fp.file = current
  BY <1>5, OpenFileReads DEF syncPath
<1> QED
  BY <1>2, <1>4, <1>5

LEMMA LookKeeps ==
    ASSUME FollowerInv, Tick \/ OnCreate \/ OnWrite
    PROVE  FollowerInv'
<1>1. /\ pc = "following" /\ pc' = "following" /\ UNCHANGED <<log, exists, skipped, old>>
      /\ events' = events \/ (events # <<>> /\ events' = Tail(events))
  BY DEF Tick, OnCreate, OnWrite
<1>2. CASE Tick \/ OnCreate
  <2> DEFINE r == syncPath
  <2>1. Reads(r) /\ Does(r)
    BY <1>1, <1>2, SyncReads DEF Tick, OnCreate
  <2> HIDE DEF r
  <2> QED
    BY <1>1, <2>1, ReadKeeps
<1>3. CASE OnWrite
  <2> DEFINE r == IF fp = NoFile THEN openAndDrain ELSE drain(fp)
  <2>2. Does(r)
    BY <1>3 DEF OnWrite
  <2>3. fp = NoFile => ~Echo
    BY <1>1 DEF FollowerInv, OldInv
  <2>4. Reads(r)
    BY <1>1, <2>3, OpenReads, OpenFileReads
  <2> HIDE DEF r
  <2> QED
    BY <1>1, <2>2, <2>4, ReadKeeps
<1> QED
  BY <1>2, <1>3

LEMMA RenameEventKeeps ==
    ASSUME FollowerInv, OnRename
    PROVE  FollowerInv'
<1>1. /\ pc = "following" /\ pc' = "following" /\ fp' = NoFile /\ events' = Tail(events)
      /\ UNCHANGED <<current, files, len, exists, printed, skipped, old>>
  BY DEF OnRename, log
<1>2. events \in Seq(Event) /\ events # <<>> /\ events[1] = "rename"
  BY DEF OnRename, FollowerInv, FollowerType
<1>3. ~Echo
  BY <1>1, <1>2 DEF FollowerInv, OldInv
<1>4. events' \in Seq(Event)
  BY <1>1, <1>2
<1> QED
  BY <1>1, <1>3, <1>4 DEF FollowerInv, FollowerType, PlaceInv, OldInv, NoGaps, Echo, Passed

LEMMA StopKeeps ==
    ASSUME FollowerInv, Stop
    PROVE  FollowerInv'
<1>1. pc' = "off" /\ events' = <<>> /\ UNCHANGED <<current, files, len, exists, fp, printed, skipped, old>>
  BY DEF Stop, log
<1> QED
  BY <1>1 DEF FollowerInv, FollowerType, PlaceInv, OldInv, NoGaps, Echo, Passed

-----------------------------------------------------------------------------
(* A line that is printed has all before it printed or passed over, and is not an     *)
(* echo, whichever events are lost or late (Follow, drain, openAndDrain, syncPath).   *)
THEOREM GapsProved == TailSpec => []NoGaps
<1>1. TailInit => FollowerInv
  <2> SUFFICES ASSUME TailInit PROVE FollowerInv
    OBVIOUS
  <2>1. TailAssumption
    BY TailAssumption
  <2>2. len \in [File -> Nat] /\ \A f \in File : f > files => len[f] = 0
    BY <2>1 DEF TailInit, TailAssumption
  <2>3. current # NoFile => current \in File /\ current =< files
    BY <2>1 DEF TailInit, TailAssumption, File
  <2> QED
    BY <2>1, <2>2, <2>3 DEF TailInit, TailAssumption, FollowerInv, FollowerType, PlaceInv, OldInv, NoGaps
<1>2. FollowerInv /\ [TailNext]_tailVars => FollowerInv'
  <2> SUFFICES ASSUME FollowerInv, [TailNext]_tailVars PROVE FollowerInv'
    OBVIOUS
  <2>1. CASE UNCHANGED tailVars
    BY <2>1 DEF tailVars, log, reader, FollowerInv, FollowerType, PlaceInv, OldInv, NoGaps, Echo, Passed
  <2> QED
    BY <2>1, WriterKeeps, FollowKeeps, WatchKeeps, StartKeeps, LookKeeps, RenameEventKeeps,
       StopKeeps DEF TailNext
<1>3. FollowerInv => NoGaps
  BY DEF FollowerInv
<1> QED
  BY <1>1, <1>2, <1>3, PTL DEF TailSpec
=============================================================================
