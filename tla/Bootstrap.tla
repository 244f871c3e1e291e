----------------------------- MODULE Bootstrap -----------------------------
(***************************************************************************)
(* internal/bootstrap/bootstrap.go: Bootstrap (install) and Uninstall as   *)
(* the sequence of file and systemctl operations they make under the       *)
(* flock, and internal/ui/lid_buttons.go: the install and uninstall links  *)
(* that run them in the GUI.  Several processes run them concurrently; any *)
(* systemctl call may fail and any process may die between two steps.      *)
(*                                                                         *)
(* A unit is represented by the ExecStart path it names.  The systemd user *)
(* manager is external: it runs what it loaded at the last daemon-reload.  *)
(***************************************************************************)
EXTENDS Integers, FiniteSets

CONSTANTS
  Gui, Cli,    \* processes: GUIs tap what they show, a CLI may do either
  NoProc,
  Path,        \* absolute paths of sway-power binaries
  NoUnit,      \* no unit file; nothing loaded; nothing running
  MaxFails,    \* bound of the model: failing systemctl calls
  MaxCrashes   \* bound of the model: installers that die

Proc == Gui \cup Cli
Torn == "torn"

ASSUME BootstrapAssumption ==
  /\ Gui \cap Cli = {} /\ NoProc \notin Proc
  /\ NoUnit \notin Path /\ Torn \notin Path \cup {NoUnit}
  /\ MaxFails \in Nat /\ MaxCrashes \in Nat

VARIABLES
  unit,      \* the unit file: absent, truncated, or naming a path
  loaded,    \* the unit as the user manager last loaded it
  enabled,   \* the unit is wanted at the next graphical session
  running,   \* the path the running daemon was started from
  fresh,     \* the running daemon is the binary now at that path
  holder,    \* who holds the flock
  pc, op, exec, existed,  \* each process: where it is, what it runs
  outcome,   \* what its last operation returned
  shown,     \* lidCloseButtons.installed
  fails, crashes

service == <<loaded, enabled, running, fresh>>
procs == <<holder, pc, op, exec, existed, outcome, shown>>
vars == <<unit, service, procs, fails, crashes>>

PC == {"idle", "lock", "read", "active", "truncate", "fill", "reload",
       "enableNow", "enable", "restart",
       "check", "disable", "remove", "unload", "report"}

\* One type invariant: in particular the manager never loads a half-written unit
\* at a reload of the installers, the only ones there are here (a reload by
\* somebody else after a death in the middle of the writing could).
TypeOK ==
  /\ unit \in Path \cup {NoUnit, Torn} /\ loaded \in Path \cup {NoUnit}
  /\ running \in Path \cup {NoUnit}
  /\ enabled \in BOOLEAN /\ fresh \in BOOLEAN
  /\ holder \in Proc \cup {NoProc}
  /\ pc \in [Proc -> PC] /\ op \in [Proc -> {"install", "uninstall"}]
  /\ exec \in [Proc -> Path] /\ existed \in [Proc -> BOOLEAN]
  /\ outcome \in [Proc -> {"none", "ok", "error"}]
  /\ shown \in [Gui -> BOOLEAN]
  /\ fails \in 0..MaxFails /\ crashes \in 0..MaxCrashes

Init ==
  /\ unit = NoUnit /\ loaded = NoUnit /\ enabled = FALSE
  /\ running = NoUnit /\ fresh = TRUE /\ holder = NoProc
  /\ pc = [p \in Proc |-> "idle"] /\ op = [p \in Proc |-> "install"]
  /\ exec \in [Proc -> Path] /\ existed = [p \in Proc |-> FALSE]
  /\ outcome = [p \in Proc |-> "none"] /\ shown = [p \in Gui |-> FALSE]
  /\ fails = 0 /\ crashes = 0

-----------------------------------------------------------------------------
(* Control: going on, returning, failing *)

Goto(p, to) ==
  /\ pc' = [pc EXCEPT ![p] = to]
  /\ UNCHANGED <<holder, outcome>>

\* Mutant: an error path returns without the deferred releaseLock.
BugErrorKeepsLock(p, result) ==
  /\ pc' = [pc EXCEPT ![p] = "report"]
  /\ outcome' = [outcome EXCEPT ![p] = result]
  /\ holder' = IF result = "ok" THEN NoProc ELSE holder

\* Every return runs the deferred releaseLock.
Return(p, result) ==
  /\ pc' = [pc EXCEPT ![p] = "report"]
  /\ outcome' = [outcome EXCEPT ![p] = result]
  /\ holder' = NoProc

Fails == fails < MaxFails /\ fails' = fails + 1
Succeeds == UNCHANGED fails

\* A systemctl call of p that does Effect and goes on with Then, or fails and
\* makes p return the error.
Systemctl(p, Effect, Then) ==
  \/ Succeeds /\ Effect /\ Then
  \/ Fails /\ Return(p, "error") /\ UNCHANGED service

-----------------------------------------------------------------------------
(* The links and the flock *)

\* The GUI shows the install link or the uninstall link; a tap is ignored
\* while an operation is in flight.
Tap(p) ==
  /\ pc[p] = "idle"
  /\ \E o \in {"install", "uninstall"} :
       /\ p \in Gui => (o = "uninstall") = shown[p]
       /\ op' = [op EXCEPT ![p] = o]
  /\ Goto(p, "lock")
  /\ UNCHANGED <<unit, service, exec, existed, shown, fails, crashes>>

\* Mutant: the sequence runs without the flock.
BugNoLock == TRUE

LockFree == holder = NoProc

AcquireLock(p) ==
  /\ pc[p] = "lock" /\ LockFree
  /\ holder' = p
  /\ pc' = [pc EXCEPT ![p] = IF op[p] = "install" THEN "read" ELSE "check"]
  /\ UNCHANGED <<unit, service, op, exec, existed, outcome, shown, fails, crashes>>

\* The GUI's callback: what it shows follows from the outcome.
Report(p) ==
  /\ pc[p] = "report" /\ Goto(p, "idle")
  /\ shown' = IF p \in Gui /\ outcome[p] = "ok"
              THEN [shown EXCEPT ![p] = op[p] = "install"] ELSE shown
  /\ UNCHANGED <<unit, service, op, exec, existed, fails, crashes>>

-----------------------------------------------------------------------------
(* doBootstrap *)

ReadUnit(p) ==
  /\ pc[p] = "read"
  /\ existed' = [existed EXCEPT ![p] = unit # NoUnit]
  /\ Goto(p, IF unit = exec[p] THEN "active" ELSE "truncate")
  /\ UNCHANGED <<unit, service, op, exec, shown, fails, crashes>>

\* Mutant: an unchanged unit needs no restart.
BugUnchangedIsDone == FALSE

RestartIfActive == running # NoUnit

\* Unit unchanged: restart a running daemon, leave a stopped one stopped. An
\* is-active that fails counts as stopped.
IsActive(p) ==
  /\ pc[p] = "active"
  /\ \/ Succeeds /\ RestartIfActive /\ Goto(p, "restart")
     \/ Succeeds /\ ~RestartIfActive /\ Return(p, "ok")
     \/ Fails /\ Return(p, "ok")
  /\ UNCHANGED <<unit, service, op, exec, existed, shown, crashes>>

\* os.WriteFile truncates the unit in place and fills it.
Truncate(p) ==
  /\ pc[p] = "truncate" /\ unit' = Torn /\ Goto(p, "fill")
  /\ UNCHANGED <<service, op, exec, existed, shown, fails, crashes>>

Fill(p) ==
  /\ pc[p] = "fill" /\ unit' = exec[p] /\ Goto(p, "reload")
  /\ UNCHANGED <<service, op, exec, existed, shown, fails, crashes>>

\* Mutant: the manager keeps the unit it knows.
BugNoReload == UNCHANGED loaded

\* systemctl daemon-reload: the manager reads the file as it is now.
LoadUnit == loaded' = unit

Reload(p) ==
  /\ pc[p] = "reload"
  /\ Systemctl(p, LoadUnit /\ UNCHANGED <<enabled, running, fresh>>,
               Goto(p, IF existed[p] THEN "enable" ELSE "enableNow"))
  /\ UNCHANGED <<unit, op, exec, existed, shown, crashes>>

\* enable --now starts the loaded unit unless something of it runs already.
EnableNow(p) ==
  /\ pc[p] = "enableNow"
  /\ Systemctl(p,
       /\ enabled' = TRUE /\ UNCHANGED loaded
       /\ IF running = NoUnit THEN running' = loaded /\ fresh' = TRUE
                              ELSE UNCHANGED <<running, fresh>>,
       Return(p, "ok"))
  /\ UNCHANGED <<unit, op, exec, existed, shown, crashes>>

Enable(p) ==
  /\ pc[p] = "enable"
  /\ Systemctl(p, enabled' = TRUE /\ UNCHANGED <<loaded, running, fresh>>,
               Goto(p, "restart"))
  /\ UNCHANGED <<unit, op, exec, existed, shown, crashes>>

Restart(p) ==
  /\ pc[p] = "restart"
  /\ Systemctl(p, running' = loaded /\ fresh' = TRUE /\ UNCHANGED <<loaded, enabled>>,
               Return(p, "ok"))
  /\ UNCHANGED <<unit, op, exec, existed, shown, crashes>>

-----------------------------------------------------------------------------
(* Uninstall *)

CheckUnit(p) ==
  /\ pc[p] = "check"
  /\ IF unit = NoUnit THEN Return(p, "ok") ELSE Goto(p, "disable")
  /\ UNCHANGED <<unit, service, op, exec, existed, shown, fails, crashes>>

\* Mutant: the service is disabled but not stopped (no --now).
BugDisableOnly == enabled' = FALSE /\ UNCHANGED <<loaded, running, fresh>>

\* systemctl disable --now.
DisableNow ==
  enabled' = FALSE /\ running' = NoUnit /\ UNCHANGED <<loaded, fresh>>

\* Best effort: the error of the call is dropped.
Disable(p) ==
  /\ pc[p] = "disable" /\ Goto(p, "remove")
  /\ (Succeeds /\ DisableNow) \/ (Fails /\ UNCHANGED service)
  /\ UNCHANGED <<unit, op, exec, existed, shown, crashes>>

Remove(p) ==
  /\ pc[p] = "remove" /\ unit' = NoUnit /\ Goto(p, "unload")
  /\ UNCHANGED <<service, op, exec, existed, shown, fails, crashes>>

Unload(p) ==
  /\ pc[p] = "unload"
  /\ Systemctl(p, LoadUnit /\ UNCHANGED <<enabled, running, fresh>>, Return(p, "ok"))
  /\ UNCHANGED <<unit, op, exec, existed, shown, crashes>>

-----------------------------------------------------------------------------
(* The rest of the world *)

\* The process dies; the kernel drops its flock. A GUI started again shows
\* what IsInstalled says.
Crash(p) ==
  /\ pc[p] # "idle" /\ crashes < MaxCrashes /\ crashes' = crashes + 1
  /\ pc' = [pc EXCEPT ![p] = "idle"]
  /\ holder' = IF holder = p THEN NoProc ELSE holder
  /\ shown' = IF p \in Gui THEN [shown EXCEPT ![p] = unit # NoUnit] ELSE shown
  /\ UNCHANGED <<unit, service, op, exec, existed, outcome, fails>>

\* The user stops the daemon, or replaces the binary in place.
UserStops ==
  /\ running # NoUnit /\ running' = NoUnit
  /\ UNCHANGED <<unit, loaded, enabled, fresh, procs, fails, crashes>>

BinaryReplaced ==
  /\ fresh /\ running # NoUnit /\ fresh' = FALSE
  /\ UNCHANGED <<unit, loaded, enabled, running, procs, fails, crashes>>

Step(p) ==
  \/ Report(p) \/ ReadUnit(p) \/ IsActive(p) \/ Truncate(p) \/ Fill(p)
  \/ Reload(p) \/ EnableNow(p) \/ Enable(p) \/ Restart(p)
  \/ CheckUnit(p) \/ Disable(p) \/ Remove(p) \/ Unload(p)

Next ==
  \/ UserStops \/ BinaryReplaced
  \/ \E p \in Proc : Tap(p) \/ AcquireLock(p) \/ Step(p) \/ Crash(p)

Spec == Init /\ [][Next]_vars

\* systemctl calls return; flock serves everyone who waits in the end.
FairSpec ==
  Spec /\ \A p \in Proc : WF_vars(Step(p)) /\ SF_vars(AcquireLock(p))

-----------------------------------------------------------------------------
(* Properties *)

Returns(p, o) == pc[p] # "report" /\ pc'[p] = "report" /\ op[p] = o /\ outcome'[p] = "ok"
Undisturbed == fails' = 0 /\ crashes = 0

\* When nothing failed, a first or changed install that reports success leaves
\* its own unit in place, loaded, enabled and running, whatever other installs
\* and uninstalls were started meanwhile.
InstallServes ==
  [][\A p \in Proc :
       (Returns(p, "install") /\ pc[p] \in {"enableNow", "restart"} /\ Undisturbed)
         => /\ unit = exec[p] /\ loaded' = exec[p] /\ enabled'
            /\ running' = exec[p] /\ fresh']_vars

\* When nothing failed, an install that reports success never leaves an older
\* binary serving: the in-place upgrade of bootstrap.go:33-36.
UpgradeTakesEffect ==
  [][\A p \in Proc :
       (Returns(p, "install") /\ Undisturbed /\ running' # NoUnit)
         => running' = exec[p] /\ fresh']_vars

\* When nothing failed, an uninstall that reports success leaves no unit, no
\* enablement and no daemon behind.
UninstallCleans ==
  [][\A p \in Proc :
       (Returns(p, "uninstall") /\ Undisturbed)
         => unit = NoUnit /\ loaded' = NoUnit /\ ~enabled' /\ running' = NoUnit]_vars

\* Every operation started gets the flock and ends, whatever fails or dies.
OperationsEnd == \A p \in Proc : pc[p] = "lock" ~> pc[p] = "idle"

-----------------------------------------------------------------------------
(* What the README says and the code does not do *)

\* README, lid service install, step 3: an install enables the service.
InstallEnables == [][\A p \in Proc : Returns(p, "install") => enabled']_vars

=============================================================================
