------------------------------- MODULE Daemon -------------------------------
(***************************************************************************)
(* internal/daemon/daemon.go and main.runDaemon: New builds the inhibitor, *)
(* the handler, the preferences watcher and the monitor, Run waits for a   *)
(* signal, Shutdown stops them; systemd starts the process again           *)
(* (Restart=always in sway-power.service).                                 *)
(*                                                                         *)
(* The components are composed by what they promise: the lock is an        *)
(* InhibitLease, which Inhibitor implements, the monitor a LidDelivery,    *)
(* which LidMonitor implements.  The handler is LidHandler for one panel,  *)
(* the watcher PrefsWatcher for a file that is one action, not valid or    *)
(* missing, readable whenever it is there, and whose mtime every write     *)
(* moves.                                                                  *)
(***************************************************************************)
EXTENDS Naturals

CONSTANT MaxEvents   \* bound of the model: events of the outside

ASSUME EventsAssumption == MaxEvents \in Nat

Lid == {"open", "closed"}
Action == {"lock", "sleep", "nothing"}
File == Action \cup {"bad", "none"}

VARIABLES
  pc,         \* the main goroutine, "down" without a process
  \* the components
  lease,      \* the inhibitor
  seen, delivered, busy, phase,   \* the monitor; phase "off" without one
  current, owned,   \* the handler; owned: the panel is in disabledByUs
  job,        \* what the callback under way has still to do
  wpc, loaded,      \* the preferences watcher: where it is, what it has read
                    \* and not applied yet ("lock" otherwise)
  changed,          \* the file's mtime is not the one of the watcher's last stat
  \* outside
  lid, panel, \* where the lid is, whether the panel is on
  source,     \* newMonitor finds a state file on this machine, or nothing (an
              \* evdev device alone, which tells no initial state: LidMonitor)
  stored,     \* what preferences.json says; "bad": nothing valid,
              \* "none": the file is missing
  wanted,     \* systemd is to keep the service running
  events,
  \* history
  offered,    \* actions the file offered since this process read it first
  failed      \* the last lid open met a failing swaymsg

monitor == <<seen, delivered, busy, phase>>
handler == <<current, owned, job, panel, failed>>
watcher == <<wpc, loaded, changed>>
outside == <<lid, source, stored, wanted, events>>
vars == <<pc, lease, monitor, handler, watcher, outside, offered>>

Lock == INSTANCE InhibitLease WITH lease <- lease

Mon == INSTANCE LidDelivery WITH
  None <- "none", seen <- seen, delivered <- delivered, busy <- busy, phase <- phase

\* One type invariant; a callback that is not under way has nothing to do.
TypeOK ==
  /\ pc \in {"down", "handler", "prefs", "monitor", "notify", "run", "quit",
             "stopMonitor", "stopPrefs", "release"}
  /\ lease \in {"none", "held", "stale", "closed"}
  /\ seen \subseteq Lid /\ delivered \in Lid \cup {"none"} /\ busy \in BOOLEAN
  /\ phase \in {"on", "stopping", "off"}
  /\ current \in Action /\ owned \in BOOLEAN
  /\ job \in Action \cup {"open", "claim", "unclaim", "none"}
  /\ ~busy => job = "none"
  /\ wpc \in {"off", "tick", "load", "apply"} /\ loaded \in Action
  /\ changed \in BOOLEAN
  /\ lid \in Lid /\ panel \in BOOLEAN /\ source \in BOOLEAN
  /\ stored \in File /\ wanted \in BOOLEAN
  /\ events \in 0..MaxEvents /\ offered \subseteq Action /\ failed \in BOOLEAN

Init ==
  /\ pc = "down" /\ lease = "closed" /\ wanted = TRUE
  /\ seen = {} /\ delivered = "none" /\ busy = FALSE /\ phase = "off"
  /\ current = "lock" /\ owned = FALSE /\ job = "none" /\ failed = FALSE
  /\ wpc = "off" /\ loaded = "lock" /\ changed = FALSE /\ offered = {}
  /\ lid \in Lid /\ panel = TRUE /\ source \in BOOLEAN
  /\ stored \in File /\ events = 0

Alive == pc # "down"
Goto(from, to) == pc = from /\ pc' = to
Event == events < MaxEvents /\ events' = events + 1

-----------------------------------------------------------------------------
(* New *)

\* systemd starts the process; NewInhibitor's goroutine begins to acquire.
Start ==
  /\ wanted /\ Goto("down", "handler") /\ lease' = "none"
  /\ UNCHANGED <<monitor, handler, watcher, outside, offered>>

\* NewHandler: lock, and an empty ownership map.
NewHandler ==
  /\ Goto("handler", "prefs") /\ current' = "lock" /\ owned' = FALSE
  /\ UNCHANGED <<lease, monitor, job, panel, failed, watcher, outside, offered>>

\* Mutant: the first load is left to the first tick.
BugNoFirstLoad == current

\* The watcher's constructor: no file, or one without a valid action, means
\* lock.  Its loop begins without any mtime.
FirstAction == IF stored \in Action THEN stored ELSE "lock"

NewPreferencesWatcher ==
  /\ Goto("prefs", "monitor") /\ wpc' = "tick" /\ current' = FirstAction
  /\ changed' = TRUE /\ offered' = {IF stored \in Action THEN stored ELSE "lock"}
  /\ UNCHANGED <<lease, monitor, owned, job, panel, failed, loaded, outside>>

\* newMonitor: nil without a source, else its goroutine begins to deliver.
NewMonitor ==
  /\ Goto("monitor", "notify")
  /\ IF source
     THEN seen' = {lid} /\ delivered' = "none" /\ busy' = FALSE /\ phase' = "on"
     ELSE UNCHANGED monitor
  /\ UNCHANGED <<lease, handler, watcher, outside, offered>>

-----------------------------------------------------------------------------
(* Run and Shutdown *)

Notify ==
  /\ Goto("notify", "run")
  /\ UNCHANGED <<lease, monitor, handler, watcher, outside, offered>>

\* The process is gone: the kernel closes the lock's descriptor, the panel
\* stays as it is.
ProcessEnds ==
  /\ pc' = "down" /\ lease' = "closed" /\ phase' = "off" /\ wpc' = "off"
  /\ busy' = FALSE /\ job' = "none" /\ loaded' = "lock" /\ changed' = FALSE
  /\ UNCHANGED <<seen, delivered, current, owned, panel, failed, offered>>

\* SIGTERM or SIGINT: caught only between signal.Notify and signal.Stop.
\* systemctl stop also means that the service is not started again.
Signal ==
  /\ Alive /\ Event /\ wanted' \in BOOLEAN
  /\ IF pc \in {"run", "quit"}
     THEN pc' = "quit" /\ UNCHANGED <<lease, monitor, handler, watcher, offered>>
     ELSE ProcessEnds
  /\ UNCHANGED <<lid, source, stored>>

\* A crash, or the SIGKILL that follows a stop that takes too long.
Crash ==
  /\ Alive /\ Event /\ ProcessEnds
  /\ UNCHANGED <<lid, source, stored, wanted>>

\* Mutant: the lock is released first, in the order of construction.
BugReleaseFirst(step) ==
  CASE step = "quit" -> "release"
    [] step = "release" -> "stopMonitor"
    [] step = "stopMonitor" -> "stopPrefs"
    [] step = "stopPrefs" -> "down"

\* The order of Shutdown; runDaemon returns after it.
After(step) ==
  CASE step = "quit" -> "stopMonitor"
    [] step = "stopMonitor" -> "stopPrefs"
    [] step = "stopPrefs" -> "release"
    [] step = "release" -> "down"

\* Run returns through signal.Stop; the deferred Shutdown begins.
Quit ==
  /\ Goto("quit", After("quit"))
  /\ UNCHANGED <<lease, monitor, handler, watcher, outside, offered>>

StopMonitor ==
  /\ pc = "stopMonitor" /\ Mon!Stop
  /\ UNCHANGED <<pc, lease, handler, watcher, outside, offered>>

\* Stop returns once run() and the readers have ended.
MonitorEnds ==
  /\ pc = "stopMonitor" /\ Mon!Off
  /\ UNCHANGED <<pc, lease, handler, watcher, outside, offered>>

\* Mutant: a monitor that is nil is waited for too.
BugNilMonitorAwaited == phase = "off" /\ source

\* A nil monitor needs no stopping.
MonitorEnded == phase = "off"

MonitorStopped ==
  /\ MonitorEnded /\ Goto("stopMonitor", After("stopMonitor"))
  /\ UNCHANGED <<lease, monitor, handler, watcher, outside, offered>>

\* The watcher ends at its select, between two ticks.
StopPrefs ==
  /\ Goto("stopPrefs", After("stopPrefs")) /\ wpc = "tick" /\ wpc' = "off"
  /\ UNCHANGED <<lease, monitor, handler, loaded, changed, outside, offered>>

Released ==
  /\ lease = "closed" /\ Goto("release", After("release"))
  /\ UNCHANGED <<lease, monitor, handler, watcher, outside, offered>>

-----------------------------------------------------------------------------
(* The components at work *)

Inhibit(step) ==
  /\ step /\ UNCHANGED <<pc, monitor, handler, watcher, lid, source, stored, wanted, offered>>

\* A lock is granted and honoured; logind is up in this module.  Once Release
\* has canceled the loop no further acquisition begins.
Granted ==
  Alive /\ pc # "release" /\ Inhibit(Lock!Take /\ lease' = "held") /\ UNCHANGED events

\* It dies, or dies on its way, or is given up although it is good, or is
\* granted while Release is under way.
LockTrouble ==
  /\ Alive /\ Event
  /\ Inhibit(\/ Lock!Take
             \/ Lock!Revoke
             \/ lease = "held" /\ Lock!Drop)

\* A dead lock is given up; Release gives up any and closes.
GiveUp ==
  /\ Alive /\ UNCHANGED events
  /\ Inhibit(\/ (lease = "stale" \/ pc = "release") /\ Lock!Drop
             \/ pc = "release" /\ Lock!Close)

\* The monitor calls HandleLidClosed, which reads the action, or HandleLidOpen.
Deliver(s) ==
  /\ Mon!Deliver(s)
  /\ job' = IF s = "closed" THEN current ELSE "open"
  /\ UNCHANGED <<pc, lease, current, owned, panel, failed, watcher, lid, source,
                 stored, wanted, offered>>

DeliverLid == Deliver(lid) /\ UNCHANGED events

\* A reader that was slow (LidMonitor: EchoBounded).
DeliverStale == Event /\ \E s \in Lid \ {lid} : Deliver(s)

\* Execute: only nothing touches the panel, if a monitor is there and swaymsg
\* works; otherwise the callback has nothing to claim.
Execute ==
  /\ job \in Action
  /\ \/ job = "nothing" /\ panel /\ panel' = FALSE /\ job' = "claim"
     \/ UNCHANGED panel /\ job' = "none"
  /\ UNCHANGED <<pc, lease, monitor, current, owned, failed, watcher, outside, offered>>

\* HandleLidOpen looks at the map, whatever the action is now.
Restore ==
  /\ job = "open"
  /\ \/ owned /\ panel' = TRUE /\ job' = "unclaim" /\ failed' = FALSE
     \/ owned /\ UNCHANGED panel /\ job' = "none" /\ failed' = TRUE
     \/ ~owned /\ UNCHANGED panel /\ job' = "none" /\ failed' = FALSE
  /\ UNCHANGED <<pc, lease, monitor, current, owned, watcher, outside, offered>>

\* The callback books what it did and returns to the monitor.
CallbackReturns ==
  /\ job \in {"claim", "unclaim", "none"} /\ Mon!Return
  /\ owned' = IF job = "none" THEN owned ELSE job = "claim"
  /\ job' = "none"
  /\ UNCHANGED <<pc, lease, current, panel, failed, watcher, outside, offered>>

\* Mutant: the poll takes a missing file for the default.
BugMissingIsDefault == changed \/ stored = "none"

\* A poll goes on to load if the file is there, with an mtime of its own.
NewMtime == changed /\ stored # "none"

Stat ==
  /\ wpc = "tick" /\ NewMtime /\ wpc' = "load" /\ changed' = FALSE
  /\ UNCHANGED <<pc, lease, monitor, handler, loaded, outside, offered>>

\* A file gone since then loads as the default, without an error; one that is
\* not valid is left to the next change.
Load ==
  /\ wpc = "load"
  /\ \/ stored \in Action /\ loaded' = stored /\ wpc' = "apply"
     \/ stored = "none" /\ loaded' = "lock" /\ wpc' = "apply"
     \/ stored = "bad" /\ UNCHANGED loaded /\ wpc' = "tick"
  /\ UNCHANGED <<pc, lease, monitor, handler, changed, outside, offered>>

\* Mutant: the goroutine returns after its first load.
BugWatchReturns == "off"

\* The loop goes on after SetAction.
NextPoll == "tick"

SetAction ==
  /\ wpc = "apply" /\ wpc' = NextPoll /\ current' = loaded /\ loaded' = "lock"
  /\ UNCHANGED <<pc, lease, monitor, owned, job, panel, failed, changed, outside, offered>>

-----------------------------------------------------------------------------
(* The outside *)

MoveLid ==
  /\ Event /\ \E to \in Lid \ {lid} :
       /\ lid' = to
       /\ IF phase = "off" THEN UNCHANGED monitor ELSE Mon!Move(to)
  /\ UNCHANGED <<pc, lease, handler, watcher, source, stored, wanted, offered>>

\* A save, an edit by hand, or a deletion.  What a missing file offers counts
\* only when a poll has already seen the file and is about to load it.
Edit ==
  /\ Event /\ stored' \in File \ {stored}
  /\ changed' = (wpc # "off" /\ (stored' # "none" \/ changed))
  /\ offered' = CASE wpc = "off" -> offered
                  [] stored' = "none" /\ wpc = "load" -> offered \cup {"lock"}
                  [] OTHER -> offered \cup ({stored'} \cap Action)
  /\ UNCHANGED <<pc, lease, monitor, handler, wpc, loaded, lid, source, wanted>>

UserStarts ==
  /\ ~wanted /\ wanted' = TRUE
  /\ UNCHANGED <<pc, lease, monitor, handler, watcher, lid, source, stored, events, offered>>

\* The outside has done what it may.
Settled == events = MaxEvents /\ UNCHANGED vars

Main ==
  \/ NewHandler \/ NewPreferencesWatcher \/ NewMonitor \/ Notify \/ Quit
  \/ StopMonitor \/ MonitorEnds \/ MonitorStopped \/ StopPrefs \/ Released

Callback == Execute \/ Restore \/ CallbackReturns
Watch == Stat \/ Load \/ SetAction

Next ==
  \/ Start \/ Main \/ Signal \/ Crash \/ Granted \/ LockTrouble \/ GiveUp
  \/ DeliverLid \/ DeliverStale \/ Callback \/ Watch
  \/ MoveLid \/ Edit \/ UserStarts \/ Settled

\* What the components promise: a lock is had again (Inhibitor:
\* EventuallyHeld) and a dead one given up, the lid's state is delivered
\* (LidMonitor: BackstopSyncs), Stop returns (LidDelivery), a stored action is
\* applied (PrefsWatcher: EventuallyApplied); the commands of a callback
\* return, and systemd restarts what is wanted.
Fairness ==
  /\ WF_vars(Start) /\ WF_vars(Main) /\ SF_vars(MonitorEnds)
  /\ WF_vars(Granted) /\ WF_vars(GiveUp)
  /\ WF_vars(DeliverLid) /\ WF_vars(Callback) /\ WF_vars(Watch)

Spec == Init /\ [][Next]_vars
FairSpec == Spec /\ Fairness

-----------------------------------------------------------------------------
(* Properties *)

\* Shutdown gives the lock up last: while the process lives and its lock has
\* been closed, no callback is under way, none can come and the action cannot
\* change, so that the daemon never acts on a lid that logind handles again
\* because of the shutdown.
LockOutlivesHandling ==
  (lease = "closed" /\ Alive) => (phase = "off" /\ ~busy /\ wpc = "off")

\* A lid close runs an action that the file has offered since this process read
\* it: from the very first callback on, and never an action of a process
\* before.  The default lock, which nobody may have chosen, runs only if there
\* was no valid file when the process read it first, or if a deletion fell
\* between a poll's stat and its load.
ClosesAsPreferred ==
  [][\A a \in Action : (job = "none" /\ job' = a) => a \in offered]_vars

\* Set and forget (README.md:23-26): if the service stays wanted, the process
\* comes back after every end, holds the lock, has handled the lid as it is and
\* runs the stored action, whatever the order in which New's parts got going:
\* for commands that return, and for a file that is readable and whose mtime
\* every write moves (PrefsWatcher: EventuallyApplied).
HandlingResumes ==
  <>[]wanted =>
    <>[](/\ pc = "run" /\ lease = "held"
         /\ source => delivered = lid /\ ~busy
         /\ stored \in Action => current = stored)

\* A caught signal ends the process, also with a callback under way, a lock
\* being acquired or a load in progress.
ShutdownEnds == pc = "quit" ~> pc = "down"

-----------------------------------------------------------------------------
(* What the README says and the code does not do *)

\* README.md:19-25: the panel is enabled again when the lid opens,
\* and lid handling survives respawns.
OpenShowsPanel ==
  (pc = "run" /\ delivered = "open" /\ ~busy /\ ~failed) => panel

=============================================================================
