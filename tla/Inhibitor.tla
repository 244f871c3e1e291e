----------------------------- MODULE Inhibitor -----------------------------
(***************************************************************************)
(* internal/daemon/inhibitor.go: the run loop that takes and keeps         *)
(* logind's handle-lid-switch block lock, the goroutine of each bus        *)
(* connection that watches for logind losing its name, Release(), and the  *)
(* outside the code depends on: the system bus and logind.                 *)
(*                                                                         *)
(* The run loop advances one blocking point or one access to shared state  *)
(* at a time (pc); everything else may happen between two of its steps.    *)
(***************************************************************************)
EXTENDS Integers, FiniteSets

CONSTANTS
  Conn,        \* identities of system-bus connections (reused once closed)
  NoConn,      \* Go's nil
  Descriptor,  \* file descriptors the kernel may hand out
  MaxFaults    \* bound of the model: how often the outside takes a lock away

NoFd == -1

ASSUME ConnAssumption == NoConn \notin Conn
ASSUME DescriptorAssumption == Descriptor \subseteq Nat
ASSUME FaultsAssumption == MaxFaults \in Nat

VARIABLES
  \* the Inhibitor
  pc,         \* where run() is
  state,      \* i.state
  fd,         \* i.fd
  conn,       \* i.conn
  grant,      \* acquireOnce's local fd, between the reply and the install
  cancel,     \* i.cancel is closed
  retryTick,  \* a tick is buffered in i.retry.C
  rel,        \* where Release() is
  \* the connections
  opened,     \* connections dialled and not closed by the process
  alive,      \* those whose transport still works
  lost,       \* connections whose lostCh is closed
  sig,        \* connections with a NameOwnerChanged("") not yet received
  \* the outside
  open,       \* live lock descriptors of the process
  locks,      \* <<descriptor, connection>>: locks logind honours
  bus,        \* the system bus accepts connections
  logind,     \* what logind answers to Inhibit()
  \* history
  faults,     \* times the outside took a logind, a bus or a transport away
  losses,     \* times the run loop gave a lock up as lost
  attempts    \* failed acquisitions since the retry ticker last fired

loop == <<pc, state, fd, conn, grant>>
conns == <<opened, alive, lost, sig>>
outside == <<bus, logind, faults>>
vars == <<loop, cancel, retryTick, rel, conns, open, locks, outside, losses, attempts>>

PC == {"top", "acquire", "call", "install", "publish", "wait", "watch",
       "lose", "drop", "done"}
State == {"acquiring", "acquired", "lost", "failed"}
Rel == {"idle", "waiting", "closing", "dropping", "returned"}
Logind == {"down", "denying", "granting"}

\* One type invariant: the values each variable of inhibitor.go ranges over.
TypeOK ==
  /\ pc \in PC /\ state \in State /\ rel \in Rel /\ logind \in Logind
  /\ fd \in Descriptor \cup {NoFd} /\ grant \in Descriptor \cup {NoFd}
  /\ conn \in Conn \cup {NoConn}
  /\ cancel \in BOOLEAN /\ retryTick \in BOOLEAN /\ bus \in BOOLEAN
  /\ opened \subseteq Conn /\ alive \subseteq Conn
  /\ lost \subseteq Conn /\ sig \subseteq Conn
  /\ open \subseteq Descriptor /\ locks \subseteq Descriptor \X Conn
  /\ faults \in 0..MaxFaults /\ losses \in Nat /\ attempts \in Nat

-----------------------------------------------------------------------------
(* Building blocks *)

\* Mutant: 0 taken for "no descriptor", as Go's zero value suggests.
BugZeroIsNoFd(f) == f > 0

\* The guard on every close of i.fd: 0 is a live descriptor.
IsFd(f) == f >= 0

\* syscall.Close(i.fd), behind that guard; closing the descriptor is what
\* releases the lock.
CloseFd ==
  /\ open' = IF IsFd(fd) THEN open \ {fd} ELSE open
  /\ locks' = {l \in locks : ~(IsFd(fd) /\ l[1] = fd)}

\* systemBusConn.close(): close lostCh once, drop the transport; that ends
\* the signal channel and with it watchLogind.
CloseConn(c) ==
  /\ opened' = opened \ {c}
  /\ alive' = alive \ {c}
  /\ lost' = lost \cup {c}
  /\ sig' = sig \ {c}

\* Mutant: the connection outlives the loss.
BugKeepConn == UNCHANGED <<conn, conns>>

\* dropConn(): close i.conn and forget it.
DropConn ==
  IF conn = NoConn
  THEN UNCHANGED <<conn, conns>>
  ELSE CloseConn(conn) /\ conn' = NoConn

\* Mutant: acquireOnce calls whatever connection it has.
BugConnNeverDead == FALSE

\* acquireOnce's test for a connection that cannot be called again.
ConnDead == conn # NoConn /\ conn \notin alive

Goto(from, to) == pc = from /\ pc' = to

Init ==
  /\ pc = "top" /\ state = "acquiring"
  /\ fd = NoFd /\ conn = NoConn /\ grant = NoFd
  /\ cancel = FALSE /\ retryTick = FALSE /\ rel = "idle"
  /\ opened = {} /\ alive = {} /\ lost = {} /\ sig = {}
  /\ open = {} /\ locks = {}
  /\ bus \in BOOLEAN /\ logind \in Logind
  /\ faults = 0 /\ losses = 0 /\ attempts = 0

-----------------------------------------------------------------------------
(* run() *)

\* The loop head: a canceled inhibitor ends, closing i.done.
ExitAtTop ==
  /\ cancel /\ Goto("top", "done")
  /\ UNCHANGED <<state, fd, conn, grant, cancel, retryTick, rel, conns, open,
                 locks, outside, losses, attempts>>

Start ==
  /\ ~cancel /\ Goto("top", "acquire") /\ state' = "acquiring"
  /\ UNCHANGED <<fd, conn, grant, cancel, retryTick, rel, conns, open, locks,
                 outside, losses, attempts>>

\* acquireOnce: a dead connection never recovers, so it is dropped ...
DropDead ==
  /\ pc = "acquire" /\ ConnDead
  /\ DropConn
  /\ UNCHANGED <<pc, state, fd, grant, cancel, retryTick, rel, open, locks,
                 outside, losses, attempts>>

\* ... a live one is called again ...
Reuse ==
  /\ conn # NoConn /\ ~ConnDead /\ Goto("acquire", "call")
  /\ UNCHANGED <<state, fd, conn, grant, cancel, retryTick, rel, conns, open,
                 locks, outside, losses, attempts>>

\* ... and without one connectSystemBus dials and subscribes.
Dial(c) ==
  /\ conn = NoConn /\ bus /\ c \notin opened /\ Goto("acquire", "call")
  /\ conn' = c
  /\ opened' = opened \cup {c} /\ alive' = alive \cup {c}
  /\ lost' = lost \ {c} /\ sig' = sig \ {c}
  /\ UNCHANGED <<state, fd, grant, cancel, retryTick, rel, open, locks,
                 outside, losses, attempts>>

\* run()'s error branch: publish the failure, then wait for cancel or tick.
Failed == pc' = "wait" /\ state' = "failed" /\ attempts' = attempts + 1

\* Dial, Auth, Hello or AddMatch fails.
DialFails ==
  /\ pc = "acquire" /\ conn = NoConn /\ ~bus /\ Failed
  /\ UNCHANGED <<fd, conn, grant, cancel, retryTick, rel, conns, open, locks,
                 outside, losses>>

\* logind's reply carries a descriptor the kernel just allocated.
InhibitGranted(f) ==
  /\ conn \in alive /\ logind = "granting" /\ f \notin open
  /\ Goto("call", "install")
  /\ grant' = f
  /\ open' = open \cup {f} /\ locks' = locks \cup {<<f, conn>>}
  /\ UNCHANGED <<state, fd, conn, cancel, retryTick, rel, conns, outside,
                 losses, attempts>>

\* The call fails: no logind, polkit says no, or the connection is dead.
InhibitRefused ==
  /\ pc = "call" /\ (conn \notin alive \/ logind # "granting") /\ Failed
  /\ UNCHANGED <<fd, conn, grant, cancel, retryTick, rel, conns, open, locks,
                 outside, losses>>

\* Close any previous descriptor before storing the new one.
Install ==
  /\ Goto("install", "publish")
  /\ CloseFd /\ fd' = grant /\ grant' = NoFd
  /\ UNCHANGED <<state, conn, cancel, retryTick, rel, conns, outside, losses,
                 attempts>>

Publish ==
  /\ Goto("publish", "watch") /\ state' = "acquired"
  /\ UNCHANGED <<fd, conn, grant, cancel, retryTick, rel, conns, open, locks,
                 outside, losses, attempts>>

\* The failed wait: select on cancel and the retry ticker, either when ready.
WaitCancel ==
  /\ cancel /\ Goto("wait", "done")
  /\ UNCHANGED <<state, fd, conn, grant, cancel, retryTick, rel, conns, open,
                 locks, outside, losses, attempts>>

\* Mutant: a default branch in the select turns the wait into a spin.
BugWaitSpins ==
  /\ Goto("wait", "top")
  /\ UNCHANGED <<state, fd, conn, grant, cancel, retryTick, rel, conns, open,
                 locks, outside, losses, attempts>>

WaitTick ==
  /\ retryTick /\ Goto("wait", "top")
  /\ retryTick' = FALSE
  /\ UNCHANGED <<state, fd, conn, grant, cancel, rel, conns, open, locks,
                 outside, losses, attempts>>

\* watchWhileAcquired: cancel, the lost channel, or a liveness tick that
\* finds the transport down.
\* Mutant: the held state forgets the cancel channel.
BugWatchIgnoresCancel == FALSE

WatchCanceled == cancel

WatchCancel ==
  /\ WatchCanceled /\ Goto("watch", "done")
  /\ UNCHANGED <<state, fd, conn, grant, cancel, retryTick, rel, conns, open,
                 locks, outside, losses, attempts>>

Lose ==
  /\ Goto("watch", "lose") /\ state' = "lost" /\ losses' = losses + 1
  /\ UNCHANGED <<fd, conn, grant, cancel, retryTick, rel, conns, open, locks,
                 outside, attempts>>

WatchLost == conn \in lost /\ Lose
WatchDead == conn \notin alive /\ Lose

\* Mutant: the inert descriptor is kept until the next install.
BugKeepStaleFd ==
  /\ Goto("lose", "drop")
  /\ UNCHANGED <<state, fd, conn, grant, cancel, retryTick, rel, conns, open,
                 locks, outside, losses, attempts>>

\* After a loss: close the inert descriptor, then the connection.
ReleaseFd ==
  /\ Goto("lose", "drop")
  /\ CloseFd /\ fd' = NoFd
  /\ UNCHANGED <<state, conn, grant, cancel, retryTick, rel, conns, outside,
                 losses, attempts>>

DropLost ==
  /\ Goto("drop", "top") /\ DropConn
  /\ UNCHANGED <<state, fd, grant, cancel, retryTick, rel, open, locks,
                 outside, losses, attempts>>

Run ==
  \/ ExitAtTop \/ Start \/ DropDead \/ Reuse \/ DialFails \/ InhibitRefused
  \/ Install \/ Publish \/ WaitCancel \/ WaitTick
  \/ WatchCancel \/ WatchLost \/ WatchDead \/ ReleaseFd \/ DropLost
  \/ \E c \in Conn : Dial(c)
  \/ \E f \in Descriptor : InhibitGranted(f)

-----------------------------------------------------------------------------
(* watchLogind(), the retry ticker and Release() *)

\* Mutant: the NameOwnerChanged filter matches the wrong owner.
BugSignalIgnored(c) == {}

\* What a received "logind lost its name" adds to the closed lost channels.
LostBy(c) == {c}

WatchLogind(c) ==
  /\ c \in sig
  /\ sig' = sig \ {c} /\ lost' = lost \cup LostBy(c)
  /\ UNCHANGED <<loop, cancel, retryTick, rel, opened, alive, open, locks,
                 outside, losses, attempts>>

\* time.Ticker drops a tick when one is already buffered; run's deferred
\* Stop ends it.
RetryTick ==
  /\ pc # "done"
  /\ retryTick' = TRUE /\ attempts' = 0
  /\ UNCHANGED <<loop, cancel, rel, conns, open, locks, outside, losses>>

\* Release(): a second call finds cancel closed and returns at once.
ReleaseStart ==
  /\ rel = "idle" /\ ~cancel
  /\ cancel' = TRUE /\ rel' = "waiting"
  /\ UNCHANGED <<loop, retryTick, conns, open, locks, outside, losses, attempts>>

\* Mutant: Release does not wait for i.done.
BugReleaseDoesNotWait == TRUE

LoopEnded == pc = "done"

ReleaseWait ==
  /\ rel = "waiting" /\ LoopEnded /\ rel' = "closing"
  /\ UNCHANGED <<loop, cancel, retryTick, conns, open, locks, outside, losses,
                 attempts>>

ReleaseCloseFd ==
  /\ rel = "closing" /\ rel' = "dropping"
  /\ CloseFd /\ fd' = NoFd
  /\ UNCHANGED <<pc, state, conn, grant, cancel, retryTick, conns, outside,
                 losses, attempts>>

\* Mutant: a nil connection is closed.
BugCloseNilConn ==
  /\ rel = "dropping" /\ rel' = "returned"
  /\ CloseConn(conn)
  /\ UNCHANGED <<loop, cancel, retryTick, open, locks, outside, losses, attempts>>

\* Release closes the connection but leaves i.conn pointing at it.
ReleaseCloseConn ==
  /\ rel = "dropping" /\ rel' = "returned"
  /\ IF conn = NoConn THEN UNCHANGED conns ELSE CloseConn(conn)
  /\ UNCHANGED <<loop, cancel, retryTick, open, locks, outside, losses, attempts>>

Release == ReleaseStart \/ ReleaseWait \/ ReleaseCloseFd \/ ReleaseCloseConn

-----------------------------------------------------------------------------
(* The outside: the system bus and logind *)

Fault == faults < MaxFaults /\ faults' = faults + 1

\* logind exits or restarts: every lock dies, and each connected subscriber
\* is sent NameOwnerChanged with an empty new owner.
LogindDown ==
  /\ Fault /\ logind # "down" /\ logind' = "down"
  /\ locks' = {} /\ sig' = sig \cup alive
  /\ UNCHANGED <<loop, cancel, retryTick, rel, opened, alive, lost, open, bus,
                 losses, attempts>>

\* logind comes up, or polkit changes its mind about inhibit locks.
LogindAnswers ==
  /\ logind' \in {"denying", "granting"} \ {logind}
  /\ UNCHANGED <<loop, cancel, retryTick, rel, conns, open, locks, bus, faults,
                 losses, attempts>>

\* One transport breaks; the signals still under way on it are lost.
TransportDrop(c) ==
  /\ Fault /\ c \in alive
  /\ alive' = alive \ {c} /\ sig' = sig \ {c}
  /\ locks' = {l \in locks : l[2] # c}
  /\ UNCHANGED <<loop, cancel, retryTick, rel, opened, lost, open, bus, logind,
                 losses, attempts>>

\* The bus daemon exits, and every transport with it.
BusDown ==
  /\ Fault /\ bus /\ bus' = FALSE
  /\ alive' = {} /\ sig' = {} /\ locks' = {}
  /\ UNCHANGED <<loop, cancel, retryTick, rel, opened, lost, open, logind,
                 losses, attempts>>

BusUp ==
  /\ ~bus /\ bus' = TRUE
  /\ UNCHANGED <<loop, cancel, retryTick, rel, conns, open, locks, logind,
                 faults, losses, attempts>>

Outside ==
  \/ LogindDown \/ LogindAnswers \/ BusDown \/ BusUp
  \/ \E c \in Conn : TransportDrop(c)

Next ==
  \/ Run \/ RetryTick \/ Release \/ Outside
  \/ \E c \in Conn : WatchLogind(c)

\* The scheduler runs every goroutine that can run; tickers fire; a Release
\* that began goes on. Nobody owes a Release, a fault or a recovery.
Fairness ==
  /\ WF_vars(Run) /\ WF_vars(RetryTick)
  /\ WF_vars(ReleaseWait \/ ReleaseCloseFd \/ ReleaseCloseConn)
  /\ \A c \in Conn : WF_vars(WatchLogind(c))

Spec == Init /\ [][Next]_vars
FairSpec == Spec /\ Fairness

-----------------------------------------------------------------------------
(* Safety *)

\* Every live lock descriptor is the stored one or the one being installed,
\* and a stored descriptor is live: nothing leaks across losses, failures and
\* Release, and no later close can hit a descriptor closed before (fd 0 too).
\* There are never two: a new one is received only after the old one was given
\* up (docs/invariants.md:28-32, although acquireOnce closes after it calls).
DescriptorsOwned ==
  /\ open = {f \in {fd, grant} : f # NoFd}
  /\ fd = NoFd \/ grant = NoFd

\* While the loop watches a lock that logind no longer honours, something
\* will wake it: the lost channel, a signal on its way, or a dead transport.
LossIsDetectable ==
  (pc = "watch" /\ <<fd, conn>> \notin locks)
    => conn \in lost \cup sig \/ conn \notin alive

\* The published state "acquired" is backed by a descriptor and a connection
\* that are both still open, until Release closes them.
AcquiredIsBacked ==
  (state = "acquired" /\ rel \notin {"dropping", "returned"})
    => fd \in open /\ conn \in opened

\* When Release has returned, the loop has ended and neither a descriptor nor
\* a connection of this process is left open, whenever it was called.
CleanRelease ==
  rel = "returned" => pc = "done" /\ open = {} /\ opened = {} /\ locks = {}

\* The loop gives up at most one lock per outside fault: a reacquisition never
\* finds the traces of the loss it recovers from (no hot loop).
LossesCharged == losses <= faults

\* Between two ticks of the retry ticker at most two acquisitions fail: the
\* one a buffered tick allows and the one the fresh tick allowed. (Not one, as
\* "the wait between failed attempts", inhibitor.go:47-48, may suggest.)
RetryPaced == attempts <= 2

-----------------------------------------------------------------------------
(* Liveness and refinement *)

Healthy == bus /\ logind = "granting" /\ ~cancel
Held == state = "acquired" /\ <<fd, conn>> \in locks

\* If bus and logind stay healthy from some point on, the lock is held from
\* some point on: the inhibitor never gives up while the daemon lives.
EventuallyHeld == <>[]Healthy => <>[]Held

\* A Release that has started returns, wherever the loop was.
ReleaseTerminates == cancel ~> rel = "returned"

lease ==
  IF rel = "returned" THEN "closed"
  ELSE IF fd = NoFd THEN "none"
  ELSE IF <<fd, conn>> \in locks THEN "held" ELSE "stale"

Promise == INSTANCE InhibitLease WITH lease <- lease

\* The run loop implements the lease: one lock at a time, nothing taken after
\* Release, and a lock that died is always given up.
ImplementsLease == Promise!Spec

=============================================================================
