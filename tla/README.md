# sway-power in TLA+

Specifications, model-checking configurations and proofs for the logic of
sway-power: the daemon that takes over the laptop lid from logind, the files
and services around it, and the GUI: its service links, power buttons, battery display and
colours.
Line numbers refer to the sources under `src/`.

## 1. Inventory

| part | source | state it keeps | operations | talks to |
|---|---|---|---|---|
| inhibitor | `internal/daemon/inhibitor.go` | state, fd, connection, cancel/done | run loop, acquireOnce, watchWhileAcquired, watchLogind, Release | system bus, logind |
| lid monitor | `internal/daemon/monitor.go` | channel of states, last delivered, stop/done | readEvdev, pollLoop, run, Stop | kernel, handler (callback) |
| handler, action, display | `internal/daemon/handler.go`, `internal/lid/action` | current action, disabledByUs | HandleLidClosed, HandleLidOpen, SetAction | swaymsg, swaylock, systemctl |
| preferences | `internal/preferences` | the file | Save, Load, LoadFromPath | file system |
| preferences watcher | `internal/daemon/preferences_watcher.go` | last mtime, stop/done | watch, Stop | the file, handler.SetAction |
| bootstrap | `internal/bootstrap` | unit file, flock | Bootstrap, Uninstall | systemd user manager |
| lid service links | `internal/ui/lid_buttons.go` | installed, inFlight | install, uninstall, setAction | bootstrap, preferences |
| power profiles and buttons | `internal/power`, `internal/ui/power_profiles.go` | connection, signal channel, once, buttons | connect, watch, setProfile, destroy | profiles daemon, GUI thread |
| daemon | `internal/daemon/daemon.go`, `cmd/sway-power/main.go` | the four components | New, Run, Shutdown | all of the daemon's parts, systemd |
| battery reader | `internal/battery` | none | Read and what it derives from sysfs | kernel |
| window, battery display | `internal/ui/window.go`, `battery_display.go` | what is shown, smoothed estimate, last status | Show, the reading goroutine, update | battery reader, GUI thread |
| configuration, palette, button style | `internal/config`, `internal/ui/palette.go`, `utils.go`, `toggle_button_widget.go` | the merged file, the palette | merge, Validate, BuildPalette, restyle | main, window |
| session checks, logger, theme and layout | `internal/daemon/session.go`, `internal/logger`, `internal/ui/theme.go`, `layout.go` | none | | |

What is hard, part by part:

- **Inhibitor.** A lock lives in logind, its descriptor in the process, and the
  news of its death in a third place (a signal, or a transport found dead).
  They change in any order, while Release may start at any point.
  *Correct means*: no descriptor leaks, a dead lock is always noticed, the lock
  comes back, Release leaves nothing and returns.
- **Monitor.** Two readers observe one lid, each reading at one moment and
  sending at a later one through a bounded channel, with a callback that may
  block. *Correct means*: the delivered state catches up with the lid, a
  movement is not delivered over and over, Stop ends everything.
- **Handler.** What the daemon owes (panels it switched off) is recorded while
  calls fail, actions are swapped and processes die. *Correct means*: nothing
  owed is forgotten and nothing else is touched.
- **Preferences.** A file with several writers, a polling reader that stats,
  loads and applies in three steps, and users with editors. *Correct means*: a
  bad file never changes the action and a good one eventually does.
- **Bootstrap.** A sequence of file writes and systemctl calls under a flock,
  any of which may fail or be cut off. *Correct means*: what an operation that
  reports success promised is true.
- **Power buttons.** A signal channel that three parties close, and values read
  in one goroutine and shown in another. *Correct means*: no panic, no leak,
  the buttons show the profile.

- **Daemon.** Four parts are built one after the other and stopped in another
  order, while signals, crashes, lid movements and edits arrive at any point.
  *Correct means*: no handling of the lid without the lock during a shutdown,
  only preferred actions, a service that comes back to what is wanted.
- **Battery display.** Several files of a supply that changes between their
  reads, a goroutine that reads and a thread that draws later, an average that
  remembers. *Correct means*: the estimate never leaves what was read under the
  status shown by more than float32 rounds, and the display comes to say what the supply says.
- **Colours.** Defaults that depend on other settings and on the system's mode.
  *Correct means*: what the user set is what is shown, and text stays readable.

`PROJECT.json` lists every hazard at its line with the properties that cover it.

## 2. Modules and their correspondence to the code

| module | models | grain of a step |
|---|---|---|
| `InhibitLease` | what the inhibitor promises: none, held, stale, closed | abstract |
| `LidDelivery` | what the lid monitor promises: states the lid has had, one callback at a time, a Stop that returns | abstract |
| `Inhibitor` | `inhibitor.go` with bus and logind; refines `InhibitLease` | one blocking point or one access to shared state |
| `LidMonitor` | `monitor.go`; refines `LidDelivery` | one read, one send, one receive |
| `LidHandler` | `handler.go`, `display.go`, `action.go` | one swaymsg call, one critical section |
| `Preferences` | `preferences.go` over inodes and paths | one system call |
| `PrefsWatcher` | `preferences_watcher.go`, extends `Preferences` | stat, load, apply |
| `Daemon` | `daemon.go`, `runDaemon`, the unit's Restart; composes `InhibitLease` and `LidDelivery` | one constructor, one stop, one step of a component |
| `Bootstrap` | `bootstrap.go`, the links of `lid_buttons.go` | one file operation or systemctl call |
| `PowerWatch` | `power_profiles.go`, the watch of `ppd.go`/`tuned_ppd.go` | one channel operation, one function on the GUI thread |
| `Battery` | `battery.go`: what Read makes of the files | operators |
| `Appearance` | `config.go`, `palette.go`, parseHexColor, restyle | operators |
| `Window` | `window.go`, `battery_display.go`, the GUI mode of `main`; extends the two above | half a read, one function on the GUI thread |
| `InhibitorProofs`, `LidMonitorProofs`, `LidHandlerProofs`, `PrefsWatcherProofs`, `DaemonProofs`, `BootstrapProofs`, `PowerWatchProofs`, `WindowProofs` (with `Battery` and `Appearance`) | theorems | |

`MC<module>` instantiates a module for TLC; `MC*.cfg` are its runs.
Definitions named `Bug...` are mutants: the form a plausible mistake would give
the definition that follows them. No specification uses them; substituting one
must make the run of the property it belongs to fail.

**Inhibitor.** `pc` follows `run()` through `acquireOnce`: "acquire" (drop a dead
connection, dial), "call" (Inhibit), "install", "publish", "watch", "lose",
"drop", "wait". `fd`, `conn`, `state`, `cancel` are the fields; `done` closed is
`pc = "done"`; `grant` is the local `fd` of `acquireOnce`. Per connection,
`lost` is a closed `lostCh`, `alive` what `Connected()` returns, `sig` a
NameOwnerChanged on its way to `watchLogind`. The liveness ticker needs no
variable: a tick is always about to come, so `WatchDead` is enabled as soon as
the transport is dead. `RetryTick` fires at any time into a buffer of one.
`locks` is what logind honours: it goes with logind, with the bus, with the
connection, or when the descriptor is closed, as the comments of
`inhibitor.go:162-166` and `301-304` say.

**LidMonitor.** A reader is "read" → "send" → ..., with the value read kept in
between. `states` is the channel. `kernel` holds undelivered input events,
including the EV_SYN the kernel adds to each switch event. The event encoding
(type, code, 1 = open) is the one the code and its tests use; the module says
nothing about whether a given kernel uses it. If it does not, `readEvdev` fails
or skips every event, which the model covers too: `EvError` may happen at any time.

**LidHandler.** `owned` is `disabledByUs`; `todo` and `done` are the loops'
progress; `debt` is history: what this process switched off and not on again,
independent of the map. lock and sleep leave all of this alone, so closing
with them only changes `delivered`. A panel is one name for both get_outputs and
output commands. `Restart` is the end of the process at any point and a new one
started by systemd.

**Daemon.** `pc` follows `New`, `Run` and `Shutdown`. The inhibitor is its lease:
the steps of the composition are `InhibitLease`'s actions, which `Inhibitor` is
shown to implement; the monitor is `LidDelivery`'s four variables, which
`LidMonitor` implements. What the abstract specifications leave open is an
event of the outside here (`LockTrouble`, `DeliverStale`). The handler is one
panel and its bit in the ownership map. The watcher is a stat, a load and a
SetAction, the file one word: an action, "bad", or "none" when it is missing.
It is readable whenever it is there, and every write moves its mtime (`changed`);
what happens without that is `PrefsWatcher`'s subject. A file deleted between the
stat and the load yields the default, without an error (`preferences.go:61-62`),
and counts as an offer of lock from then on. `Signal` is caught only between
`signal.Notify` and `signal.Stop`; anywhere else it ends the process like
`Crash`. `source` says that `newMonitor` finds a state file: a machine with an
evdev device alone, which tells no initial state, is `LidMonitor`'s subject.

**Battery, Window.** A sysfs file is its number or `Absent` (cannot be read or
parsed). A read is two steps, so that the supply may change in its middle. What
a goroutine posts with `fyne.Do` waits in `queue`. `shown` is the display with
its numbers instead of their wording; 0 stands for an empty text, as in the code.
Durations are counted in units of which `Hour` make an hour; a float too large for
an int64 becomes `Overflow`, the smallest int64 on amd64, the largest on arm64.
The float64 values of the reader are taken as exact (they are to within a
nanosecond at hours). The average is not: `battery_display.go:41` computes it in
float32, whose grain at hours is 2^19 ns, so two readings of 1.5 h average to
0.2 ms more than either. `Smooth` therefore yields any value within one part in
2^21 plus one of the exact average, which contains what float32 gives with or
without fused operations; the properties allow for it with `Tolerance`, which is
39 ms at 1.5 h.

**Appearance.** A colour in the file has a form (unset, plain, padded with
blanks, bad) and a value: what validation accepts and what parseHexColor
understands differ in the padded form. Luminance is counted in thousandths, so
the comparison with 140 is exact.

**Preferences, PrefsWatcher.** Paths name inodes, so `O_TRUNC` on a shared
temporary file and renames behave as on a real file system. Content is one of
the actions, "bogus" (parses, is no action) or "torn" (does not parse). Write
errors of `Save` (full disk) leave what `WriterCrash` leaves. `synced` holds the
inodes the disk has; `PowerLoss` may cut any other short, and `Reboot` starts the
watcher anew. The fsync of the code is best effort: in `SaveSync` it brings the
content to the disk or fails, and the rename follows either way. Two histories
tell where the code may expose an incomplete file: `shared`, the inodes that two
saves under way at once may have written, and `unflushed`, those whose fsync
failed. A GUI's `setAction` is a save of any action.

**Bootstrap.** A unit is represented by the path in its ExecStart. A failing
systemctl call has no effect; import-environment changes nothing modelled and
cannot fail an operation. `fresh` tells whether the running daemon is the binary
now at its path.

**PowerWatch.** `ui` is the queue of functions given to `fyne.Do`, executed in
order by the GUI's thread; while `setProfile` waits for its reply that thread is
taken. The bus library delivers signals in order and closes registered channels
when the connection ends. Fewer signals than the channel's 16 are outstanding.
`destroy` uses the handles `connect` has left so far; with `EarlyDestroy` it may
run before `connect` is through.

## 3. Runs

One passing run per component checks its safety, liveness and refinement
together. All of them explore their whole state space.

| run | bounds | distinct states | shows |
|---|---|---|---|
| `MCInhibitor` | 2 connections, descriptors 0 and 1, 3 faults | 60 284 | six safety invariants (descriptor numbers and connections are reused after close); the lock is held once the outside stays healthy; Release returns; refinement of `InhibitLease` |
| `MCLidMonitor` | 2 movements, channel of 2, 1 read error | 116 909 | callbacks per movement are bounded; the state catches up; refinement of `LidDelivery`, whose Stop returns |
| `MCLidHandler` | 2 panels, 1 monitor, 2 failing calls, 1 respawn | 67 632 | ownership is exact, nothing is forgotten, nothing foreign is enabled, panels come back |
| `MCPrefsWatcher` | 2 writers, 2 inodes, 3 writes after the first file, failing fsyncs, torn and invalid edits, chmod, equal mtimes, power losses | 1 953 794 | the last good action is kept, the only saves that expose a torn file are two at once and one that is not flushed when the power goes, a valid action is applied |
| `MCDaemon` | 4 events: signals, crashes, lost locks, stale states, lid movements, edits and deletions | 620 576 | the lock outlives the handling, closes run preferred actions, the service comes back, a shutdown ends |
| `MCBootstrap` | a GUI and a CLI, 2 paths, 1 failing call, 1 death | 289 636 | what success means; every operation ends |
| `MCPowerWatch` | 2 profiles, 3 changes, the bus may drop | 173 260 | one close, buttons follow, the watch ends |
| `MCWindow` | 7 supplies, 2 changes, 2 queued updates, 4 config files, light and dark; 300 units an hour, durations up to 20 hours | 833 302 | the estimate stays bounded up to rounding, the user's colours are shown, the display catches up |

Why these bounds are enough for what they show. Three faults allow a loss, a
loss during the recovery from it and another after that, with only two
connections to reuse. Two movements and a channel of two let a stale value of
each reader meet the other reader's values with the channel full; the eight of
the code only lengthens the queue, and `EchoBounded` is stated so that it does
not depend on it. Two panels tell partial failure from total failure. A save is
two writes, to truncate and to fill, and the file that is there at first counts
as one of the four of `MaxWrites`: the three that follow are a save and an edit
before or after it, a save and another that truncates what it is about to rename,
or a save that dies and one that reuses what it left. Four daemon events are a crash or signal, a lost lock, a lid movement and an
edit in any order, or one of them over and over. The seven supplies are one for
every branch the reader takes (charge, no average, charging, overflow, energy
units with no rate, an unreadable capacity, none); two changes put a third supply
after a read that a first change split. At the sizes of `MCWindow` an average is
rounded by one unit (12 s) up or down and the tolerance is 15 units (3 minutes),
where supplies are half an hour and more apart; the part of the rounding that
grows with the time, and amd64's `Overflow`, are the proof's. Two installers and two paths tell every order of unit contents apart.

Runs that expect a violation state a sentence of a comment, the README or
`docs/invariants.md` that the code does not keep:

| run | sentence | what happens |
|---|---|---|
| `MCLidMonitorOnce` | a transition is delivered at most once (`invariants.md:75`) | the poll's stale value is sent after evdev's event: closed, open, closed |
| `MCDaemonRestart` | the panel comes back on open, and handling survives respawns (`README.md:19-25`) | the successor of a process owns nothing and leaves the panel dark |
| `MCBootstrapRetry` | an install enables the service (`README.md:65-71`) | the retry of a failed install takes the unchanged branch |
| `MCPowerWatchDrop` | the connection's end closes the channel and ends the goroutine (`inhibitor.go:333-334`) | the deferred function closes it once more and panics |

Divergences that the passing properties are worded around, and no run of its own
shows:

- `inhibitor.go:47-48` calls retryInterval the wait between failed attempts. The
  ticker runs freely and buffers one tick, so the first wait may be empty:
  `RetryPaced` says two per interval, not one.
- `handler.go:18` removes entries once their restore succeeds; after a failure
  of one panel the restored others stay too (`OwnershipExact` excludes that).
- `invariants.md:46-47`: outputs the user disabled are never re-enabled. One that
  the daemon disabled, and the user then enabled and disabled again, is.
  `OnlyOursEnabled` says what holds.
- `PanelOnInOneLife` speaks of one life of the process, as `MCDaemonRestart` shows
  it must.
- `inhibitor.go:221-227`: a connection that survives a logind restart is kept. The
  loss signal it still owes costs the lock acquired next, which is live: the
  inhibitor gives up a good lock once and takes it again. `LossesCharged` counts it.
- `display.go:56-58`: panels go off only with a monitor enabled. `get_outputs` and
  the disable (`:90`) are two calls: unplugged between them, nothing is left on.
- `preferences.go:75-77`: the daemon always sees complete files. Two GUIs share one
  temporary path (`:95`), and one renames what the other has just truncated. A
  fsync that fails, or whose open fails, is ignored (`:102-106`), so that a power
  loss after the rename can leave an incomplete file at the final path.
  `CompleteFile` says that there is no third way.
- `README.md:139-141`: without a lid source logind keeps handling the lid. The
  inhibitor starts before the monitor is looked for, and its lock stays.
- `config.go:108-115` accepts a colour padded with blanks, which `parseHexColor`
  (`utils.go:57-78`) renders black, though the comment says that the format is the
  one the UI renders. `ColoursHonoured` speaks of colours without blanks, and a
  file of `MCWindow` has one with.
- `lid_buttons.go:234-239`: setAction shows the new action also after a Save that
  failed. `lid_close.action` of config.yaml is validated and used nowhere.
- `battery_display.go`: an error or a missing battery leaves the last icon and the
  average as they were; `DisplayCatchesUp` asks for note, track and time only.
- `preferences_watcher.go:78` records the mtime before the load; a file that was
  unreadable at that moment is not loaded again when its permissions are
  repaired. `EventuallyApplied` assumes a readable file.
- `preferences_watcher.go:67` and `invariants.md:98-99`: a missing file means
  defaults. One that is deleted while the daemon runs changes nothing, unless the
  deletion falls between a poll's stat and its load (`:81`): then the default is
  swapped in over the user's choice. `ClosesAsPreferred` and `LastGoodKept` count
  a file missing at the load as one that offers lock.
- `README.md:77-78`: uninstall stops the service. The error of `disable --now`
  is dropped (`UninstallCleans` assumes no failing call).
- `lid_buttons.go:23-25`: buttons only when installed. After an uninstall whose
  daemon-reload failed they stay until the next attempt.
- `power_profiles.go:84-95` reads the profile, then subscribes: a change in between
  is never shown (`ButtonsFollow` excludes it with `missed`).

### Fairness

- Weak fairness on each goroutine's next step: the Go scheduler runs what can
  run. In `Inhibitor` also on the retry ticker and on the steps of a Release
  that has started. Nobody owes a Release, a Stop, a fault, a recovery, a lid
  movement or an edit.
- In `PrefsWatcher` the watcher's steps: writers and users owe nothing.
- In `Daemon` what the components promise and are shown to keep: a lock is had
  again (`EventuallyHeld`) and a dead one given up (`InhibitLease`), the lid's state
  is delivered (`BackstopSyncs`), Stop returns though callbacks go on for a while
  (strong, as in `LidDelivery`), a stored action is applied (`EventuallyApplied`).
  Beyond that: commands return, and systemd starts what is wanted.
- In `Window` the ticker and sysfs, and Fyne's thread. Nobody owes a change.
- Strong fairness only where a `select` has several ready branches (Go picks one
  uniformly at random, so a branch that is ready again and again is taken:
  `RunStop`, `PollStop`, `Receive`, `PollSend`, `EvSend`, `WatchEnds`) and on the
  flock, which the kernel grants to waiters in turn (`AcquireLock`).
- `EventuallyHeld` assumes the outside becomes and stays healthy; `BackstopSyncs`
  and `EvdevSyncs` that the respective source works and nobody stops the monitor;
  `PanelsComeBack` that the lid keeps being closed and opened and calls fail
  finitely often (the bound); `EventuallyApplied` that the file stays readable and
  every write moves its mtime; `HandlingResumes` the same of the file, and
  that the service stays wanted and the commands return;
  `DisplayCatchesUp` that the window stays open and the supply stays as it is;
  `ButtonsFollow` that there are no taps and no change in `connect`'s gap.

`CHECK_DEADLOCK` is on everywhere: the states in which a system is legitimately
over have an explicit stuttering action (`Terminated`, `Quiescent`, `Closed`);
the others always have a step (`Settled` in `Daemon` and `Ended` in `Window` are
such stutterings).

## 4. Proofs

All theorems hold for every value of the constants that satisfies the named
assumptions of the module they are about (`ASSUME ...Assumption`: sets that do not
overlap, bounds that are numbers, sentinels outside the sets they mark, for
`Preferences` at least one inode and room for the write that made the first file,
and for `Window` config files and supplies of the shapes `File` and `Supply`).
With what the runs check, every safety property of theirs is proved; two
theorems carry a hypothesis on a constant, stated in the theorem and explained
below (`EarlyDestroy = FALSE`, `CoarseClock = Chmods = FALSE`).

| module | theorem | property |
|---|---|---|
| `InhibitorProofs` | `TypeCorrect` | `TypeOK` |
| | `NoDescriptorLeaks` | `DescriptorsOwned` |
| | `LossDetected` | `LossIsDetectable` |
| | `AcquiredBacked` | `AcquiredIsBacked` (proved only) |
| | `ReleaseLeavesNothing` | `CleanRelease` |
| | `NoHotLoop` | `LossesCharged` |
| | `RetriesPaced` | `RetryPaced` |
| | `InhibitorImplementsLease` | initial states and steps of `Inhibitor` map to those of `InhibitLease` |
| `LidMonitorProofs` | `MonitorTyped` | `TypeOK` |
| | `StopLeavesNothing` | `StopIsQuiet` |
| | `MonitorImplementsDelivery` | initial states and steps of `LidMonitor` map to those of `LidDelivery` |
| | `EchoDiesOut` | `EchoBounded` |
| | `NoEchoFromOneSource` | `AtMostOnceFromOneSource` |
| | `NewestIsDelivered` | `DrainedIsSynced` (proved only): the safety core of `EvdevSyncs` and, for the file alone, `BackstopSyncs` |
| `LidHandlerProofs` | `HandlerTypeCorrect` | `TypeOK` |
| | `PanelsRemembered` | `NoPanelForgotten` |
| | `OwnershipIsDebt` | `OwnershipExact` |
| | `NothingForeignEnabled` | `OnlyOursEnabled` |
| | `PanelsOnInOneLife` | `PanelOnInOneLife` |
| `PrefsWatcherProofs` | `OnlyOfferedActions` | `LastGoodKept` |
| | `WatcherTypeCorrect` | `TypeOK` |
| | `SavesAreComplete` | `CompleteFile` |
| | `SkipsAreHarmless` | `NoChangeMeansCurrent` (proved only): the safety core of `EventuallyApplied` |
| `DaemonProofs` | `DaemonTypeCorrect` | `TypeOK` |
| | `LockGivenUpLast` | `LockOutlivesHandling` |
| | `CloseRunsPreferred` | `ClosesAsPreferred` |
| `BootstrapProofs` | `NoTornUnitLoaded` | `TypeOK` |
| | `SequencesExclude` | `Serial` (proved only): the flock excludes |
| | `InstalledIsServed` | `InstallServes` |
| | `UpgradesServe` | `UpgradeTakesEffect` |
| | `UninstallLeavesNothing` | `UninstallCleans` |
| `PowerWatchProofs` | `StopExcludesPanic` | `StoppedIsSafe` (proved only) |
| | `ClosedOnce` | `NoDoubleClose`, for `EarlyDestroy = FALSE` |
| `WindowProofs` | `EstimateStaysBounded` | `EstimateBounded` |
| | `ColoursAsConfigured` | `ColoursHonoured` |
| | `VoltageUnitsAgree` | millivolts and microvolts of one voltage agree |
| | `UserColourWins` | what `ColoursHonoured` asks of one palette |
| | `TextReadable`, `ButtonsReadable` | contrast of the text `onColor` picks |
| | `EmphasisOrdered` | titles, categories, values, labels in both palettes |

Each state machine has an inductive invariant, proved initial and kept by every
action: `IInv` in four modules; where the theorems rest on different facts, one
per group of theorems, named below. TLC has checked them on the instances of the
runs, `EchoPaid` with its count bounded, and of `Window` the parts whose types are
finite.

### Inhibitor

None of the invariants is inductive alone. `IInv` adds what the code's control
flow guarantees:

- `FdByPc`, `ConnByPc`: where the loop stands decides whether a descriptor is
  stored or in hand and whether there is a connection; `opened` is never more
  than `{conn}`.
- `LocksBacked`: logind honours only locks of live descriptors on the current
  connection.
- `GrantTracked`: from the moment a lock is granted, before the loop watches
  anything, it is honoured or its loss has left a trace. This is what makes
  `LossIsDetectable` hold when the loop arrives at its select.
- `ReleaseOrder`, `AcquiredByPc`: Release's progress against `pc` and `state`.
- `LossesCounted`: `losses + Owed <= faults`, where `Owed` is 1 while the current
  connection carries the traces of a loss nobody paid for yet; without it
  `LossesCharged` cannot be carried through a recovery.
- `AttemptsCounted`: failures, plus one if a tick is buffered, plus one if an
  attempt is under way, are at most two.

`InitIInv` and `StepIInv` (one case per action) give `InvariantIInv`; each theorem
follows from one or two conjuncts. The refinement goes by `LeaseStutter`,
`LeaseRelease`, `LeaseNone`, `LeaseRevoke` and `LeaseStep`.

### LidMonitor

- `EndOrder` (each place `run()` has reached tells what holds by then) carries
  `StopIsQuiet`. With `OnlyStatesSeen` (until the lid moves, whatever is on its way
  is its only state) it gives the refinement: `ReceiveDelivers`, `MoveMoves`,
  `DeliveryStep`.
- Callbacks are counted against movements. `EventsPaired` (a lid event is followed
  by its EV_SYN, seen from the end of the queue) makes the queue's length say how many lid
  events are outstanding: `Pending`. For the device alone, `EventsAreMoves`:
  callbacks, channel and pending events together never exceed the movements.
- With the file that sum does not work: the poll sends without limit, and what
  it sends costs a callback only where it differs from its neighbour. `EchoPaid`
  says there is a count along the channel (`Ladder`: entry by entry the callbacks
  made once it is received) whose end, one more if the reader's value differs from
  the end of the channel, one more if the lid has moved since that reading, and
  two for each pending event stay within the allowance of `3 * moves + 1` callbacks
  (`moves + 1` without the device). The count is quantified, not computed, because
  what a recursive sum yields cannot be proved here; `LadderShift` (a receive) and
  `LadderExtend` (a send) are all it takes.
- `SyncInv` follows the newest value of a source from the device or the file
  through reader and channel to the change detector (`DeviceSpeaksLast`,
  `FileSpeaksLast`). With nothing left on its way it has been delivered.

### Bootstrap

- `LockInv`: who is between Lock and Unlock holds the flock, so at most one is;
  `UnitOfHolder`: past its write, or the comparison that skipped it, an install finds
  its own unit. The two need no calm. They also give `NoTornUnitLoaded`: only the
  holder's unit is ever loaded, and it is complete by then.
- `CalmInv`, while no call has failed and nobody has died: between two sequences unit, manager
  and daemon agree (`AtRest`), and `Progress(p)` says what the holder has
  reached at each step. `InstallReturns` and `UninstallReturns` read the three
  properties off the last step. `UserStops` and `BinaryReplaced` may come at any
  point of all that.

### PowerWatch

`OnceInv`: the watch starts once, in the step before connect's last; stopCh and the
deferred close share one `once`; and the signal channel was closed by the bus,
by destroy's closing of the connection, or by the deferred function (`ClosedBy`).
`StoppedFirst` adds that destroy has stopped the watch, or found nothing to stop,
before it closes the connection. That holds only if destroy runs after `connect`
has left its stop function, hence `EarlyDestroy = FALSE` in `ClosedOnce`;
`MCPowerWatchDrop` explores the other case. `StopExcludesPanic` needs no hypothesis.

### The other modules

- **LidHandler.** `DoneByPc` says what a callback has in hand at each point,
  `OursCovers` that whatever the map or the callback names was switched off by this
  process, `Balanced` that without a failure the books add up in the middle of a
  callback too (an open that follows a failed one starts with too many entries
  and still ends balanced), `CallbackByState` which callback may be under way.
  `OffForAReason` carries `PanelOnInOneLife`: in the first life a panel is on, owed,
  or switched off by the user.
- **PrefsWatcher.** A file that is legible (can be opened, or is missing) and holds
  an action holds one on record (`Offered`); a load that passes the gate yields exactly it.
  `SavedAside` holds for any number of savers. The temporary path never names the
  inode of the final one, and a descriptor into the final file is left only by
  saves that overlapped (`Beside`). A temporary file that is not `shared` has one
  save at most under way, whose content is complete before its rename and on the
  disk unless the fsync failed (`SavedAlone`), and so what the final path names is
  on the disk but for the two exceptions (`Durable`).
  `Fresh` is behind `SkipsAreHarmless`, for any number of writers: written inodes
  have different mtimes, and the one about to be renamed is newer than all the
  watcher has loaded. Both hypotheses are needed: with equal mtimes, or with a
  file that was unreadable when its mtime was recorded, TLC violates the property.
- **Daemon.** `PartsByPc` says which components exist at each point of New, Run and
  Shutdown; `ActionOffered` that the action in force, the one on its way and the
  one stored are among those offered, and so is lock when the file a poll is about
  to load is gone.
- **Window.** An estimate within the tolerance of the readings stays within it after
  an average, its rounding included (`AverageWithin`): four fifths of the old error
  and one rounding of the new value make less than the whole, so that errors do
  not add up over any number of averages. Where too large a float converts to
  a negative number (amd64), `EstimateBounded` assumes that no reading lies within
  its tolerance of the largest duration (`Unsaturated`: the largest is 292 years,
  the tolerance there 18 hours). What is queued is
  typed by what `Battery` makes of any supply. For the colours, `Painted` ties the
  palette to the file of the open window.

Only model-checked: all liveness properties (fairness and ENABLED are outside
the prover's reach), and with them the liveness half of the two refinements
and of the components' composition in `Daemon`. Not claimed at all:
`NoDoubleClose` for a window closed before `connect()` has returned, and a complete
file for saves that overlap or for a power loss after a failed fsync, because the
code does not keep them.

## 5. Not modelled

- `session.go` logs warnings and changes nothing; `logger.go` formats.
- `theme.go` and `layout.go`: a static table of colours and sizes, and geometry. They
  keep no state. (Read alongside: `theme.go:63-67` replaces only light colours on a
  dark variant, though its comment says "or vice versa"; the comment of the button
  bar says 10 px, its Layout uses 4; the minimum sizes leave out gaps and padding.)
- Of the command line: flag parsing, the usage text, the version.
- The wording of statuses and durations, the Wayland scale, the focus and hover
  events of a toggle button (its style for them is modelled).
- Discovery and parsing of the lid's files are an input of `LidMonitor` (which
  sources exist; a read gives the lid's state or an error). What YAML parses
  config.yaml to is an input of `Appearance`.
- Errors of file operations in `Bootstrap` other than a missing unit, and a failing
  `disable --now` in an operation that is claimed to be clean.
- The durability of the directory entry that `Save` renames.
- A daemon-reload by anybody but the installers: one that comes after a death
  between the truncation and the writing of the unit could load a torn unit.
- Commands that never return: the code has no timeout for them.
- Taps on the power buttons are modelled, but the buttons' agreement with the
  profile is claimed only without them. A window closed before `connect()` has
  returned is explored only by `MCPowerWatchDrop`.

## 6. Plan

1. *(done)* `Inhibitor` with its abstraction and proofs, `LidMonitor`,
   `LidHandler`, `Preferences`/`PrefsWatcher`, `Bootstrap`, `PowerWatch`.
2. *(done)* `Daemon` over the abstract specifications; `LidDelivery` and its
   refinement by `LidMonitor`; power loss in `Preferences`; `Battery`, `Appearance`
   and `Window`; proofs about handler, watcher, daemon, window and colours.
3. *(done)* Proofs about `LidMonitor` for every channel capacity with the steps of
   its refinement, `Bootstrap`, `PowerWatch`, and the saves and skips of
   `Preferences`/`PrefsWatcher`.
4. The safety cores of the liveness properties that have none proved yet:
   `DisplayCatchesUp` (what is drawn once the queue is empty), `ButtonsFollow` (what is
   shown once nothing is posted), `PanelsComeBack` (what an open without failure
   leaves owed), as `SkipsAreHarmless` and `NewestIsDelivered` are for theirs.
