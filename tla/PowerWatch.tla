----------------------------- MODULE PowerWatch -----------------------------
(***************************************************************************)
(* The power-profile buttons: internal/ui/power_profiles.go over the watch *)
(* of internal/power (ppd.go and tuned_ppd.go, which differ in message     *)
(* formats only).  Actors: the goroutine that connects, the watch's        *)
(* goroutine, the GUI's thread with its queue of functions, the profiles   *)
(* daemon, and whoever else sets profiles.                                 *)
(*                                                                         *)
(* External: the bus library delivers signals in order to the channels     *)
(* registered with it and closes those channels when the connection ends   *)
(* (inhibitor.go:332-334 relies on the same).                              *)
(***************************************************************************)
EXTENDS Integers, Sequences

CONSTANTS
  Profile,
  NoProfile,   \* no button is active; also what a failed read returns
  MaxSets,     \* bound of the model: profile changes
  EarlyDestroy \* whether the window may close before connect() returns

ASSUME PowerAssumption ==
  /\ NoProfile \notin Profile /\ MaxSets \in Nat /\ EarlyDestroy \in BOOLEAN

VARIABLES
  profile,    \* the daemon's active profile
  conn,       \* Manager's bus connection
  subscribed, \* sigCh is registered with the connection
  sigs,       \* signals in sigCh
  sigOpen,    \* sigCh is not closed
  panicked,   \* a closed channel was closed
  connectPc, active,  \* connect(), and the profile it read
  watchPc, got,       \* the watch's goroutine, and the profile it received
  once, stopCh,       \* once has run; stopCh is closed
  tap,        \* setProfile: the profile it is setting, or NoProfile
  replied,    \* its call has returned
  ui,         \* functions handed to fyne.Do, as the profile each one shows
  buttons,    \* the button shown as active
  destroyPc,
  \* history
  sets, missed, \* changes; one happened between connect's read and its watch
  dropped       \* the bus ended the connection on its own

bus == <<conn, subscribed, sigs, sigOpen, panicked>>
connecting == <<connectPc, active>>
watch == <<watchPc, got, once, stopCh>>
gui == <<tap, replied, ui, buttons, destroyPc>>
history == <<sets, missed, dropped>>
vars == <<profile, bus, connecting, watch, gui, history>>

Shown == Profile \cup {NoProfile}

\* One type invariant.
TypeOK ==
  /\ profile \in Profile /\ conn \in {"none", "up", "down"}
  /\ subscribed \in BOOLEAN /\ sigOpen \in BOOLEAN /\ panicked \in BOOLEAN
  /\ sigs \in Seq(Profile) /\ ui \in Seq(Shown) /\ buttons \in Shown
  /\ connectPc \in {"new", "read", "post", "subscribe", "store", "done"}
  /\ watchPc \in {"off", "select", "post", "deferred", "ended"}
  /\ active \in Shown /\ got \in Profile /\ tap \in Shown
  /\ once \in BOOLEAN /\ stopCh \in BOOLEAN /\ replied \in BOOLEAN
  /\ destroyPc \in {"idle", "close", "done"}
  /\ sets \in 0..MaxSets /\ missed \in BOOLEAN /\ dropped \in BOOLEAN

Init ==
  /\ profile \in Profile /\ conn = "none" /\ subscribed = FALSE
  /\ sigs = <<>> /\ sigOpen = TRUE /\ panicked = FALSE
  /\ connectPc = "new" /\ active = NoProfile
  /\ watchPc = "off" /\ got = profile /\ once = FALSE /\ stopCh = FALSE
  /\ tap = NoProfile /\ replied = FALSE /\ ui = <<>> /\ buttons = NoProfile
  /\ destroyPc = "idle" /\ sets = 0 /\ missed = FALSE /\ dropped = FALSE

-----------------------------------------------------------------------------
(* connect() *)

\* power.New finds a daemon, or the buttons stay inert.
Connect ==
  /\ connectPc = "new"
  /\ \/ conn' = "up" /\ connectPc' = "read"
     \/ UNCHANGED conn /\ connectPc' = "done"
  /\ UNCHANGED <<profile, subscribed, sigs, sigOpen, panicked, active, watch,
                 gui, history>>

\* ActiveProfile; its error is ignored.
ReadActive ==
  /\ connectPc = "read" /\ connectPc' = "post"
  /\ active' = IF conn = "up" THEN profile ELSE NoProfile
  /\ UNCHANGED <<profile, bus, watch, gui, history>>

PostActive ==
  /\ connectPc = "post" /\ connectPc' = "subscribe"
  /\ ui' = Append(ui, active)
  /\ UNCHANGED <<profile, bus, active, watch, tap, replied, buttons, destroyPc,
                 history>>

\* watchActiveProfile: Signal and AddMatchSignal; on an error no goroutine.
Subscribe ==
  /\ connectPc = "subscribe" /\ connectPc' = "store"
  /\ IF conn = "up"
     THEN subscribed' = TRUE /\ watchPc' = "select"
     ELSE UNCHANGED <<subscribed, watchPc>>
  /\ UNCHANGED <<profile, conn, sigs, sigOpen, panicked, active, got, once,
                 stopCh, gui, history>>

\* connect() leaves the stop function for destroy().
StoreStop ==
  /\ connectPc = "store" /\ connectPc' = "done"
  /\ UNCHANGED <<profile, bus, active, watch, gui, history>>

-----------------------------------------------------------------------------
(* The watch's goroutine *)

Receive ==
  /\ watchPc = "select" /\ sigs # <<>>
  /\ got' = Head(sigs) /\ sigs' = Tail(sigs) /\ watchPc' = "post"
  /\ UNCHANGED <<profile, conn, subscribed, sigOpen, panicked, connecting,
                 once, stopCh, gui, history>>

\* fn: hand the received profile to the GUI's thread.
Post ==
  /\ watchPc = "post" /\ watchPc' = "select" /\ ui' = Append(ui, got)
  /\ UNCHANGED <<profile, bus, connecting, got, once, stopCh, tap, replied,
                 buttons, destroyPc, history>>

\* Mutant: break leaves the select, not the loop around it.
BugBreakNotReturn ==
  /\ watchPc = "select" /\ (stopCh \/ (~sigOpen /\ sigs = <<>>))
  /\ UNCHANGED vars

\* stopCh, or sigCh closed and drained.
WatchEnds ==
  /\ watchPc = "select" /\ (stopCh \/ (~sigOpen /\ sigs = <<>>))
  /\ watchPc' = "deferred"
  /\ UNCHANGED <<profile, bus, connecting, got, once, stopCh, gui, history>>

\* The deferred function, unless stop() used the once up: unsubscribe and
\* close sigCh, which the connection may have closed already.
Deferred ==
  /\ watchPc = "deferred" /\ watchPc' = "ended" /\ once' = TRUE
  /\ IF once
     THEN UNCHANGED <<subscribed, sigOpen, panicked>>
     ELSE /\ subscribed' = FALSE /\ sigOpen' = FALSE
          /\ panicked' = (panicked \/ ~sigOpen)
  /\ UNCHANGED <<profile, conn, sigs, connecting, got, stopCh, gui, history>>

-----------------------------------------------------------------------------
(* The daemon and the bus *)

\* Mutant: the daemon's signals are looked for under another name.
BugNoSignal(p) == UNCHANGED sigs

\* A change is signalled to whoever is subscribed.
Signal(p) == sigs' = IF subscribed /\ conn = "up" THEN Append(sigs, p) ELSE sigs

Change(p) ==
  /\ sets < MaxSets /\ sets' = sets + 1
  /\ profile' = p /\ Signal(p)
  /\ missed' = (missed \/ connectPc \in {"post", "subscribe"})
  /\ UNCHANGED dropped

OtherSets ==
  /\ \E p \in Profile \ {profile} : Change(p)
  /\ UNCHANGED <<conn, subscribed, sigOpen, panicked, connecting, watch, gui>>

\* The connection ends: its registered channels are closed.
CloseChannels ==
  /\ conn' = "down" /\ subscribed' = FALSE
  /\ sigOpen' = (sigOpen /\ ~subscribed)

BusDrops ==
  /\ conn = "up" /\ CloseChannels /\ dropped' = TRUE
  /\ UNCHANGED <<profile, sigs, panicked, connecting, watch, gui, sets, missed>>

-----------------------------------------------------------------------------
(* The GUI's thread *)

Free == tap = NoProfile /\ destroyPc = "idle"

\* setProfile: the call blocks the GUI's thread.
Tap(p) ==
  /\ Free /\ conn # "none" /\ tap' = p /\ replied' = FALSE
  /\ UNCHANGED <<profile, bus, connecting, watch, ui, buttons, destroyPc, history>>

\* The daemon serves the call.
Serve ==
  /\ tap # NoProfile /\ ~replied /\ conn = "up" /\ replied' = TRUE
  /\ Change(tap)
  /\ UNCHANGED <<conn, subscribed, sigOpen, panicked, connecting, watch, tap,
                 ui, buttons, destroyPc>>

TapSucceeds ==
  /\ replied /\ tap' = NoProfile /\ replied' = FALSE
  /\ ui' = Append(ui, tap)
  /\ UNCHANGED <<profile, bus, connecting, watch, buttons, destroyPc, history>>

\* The call fails; the status line says so.
TapFails ==
  /\ tap # NoProfile /\ ~replied /\ tap' = NoProfile
  /\ UNCHANGED <<profile, bus, connecting, watch, replied, ui, buttons,
                 destroyPc, history>>

Update ==
  /\ Free /\ ui # <<>> /\ buttons' = Head(ui) /\ ui' = Tail(ui)
  /\ UNCHANGED <<profile, bus, connecting, watch, tap, replied, destroyPc, history>>

\* Mutant: the stop function has a once of its own.
BugStopKeepsOnce == UNCHANGED once

StopUsesOnce == once' = TRUE

\* stopWatch(): close stopCh through the once, unless the defer had it.
Stop ==
  IF once THEN UNCHANGED <<once, stopCh>> ELSE StopUsesOnce /\ stopCh' = TRUE

\* destroy() on window close uses the handles connect() has left so far.
DestroyStop ==
  /\ Free /\ destroyPc' = "close" /\ (connectPc = "done" \/ EarlyDestroy)
  /\ IF watchPc = "off" \/ connectPc # "done" THEN UNCHANGED <<once, stopCh>> ELSE Stop
  /\ UNCHANGED <<profile, bus, connecting, watchPc, got, tap, replied, ui,
                 buttons, history>>

DestroyClose ==
  /\ destroyPc = "close" /\ destroyPc' = "done"
  /\ IF conn = "up" THEN CloseChannels ELSE UNCHANGED <<conn, subscribed, sigOpen>>
  /\ UNCHANGED <<profile, sigs, panicked, connecting, watch, tap, replied, ui,
                 buttons, history>>

Closed ==
  /\ destroyPc = "done" /\ connectPc = "done" /\ watchPc \in {"off", "ended"}
  /\ UNCHANGED vars

Gui == Update \/ TapSucceeds \/ DestroyClose
ConnectStep == Connect \/ ReadActive \/ PostActive \/ Subscribe \/ StoreStop
WatchStep == Receive \/ Post \/ WatchEnds \/ Deferred

Next ==
  \/ ConnectStep \/ WatchStep \/ Gui
  \/ OtherSets \/ BusDrops \/ Serve \/ TapFails \/ DestroyStop \/ Closed
  \/ \E p \in Profile : Tap(p)

Spec == Init /\ [][Next]_vars

\* Goroutines run and calls return; WatchEnds may be passed over by the select
\* for as long as signals keep coming, but not for ever.
FairSpec ==
  /\ Spec /\ WF_vars(ConnectStep) /\ WF_vars(WatchStep) /\ WF_vars(Gui)
  /\ WF_vars(Serve \/ TapFails) /\ SF_vars(WatchEnds)

-----------------------------------------------------------------------------
(* Properties *)

\* Stopping the watch and closing the connection, in any interleaving with the
\* watch's goroutine, never closes a closed channel, unless the bus ended the
\* connection first.  With EarlyDestroy = FALSE this leaves out a window closed
\* before connect() has returned, where destroy finds nothing to stop and the
\* code panics as well.
NoDoubleClose == panicked => dropped

\* Without taps of its own and without a change in connect's gap, what the
\* buttons show becomes the daemon's profile and stays it.
ButtonsFollow ==
  [](conn # "down" /\ tap = NoProfile /\ ~missed /\ destroyPc = "idle")
    => <>[](conn = "up" => buttons = profile)

\* After destroy the watch's goroutine ends, whether stopCh or the closed
\* signal channel reaches it first.
WatcherEnds == destroyPc = "done" ~> watchPc \in {"off", "ended"}

-----------------------------------------------------------------------------
(* What a comment says and the code does not do *)

\* inhibitor.go:333-334 has the connection's end close the signal channel and
\* end the goroutine; the watch of a connection that ends would just end too.
NoPanic == ~panicked

=============================================================================
