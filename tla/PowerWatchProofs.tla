-------------------------- MODULE PowerWatchProofs --------------------------
(***************************************************************************)
(* Proofs about PowerWatch for every set of profiles and every number of   *)
(* changes: the once that stopWatch() and the deferred function share is   *)
(* what keeps the signal channel from being closed twice.                  *)
(***************************************************************************)
EXTENDS PowerWatch, TLAPS

\* The places of the four actors, and the flags of the channels.
ControlTyped ==
  /\ conn \in {"none", "up", "down"}
  /\ connectPc \in {"new", "read", "post", "subscribe", "store", "done"}
  /\ watchPc \in {"off", "select", "post", "deferred", "ended"}
  /\ destroyPc \in {"idle", "close", "done"}

\* The watch starts once, in connect's last but one step, and only its own
\* end or stop() uses the once.
WatchOrder ==
  /\ watchPc # "off" => connectPc \in {"store", "done"}
  /\ watchPc = "off" => ~subscribed /\ ~once
  /\ watchPc = "ended" => once
  /\ stopCh => once

\* What can have closed the signal channel: the bus, destroy's closing of the
\* connection, or the deferred function, which runs once.
ClosedBy ==
  /\ ~sigOpen => dropped \/ destroyPc = "done" \/ watchPc = "ended"
  /\ panicked => once /\ ~stopCh /\ (dropped \/ destroyPc = "done")

\* A window closed after connect() returned has stopped the watch, or found
\* nothing to stop, before the connection is closed.
StoppedFirst ==
  destroyPc # "idle" => connectPc = "done" /\ (watchPc = "off" \/ once)

OnceInv == ControlTyped /\ WatchOrder /\ ClosedBy

LEMMA InitOnce == Init => OnceInv
BY DEF Init, OnceInv, ControlTyped, WatchOrder, ClosedBy

LEMMA StepOnce == OnceInv /\ [Next]_vars => OnceInv'
<1> SUFFICES ASSUME OnceInv, [Next]_vars PROVE OnceInv'
  OBVIOUS
<1> USE DEF OnceInv, ControlTyped, WatchOrder, ClosedBy
<1>1. CASE ConnectStep
  BY <1>1 DEF ConnectStep, Connect, ReadActive, PostActive, Subscribe, StoreStop,
     bus, watch, gui, history
<1>2. CASE WatchStep
  <2>1. CASE Receive \/ Post \/ WatchEnds
    BY <2>1 DEF Receive, Post, WatchEnds, bus, connecting, gui, history
  <2>2. CASE Deferred
    <3>1. CASE once
      BY <2>2, <3>1 DEF Deferred, connecting, gui, history
    <3>2. CASE ~once
      BY <2>2, <3>2 DEF Deferred, connecting, gui, history
    <3> QED
      BY <3>1, <3>2
  <2> QED
    BY <1>2, <2>1, <2>2 DEF WatchStep
<1>3. CASE Update \/ TapSucceeds \/ TapFails \/ (\E p \in Profile : Tap(p))
  BY <1>3 DEF Update, TapSucceeds, TapFails, Tap, bus, connecting, watch, history
<1>4. CASE DestroyClose
  BY <1>4 DEF DestroyClose, CloseChannels, connecting, watch, history
<1>5. CASE DestroyStop
  BY <1>5 DEF DestroyStop, Free, Stop, StopUsesOnce, bus, connecting, history
<1>6. CASE OtherSets \/ Serve
  BY <1>6 DEF OtherSets, Serve, Change, connecting, watch, gui
<1>7. CASE BusDrops
  BY <1>7 DEF BusDrops, CloseChannels, connecting, watch, gui
<1>8. CASE Closed \/ UNCHANGED vars
  BY <1>8 DEF Closed, vars, bus, connecting, watch, gui, history
<1> QED
  BY <1>1, <1>2, <1>3, <1>4, <1>5, <1>6, <1>7, <1>8 DEF Next, Gui

LEMMA InvariantOnce == Spec => []OnceInv
BY InitOnce, StepOnce, PTL DEF Spec

\* Once stopWatch() has closed the stop channel nothing is closed twice, not
\* even after the bus ended the connection or an early destroy.
StoppedIsSafe == stopCh => ~panicked

\* stopWatch() has used up the once, so the deferred close finds nothing to do.
THEOREM StopExcludesPanic == Spec => []StoppedIsSafe
<1>1. OnceInv => StoppedIsSafe
  BY DEF OnceInv, ClosedBy, StoppedIsSafe
<1> QED
  BY <1>1, InvariantOnce, PTL

\* The invariant of the windows that do not close before connect() returned.
CloseInv == OnceInv /\ StoppedFirst /\ NoDoubleClose

LEMMA StepClose == EarlyDestroy = FALSE /\ CloseInv /\ [Next]_vars => CloseInv'
<1> SUFFICES ASSUME EarlyDestroy = FALSE, CloseInv, [Next]_vars PROVE CloseInv'
  OBVIOUS
<1>0. OnceInv'
  BY StepOnce DEF CloseInv
<1> USE DEF CloseInv, OnceInv, ControlTyped, WatchOrder, ClosedBy, StoppedFirst,
    NoDoubleClose
<1>1. CASE ConnectStep
  BY <1>0, <1>1 DEF ConnectStep, Connect, ReadActive, PostActive, Subscribe,
     StoreStop, bus, watch, gui, history
<1>2. CASE WatchStep
  BY <1>0, <1>2 DEF WatchStep, Receive, Post, WatchEnds, Deferred, bus,
     connecting, gui, history
<1>3. CASE Update \/ TapSucceeds \/ TapFails \/ (\E p \in Profile : Tap(p))
  BY <1>0, <1>3 DEF Update, TapSucceeds, TapFails, Tap, bus, connecting, watch,
     history
<1>4. CASE DestroyClose
  BY <1>0, <1>4 DEF DestroyClose, CloseChannels, connecting, watch, history
<1>5. CASE DestroyStop
  BY <1>0, <1>5 DEF DestroyStop, Free, Stop, StopUsesOnce, bus, connecting, history
<1>6. CASE OtherSets \/ Serve
  BY <1>0, <1>6 DEF OtherSets, Serve, Change, connecting, watch, gui
<1>7. CASE BusDrops
  BY <1>0, <1>7 DEF BusDrops, CloseChannels, connecting, watch, gui
<1>8. CASE Closed \/ UNCHANGED vars
  BY <1>0, <1>8 DEF Closed, vars, bus, connecting, watch, gui, history
<1> QED
  BY <1>1, <1>2, <1>3, <1>4, <1>5, <1>6, <1>7, <1>8 DEF Next, Gui

\* Unless the window closes before connect() has left its stop function, the
\* signal channel is closed twice only after the bus ended the connection.
THEOREM ClosedOnce == EarlyDestroy = FALSE /\ Spec => []NoDoubleClose
<1>1. Init => CloseInv
  BY InitOnce DEF Init, CloseInv, StoppedFirst, NoDoubleClose
<1>2. CloseInv => NoDoubleClose
  BY DEF CloseInv
<1>3. ASSUME EarlyDestroy = FALSE PROVE Spec => []NoDoubleClose
  <2>1. CloseInv /\ [Next]_vars => CloseInv'
    BY <1>3, StepClose
  <2> QED
    BY <1>1, <1>2, <2>1, PTL DEF Spec
<1> QED
  BY <1>3

=============================================================================
