----------------------------- MODULE LidMonitor -----------------------------
(***************************************************************************)
(* internal/daemon/monitor.go: two readers of one physical lid (the evdev  *)
(* event stream and the 500 ms poll of a state file) send what they read   *)
(* into one bounded channel; run() drops repeats and calls back.           *)
(*                                                                         *)
(* A reader reads at one moment and sends at a later one, and either may   *)
(* be blocked in between; Stop() may come at any point.                    *)
(***************************************************************************)
EXTENDS Integers, Sequences, FiniteSets

CONSTANTS
  ChanCap,    \* capacity of the states channel (8 in the code)
  MaxMoves,   \* bound of the model: physical lid movements
  MaxErrors   \* bound of the model: failed reads of the state file

ASSUME MonitorAssumption ==
  ChanCap \in Nat \ {0} /\ MaxMoves \in Nat /\ MaxErrors \in Nat

Lid == {"open", "closed"}
Source == {"evdev", "file"}

\* An input event: a lid switch event with its value, or the EV_SYN that
\* follows every change (value 0).
Event == [type : {"sw", "syn"}, val : {0, 1}]

VARIABLES
  \* outside
  lid,       \* where the lid physically is
  kernel,    \* input events the device holds for its reader
  \* the monitor
  sources,   \* what findLidSources found
  evOpen,    \* the evdev file is open
  evPc, evVal,      \* readEvdev: where it is, the state it is about to send
  pollPc, pollVal,  \* pollLoop: the same
  states,    \* the states channel
  runPc,     \* run()
  last, have,       \* run's change detector
  stop,      \* stopCh is closed
  stopPc,    \* the caller of Stop()
  \* history
  moves, errors,
  calls      \* callbacks made

evdev == <<kernel, evOpen, evPc, evVal>>
poll == <<pollPc, pollVal>>
detector == <<runPc, last, have, calls>>
vars == <<lid, sources, evdev, poll, states, detector, stop, stopPc, moves, errors>>

Reader == {"idle", "read", "send", "tick", "ended"}

\* One type invariant; the channel never exceeds its capacity.
TypeOK ==
  /\ lid \in Lid /\ last \in Lid /\ evVal \in Lid /\ pollVal \in Lid
  /\ sources \in SUBSET Source \ {{}}
  /\ kernel \in Seq(Event) /\ states \in Seq(Lid) /\ Len(states) <= ChanCap
  /\ evPc \in Reader \ {"tick"} /\ pollPc \in Reader
  /\ runPc \in {"start", "select", "callback", "close", "join", "done"}
  /\ stopPc \in {"idle", "waiting", "returned"}
  /\ evOpen \in BOOLEAN /\ have \in BOOLEAN /\ stop \in BOOLEAN
  /\ moves \in 0..MaxMoves /\ errors \in 0..MaxErrors /\ calls \in Nat

\* newMonitor returns nil without a source: there is nothing to model then.
Init ==
  /\ lid \in Lid /\ sources \in SUBSET Source \ {{}}
  /\ kernel = <<>> /\ evOpen = FALSE /\ states = <<>>
  /\ evPc = "idle" /\ pollPc = "idle" /\ evVal = "open" /\ pollVal = "open"
  /\ runPc = "start" /\ last = "open" /\ have = FALSE
  /\ stop = FALSE /\ stopPc = "idle"
  /\ moves = 0 /\ errors = 0 /\ calls = 0

-----------------------------------------------------------------------------
(* The lid and its device, in the encoding readEvdev decodes *)

\* Mutant: the device's value read the other way round.
BugDecodeInverted(val) == IF val = 0 THEN "open" ELSE "closed"

\* readEvdev's conversion: 1 is open, everything else closed.
Decode(val) == IF val = 1 THEN "open" ELSE "closed"

Encode(l) == IF l = "open" THEN 1 ELSE 0

MoveLid ==
  /\ moves < MaxMoves /\ moves' = moves + 1
  /\ \E to \in Lid \ {lid} :
       /\ lid' = to
       /\ kernel' = IF evOpen
                    THEN kernel \o << [type |-> "sw", val |-> Encode(to)],
                                      [type |-> "syn", val |-> 0] >>
                    ELSE kernel
  /\ UNCHANGED <<sources, evOpen, evPc, evVal, poll, states, detector, stop,
                 stopPc, errors>>

-----------------------------------------------------------------------------
(* run() *)

\* Open the event device, start the readers. A device that cannot be opened
\* leaves polling only.
FanOut ==
  /\ runPc = "start" /\ runPc' = "select"
  /\ evOpen' \in {FALSE, "evdev" \in sources}
  /\ evPc' = IF evOpen' THEN "read" ELSE "ended"
  /\ pollPc' = IF "file" \in sources THEN "read" ELSE "ended"
  /\ UNCHANGED <<lid, kernel, sources, evVal, pollVal, states, last, have,
                 calls, stop, stopPc, moves, errors>>

\* Mutant: no change detector.
BugNoDedup(s) == FALSE

\* The change detector: a state equal to the last delivered one is a repeat.
Repeat(s) == have /\ s = last

Receive ==
  /\ runPc = "select" /\ states # <<>>
  /\ states' = Tail(states)
  /\ LET s == Head(states) IN
       IF Repeat(s)
       THEN UNCHANGED detector
       ELSE /\ last' = s /\ have' = TRUE
            /\ calls' = calls + 1 /\ runPc' = "callback"
  /\ UNCHANGED <<lid, sources, evdev, poll, stop, stopPc, moves, errors>>

\* The callback is the handler's work; run() is blocked while it lasts.
CallbackReturns ==
  /\ runPc = "callback" /\ runPc' = "select"
  /\ UNCHANGED <<lid, sources, evdev, poll, states, last, have, calls, stop,
                 stopPc, moves, errors>>

RunStop ==
  /\ runPc = "select" /\ stop /\ runPc' = "close"
  /\ UNCHANGED <<lid, sources, evdev, poll, states, last, have, calls, stop,
                 stopPc, moves, errors>>

\* Closing the file unblocks readEvdev; what it had not read is gone.
CloseFile == evOpen' = FALSE /\ kernel' = <<>>

CloseEvdev ==
  /\ runPc = "close" /\ runPc' = "join" /\ CloseFile
  /\ UNCHANGED <<lid, sources, evPc, evVal, poll, states, last, have, calls,
                 stop, stopPc, moves, errors>>

\* Mutant: run() ends without wg.Wait().
BugNoJoin == TRUE

ReadersEnded == evPc = "ended" /\ pollPc = "ended"

\* wg.Wait(), then the deferred close(m.done).
Join ==
  /\ runPc = "join" /\ ReadersEnded /\ runPc' = "done"
  /\ UNCHANGED <<lid, sources, evdev, poll, states, last, have, calls, stop,
                 stopPc, moves, errors>>

-----------------------------------------------------------------------------
(* The readers *)

\* Mutant: an unbounded channel.
BugSendAlways(s) == states' = Append(states, s)

\* A send on the channel blocks while it is full.
Send(s) == Len(states) < ChanCap /\ states' = Append(states, s)

\* Mutant: a reader that waits for room in the channel and nothing else.
BugSendOnly == FALSE

\* The other branch of a reader's send select.
SendCanceled == stop

\* pollLoop's read(): the state file as it is now, or an error, not sent.
PollRead ==
  /\ pollPc = "read"
  /\ \/ pollVal' = lid /\ pollPc' = "send" /\ UNCHANGED errors
     \/ /\ errors < MaxErrors /\ errors' = errors + 1
        /\ pollPc' = "tick" /\ UNCHANGED pollVal
  /\ UNCHANGED <<lid, sources, evdev, states, detector, stop, stopPc, moves>>

PollSend ==
  /\ pollPc = "send" /\ pollPc' = "tick" /\ Send(pollVal)
  /\ UNCHANGED <<lid, sources, evdev, pollVal, detector, stop, stopPc, moves, errors>>

PollSendCanceled ==
  /\ pollPc = "send" /\ SendCanceled /\ pollPc' = "tick"
  /\ UNCHANGED <<lid, sources, evdev, pollVal, states, detector, stop, stopPc,
                 moves, errors>>

\* Mutant: the file is read once, for the initial state only.
BugPollOnce ==
  /\ pollPc = "tick" /\ UNCHANGED vars

\* The ticker is always about to fire; the select may prefer it to stopCh.
PollTick ==
  /\ pollPc = "tick" /\ pollPc' = "read"
  /\ UNCHANGED <<lid, sources, evdev, pollVal, states, detector, stop, stopPc,
                 moves, errors>>

PollStop ==
  /\ pollPc = "tick" /\ stop /\ pollPc' = "ended"
  /\ UNCHANGED <<lid, sources, evdev, pollVal, states, detector, stop, stopPc,
                 moves, errors>>

\* Mutant: every event is taken for a lid event.
BugAnyEvent(e) == TRUE

\* readEvdev's filter on type and code.
IsLidEvent(e) == e.type = "sw"

\* One event per read; other events are skipped.
EvRead ==
  /\ evPc = "read" /\ evOpen /\ kernel # <<>>
  /\ kernel' = Tail(kernel)
  /\ LET e == Head(kernel) IN
       IF IsLidEvent(e)
       THEN evVal' = Decode(e.val) /\ evPc' = "send"
       ELSE UNCHANGED <<evVal, evPc>>
  /\ UNCHANGED <<lid, sources, evOpen, poll, states, detector, stop, stopPc,
                 moves, errors>>

EvSend ==
  /\ evPc = "send" /\ evPc' = "read" /\ Send(evVal)
  /\ UNCHANGED <<lid, sources, kernel, evOpen, evVal, poll, detector, stop,
                 stopPc, moves, errors>>

EvSendCanceled ==
  /\ evPc = "send" /\ SendCanceled /\ evPc' = "read"
  /\ UNCHANGED <<lid, sources, kernel, evOpen, evVal, poll, states, detector,
                 stop, stopPc, moves, errors>>

\* A read error ends the reader for good: the file was closed ...
EvClosed ==
  /\ evPc = "read" /\ ~evOpen /\ evPc' = "ended"
  /\ UNCHANGED <<lid, sources, kernel, evOpen, evVal, poll, states, detector,
                 stop, stopPc, moves, errors>>

\* ... or the device failed or was unplugged.
EvError ==
  /\ evPc = "read" /\ evOpen /\ evPc' = "ended"
  /\ UNCHANGED <<lid, sources, kernel, evOpen, evVal, poll, states, detector,
                 stop, stopPc, moves, errors>>

-----------------------------------------------------------------------------
(* Stop() *)

StopStart ==
  /\ stopPc = "idle" /\ stopPc' = "waiting" /\ stop' = TRUE
  /\ UNCHANGED <<lid, sources, evdev, poll, states, detector, moves, errors>>

StopReturns ==
  /\ stopPc = "waiting" /\ runPc = "done" /\ stopPc' = "returned"
  /\ UNCHANGED <<lid, sources, evdev, poll, states, detector, stop, moves, errors>>

Terminated == stopPc = "returned" /\ moves = MaxMoves /\ UNCHANGED vars

Run == FanOut \/ Receive \/ CallbackReturns \/ RunStop \/ CloseEvdev \/ Join
Poll == PollRead \/ PollSend \/ PollSendCanceled \/ PollTick \/ PollStop
Evdev == EvRead \/ EvSend \/ EvSendCanceled \/ EvClosed

Next ==
  \/ MoveLid \/ Run \/ Poll \/ Evdev \/ EvError
  \/ StopStart \/ StopReturns \/ Terminated

\* Every goroutine that can run runs. A Go select with several ready cases
\* picks one at random, so a case that keeps coming up ready is taken
\* eventually: strong fairness on the stop cases and on the sends.
Fairness ==
  /\ WF_vars(Run) /\ WF_vars(Poll) /\ WF_vars(Evdev) /\ WF_vars(StopReturns)
  /\ SF_vars(RunStop) /\ SF_vars(PollStop) /\ SF_vars(Receive)
  /\ SF_vars(PollSend) /\ SF_vars(EvSend)

Spec == Init /\ [][Next]_vars
FairSpec == Spec /\ Fairness

-----------------------------------------------------------------------------
(* Properties *)

\* With one source (evdev only, file only, or evdev that cannot be opened) no
\* transition is delivered twice: never more callbacks than movements, the
\* initial state of the file apart.
AtMostOnceFromOneSource ==
  Cardinality(sources) = 1
    => calls <= moves + (IF "file" \in sources THEN 1 ELSE 0)

\* With both sources a movement is delivered at most three times: the echo of
\* one transition dies out, whatever the readers' delays and the channel hold.
EchoBounded == calls <= 3 * moves + 1

\* run() ends, and Stop returns, only when both readers have ended: nothing
\* of the monitor runs after Stop, and no callback is under way.
StopIsQuiet ==
  stopPc = "returned"
    => evPc = "ended" /\ pollPc = "ended" /\ runPc = "done" /\ ~evOpen

\* While a state file is polled and nobody stops the monitor, the delivered
\* state catches up with the lid and stays there, even if evdev stalls or dies.
BackstopSyncs ==
  ("file" \in sources /\ []~stop) => <>[](have /\ last = lid)

\* With only the event device, while it works and nobody stops the monitor,
\* the state delivered last becomes the lid's.
EvdevSyncs ==
  (sources = {"evdev"} /\ [](evPc # "ended") /\ []~stop)
    => <>[](have => last = lid)

-----------------------------------------------------------------------------
(* Refinement *)

\* Until the lid has moved it has had one state; afterwards both.
statesSeen == IF moves = 0 THEN {lid} ELSE Lid

deliveredState == IF have THEN last ELSE "none"

stopPhase ==
  IF stopPc = "returned" THEN "off" ELSE IF stop THEN "stopping" ELSE "on"

Delivery == INSTANCE LidDelivery WITH
  None <- "none",
  seen <- statesSeen,
  delivered <- deliveredState,
  busy <- (runPc = "callback"),
  phase <- stopPhase

\* Two readers, a channel and a change detector implement the delivery of lid
\* states: serial callbacks, each with another state than the last one and one
\* the lid has had, none after Stop, and a Stop that returns even if it finds
\* the channel full and both readers blocked in a send.
ImplementsDelivery == Delivery!Spec

-----------------------------------------------------------------------------
(* What the documentation says and the code does not do *)

\* docs/invariants.md:75, monitor.go:54-55: the callback fires at most once
\* per actual state change.
DeliveredAtMostOnce == calls <= moves + 1

=============================================================================
