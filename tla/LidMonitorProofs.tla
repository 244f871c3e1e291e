-------------------------- MODULE LidMonitorProofs --------------------------
(***************************************************************************)
(* Proofs about LidMonitor for every channel capacity and every number of  *)
(* movements and read errors.                                              *)
(***************************************************************************)
EXTENDS LidMonitor, SequenceTheorems, FiniteSetTheorems, TLAPS

(* The type invariant *)

ValuesTyped ==
  /\ lid \in Lid /\ last \in Lid /\ evVal \in Lid /\ pollVal \in Lid
  /\ sources \in SUBSET Source \ {{}}

QueuesTyped ==
  kernel \in Seq(Event) /\ states \in Seq(Lid) /\ Len(states) <= ChanCap

ControlTyped ==
  /\ evPc \in Reader \ {"tick"} /\ pollPc \in Reader
  /\ runPc \in {"start", "select", "callback", "close", "join", "done"}
  /\ stopPc \in {"idle", "waiting", "returned"}

FlagsTyped == evOpen \in BOOLEAN /\ have \in BOOLEAN /\ stop \in BOOLEAN

CountersTyped == moves \in 0..MaxMoves /\ errors \in 0..MaxErrors /\ calls \in Nat

LEMMA TypePortions ==
  TypeOK <=> ValuesTyped /\ QueuesTyped /\ ControlTyped /\ FlagsTyped /\ CountersTyped
BY DEF TypeOK, ValuesTyped, QueuesTyped, ControlTyped, FlagsTyped, CountersTyped

LEMMA InitTyped == Init => TypeOK
<1> SUFFICES ASSUME Init PROVE TypeOK
  OBVIOUS
<1> USE MonitorAssumption DEF Init
<1>1. ValuesTyped
  BY DEF ValuesTyped, Lid
<1>2. QueuesTyped
  BY DEF QueuesTyped
<1>3. ControlTyped
  BY DEF ControlTyped, Reader
<1>4. FlagsTyped
  BY DEF FlagsTyped
<1>5. CountersTyped
  BY DEF CountersTyped
<1> QED
  BY <1>1, <1>2, <1>3, <1>4, <1>5, TypePortions

\* A lid movement queues two events.
LEMMA MoveQueues ==
  ASSUME kernel \in Seq(Event), NEW to \in Lid
  PROVE  kernel \o << [type |-> "sw", val |-> Encode(to)], [type |-> "syn", val |-> 0] >>
           \in Seq(Event)
<1>1. [type |-> "sw", val |-> Encode(to)] \in Event
  BY DEF Event, Encode
<1>2. [type |-> "syn", val |-> 0] \in Event
  BY DEF Event
<1> QED
  BY <1>1, <1>2, ConcatProperties

LEMMA StepQueues == TypeOK /\ [Next]_vars => QueuesTyped'
<1> SUFFICES ASSUME TypeOK, [Next]_vars PROVE QueuesTyped'
  OBVIOUS
<1>0. kernel \in Seq(Event) /\ states \in Seq(Lid) /\ Len(states) <= ChanCap
  BY DEF TypeOK
<1> USE DEF QueuesTyped
<1>1. CASE MoveLid
  BY <1>0, <1>1, MoveQueues DEF MoveLid
<1>2. CASE Receive
  <2>1. Tail(states) \in Seq(Lid) /\ Len(Tail(states)) = Len(states) - 1
    BY <1>0, <1>2, HeadTailProperties DEF Receive
  <2> QED
    BY <1>0, <1>2, <2>1, MonitorAssumption DEF Receive, evdev
<1>3. CASE CloseEvdev
  BY <1>0, <1>3 DEF CloseEvdev, CloseFile
<1>4. CASE EvRead
  BY <1>0, <1>4 DEF EvRead
<1>5. CASE PollSend \/ EvSend
  BY <1>0, <1>5, MonitorAssumption DEF PollSend, EvSend, Send, evdev, TypeOK
<1>6. CASE UNCHANGED <<kernel, states>>
  BY <1>0, <1>6
<1> QED
  BY <1>1, <1>2, <1>3, <1>4, <1>5, <1>6 DEF Next, Run, FanOut, CallbackReturns,
     RunStop, Join, Poll, PollRead, PollSendCanceled, PollTick, PollStop, Evdev,
     EvSendCanceled, EvClosed, EvError, StopStart, StopReturns, Terminated, vars,
     evdev

LEMMA StepValues == TypeOK /\ [Next]_vars => ValuesTyped'
<1> SUFFICES ASSUME TypeOK, [Next]_vars PROVE ValuesTyped'
  OBVIOUS
<1>0. ValuesTyped /\ states \in Seq(Lid)
  BY DEF TypeOK, ValuesTyped
<1> USE <1>0 DEF ValuesTyped
<1>1. CASE Receive
  <2>1. Head(states) \in Lid
    BY <1>1 DEF Receive
  <2> QED
    BY <1>1, <2>1 DEF Receive, evdev, poll, detector
<1>2. CASE EvRead
  BY <1>2 DEF EvRead, Decode, Lid, poll, detector
<1>3. CASE MoveLid \/ PollRead
  BY <1>3 DEF MoveLid, PollRead, poll, detector, evdev
<1>4. CASE UNCHANGED <<lid, last, evVal, pollVal, sources>>
  BY <1>4
<1> QED
  BY <1>1, <1>2, <1>3, <1>4 DEF Next, Run, FanOut, CallbackReturns, RunStop,
     CloseEvdev, Join, Poll, PollSend, PollSendCanceled, PollTick, PollStop,
     Evdev, EvSend, EvSendCanceled, EvClosed, EvError, StopStart, StopReturns,
     Terminated, vars, evdev, poll, detector

LEMMA StepControl == TypeOK /\ [Next]_vars => ControlTyped'
<1> SUFFICES ASSUME ControlTyped, [Next]_vars PROVE ControlTyped'
  BY TypePortions
<1> USE DEF ControlTyped, Reader
<1>1. CASE Run
  BY <1>1 DEF Run, FanOut, Receive, CallbackReturns, RunStop, CloseEvdev, Join,
     evdev, poll, detector
<1>2. CASE Poll \/ Evdev
  BY <1>2 DEF Poll, PollRead, PollSend, PollSendCanceled, PollTick, PollStop,
     Evdev, EvRead, EvSend, EvSendCanceled, EvClosed, evdev, poll, detector
<1>3. CASE MoveLid \/ EvError \/ StopStart \/ StopReturns \/ Terminated \/ UNCHANGED vars
  BY <1>3 DEF MoveLid, EvError, StopStart, StopReturns, Terminated, vars, evdev,
     poll, detector
<1> QED
  BY <1>1, <1>2, <1>3 DEF Next

LEMMA StepFlags == TypeOK /\ [Next]_vars => FlagsTyped'
<1> SUFFICES ASSUME FlagsTyped, [Next]_vars PROVE FlagsTyped'
  BY TypePortions
<1> USE DEF FlagsTyped
<1>1. CASE FanOut
  <2>1. evOpen' \in BOOLEAN
    <3>1. ("evdev" \in sources) \in BOOLEAN
      OBVIOUS
    <3>2. evOpen' = FALSE \/ evOpen' = ("evdev" \in sources)
      BY <1>1 DEF FanOut
    <3> QED
      BY <3>1, <3>2
  <2>2. UNCHANGED <<have, stop>>
    BY <1>1 DEF FanOut
  <2> QED
    BY <2>1, <2>2
<1>2. CASE Receive \/ CloseEvdev \/ StopStart
  BY <1>2 DEF Receive, CloseEvdev, CloseFile, StopStart, evdev, detector
<1>3. CASE UNCHANGED <<evOpen, have, stop>>
  BY <1>3
<1> QED
  BY <1>1, <1>2, <1>3 DEF Next, MoveLid, Run, CallbackReturns, RunStop, Join,
     Poll, PollRead, PollSend, PollSendCanceled, PollTick, PollStop, Evdev,
     EvRead, EvSend, EvSendCanceled, EvClosed, EvError, StopReturns, Terminated,
     vars, evdev, poll, detector

LEMMA StepCounters == TypeOK /\ [Next]_vars => CountersTyped'
<1> SUFFICES ASSUME CountersTyped, [Next]_vars PROVE CountersTyped'
  BY TypePortions
<1> USE MonitorAssumption DEF CountersTyped
<1>1. CASE MoveLid \/ Receive \/ PollRead
  BY <1>1 DEF MoveLid, Receive, PollRead, detector
<1>2. CASE UNCHANGED <<moves, errors, calls>>
  BY <1>2
<1> QED
  BY <1>1, <1>2 DEF Next, Run, FanOut, CallbackReturns, RunStop, CloseEvdev,
     Join, Poll, PollSend, PollSendCanceled, PollTick, PollStop, Evdev, EvRead,
     EvSend, EvSendCanceled, EvClosed, EvError, StopStart, StopReturns,
     Terminated, vars, detector

LEMMA StepTyped == TypeOK /\ [Next]_vars => TypeOK'
<1> SUFFICES ASSUME TypeOK, [Next]_vars PROVE TypeOK'
  OBVIOUS
<1>1. ValuesTyped' /\ QueuesTyped' /\ ControlTyped' /\ FlagsTyped' /\ CountersTyped'
  BY StepValues, StepQueues, StepControl, StepFlags, StepCounters
<1> QED
  BY <1>1 DEF TypeOK, ValuesTyped, QueuesTyped, ControlTyped, FlagsTyped, CountersTyped

\* Every variable of the monitor stays in its type, and the channel never holds
\* more than its capacity.
THEOREM MonitorTyped == Spec => []TypeOK
BY InitTyped, StepTyped, PTL DEF Spec

-----------------------------------------------------------------------------
(* The order in which the monitor starts and ends *)

\* run() starts the readers, closes the device, then waits for the readers:
\* each place it has reached tells what holds by then.
EndOrder ==
  /\ runPc \in {"start", "join", "done"} => ~evOpen
  /\ runPc \in {"close", "join", "done"} => stop
  /\ runPc = "done" => ReadersEnded
  /\ stopPc = "idle" <=> ~stop
  /\ stopPc = "returned" => runPc = "done"

LEMMA StepEndOrder == EndOrder /\ [Next]_vars => EndOrder'
<1> SUFFICES ASSUME EndOrder, [Next]_vars PROVE EndOrder'
  OBVIOUS
<1> USE DEF EndOrder, ReadersEnded
<1>1. CASE FanOut
  BY <1>1 DEF FanOut
<1>2. CASE Receive \/ CallbackReturns \/ RunStop
  BY <1>2 DEF Receive, CallbackReturns, RunStop, evdev, poll, detector
<1>3. CASE CloseEvdev \/ Join
  BY <1>3 DEF CloseEvdev, CloseFile, Join, evdev, poll
<1>4. CASE Poll
  BY <1>4 DEF Poll, PollRead, PollSend, PollSendCanceled, PollTick, PollStop,
     evdev, detector
<1>5. CASE Evdev \/ EvError
  BY <1>5 DEF Evdev, EvRead, EvSend, EvSendCanceled, EvClosed, EvError, poll,
     detector
<1>6. CASE StopStart \/ StopReturns
  BY <1>6 DEF StopStart, StopReturns, evdev, poll, detector
<1>7. CASE MoveLid \/ Terminated \/ UNCHANGED vars
  BY <1>7 DEF MoveLid, Terminated, vars, evdev, poll, detector
<1> QED
  BY <1>1, <1>2, <1>3, <1>4, <1>5, <1>6, <1>7 DEF Next, Run

\* When Stop has returned run() is done, both readers have ended and the device
\* is closed.
THEOREM StopLeavesNothing == Spec => []StopIsQuiet
<1>1. Init => EndOrder
  BY DEF Init, EndOrder
<1>2. EndOrder => StopIsQuiet
  BY DEF EndOrder, ReadersEnded, StopIsQuiet
<1> QED
  BY <1>1, <1>2, StepEndOrder, PTL DEF Spec

-----------------------------------------------------------------------------
(* The refinement of LidDelivery *)

\* Whatever is on its way to the callback is a state the lid has had: until it
\* moves, its only one.
OnlyStatesSeen ==
  moves = 0 =>
    /\ \A i \in 1..Len(states) : states[i] = lid
    /\ pollPc = "send" => pollVal = lid
    /\ kernel = <<>> /\ evPc # "send"

LEMMA StepStatesSeen == TypeOK /\ OnlyStatesSeen /\ [Next]_vars => OnlyStatesSeen'
<1> SUFFICES ASSUME TypeOK, OnlyStatesSeen, [Next]_vars, moves' = 0
             PROVE  OnlyStatesSeen'
  BY DEF OnlyStatesSeen
<1>0. states \in Seq(Lid) /\ moves \in Nat /\ pollVal \in Lid /\ evVal \in Lid
  BY MonitorAssumption DEF TypeOK
<1> USE DEF OnlyStatesSeen
<1>1. CASE MoveLid
  BY <1>0, <1>1 DEF MoveLid
<1>2. CASE Receive
  <2>1. /\ Tail(states) \in Seq(Lid) /\ Len(Tail(states)) = Len(states) - 1
        /\ Len(states) \in Nat
        /\ \A i \in 1..Len(Tail(states)) : Tail(states)[i] = states[i + 1]
    BY <1>0, <1>2, HeadTailProperties, LenProperties DEF Receive
  <2>2. \A i \in 1..Len(Tail(states)) : Tail(states)[i] = lid
    BY <1>2, <2>1 DEF Receive
  <2> QED
    BY <1>2, <2>2 DEF Receive, evdev, poll
<1>3. CASE PollSend
  <2>1. /\ Len(Append(states, pollVal)) = Len(states) + 1 /\ Len(states) \in Nat
        /\ \A i \in 1..Len(states) : Append(states, pollVal)[i] = states[i]
        /\ Append(states, pollVal)[Len(states) + 1] = pollVal
    BY <1>0, AppendProperties, LenProperties
  <2>2. \A i \in 1..Len(Append(states, pollVal)) : Append(states, pollVal)[i] = lid
    BY <1>3, <2>1 DEF PollSend
  <2> QED
    BY <1>3, <2>2 DEF PollSend, Send, evdev
<1>4. CASE UNCHANGED states /\ ~MoveLid
  BY <1>0, <1>4 DEF Next, Run, FanOut, CallbackReturns, RunStop, CloseEvdev,
     CloseFile, Join, Poll, PollRead, PollSendCanceled, PollTick, PollStop,
     Evdev, EvRead, EvSendCanceled, EvClosed, EvError, StopStart, StopReturns,
     Terminated, vars, evdev, poll, detector, PollSend, EvSend, Receive
<1>5. CASE EvSend
  BY <1>5 DEF EvSend
<1> QED
  BY <1>1, <1>2, <1>3, <1>4, <1>5 DEF Next, Run, FanOut, CallbackReturns, RunStop,
     CloseEvdev, Join, Poll, PollRead, PollSendCanceled, PollTick, PollStop,
     Evdev, EvRead, EvSendCanceled, EvClosed, EvError, StopStart, StopReturns,
     Terminated, vars

RefInv == TypeOK /\ EndOrder /\ OnlyStatesSeen

LEMMA InvariantRef == Spec => []RefInv
<1>1. Init => RefInv
  BY InitTyped DEF Init, RefInv, EndOrder, OnlyStatesSeen
<1>2. TypeOK /\ OnlyStatesSeen /\ [Next]_vars => OnlyStatesSeen'
  BY StepStatesSeen
<1>3. Spec => []TypeOK
  BY MonitorTyped
<1>4. TypeOK /\ TypeOK' /\ EndOrder /\ OnlyStatesSeen /\ [Next]_vars => RefInv'
  BY <1>2, StepEndOrder DEF RefInv
<1> QED
  BY <1>1, <1>3, <1>4, PTL DEF Spec, RefInv

\* A new value in the change detector is a delivery.
LEMMA ReceiveDelivers == RefInv /\ Receive => [Delivery!Next]_(Delivery!vars)
<1> SUFFICES ASSUME RefInv, Receive PROVE [Delivery!Next]_(Delivery!vars)
  OBVIOUS
<1> DEFINE s == Head(states)
<1>1. s \in Lid /\ s = states[1] /\ 1 \in 1..Len(states)
  <2>1. states \in Seq(Lid) /\ states # <<>>
    BY DEF RefInv, TypeOK, Receive
  <2> QED
    BY <2>1
<1>2. s \in statesSeen
  BY <1>1 DEF RefInv, OnlyStatesSeen, statesSeen
<1>3. statesSeen' = statesSeen /\ stopPhase' = stopPhase /\ stopPhase # "off"
  BY DEF Receive, RefInv, EndOrder, statesSeen, stopPhase
<1>4. CASE Repeat(s)
  BY <1>3, <1>4 DEF Receive, detector, Delivery!vars, deliveredState
<1>5. CASE ~Repeat(s)
  <2>1. s # deliveredState
    BY <1>1, <1>5 DEF Repeat, deliveredState, Lid
  <2>2. deliveredState' = s /\ runPc = "select" /\ runPc' = "callback"
    BY <1>5 DEF Receive, deliveredState
  <2>3. Delivery!Deliver(s)
    BY <1>2, <1>3, <2>1, <2>2 DEF Delivery!Deliver
  <2> QED
    BY <1>1, <2>3 DEF Delivery!Next, Lid
<1> QED
  BY <1>4, <1>5

\* A movement adds the state the lid moves to to those it has had.
LEMMA MoveMoves == RefInv /\ MoveLid => [Delivery!Next]_(Delivery!vars)
<1> SUFFICES ASSUME RefInv, MoveLid PROVE [Delivery!Next]_(Delivery!vars)
  OBVIOUS
<1>1. PICK to \in Lid \ {lid} : lid' = to
  BY DEF MoveLid
<1>2. statesSeen' = statesSeen \cup {to}
  BY <1>1, MonitorAssumption DEF MoveLid, RefInv, TypeOK, statesSeen, Lid
<1>3. UNCHANGED <<deliveredState, runPc, stopPhase>>
  BY DEF MoveLid, detector, deliveredState, stopPhase
<1>4. Delivery!Move(to)
  BY <1>2, <1>3 DEF Delivery!Move
<1> QED
  BY <1>1, <1>4 DEF Delivery!Next, Lid

LEMMA DeliveryStep == RefInv /\ [Next]_vars => [Delivery!Next]_(Delivery!vars)
<1> SUFFICES ASSUME RefInv, [Next]_vars PROVE [Delivery!Next]_(Delivery!vars)
  OBVIOUS
<1>1. CASE MoveLid
  BY <1>1, MoveMoves
<1>2. CASE Receive
  BY <1>2, ReceiveDelivers
<1>3. CASE CallbackReturns
  BY <1>3 DEF CallbackReturns, statesSeen, deliveredState, stopPhase,
     Delivery!Next, Delivery!Return
<1>4. CASE StopStart
  BY <1>4 DEF StopStart, detector, RefInv, EndOrder, statesSeen, deliveredState,
     stopPhase, Delivery!Next, Delivery!Stop
<1>5. CASE StopReturns
  BY <1>5 DEF StopReturns, detector, RefInv, EndOrder, statesSeen, deliveredState,
     stopPhase, Delivery!Next, Delivery!Off
<1>6. CASE FanOut \/ RunStop \/ CloseEvdev \/ Join
  <2>1. /\ UNCHANGED <<moves, lid, have, last, stop, stopPc>>
        /\ runPc # "callback" /\ runPc' # "callback"
    BY <1>6 DEF FanOut, RunStop, CloseEvdev, Join
  <2>2. (runPc = "callback")' = (runPc = "callback")
    BY <2>1
  <2> QED
    BY <2>1, <2>2 DEF statesSeen, deliveredState, stopPhase, Delivery!vars
<1>7. CASE Poll \/ Evdev \/ EvError \/ Terminated \/ UNCHANGED vars
  <2>1. UNCHANGED <<moves, lid, have, last, runPc, stop, stopPc>>
    BY <1>7 DEF Poll, PollRead, PollSend, PollSendCanceled, PollTick, PollStop,
       Evdev, EvRead, EvSend, EvSendCanceled, EvClosed, EvError, Terminated,
       vars, detector
  <2> QED
    BY <2>1 DEF statesSeen, deliveredState, stopPhase, Delivery!vars
<1> QED
  BY <1>1, <1>2, <1>3, <1>4, <1>5, <1>6, <1>7 DEF Next, Run

\* Every behaviour of readers, channel and change detector is one of the
\* delivery of lid states, its fairness apart: serial callbacks, each with
\* another state than the one before and one the lid has had, none after Stop.
THEOREM MonitorImplementsDelivery ==
  Spec => (\E at \in Lid : Delivery!Init(at)) /\ [][Delivery!Next]_(Delivery!vars)
<1>1. Init => \E at \in Lid : Delivery!Init(at)
  BY DEF Init, Delivery!Init, statesSeen, deliveredState, stopPhase
<1> QED
  BY <1>1, InvariantRef, DeliveryStep, PTL DEF Spec

-----------------------------------------------------------------------------
(* What the device still owes *)

\* A source that was not found reads nothing.
NoSourceNoReader ==
  /\ "evdev" \notin sources => ~evOpen /\ kernel = <<>> /\ evPc \in {"idle", "ended"}
  /\ "file" \notin sources => pollPc \in {"idle", "ended"}

\* A lid event is always followed by its EV_SYN, seen from the end of the queue.
EventsPaired ==
  \A i \in 1..Len(kernel) : kernel[i].type = "sw" <=> (Len(kernel) - i) % 2 = 1

\* Lid events not sent yet: those queued and the one read.
Pending == Len(kernel) \div 2 + (IF evPc = "send" THEN 1 ELSE 0)

LEMMA StepSources == NoSourceNoReader /\ [Next]_vars => NoSourceNoReader'
<1> SUFFICES ASSUME NoSourceNoReader, [Next]_vars PROVE NoSourceNoReader'
  OBVIOUS
<1> USE DEF NoSourceNoReader
<1>1. CASE FanOut
  BY <1>1 DEF FanOut
<1>2. CASE Receive \/ CallbackReturns \/ RunStop \/ CloseEvdev \/ Join
  BY <1>2 DEF Receive, CallbackReturns, RunStop, CloseEvdev, CloseFile, Join,
     evdev, poll
<1>3. CASE Poll \/ Evdev \/ EvError
  BY <1>3 DEF Poll, PollRead, PollSend, PollSendCanceled, PollTick, PollStop,
     Evdev, EvRead, EvSend, EvSendCanceled, EvClosed, EvError, evdev, poll
<1>4. CASE StopStart \/ StopReturns \/ Terminated \/ UNCHANGED vars
  BY <1>4 DEF StopStart, StopReturns, Terminated, vars, evdev, poll
<1>5. CASE MoveLid
  <2>1. ~evOpen => kernel' = kernel
    BY <1>5 DEF MoveLid
  <2>2. UNCHANGED <<sources, evOpen, evPc, pollPc>>
    BY <1>5 DEF MoveLid, poll
  <2> QED
    BY <2>1, <2>2
<1> QED
  BY <1>1, <1>2, <1>3, <1>4, <1>5 DEF Next, Run

\* A movement adds one pair of events to an open device.
LEMMA MovePending ==
  ASSUME TypeOK, EventsPaired, MoveLid
  PROVE  EventsPaired' /\ Pending' <= Pending + 1 /\ (~evOpen => Pending' = Pending)
<1>1. kernel \in Seq(Event) /\ Len(kernel) \in Nat /\ evPc' = evPc
  BY LenProperties DEF TypeOK, MoveLid
<1>2. CASE evOpen
  <2>1. PICK to \in Lid :
          kernel' = kernel \o << [type |-> "sw", val |-> Encode(to)],
                                 [type |-> "syn", val |-> 0] >>
    BY <1>2 DEF MoveLid
  <2> DEFINE sw == [type |-> "sw", val |-> Encode(to)]
             syn == [type |-> "syn", val |-> 0]
  <2>2. sw \in Event /\ syn \in Event
    BY DEF Event, Encode
  <2>3. /\ Len(kernel') = Len(kernel) + 2
        /\ \A i \in 1..(Len(kernel) + 2) :
             kernel'[i] = IF i <= Len(kernel) THEN kernel[i]
                                              ELSE <<sw, syn>>[i - Len(kernel)]
    <3>1. <<sw, syn>> \in Seq(Event) /\ Len(<<sw, syn>>) = 2
      BY <2>2
    <3> QED
      BY <1>1, <2>1, <3>1, ConcatProperties
  <2>4. ASSUME NEW i \in 1..(Len(kernel) + 2)
        PROVE  kernel'[i].type = "sw" <=> (Len(kernel) + 2 - i) % 2 = 1
    <3>1. CASE i <= Len(kernel)
      <4>1. (Len(kernel) + 2 - i) % 2 = (Len(kernel) - i) % 2
        BY <1>1
      <4> QED
        BY <1>1, <2>3, <3>1, <4>1 DEF EventsPaired
    <3>2. CASE i = Len(kernel) + 1
      BY <1>1, <2>3, <3>2
    <3>3. CASE i = Len(kernel) + 2
      BY <1>1, <2>3, <3>3
    <3> QED
      BY <1>1, <3>1, <3>2, <3>3
  <2> QED
    BY <1>1, <1>2, <2>3, <2>4 DEF EventsPaired, Pending
<1>3. CASE ~evOpen
  BY <1>1, <1>3 DEF MoveLid, EventsPaired, Pending
<1> QED
  BY <1>2, <1>3

\* A read takes an event from the queue; a lid event is still to be sent.
LEMMA ReadPending ==
  ASSUME TypeOK, EventsPaired, EvRead
  PROVE  EventsPaired' /\ Pending' = Pending
<1>1. kernel \in Seq(Event) /\ kernel # <<>> /\ evPc = "read"
  BY DEF TypeOK, EvRead
<1>2. /\ Len(kernel) \in Nat /\ Len(kernel) >= 1
      /\ Len(Tail(kernel)) = Len(kernel) - 1
      /\ \A i \in 1..Len(Tail(kernel)) : Tail(kernel)[i] = kernel[i + 1]
      /\ Head(kernel) = kernel[1] /\ kernel' = Tail(kernel)
  BY <1>1, HeadTailProperties, LenProperties DEF EvRead
<1>3. EventsPaired'
  <2> SUFFICES ASSUME NEW i \in 1..Len(kernel')
               PROVE  kernel'[i].type = "sw" <=> (Len(kernel') - i) % 2 = 1
    BY DEF EventsPaired
  <2>1. i + 1 \in 1..Len(kernel) /\ Len(kernel) - (i + 1) = Len(kernel') - i
    BY <1>2
  <2> QED
    BY <1>2, <2>1 DEF EventsPaired
<1>4. kernel[1].type = "sw" <=> (Len(kernel) - 1) % 2 = 1
  BY <1>2 DEF EventsPaired
<1>5. ASSUME IsLidEvent(Head(kernel)) PROVE Pending' = Pending
  BY <1>1, <1>2, <1>4, <1>5 DEF EvRead, IsLidEvent, Pending
<1>6. ASSUME ~IsLidEvent(Head(kernel)) PROVE Pending' = Pending
  BY <1>1, <1>2, <1>4, <1>6 DEF EvRead, IsLidEvent, Pending
<1> QED
  BY <1>3, <1>5, <1>6

\* Nothing else pairs or adds events, and a send settles one.
LEMMA OtherPending ==
  ASSUME TypeOK, EventsPaired, [Next]_vars, ~MoveLid, ~EvRead
  PROVE  EventsPaired' /\ Pending' <= Pending /\ (EvSend => Pending' = Pending - 1)
<1>1. kernel \in Seq(Event) /\ Len(kernel) \in Nat
  BY LenProperties DEF TypeOK
<1>2. kernel' = kernel \/ kernel' = <<>>
  BY DEF Next, Run, FanOut, Receive, CallbackReturns, RunStop, CloseEvdev,
     CloseFile, Join, Poll, PollRead, PollSend, PollSendCanceled, PollTick,
     PollStop, Evdev, EvSend, EvSendCanceled, EvClosed, EvError, StopStart,
     StopReturns, Terminated, vars, evdev
<1>3. EventsPaired' /\ Len(kernel') \div 2 <= Len(kernel) \div 2
  <2>1. CASE kernel' = kernel
    BY <1>1, <2>1 DEF EventsPaired
  <2>2. CASE kernel' = <<>>
    BY <1>1, <2>2 DEF EventsPaired
  <2> QED
    BY <1>2, <2>1, <2>2
<1>4. evPc' = "send" => evPc = "send"
  BY DEF Next, Run, FanOut, Receive, CallbackReturns, RunStop, CloseEvdev,
     Join, Poll, PollRead, PollSend, PollSendCanceled, PollTick,
     PollStop, Evdev, EvSend, EvSendCanceled, EvClosed, EvError, StopStart,
     StopReturns, Terminated, vars, evdev
<1>5. Pending' <= Pending
  BY <1>1, <1>2, <1>3, <1>4 DEF Pending
<1>6. EvSend => Pending' = Pending - 1
  BY <1>1 DEF EvSend, Pending
<1> QED
  BY <1>3, <1>5, <1>6

-----------------------------------------------------------------------------
(* How often a movement can be delivered *)

\* With the event device alone every callback, every state in the channel and
\* every event not sent yet stands for a movement of its own.
EventsAreMoves ==
  "file" \notin sources => calls + Len(states) + Pending <= moves

LEMMA StepEventsAreMoves ==
  TypeOK /\ NoSourceNoReader /\ EventsPaired /\ EventsAreMoves /\ [Next]_vars
    => EventsAreMoves'
<1> SUFFICES ASSUME TypeOK, NoSourceNoReader, EventsPaired, EventsAreMoves,
                    [Next]_vars, "file" \notin sources'
             PROVE  (calls + Len(states) + Pending <= moves)'
  BY DEF EventsAreMoves
<1>1. sources' = sources
  BY DEF Next, MoveLid, Run, FanOut, Receive, CallbackReturns, RunStop, CloseEvdev,
     Join, Poll, PollRead, PollSend, PollSendCanceled, PollTick, PollStop, Evdev,
     EvRead, EvSend, EvSendCanceled, EvClosed, EvError, StopStart, StopReturns,
     Terminated, vars
<1>2. /\ calls + Len(states) + Pending <= moves
      /\ pollPc \in {"idle", "ended"}
      /\ states \in Seq(Lid) /\ Len(states) \in Nat /\ evVal \in Lid
      /\ calls \in Nat /\ moves \in Nat /\ Pending \in Nat
  BY <1>1, MonitorAssumption, LenProperties DEF EventsAreMoves, NoSourceNoReader,
     TypeOK, Pending
<1>3. Pending' \in Nat
  BY StepTyped, LenProperties DEF TypeOK, Pending
<1>4. CASE MoveLid
  <2>1. UNCHANGED <<calls, states>> /\ moves' = moves + 1
    BY <1>4 DEF MoveLid, detector
  <2> QED
    BY <1>2, <1>3, <1>4, <2>1, MovePending
<1>5. CASE EvRead
  <2>1. UNCHANGED <<calls, states, moves>>
    BY <1>5 DEF EvRead, detector
  <2> QED
    BY <1>2, <1>5, <2>1, ReadPending
<1>6. CASE Receive
  <2>1. Len(states') = Len(states) - 1 /\ calls' <= calls + 1 /\ moves' = moves
        /\ calls' \in Nat
    BY <1>2, <1>6, HeadTailProperties DEF Receive, detector
  <2>2. Pending' = Pending
    BY <1>6 DEF Receive, evdev, Pending
  <2> QED
    BY <1>2, <2>1, <2>2
<1>7. CASE EvSend
  <2>1. Len(states') = Len(states) + 1 /\ UNCHANGED <<calls, moves>>
    BY <1>2, <1>7, AppendProperties DEF EvSend, Send, detector
  <2>2. ~MoveLid /\ ~EvRead
    BY <1>7 DEF EvSend, MoveLid, EvRead
  <2> QED
    BY <1>2, <1>7, <2>1, <2>2, OtherPending
<1>8. CASE ~MoveLid /\ ~EvRead /\ ~Receive /\ ~EvSend
  <2>1. UNCHANGED <<calls, states, moves>>
    BY <1>2, <1>8 DEF Next, Run, FanOut, CallbackReturns, RunStop, CloseEvdev,
       Join, Poll, PollRead, PollSend, PollSendCanceled, PollTick, PollStop,
       Evdev, EvSendCanceled, EvClosed, EvError, StopStart, StopReturns,
       Terminated, vars, detector
  <2> QED
    BY <1>2, <1>3, <1>8, <2>1, OtherPending
<1> QED
  BY <1>4, <1>5, <1>6, <1>7, <1>8

(* With the file the count runs along the channel *)

Differ(a, b) == IF a = b THEN 0 ELSE 1

\* The state delivered last, then the states in the channel.
line == [i \in 0..Len(states) |-> IF i = 0 THEN deliveredState ELSE states[i]]

\* cnt[i] is at least the number of callbacks made once i states of the channel
\* have been received, if base callbacks have been made before.
Ladder(cnt, ln, n, base) ==
  /\ cnt \in [0..n -> Nat] /\ base <= cnt[0]
  /\ \A i \in 1..n : cnt[i] >= cnt[i - 1] + Differ(ln[i - 1], ln[i])
  /\ \A i \in 0..n : cnt[i] <= cnt[n]

\* Receiving drops the first rung.
LEMMA LadderShift ==
  ASSUME NEW n \in Nat \ {0}, NEW cnt, NEW ln, NEW base, Ladder(cnt, ln, n, base),
         NEW next, \A i \in 0..(n - 1) : next[i] = ln[i + 1],
         NEW made \in Nat, made <= cnt[1]
  PROVE  \E c : Ladder(c, next, n - 1, made) /\ c[n - 1] = cnt[n]
<1> DEFINE c == [i \in 0..(n - 1) |-> cnt[i + 1]]
<1>1. c \in [0..(n - 1) -> Nat] /\ \A i \in 0..(n - 1) : c[i] = cnt[i + 1]
  BY DEF Ladder
<1>2. ASSUME NEW i \in 1..(n - 1)
      PROVE  c[i] >= c[i - 1] + Differ(next[i - 1], next[i])
  <2>1. i + 1 \in 1..n /\ i \in 0..(n - 1) /\ i - 1 \in 0..(n - 1)
        /\ (i + 1) - 1 = i /\ (i - 1) + 1 = i
    OBVIOUS
  <2>2. cnt[i + 1] >= cnt[i] + Differ(ln[i], ln[i + 1])
    BY <2>1 DEF Ladder
  <2> QED
    BY <1>1, <2>1, <2>2
<1>3. \A i \in 0..(n - 1) : c[i] <= c[n - 1]
  BY <1>1 DEF Ladder
<1>4. made <= c[0] /\ c[n - 1] = cnt[n]
  BY <1>1
<1> HIDE DEF c
<1> QED
  BY <1>1, <1>2, <1>3, <1>4 DEF Ladder

\* Sending adds a rung.
LEMMA LadderExtend ==
  ASSUME NEW n \in Nat, NEW cnt, NEW ln, NEW base \in Nat, Ladder(cnt, ln, n, base),
         NEW next, \A i \in 0..n : next[i] = ln[i]
  PROVE  \E c : /\ Ladder(c, next, n + 1, base)
                /\ c[n + 1] = cnt[n] + Differ(ln[n], next[n + 1])
<1> DEFINE top == cnt[n] + Differ(ln[n], next[n + 1])
           c == [i \in 0..(n + 1) |-> IF i <= n THEN cnt[i] ELSE top]
<1>1. top \in Nat /\ cnt[n] <= top
  BY DEF Ladder, Differ
<1>2. /\ c \in [0..(n + 1) -> Nat] /\ c[n + 1] = top
      /\ \A i \in 0..n : c[i] = cnt[i]
  <2> HIDE DEF top
  <2> QED
    BY <1>1 DEF Ladder
<1> HIDE DEF c
<1>3. ASSUME NEW i \in 1..(n + 1)
      PROVE  c[i] >= c[i - 1] + Differ(next[i - 1], next[i])
  <2>1. CASE i \in 1..n
    <3>1. i \in 0..n /\ i - 1 \in 0..n
      BY <2>1
    <3>2. cnt[i] >= cnt[i - 1] + Differ(ln[i - 1], ln[i])
      BY <2>1 DEF Ladder
    <3> QED
      BY <1>2, <3>1, <3>2
  <2>2. CASE i = n + 1
    <3>1. c[i] = top /\ c[i - 1] = cnt[n] /\ next[i - 1] = ln[n] /\ next[i] = next[n + 1]
      BY <1>2, <2>2
    <3> QED
      BY <1>1, <3>1 DEF Differ
  <2> QED
    BY <2>1, <2>2
<1>4. \A i \in 0..(n + 1) : c[i] <= c[n + 1]
  <2> HIDE DEF top
  <2>1. \A i \in 0..n : c[i] <= cnt[n] /\ c[i] \in Nat
    BY <1>2 DEF Ladder
  <2>2. cnt[n] \in Nat
    BY DEF Ladder
  <2>3. ASSUME NEW i \in 0..(n + 1) PROVE c[i] <= c[n + 1]
    BY <1>1, <1>2, <2>1, <2>2
  <2> QED
    BY <2>3
<1>5. base <= c[0]
  BY <1>2 DEF Ladder
<1> QED
  BY <1>2, <1>3, <1>4, <1>5 DEF Ladder

\* Each lid event may yet cost two callbacks: its own and an echo of the file.
Debt == IF "evdev" \in sources THEN 2 * Pending ELSE 0
Allowance == IF "evdev" \in sources THEN 3 * moves + 1 ELSE moves + 1

\* at is the state the file's reader has read last. All callbacks the channel
\* holds, one more if the reader finds its state outdated there, one more if the
\* lid has moved since, and what the device owes, stay within the allowance.
Charged(cnt, at) ==
  /\ Ladder(cnt, line, Len(states), calls)
  /\ pollPc = "send" => at = pollVal
  /\ cnt[Len(states)] + Differ(line[Len(states)], at) + Differ(at, lid) + Debt
       <= Allowance

EchoPaid == \E at \in Lid : \E cnt : Charged(cnt, at)

LEMMA InitEchoPaid == Init => EchoPaid
<1> SUFFICES ASSUME Init PROVE EchoPaid
  OBVIOUS
<1> DEFINE cnt == [i \in 0..0 |-> 0]
<1>1. Len(states) = 0 /\ calls = 0 /\ moves = 0 /\ lid \in Lid /\ pollPc # "send"
  BY DEF Init
<1>2. cnt[0] = 0 /\ cnt \in [0..0 -> Nat]
  OBVIOUS
<1>3. Ladder(cnt, line, 0, 0)
  BY <1>2 DEF Ladder
<1>4. Debt = 0 /\ Allowance = 1
  BY <1>1 DEF Init, Debt, Allowance, Pending
<1>5. Differ(lid, lid) = 0 /\ Differ(line[0], lid) <= 1 /\ Differ(line[0], lid) \in Nat
  BY DEF Differ
<1>6. Charged(cnt, lid)
  <2> HIDE DEF cnt
  <2> QED
    BY <1>1, <1>2, <1>3, <1>4, <1>5 DEF Charged
<1> QED
  BY <1>1, <1>6 DEF EchoPaid

\* The facts about numbers and sequences the steps below need.
Sized ==
  /\ states \in Seq(Lid) /\ Len(states) \in Nat /\ kernel \in Seq(Event)
  /\ lid \in Lid /\ last \in Lid /\ evVal \in Lid /\ pollVal \in Lid
  /\ calls \in Nat /\ moves \in Nat /\ Pending \in Nat

LEMMA TypedIsSized == TypeOK => Sized
BY MonitorAssumption, LenProperties DEF TypeOK, Sized, Pending

LEMMA DifferFacts ==
  \A a, b, c : /\ Differ(a, b) \in {0, 1} /\ Differ(a, a) = 0
              /\ Differ(a, c) <= Differ(a, b) + Differ(b, c)
BY DEF Differ

\* A step that leaves the channel and its receiver alone keeps the ladder.
LEMMA LineUnchanged ==
  ASSUME UNCHANGED <<states, have, last>> PROVE line' = line /\ Len(states') = Len(states)
BY DEF line, deliveredState

\* Receiving takes the delivered state off the line: the next one is delivered
\* now, or was delivered already.
LEMMA LineShifts ==
  ASSUME Sized, Receive
  PROVE  /\ Len(states) \in Nat \ {0} /\ Len(states') = Len(states) - 1
         /\ Head(states) = states[1] /\ states[1] \in Lid
         /\ \A i \in 0..(Len(states) - 1) : line'[i] = line[i + 1]
<1> DEFINE n == Len(states)
<1>1. /\ n \in Nat \ {0} /\ states' = Tail(states) /\ Len(states') = n - 1
      /\ Head(states) = states[1] /\ states[1] \in Lid
      /\ \A i \in 1..(n - 1) : states'[i] = states[i + 1]
  <2>1. states \in Seq(Lid) /\ states # <<>>
    BY DEF Sized, Receive
  <2> QED
    BY <2>1, HeadTailProperties, LenProperties DEF Receive
<1>2. deliveredState' = states[1]
  BY <1>1 DEF Receive, Repeat, detector, deliveredState
<1> QED
  BY <1>1, <1>2 DEF line

\* Sending adds to the end of the line.
LEMMA LineGrows ==
  ASSUME Sized, NEW s \in Lid, Send(s), UNCHANGED <<have, last>>
  PROVE  /\ Len(states) \in Nat /\ Len(states') = Len(states) + 1
         /\ \A i \in 0..Len(states) : line'[i] = line[i]
         /\ line'[Len(states) + 1] = s
<1> DEFINE n == Len(states)
<1>1. /\ n \in Nat /\ states' = Append(states, s) /\ Len(states') = n + 1
      /\ states'[n + 1] = s /\ \A i \in 1..n : states'[i] = states[i]
  BY AppendProperties DEF Sized, Send
<1> QED
  BY <1>1 DEF line, deliveredState

\* Receiving a state: a callback for a new one, none for a repeat.
LEMMA EchoReceive ==
  ASSUME Sized, NEW at \in Lid, NEW cnt, Charged(cnt, at), Receive
  PROVE  \E c : Charged(c, at)'
<1> DEFINE n == Len(states)
<1>1. /\ n \in Nat \ {0} /\ Len(states') = n - 1
      /\ Head(states) = states[1] /\ states[1] \in Lid
      /\ \A i \in 0..(n - 1) : line'[i] = line[i + 1]
  BY LineShifts
<1>2. calls' \in Nat /\ calls' <= cnt[1]
  <2>1. /\ calls <= cnt[0] /\ cnt[0] \in Nat /\ cnt[1] \in Nat
        /\ cnt[1] >= cnt[0] + Differ(deliveredState, states[1])
    <3>1. Ladder(cnt, line, n, calls) /\ 1 \in 1..n /\ 0 \in 0..n /\ 1 \in 0..n
      BY <1>1 DEF Charged
    <3>2. line[0] = deliveredState /\ line[1] = states[1]
      BY <3>1 DEF line
    <3>3. calls <= cnt[0] /\ cnt \in [0..n -> Nat] /\ cnt[1] >= cnt[0] + Differ(line[0], line[1])
      <4> HIDE DEF n
      <4> QED
        BY <3>1 DEF Ladder
    <3> QED
      BY <3>1, <3>2, <3>3
  <2>2. CASE Repeat(states[1])
    <3>1. calls' = calls
      BY <1>1, <2>2 DEF Receive, detector
    <3>2. Differ(deliveredState, states[1]) \in Nat
      BY DEF Differ
    <3> QED
      BY <2>1, <3>1, <3>2 DEF Sized
  <2>3. CASE ~Repeat(states[1])
    <3>1. deliveredState # states[1]
      BY <1>1, <2>3 DEF Repeat, deliveredState, Lid
    <3>2. calls' = calls + 1
      BY <1>1, <2>3 DEF Receive
    <3> QED
      BY <2>1, <3>1, <3>2 DEF Differ, Sized
  <2> QED
    BY <2>2, <2>3
<1>3. PICK c : Ladder(c, line', n - 1, calls') /\ c[n - 1] = cnt[n]
  BY <1>1, <1>2, LadderShift DEF Charged
<1>4. line'[n - 1] = line[n]
  BY <1>1
<1>5. UNCHANGED <<pollPc, pollVal, lid, Debt, Allowance>>
  BY DEF Receive, evdev, poll, Debt, Allowance, Pending
<1> QED
  BY <1>1, <1>3, <1>4, <1>5 DEF Charged

\* Sending s: at most one callback more than the channel already holds.
LEMMA EchoSend ==
  ASSUME Sized, NEW at \in Lid, NEW cnt, Charged(cnt, at), NEW s \in Lid, Send(s),
         UNCHANGED <<have, last, calls>>
  PROVE  \E c : /\ Ladder(c, line', Len(states'), calls')
                /\ c[Len(states')] = cnt[Len(states)] + Differ(line[Len(states)], s)
                /\ line'[Len(states')] = s
<1> DEFINE n == Len(states)
<1>1. /\ n \in Nat /\ Len(states') = n + 1
      /\ (\A i \in 0..n : line'[i] = line[i]) /\ line'[n + 1] = s
  BY LineGrows
<1>2. PICK c : /\ Ladder(c, line', n + 1, calls)
               /\ c[n + 1] = cnt[n] + Differ(line[n], line'[n + 1])
  BY <1>1, LadderExtend DEF Charged, Sized
<1> QED
  BY <1>1, <1>2

CountInv ==
  TypeOK /\ NoSourceNoReader /\ EventsPaired /\ EventsAreMoves /\ EchoPaid

\* The arithmetic of the steps below.
LEMMA DebtGrows ==
  \A p, q, m \in Nat : q <= p + 1 =>
    /\ 2 * q \in Nat /\ 3 * (m + 1) + 1 \in Nat
    /\ 2 * q + (3 * m + 1) + 1 <= 2 * p + (3 * (m + 1) + 1)
OBVIOUS

LEMMA DebtShrinks == \A p, q \in Nat : q <= p => 2 * q <= 2 * p /\ 2 * q \in Nat
OBVIOUS

LEMMA MoveBalances ==
  \A t, debt, debt2, a, a2 \in Nat : \A e, d, d2 \in 0..1 :
    t + e + d + debt <= a /\ debt2 + a + 1 <= debt + a2 => t + e + d2 + debt2 <= a2
OBVIOUS

LEMMA StepEchoPaid == CountInv /\ [Next]_vars => EchoPaid'
<1> SUFFICES ASSUME CountInv, [Next]_vars PROVE EchoPaid'
  OBVIOUS
<1>1. PICK at \in Lid : \E cnt : Charged(cnt, at)
  BY DEF CountInv, EchoPaid
<1>2. PICK cnt : Charged(cnt, at)
  BY <1>1
<1> DEFINE top == cnt[Len(states)]
           end == line[Len(states)]
<1>3. Sized /\ TypeOK /\ EventsPaired /\ NoSourceNoReader
  BY TypedIsSized DEF CountInv
<1>4. /\ Ladder(cnt, line, Len(states), calls) /\ top \in Nat
      /\ pollPc = "send" => at = pollVal
      /\ top + Differ(end, at) + Differ(at, lid) + Debt <= Allowance
  BY <1>2, <1>3 DEF Charged, Ladder, Sized
<1>5. /\ Debt \in Nat /\ Allowance \in Nat
      /\ Differ(end, at) \in 0..1 /\ Differ(at, lid) \in 0..1
  BY <1>3 DEF Sized, Debt, Allowance, Differ
<1>6. Pending' \in Nat
  BY <1>3, StepTyped, LenProperties DEF TypeOK, Pending
<1>nat. Pending \in Nat /\ moves \in Nat
  BY <1>3 DEF Sized
<1> HIDE DEF top, end
<1>7. CASE MoveLid
  <2>1. /\ UNCHANGED <<states, have, last, calls, sources, pollPc, pollVal>>
        /\ moves' = moves + 1
    BY <1>7 DEF MoveLid, detector, poll
  <2>2. Pending' <= Pending + 1 /\ ("evdev" \notin sources => Pending' = Pending)
    BY <1>3, <1>7, MovePending DEF NoSourceNoReader
  <2>3. /\ Debt' \in Nat /\ Allowance' \in Nat
        /\ Debt' + Allowance + 1 <= Debt + Allowance'
    <3>1. CASE "evdev" \in sources
      <4>1. /\ Debt = 2 * Pending /\ Debt' = 2 * Pending'
            /\ Allowance = 3 * moves + 1 /\ Allowance' = 3 * (moves + 1) + 1
        BY <2>1, <3>1 DEF Debt, Allowance
      <4>2. /\ 2 * Pending' \in Nat /\ 3 * (moves + 1) + 1 \in Nat
            /\ 2 * Pending' + (3 * moves + 1) + 1 <= 2 * Pending + (3 * (moves + 1) + 1)
        BY <1>nat, <1>6, <2>2, DebtGrows
      <4> QED
        BY <4>1, <4>2
    <3>2. CASE "evdev" \notin sources
      BY <1>nat, <2>1, <3>2 DEF Debt, Allowance
    <3> QED
      BY <3>1, <3>2
  <2>4. Differ(at, lid') \in 0..1
    BY DEF Differ
  <2>5. top + Differ(end, at) + Differ(at, lid') + Debt' <= Allowance'
    BY <1>4, <1>5, <2>3, <2>4, MoveBalances
  <2>6. Charged(cnt, at)'
    BY <1>4, <2>1, <2>5, LineUnchanged DEF Charged, top, end
  <2> QED
    BY <2>6 DEF EchoPaid
<1>8. CASE Receive
  BY <1>2, <1>3, <1>8, EchoReceive DEF EchoPaid
<1>9. CASE PollSend
  <2>1. /\ Send(pollVal) /\ at = pollVal /\ pollPc' # "send"
        /\ UNCHANGED <<have, last, calls, lid>> /\ Debt' = Debt /\ Allowance' = Allowance
    BY <1>4, <1>9 DEF PollSend, detector, evdev, Debt, Allowance, Pending
  <2>2. PICK c : /\ Ladder(c, line', Len(states'), calls')
                 /\ c[Len(states')] = top + Differ(end, at)
                 /\ line'[Len(states')] = at
    BY <1>2, <1>3, <2>1, EchoSend DEF Sized, top, end
  <2>3. Differ(at, at) = 0
    BY DEF Differ
  <2>4. Charged(c, at)'
    BY <1>4, <1>5, <2>1, <2>2, <2>3 DEF Charged
  <2> QED
    BY <2>4 DEF EchoPaid
<1>10. CASE EvSend
  <2>1. /\ Send(evVal) /\ UNCHANGED <<have, last, calls, lid, pollPc, pollVal>>
        /\ Allowance' = Allowance /\ "evdev" \in sources /\ sources' = sources
    BY <1>3, <1>10 DEF EvSend, detector, poll, Allowance, NoSourceNoReader
  <2>2. Pending' = Pending - 1
    BY <1>3, <1>10, OtherPending DEF EvSend, MoveLid, EvRead
  <2>3. Debt' = Debt - 2
    BY <1>3, <2>1, <2>2 DEF Debt, Sized
  <2>4. PICK c : /\ Ladder(c, line', Len(states'), calls')
                 /\ c[Len(states')] = top + Differ(end, evVal)
                 /\ line'[Len(states')] = evVal
    BY <1>2, <1>3, <2>1, EchoSend DEF Sized, top, end
  <2>5. Differ(end, evVal) \in 0..1 /\ Differ(evVal, at) \in 0..1
    BY DEF Differ
  <2>6. c[Len(states')] + Differ(evVal, at) + Differ(at, lid) + Debt' <= Allowance'
    BY <1>4, <1>5, <2>1, <2>3, <2>4, <2>5
  <2>7. Charged(c, at)'
    BY <1>4, <2>1, <2>4, <2>6 DEF Charged
  <2> QED
    BY <2>7 DEF EchoPaid
<1>11. CASE PollRead
  <2>1. /\ UNCHANGED <<states, have, last, calls, lid>>
        /\ Debt' = Debt /\ Allowance' = Allowance
    BY <1>11 DEF PollRead, detector, evdev, Debt, Allowance, Pending
  <2>2. CASE pollPc' = "send"
    <3>1. pollVal' = lid
      BY <1>11, <2>2 DEF PollRead
    <3>2. Differ(lid, lid) = 0 /\ Differ(end, lid) \in 0..1
          /\ Differ(end, lid) <= Differ(end, at) + Differ(at, lid)
      BY DEF Differ
    <3>3. top + Differ(end, lid) + Differ(lid, lid) + Debt <= Allowance
      BY <1>4, <1>5, <3>2
    <3>4. Charged(cnt, lid)'
      BY <1>4, <2>1, <3>1, <3>3, LineUnchanged DEF Charged, top, end
    <3> QED
      BY <1>3, <3>4, <2>1 DEF EchoPaid, Sized
  <2>3. CASE pollPc' # "send"
    <3>1. Charged(cnt, at)'
      BY <1>4, <2>1, <2>3, LineUnchanged DEF Charged, top, end
    <3> QED
      BY <3>1 DEF EchoPaid
  <2> QED
    BY <2>2, <2>3
<1>12. CASE ~MoveLid /\ ~Receive /\ ~PollSend /\ ~EvSend /\ ~PollRead
  <2>1. UNCHANGED <<states, have, last, calls, lid, moves, sources, pollVal>>
        /\ (pollPc' = "send" => pollPc = "send")
    BY <1>12 DEF Next, Run, FanOut, CallbackReturns, RunStop, CloseEvdev, Join,
       Poll, PollSendCanceled, PollTick, PollStop, Evdev, EvRead, EvSendCanceled,
       EvClosed, EvError, StopStart, StopReturns, Terminated, vars, detector, poll
  <2>2. Pending' <= Pending
    <3>1. CASE EvRead
      BY <1>3, <3>1, ReadPending DEF Sized
    <3>2. CASE ~EvRead
      BY <1>3, <1>12, <3>2, OtherPending
    <3> QED
      BY <3>1, <3>2
  <2>3. Debt' \in Nat /\ Debt' <= Debt /\ Allowance' = Allowance
    <3>1. CASE "evdev" \in sources
      <4>1. Debt = 2 * Pending /\ Debt' = 2 * Pending' /\ Allowance' = Allowance
        BY <2>1, <3>1 DEF Debt, Allowance
      <4> QED
        BY <1>nat, <1>6, <2>2, <4>1, DebtShrinks
    <3>2. CASE "evdev" \notin sources
      BY <2>1, <3>2 DEF Debt, Allowance
    <3> QED
      BY <3>1, <3>2
  <2>4. top + Differ(end, at) + Differ(at, lid) + Debt' <= Allowance'
    BY <1>4, <1>5, <2>3
  <2>5. Charged(cnt, at)'
    BY <1>4, <2>1, <2>4, LineUnchanged DEF Charged, top, end
  <2> QED
    BY <2>5 DEF EchoPaid
<1> QED
  BY <1>7, <1>8, <1>9, <1>10, <1>11, <1>12

LEMMA InvariantCount == Spec => []CountInv
<1>1. Init => CountInv
  <2> SUFFICES ASSUME Init PROVE CountInv
    OBVIOUS
  <2>1. NoSourceNoReader /\ EventsPaired /\ EventsAreMoves
    BY DEF Init, NoSourceNoReader, EventsPaired, EventsAreMoves, Pending
  <2> QED
    BY <2>1, InitTyped, InitEchoPaid DEF CountInv
<1>2. CountInv /\ TypeOK' /\ [Next]_vars => CountInv'
  <2> SUFFICES ASSUME CountInv, TypeOK', [Next]_vars PROVE CountInv'
    OBVIOUS
  <2>1. TypeOK /\ EventsPaired /\ NoSourceNoReader /\ EventsAreMoves
    BY DEF CountInv
  <2>2. EventsPaired'
    BY <2>1, MovePending, ReadPending, OtherPending
  <2> QED
    BY <2>1, <2>2, StepSources, StepEventsAreMoves, StepEchoPaid DEF CountInv
<1> QED
  BY <1>1, <1>2, MonitorTyped, PTL DEF Spec

\* What the invariant says of the callbacks made.
LEMMA CallsWithinAllowance == CountInv => calls <= Allowance
<1> SUFFICES ASSUME CountInv PROVE calls <= Allowance
  OBVIOUS
<1>1. PICK at \in Lid : \E cnt : Charged(cnt, at)
  BY DEF CountInv, EchoPaid
<1>2. PICK cnt : Charged(cnt, at)
  BY <1>1
<1>3. Sized
  BY TypedIsSized DEF CountInv
<1> DEFINE n == Len(states)
<1>4. calls <= cnt[0] /\ cnt[0] <= cnt[n] /\ cnt[0] \in Nat /\ cnt[n] \in Nat
  BY <1>2, <1>3 DEF Charged, Ladder, Sized
<1>5. cnt[n] + Differ(line[n], at) + Differ(at, lid) + Debt <= Allowance
  BY <1>2 DEF Charged
<1>6. /\ Differ(line[n], at) \in Nat /\ Differ(at, lid) \in Nat
      /\ Debt \in Nat /\ Allowance \in Nat /\ calls \in Nat
  BY <1>3 DEF Differ, Debt, Allowance, Sized
<1> HIDE DEF n
<1> QED
  BY <1>4, <1>5, <1>6

\* The echo of one transition dies out: with both sources a movement is
\* delivered at most three times, whatever the delays and the channel hold.
THEOREM EchoDiesOut == Spec => []EchoBounded
<1>1. CountInv => EchoBounded
  BY CallsWithinAllowance, TypedIsSized DEF CountInv, Allowance, EchoBounded, Sized
<1> QED
  BY <1>1, InvariantCount, PTL

\* One source alone delivers no transition twice.
THEOREM NoEchoFromOneSource == Spec => []AtMostOnceFromOneSource
<1>1. CountInv => AtMostOnceFromOneSource
  <2> SUFFICES ASSUME CountInv, Cardinality(sources) = 1
               PROVE  calls <= moves + (IF "file" \in sources THEN 1 ELSE 0)
    BY DEF AtMostOnceFromOneSource
  <2>1. Sized
    BY TypedIsSized DEF CountInv
  <2>2. "file" \in sources => "evdev" \notin sources
    <3>1. ASSUME "file" \in sources, "evdev" \in sources PROVE FALSE
      <4>1. sources = {"file", "evdev"}
        BY <3>1 DEF CountInv, TypeOK, Source
      <4>2. Cardinality({"file", "evdev"}) = 2
        <5>1. IsFiniteSet({"file"}) /\ Cardinality({"file"}) = 1
          BY FS_Singleton
        <5>2. {"file"} \cup {"evdev"} = {"file", "evdev"} /\ "evdev" \notin {"file"}
          OBVIOUS
        <5> QED
          BY <5>1, <5>2, FS_AddElement
      <4> QED
        BY <4>1, <4>2
    <3> QED
      BY <3>1
  <2>3. CASE "file" \in sources
    BY <2>2, <2>3, CallsWithinAllowance DEF Allowance
  <2>4. CASE "file" \notin sources
    <3>1. calls + Len(states) + Pending <= moves
      BY <2>4 DEF CountInv, EventsAreMoves
    <3> QED
      BY <2>1, <2>4, <3>1 DEF Sized
  <2> QED
    BY <2>3, <2>4
<1> QED
  BY <1>1, InvariantCount, PTL

-----------------------------------------------------------------------------
(* What a source said last is what is delivered last *)

Newest == line[Len(states)]

\* Before the readers start nothing is under way, and a closed device holds no
\* events.
NothingYet ==
  /\ runPc = "start" =>
       states = <<>> /\ ~have /\ ~evOpen /\ evPc = "idle" /\ pollPc = "idle"
  /\ evOpen => evPc \in {"read", "send", "ended"}
  /\ ~evOpen => kernel = <<>>

\* The newest lid event, wherever it is on its way, tells where the lid is.
DeviceSpeaksLast ==
  sources = {"evdev"} /\ evOpen /\ evPc # "ended" /\ ~stop =>
    IF Len(kernel) >= 2 THEN Decode(kernel[Len(kernel) - 1].val) = lid
    ELSE IF evPc = "send" THEN evVal = lid
    ELSE Newest \in {"none", lid}

\* The newest state on its way from the file is the one read last.
FileSpeaksLast ==
  sources = {"file"} /\ ~stop /\ pollPc # "send" => Newest \in {"none", pollVal}

SyncInv ==
  /\ TypeOK /\ NoSourceNoReader /\ EventsPaired
  /\ NothingYet /\ DeviceSpeaksLast /\ FileSpeaksLast

\* A monitor with one source has delivered, when nothing is on its way, what the
\* source said last: the file's last reading, the lid's state for the device.
DrainedIsSynced ==
  ~stop /\ states = <<>> /\ have =>
    /\ sources = {"file"} /\ pollPc # "send" => last = pollVal
    /\ sources = {"evdev"} /\ evOpen /\ evPc = "read" /\ kernel = <<>> => last = lid

LEMMA StepNothingYet == NothingYet /\ [Next]_vars => NothingYet'
<1> SUFFICES ASSUME NothingYet, [Next]_vars PROVE NothingYet'
  OBVIOUS
<1> USE DEF NothingYet
<1>1. CASE FanOut
  BY <1>1 DEF FanOut
<1>2. CASE Receive
  BY <1>2 DEF Receive, evdev, poll, detector
<1>3. CASE CallbackReturns \/ RunStop \/ Join
  BY <1>3 DEF CallbackReturns, RunStop, Join, evdev, poll
<1>4. CASE CloseEvdev
  BY <1>4 DEF CloseEvdev, CloseFile, poll
<1>5. CASE Poll
  BY <1>5 DEF Poll, PollRead, PollSend, PollSendCanceled, PollTick, PollStop, evdev, detector
<1>6. CASE Evdev \/ EvError
  BY <1>6 DEF Evdev, EvRead, EvSend, EvSendCanceled, EvClosed, EvError, poll, detector
<1>7. CASE StopStart \/ StopReturns \/ Terminated \/ UNCHANGED vars
  BY <1>7 DEF StopStart, StopReturns, Terminated, vars, evdev, poll, detector
<1>8. CASE MoveLid
  <2>1. UNCHANGED <<evOpen, evPc, pollPc, runPc, states, have>>
    BY <1>8 DEF MoveLid, poll, detector
  <2>2. ~evOpen => kernel' = kernel
    BY <1>8 DEF MoveLid
  <2> QED
    BY <2>1, <2>2
<1> QED
  BY <1>1, <1>2, <1>3, <1>4, <1>5, <1>6, <1>7, <1>8 DEF Next, Run

\* Only a send changes what is newest.
LEMMA ReceiveKeepsNewest ==
  ASSUME Sized, Receive PROVE Newest' = Newest
BY LineShifts DEF Newest

LEMMA SendIsNewest ==
  ASSUME Sized, NEW s \in Lid, Send(s), UNCHANGED <<have, last>> PROVE Newest' = s
BY LineGrows DEF Newest

LEMMA LineKeepsNewest ==
  ASSUME UNCHANGED <<states, have, last>> PROVE Newest' = Newest
BY LineUnchanged DEF Newest

\* A movement puts its event where the newest is looked for.
LEMMA MoveSpeaks ==
  ASSUME TypeOK, MoveLid, evOpen
  PROVE  /\ Len(kernel') \in Nat /\ Len(kernel') >= 2
         /\ Decode(kernel'[Len(kernel') - 1].val) = lid'
<1>1. PICK to \in Lid :
        /\ lid' = to
        /\ kernel' = kernel \o << [type |-> "sw", val |-> Encode(to)],
                                  [type |-> "syn", val |-> 0] >>
  BY DEF MoveLid
<1> DEFINE sw == [type |-> "sw", val |-> Encode(to)]
           syn == [type |-> "syn", val |-> 0]
<1>2. kernel \in Seq(Event) /\ Len(kernel) \in Nat
  BY LenProperties DEF TypeOK
<1>3. <<sw, syn>> \in Seq(Event) /\ Len(<<sw, syn>>) = 2 /\ <<sw, syn>>[1] = sw
  BY DEF Event, Encode
<1>4. Len(kernel') = Len(kernel) + 2 /\ kernel'[Len(kernel) + 1] = sw
  BY <1>1, <1>2, <1>3, ConcatProperties
<1>5. Decode(Encode(to)) = to
  BY DEF Decode, Encode, Lid
<1> QED
  BY <1>1, <1>2, <1>4, <1>5

\* A read moves the newest event towards the channel, or drops an EV_SYN.
LEMMA ReadSpeaks ==
  ASSUME TypeOK, EventsPaired, DeviceSpeaksLast, EvRead PROVE DeviceSpeaksLast'
<1>1. kernel \in Seq(Event) /\ kernel # <<>> /\ evPc = "read"
  BY DEF TypeOK, EvRead
<1>2. /\ Len(kernel) \in Nat /\ Len(kernel) >= 1 /\ kernel' = Tail(kernel)
      /\ Len(kernel') = Len(kernel) - 1
      /\ \A i \in 1..Len(kernel') : kernel'[i] = kernel[i + 1]
      /\ Head(kernel) = kernel[1]
  BY <1>1, HeadTailProperties, LenProperties DEF EvRead
<1>3. kernel[1].type = "sw" <=> (Len(kernel) - 1) % 2 = 1
  BY <1>2 DEF EventsPaired
<1>4. UNCHANGED <<lid, sources, evOpen, stop, states, have, last>> /\ Newest' = Newest
  BY LineKeepsNewest DEF EvRead, detector
<1>5. CASE Len(kernel) >= 3
  <2>1. Len(kernel') >= 2 /\ kernel'[Len(kernel') - 1] = kernel[Len(kernel) - 1]
    BY <1>2, <1>5
  <2> QED
    BY <1>1, <1>2, <1>4, <1>5, <2>1 DEF DeviceSpeaksLast
<1>6. CASE Len(kernel) = 2
  <2>1. evVal' = Decode(kernel[1].val) /\ evPc' = "send"
    BY <1>2, <1>3, <1>6 DEF EvRead, IsLidEvent
  <2> QED
    BY <1>1, <1>2, <1>4, <1>6, <2>1 DEF DeviceSpeaksLast
<1>7. CASE Len(kernel) = 1
  <2>1. evPc' = "read"
    BY <1>1, <1>2, <1>3, <1>7 DEF EvRead, IsLidEvent
  <2> QED
    BY <1>1, <1>2, <1>4, <1>7, <2>1 DEF DeviceSpeaksLast
<1>8. Len(kernel) >= 3 \/ Len(kernel) = 2 \/ Len(kernel) = 1
  <2>1. \A n \in Nat : n >= 1 => n >= 3 \/ n = 2 \/ n = 1
    OBVIOUS
  <2> QED
    BY <1>2, <2>1
<1> QED
  BY <1>5, <1>6, <1>7, <1>8

LEMMA StepDeviceSpeaksLast == SyncInv /\ [Next]_vars => DeviceSpeaksLast'
<1> SUFFICES ASSUME SyncInv, [Next]_vars PROVE DeviceSpeaksLast'
  OBVIOUS
<1>1. Sized /\ TypeOK /\ NoSourceNoReader /\ EventsPaired /\ NothingYet /\ DeviceSpeaksLast
  BY TypedIsSized DEF SyncInv
<1>2. CASE MoveLid
  <2>1. UNCHANGED <<sources, evOpen, evPc, stop>>
    BY <1>2 DEF MoveLid
  <2>2. evOpen => Len(kernel') >= 2 /\ Decode(kernel'[Len(kernel') - 1].val) = lid'
    BY <1>1, <1>2, MoveSpeaks
  <2> QED
    BY <2>1, <2>2 DEF DeviceSpeaksLast
<1>3. CASE FanOut
  <2>1. states = <<>> /\ ~have /\ kernel = <<>> /\ UNCHANGED <<kernel, states, have, last>>
    BY <1>1, <1>3 DEF FanOut, NothingYet
  <2>2. evOpen' => evPc' = "read"
    BY <1>3 DEF FanOut
  <2>3. Newest' = "none"
    BY <2>1, LineKeepsNewest DEF Newest, line, deliveredState
  <2> QED
    BY <2>1, <2>2, <2>3 DEF DeviceSpeaksLast
<1>4. CASE Receive
  BY <1>1, <1>4, ReceiveKeepsNewest DEF Receive, evdev, DeviceSpeaksLast
<1>5. CASE EvRead
  BY <1>1, <1>5, ReadSpeaks
<1>6. CASE EvSend
  <2>1. Newest' = evVal
    BY <1>1, <1>6, SendIsNewest DEF EvSend, detector, Sized
  <2>2. UNCHANGED <<lid, sources, kernel, evOpen, evVal, stop>> /\ evPc = "send" /\ evPc' = "read"
    BY <1>6 DEF EvSend
  <2> QED
    BY <1>1, <2>1, <2>2 DEF DeviceSpeaksLast
<1>7. CASE PollSend
  <2>1. sources # {"evdev"} /\ sources' = sources
    BY <1>1, <1>7 DEF PollSend, NoSourceNoReader
  <2> QED
    BY <2>1 DEF DeviceSpeaksLast
<1>8. CASE EvSendCanceled \/ RunStop \/ StopStart
  <2>1. stop'
    BY <1>8 DEF EvSendCanceled, SendCanceled, RunStop, StopStart
  <2> QED
    BY <2>1 DEF DeviceSpeaksLast
<1>9. CASE CloseEvdev \/ EvClosed \/ EvError
  BY <1>9 DEF CloseEvdev, CloseFile, EvClosed, EvError, DeviceSpeaksLast
<1>10. CASE CallbackReturns \/ Join \/ PollRead \/ PollSendCanceled \/ PollTick \/ PollStop
            \/ StopReturns \/ Terminated \/ UNCHANGED vars
  <2>1. UNCHANGED <<lid, sources, kernel, evOpen, evPc, evVal, stop, states, have, last>>
    BY <1>10 DEF CallbackReturns, Join, PollRead, PollSendCanceled, PollTick, PollStop,
       StopReturns, Terminated, vars, evdev, poll, detector
  <2> QED
    BY <1>1, <2>1, LineKeepsNewest DEF DeviceSpeaksLast
<1> QED
  BY <1>2, <1>3, <1>4, <1>5, <1>6, <1>7, <1>8, <1>9, <1>10 DEF Next, Run, Poll, Evdev

LEMMA StepFileSpeaksLast == SyncInv /\ [Next]_vars => FileSpeaksLast'
<1> SUFFICES ASSUME SyncInv, [Next]_vars PROVE FileSpeaksLast'
  OBVIOUS
<1>1. Sized /\ NoSourceNoReader /\ NothingYet /\ FileSpeaksLast
  BY TypedIsSized DEF SyncInv
<1>2. CASE Receive
  BY <1>1, <1>2, ReceiveKeepsNewest DEF Receive, poll, FileSpeaksLast
<1>3. CASE PollSend
  <2>1. Newest' = pollVal /\ pollVal' = pollVal
    BY <1>1, <1>3, SendIsNewest DEF PollSend, detector, Sized
  <2> QED
    BY <2>1 DEF FileSpeaksLast
<1>4. CASE EvSend
  <2>1. sources # {"file"} /\ sources' = sources
    BY <1>1, <1>4 DEF EvSend, NoSourceNoReader
  <2> QED
    BY <2>1 DEF FileSpeaksLast
<1>5. CASE FanOut
  <2>1. states = <<>> /\ ~have /\ UNCHANGED <<states, have, last>>
    BY <1>1, <1>5 DEF FanOut, NothingYet
  <2>2. Newest' = "none"
    BY <2>1, LineKeepsNewest DEF Newest, line, deliveredState
  <2> QED
    BY <2>2 DEF FileSpeaksLast
<1>6. CASE PollRead
  <2>1. UNCHANGED <<sources, stop, states, have, last>>
        /\ (pollPc' = "send" \/ (pollVal' = pollVal /\ pollPc = "read"))
    BY <1>6 DEF PollRead, detector
  <2> QED
    BY <1>1, <2>1, LineKeepsNewest DEF FileSpeaksLast
<1>7. CASE PollSendCanceled \/ RunStop \/ StopStart
  BY <1>7 DEF PollSendCanceled, SendCanceled, RunStop, StopStart, FileSpeaksLast
<1>8. ASSUME UNCHANGED <<sources, stop, pollVal, states, have, last>>,
             pollPc' # "send" => pollPc # "send"
      PROVE  FileSpeaksLast'
  BY <1>1, <1>8, LineKeepsNewest DEF FileSpeaksLast
<1>9. CASE MoveLid \/ CallbackReturns \/ CloseEvdev \/ Join \/ PollTick \/ PollStop
  BY <1>8, <1>9 DEF MoveLid, CallbackReturns, CloseEvdev, CloseFile, Join, PollTick,
     PollStop, evdev, poll, detector
<1>10. CASE EvRead \/ EvSendCanceled \/ EvClosed \/ EvError \/ StopReturns \/ Terminated
            \/ UNCHANGED vars
  BY <1>8, <1>10 DEF EvRead, EvSendCanceled, EvClosed, EvError, StopReturns, Terminated,
     vars, evdev, poll, detector
<1> QED
  BY <1>2, <1>3, <1>4, <1>5, <1>6, <1>7, <1>9, <1>10 DEF Next, Run, Poll, Evdev

LEMMA InvariantSync == Spec => []SyncInv
<1>1. Init => SyncInv
  <2> SUFFICES ASSUME Init PROVE SyncInv
    OBVIOUS
  <2>1. NoSourceNoReader /\ EventsPaired /\ NothingYet /\ DeviceSpeaksLast
    BY DEF Init, NoSourceNoReader, EventsPaired, NothingYet, DeviceSpeaksLast
  <2>2. Newest = "none"
    BY DEF Init, Newest, line, deliveredState
  <2> QED
    BY <2>1, <2>2, InitTyped DEF SyncInv, FileSpeaksLast
<1>2. SyncInv /\ [Next]_vars => SyncInv'
  <2> SUFFICES ASSUME SyncInv, [Next]_vars PROVE SyncInv'
    OBVIOUS
  <2>1. EventsPaired' /\ NoSourceNoReader'
    BY MovePending, ReadPending, OtherPending, StepSources DEF SyncInv
  <2>2. TypeOK' /\ NothingYet'
    BY StepTyped, StepNothingYet DEF SyncInv
  <2> QED
    BY <2>1, <2>2, StepDeviceSpeaksLast, StepFileSpeaksLast DEF SyncInv
<1> QED
  BY <1>1, <1>2, PTL DEF Spec

\* With one source nothing it said last is lost between reader, channel and
\* change detector: once nothing is on its way it has been delivered.
THEOREM NewestIsDelivered == Spec => []DrainedIsSynced
<1>1. SyncInv => DrainedIsSynced
  <2> SUFFICES ASSUME SyncInv, ~stop, states = <<>>, have
               PROVE  /\ sources = {"file"} /\ pollPc # "send" => last = pollVal
                      /\ sources = {"evdev"} /\ evOpen /\ evPc = "read" /\ kernel = <<>>
                           => last = lid
    BY DEF DrainedIsSynced
  <2>1. Newest = last /\ last # "none"
    BY DEF Newest, line, deliveredState, SyncInv, TypeOK, Lid
  <2> QED
    BY <2>1 DEF SyncInv, DeviceSpeaksLast, FileSpeaksLast
<1> QED
  BY <1>1, InvariantSync, PTL

=============================================================================
