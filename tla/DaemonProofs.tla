---------------------------- MODULE DaemonProofs ----------------------------
(***************************************************************************)
(* Proofs about Daemon for every number of outside events: the lock        *)
(* outlives the handling of the lid, and a close runs an action the file   *)
(* has offered to this process.                                            *)
(***************************************************************************)
EXTENDS Daemon, TLAPS

\* Which parts exist at each point of New, Run and Shutdown.
PartsByPc ==
  /\ pc \in {"down", "handler", "prefs", "monitor", "stopPrefs", "release"} => phase = "off"
  /\ pc \in {"down", "handler", "prefs", "release"} => wpc = "off"
  /\ phase = "off" => ~busy
  /\ lease = "closed" => pc \in {"down", "release"}

\* Once the file has been read, the action in force, the one on its way and the
\* one stored are among those it offered.
ActionOffered ==
  /\ pc \notin {"down", "handler", "prefs"} => current \in offered
  /\ wpc = "apply" => loaded \in offered
  /\ wpc # "off" /\ stored \in Action => stored \in offered
  /\ wpc = "load" /\ stored = "none" => "lock" \in offered

\* TypeOK in the portions the provers take it in.
ControlTyped ==
  /\ pc \in {"down", "handler", "prefs", "monitor", "notify", "run", "quit",
             "stopMonitor", "stopPrefs", "release"}
  /\ lease \in {"none", "held", "stale", "closed"}
  /\ wpc \in {"off", "tick", "load", "apply"} /\ events \in 0..MaxEvents
  /\ job \in Action \cup {"open", "claim", "unclaim", "none"}

ValuesTyped ==
  /\ lid \in Lid /\ seen \subseteq Lid /\ delivered \in Lid \cup {"none"}
  /\ phase \in {"on", "stopping", "off"}
  /\ current \in Action /\ loaded \in Action /\ offered \subseteq Action
  /\ stored \in File

FlagsTyped ==
  /\ busy \in BOOLEAN /\ owned \in BOOLEAN /\ panel \in BOOLEAN
  /\ failed \in BOOLEAN /\ source \in BOOLEAN /\ wanted \in BOOLEAN
  /\ changed \in BOOLEAN

IdleTyped == ~busy => job = "none"

IInv ==
  /\ ControlTyped /\ ValuesTyped /\ FlagsTyped /\ IdleTyped
  /\ PartsByPc /\ ActionOffered

LEMMA TypePortions == TypeOK <=> ControlTyped /\ ValuesTyped /\ FlagsTyped /\ IdleTyped
BY DEF TypeOK, ControlTyped, ValuesTyped, FlagsTyped, IdleTyped

-----------------------------------------------------------------------------

LEMMA InitIInv == Init => IInv
<1> SUFFICES ASSUME Init PROVE IInv
  OBVIOUS
<1> USE EventsAssumption DEF Init, IInv, ControlTyped, ValuesTyped, FlagsTyped, IdleTyped, PartsByPc, ActionOffered, Lid, Action, File
<1>1. ControlTyped
  OBVIOUS
<1>2. ValuesTyped
  OBVIOUS
<1>3. FlagsTyped
  OBVIOUS
<1>4. IdleTyped
  OBVIOUS
<1>5. PartsByPc
  OBVIOUS
<1>6. ActionOffered
  OBVIOUS
<1> QED
  BY <1>1, <1>2, <1>3, <1>4, <1>5, <1>6 DEF IInv

LEMMA StepIInv == IInv /\ [Next]_vars => IInv'
<1> SUFFICES ASSUME IInv, [Next]_vars PROVE IInv'
  OBVIOUS
<1> USE EventsAssumption DEF IInv, ControlTyped, ValuesTyped, FlagsTyped, IdleTyped, PartsByPc, ActionOffered, Lid, Action, File
<1>1. CASE Start
  BY <1>1 DEF Start, Goto, monitor, handler, watcher, outside
<1>2. CASE NewHandler
  <2>1. ControlTyped'
    BY <1>2 DEF NewHandler, Goto, monitor, handler, watcher, outside
  <2>2. ValuesTyped'
    BY <1>2 DEF NewHandler, Goto, monitor, handler, watcher, outside
  <2>3. FlagsTyped'
    BY <1>2 DEF NewHandler, Goto, monitor, handler, watcher, outside
  <2>4. IdleTyped'
    BY <1>2 DEF NewHandler, Goto, monitor, handler, watcher, outside
  <2>5. PartsByPc'
    BY <1>2 DEF NewHandler, Goto, monitor, handler, watcher, outside
  <2>6. ActionOffered'
    BY <1>2 DEF NewHandler, Goto, monitor, handler, watcher, outside
  <2> QED
    BY <2>1, <2>2, <2>3, <2>4, <2>5, <2>6 DEF IInv
<1>3. CASE NewPreferencesWatcher
  BY <1>3 DEF NewPreferencesWatcher, FirstAction, Goto, monitor, handler, watcher, outside
<1>4. CASE NewMonitor
  <2>1. ControlTyped'
    BY <1>4 DEF NewMonitor, Goto, monitor, handler, watcher, outside
  <2>2. ValuesTyped'
    BY <1>4 DEF NewMonitor, Goto, monitor, handler, watcher, outside
  <2>3. FlagsTyped'
    BY <1>4 DEF NewMonitor, Goto, monitor, handler, watcher, outside
  <2>4. IdleTyped'
    BY <1>4 DEF NewMonitor, Goto, monitor, handler, watcher, outside
  <2>5. PartsByPc'
    BY <1>4 DEF NewMonitor, Goto, monitor, handler, watcher, outside
  <2>6. ActionOffered'
    BY <1>4 DEF NewMonitor, Goto, monitor, handler, watcher, outside
  <2> QED
    BY <2>1, <2>2, <2>3, <2>4, <2>5, <2>6 DEF IInv
<1>5. CASE Notify
  BY <1>5 DEF Notify, Goto, monitor, handler, watcher, outside
<1>6. CASE Quit
  BY <1>6 DEF Quit, Goto, After, monitor, handler, watcher, outside
<1>7. CASE StopMonitor
  BY <1>7 DEF StopMonitor, Mon!Stop, monitor, handler, watcher, outside
<1>8. CASE MonitorEnds
  BY <1>8 DEF MonitorEnds, Mon!Off, monitor, handler, watcher, outside
<1>9. CASE MonitorStopped
  BY <1>9 DEF MonitorStopped, MonitorEnded, Goto, After, monitor, handler, watcher, outside
<1>10. CASE StopPrefs
  BY <1>10 DEF StopPrefs, Goto, After, monitor, handler, watcher, outside
<1>11. CASE Released
  BY <1>11 DEF Released, Goto, After, monitor, handler, watcher, outside
<1>12. CASE Signal
  <2>1. ControlTyped'
    BY <1>12 DEF Signal, ProcessEnds, Alive, Event, monitor, handler, watcher, outside
  <2>2. ValuesTyped'
    BY <1>12 DEF Signal, ProcessEnds, Alive, Event, monitor, handler, watcher, outside
  <2>3. FlagsTyped'
    BY <1>12 DEF Signal, ProcessEnds, Alive, Event, monitor, handler, watcher, outside
  <2>4. IdleTyped'
    BY <1>12 DEF Signal, ProcessEnds, Alive, Event, monitor, handler, watcher, outside
  <2>5. PartsByPc'
    BY <1>12 DEF Signal, ProcessEnds, Alive, Event, monitor, handler, watcher, outside
  <2>6. ActionOffered'
    BY <1>12 DEF Signal, ProcessEnds, Alive, Event, monitor, handler, watcher, outside
  <2> QED
    BY <2>1, <2>2, <2>3, <2>4, <2>5, <2>6 DEF IInv
<1>13. CASE Crash
  <2>1. ControlTyped'
    BY <1>13 DEF Crash, ProcessEnds, Alive, Event, monitor, handler, watcher, outside
  <2>2. ValuesTyped'
    BY <1>13 DEF Crash, ProcessEnds, Alive, Event, monitor, handler, watcher, outside
  <2>3. FlagsTyped'
    BY <1>13 DEF Crash, ProcessEnds, Alive, Event, monitor, handler, watcher, outside
  <2>4. IdleTyped'
    BY <1>13 DEF Crash, ProcessEnds, Alive, Event, monitor, handler, watcher, outside
  <2>5. PartsByPc'
    BY <1>13 DEF Crash, ProcessEnds, Alive, Event, monitor, handler, watcher, outside
  <2>6. ActionOffered'
    BY <1>13 DEF Crash, ProcessEnds, Alive, Event, monitor, handler, watcher, outside
  <2> QED
    BY <2>1, <2>2, <2>3, <2>4, <2>5, <2>6 DEF IInv
<1>14. CASE Granted
  BY <1>14 DEF Granted, Inhibit, Alive, Lock!Take, Lock!Revoke, Lock!Drop, Lock!Close, monitor, handler, watcher, outside
<1>15. CASE LockTrouble
  BY <1>15 DEF LockTrouble, Inhibit, Alive, Event, Lock!Take, Lock!Revoke, Lock!Drop, Lock!Close, monitor, handler, watcher, outside
<1>16. CASE GiveUp
  BY <1>16 DEF GiveUp, Inhibit, Alive, Lock!Take, Lock!Revoke, Lock!Drop, Lock!Close, monitor, handler, watcher, outside
<1>17. CASE DeliverLid
  BY <1>17 DEF DeliverLid, Deliver, Mon!Deliver, monitor, handler, watcher, outside
<1>18. CASE DeliverStale
  BY <1>18 DEF DeliverStale, Deliver, Event, Mon!Deliver, monitor, handler, watcher, outside
<1>19. CASE Execute
  <2>1. ControlTyped'
    BY <1>19 DEF Execute, monitor, handler, watcher, outside
  <2>2. ValuesTyped'
    BY <1>19 DEF Execute, monitor, handler, watcher, outside
  <2>3. FlagsTyped'
    BY <1>19 DEF Execute, monitor, handler, watcher, outside
  <2>4. IdleTyped'
    BY <1>19 DEF Execute, monitor, handler, watcher, outside
  <2>5. PartsByPc'
    BY <1>19 DEF Execute, monitor, handler, watcher, outside
  <2>6. ActionOffered'
    BY <1>19 DEF Execute, monitor, handler, watcher, outside
  <2> QED
    BY <2>1, <2>2, <2>3, <2>4, <2>5, <2>6 DEF IInv
<1>20. CASE Restore
  <2>1. ControlTyped'
    BY <1>20 DEF Restore, monitor, handler, watcher, outside
  <2>2. ValuesTyped'
    BY <1>20 DEF Restore, monitor, handler, watcher, outside
  <2>3. FlagsTyped'
    BY <1>20 DEF Restore, monitor, handler, watcher, outside
  <2>4. IdleTyped'
    BY <1>20 DEF Restore, monitor, handler, watcher, outside
  <2>5. PartsByPc'
    BY <1>20 DEF Restore, monitor, handler, watcher, outside
  <2>6. ActionOffered'
    BY <1>20 DEF Restore, monitor, handler, watcher, outside
  <2> QED
    BY <2>1, <2>2, <2>3, <2>4, <2>5, <2>6 DEF IInv
<1>21. CASE CallbackReturns
  <2>1. ControlTyped'
    BY <1>21 DEF CallbackReturns, Mon!Return, monitor, handler, watcher, outside
  <2>2. ValuesTyped'
    BY <1>21 DEF CallbackReturns, Mon!Return, monitor, handler, watcher, outside
  <2>3. FlagsTyped'
    BY <1>21 DEF CallbackReturns, Mon!Return, monitor, handler, watcher, outside
  <2>4. IdleTyped'
    BY <1>21 DEF CallbackReturns, Mon!Return, monitor, handler, watcher, outside
  <2>5. PartsByPc'
    BY <1>21 DEF CallbackReturns, Mon!Return, monitor, handler, watcher, outside
  <2>6. ActionOffered'
    BY <1>21 DEF CallbackReturns, Mon!Return, monitor, handler, watcher, outside
  <2> QED
    BY <2>1, <2>2, <2>3, <2>4, <2>5, <2>6 DEF IInv
<1>22. CASE Stat
  <2>1. ControlTyped'
    BY <1>22 DEF Stat, NewMtime, monitor, handler, watcher, outside
  <2>2. ValuesTyped'
    BY <1>22 DEF Stat, NewMtime, monitor, handler, watcher, outside
  <2>3. FlagsTyped'
    BY <1>22 DEF Stat, NewMtime, monitor, handler, watcher, outside
  <2>4. IdleTyped'
    BY <1>22 DEF Stat, NewMtime, monitor, handler, watcher, outside
  <2>5. PartsByPc'
    BY <1>22 DEF Stat, NewMtime, monitor, handler, watcher, outside
  <2>6. ActionOffered'
    BY <1>22 DEF Stat, NewMtime, monitor, handler, watcher, outside
  <2> QED
    BY <2>1, <2>2, <2>3, <2>4, <2>5, <2>6 DEF IInv
<1>23. CASE Load
  BY <1>23 DEF Load, monitor, handler, watcher, outside
<1>24. CASE SetAction
  BY <1>24 DEF SetAction, NextPoll, monitor, handler, watcher, outside
<1>25. CASE MoveLid
  <2>1. ControlTyped'
    BY <1>25 DEF MoveLid, Event, Mon!Move, monitor, handler, watcher, outside
  <2>2. ValuesTyped'
    BY <1>25 DEF MoveLid, Event, Mon!Move, monitor, handler, watcher, outside
  <2>3. FlagsTyped'
    BY <1>25 DEF MoveLid, Event, Mon!Move, monitor, handler, watcher, outside
  <2>4. IdleTyped'
    BY <1>25 DEF MoveLid, Event, Mon!Move, monitor, handler, watcher, outside
  <2>5. PartsByPc'
    BY <1>25 DEF MoveLid, Event, Mon!Move, monitor, handler, watcher, outside
  <2>6. ActionOffered'
    BY <1>25 DEF MoveLid, Event, Mon!Move, monitor, handler, watcher, outside
  <2> QED
    BY <2>1, <2>2, <2>3, <2>4, <2>5, <2>6 DEF IInv
<1>26. CASE Edit
  <2>1. ControlTyped'
    BY <1>26 DEF Edit, Event, monitor, handler, watcher, outside
  <2>2. ValuesTyped'
    BY <1>26 DEF Edit, Event, monitor, handler, watcher, outside
  <2>3. FlagsTyped'
    BY <1>26 DEF Edit, Event, monitor, handler, watcher, outside
  <2>4. IdleTyped'
    BY <1>26 DEF Edit, Event, monitor, handler, watcher, outside
  <2>5. PartsByPc'
    BY <1>26 DEF Edit, Event, monitor, handler, watcher, outside
  <2>6. ActionOffered'
    BY <1>26 DEF Edit, Event, monitor, handler, watcher, outside
  <2> QED
    BY <2>1, <2>2, <2>3, <2>4, <2>5, <2>6 DEF IInv
<1>27. CASE UserStarts
  BY <1>27 DEF UserStarts, monitor, handler, watcher, outside
<1>28. CASE Settled
  BY <1>28 DEF Settled, vars, monitor, handler, watcher, outside
<1>29. CASE UNCHANGED vars
  BY <1>29 DEF vars, monitor, handler, watcher, outside
<1> QED
  BY <1>1, <1>2, <1>3, <1>4, <1>5, <1>6, <1>7, <1>8, <1>9, <1>10, <1>11, <1>12, <1>13, <1>14, <1>15, <1>16, <1>17, <1>18, <1>19, <1>20, <1>21, <1>22, <1>23, <1>24, <1>25, <1>26, <1>27, <1>28, <1>29
     DEF Next, Main, Callback, Watch

LEMMA InvariantIInv == Spec => []IInv
BY InitIInv, StepIInv, PTL DEF Spec

\* Every variable of the daemon keeps its type, and a callback that is not under
\* way has nothing to do.
THEOREM DaemonTypeCorrect == Spec => []TypeOK
<1>1. IInv => TypeOK
  BY TypePortions DEF IInv
<1> QED
  BY <1>1, InvariantIInv, PTL

\* While the process lives, the lock is closed only after monitor, callback and
\* watcher are gone.
THEOREM LockGivenUpLast == Spec => []LockOutlivesHandling
<1>1. IInv => LockOutlivesHandling
  BY TypePortions DEF IInv, TypeOK, PartsByPc, LockOutlivesHandling, Alive
<1> QED
  BY <1>1, InvariantIInv, PTL

\* A close runs an action the file has offered since this process read it, the
\* default of a missing one included if the deletion fell between a poll's stat
\* and its load.
THEOREM CloseRunsPreferred == Spec => ClosesAsPreferred
<1>1. IInv /\ [Next]_vars =>
        [\A a \in Action : (job = "none" /\ job' = a) => a \in offered]_vars
  <2> SUFFICES ASSUME IInv, Next, NEW a \in Action, job = "none", job' = a
               PROVE  a \in offered
    BY DEF Action, vars, handler
  <2>1. a \notin {"none", "open", "claim", "unclaim"}
    BY DEF Action
  <2>2. CASE \E s \in Lid : Deliver(s)
    BY <2>1, <2>2 DEF Deliver, Mon!Deliver, IInv, PartsByPc, ActionOffered
  <2>3. CASE Execute \/ Restore \/ CallbackReturns
    BY <2>1, <2>3 DEF Execute, Restore, CallbackReturns
  <2>4. ASSUME Start \/ NewHandler \/ NewPreferencesWatcher \/ NewMonitor \/ Notify
               \/ Quit \/ StopMonitor \/ MonitorEnds \/ MonitorStopped
               \/ StopPrefs \/ Released
        PROVE  FALSE
    BY <2>1, <2>4 DEF Start, NewHandler, NewPreferencesWatcher, NewMonitor, Notify, Quit,
       StopMonitor, MonitorEnds, MonitorStopped, StopPrefs, Released, handler
  <2>5. ASSUME Signal \/ Crash \/ Granted \/ LockTrouble \/ GiveUp PROVE FALSE
    BY <2>1, <2>5 DEF Signal, Crash, ProcessEnds, Granted, LockTrouble, GiveUp, Inhibit,
       handler
  <2>6. ASSUME Watch \/ MoveLid \/ Edit \/ UserStarts \/ Settled PROVE FALSE
    BY <2>1, <2>6 DEF Watch, Stat, Load, SetAction, MoveLid, Edit, UserStarts, Settled,
       handler, vars
  <2>7. DeliverLid \/ DeliverStale => \E s \in Lid : Deliver(s)
    BY DEF DeliverLid, DeliverStale, IInv, ValuesTyped
  <2> QED
    BY <2>2, <2>3, <2>4, <2>5, <2>6, <2>7 DEF Next, Main, Callback
<1> QED
  BY <1>1, InvariantIInv, PTL DEF Spec, ClosesAsPreferred

=============================================================================
