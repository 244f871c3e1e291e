-------------------------- MODULE BootstrapProofs --------------------------
(***************************************************************************)
(* Proofs about Bootstrap for every number of processes, paths, failing    *)
(* calls and crashes: the flock makes install and uninstall exclude each   *)
(* other, and what the unit, the manager and the daemon are at each step   *)
(* of the one that holds it.                                               *)
(***************************************************************************)
EXTENDS Bootstrap, TLAPS

InstallPC ==
  {"read", "active", "truncate", "fill", "reload", "enableNow", "enable", "restart"}
UninstallPC == {"check", "disable", "remove", "unload"}

\* The flock: exactly its holder is inside a sequence, the one it was tapped for.
LockInv ==
  \A p \in Proc :
    /\ pc[p] \in InstallPC \cup UninstallPC <=> holder = p
    /\ pc[p] \in InstallPC => op[p] = "install"
    /\ pc[p] \in UninstallPC => op[p] = "uninstall"

\* Past its write, or its comparison, an install finds its own unit; past its
\* removal an uninstall finds none.
UnitOfHolder ==
  \A p \in Proc :
    /\ pc[p] \in {"active", "reload", "enableNow", "enable", "restart"}
         => unit = exec[p]
    /\ pc[p] = "unload" => unit = NoUnit

-----------------------------------------------------------------------------
(* The type invariant *)

ServiceTyped ==
  /\ unit \in Path \cup {NoUnit, Torn} /\ loaded \in Path \cup {NoUnit}
  /\ running \in Path \cup {NoUnit}

FlagsTyped == enabled \in BOOLEAN /\ fresh \in BOOLEAN

ProcsTyped ==
  /\ holder \in Proc \cup {NoProc}
  /\ pc \in [Proc -> PC] /\ op \in [Proc -> {"install", "uninstall"}]
  /\ exec \in [Proc -> Path] /\ outcome \in [Proc -> {"none", "ok", "error"}]

ExistedTyped == existed \in [Proc -> BOOLEAN]

ShownTyped == shown \in [Gui -> BOOLEAN]

CountersTyped == fails \in 0..MaxFails /\ crashes \in 0..MaxCrashes

LEMMA TypePortions ==
  TypeOK <=> /\ ServiceTyped /\ FlagsTyped /\ ProcsTyped /\ ExistedTyped
             /\ ShownTyped /\ CountersTyped
BY DEF TypeOK, ServiceTyped, FlagsTyped, ProcsTyped, ExistedTyped, ShownTyped,
   CountersTyped

\* Every step is one of these.
LEMMA NextCases ==
  ASSUME [Next]_vars
  PROVE  \/ UserStops \/ BinaryReplaced \/ UNCHANGED vars
         \/ \E p \in Proc : Tap(p) \/ AcquireLock(p) \/ Step(p) \/ Crash(p)
BY DEF Next

LEMMA StepService ==
  ASSUME TypeOK, UnitOfHolder, [Next]_vars PROVE ServiceTyped'
<1>0. ServiceTyped /\ exec \in [Proc -> Path]
  BY DEF TypeOK, ServiceTyped
<1> USE <1>0, BootstrapAssumption DEF ServiceTyped
<1>1. CASE UserStops \/ BinaryReplaced \/ UNCHANGED vars
  BY <1>1 DEF UserStops, BinaryReplaced, vars, service
<1>2. ASSUME NEW p \in Proc, Tap(p) \/ AcquireLock(p) \/ Crash(p) \/ Report(p)
                 \/ ReadUnit(p) \/ IsActive(p) \/ CheckUnit(p)
      PROVE  ServiceTyped'
  BY <1>2 DEF Tap, AcquireLock, Crash, Report, ReadUnit, IsActive, CheckUnit, service
<1>3. ASSUME NEW p \in Proc, Truncate(p) \/ Fill(p) \/ Remove(p)
      PROVE  ServiceTyped'
  BY <1>3 DEF Truncate, Fill, Remove, service
<1>4. ASSUME NEW p \in Proc, Reload(p) \/ Unload(p)
      PROVE  ServiceTyped'
  <2>1. unit \in Path \cup {NoUnit}
    BY <1>4 DEF UnitOfHolder, Reload, Unload
  <2> QED
    BY <1>4, <2>1 DEF Reload, Unload, Systemctl, LoadUnit, service
<1>5. ASSUME NEW p \in Proc, EnableNow(p) \/ Enable(p) \/ Restart(p) \/ Disable(p)
      PROVE  ServiceTyped'
  BY <1>5 DEF EnableNow, Enable, Restart, Disable, Systemctl, DisableNow, service
<1> QED
  BY <1>1, <1>2, <1>3, <1>4, <1>5, NextCases DEF Step

LEMMA StepFlags == ASSUME TypeOK, [Next]_vars PROVE FlagsTyped'
<1>0. FlagsTyped
  BY TypePortions
<1> USE <1>0 DEF FlagsTyped
<1>1. CASE UserStops \/ BinaryReplaced \/ UNCHANGED vars
  BY <1>1 DEF UserStops, BinaryReplaced, vars, service
<1>2. ASSUME NEW p \in Proc, Tap(p) \/ AcquireLock(p) \/ Crash(p) \/ Report(p)
                 \/ ReadUnit(p) \/ IsActive(p) \/ CheckUnit(p) \/ Truncate(p)
                 \/ Fill(p) \/ Remove(p)
      PROVE  FlagsTyped'
  BY <1>2 DEF Tap, AcquireLock, Crash, Report, ReadUnit, IsActive, CheckUnit,
     Truncate, Fill, Remove, service
<1>3. ASSUME NEW p \in Proc, Reload(p) \/ Unload(p) \/ EnableNow(p) \/ Enable(p)
                 \/ Restart(p) \/ Disable(p)
      PROVE  FlagsTyped'
  BY <1>3 DEF Reload, Unload, EnableNow, Enable, Restart, Disable, Systemctl,
     DisableNow, service
<1> QED
  BY <1>1, <1>2, <1>3, NextCases DEF Step

LEMMA StepProcs == ASSUME TypeOK, [Next]_vars PROVE ProcsTyped'
<1>0. ProcsTyped
  BY TypePortions
<1> USE <1>0 DEF ProcsTyped, PC
<1>1. CASE UserStops \/ BinaryReplaced \/ UNCHANGED vars
  BY <1>1 DEF UserStops, BinaryReplaced, vars, procs
<1>2. ASSUME NEW p \in Proc, Tap(p) \/ AcquireLock(p) \/ Crash(p) \/ Report(p)
      PROVE  ProcsTyped'
  BY <1>2 DEF Tap, AcquireLock, Crash, Report, Goto
<1>3. ASSUME NEW p \in Proc, \/ ReadUnit(p) \/ IsActive(p) \/ Truncate(p) \/ Fill(p)
                 \/ CheckUnit(p) \/ Disable(p) \/ Remove(p)
      PROVE  ProcsTyped'
  BY <1>3 DEF ReadUnit, IsActive, Truncate, Fill, CheckUnit, Disable, Remove,
     Goto, Return
<1>4. ASSUME NEW p \in Proc, \/ Reload(p) \/ EnableNow(p) \/ Enable(p)
                 \/ Restart(p) \/ Unload(p)
      PROVE  ProcsTyped'
  BY <1>4 DEF Reload, EnableNow, Enable, Restart, Unload, Systemctl, Goto, Return
<1> QED
  BY <1>1, <1>2, <1>3, <1>4, NextCases DEF Step

LEMMA StepExisted == ASSUME TypeOK, [Next]_vars PROVE ExistedTyped'
<1>0. ExistedTyped
  BY TypePortions
<1>1. ASSUME NEW p \in Proc, ReadUnit(p) PROVE ExistedTyped'
  <2>1. (unit # NoUnit) \in BOOLEAN
    OBVIOUS
  <2> QED
    BY <1>0, <1>1, <2>1 DEF ReadUnit, ExistedTyped
<1>2. ASSUME UNCHANGED existed PROVE ExistedTyped'
  BY <1>0, <1>2 DEF ExistedTyped
<1> QED
  BY <1>1, <1>2, NextCases DEF UserStops, BinaryReplaced, vars, procs, Tap,
     AcquireLock, Crash, Report, IsActive, Truncate, Fill, CheckUnit, Disable,
     Remove, Reload, EnableNow, Enable, Restart, Unload, Step

LEMMA StepShown == ASSUME TypeOK, [Next]_vars PROVE ShownTyped'
<1>0. ShownTyped
  BY TypePortions
<1>1. ASSUME NEW p \in Proc, Report(p) PROVE ShownTyped'
  <2>1. (op[p] = "install") \in BOOLEAN
    OBVIOUS
  <2> QED
    BY <1>0, <1>1, <2>1 DEF Report, ShownTyped
<1>2. ASSUME NEW p \in Proc, Crash(p) PROVE ShownTyped'
  <2>1. (unit # NoUnit) \in BOOLEAN
    OBVIOUS
  <2> QED
    BY <1>0, <1>2, <2>1 DEF Crash, ShownTyped
<1>3. ASSUME UNCHANGED shown PROVE ShownTyped'
  BY <1>0, <1>3 DEF ShownTyped
<1> QED
  BY <1>1, <1>2, <1>3, NextCases DEF UserStops, BinaryReplaced, vars, procs, Tap,
     AcquireLock, ReadUnit, IsActive, Truncate, Fill, CheckUnit, Disable,
     Remove, Reload, EnableNow, Enable, Restart, Unload, Step

LEMMA StepCounters == ASSUME TypeOK, [Next]_vars PROVE CountersTyped'
<1>0. CountersTyped
  BY TypePortions
<1> USE <1>0, BootstrapAssumption DEF CountersTyped
<1>1. ASSUME NEW p \in Proc, Crash(p) PROVE CountersTyped'
  BY <1>1 DEF Crash
<1>2. ASSUME NEW p \in Proc, \/ IsActive(p) \/ Reload(p) \/ EnableNow(p) \/ Enable(p)
                 \/ Restart(p) \/ Unload(p) \/ Disable(p)
      PROVE  CountersTyped'
  BY <1>2 DEF IsActive, Reload, EnableNow, Enable, Restart, Unload, Disable,
     Systemctl, Succeeds, Fails
<1>3. ASSUME UNCHANGED <<fails, crashes>> PROVE CountersTyped'
  BY <1>3
<1> QED
  BY <1>1, <1>2, <1>3, NextCases DEF UserStops, BinaryReplaced, vars, Tap,
     AcquireLock, Report, ReadUnit, Truncate, Fill, CheckUnit, Remove, Step

-----------------------------------------------------------------------------
(* Mutual exclusion *)

\* A step of p leaves the others where they are; outside the sequences it
\* leaves the lock alone, inside it goes on with the lock or gives it up.
LEMMA StepLock == ASSUME TypeOK, LockInv, [Next]_vars PROVE LockInv'
<1>0. ProcsTyped /\ NoProc \notin Proc
  BY TypePortions, BootstrapAssumption
<1> USE <1>0 DEF ProcsTyped, LockInv, InstallPC, UninstallPC
<1>1. CASE UserStops \/ BinaryReplaced \/ UNCHANGED vars
  BY <1>1 DEF UserStops, BinaryReplaced, vars, procs
<1>2. ASSUME NEW p \in Proc, Tap(p) PROVE LockInv'
  BY <1>2 DEF Tap, Goto
<1>3. ASSUME NEW p \in Proc, AcquireLock(p) PROVE LockInv'
  BY <1>3 DEF AcquireLock, LockFree
<1>4. ASSUME NEW p \in Proc, Crash(p) PROVE LockInv'
  BY <1>4 DEF Crash
<1>5. ASSUME NEW p \in Proc, Report(p) PROVE LockInv'
  BY <1>5 DEF Report, Goto
<1>6. ASSUME NEW p \in Proc, \/ ReadUnit(p) \/ IsActive(p) \/ Truncate(p) \/ Fill(p)
      PROVE  LockInv'
  BY <1>6 DEF ReadUnit, IsActive, Truncate, Fill, Goto, Return
<1>7. ASSUME NEW p \in Proc, \/ CheckUnit(p) \/ Disable(p) \/ Remove(p)
      PROVE  LockInv'
  BY <1>7 DEF CheckUnit, Disable, Remove, Goto, Return
<1>8. ASSUME NEW p \in Proc, Reload(p) \/ EnableNow(p) \/ Enable(p)
      PROVE  LockInv'
  BY <1>8 DEF Reload, EnableNow, Enable, Systemctl, Goto, Return
<1>9. ASSUME NEW p \in Proc, Restart(p) \/ Unload(p)
      PROVE  LockInv'
  BY <1>9 DEF Restart, Unload, Systemctl, Goto, Return
<1> QED
  BY <1>1, <1>2, <1>3, <1>4, <1>5, <1>6, <1>7, <1>8, <1>9, NextCases DEF Step

LEMMA StepUnit ==
  ASSUME TypeOK, LockInv, UnitOfHolder, [Next]_vars PROVE UnitOfHolder'
<1>0. ProcsTyped /\ NoProc \notin Proc
  BY TypePortions, BootstrapAssumption
<1> USE <1>0 DEF ProcsTyped, UnitOfHolder
<1>1. CASE UserStops \/ BinaryReplaced \/ UNCHANGED vars
  BY <1>1 DEF UserStops, BinaryReplaced, vars, procs
<1>2. ASSUME NEW p \in Proc, Tap(p) \/ AcquireLock(p) \/ Crash(p) \/ Report(p)
      PROVE  UnitOfHolder'
  BY <1>2 DEF Tap, AcquireLock, Crash, Report, Goto
<1>3. ASSUME NEW p \in Proc, ReadUnit(p) \/ IsActive(p) \/ CheckUnit(p) \/ Disable(p)
      PROVE  UnitOfHolder'
  BY <1>3 DEF ReadUnit, IsActive, CheckUnit, Disable, Goto, Return
<1>4. ASSUME NEW p \in Proc, Truncate(p) \/ Fill(p) \/ Remove(p)
      PROVE  UnitOfHolder'
  <2>1. \A q \in Proc \ {p} : pc[q] \notin InstallPC \cup UninstallPC
    BY <1>4 DEF LockInv, InstallPC, UninstallPC, Truncate, Fill, Remove
  <2> QED
    BY <1>4, <2>1 DEF Truncate, Fill, Remove, Goto, InstallPC, UninstallPC
<1>5. ASSUME NEW p \in Proc, Reload(p) \/ EnableNow(p) \/ Enable(p)
      PROVE  UnitOfHolder'
  BY <1>5 DEF Reload, EnableNow, Enable, Systemctl, Goto, Return
<1>6. ASSUME NEW p \in Proc, Restart(p) \/ Unload(p)
      PROVE  UnitOfHolder'
  BY <1>6 DEF Restart, Unload, Systemctl, Goto, Return
<1> QED
  BY <1>1, <1>2, <1>3, <1>4, <1>5, <1>6, NextCases DEF Step

Exclusive == TypeOK /\ LockInv /\ UnitOfHolder

LEMMA InitExclusive == Init => Exclusive
<1> SUFFICES ASSUME Init PROVE Exclusive
  OBVIOUS
<1> USE BootstrapAssumption DEF Init
<1>1. ServiceTyped /\ CountersTyped
  BY DEF ServiceTyped, CountersTyped
<1>2. FlagsTyped
  BY DEF FlagsTyped
<1>3. ProcsTyped
  BY DEF ProcsTyped, PC
<1>4. ExistedTyped /\ ShownTyped
  BY DEF ExistedTyped, ShownTyped
<1>5. LockInv /\ UnitOfHolder
  BY DEF LockInv, UnitOfHolder, InstallPC, UninstallPC
<1> QED
  BY <1>1, <1>2, <1>3, <1>4, <1>5, TypePortions DEF Exclusive

LEMMA StepExclusive == Exclusive /\ [Next]_vars => Exclusive'
<1> SUFFICES ASSUME Exclusive, [Next]_vars PROVE Exclusive'
  OBVIOUS
<1>1. TypeOK /\ LockInv /\ UnitOfHolder
  BY DEF Exclusive
<1>2. /\ ServiceTyped' /\ FlagsTyped' /\ ProcsTyped' /\ ExistedTyped' /\ ShownTyped'
      /\ CountersTyped'
  BY <1>1, StepService, StepFlags, StepProcs, StepExisted, StepShown, StepCounters
<1>3. TypeOK'
  BY <1>2 DEF TypeOK, ServiceTyped, FlagsTyped, ProcsTyped, ExistedTyped, ShownTyped,
     CountersTyped
<1> QED
  BY <1>1, <1>3, StepLock, StepUnit DEF Exclusive

LEMMA InvariantExclusive == Spec => []Exclusive
BY InitExclusive, StepExclusive, PTL DEF Spec

\* Every variable stays in its type; in particular the user manager never loads
\* a half-written unit at a reload of the installers, whoever crashed while
\* writing one.
THEOREM NoTornUnitLoaded == Spec => []TypeOK
<1>1. Exclusive => TypeOK
  BY DEF Exclusive
<1> QED
  BY <1>1, InvariantExclusive, PTL

\* No two processes are inside an install or an uninstall at the same time, nor
\* is anybody without the flock.
Serial ==
  \A p, q \in Proc :
    pc[p] \in InstallPC \cup UninstallPC /\ pc[q] \in InstallPC \cup UninstallPC
      => p = q /\ holder = p

\* The flock excludes: at most its holder is in a sequence (bootstrap.go:40).
THEOREM SequencesExclude == Spec => []Serial
<1>1. Exclusive => Serial
  BY DEF Exclusive, LockInv, Serial
<1> QED
  BY <1>1, InvariantExclusive, PTL

-----------------------------------------------------------------------------
(* While nothing has failed: unit, manager and daemon at each step *)

\* What is loaded is enabled, and nothing else runs.
ServiceOfLoaded == (enabled <=> loaded # NoUnit) /\ running \in {NoUnit, loaded}

\* What the holder of the flock has reached by each of its steps.
Progress(p) ==
  /\ pc[p] \in {"read", "check", "disable", "active", "truncate"}
       => unit = loaded /\ ServiceOfLoaded
  /\ pc[p] \in {"fill", "reload"} => ServiceOfLoaded
  /\ pc[p] \in {"truncate", "fill", "reload"} => (existed[p] <=> loaded # NoUnit)
  /\ pc[p] \in {"enableNow", "enable", "restart"} => loaded = unit
  /\ pc[p] = "enableNow" => running = NoUnit
  /\ pc[p] = "restart" => enabled
  /\ pc[p] \in {"remove", "unload"} => ~enabled /\ running = NoUnit

\* Between two sequences unit, manager and daemon agree.
AtRest == holder = NoProc => unit = loaded /\ ServiceOfLoaded

CalmInv == fails = 0 /\ crashes = 0 => AtRest /\ \A p \in Proc : Progress(p)

\* Who is in no sequence has nothing to show: after a step of the holder only
\* its own progress is in question.
LEMMA HolderProgress ==
  ASSUME LockInv', NoProc \notin Proc, NEW p \in Proc, holder' \in {p, NoProc},
         Progress(p)'
  PROVE  \A q \in Proc : Progress(q)'
<1> SUFFICES ASSUME NEW q \in Proc, q # p PROVE Progress(q)'
  OBVIOUS
<1>1. pc'[q] \notin InstallPC \cup UninstallPC
  BY DEF LockInv
<1> QED
  BY <1>1 DEF Progress, InstallPC, UninstallPC

LEMMA StepCalm == Exclusive /\ CalmInv /\ [Next]_vars => CalmInv'
<1> SUFFICES ASSUME Exclusive, CalmInv, [Next]_vars, fails' = 0, crashes' = 0
             PROVE  AtRest' /\ \A p \in Proc : Progress(p)'
  BY DEF CalmInv
<1>1. TypeOK /\ LockInv /\ UnitOfHolder /\ LockInv' /\ NoProc \notin Proc
  BY StepExclusive, BootstrapAssumption DEF Exclusive
<1>2. ProcsTyped /\ ServiceTyped /\ NoUnit \notin Path
  BY <1>1, TypePortions, BootstrapAssumption
<1>3. ~Fails /\ \A p \in Proc : ~Crash(p)
  BY <1>1, BootstrapAssumption DEF Fails, Crash, TypeOK
<1>4. fails = 0 /\ crashes = 0
  BY <1>1, <1>3, BootstrapAssumption, NextCases DEF TypeOK, UserStops, BinaryReplaced,
     vars, Tap, AcquireLock, Report, ReadUnit, IsActive, Truncate, Fill, Reload,
     EnableNow, Enable, Restart, CheckUnit, Disable, Remove, Unload, Step,
     Systemctl, Succeeds
<1>5. AtRest /\ \A p \in Proc : Progress(p)
  BY <1>4 DEF CalmInv
<1>6. CASE UserStops \/ BinaryReplaced \/ UNCHANGED vars
  BY <1>5, <1>6 DEF UserStops, BinaryReplaced, vars, procs, service, AtRest,
     Progress, ServiceOfLoaded
<1>7. ASSUME NEW p \in Proc, Tap(p) \/ Report(p)
      PROVE  AtRest' /\ \A q \in Proc : Progress(q)'
  <2>1. AtRest'
    BY <1>5, <1>7 DEF Tap, Report, Goto, service, AtRest, ServiceOfLoaded
  <2>2. ASSUME NEW q \in Proc PROVE Progress(q)'
    BY <1>2, <1>5, <1>7 DEF Tap, Report, Goto, service, Progress, ServiceOfLoaded,
       ProcsTyped
  <2> QED
    BY <2>1, <2>2
<1>8. ASSUME NEW p \in Proc, AcquireLock(p)
      PROVE  holder' = p /\ Progress(p)'
  BY <1>1, <1>2, <1>5, <1>8 DEF AcquireLock, LockFree, service, AtRest, Progress,
     ServiceOfLoaded, ProcsTyped
<1>9. ASSUME NEW p \in Proc, ReadUnit(p) \/ Truncate(p) \/ Fill(p)
      PROVE  holder' = p /\ Progress(p)'
  <2>1. holder = p
    BY <1>1, <1>9 DEF LockInv, ReadUnit, Truncate, Fill, InstallPC
  <2>2. CASE ReadUnit(p)
    BY <1>1, <1>2, <1>5, <2>1, <2>2 DEF ReadUnit, Goto, service, Progress,
       ServiceOfLoaded, ProcsTyped, TypeOK
  <2>3. CASE Truncate(p) \/ Fill(p)
    BY <1>2, <1>5, <2>1, <2>3 DEF Truncate, Fill, Goto, service, Progress,
       ServiceOfLoaded, ProcsTyped
  <2> QED
    BY <1>9, <2>2, <2>3
<1>10. ASSUME NEW p \in Proc, Reload(p) \/ Enable(p)
       PROVE  holder' = p /\ Progress(p)'
  <2>1. holder = p
    BY <1>1, <1>10 DEF LockInv, Reload, Enable, InstallPC
  <2> QED
    BY <1>2, <1>3, <1>5, <1>10, <2>1 DEF Reload, Enable, Systemctl, LoadUnit, Goto,
       service, Progress, ServiceOfLoaded, ProcsTyped
<1>11. ASSUME NEW p \in Proc, Disable(p) \/ Remove(p)
       PROVE  holder' = p /\ Progress(p)'
  <2>1. holder = p
    BY <1>1, <1>11 DEF LockInv, Disable, Remove, UninstallPC
  <2> QED
    BY <1>2, <1>3, <1>5, <1>11, <2>1 DEF Disable, Remove, DisableNow, Goto, service,
       Progress, ServiceOfLoaded, ProcsTyped
<1>12. ASSUME NEW p \in Proc, IsActive(p)
       PROVE  holder' \in {p, NoProc} /\ AtRest' /\ Progress(p)'
  <2>1. holder = p /\ unit = exec[p] /\ exec[p] \in Path
    BY <1>1, <1>2, <1>12 DEF LockInv, UnitOfHolder, IsActive, InstallPC, ProcsTyped
  <2> QED
    BY <1>1, <1>2, <1>3, <1>5, <1>12, <2>1 DEF IsActive, Goto, Return, service,
       AtRest, Progress, ServiceOfLoaded, ProcsTyped
<1>13. ASSUME NEW p \in Proc, EnableNow(p) \/ Restart(p)
       PROVE  holder' \in {p, NoProc} /\ AtRest' /\ Progress(p)'
  <2>1. unit = exec[p] /\ exec[p] \in Path
    BY <1>1, <1>2, <1>13 DEF UnitOfHolder, EnableNow, Restart, ProcsTyped
  <2> QED
    BY <1>2, <1>3, <1>5, <1>13, <2>1 DEF EnableNow, Restart, Systemctl, Return,
       service, AtRest, Progress, ServiceOfLoaded, ProcsTyped
<1>14. ASSUME NEW p \in Proc, Unload(p)
       PROVE  holder' \in {p, NoProc} /\ AtRest' /\ Progress(p)'
  <2>1. unit = NoUnit
    BY <1>1, <1>14 DEF UnitOfHolder, Unload
  <2> QED
    BY <1>2, <1>3, <1>5, <1>14, <2>1 DEF Unload, Systemctl, LoadUnit, Return,
       service, AtRest, Progress, ServiceOfLoaded, ProcsTyped
<1>15. ASSUME NEW p \in Proc, CheckUnit(p)
       PROVE  holder' \in {p, NoProc} /\ AtRest' /\ Progress(p)'
  <2>1. holder = p
    BY <1>1, <1>15 DEF LockInv, CheckUnit, UninstallPC
  <2> QED
    BY <1>1, <1>2, <1>5, <1>15, <2>1 DEF CheckUnit, Goto, Return, service, AtRest,
       Progress, ServiceOfLoaded, ProcsTyped
<1>16. ASSUME NEW p \in Proc, holder' \in {p, NoProc}, AtRest', Progress(p)'
       PROVE  AtRest' /\ \A q \in Proc : Progress(q)'
  BY <1>1, <1>16, HolderProgress
<1>17. ASSUME NEW p \in Proc, holder' = p, Progress(p)'
       PROVE  AtRest' /\ \A q \in Proc : Progress(q)'
  <2>1. AtRest'
    BY <1>1, <1>17 DEF AtRest
  <2> QED
    BY <1>16, <1>17, <2>1
<1> QED
  BY <1>3, <1>6, <1>7, <1>8, <1>9, <1>10, <1>11, <1>12, <1>13, <1>14, <1>15, <1>16,
     <1>17, NextCases DEF Step

Served == Exclusive /\ CalmInv

LEMMA InvariantServed == Spec => []Served
<1>1. Init => CalmInv
  BY DEF Init, CalmInv, AtRest, Progress, ServiceOfLoaded
<1> QED
  BY <1>1, InitExclusive, StepExclusive, StepCalm, PTL DEF Spec, Served

\* What nothing failing means for the step that returns.
LEMMA Calm ==
  ASSUME Served, [Next]_vars, Undisturbed
  PROVE  /\ ~Fails /\ AtRest /\ \A p \in Proc : Progress(p)
         /\ TypeOK /\ LockInv /\ UnitOfHolder /\ ProcsTyped
<1>1. TypeOK /\ LockInv /\ UnitOfHolder /\ ProcsTyped
  BY TypePortions DEF Served, Exclusive
<1>2. ~Fails
  BY <1>1, BootstrapAssumption DEF Fails, TypeOK, Undisturbed
<1>3. fails = 0
  BY <1>1, <1>2, BootstrapAssumption, NextCases DEF TypeOK, UserStops, BinaryReplaced,
     vars, Tap, AcquireLock, Report, ReadUnit, IsActive, Truncate, Fill, Reload,
     EnableNow, Enable, Restart, CheckUnit, Disable, Remove, Unload, Step, Crash,
     Systemctl, Succeeds, Undisturbed
<1> QED
  BY <1>1, <1>2, <1>3 DEF Served, CalmInv, Undisturbed

\* Who can return: a process at one of five steps.
LEMMA ReturnCases ==
  ASSUME ProcsTyped, [Next]_vars, NEW p \in Proc, pc[p] # "report", pc'[p] = "report"
  PROVE  IsActive(p) \/ EnableNow(p) \/ Reload(p) \/ Enable(p) \/ Restart(p)
           \/ CheckUnit(p) \/ Unload(p)
<1> USE DEF ProcsTyped
<1>1. CASE UserStops \/ BinaryReplaced \/ UNCHANGED vars
  BY <1>1 DEF UserStops, BinaryReplaced, vars, procs
<1>2. ASSUME NEW q \in Proc, Tap(q) \/ AcquireLock(q) \/ Crash(q) \/ Report(q)
                  \/ ReadUnit(q) \/ Truncate(q) \/ Fill(q) \/ Disable(q) \/ Remove(q)
      PROVE  FALSE
  BY <1>2 DEF Tap, AcquireLock, Crash, Report, ReadUnit, Truncate, Fill, Disable,
     Remove, Goto
<1>3. ASSUME NEW q \in Proc, \/ IsActive(q) \/ CheckUnit(q) \/ Reload(q) \/ EnableNow(q)
                  \/ Enable(q) \/ Restart(q) \/ Unload(q)
      PROVE  q = p
  BY <1>3 DEF IsActive, CheckUnit, Reload, EnableNow, Enable, Restart, Unload,
     Systemctl, Goto, Return
<1> QED
  BY <1>1, <1>2, <1>3, NextCases DEF Step

\* Where a process stands when it returns from an operation that succeeded, and
\* what it leaves.
LEMMA InstallReturns ==
  ASSUME Served, [Next]_vars, Undisturbed, NEW p \in Proc, Returns(p, "install")
  PROVE  /\ unit = exec[p] /\ loaded' = exec[p] /\ enabled'
         /\ running' # NoUnit => running' = exec[p] /\ fresh'
         /\ pc[p] \in {"enableNow", "restart"} => running' = exec[p]
<1>1. /\ ~Fails /\ AtRest /\ Progress(p) /\ LockInv /\ UnitOfHolder /\ ProcsTyped
      /\ NoUnit \notin Path
  BY Calm, BootstrapAssumption
<1>2. op[p] = "install" /\ pc[p] # "report" /\ pc'[p] = "report" /\ outcome'[p] = "ok"
  BY DEF Returns
<1>3. exec[p] \in Path
  BY <1>1 DEF ProcsTyped
<1>4. CASE IsActive(p)
  BY <1>1, <1>2, <1>3, <1>4 DEF IsActive, RestartIfActive, Goto, service, Progress,
     ServiceOfLoaded, UnitOfHolder, ProcsTyped
<1>5. CASE EnableNow(p)
  BY <1>1, <1>2, <1>3, <1>5 DEF EnableNow, Systemctl, Progress, UnitOfHolder
<1>6. CASE Restart(p)
  BY <1>1, <1>2, <1>3, <1>6 DEF Restart, Systemctl, Progress, UnitOfHolder
<1>7. CASE Reload(p) \/ Enable(p)
  BY <1>1, <1>2, <1>7 DEF Reload, Enable, Systemctl, Goto, ProcsTyped
<1>8. CASE CheckUnit(p) \/ Unload(p)
  BY <1>1, <1>2, <1>8 DEF CheckUnit, Unload, LockInv, UninstallPC
<1> QED
  BY <1>1, <1>2, <1>4, <1>5, <1>6, <1>7, <1>8, ReturnCases

LEMMA UninstallReturns ==
  ASSUME Served, [Next]_vars, Undisturbed, NEW p \in Proc, Returns(p, "uninstall")
  PROVE  unit = NoUnit /\ loaded' = NoUnit /\ ~enabled' /\ running' = NoUnit
<1>1. /\ ~Fails /\ AtRest /\ Progress(p) /\ LockInv /\ UnitOfHolder /\ ProcsTyped
  BY Calm
<1>2. op[p] = "uninstall" /\ pc[p] # "report" /\ pc'[p] = "report"
  BY DEF Returns
<1>3. CASE IsActive(p) \/ EnableNow(p) \/ Reload(p) \/ Enable(p) \/ Restart(p)
  BY <1>1, <1>2, <1>3 DEF IsActive, EnableNow, Reload, Enable, Restart, LockInv,
     InstallPC
<1>4. CASE CheckUnit(p)
  BY <1>1, <1>2, <1>4 DEF CheckUnit, Goto, service, Progress, ServiceOfLoaded,
     ProcsTyped
<1>5. CASE Unload(p)
  BY <1>1, <1>2, <1>5 DEF Unload, Systemctl, LoadUnit, Progress, UnitOfHolder
<1> QED
  BY <1>1, <1>2, <1>3, <1>4, <1>5, ReturnCases

\* When nothing failed, a first or changed install that reports success leaves
\* its own unit in place, loaded, enabled and running.
THEOREM InstalledIsServed == Spec => InstallServes
<1>1. Served /\ [Next]_vars =>
        [\A p \in Proc :
           (Returns(p, "install") /\ pc[p] \in {"enableNow", "restart"} /\ Undisturbed)
             => /\ unit = exec[p] /\ loaded' = exec[p] /\ enabled'
                /\ running' = exec[p] /\ fresh']_vars
  <2> SUFFICES ASSUME Served, [Next]_vars, NEW p \in Proc, Returns(p, "install"),
                      pc[p] \in {"enableNow", "restart"}, Undisturbed
               PROVE  /\ unit = exec[p] /\ loaded' = exec[p] /\ enabled'
                      /\ running' = exec[p] /\ fresh'
    OBVIOUS
  <2>1. exec[p] # NoUnit
    BY Calm, BootstrapAssumption DEF ProcsTyped
  <2> QED
    BY <2>1, InstallReturns
<1> QED
  BY <1>1, InvariantServed, PTL DEF Spec, InstallServes

\* When nothing failed, an install that reports success never leaves an older
\* binary serving.
THEOREM UpgradesServe == Spec => UpgradeTakesEffect
<1>1. Served /\ [Next]_vars =>
        [\A p \in Proc :
           (Returns(p, "install") /\ Undisturbed /\ running' # NoUnit)
             => running' = exec[p] /\ fresh']_vars
  BY InstallReturns
<1> QED
  BY <1>1, InvariantServed, PTL DEF Spec, UpgradeTakesEffect

\* When nothing failed, an uninstall that reports success leaves no unit, no
\* enablement and no daemon behind.
THEOREM UninstallLeavesNothing == Spec => UninstallCleans
<1>1. Served /\ [Next]_vars =>
        [\A p \in Proc :
           (Returns(p, "uninstall") /\ Undisturbed)
             => unit = NoUnit /\ loaded' = NoUnit /\ ~enabled' /\ running' = NoUnit]_vars
  BY UninstallReturns
<1> QED
  BY <1>1, InvariantServed, PTL DEF Spec, UninstallCleans

=============================================================================
