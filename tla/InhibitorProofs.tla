-------------------------- MODULE InhibitorProofs --------------------------
(***************************************************************************)
(* Proofs about Inhibitor for every set of connections and descriptors and *)
(* every number of faults: the inductive invariant IInv, the safety        *)
(* invariants that follow from it, and that every step of the run loop is  *)
(* a step of the abstract lease or leaves it alone.                        *)
(***************************************************************************)
EXTENDS Inhibitor, TLAPS

\* Where the loop stands tells whether a descriptor is stored or in hand.
FdByPc ==
  /\ pc \in {"top", "acquire", "call", "install", "wait", "drop"} => fd = NoFd
  /\ pc \in {"publish", "watch", "lose"} => fd # NoFd
  /\ grant # NoFd <=> pc = "install"

\* The process has one connection at most: the one i.conn points at.
ConnByPc ==
  /\ pc \in {"call", "install", "publish", "watch", "lose", "drop"} => conn # NoConn
  /\ opened = IF rel = "returned" THEN {} ELSE {conn} \ {NoConn}
  /\ alive \subseteq opened /\ sig \subseteq alive

\* Locks are held through live descriptors, over the current connection.
LocksBacked == \A l \in locks : l[1] \in open /\ l[2] = conn

\* A granted lock is honoured or its loss is on record, already before the
\* loop starts watching it.
GrantTracked ==
  \A f \in Descriptor :
    (\/ pc = "install" /\ f = grant
     \/ pc \in {"publish", "watch"} /\ f = fd)
    => \/ <<f, conn>> \in locks
       \/ conn \in lost \cup sig
       \/ conn \notin alive

\* Release: where it is, what is already closed.
ReleaseOrder ==
  /\ cancel <=> rel # "idle"
  /\ rel \in {"closing", "dropping", "returned"} => pc = "done"
  /\ rel \in {"dropping", "returned"} => fd = NoFd

\* "acquired" is published only while the descriptor is stored.
AcquiredByPc ==
  /\ state = "acquired" => pc \in {"watch", "done"}
  /\ (state = "acquired" /\ pc = "done" /\ rel \notin {"dropping", "returned"})
       => fd # NoFd /\ conn # NoConn

\* A connection that bears the traces of a loss owes it to a fault no lock
\* was given up for yet.
Owed ==
  IF /\ pc \notin {"lose", "drop", "done"} /\ conn # NoConn
     /\ conn \in lost \cup sig \/ conn \notin alive
  THEN 1 ELSE 0

LossesCounted == losses + Owed <= faults

\* Failures since the last tick, those the buffered tick still allows, and
\* the one under way.
AttemptsCounted ==
  attempts + (IF retryTick THEN 1 ELSE 0)
    + (IF pc \in {"wait", "done"} THEN 0 ELSE 1) <= 2

IInv ==
  /\ TypeOK /\ DescriptorsOwned
  /\ FdByPc /\ ConnByPc /\ LocksBacked /\ GrantTracked /\ ReleaseOrder
  /\ AcquiredByPc /\ LossesCounted /\ AttemptsCounted

USE ConnAssumption, DescriptorAssumption, FaultsAssumption
USE DEF vars, loop, conns, outside, PC, State, Rel, Logind, NoFd, Goto

(* IInv holds initially and every step preserves it. *)
LEMMA InitIInv == Init => IInv
<1> SUFFICES ASSUME Init PROVE IInv
  OBVIOUS
<1> USE DEF Init
<1>1. TypeOK
  <2>1. bus \in BOOLEAN /\ cancel \in BOOLEAN /\ retryTick \in BOOLEAN
    BY Zenon
  <2>2. /\ pc \in PC /\ state \in State /\ rel \in Rel /\ logind \in Logind
        /\ fd = NoFd /\ grant = NoFd /\ conn = NoConn
        /\ opened = {} /\ alive = {} /\ lost = {} /\ sig = {} /\ open = {} /\ locks = {}
        /\ faults = 0 /\ losses = 0 /\ attempts = 0
    OBVIOUS
  <2> QED
    BY <2>1, <2>2 DEF TypeOK
<1>2. DescriptorsOwned /\ FdByPc /\ ConnByPc /\ LocksBacked
  BY DEF DescriptorsOwned, FdByPc, ConnByPc, LocksBacked
<1>3. GrantTracked /\ ReleaseOrder /\ AcquiredByPc
  BY DEF GrantTracked, ReleaseOrder, AcquiredByPc
<1>4. LossesCounted /\ AttemptsCounted
  BY DEF LossesCounted, Owed, AttemptsCounted
<1> QED
  BY <1>1, <1>2, <1>3, <1>4 DEF IInv

LEMMA StepIInv == IInv /\ [Next]_vars => IInv'
<1> SUFFICES ASSUME IInv, [Next]_vars PROVE IInv'
  OBVIOUS
<1> USE DEF IInv, TypeOK, DescriptorsOwned, FdByPc, ConnByPc, LocksBacked, GrantTracked, ReleaseOrder, AcquiredByPc, LossesCounted, Owed, AttemptsCounted
<1>1. CASE ExitAtTop
  BY <1>1 DEF ExitAtTop
<1>2. CASE Start
  BY <1>2 DEF Start
<1>3. CASE DropDead
  BY <1>3 DEF DropDead, ConnDead, DropConn, CloseConn
<1>4. CASE Reuse
  BY <1>4 DEF Reuse, ConnDead
<1>5. CASE DialFails
  BY <1>5 DEF DialFails, Failed
<1>6. CASE InhibitRefused
  BY <1>6 DEF InhibitRefused, Failed
<1>7. CASE Install
  BY <1>7 DEF Install, CloseFd, IsFd
<1>8. CASE Publish
  BY <1>8 DEF Publish
<1>9. CASE WaitCancel
  BY <1>9 DEF WaitCancel
<1>10. CASE WaitTick
  <2>1. AttemptsCounted'
    BY <1>10 DEF WaitTick
  <2>2. TypeOK'
    BY <1>10 DEF WaitTick
  <2>3. DescriptorsOwned' /\ FdByPc' /\ ConnByPc' /\ LocksBacked'
    BY <1>10 DEF WaitTick
  <2>4. GrantTracked' /\ ReleaseOrder' /\ AcquiredByPc' /\ LossesCounted'
    BY <1>10 DEF WaitTick
  <2> QED
    BY <2>1, <2>2, <2>3, <2>4
<1>11. CASE WatchCancel
  BY <1>11 DEF WatchCancel, WatchCanceled
<1>12. CASE WatchLost
  BY <1>12 DEF WatchLost, Lose
<1>13. CASE WatchDead
  BY <1>13 DEF WatchDead, Lose
<1>14. CASE ReleaseFd
  BY <1>14 DEF ReleaseFd, CloseFd, IsFd
<1>15. CASE DropLost
  BY <1>15 DEF DropLost, DropConn, CloseConn
<1>16. ASSUME NEW c \in Conn, Dial(c) PROVE IInv'
  BY <1>16 DEF Dial
<1>17. ASSUME NEW f \in Descriptor, InhibitGranted(f) PROVE IInv'
  BY <1>17 DEF InhibitGranted
<1>18. ASSUME NEW c \in Conn, WatchLogind(c) PROVE IInv'
  BY <1>18 DEF WatchLogind, LostBy
<1>19. CASE RetryTick
  BY <1>19 DEF RetryTick
<1>20. CASE ReleaseStart
  BY <1>20 DEF ReleaseStart
<1>21. CASE ReleaseWait
  BY <1>21 DEF ReleaseWait, LoopEnded
<1>22. CASE ReleaseCloseFd
  BY <1>22 DEF ReleaseCloseFd, CloseFd, IsFd
<1>23. CASE ReleaseCloseConn
  BY <1>23 DEF ReleaseCloseConn, CloseConn
<1>24. CASE LogindDown
  BY <1>24 DEF LogindDown, Fault
<1>25. CASE LogindAnswers
  BY <1>25 DEF LogindAnswers
<1>26. ASSUME NEW c \in Conn, TransportDrop(c) PROVE IInv'
  BY <1>26 DEF TransportDrop, Fault
<1>27. CASE BusDown
  <2>1. bus' \in BOOLEAN
    BY <1>27, Zenon DEF BusDown
  <2>2. TypeOK'
    BY <1>27, <2>1 DEF BusDown, Fault
  <2>3. DescriptorsOwned' /\ FdByPc' /\ ConnByPc' /\ LocksBacked'
    BY <1>27 DEF BusDown
  <2>4. GrantTracked' /\ ReleaseOrder' /\ AcquiredByPc'
    BY <1>27 DEF BusDown
  <2>5. LossesCounted' /\ AttemptsCounted'
    BY <1>27 DEF BusDown, Fault
  <2> QED
    BY <2>2, <2>3, <2>4, <2>5
<1>28. CASE BusUp
  <2>1. bus' \in BOOLEAN
    BY <1>28, Zenon DEF BusUp
  <2>2. TypeOK'
    BY <1>28, <2>1 DEF BusUp
  <2>3. DescriptorsOwned' /\ FdByPc' /\ ConnByPc' /\ LocksBacked'
    BY <1>28 DEF BusUp
  <2>4. GrantTracked' /\ ReleaseOrder' /\ AcquiredByPc'
    BY <1>28 DEF BusUp
  <2>5. LossesCounted' /\ AttemptsCounted'
    BY <1>28 DEF BusUp
  <2> QED
    BY <2>2, <2>3, <2>4, <2>5
<1>29. CASE UNCHANGED vars
  BY <1>29
<1> HIDE DEF IInv
<1> QED
  BY <1>1, <1>2, <1>3, <1>4, <1>5, <1>6, <1>7, <1>8, <1>9, <1>10, <1>11, <1>12, <1>13, <1>14, <1>15, <1>16, <1>17, <1>18, <1>19, <1>20, <1>21, <1>22, <1>23, <1>24, <1>25, <1>26, <1>27, <1>28, <1>29 DEF Next, Run, Release, Outside

(* The invariant of every behaviour. *)
LEMMA InvariantIInv == Spec => []IInv
  BY InitIInv, StepIInv, PTL DEF Spec

-----------------------------------------------------------------------------
(* The theorems *)

\* Every variable of the inhibitor keeps its type, whatever the bus and logind
\* do.
THEOREM TypeCorrect == Spec => []TypeOK
<1>1. IInv => TypeOK
  BY DEF IInv
<1> QED
  BY <1>1, InvariantIInv, PTL

\* No lock descriptor leaks, and none is closed twice, across losses, failures
\* and Release: the stored and the in-hand descriptor are the live ones.
THEOREM NoDescriptorLeaks == Spec => []DescriptorsOwned
<1>1. IInv => DescriptorsOwned
  BY DEF IInv
<1> QED
  BY <1>1, InvariantIInv, PTL

\* A watched lock that died will wake the loop: there is no interleaving of
\* dial, grant, install and logind's exit in which the loss goes unseen.
THEOREM LossDetected == Spec => []LossIsDetectable
<1>1. IInv => LossIsDetectable
  <2> SUFFICES ASSUME IInv, pc = "watch", <<fd, conn>> \notin locks
               PROVE  conn \in lost \cup sig \/ conn \notin alive
    BY DEF LossIsDetectable
  <2>1. fd \in Descriptor
    BY DEF IInv, TypeOK, FdByPc
  <2> QED
    BY <2>1 DEF IInv, GrantTracked
<1> QED
  BY <1>1, InvariantIInv, PTL

\* The published state "acquired" never outlives the descriptor or the
\* connection behind it, until Release closes them.
THEOREM AcquiredBacked == Spec => []AcquiredIsBacked
<1>1. IInv => AcquiredIsBacked
  BY DEF IInv, AcquiredIsBacked, AcquiredByPc, FdByPc, ConnByPc, ReleaseOrder,
         DescriptorsOwned, TypeOK
<1> QED
  BY <1>1, InvariantIInv, PTL

\* Once Release has returned, the loop has ended and the process holds neither
\* a descriptor nor a connection.
THEOREM ReleaseLeavesNothing == Spec => []CleanRelease
<1>1. IInv => CleanRelease
  BY DEF IInv, CleanRelease, FdByPc, ConnByPc, ReleaseOrder, DescriptorsOwned,
         LocksBacked
<1> QED
  BY <1>1, InvariantIInv, PTL

\* Every lock given up is charged to a fault of its own: the loop cannot spin
\* on the traces of one loss.
THEOREM NoHotLoop == Spec => []LossesCharged
<1>1. IInv => LossesCharged
  BY DEF IInv, LossesCharged, LossesCounted, Owed, TypeOK
<1> QED
  BY <1>1, InvariantIInv, PTL

\* At most two acquisitions fail between two ticks of the retry ticker.
THEOREM RetriesPaced == Spec => []RetryPaced
<1>1. IInv => RetryPaced
  BY DEF IInv, RetryPaced, AttemptsCounted, TypeOK
<1> QED
  BY <1>1, InvariantIInv, PTL

-----------------------------------------------------------------------------
(* The run loop implements the abstract lease *)

\* The steps that leave the descriptor, the connection, Release's progress and
\* the locks of the stored descriptor alone are invisible to the lease.
LEMMA LeaseStutter ==
  ASSUME UNCHANGED <<fd, conn, locks, rel>> PROVE UNCHANGED lease
  BY DEF lease

\* Release's last step turns none into closed; no earlier one shows.
LEMMA LeaseRelease ==
  ASSUME IInv, rel' # rel, rel' = "returned" <=> rel = "dropping", rel # "returned",
         UNCHANGED <<fd, conn, locks>>
  PROVE  [Promise!Next]_lease
<1>1. CASE rel = "dropping"
  BY <1>1 DEF IInv, ReleaseOrder, lease, Promise!Next, Promise!Close
<1>2. CASE rel # "dropping"
  BY <1>2 DEF lease
<1> QED
  BY <1>1, <1>2

\* Without a stored descriptor the lease is none whatever happens to
\* connections and locks.
LEMMA LeaseNone ==
  ASSUME fd = NoFd, UNCHANGED <<fd, rel>> PROVE UNCHANGED lease
  BY DEF lease

\* While Release has not returned, the lock of the stored descriptor can only
\* die.
LEMMA LeaseRevoke ==
  ASSUME locks' \subseteq locks, UNCHANGED <<fd, conn, rel>>
  PROVE  [Promise!Next]_lease
  BY DEF lease, Promise!Next, Promise!Revoke

LEMMA LeaseStep == IInv /\ [Next]_vars => [Promise!Next]_lease
<1> SUFFICES ASSUME IInv, [Next]_vars PROVE [Promise!Next]_lease
  OBVIOUS
<1> DEFINE Quiet == UNCHANGED <<fd, conn, locks, rel>>
<1>1. CASE \/ ExitAtTop \/ Start \/ Reuse \/ DialFails \/ InhibitRefused \/ Publish
           \/ WaitCancel \/ WaitTick \/ WatchCancel \/ WatchLost \/ WatchDead
  <2>1. Quiet
    BY <1>1 DEF ExitAtTop, Start, Reuse, DialFails, InhibitRefused, Publish,
       WaitCancel, WaitTick, WatchCancel, WatchLost, WatchDead, Lose
  <2> QED
    BY <2>1, LeaseStutter
<1>2. CASE \/ DropDead \/ DropLost \/ (\E c \in Conn : Dial(c))
           \/ (\E f \in Descriptor : InhibitGranted(f))
  <2>1. fd = NoFd /\ UNCHANGED <<fd, rel>>
    BY <1>2 DEF IInv, FdByPc, DropDead, DropLost, Dial, InhibitGranted
  <2> QED
    BY <2>1, LeaseNone
<1>3. CASE Install
  <2>1. fd = NoFd /\ fd' # NoFd /\ rel # "returned" /\ rel' = rel
    BY <1>3 DEF Install, IInv, FdByPc, ReleaseOrder
  <2> QED
    BY <2>1 DEF lease, Promise!Next, Promise!Take
<1>4. CASE ReleaseFd
  <2>1. fd # NoFd /\ fd' = NoFd /\ rel # "returned" /\ rel' = rel
    BY <1>4 DEF ReleaseFd, IInv, FdByPc, ReleaseOrder
  <2> QED
    BY <2>1 DEF lease, Promise!Next, Promise!Drop
<1>5. CASE ReleaseStart \/ ReleaseWait \/ ReleaseCloseConn
  BY <1>5, LeaseRelease DEF ReleaseStart, ReleaseWait, ReleaseCloseConn, loop
<1>6. CASE ReleaseCloseFd
  <2>1. fd' = NoFd /\ rel # "returned" /\ rel' # "returned"
    BY <1>6 DEF ReleaseCloseFd
  <2>2. lease' = "none" /\ lease \in {"none", "held", "stale"}
    BY <2>1 DEF lease
  <2> QED
    BY <2>2 DEF Promise!Next, Promise!Drop
<1>7. CASE Outside
  <2>1. locks' \subseteq locks /\ UNCHANGED <<fd, conn, rel>>
    BY <1>7 DEF Outside, LogindDown, LogindAnswers, TransportDrop, BusDown, BusUp
  <2> QED
    BY <2>1, LeaseRevoke
<1>8. CASE RetryTick \/ (\E c \in Conn : WatchLogind(c)) \/ UNCHANGED vars
  <2>1. Quiet
    BY <1>8 DEF RetryTick, WatchLogind
  <2> QED
    BY <2>1, LeaseStutter
<1> QED
  BY <1>1, <1>2, <1>3, <1>4, <1>5, <1>6, <1>7, <1>8 DEF Next, Run, Release

\* Every behaviour of the inhibitor is one of the lease's: a lock is taken only
\* when none is held, given up before the next, and never after Release.
THEOREM InhibitorImplementsLease == Spec => Promise!Init /\ [][Promise!Next]_lease
<1>1. Init => Promise!Init
  BY DEF Init, Promise!Init, lease
<1> QED
  BY <1>1, InvariantIInv, LeaseStep, PTL DEF Spec

=============================================================================
