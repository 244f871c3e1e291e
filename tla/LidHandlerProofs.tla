-------------------------- MODULE LidHandlerProofs --------------------------
(***************************************************************************)
(* Proofs about LidHandler for every set of panels and monitors and every  *)
(* number of failing calls and restarts: nothing owed is forgotten, the    *)
(* ownership map is exact, and only what it owns is ever switched on.      *)
(***************************************************************************)
EXTENDS LidHandler, TLAPS

\* What is owed is owned, or about to be claimed by the callback.
DebtCovered == debt \subseteq owned \cup done

\* Outside the close path nothing waits to be claimed.
DoneByPc ==
  /\ pc \notin {"disable", "claim", "restore", "unclaim"} => debt \subseteq owned
  /\ pc \in {"restore", "unclaim"} => done = owned /\ todo \subseteq owned
  /\ pc = "query" => done = {}

\* Whatever the map or the callback names, this process switched off.
OursCovers == owned \subseteq ours /\ (pc \in {"disable", "claim"} => done \subseteq ours)

\* Unless a restore failed, the books balance at every point of a callback.
Balanced ==
  ~failed =>
    /\ pc \in {"idle", "query"} => owned = debt
    /\ pc \in {"disable", "claim"} => owned \cup done = debt
    /\ pc \in {"restore", "unclaim"} => debt \cap owned \subseteq todo
    /\ pc \in {"unclaim", "claim"} => todo = {}

\* The state delivered last tells which of the two callbacks may be under way.
CallbackByState ==
  /\ pc \in {"restore", "unclaim"} => delivered = "open"
  /\ pc \in {"query", "disable", "claim"} => delivered = "closed"
  /\ delivered = "open" /\ pc = "idle" /\ ~failed => owned = {}
  /\ failed => fails > 0

\* In the first life of the daemon a panel is off because of the user or of it.
OffForAReason == crashes = 0 => Internal \subseteq enabled \cup userOff \cup debt

IInv ==
  /\ TypeOK /\ DebtCovered /\ DoneByPc /\ OursCovers
  /\ Balanced /\ CallbackByState /\ OffForAReason


-----------------------------------------------------------------------------

LEMMA InitIInv == Init => IInv
<1> SUFFICES ASSUME Init PROVE IInv
  OBVIOUS
<1> USE HandlerAssumption DEF Init, Output, Action, LidState, TypeOK, DebtCovered, DoneByPc, OursCovers, Balanced, CallbackByState, OffForAReason
<1>1. TypeOK
  <2>1. lid \in LidState /\ delivered \in LidState \cup {"none"} /\ current \in Action
    OBVIOUS
  <2>2. enabled \subseteq Output /\ userOff \subseteq Output
    OBVIOUS
  <2>3. owned \subseteq Internal /\ todo \subseteq Internal /\ done \subseteq Internal
    OBVIOUS
  <2>4. ours \subseteq Internal /\ debt \subseteq Internal
    OBVIOUS
  <2>5. pc \in {"idle", "query", "disable", "claim", "restore", "unclaim"}
    OBVIOUS
  <2>6. fails \in 0..MaxFails /\ crashes \in 0..MaxCrashes
    OBVIOUS
  <2>7. failed \in BOOLEAN
    OBVIOUS
  <2> QED
    BY <2>1, <2>2, <2>3, <2>4, <2>5, <2>6, <2>7
<1>2. DebtCovered /\ DoneByPc
  OBVIOUS
<1>3. OursCovers /\ Balanced
  OBVIOUS
<1>4. CallbackByState
  OBVIOUS
<1>5. OffForAReason
  OBVIOUS
<1> QED
  BY <1>1, <1>2, <1>3, <1>4, <1>5 DEF IInv

LEMMA StepIInv == IInv /\ [Next]_vars => IInv'
<1> SUFFICES ASSUME IInv, [Next]_vars PROVE IInv'
  OBVIOUS
<1> USE HandlerAssumption DEF Output, Action, LidState, IInv, TypeOK, DebtCovered, DoneByPc, OursCovers, Balanced, CallbackByState, OffForAReason
<1>1. CASE LidClosed
  BY <1>1 DEF LidClosed
<1>2. CASE QueryOutputs
  BY <1>2 DEF QueryOutputs, CallSucceeds, CallFails, OutputsToDisable
<1>3. CASE Disabled
  BY <1>3 DEF Disabled
<1>4. CASE Claim
  BY <1>4 DEF Claim, ClaimDone
<1>5. CASE LidOpen
  BY <1>5 DEF LidOpen
<1>6. CASE Restored
  BY <1>6 DEF Restored
<1>7. CASE Unclaim
  BY <1>7 DEF Unclaim, StillOwned
<1>8. CASE SetAction
  BY <1>8 DEF SetAction, SwapKeeps, call
<1>9. CASE MoveLid
  BY <1>9 DEF MoveLid, call
<1>10. CASE Restart
  <2>1. TypeOK'
    <3>1. (lid \in LidState /\ delivered \in LidState \cup {"none"} /\ current \in Action)'
      BY <1>10 DEF Restart
    <3>2. (enabled \subseteq Output /\ userOff \subseteq Output)'
      BY <1>10 DEF Restart
    <3>3. (owned \subseteq Internal /\ todo \subseteq Internal /\ done \subseteq Internal)'
      BY <1>10 DEF Restart
    <3>4. (ours \subseteq Internal /\ debt \subseteq Internal)'
      BY <1>10 DEF Restart
    <3>5. (pc \in {"idle", "query", "disable", "claim", "restore", "unclaim"})'
      BY <1>10 DEF Restart
    <3>6. (fails \in 0..MaxFails /\ crashes \in 0..MaxCrashes)'
      BY <1>10 DEF Restart
    <3>7. (failed \in BOOLEAN)'
      BY <1>10 DEF Restart
    <3> QED
      BY <3>1, <3>2, <3>3, <3>4, <3>5, <3>6, <3>7
  <2>2. DebtCovered' /\ DoneByPc'
    BY <1>10 DEF Restart
  <2>3. OursCovers' /\ Balanced'
    BY <1>10 DEF Restart
  <2>4. CallbackByState'
    BY <1>10 DEF Restart
  <2>5. OffForAReason'
    BY <1>10 DEF Restart
  <2> QED
    BY <2>1, <2>2, <2>3, <2>4, <2>5 DEF IInv
<1>11. ASSUME NEW o \in Internal, DisableOne(o) PROVE IInv'
  BY <1>11 DEF DisableOne, NotDisabled, CallSucceeds, CallFails
<1>12. ASSUME NEW o \in Internal, RestoreOne(o) PROVE IInv'
  <2>1. TypeOK'
    <3>1. (lid \in LidState /\ delivered \in LidState \cup {"none"} /\ current \in Action)'
      BY <1>12 DEF RestoreOne, CallSucceeds, CallFails
    <3>2. (enabled \subseteq Output /\ userOff \subseteq Output)'
      BY <1>12 DEF RestoreOne, CallSucceeds, CallFails
    <3>3. (owned \subseteq Internal /\ todo \subseteq Internal /\ done \subseteq Internal)'
      BY <1>12 DEF RestoreOne, CallSucceeds, CallFails
    <3>4. (ours \subseteq Internal /\ debt \subseteq Internal)'
      BY <1>12 DEF RestoreOne, CallSucceeds, CallFails
    <3>5. (pc \in {"idle", "query", "disable", "claim", "restore", "unclaim"})'
      BY <1>12 DEF RestoreOne, CallSucceeds, CallFails
    <3>6. (fails \in 0..MaxFails /\ crashes \in 0..MaxCrashes)'
      BY <1>12 DEF RestoreOne, CallSucceeds, CallFails
    <3>7. (failed \in BOOLEAN)'
      BY <1>12 DEF RestoreOne, CallSucceeds, CallFails
    <3> QED
      BY <3>1, <3>2, <3>3, <3>4, <3>5, <3>6, <3>7
  <2>2. DebtCovered' /\ DoneByPc'
    BY <1>12 DEF RestoreOne, CallSucceeds, CallFails
  <2>3. OursCovers' /\ Balanced'
    BY <1>12 DEF RestoreOne, CallSucceeds, CallFails
  <2>4. CallbackByState'
    BY <1>12 DEF RestoreOne, CallSucceeds, CallFails
  <2>5. OffForAReason'
    BY <1>12 DEF RestoreOne, CallSucceeds, CallFails
  <2> QED
    BY <2>1, <2>2, <2>3, <2>4, <2>5 DEF IInv
<1>13. ASSUME NEW o \in Output, UserOff(o) PROVE IInv'
  BY <1>13 DEF UserOff, call
<1>14. ASSUME NEW o \in Output, UserOn(o) PROVE IInv'
  BY <1>14 DEF UserOn, call
<1>15. CASE UNCHANGED vars
  BY <1>15 DEF vars, call
<1> QED
  BY <1>1, <1>2, <1>3, <1>4, <1>5, <1>6, <1>7, <1>8, <1>9, <1>10, <1>11, <1>12, <1>13, <1>14, <1>15 DEF Next, Callback

LEMMA InvariantIInv == Spec => []IInv
BY InitIInv, StepIInv, PTL DEF Spec

\* Every variable of the handler keeps its type: what it owns and what it owes
\* are panels, for every set of outputs.
THEOREM HandlerTypeCorrect == Spec => []TypeOK
<1>1. IInv => TypeOK
  BY DEF IInv
<1> QED
  BY <1>1, InvariantIInv, PTL

\* No panel is forgotten dark between two callbacks, whatever failed, was
\* swapped or died.
THEOREM PanelsRemembered == Spec => []NoPanelForgotten
<1>1. IInv => NoPanelForgotten
  BY DEF IInv, DoneByPc, NoPanelForgotten
<1> QED
  BY <1>1, InvariantIInv, PTL

\* Unless the last open met a failure, the map is what the process owes.
THEOREM OwnershipIsDebt == Spec => []OwnershipExact
<1>1. IInv => OwnershipExact
  BY DEF IInv, Balanced, OwnershipExact
<1> QED
  BY <1>1, InvariantIInv, PTL

\* A callback switches on nothing this process did not switch off.
THEOREM NothingForeignEnabled == Spec => OnlyOursEnabled
<1>1. IInv /\ [Next]_vars => [Callback => enabled' \ enabled \subseteq ours]_vars
  <2> SUFFICES ASSUME IInv, Callback PROVE enabled' \ enabled \subseteq ours
    OBVIOUS
  <2>1. CASE \E o \in Internal : DisableOne(o)
    BY <2>1 DEF DisableOne
  <2>2. CASE \E o \in Internal : RestoreOne(o)
    BY <2>2 DEF RestoreOne, IInv, DoneByPc, OursCovers
  <2>3. CASE LidClosed \/ QueryOutputs \/ Disabled \/ Claim \/ LidOpen \/ Restored \/ Unclaim
    BY <2>3 DEF LidClosed, QueryOutputs, Disabled, Claim, LidOpen, Restored, Unclaim
  <2> QED
    BY <2>1, <2>2, <2>3 DEF Callback
<1> QED
  BY <1>1, InvariantIInv, PTL DEF Spec, OnlyOursEnabled

\* In one life without failures and without the user's hand, the panels are on
\* once an open is handled.
THEOREM PanelsOnInOneLife == Spec => []PanelOnInOneLife
<1>1. IInv => PanelOnInOneLife
  BY DEF IInv, TypeOK, Balanced, CallbackByState, OffForAReason, PanelOnInOneLife
<1> QED
  BY <1>1, InvariantIInv, PTL

=============================================================================
