----------------------------- MODULE LidHandler -----------------------------
(***************************************************************************)
(* internal/daemon/handler.go with internal/lid/action: what a lid close   *)
(* and a lid open do, one swaymsg call at a time, while the preferences    *)
(* watcher swaps the action, the user turns outputs on and off, monitors   *)
(* come and go, swaymsg fails, and the daemon dies and is started again.   *)
(*                                                                         *)
(* The monitor calls back serially and never twice with the same state;    *)
(* which of its states are delivered is LidMonitor's subject.              *)
(***************************************************************************)
EXTENDS Integers, FiniteSets

CONSTANTS
  Internal,    \* the laptop's panels (eDP, LVDS, ...)
  External,    \* monitors
  MaxFails,    \* bound of the model: failing swaymsg calls
  MaxCrashes   \* bound of the model: ends of the daemon process

ASSUME HandlerAssumption ==
  /\ Internal \cap External = {}
  /\ MaxFails \in Nat /\ MaxCrashes \in Nat

Output == Internal \cup External
Action == {"lock", "sleep", "nothing"}
LidState == {"open", "closed"}

VARIABLES
  \* outside
  lid,        \* the physical lid
  enabled,    \* outputs sway shows as enabled; an unplugged one is not
  \* the daemon
  delivered,  \* the state of the monitor's last callback
  current,    \* Handler.current
  owned,      \* Handler.disabledByUs
  pc,         \* where the callback is
  todo,       \* outputs it has still to switch
  done,       \* hideInternalDisplay's disabled, HandleLidOpen's toRestore
  failed,     \* ShowInternalDisplay collected an error
  \* history
  ours,       \* outputs this process ever switched off
  debt,       \* those of them it has not switched on since
  userOff,    \* outputs the user switched last, and switched off
  fails, crashes

call == <<pc, todo, done, failed>>
vars == <<lid, enabled, delivered, current, owned, call, ours, debt, userOff, fails, crashes>>

\* One type invariant: outputs the daemon owns are panels, and so on.
TypeOK ==
  /\ lid \in LidState /\ delivered \in LidState \cup {"none"}
  /\ current \in Action
  /\ enabled \subseteq Output /\ owned \subseteq Internal
  /\ pc \in {"idle", "query", "disable", "claim", "restore", "unclaim"}
  /\ todo \subseteq Internal /\ done \subseteq Internal /\ failed \in BOOLEAN
  /\ ours \subseteq Internal /\ debt \subseteq Internal /\ userOff \subseteq Output
  /\ fails \in 0..MaxFails /\ crashes \in 0..MaxCrashes

\* NewHandler: an empty map; NewDaemon starts it with lock, and the watcher
\* has put the preferred action in before the monitor exists.
Init ==
  /\ lid \in LidState /\ enabled \in SUBSET Output /\ current \in Action
  /\ delivered = "none" /\ owned = {}
  /\ pc = "idle" /\ todo = {} /\ done = {} /\ failed = FALSE
  /\ ours = {} /\ debt = {} /\ userOff = Output \ enabled /\ fails = 0 /\ crashes = 0

-----------------------------------------------------------------------------
(* swaymsg *)

CallFails == fails < MaxFails /\ fails' = fails + 1
CallSucceeds == UNCHANGED fails

\* outputsToDisable: the enabled panels, if some monitor is enabled too.
OutputsToDisable(on) ==
  IF on \cap External = {} THEN {} ELSE on \cap Internal

-----------------------------------------------------------------------------
(* HandleLidClosed *)

\* lock and sleep run their command and disable nothing; nothing asks sway.
LidClosed ==
  /\ pc = "idle" /\ lid = "closed" /\ delivered # "closed"
  /\ delivered' = "closed"
  /\ pc' = IF current = "nothing" THEN "query" ELSE "idle"
  /\ done' = {}
  /\ UNCHANGED <<lid, enabled, current, owned, todo, failed, ours, debt, userOff,
                 fails, crashes>>

\* hideInternalDisplay's get_outputs. An error ends the callback.
QueryOutputs ==
  /\ pc = "query"
  /\ \/ CallSucceeds /\ todo' = OutputsToDisable(enabled) /\ pc' = "disable"
     \/ CallFails /\ UNCHANGED todo /\ pc' = "idle"
  /\ UNCHANGED <<lid, enabled, delivered, current, owned, done, failed, ours, debt,
                 userOff, crashes>>

\* Mutant: outputs are claimed before it is known that they went off.
BugClaimIntended(o) == done' = done \cup {o}

\* What a failed disable contributes to the outputs to own: nothing.
NotDisabled(o) == UNCHANGED done

DisableOne(o) ==
  /\ pc = "disable" /\ o \in todo /\ todo' = todo \ {o}
  /\ \/ /\ CallSucceeds
        /\ enabled' = enabled \ {o} /\ done' = done \cup {o}
        /\ ours' = ours \cup {o} /\ debt' = debt \cup {o}
     \/ CallFails /\ NotDisabled(o) /\ UNCHANGED <<enabled, ours, debt>>
  /\ UNCHANGED <<lid, delivered, current, owned, pc, failed, userOff, crashes>>

Disabled ==
  /\ pc = "disable" /\ todo = {} /\ pc' = "claim"
  /\ UNCHANGED <<lid, enabled, delivered, current, owned, todo, done, failed,
                 ours, debt, userOff, fails, crashes>>

\* Mutant: a close forgets what an earlier close still owns.
BugClaimOverwrites == owned' = done

ClaimDone == owned' = owned \cup done

Claim ==
  /\ pc = "claim" /\ pc' = "idle" /\ ClaimDone
  /\ UNCHANGED <<lid, enabled, delivered, current, todo, done, failed, ours, debt,
                 userOff, fails, crashes>>

-----------------------------------------------------------------------------
(* HandleLidOpen *)

LidOpen ==
  /\ pc = "idle" /\ lid = "open" /\ delivered # "open"
  /\ delivered' = "open"
  /\ todo' = owned /\ done' = owned /\ failed' = FALSE
  /\ pc' = IF todo' = {} THEN "idle" ELSE "restore"
  /\ UNCHANGED <<lid, enabled, current, owned, ours, debt, userOff, fails, crashes>>

\* ShowInternalDisplay tries every name and joins the errors.
RestoreOne(o) ==
  /\ pc = "restore" /\ o \in todo /\ todo' = todo \ {o}
  /\ \/ /\ CallSucceeds
        /\ enabled' = enabled \cup {o} /\ debt' = debt \ {o}
        /\ userOff' = userOff \ {o} /\ UNCHANGED failed
     \/ CallFails /\ failed' = TRUE /\ UNCHANGED <<enabled, debt, userOff>>
  /\ UNCHANGED <<lid, delivered, current, owned, pc, done, ours, crashes>>

Restored ==
  /\ pc = "restore" /\ todo = {} /\ pc' = "unclaim"
  /\ UNCHANGED <<lid, enabled, delivered, current, owned, todo, done, failed,
                 ours, debt, userOff, fails, crashes>>

\* Mutant: entries go whether or not the restore succeeded.
BugUnclaimAlways == owned \ done

\* Mutant: entries are never removed.
BugUnclaimNever == owned

\* After an error every entry stays, those restored included.
StillOwned == IF failed THEN owned ELSE owned \ done

Unclaim ==
  /\ pc = "unclaim" /\ pc' = "idle" /\ owned' = StillOwned
  /\ UNCHANGED <<lid, enabled, delivered, current, todo, done, failed, ours, debt,
                 userOff, fails, crashes>>

-----------------------------------------------------------------------------
(* SetAction, and what happens outside *)

\* Mutant: the new action starts with no outputs to its name.
BugSwapDropsOwnership == owned' = {}

SwapKeeps == UNCHANGED owned

\* The watcher swaps the action at any time; an invalid one is refused.
SetAction ==
  /\ current' \in Action \ {current} /\ SwapKeeps
  /\ UNCHANGED <<lid, enabled, delivered, call, ours, debt, userOff, fails, crashes>>

MoveLid ==
  /\ lid' \in LidState \ {lid}
  /\ UNCHANGED <<enabled, delivered, current, owned, call, ours, debt, userOff,
                 fails, crashes>>

\* The user (or a plug) switches an output off or on.
UserOff(o) ==
  /\ o \in enabled /\ enabled' = enabled \ {o} /\ userOff' = userOff \cup {o}
  /\ UNCHANGED <<lid, delivered, current, owned, call, ours, debt, fails, crashes>>

UserOn(o) ==
  /\ o \notin enabled /\ enabled' = enabled \cup {o} /\ userOff' = userOff \ {o}
  /\ UNCHANGED <<lid, delivered, current, owned, call, ours, debt, fails, crashes>>

\* The process ends anywhere and systemd starts a new one: the map is gone,
\* and the first callback reports the lid as it is.
Restart ==
  /\ crashes < MaxCrashes /\ crashes' = crashes + 1
  /\ delivered' = "none" /\ owned' = {} /\ ours' = {} /\ debt' = {}
  /\ pc' = "idle" /\ todo' = {} /\ done' = {} /\ failed' = FALSE
  /\ UNCHANGED <<lid, enabled, current, userOff, fails>>

Callback ==
  \/ LidClosed \/ QueryOutputs \/ Disabled \/ Claim
  \/ LidOpen \/ Restored \/ Unclaim
  \/ \E o \in Internal : DisableOne(o) \/ RestoreOne(o)

Next ==
  \/ Callback \/ SetAction \/ MoveLid \/ Restart
  \/ \E o \in Output : UserOff(o) \/ UserOn(o)

Spec == Init /\ [][Next]_vars

\* The monitor's goroutine runs the callback to its end.
FairSpec == Spec /\ WF_vars(Callback)

-----------------------------------------------------------------------------
(* Properties *)

\* Between callbacks every panel this process switched off, and has not
\* switched back on, is in the ownership map: across failed restores, action
\* swaps and closes that follow a close, no panel is forgotten dark.
NoPanelForgotten == pc = "idle" => debt \subseteq owned

\* Unless the last lid open met a swaymsg failure, the map is exactly that set:
\* a disable that failed is not claimed, a restore that succeeded is settled.
\* (After a failure restored panels stay in the map too.)
OwnershipExact == (pc = "idle" /\ ~failed) => owned = debt

\* A callback switches on only outputs that this process switched off before,
\* whatever was configured or failed in between (docs/invariants.md, display
\* invariant); an output it never touched stays as the user left it.
OnlyOursEnabled == [][Callback => enabled' \ enabled \subseteq ours]_vars

\* In one life of the daemon, with no failing swaymsg and no output the user
\* switched off, the panels are on once a lid open is handled: also when the
\* action changed while the lid was closed (docs/invariants.md:61-68).
PanelOnInOneLife ==
  (crashes = 0 /\ pc = "idle" /\ delivered = "open" /\ fails = 0 /\ userOff = {})
    => Internal \subseteq enabled

\* If the lid keeps being closed and opened, every panel this process switched off is
\* switched on again: a failed restore heals on a later open.
PanelsComeBack ==
  ([]<>(delivered = "open") /\ []<>(delivered = "closed")) => []<>(debt = {})

=============================================================================
