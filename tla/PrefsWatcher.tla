---------------------------- MODULE PrefsWatcher ----------------------------
(***************************************************************************)
(* internal/daemon/preferences_watcher.go over the file of Preferences: a  *)
(* poll that stats, loads, validates and swaps the handler's action, each  *)
(* in a step of its own, while GUIs save and users edit.                   *)
(***************************************************************************)
EXTENDS Preferences

VARIABLES
  current,  \* Handler.current
  pc,       \* watch(): waiting for its ticker, loading, applying, ended
  lastMod,  \* the mtime of the last load; 0 is Go's zero time
  loaded,   \* the action read, not applied yet
  stop,     \* stopCh is closed
  seen      \* history: actions the file has offered (a missing one: default)

watcher == <<current, pc, lastMod, loaded, stop>>
vars == <<prefVars, watcher, seen>>

\* One type invariant: in particular an invalid string never becomes current.
TypeOK ==
  /\ FileTypeOK
  /\ current \in Action /\ loaded \in Action
  /\ pc \in {"tick", "load", "apply", "done"}
  /\ lastMod \in 0..MaxWrites /\ stop \in BOOLEAN /\ seen \subseteq Action

\* NewPreferencesWatcher: the handler's default, then the stored action if it
\* loads and validates.
InitialAction == IF LoadFromPath \in Action THEN LoadFromPath ELSE Default

Init ==
  /\ FileInit
  /\ current = InitialAction /\ loaded = Default
  /\ pc = "tick" /\ lastMod = 0 /\ stop = FALSE
  /\ seen = {current}

\* Mutant: one load is taken for all.
BugNoChange == lastMod # 0

\* The poll skips an mtime it has loaded before.
NoChange == mtime[path] = lastMod

\* One tick: a missing file is skipped; an mtime other than the last one is
\* remembered before the load.
Stat ==
  /\ pc = "tick" /\ path # NoInode /\ ~NoChange
  /\ lastMod' = mtime[path] /\ pc' = "load"
  /\ UNCHANGED <<prefVars, current, loaded, stop, seen>>

\* Mutant: Validate is left to nobody.
BugNoValidate(a) == a # Error

\* action.Validate, the watcher's gate and SetAction's.
Valid(a) == a \in Action

Load ==
  /\ pc = "load"
  /\ IF Valid(LoadFromPath)
     THEN loaded' = LoadFromPath /\ pc' = "apply"
     ELSE UNCHANGED loaded /\ pc' = "tick"
  /\ UNCHANGED <<prefVars, current, lastMod, stop, seen>>

SetAction ==
  /\ pc = "apply" /\ current' = loaded /\ pc' = "tick"
  /\ UNCHANGED <<prefVars, lastMod, loaded, stop, seen>>

WatchStops ==
  /\ pc = "tick" /\ stop /\ pc' = "done"
  /\ UNCHANGED <<prefVars, current, lastMod, loaded, stop, seen>>

StopStart ==
  /\ ~stop /\ stop' = TRUE
  /\ UNCHANGED <<prefVars, current, pc, lastMod, loaded, seen>>

\* The file changes; what it offers now goes on record.
FileChanges ==
  /\ Files /\ UNCHANGED watcher
  /\ seen' = seen \cup ({Stored'} \cap Action)

\* After a power loss the daemon starts anew: NewPreferencesWatcher.
Reboot ==
  /\ PowerLoss
  /\ current' = InitialAction' /\ loaded' = Default
  /\ pc' = "tick" /\ lastMod' = 0 /\ stop' = FALSE /\ seen' = {current'}

\* Nothing is left to write and the watcher has ended or sees no change.
Quiescent ==
  /\ writes = MaxWrites /\ (pc = "done" \/ (pc = "tick" /\ stop))
  /\ UNCHANGED vars

Watch == Stat \/ Load \/ SetAction \/ WatchStops

Next == Watch \/ StopStart \/ FileChanges \/ Reboot \/ Quiescent

Spec == Init /\ [][Next]_vars

\* The ticker fires and the watcher runs; writers and users owe nothing.
FairSpec == Spec /\ WF_vars(Stat \/ Load \/ SetAction)

-----------------------------------------------------------------------------
(* Properties *)

\* The running action is the one the daemon started with or one the file has
\* offered since, where a file missing at the load offers the default: no
\* torn, unreadable or invalid content ever replaces the last-good action
\* (docs/invariants.md, preference invariant).
LastGoodKept == current \in seen

Torn == path # NoInode /\ data[path] = "torn"

\* Whatever GUIs save or die in the middle of it, the file at the final path
\* becomes incomplete only by a user's hand, by a temporary file that two
\* saves under way at once have written, or by a power loss after the fsync
\* of its save has failed: the promise of preferences.go:75-77 with the two
\* exceptions that its code makes.
CompleteFile ==
  [][~Torn /\ Torn' =>
       UserWrites \/ path' \in shared \/ (PowerLoss /\ path \in unflushed)]_vars

Settled == path # NoInode /\ readable /\ data[path] \in Action /\ ~stop

\* If the file stays put with a valid action the daemon comes to run it, no
\* matter what was in between: for files that were readable whenever their
\* mtime was recorded, and mtimes that differ whenever the content does (a
\* write that does not move the clock makes writes outrun it).
EventuallyApplied ==
  \A a \in Action :
    ([](readable /\ clock = writes) /\ <>[](Settled /\ data[path] = a))
      => <>[](current = a)

=============================================================================
