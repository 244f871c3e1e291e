---------------------------- MODULE Preferences ----------------------------
(***************************************************************************)
(* internal/preferences/preferences.go: Save, as the system calls it makes *)
(* on the temporary and the final path, and LoadFromPath.  Paths name      *)
(* inodes, so a writer that opened a file keeps writing into it after a    *)
(* rename, as on a real file system.                                       *)
(*                                                                         *)
(* A module of state and operations; PrefsWatcher adds the reader.         *)
(***************************************************************************)
EXTENDS Integers, FiniteSets

CONSTANTS
  Writer,       \* GUI processes that save
  Inode, NoInode,
  UserEdits,    \* contents a user may put into the file by hand
  Chmods,       \* whether the file's permissions may change
  CoarseClock,  \* whether two writes may get the same mtime
  MaxWrites     \* bound of the model: writes to any inode

Action == {"lock", "sleep", "nothing"}
Default == "lock"

\* What a file holds: a valid action, JSON with another string, or a prefix
\* of JSON (also what a fresh or truncated file holds).
Content == Action \cup {"bogus", "torn"}

ASSUME PreferencesAssumption ==
  /\ Inode # {} /\ NoInode \notin Inode /\ UserEdits \subseteq Content
  /\ Chmods \in BOOLEAN /\ CoarseClock \in BOOLEAN /\ MaxWrites \in Nat \ {0}

VARIABLES
  path,      \* inode of preferences.json, or NoInode
  tmp,       \* inode of preferences.json.tmp, or NoInode
  data,      \* what each inode holds
  mtime,     \* when each inode was last written
  readable,  \* the daemon may open preferences.json
  synced,    \* inodes whose content has reached the disk
  shared,    \* history: inodes that saves under way at once may both write
  unflushed, \* history: inodes whose best-effort fsync failed
  clock, writes,
  wpc, wfd, want  \* each writer: where Save is, its open file, the action

history == <<shared, unflushed>>
file == <<path, tmp, data, mtime, readable, synced, history, clock, writes>>
writers == <<wpc, wfd, want>>
prefVars == <<file, writers>>

FileTypeOK ==
  /\ path \in Inode \cup {NoInode} /\ tmp \in Inode \cup {NoInode}
  /\ data \in [Inode -> Content] /\ mtime \in [Inode -> 0..MaxWrites]
  /\ readable \in BOOLEAN /\ synced \subseteq Inode
  /\ shared \subseteq Inode /\ unflushed \subseteq Inode
  /\ clock \in 0..MaxWrites /\ writes \in 0..MaxWrites
  /\ wpc \in [Writer -> {"idle", "write", "sync", "rename"}]
  /\ wfd \in [Writer -> Inode \cup {NoInode}] /\ want \in [Writer -> Action]

FileInit ==
  /\ path \in {NoInode} \cup {CHOOSE i \in Inode : TRUE} /\ tmp = NoInode
  /\ \E c \in Action \cup UserEdits : data = [i \in Inode |-> c]
  /\ mtime = [i \in Inode |-> 1] /\ clock = 1 /\ writes = 1
  /\ readable \in {TRUE, ~Chmods}
  /\ synced = Inode /\ shared = {} /\ unflushed = {}
  /\ wpc = [w \in Writer |-> "idle"] /\ wfd = [w \in Writer |-> NoInode]
  /\ want = [w \in Writer |-> Default]

-----------------------------------------------------------------------------
(* Save *)

\* Write c into inode i: the clock has moved since the last write, or not.
Put(i, c) ==
  /\ writes < MaxWrites /\ writes' = writes + 1
  /\ clock' \in {clock + 1} \cup (IF CoarseClock THEN {clock} ELSE {})
  /\ data' = [data EXCEPT ![i] = c]
  /\ mtime' = [mtime EXCEPT ![i] = clock']

Free == Inode \ ({path, tmp} \cup {wfd[w] : w \in Writer})

\* Mutant: Save writes the final path in place.
BugSaveInPlace == path

\* The inode os.WriteFile truncates, if its path exists.
SaveTarget == tmp

\* Another save is under way.
Overlaps(w) == \E v \in Writer \ {w} : wpc[v] # "idle"

\* os.WriteFile opens (O_CREATE, O_TRUNC) the temporary path, the same one
\* for every GUI ...
SaveOpen(w, a) ==
  /\ wpc[w] = "idle" /\ wpc' = [wpc EXCEPT ![w] = "write"]
  /\ want' = [want EXCEPT ![w] = a]
  /\ \E i \in IF SaveTarget = NoInode THEN Free ELSE {SaveTarget} :
       /\ Put(i, "torn")
       /\ wfd' = [wfd EXCEPT ![w] = i]
       /\ tmp' = IF i = path THEN tmp ELSE i
       /\ synced' = synced \ {i} /\ unflushed' = unflushed \ {i}
       /\ shared' = IF Overlaps(w) THEN shared \cup {i} ELSE shared \ {i}
  /\ UNCHANGED <<path, readable>>

\* ... and writes the whole content into what it opened.
SaveWrite(w) ==
  /\ wpc[w] = "write" /\ wpc' = [wpc EXCEPT ![w] = "sync"]
  /\ Put(wfd[w], want[w]) /\ synced' = synced \ {wfd[w]}
  /\ wfd' = [wfd EXCEPT ![w] = NoInode] /\ want' = [want EXCEPT ![w] = Default]
  /\ UNCHANGED <<path, tmp, readable, history>>

\* Mutant: the rename follows the write at once.
BugNoSync == {}

\* What the fsync of the temporary path brings to the disk.
Flushed == {tmp} \ {NoInode}

\* The fsync, which opens the temporary path again.  It is best effort: when
\* the open or the fsync fails, Save goes on to the rename all the same.
SaveSync(w) ==
  /\ wpc[w] = "sync" /\ wpc' = [wpc EXCEPT ![w] = "rename"]
  /\ \/ synced' = synced \cup Flushed /\ unflushed' = unflushed \ {tmp}
     \/ unflushed' = unflushed \cup ({tmp} \ {NoInode}) /\ UNCHANGED synced
  /\ UNCHANGED <<path, tmp, data, mtime, readable, shared, clock, writes, wfd, want>>

\* os.Rename fails if the temporary path is gone.
SaveRename(w) ==
  /\ wpc[w] = "rename" /\ wpc' = [wpc EXCEPT ![w] = "idle"]
  /\ IF tmp = NoInode
     THEN UNCHANGED <<path, tmp, readable>>
     ELSE path' = tmp /\ tmp' = NoInode /\ readable' = TRUE
  /\ UNCHANGED <<data, mtime, synced, history, clock, writes, wfd, want>>

\* The GUI dies in the middle of Save, or a write fails and Save returns.
WriterCrash(w) ==
  /\ wpc[w] # "idle" /\ wpc' = [wpc EXCEPT ![w] = "idle"]
  /\ wfd' = [wfd EXCEPT ![w] = NoInode] /\ want' = [want EXCEPT ![w] = Default]
  /\ UNCHANGED file

\* A tap on a lid button saves its action: the GUI's Load before it degrades
\* to the defaults and never stops it.
setAction(w) == \E a \in Action : SaveOpen(w, a)

Save(w) == setAction(w) \/ SaveWrite(w) \/ SaveSync(w) \/ SaveRename(w)

\* The machine loses power: what was not synced may be cut short, and no
\* process survives.
PowerLoss ==
  /\ \E torn \in SUBSET (Inode \ synced) :
       data' = [i \in Inode |-> IF i \in torn THEN "torn" ELSE data[i]]
  /\ synced' = Inode /\ shared' = {} /\ unflushed' = {}
  /\ wpc' = [w \in Writer |-> "idle"] /\ wfd' = [w \in Writer |-> NoInode]
  /\ want' = [w \in Writer |-> Default]
  /\ UNCHANGED <<path, tmp, mtime, readable, clock, writes>>

-----------------------------------------------------------------------------
(* The user's hands *)

\* An editor syncs what it writes.
UserWrites ==
  /\ path # NoInode /\ \E c \in UserEdits : Put(path, c)
  /\ synced' = synced \cup {path} /\ unflushed' = unflushed \ {path}
  /\ UNCHANGED <<path, tmp, readable, shared, writers>>

\* A user who edits by hand may also delete.
UserDeletes ==
  /\ path # NoInode /\ UserEdits # {} /\ path' = NoInode
  /\ UNCHANGED <<tmp, data, mtime, readable, synced, history, clock, writes, writers>>

\* Permissions change without the mtime.
Chmod ==
  /\ Chmods /\ path # NoInode /\ readable' = ~readable
  /\ UNCHANGED <<path, tmp, data, mtime, synced, history, clock, writes, writers>>

Files ==
  \/ UserWrites \/ UserDeletes \/ Chmod
  \/ \E w \in Writer : Save(w) \/ WriterCrash(w)

-----------------------------------------------------------------------------
(* LoadFromPath *)

Error == "error"

\* Mutant: the GUI's Load in its place, which degrades to the defaults.
BugLoadDegrades ==
  IF path = NoInode \/ ~readable \/ data[path] = "torn" THEN Default ELSE data[path]

\* A missing file is the default; an unreadable or unparseable one an error;
\* any string that parses is returned, valid or not.
LoadFromPath ==
  IF path = NoInode THEN Default
  ELSE IF ~readable \/ data[path] = "torn" THEN Error
  ELSE data[path]

\* What the file says to someone who could read it.
Stored == IF path = NoInode THEN Default ELSE data[path]

=============================================================================
