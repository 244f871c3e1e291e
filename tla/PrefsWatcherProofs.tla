------------------------- MODULE PrefsWatcherProofs -------------------------
(***************************************************************************)
(* Proofs about PrefsWatcher for every number of writers, inodes, edits    *)
(* and power losses: nothing but what the file offered ever takes effect.  *)
(***************************************************************************)
EXTENDS PrefsWatcher, TLAPS

\* The daemon can read the file, or sees that there is none.
Legible == readable \/ path = NoInode

\* The action in force, the one loaded and the one the file would yield now
\* are all on record.
Offered ==
  /\ current \in seen
  /\ pc = "apply" => loaded \in seen
  /\ Legible /\ Stored \in Action => Stored \in seen

\* A load that passes the gate yields what the file says.
LEMMA ValidIsStored ==
  ASSUME Valid(LoadFromPath)
  PROVE  LoadFromPath = Stored /\ Stored \in Action /\ Legible
BY DEF Legible, Valid, LoadFromPath, Stored, Action, Error, Default

\* What the watcher's constructor starts with is what the file says, unless it
\* cannot be read or is no action.
LEMMA InitialIsStored ==
  Legible /\ Stored \in Action => InitialAction = Stored
BY DEF Legible, InitialAction, LoadFromPath, Stored, Action, Default, Error

LEMMA InitOffered == Init => Offered
BY InitialIsStored DEF Init, Offered

LEMMA StepOffered == Offered /\ [Next]_vars => Offered'
<1> SUFFICES ASSUME Offered, [Next]_vars PROVE Offered'
  OBVIOUS
<1> USE DEF Offered
<1>1. ASSUME UNCHANGED prefVars PROVE  Stored' = Stored /\ Legible' = Legible
  BY <1>1 DEF prefVars, file, Stored, Legible
<1>2. CASE Stat
  BY <1>1, <1>2 DEF Stat
<1>3. CASE Load
  BY <1>1, <1>3, ValidIsStored DEF Load
<1>4. CASE SetAction
  BY <1>1, <1>4 DEF SetAction
<1>5. CASE WatchStops
  BY <1>1, <1>5 DEF WatchStops
<1>6. CASE StopStart
  BY <1>1, <1>6 DEF StopStart
<1>7. CASE FileChanges
  BY <1>7 DEF FileChanges, watcher
<1>8. CASE Reboot
  <2>1. Legible' /\ Stored' \in Action => InitialAction' = Stored'
    BY DEF Legible, InitialAction, LoadFromPath, Stored, Action, Default, Error
  <2> QED
    BY <1>8, <2>1 DEF Reboot
<1>9. CASE UNCHANGED vars
  BY <1>1, <1>9 DEF vars, watcher
<1> QED
  BY <1>2, <1>3, <1>4, <1>5, <1>6, <1>7, <1>8, <1>9 DEF Next, Watch, Quiescent

\* The running action is the one the daemon started with or one the file has
\* offered since.
THEOREM OnlyOfferedActions == Spec => []LastGoodKept
<1>1. Spec => []Offered
  BY InitOffered, StepOffered, PTL DEF Spec
<1>2. Offered => LastGoodKept
  BY DEF Offered, LastGoodKept
<1> QED
  BY <1>1, <1>2, PTL

-----------------------------------------------------------------------------
(* The type invariant *)

InodesTyped ==
  /\ path \in Inode \cup {NoInode} /\ tmp \in Inode \cup {NoInode}
  /\ synced \subseteq Inode /\ wfd \in [Writer -> Inode \cup {NoInode}]
  /\ shared \subseteq Inode /\ unflushed \subseteq Inode

DataTyped == data \in [Inode -> Content]

\* The clock never outruns the writes.
ClockTyped ==
  /\ mtime \in [Inode -> 0..MaxWrites]
  /\ writes \in 0..MaxWrites /\ clock \in Nat /\ clock <= writes

WritersTyped ==
  /\ wpc \in [Writer -> {"idle", "write", "sync", "rename"}]
  /\ want \in [Writer -> Action]

FlagsTyped == readable \in BOOLEAN /\ stop \in BOOLEAN

WatcherTyped ==
  /\ current \in Action /\ loaded \in Action /\ seen \subseteq Action
  /\ pc \in {"tick", "load", "apply", "done"} /\ lastMod \in 0..MaxWrites

Typed ==
  /\ InodesTyped /\ DataTyped /\ ClockTyped /\ WritersTyped /\ FlagsTyped
  /\ WatcherTyped

LEMMA TypedImpliesTypeOK == Typed => TypeOK
BY PreferencesAssumption DEF Typed, InodesTyped, DataTyped, ClockTyped, WritersTyped,
   FlagsTyped, WatcherTyped, TypeOK, FileTypeOK

LEMMA InitialTyped == InitialAction \in Action
BY DEF InitialAction, Action, Default

LEMMA InitTyped == Init => Typed
<1> SUFFICES ASSUME Init PROVE Typed
  OBVIOUS
<1> USE PreferencesAssumption DEF Init, FileInit
<1>1. InodesTyped
  <2>1. (CHOOSE i \in Inode : TRUE) \in Inode
    OBVIOUS
  <2> QED
    BY <2>1 DEF InodesTyped
<1>2. DataTyped
  BY DEF DataTyped, Content
<1>3. ClockTyped
  BY DEF ClockTyped
<1>4. WritersTyped
  BY DEF WritersTyped, Action, Default
<1>5. FlagsTyped
  <2>1. (~Chmods) \in BOOLEAN
    OBVIOUS
  <2>2. readable = TRUE \/ readable = (~Chmods)
    OBVIOUS
  <2>3. stop = FALSE
    OBVIOUS
  <2> QED
    BY <2>1, <2>2, <2>3 DEF FlagsTyped
<1>6. WatcherTyped
  BY InitialTyped DEF WatcherTyped, Action, Default
<1> QED
  BY <1>1, <1>2, <1>3, <1>4, <1>5, <1>6 DEF Typed

\* A write keeps contents and times in their types.
LEMMA PutTyped ==
  ASSUME Typed, NEW i, NEW c \in Content, Put(i, c)
  PROVE  DataTyped' /\ ClockTyped'
<1>1. data' \in [Inode -> Content]
  BY DEF Put, Typed, DataTyped
<1>2. clock' \in Nat /\ clock' <= writes' /\ writes' \in 0..MaxWrites
  BY PreferencesAssumption DEF Put, Typed, ClockTyped
<1>3. mtime' \in [Inode -> 0..MaxWrites]
  <2>1. clock' \in 0..MaxWrites
    BY <1>2, PreferencesAssumption
  <2>2. mtime \in [Inode -> 0..MaxWrites] /\ mtime' = [mtime EXCEPT ![i] = clock']
    BY DEF Put, Typed, ClockTyped
  <2> QED
    BY <2>1, <2>2
<1> QED
  BY <1>1, <1>2, <1>3 DEF DataTyped, ClockTyped

LEMMA FilesTyped ==
  ASSUME Typed, Files
  PROVE  InodesTyped' /\ DataTyped' /\ ClockTyped' /\ WritersTyped' /\ readable' \in BOOLEAN
<1> USE PreferencesAssumption DEF Typed
<1>1. ASSUME NEW w \in Writer, setAction(w)
      PROVE  InodesTyped' /\ DataTyped' /\ ClockTyped' /\ WritersTyped' /\ readable' = readable
  <2>1. PICK a \in Action : SaveOpen(w, a)
    BY <1>1 DEF setAction
  <2>2. PICK i \in Inode :
          /\ Put(i, "torn") /\ wfd' = [wfd EXCEPT ![w] = i]
          /\ tmp' = (IF i = path THEN tmp ELSE i) /\ synced' = synced \ {i}
          /\ unflushed' = unflushed \ {i}
          /\ shared' = (IF Overlaps(w) THEN shared \cup {i} ELSE shared \ {i})
    BY <2>1 DEF SaveOpen, Free, SaveTarget, InodesTyped
  <2>3. InodesTyped'
    BY <2>1, <2>2 DEF InodesTyped, SaveOpen
  <2>4. WritersTyped' /\ readable' = readable
    BY <2>1 DEF WritersTyped, SaveOpen
  <2> QED
    BY <2>2, <2>3, <2>4, PutTyped DEF Content
<1>2. ASSUME NEW w \in Writer, SaveWrite(w)
      PROVE  InodesTyped' /\ DataTyped' /\ ClockTyped' /\ WritersTyped' /\ readable' = readable
  <2>1. InodesTyped' /\ WritersTyped' /\ readable' = readable
    BY <1>2 DEF SaveWrite, history, InodesTyped, WritersTyped, Action, Default
  <2>2. want[w] \in Content
    BY DEF WritersTyped, Content
  <2> QED
    BY <1>2, <2>1, <2>2, PutTyped DEF SaveWrite
<1>3. ASSUME NEW w \in Writer, SaveSync(w) \/ SaveRename(w) \/ WriterCrash(w)
      PROVE  InodesTyped' /\ DataTyped' /\ ClockTyped' /\ WritersTyped'
  <2>1. UNCHANGED <<data, mtime, clock, writes>>
    BY <1>3 DEF SaveSync, SaveRename, WriterCrash, file
  <2>2. InodesTyped'
    BY <1>3 DEF SaveSync, SaveRename, WriterCrash, Flushed, file, history, InodesTyped
  <2>3. WritersTyped'
    BY <1>3 DEF SaveSync, SaveRename, WriterCrash, WritersTyped, Action, Default
  <2> QED
    BY <2>1, <2>2, <2>3 DEF DataTyped, ClockTyped
<1>4. ASSUME NEW w \in Writer, SaveSync(w) \/ SaveRename(w) \/ WriterCrash(w)
      PROVE  readable' \in BOOLEAN
  BY <1>4 DEF SaveSync, SaveRename, WriterCrash, file, FlagsTyped
<1>5. ASSUME UserWrites
      PROVE  InodesTyped' /\ DataTyped' /\ ClockTyped' /\ WritersTyped' /\ readable' = readable
  <2>1. PICK c \in UserEdits : Put(path, c)
    BY <1>5 DEF UserWrites
  <2>2. InodesTyped' /\ WritersTyped' /\ readable' = readable
    BY <1>5 DEF UserWrites, writers, history, InodesTyped, WritersTyped
  <2> QED
    BY <2>1, <2>2, PutTyped
<1>6. ASSUME UserDeletes \/ Chmod
      PROVE  InodesTyped' /\ DataTyped' /\ ClockTyped' /\ WritersTyped'
  <2>1. /\ UNCHANGED <<tmp, data, mtime, synced, shared, unflushed, clock, writes,
                      wpc, wfd, want>>
        /\ path' \in {path, NoInode}
    BY <1>6 DEF UserDeletes, Chmod, writers, history
  <2> QED
    BY <2>1 DEF InodesTyped, DataTyped, ClockTyped, WritersTyped
<1>7. ASSUME UserDeletes \/ Chmod PROVE readable' \in BOOLEAN
  BY <1>7 DEF UserDeletes, Chmod, FlagsTyped
<1> QED
  BY <1>1, <1>2, <1>3, <1>4, <1>5, <1>6, <1>7 DEF Files, Save, FlagsTyped

LEMMA PowerLossTyped ==
  ASSUME Typed, PowerLoss
  PROVE  InodesTyped' /\ DataTyped' /\ ClockTyped' /\ WritersTyped' /\ readable' = readable
<1> USE DEF Typed
<1>1. DataTyped'
  BY DEF PowerLoss, DataTyped, Content
<1>2. InodesTyped'
  BY DEF PowerLoss, InodesTyped
<1>3. ClockTyped' /\ WritersTyped' /\ readable' = readable
  BY DEF PowerLoss, ClockTyped, WritersTyped, Action, Default
<1> QED
  BY <1>1, <1>2, <1>3

LEMMA StepTyped == Typed /\ [Next]_vars => Typed'
<1> SUFFICES ASSUME Typed, [Next]_vars PROVE Typed'
  OBVIOUS
<1>1. CASE FileChanges
  <2>1. WatcherTyped' /\ stop' = stop
    BY <1>1 DEF FileChanges, watcher, Typed, WatcherTyped
  <2> QED
    BY <1>1, <2>1, FilesTyped DEF FileChanges, Typed, FlagsTyped
<1>2. CASE Reboot
  <2>1. current' \in Action
    BY <1>2 DEF Reboot, InitialAction, Action, Default
  <2>2. WatcherTyped' /\ stop' = FALSE
    BY <1>2, <2>1, PreferencesAssumption DEF Reboot, WatcherTyped, Action, Default
  <2> QED
    BY <1>2, <2>2, PowerLossTyped DEF Reboot, Typed, FlagsTyped
<1>3. ASSUME UNCHANGED prefVars
      PROVE  InodesTyped' /\ DataTyped' /\ ClockTyped' /\ WritersTyped' /\ readable' = readable
  BY <1>3 DEF prefVars, file, history, writers, Typed, InodesTyped, DataTyped, ClockTyped,
     WritersTyped
<1>4. CASE Stat
  <2>1. mtime[path] \in 0..MaxWrites
    BY <1>4 DEF Stat, Typed, InodesTyped, ClockTyped
  <2>2. WatcherTyped' /\ stop' = stop
    BY <1>4, <2>1 DEF Stat, Typed, WatcherTyped
  <2> QED
    BY <1>3, <1>4, <2>2 DEF Stat, Typed, FlagsTyped
<1>5. CASE Load
  <2>1. WatcherTyped' /\ stop' = stop
    BY <1>5 DEF Load, Valid, Typed, WatcherTyped
  <2> QED
    BY <1>3, <1>5, <2>1 DEF Load, Typed, FlagsTyped
<1>6. CASE SetAction \/ WatchStops \/ Quiescent \/ UNCHANGED vars
  <2>1. WatcherTyped' /\ stop' = stop /\ UNCHANGED prefVars
    BY <1>6 DEF SetAction, WatchStops, Quiescent, vars, watcher, Typed, WatcherTyped
  <2> QED
    BY <1>3, <2>1 DEF Typed, FlagsTyped
<1>7. CASE StopStart
  <2>1. WatcherTyped' /\ stop' = TRUE /\ UNCHANGED prefVars
    BY <1>7 DEF StopStart, Typed, WatcherTyped
  <2> QED
    BY <1>3, <2>1 DEF Typed, FlagsTyped
<1> QED
  BY <1>1, <1>2, <1>4, <1>5, <1>6, <1>7 DEF Next, Watch

LEMMA InvariantTyped == Spec => []Typed
BY InitTyped, StepTyped, PTL DEF Spec

\* Every variable stays in its type; in particular no invalid string is ever
\* loaded for, or becomes, the running action.
THEOREM WatcherTypeCorrect == Spec => []TypeOK
BY InvariantTyped, TypedImpliesTypeOK, PTL

-----------------------------------------------------------------------------
(* What GUIs save is complete *)

Busy(w) == wpc[w] # "idle"

\* Saves go beside the final path, and a descriptor into it is left only by
\* saves that overlapped.
Beside ==
  /\ tmp # NoInode => tmp # path
  /\ \A w \in Writer :
       /\ wfd[w] # NoInode => wpc[w] = "write"
       /\ wfd[w] = path /\ path # NoInode => path \in shared

\* A temporary file of one save alone: nobody else is saving, and what that
\* save renames is complete, and flushed unless the fsync failed.
SavedAlone ==
  tmp # NoInode /\ tmp \notin shared =>
    /\ \A v, w \in Writer : Busy(v) /\ Busy(w) => v = w
    /\ \A w \in Writer :
         /\ wpc[w] = "write" => wfd[w] = tmp
         /\ wpc[w] \in {"sync", "rename"} => data[tmp] # "torn"
         /\ wpc[w] = "rename" => tmp \in synced \cup unflushed

\* What the final path names is on the disk, but for the two exceptions.
Durable == path # NoInode /\ path \notin shared \cup unflushed => path \in synced

SavedAside == Beside /\ SavedAlone /\ Durable

\* Where an incomplete file may come from.
TornOnlyBy ==
  ~Torn /\ Torn' =>
    UserWrites \/ path' \in shared \/ (PowerLoss /\ path \in unflushed)

\* A step of the watcher leaves the files and their writers alone.
LEMMA WatcherLeavesFiles ==
  ASSUME Stat \/ Load \/ SetAction \/ WatchStops \/ StopStart \/ Quiescent \/ UNCHANGED vars
  PROVE  UNCHANGED prefVars
BY DEF Stat, Load, SetAction, WatchStops, StopStart, Quiescent, vars

\* Where a save puts its bytes.
LEMMA SaveOpensAside ==
  ASSUME Typed, SavedAside, NEW w \in Writer, setAction(w)
  PROVE  \E i \in Inode :
           /\ i # path /\ tmp' = i /\ wfd' = [wfd EXCEPT ![w] = i]
           /\ data' = [data EXCEPT ![i] = "torn"] /\ synced' = synced \ {i}
           /\ unflushed' = unflushed \ {i}
           /\ shared' = (IF Overlaps(w) THEN shared \cup {i} ELSE shared \ {i})
           /\ path' = path /\ wpc' = [wpc EXCEPT ![w] = "write"]
<1>1. PICK a \in Action : SaveOpen(w, a)
  BY DEF setAction
<1>2. PICK i \in (IF SaveTarget = NoInode THEN Free ELSE {SaveTarget}) :
        /\ Put(i, "torn") /\ wfd' = [wfd EXCEPT ![w] = i]
        /\ tmp' = (IF i = path THEN tmp ELSE i) /\ synced' = synced \ {i}
        /\ unflushed' = unflushed \ {i}
        /\ shared' = (IF Overlaps(w) THEN shared \cup {i} ELSE shared \ {i})
  BY <1>1 DEF SaveOpen
<1>3. i \in Inode /\ i # path
  BY <1>2, PreferencesAssumption
     DEF SaveTarget, Free, Typed, InodesTyped, SavedAside, Beside
<1> QED
  BY <1>1, <1>2, <1>3 DEF SaveOpen, Put

LEMMA StepSavedAside ==
  ASSUME Typed, SavedAside, [Next]_vars
  PROVE  SavedAside' /\ TornOnlyBy
<1>0. /\ path \in Inode \cup {NoInode} /\ tmp \in Inode \cup {NoInode}
      /\ NoInode \notin Inode /\ synced \subseteq Inode
      /\ shared \subseteq Inode /\ unflushed \subseteq Inode
      /\ wpc \in [Writer -> {"idle", "write", "sync", "rename"}]
      /\ wfd \in [Writer -> Inode \cup {NoInode}] /\ want \in [Writer -> Action]
      /\ data \in [Inode -> Content]
  BY PreferencesAssumption DEF Typed, InodesTyped, DataTyped, WritersTyped
<1> USE <1>0 DEF SavedAside, Beside, SavedAlone, Durable, Busy, Torn, TornOnlyBy
<1>1. CASE UNCHANGED prefVars
  BY <1>1 DEF prefVars, file, history, writers
<1>2. ASSUME NEW w \in Writer, setAction(w)
      PROVE  SavedAside' /\ TornOnlyBy
  <2>1. PICK i \in Inode :
          /\ i # path /\ tmp' = i /\ wfd' = [wfd EXCEPT ![w] = i]
          /\ data' = [data EXCEPT ![i] = "torn"] /\ synced' = synced \ {i}
          /\ unflushed' = unflushed \ {i}
          /\ shared' = (IF Overlaps(w) THEN shared \cup {i} ELSE shared \ {i})
          /\ path' = path /\ wpc' = [wpc EXCEPT ![w] = "write"]
    BY <1>2, SaveOpensAside
  <2>2. Beside' /\ Durable' /\ TornOnlyBy
    BY <2>1
  <2>3. SavedAlone'
    BY <2>1 DEF Overlaps
  <2> QED
    BY <2>2, <2>3
<1>3. ASSUME NEW w \in Writer, SaveWrite(w)
      PROVE  SavedAside' /\ TornOnlyBy
  <2>1. /\ want[w] # "torn" /\ wpc[w] = "write"
        /\ data' = [data EXCEPT ![wfd[w]] = want[w]] /\ synced' = synced \ {wfd[w]}
        /\ wpc' = [wpc EXCEPT ![w] = "sync"] /\ wfd' = [wfd EXCEPT ![w] = NoInode]
        /\ UNCHANGED <<path, tmp, shared, unflushed>>
    BY <1>3 DEF SaveWrite, Put, Action, history
  <2> QED
    BY <2>1
<1>4. ASSUME NEW w \in Writer, SaveSync(w)
      PROVE  SavedAside' /\ TornOnlyBy
  BY <1>4 DEF SaveSync, Flushed
<1>5. ASSUME NEW w \in Writer, SaveRename(w)
      PROVE  SavedAside' /\ TornOnlyBy
  BY <1>5 DEF SaveRename, history
<1>6. ASSUME NEW w \in Writer, WriterCrash(w)
      PROVE  SavedAside' /\ TornOnlyBy
  BY <1>6 DEF WriterCrash, file, history
<1>7. CASE UserWrites
  BY <1>7 DEF UserWrites, Put, writers
<1>8. CASE UserDeletes \/ Chmod
  BY <1>8 DEF UserDeletes, Chmod, writers, history
<1>9. CASE PowerLoss
  <2>1. PICK torn \in SUBSET (Inode \ synced) :
          data' = [i \in Inode |-> IF i \in torn THEN "torn" ELSE data[i]]
    BY <1>9 DEF PowerLoss
  <2>2. /\ synced' = Inode /\ wpc' = [w \in Writer |-> "idle"]
        /\ wfd' = [w \in Writer |-> NoInode]
        /\ UNCHANGED <<path, tmp>>
    BY <1>9 DEF PowerLoss
  <2>3. path \in synced => data'[path] = data[path]
    BY <2>1
  <2>4. SavedAside'
    BY <2>2
  <2> QED
    BY <1>9, <2>2, <2>3, <2>4
<1>10. CASE Files
  BY <1>2, <1>3, <1>4, <1>5, <1>6, <1>7, <1>8, <1>10 DEF Files, Save
<1> QED
  BY <1>1, <1>9, <1>10, WatcherLeavesFiles DEF Next, Watch, FileChanges, Reboot

\* However many GUIs save, die and fail to fsync: an incomplete file at the
\* final path is a user's, or two overlapping saves have written it, or a
\* power loss has followed a failed fsync.
THEOREM SavesAreComplete == Spec => CompleteFile
<1>1. Init => SavedAside
  BY PreferencesAssumption
     DEF Init, FileInit, SavedAside, Beside, SavedAlone, Durable, Busy
<1>2. Typed /\ SavedAside /\ [Next]_vars => SavedAside'
  BY StepSavedAside
<1>3. Typed /\ SavedAside /\ [Next]_vars =>
        [~Torn /\ Torn' =>
           UserWrites \/ path' \in shared \/ (PowerLoss /\ path \in unflushed)]_vars
  BY StepSavedAside DEF TornOnlyBy
<1> QED
  BY <1>1, <1>2, <1>3, InvariantTyped, PTL DEF Spec, CompleteFile

-----------------------------------------------------------------------------
(* A skipped poll misses nothing *)

\* Every write has a time of its own: only inodes never written share one.
TimesDiffer ==
  /\ \A i \in Inode : mtime[i] >= 1 /\ mtime[i] <= clock
  /\ \A i, j \in Inode : i # j /\ mtime[i] = mtime[j] => mtime[i] = 1

\* The file that a rename is about to install is newer than all the watcher
\* has loaded or can load before it.
NewsAhead ==
  /\ lastMod <= clock
  /\ tmp # NoInode => tmp # path /\ mtime[tmp] >= 2 /\ mtime[tmp] # lastMod

\* The file is the one of the last load, and holds an action.
Seen == path # NoInode /\ NoChange /\ data[path] \in Action

LoadKept ==
  Seen => /\ pc \in {"tick", "done"} => current = data[path]
          /\ pc = "apply" => loaded = data[path]

Fresh == readable /\ TimesDiffer /\ NewsAhead /\ LoadKept

\* The poll that skips a file with an action runs that action already.
NoChangeMeansCurrent == pc = "tick" /\ Seen => current = data[path]

\* A write gets a time later than any so far.
LEMMA PutFresh ==
  ASSUME Typed, Fresh, CoarseClock = FALSE, NEW i \in Inode \cup {NoInode}, NEW c,
         Put(i, c), UNCHANGED <<watcher, path, readable>>,
         tmp' = tmp \/ (i \in Inode /\ i # path /\ tmp' = i)
  PROVE  Fresh'
<1> USE DEF Fresh
<1>1. /\ mtime \in [Inode -> 0..MaxWrites] /\ clock \in Nat /\ lastMod \in Int
      /\ path \in Inode \cup {NoInode} /\ tmp \in Inode \cup {NoInode} /\ NoInode \notin Inode
      /\ data \in [Inode -> Content]
  BY PreferencesAssumption DEF Typed, ClockTyped, InodesTyped, DataTyped, WatcherTyped
<1>2. clock' = clock + 1 /\ mtime' = [mtime EXCEPT ![i] = clock + 1]
      /\ data' = [data EXCEPT ![i] = c]
  BY DEF Put
<1>3. /\ \A j \in Inode : mtime[j] \in Int /\ (j # i => mtime'[j] = mtime[j] /\ data'[j] = data[j])
      /\ i \in Inode => mtime'[i] = clock + 1
  BY <1>1, <1>2
<1>4. TimesDiffer'
  BY <1>1, <1>2, <1>3 DEF TimesDiffer
<1>5. UNCHANGED <<current, pc, lastMod, loaded, path, readable>>
  BY DEF watcher
<1>6. NewsAhead'
  BY <1>1, <1>2, <1>3, <1>5 DEF NewsAhead, TimesDiffer
<1>7. LoadKept'
  <2>1. CASE i = path
    BY <1>1, <1>3, <1>5, <2>1 DEF LoadKept, Seen, NoChange, NewsAhead
  <2>2. CASE i # path
    <3>1. Seen' => Seen /\ data'[path] = data[path]
      BY <1>1, <1>3, <1>5, <2>2 DEF Seen, NoChange
    <3> QED
      BY <1>5, <3>1 DEF LoadKept
  <2> QED
    BY <2>1, <2>2
<1> QED
  BY <1>4, <1>5, <1>6, <1>7

LEMMA FilesFresh ==
  ASSUME Typed, Fresh, CoarseClock = FALSE, Chmods = FALSE, Files, UNCHANGED watcher
  PROVE  Fresh'
<1>1. path \in Inode \cup {NoInode} /\ tmp \in Inode \cup {NoInode} /\ NoInode \notin Inode
      /\ wfd \in [Writer -> Inode \cup {NoInode}]
  BY PreferencesAssumption DEF Typed, InodesTyped
<1>2. UNCHANGED <<current, pc, lastMod, loaded>>
  BY DEF watcher
<1>3. ASSUME NEW w \in Writer, setAction(w) PROVE Fresh'
  <2>1. PICK a \in Action : SaveOpen(w, a)
    BY <1>3 DEF setAction
  <2>2. PICK i \in (IF SaveTarget = NoInode THEN Free ELSE {SaveTarget}) :
          Put(i, "torn") /\ tmp' = (IF i = path THEN tmp ELSE i)
    BY <2>1 DEF SaveOpen
  <2>3. i \in Inode /\ i # path
    BY <1>1, <2>2 DEF SaveTarget, Free, Fresh, NewsAhead
  <2> QED
    BY <2>1, <2>2, <2>3, PutFresh DEF SaveOpen
<1>4. ASSUME NEW w \in Writer, SaveWrite(w) PROVE Fresh'
  BY <1>1, <1>4, PutFresh DEF SaveWrite
<1>5. ASSUME NEW w \in Writer, SaveSync(w) \/ WriterCrash(w) PROVE Fresh'
  <2>1. UNCHANGED <<path, tmp, data, mtime, readable, clock>>
    BY <1>5 DEF SaveSync, WriterCrash, file
  <2> QED
    BY <1>2, <2>1 DEF Fresh, TimesDiffer, NewsAhead, LoadKept, Seen, NoChange
<1>6. ASSUME NEW w \in Writer, SaveRename(w) PROVE Fresh'
  <2>1. UNCHANGED <<data, mtime, clock>>
    BY <1>6 DEF SaveRename
  <2>2. CASE tmp = NoInode
    BY <1>2, <1>6, <2>1, <2>2
       DEF SaveRename, Fresh, TimesDiffer, NewsAhead, LoadKept, Seen, NoChange
  <2>3. CASE tmp # NoInode
    BY <1>2, <1>6, <2>1, <2>3
       DEF SaveRename, Fresh, TimesDiffer, NewsAhead, LoadKept, Seen, NoChange
  <2> QED
    BY <2>2, <2>3
<1>7. ASSUME UserWrites PROVE Fresh'
  BY <1>1, <1>7, PutFresh DEF UserWrites
<1>8. ASSUME UserDeletes PROVE Fresh'
  BY <1>1, <1>2, <1>8
     DEF UserDeletes, Fresh, TimesDiffer, NewsAhead, LoadKept, Seen, NoChange
<1>9. ~Chmod
  BY DEF Chmod
<1> QED
  BY <1>3, <1>4, <1>5, <1>6, <1>7, <1>8, <1>9 DEF Files, Save

LEMMA WatchFresh ==
  ASSUME Typed, Fresh, Watch PROVE Fresh'
<1>1. path \in Inode \cup {NoInode} /\ tmp \in Inode \cup {NoInode} /\ NoInode \notin Inode
      /\ mtime \in [Inode -> 0..MaxWrites] /\ clock \in Nat
  BY PreferencesAssumption DEF Typed, InodesTyped, ClockTyped
<1>2. UNCHANGED <<path, tmp, data, mtime, readable, clock>>
  BY DEF Watch, Stat, Load, SetAction, WatchStops, prefVars, file
<1>3. readable' /\ TimesDiffer'
  BY <1>2 DEF Fresh, TimesDiffer
<1>4. CASE Stat
  <2>1. path \in Inode /\ lastMod' = mtime[path] /\ pc' = "load"
    BY <1>1, <1>4 DEF Stat
  <2>2. NewsAhead'
    BY <1>1, <1>2, <2>1 DEF Fresh, TimesDiffer, NewsAhead
  <2>3. LoadKept'
    BY <2>1 DEF LoadKept
  <2> QED
    BY <1>3, <2>2, <2>3 DEF Fresh
<1>5. ASSUME UNCHANGED lastMod PROVE NewsAhead' /\ Seen' = Seen
  BY <1>2, <1>5 DEF Fresh, NewsAhead, Seen, NoChange
<1>6. CASE Load
  <2>1. Seen => LoadFromPath = data[path] /\ Valid(LoadFromPath)
    BY DEF Seen, LoadFromPath, Valid, Fresh, Action
  <2>2. LoadKept'
    BY <1>2, <1>5, <1>6, <2>1 DEF Load, LoadKept
  <2> QED
    BY <1>3, <1>5, <1>6, <2>2 DEF Load, Fresh
<1>7. CASE SetAction
  BY <1>2, <1>3, <1>5, <1>7 DEF SetAction, LoadKept, Fresh
<1>8. CASE WatchStops
  BY <1>2, <1>3, <1>5, <1>8 DEF WatchStops, LoadKept, Fresh
<1> QED
  BY <1>4, <1>6, <1>7, <1>8 DEF Watch

LEMMA StepFresh ==
  ASSUME CoarseClock = FALSE, Chmods = FALSE, Typed, Fresh, [Next]_vars
  PROVE  Fresh'
<1>1. CASE FileChanges
  BY <1>1, FilesFresh DEF FileChanges
<1>2. CASE Reboot
  <2>1. /\ UNCHANGED <<path, tmp, mtime, readable, clock>>
        /\ lastMod' = 0 /\ clock \in Nat /\ mtime \in [Inode -> 0..MaxWrites]
        /\ path \in Inode \cup {NoInode}
    BY <1>2 DEF Reboot, PowerLoss, Typed, ClockTyped, InodesTyped
  <2>2. TimesDiffer' /\ NewsAhead'
    BY <2>1 DEF Fresh, TimesDiffer, NewsAhead
  <2>3. ~Seen'
    BY <2>1 DEF Seen, NoChange, Fresh, TimesDiffer
  <2> QED
    BY <2>1, <2>2, <2>3 DEF LoadKept, Fresh
<1>3. CASE StopStart \/ Quiescent \/ UNCHANGED vars
  <2>1. UNCHANGED <<path, tmp, data, mtime, readable, clock, current, pc, lastMod, loaded>>
    BY <1>3 DEF StopStart, Quiescent, vars, watcher, prefVars, file
  <2> QED
    BY <2>1 DEF Fresh, TimesDiffer, NewsAhead, LoadKept, Seen, NoChange
<1> QED
  BY <1>1, <1>2, <1>3, WatchFresh DEF Next

\* The file could be read whenever its time was recorded, and every write
\* changes that time: then, however many GUIs save, edits are made and
\* processes die, a poll that skips the file leaves no action of it unapplied
\* (preferences_watcher.go:75-78).  Both hypotheses are needed.
THEOREM SkipsAreHarmless ==
  CoarseClock = FALSE /\ Chmods = FALSE /\ Spec => []NoChangeMeansCurrent
<1> SUFFICES ASSUME CoarseClock = FALSE, Chmods = FALSE
             PROVE  Spec => []NoChangeMeansCurrent
  OBVIOUS
<1>1. Init => Fresh
  <2> SUFFICES ASSUME Init PROVE Fresh
    OBVIOUS
  <2>1. readable /\ tmp = NoInode /\ lastMod = 0 /\ clock = 1 /\ mtime = [i \in Inode |-> 1]
    BY DEF Init, FileInit
  <2>2. path \in Inode \cup {NoInode}
    BY InitTyped DEF Typed, InodesTyped
  <2> QED
    BY <2>1, <2>2 DEF Fresh, TimesDiffer, NewsAhead, LoadKept, Seen, NoChange
<1>2. Typed /\ Fresh /\ [Next]_vars => Fresh'
  BY StepFresh
<1>3. Fresh => NoChangeMeansCurrent
  BY DEF Fresh, LoadKept, NoChangeMeansCurrent
<1> QED
  BY <1>1, <1>2, <1>3, InvariantTyped, PTL DEF Spec

=============================================================================
