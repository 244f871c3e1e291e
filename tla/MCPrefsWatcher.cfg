SPECIFICATION FairSpec
CONSTANTS
  Writer = {w1, w2}
  Inode = {i1, i2}
  NoInode = NoInode
  UserEdits <- MCBadEdits
  Chmods = TRUE
  CoarseClock = TRUE
  MaxWrites = 4
INVARIANTS
  TypeOK
  LastGoodKept
PROPERTIES
  CompleteFile
  EventuallyApplied
