SPECIFICATION FairSpec
CONSTANTS
  Absent = Absent
  Hour = 300
  MaxDuration = 6000
  Overflow = 6000
  Files <- MCFiles
  Supplies <- MCSupplies
  QueueCap = 2
  MaxChanges = 2
INVARIANTS
  EstimateBounded
  ColoursHonoured
PROPERTIES
  DisplayCatchesUp
