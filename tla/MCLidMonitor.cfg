SPECIFICATION FairSpec
CONSTANTS
  ChanCap = 2
  MaxMoves = 2
  MaxErrors = 1
INVARIANTS
  TypeOK
  AtMostOnceFromOneSource
  EchoBounded
  StopIsQuiet
PROPERTIES
  BackstopSyncs
  EvdevSyncs
  ImplementsDelivery
