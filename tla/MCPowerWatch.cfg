SPECIFICATION FairSpec
CONSTANTS
  Profile = {saver, balanced}
  NoProfile = NoProfile
  MaxSets = 3
  EarlyDestroy = FALSE
INVARIANTS
  NoDoubleClose
PROPERTIES
  ButtonsFollow
  WatcherEnds
