SPECIFICATION Spec
CONSTANTS
  Profile = {saver, balanced}
  NoProfile = NoProfile
  MaxSets = 1
  EarlyDestroy = TRUE
INVARIANTS
  NoPanic
