SPECIFICATION FairSpec
CONSTANT MaxEvents = 4
INVARIANTS
  LockOutlivesHandling
PROPERTIES
  ClosesAsPreferred
  HandlingResumes
  ShutdownEnds
