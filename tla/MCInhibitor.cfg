SPECIFICATION FairSpec
CONSTANTS
  Conn = {c1, c2}
  NoConn = NoConn
  Descriptor <- MCDescriptor
  MaxFaults = 3
INVARIANTS
  TypeOK
  DescriptorsOwned
  LossIsDetectable
  CleanRelease
  LossesCharged
  RetryPaced
PROPERTIES
  EventuallyHeld
  ReleaseTerminates
  ImplementsLease
