SPECIFICATION FairSpec
CONSTANTS
  Gui = {gui}
  Cli = {cli}
  NoProc = NoProc
  Path = {usr, home}
  NoUnit = NoUnit
  MaxFails = 1
  MaxCrashes = 1
INVARIANTS
  TypeOK
PROPERTIES
  InstallServes
  UpgradeTakesEffect
  UninstallCleans
  OperationsEnd
