SPECIFICATION Spec
CONSTANTS
  Gui = {gui}
  Cli = {}
  NoProc = NoProc
  Path = {usr}
  NoUnit = NoUnit
  MaxFails = 1
  MaxCrashes = 0
PROPERTY InstallEnables
