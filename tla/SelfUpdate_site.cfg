SPECIFICATION SelfUpdateSpec
CONSTANTS
  Packages = {new, odd, bridge}
  Patches = {new, odd}
  Fitting = {new, bridge}
  Bridge = bridge
  Jobs = {j1}
  Operator = Operator
  None = None
  Torn = Torn
  MaxUploads = 2
  MaxFaults = 1
  MaxLocal = 1
  MaxCalls = 1
  MaxRuns = 2
INVARIANTS
  SelfUpdateTypeOK
  InstalledIsWhole
  LiveCallIsSomewhere
  JobTellsItems
PROPERTIES
  SucceededIsDone
CHECK_DEADLOCK FALSE
