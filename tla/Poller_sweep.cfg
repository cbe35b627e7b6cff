SPECIFICATION PollerSpec
CONSTANTS
  Connections = {c1, c2}
  Profiles <- MCProfiles
  Swept <- MCSwept
  Contents = {0, 1}
  Heartbeats = {0, 2}
  Default = 3
  None = None
  Failed = Failed
  MaxClock = 4
  MaxBack = 1
  MaxFaults = 1
  MaxReads = 2
  MaxStages = 1
INVARIANTS
  BlocksPlan
  EveryRegisterAccounted
  GateHasHolder
  BaselineIsStored
PROPERTIES
  SkippedIsSpokenFor
  EveryConnectionPolled
  GateReturns
CHECK_DEADLOCK FALSE
