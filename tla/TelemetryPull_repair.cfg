SPECIFICATION FairSpec
CONSTANTS
  Devices = {d1}
  Conns = {c1}
  NoConn = NoConn
  BatchSize = 1
  PipeSize = 1
  MaxRows = 2
  MaxFaults = 0
  MaxToggles = 2
PROPERTIES
  RetriedAfterRepair
CHECK_DEADLOCK FALSE
