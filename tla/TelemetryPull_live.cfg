SPECIFICATION FairSpec
CONSTANTS
  Devices = {d1}
  Conns = {c1, c2}
  NoConn = NoConn
  BatchSize = 2
  PipeSize = 1
  MaxRows = 2
  MaxFaults = 2
  MaxToggles = 0
INVARIANTS
  ReleasedIsStored
PROPERTIES
  EventuallyReleased
CHECK_DEADLOCK FALSE
