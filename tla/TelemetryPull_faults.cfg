SPECIFICATION Spec
CONSTANTS
  Devices = {d1, d2}
  Conns = {c1, c2}
  NoConn = NoConn
  BatchSize = 2
  PipeSize = 1
  MaxRows = 2
  MaxFaults = 2
  MaxToggles = 2
SYMMETRY Symmetry
INVARIANTS
  ReleasedAfterCommit
  AcceptedCountsRows
PROPERTIES
  TwoPhase
CHECK_DEADLOCK FALSE
