SPECIFICATION Spec
CONSTANTS
  Pushers = {a1, a2}
  NoPusher = NoPusher
  Conns = {c1, c2}
  NoConn = NoConn
  PipeSize = 1
  MaxEdits = 2
  MaxPushes = 3
  MaxFaults = 1
SYMMETRY Symmetry
INVARIANTS
  VersionsFollowRegistry
  InstalledIsRecorded
  AppliedAckIsRecorded
PROPERTIES
  PublishedInOrder
CHECK_DEADLOCK FALSE
