SPECIFICATION FairSpec
CONSTANTS
  Pushers = {a1}
  NoPusher = NoPusher
  Conns = {c1}
  NoConn = NoConn
  PipeSize = 2
  MaxEdits = 2
  MaxPushes = 4
  MaxFaults = 0
PROPERTIES
  AppliedInOrder
  DeliveredIsHandled
CHECK_DEADLOCK FALSE
