SPECIFICATION Spec
CONSTANTS
  Editors = {e1, e2}
  Pusher = Pusher
  MaxCommits = 4
  MaxPushes = 1
  MaxFailures = 1
  MaxCrashes = 1
PROPERTIES
  OwnWritesVisible
  SerialMeansFresh
CHECK_DEADLOCK FALSE
