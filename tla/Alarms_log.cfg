SPECIFICATION Spec
CONSTANTS
  Devices = {d1}
  Rules = {r1}
  Values = {"ok", "bad"}
  NoValue = "none"
  Conditions <- MCConditions
  AlarmSets <- MCAlarmSets
  Delays = {2, 3}
  Pullers = {p1, p2}
  Users = {u1, u2}
  NoUser = NoUser
  Viewers = {w1}
  MaxReadings = 3
  MaxEdits = 1
  MaxFaults = 1
SYMMETRY Symmetry
INVARIANTS
  LogFollowsReadings
  MailedIsCommitted
PROPERTIES
  NothingBehindTheTail
  FirstAcknowledgeStays
CHECK_DEADLOCK FALSE
