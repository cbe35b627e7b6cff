SPECIFICATION RegistrySpec
CONSTANTS
  p1 = p1
  p2 = p2
  d1 = d1
  d2 = d2
  m1 = m1
  m2 = m2
  a1 = a1
  a2 = a2
  Plant = {p1, p2}
  First = {p1}
  Device = {d1, d2}
  Fitted <- MCFitted
  Home <- MCHome
  Name = {m1, m2}
  Extra = {e}
  Addr = {a1, a2}
  Gateway = {g1}
  Reports <- MCReports
  Files <- MCFiles
  Request = {q1, q2}
  MaxEdits = 3
INVARIANTS
  ReferencesHold
  NothingSlipsIn
PROPERTIES
  ImportTakesEffect
CHECK_DEADLOCK FALSE
