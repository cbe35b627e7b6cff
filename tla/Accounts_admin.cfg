SPECIFICATION Spec
CONSTANTS
  User = {ann, bob, cat}
  Founder = {ann}
  Staff = {bob}
  Role = {manager, guest}
  Manager = manager
  Perm = {"user", "role", "plant"}
  Offers <- MCOffers
  Session = {s1}
  Token = {t1}
  Request = {q1, q2}
  MaxEdits = 2
SYMMETRY Symmetry
INVARIANTS
  NoOrphans
  NoEscalation
  TokenIsOneTime
PROPERTIES
  SweepIsComplete
  AdminResetIsFinal
CHECK_DEADLOCK FALSE
