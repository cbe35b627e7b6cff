SPECIFICATION RevisionsSpec
CONSTANTS
  p1 = p1
  d1 = d1
  x0 = x0
  x1 = x1
  Tab = {t1, t2}
  Plant = {p1}
  Device = {d1}
  At <- MCAt
  Screen = {s1}
  Title = {n1, n2}
  User = {u1}
  Design = {x0, x1}
  Uses <- MCUses
  Blank = x0
  File = {f1, f2}
  Request = {q1, q2}
  MaxEdits = 5
SYMMETRY Symmetry
INVARIANTS
  PicturesAreServed
PROPERTIES
  NoLostUpdate
  PublishedAsSeen
CHECK_DEADLOCK FALSE
