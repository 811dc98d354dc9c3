\* Visits of one user and uploads of the template, while config.json is edited.
SPECIFICATION Spec
CHECK_DEADLOCK FALSE
CONSTANTS
  q1 = q1  q2 = q2  q3 = q3  u1 = u1  t1 = t1  t2 = t2  closed = closed  broken = broken
  Request = {q1, q2, q3}
  User = {u1}
  Config <- Configs
  Text = {t1, t2, closed, broken}
  Parsable = {t1, t2, closed, Empty}
  LetsIn = {t1, t2}
  Default = Default
  MaxEdits = 2
  None = None  Empty = Empty  Garbage = Garbage
INVARIANTS TypeOK StartsAgain HomeLetsIn HomeTorn KnowsWhatItLoaded
SYMMETRY Symmetry
