\* One request, that nobody disturbs.
SPECIFICATION Spec
CHECK_DEADLOCK FALSE
CONSTANTS
  q1 = q1  q2 = q2  u1 = u1  u2 = u2  root = root  sub = sub
  Dir = {root, sub}  Root = root
  Parent <- TwoDirParent
  Ancestors <- TwoDirAncestors
  Request = {q1}
  User = {u1, u2}
  File <- Files
  Target <- Inner
  Policy <- Both
  None = None  Empty = Empty  Garbage = Garbage
INVARIANTS DeleteAsksNearest
