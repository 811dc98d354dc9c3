\* Two requests for the policies of the root, of a directory and of a file in it.
SPECIFICATION FairSpec
CHECK_DEADLOCK FALSE
CONSTANTS
  q1 = q1  q2 = q2  u1 = u1  u2 = u2  root = root  sub = sub
  Dir = {root, sub}  Root = root
  Parent <- TwoDirParent
  Ancestors <- TwoDirAncestors
  Request = {q1, q2}
  User = {u1, u2}
  File <- Files
  Target <- Outer
  Policy <- Both
  None = None  Empty = Empty  Garbage = Garbage
INVARIANTS TypeOK NearestUsed PosterCanRepair DeleterCanRepair FetchFindsGovernor TornByFailure
PROPERTIES Answered
