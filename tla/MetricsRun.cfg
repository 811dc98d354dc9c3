\* Two tasks, two readers and a stop meet a collector whose channels hold one message.
SPECIFICATION FairSpec
CONSTANTS
  t1 = t1  t2 = t2
  Task = {t1, t2}
  Reader = {c1, c2}
  Stopper = {s1}
  Size <- Sizes
  Cap = 1
INVARIANTS TypeOK LoadBalance Settled ReportInInterval
PROPERTIES NeverGoesBack Answered Implements
