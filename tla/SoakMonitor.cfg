SPECIFICATION SoakSpec
CONSTANTS
  Participant = {"p"}
  Body = {all,other,lacks}
  all = all
  other = other
  lacks = lacks
  Attends <- MCAttends
  Seed = {"s"}
  Request = {t1,t2}
  t1 = t1
  t2 = t2
  EpochLength = 1
  Recent = 2
  Interval = 1
  MaxGap = 2
  StallLimit = 2
  MinWindow = 3
  MaxWindow = 5
  Threshold = 2
  Deadline = 4
  MaxInstant = 4
  MaxHeight = 3
  MaxTroubles = 2
PROPERTY ClosedStaysClosed
CHECK_DEADLOCK FALSE
SYMMETRY Sym
ACTION_CONSTRAINT Bound
