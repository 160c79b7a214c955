CONSTANTS
  Proc = {p1, p2, p3}
  Block = {b1, b2}
  Value = {v1}
  NotCached = NotCached
  OpMax = 1
  LogSize = 2
  MaxTs = 3
SPECIFICATION FairSpec
PROPERTY CallsReturn
CHECK_DEADLOCK FALSE
