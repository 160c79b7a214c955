CONSTANTS
  Proc = {p1, p2}
  Block = {b1, b2}
  Value = {v1, v2}
  NotCached = NotCached
  OpMax = 2
  LogSize = 4
  MaxTs = 3
SPECIFICATION Spec
INVARIANTS TypeOK CommitFits CheckpointExclusive LogReserved DirtyIsPinned
PROPERTY ImplementsAtomicOps
