SPECIFICATION Spec
CONSTANTS
  p1 = p1
  p2 = p2
  p3 = p3
  b1 = b1
  b2 = b2
  b3 = b3
  b4 = b4
  b5 = b5
  d1 = d1
  d2 = d2
  NoData = NoData
  NoBlock = NoBlock
  Procs <- TwoProcs
  Blocks <- ThreeBlocks
  Data <- TwoData
  MAXOPBLOCKS = 2
  LOGBLOCKS = 4
  OpBlocks = 2
SYMMETRY Symmetry
INVARIANTS
  PinsMatchLog
PROPERTY CrashAtomic
