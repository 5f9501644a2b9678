SPECIFICATION Spec
CONSTANTS
  p1 = p1
  p2 = p2
  p3 = p3
  b1 = b1
  b2 = b2
  b3 = b3
  d1 = d1
  d2 = d2
  NoData = NoData
  NoBlock = NoBlock
  NoProc = NoProc
  Procs <- ThreeProcs
  Blocks <- ThreeBlocks
  Data <- TwoData
  NBUF = 2
  NUM = 5
  MaxPins = 1
SYMMETRY Symmetry
INVARIANTS
  OneBuffer
  NoLeakedBuffer
PROPERTIES
  CacheIsStore
