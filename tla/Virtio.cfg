SPECIFICATION DiskFairSpec
CONSTANTS
  Procs = {p1, p2, p3}
  Blocks = {b1}
  Data = {d1}
  NoBlock = NoBlock
  NBUF = 3
  NUM = 7
INVARIANTS
  NobodyForgotten
  DescriptorsOwned
PROPERTIES
  IoCompletes
