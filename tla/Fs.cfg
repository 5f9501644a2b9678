SPECIFICATION Spec
CONSTANTS
  NINODES = 7
  NBLOCKS = 10
  BSIZE = 2
  NDIRECT = 2
  NPROC = 3
  NFILE = 4
  NOFILE = 3
  WMAX = 2
  MaxCrashes = 1
  Programs <- MCPrograms
  InitDisk <- MCInitDisk
INVARIANTS
  RefsCounted
  BlocksOwned
  DurableTree
  InUseAllocated
  OrphansReclaimed
  NoLockCycle
  ResultsExpected
