SPECIFICATION Spec
CONSTANTS
  NPROC = 3
  NPAGES = 31
  FAN = 2
  PGSIZE = 2
  USERSTACK = 1
  MaxSz = 12
  MaxCalls = 5
  Segments <- MCSegments
  Grows <- MCGrows
  Touched <- MCTouched
INVARIANTS
  PagesAccounted
  NoPanic
PROPERTY
  PrivateMemory
