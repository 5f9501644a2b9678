SPECIFICATION FairSpec
CONSTANTS
  r1 = r1
  w1 = w1
  w2 = w2
  NoProc = NoProc
  Readers <- OneReader
  Writers <- TwoWriters
  Killable <- OneOfEach
  Bytes <- Bits
  PIPESIZE = 2
  UINT = 4
  MaxN = 2
INVARIANTS
  ReaderMissesOnlyKilled
  FreedUnused
PROPERTIES
  PipeIsFifo
  WriteReturns
CHECK_DEADLOCK FALSE
