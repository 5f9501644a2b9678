SPECIFICATION FairSpec
CONSTANTS
  c1 = c1
  c2 = c2
  NoCPU = NoCPU
  CPUs <- TwoCPUs
  NPROC = 3
INVARIANTS
  SleepLockExclusive
  OneCpu
  NoLostWakeup
PROPERTIES
  AtomicSleep
  SomeoneEnters
