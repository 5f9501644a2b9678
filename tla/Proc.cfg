SPECIFICATION FairSpec
CONSTANTS
  NPROC = 3
  MaxPid = 3
  KillPids <- OtherPids
INVARIANTS
  NoMissedExit
  FreedNotRunning
  KilledWasAsked
PROPERTIES
  ForkExitWait
  OrphansReaped
CHECK_DEADLOCK FALSE
