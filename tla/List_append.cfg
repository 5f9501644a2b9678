SPECIFICATION Spec
CONSTANTS
  MAX_NODES = 5
  MAX_LISTS = 2
INVARIANT TailEndsChain
CHECK_DEADLOCK FALSE
