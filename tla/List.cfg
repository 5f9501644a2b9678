SPECIFICATION Spec
CONSTANTS
  MAX_NODES = 5
  MAX_LISTS = 2
INVARIANTS
  NodesConserved
  ListsDisjoint
  CursorSafe
CHECK_DEADLOCK FALSE
