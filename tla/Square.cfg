SPECIFICATION SquareSpec
CONSTANTS
  NMAX = 2
  SMAX = 3
INVARIANT SummaryExact
PROPERTY Terminates
CHECK_DEADLOCK FALSE
