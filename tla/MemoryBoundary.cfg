CONSTANTS
  Counter = {k1}
  Limit = 3
  Window = 4
  MaxTime = 11
SPECIFICATION MCSpec
CHECK_DEADLOCK FALSE
INVARIANT NoBoundaryBurst
