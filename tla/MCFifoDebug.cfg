\* One connection thread, Debug build: a response with two records is enough.
CONSTANTS
  Producers = {p1}
  Bg = bg
  Free = free
  NDEBUG = FALSE
  MaxRows = 2
SPECIFICATION FifoSafety
INVARIANT NeverAborts
CHECK_DEADLOCK FALSE
