\* autocommit=0: a rotation.
CONSTANTS
  Producers = {p1}
  Bg = bg
  Free = free
  Main = main
  NDEBUG = TRUE
  MaxRows = 1
  Autocommits = {FALSE}
  Foregrounds = {TRUE}
  FlushEvery = 4
  Faults = {}
  MaxFaults = 0
  MaxRotations = 1
  MaxOverlaps = 1
SPECIFICATION Safety
INVARIANT
  RotationFlushes
