\* The threads make progress: fair scheduling, one rotation, no fault.
CONSTANTS
  Producers = {p1}
  Bg = bg
  Free = free
  Main = main
  NDEBUG = TRUE
  MaxRows = 2
  Autocommits = {FALSE}
  Foregrounds = {TRUE}
  FlushEvery = 6
  Faults = {}
  MaxFaults = 0
  MaxRotations = 1
  MaxOverlaps = 1
SPECIFICATION Spec
PROPERTIES
  RowIsExecuted
  StopTerminates
