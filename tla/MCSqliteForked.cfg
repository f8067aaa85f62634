\* Without -f, under fair scheduling.
CONSTANTS
  Producers = {p1}
  Bg = bg
  Free = free
  Main = main
  NDEBUG = TRUE
  MaxRows = 1
  Autocommits = {TRUE}
  Foregrounds = {FALSE}
  FlushEvery = 4
  Faults = {}
  MaxFaults = 0
  MaxRotations = 0
  MaxOverlaps = 1
SPECIFICATION Spec
PROPERTY
  RowIsExecuted
