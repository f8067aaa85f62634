\* Every configuration, every fault and a rotation at any moment.
CONSTANTS
  Producers = {p1}
  Bg = bg
  Free = free
  Main = main
  NDEBUG = TRUE
  MaxRows = 2
  Autocommits = {TRUE, FALSE}
  Foregrounds = {TRUE, FALSE}
  FlushEvery = 5
  Faults = {"open", "exec", "rollback"}
  MaxFaults = 1
  MaxRotations = 1
  MaxOverlaps = 1
SPECIFICATION Safety
INVARIANTS
  TypeOK
  RowsInOrder
  EachRowInOnePlace
  AutocommitIsDurable
  FewRowsPending
  OnlyRotationClosesUnderWriter
PROPERTY
  ImplementsRowLog
