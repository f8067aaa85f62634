\* Two connection threads, Release build, with fairness.
CONSTANTS
  Producers = {p1, p2}
  Bg = bg
  Free = free
  NDEBUG = TRUE
  MaxRows = 5
SPECIFICATION FifoSpec
INVARIANTS
  FifoTypeOK
  HeadIsTail
  PoppedInOrder
  RowsAccountedFor
PROPERTIES
  QueuedRowIsPopped
  ImplementsOneSlot
