\* The rows of a message against its records.
CONSTANTS
  Heads <- MCHeads
  RRs <- MCRRs
  MaxRRs = 2
  NDEBUG = TRUE
CHECK_DEADLOCK FALSE
SPECIFICATION RecSpec
INVARIANT
  ColumnsAreTheRRs
