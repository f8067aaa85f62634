\* Every configuration of the back ends, a build with assertions.
CONSTANTS
  Heads <- MCHeads
  RRs <- MCRRs
  MaxRRs = 2
  NDEBUG = FALSE
CHECK_DEADLOCK FALSE
SPECIFICATION RecSpec
INVARIANTS
  EnginesAgree
  
  RowsMatchLines
  
