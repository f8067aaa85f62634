\* Either value of force-flush; the path comes and goes.
CONSTANTS
  Producers = {p1, p2}
  MaxLines = 3
  MaxRotations = 2
SYMMETRY Symmetry
CHECK_DEADLOCK FALSE
SPECIFICATION FileSpec
INVARIANTS
  EachLineOnce
  
  LostOnlyByFailureOrStop
