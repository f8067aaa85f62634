\* Every stream of up to 7 bytes, cut into chunks in every way.
CONSTANTS
  Base = 3
  MAX_BUFFER_SIZE = 5
  MaxStream = 7
  NDEBUG = TRUE
  Streams <- MCStreams
  Undecodable <- MCUndecodable
CHECK_DEADLOCK FALSE
SPECIFICATION ReaderSpec
INVARIANTS
  ReaderTypeOK
  FramesAreTheStreams
  NoFrameWaits
  FullMeansTooLong
  HeaderIsWritten
PROPERTY
  ExtractReturns
