\* Two clients, with descriptors for one or both, one failure, one SIGHUP.
CONSTANTS
  Clients = {c1, c2}
  MaxFds = 2
  MaxFaults = 1
  MaxHups = 1
SPECIFICATION ServerSpec
INVARIANTS
  ServerTypeOK
  ReadersMatchConnections
  NeverKilledServing
  OnlyStopEndsService
  FileClosedFirst
PROPERTIES
  StopEndsTheProcess
  ClientIsAccepted
