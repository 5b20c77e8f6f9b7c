SPECIFICATION FairSpec
CONSTANTS
  Ports = {p1, p2}
  Keys = {k1, k2}
  OwnPort = p1
  OwnKey = k1
  MaxCommands = 2
  MaxFaults = 1
INVARIANTS TypeOK ManagedFilesAgree
PROPERTIES SuccessMeansApplied BusyEnds
CHECK_DEADLOCK FALSE
