\* The engine may end and the bounds stop the frontend: no deadlock check.
CHECK_DEADLOCK FALSE
SPECIFICATION Spec
CONSTANTS
  FileLines <- TwoRowFile
  Commands <- StreamCommands
  MaxRequests = 2
  MaxCommands = 3
  MaxQueued = 1
  MaxConnections = 2
  MaxRuns = 2
INVARIANTS
  FlagMatchesWorker StopIsFinal StatusToOwner LogComplete
