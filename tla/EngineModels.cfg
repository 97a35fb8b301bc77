\* The engine may end and the bounds stop the frontend: no deadlock check.
CHECK_DEADLOCK FALSE
SPECIFICATION FairSpec
CONSTANTS
  FileLines <- TwoRowFile
  Commands <- UploadCommands
  MaxRequests = 4
  MaxCommands = 2
  MaxQueued = 1
  MaxConnections = 1
  MaxRuns = 1
INVARIANTS
  TypeOK PrefixAligned ModelOkTruth
PROPERTIES
  Responsive StreamEnds
