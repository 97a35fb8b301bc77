\* The process may end, and the bounds stop the frontend: no deadlock check.
CHECK_DEADLOCK FALSE
SPECIFICATION Spec
CONSTANTS
  FileLines <- TwoRowFile
  Commands <- StreamCommands
  MaxRequests = 3
  MaxCommands = 2
  MaxQueued = 1
  MaxConnections = 1
  MaxRuns = 1
INVARIANTS
  SurvivesHangup
