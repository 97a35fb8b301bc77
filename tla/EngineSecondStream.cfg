\* The process may end, and the bounds stop the frontend: no deadlock check.
CHECK_DEADLOCK FALSE
SPECIFICATION Spec
CONSTANTS
  FileLines <- OneRowFile
  Commands <- StreamCommands
  MaxRequests = 2
  MaxCommands = 3
  MaxQueued = 1
  MaxConnections = 1
  MaxRuns = 1
INVARIANTS
  NeverTerminated
