\* A Start between a Stop and its STOPPED.
\* A session may end: the user stops clicking, the process is not started again.
CHECK_DEADLOCK FALSE
SPECIFICATION Spec
CONSTANTS
  Profiles <- OneHastyUser
  Converters = {"c1"}
  MaxConnections = 2
INVARIANTS
  IdlePanelIdleEngine
