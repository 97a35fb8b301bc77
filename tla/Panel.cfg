\* Users who wait for every answer and users who click at any time, with files that are
\* streamed as they are and files that are converted, one to three clicks each.
\* A session may end: the user stops clicking, the process is not started again.
CHECK_DEADLOCK FALSE
SPECIFICATION FairSpec
CONSTANTS
  Profiles <- Users
  Converters = {"c1"}
  MaxConnections = 3
INVARIANTS
  TypeOK CarefulIdleIsIdle TextMatchesAction StopPrevails
PROPERTIES
  StreamsWholeFile LossNoticed ConnectionServed ModelAnswered
