\* The board may fail to boot, and the bound stops the packets: no deadlock check.
CHECK_DEADLOCK FALSE
SPECIFICATION FairSpec
CONSTANTS
  MaxPackets = 3
  QueueLength = 2
INVARIANTS
  TypeOK WeightsQuiescent TransfersAccepted
PROPERTIES
  ImplementsBoard PollReturns
