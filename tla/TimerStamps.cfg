\* The counter stops at its bound: no deadlock check.
CHECK_DEADLOCK FALSE
SPECIFICATION TimerSpec
CONSTANTS
  Half = 3
  MaxHigh = 2
  Readings = 3
INVARIANTS
  TimerTypeOK StampsAreReal StagesAreReal
