\* A measurement ends: the file is read and nobody starts the engine again.
CHECK_DEADLOCK FALSE
SPECIFICATION Spec
CONSTANTS
  Scale = 4
  Top = 7
  IntTop = 127
  LongTop = 65535
  Grain = 4
  Inputs = 3
  NFeat = 2
  Periods = 2
  Hidden <- Two
  Output <- Three
  AccTop = 1023
  CoreCycles = 95
  Stimuli <- StimulusCalls
  RawFiles <- Market
  OwnFiles <- OwnStreams
  MaxRequests = 14
  MaxFaults = 1
  MaxRuns = 2
INVARIANTS
  NoFalseAlarm FaultDetected StimulusSurvives StimulusReveals ToolsAgree RecordsKept
