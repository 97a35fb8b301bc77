SPECIFICATION Spec
CONSTANTS
  Scale = 2
  Top = 7
  IntTop = 127
  LongTop = 65535
  Grain = 4
  Sizes <- Network
  Features <- Ends
  Floats <- Trained
INVARIANTS
  NarrowingIsExact ImplementationsAgree DecisionIsLargest
