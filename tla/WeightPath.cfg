SPECIFICATION Spec
CONSTANTS
  PanelShapes <- Small
  PanelBiases <- SmallBiases
  FirmwareBlocks <- SmallBlocks
  LoaderShapes <- Small
  Inputs = 4
  Words = 4
  Trained <- Checkpoints
INVARIANTS
  TypeOK LoadedAsTrained
PROPERTIES
  WrittenOnce
