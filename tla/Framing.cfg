\* Both sides stop sending at the bound.
CHECK_DEADLOCK FALSE
SPECIFICATION Spec
CONSTANTS
  Letter <- Letters
  Commands <- CommandLines
  Statuses <- StatusLines
  EngineBuffer = 4
  PanelBuffer = 3
  MaxLines = 3
INVARIANTS
  EngineObeys
PROPERTIES
  PanelHearsLines PanelHearsAll
