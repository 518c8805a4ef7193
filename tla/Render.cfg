SPECIFICATION LiveSpec
CONSTANTS
  AllRates <- MCRates
  RenderBlock = 4
  MaxTick = 8
CHECK_DEADLOCK FALSE
INVARIANTS
  RendersItsRange
PROPERTY Finishes
