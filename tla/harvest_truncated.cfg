SPECIFICATION HarvestSpec
CONSTANTS
  MenuSize <- MCMenuSize
  PageRows = 2
  Patience = 4
  MaxScrolls = 8
  Late = 1
INVARIANTS
  ScrolledToExhaustion
CHECK_DEADLOCK FALSE
