SPECIFICATION Spec
CONSTANTS
  Subs = {"s1"}
  MaxOffset = 3
  Filters <- MCFilters
  Served <- MCServed
  Passes <- MCPasses
  Unmappable = {1}
  BootstrapOffset = 0
  EarlyClient = FALSE
  ServerEnds = FALSE
  MaxFaults = 2
  MaxUpdates = 1
CHECK_DEADLOCK FALSE
INVARIANTS
  StoppedEntirely
