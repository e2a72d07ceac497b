SPECIFICATION Spec
CONSTANTS
  Subs = {"s1", "s2"}
  MaxOffset = 3
  Filters <- MCFilters
  Served <- MCServed
  Passes <- MCPasses
  Unmappable = {}
  BootstrapOffset = 0
  EarlyClient = FALSE
  ServerEnds = FALSE
  MaxFaults = 0
  MaxUpdates = 0
CHECK_DEADLOCK FALSE
PROPERTIES
  ResumesAfterReconnection
