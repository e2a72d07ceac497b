SPECIFICATION FairSpec
CONSTANTS
  Subs = {"s1"}
  MaxOffset = 3
  Filters <- MCFilters
  Served <- MCServed
  Passes <- MCPasses
  Unmappable = {}
  BootstrapOffset = 1
  EarlyClient = FALSE
  ServerEnds = FALSE
  MaxFaults = 2
  MaxUpdates = 2
CHECK_DEADLOCK FALSE
PROPERTIES
  FilterApplied
  EventuallyDelivered
  ClosedSocketForgotten
