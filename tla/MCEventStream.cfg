SPECIFICATION Spec
CONSTANTS
  Subs = {"s1"}
  MaxOffset = 3
  Filters <- MCFilters
  Served <- MCServed
  Passes <- MCPasses
  Unmappable = {}
  BootstrapOffset = 0
  EarlyClient = TRUE
  ServerEnds = TRUE
  MaxFaults = 2
  MaxUpdates = 2
CHECK_DEADLOCK FALSE
INVARIANTS
  TypeOK
  OneCall
  RunningCallsCancellable
  NoDuplicates
PROPERTIES
  SilentAfterEnd
  ImplementsFeed
