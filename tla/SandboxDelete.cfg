SPECIFICATION Spec
CONSTANTS
  MaxOps = 2
  Ports = {1}
  MaxSandboxes = 1
  MaxExits = 0
  MaxCrashes = 0
CHECK_DEADLOCK FALSE
INVARIANTS
  DeleteCleansUp
