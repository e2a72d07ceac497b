SPECIFICATION Spec
CONSTANTS
  MaxOps = 4
  Ports = {1, 2, 3}
  MaxSandboxes = 2
  MaxExits = 2
  MaxCrashes = 2
CHECK_DEADLOCK FALSE
CONSTRAINT Undisturbed
INVARIANTS
  TypeOK
  SlotsKept
  RegistryDurable
  ProcessesOwned
PROPERTIES
  FailsOnItsOwn
