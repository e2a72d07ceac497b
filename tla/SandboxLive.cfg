SPECIFICATION FairSpec
CONSTANTS
  MaxOps = 2
  Ports = {1, 2}
  MaxSandboxes = 2
  MaxExits = 1
  MaxCrashes = 1
CHECK_DEADLOCK FALSE
PROPERTIES
  ProvisioningEnds
