SPECIFICATION DebuggerSpec
CONSTANTS
  MaxNodes = 2
  MaxRequests = 1
CHECK_DEADLOCK FALSE
INVARIANTS
  SuccessAdmitted
