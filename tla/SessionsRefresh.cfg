SPECIFICATION Spec
CONSTANTS
  Sids = {"a"}
  MaxSessions = 1
  MaxAttempts = 2
  MaxConnects = 1
CHECK_DEADLOCK FALSE
PROPERTIES
  DisconnectStopsRefresh
