SPECIFICATION FairSpec
CONSTANTS
  Sids = {"a", "b"}
  MaxSessions = 1
  MaxAttempts = 2
  MaxConnects = 2
CHECK_DEADLOCK FALSE
INVARIANTS
  TypeOK
  SessionLimit
  HeldServiceRuns
  NoLeakedClient
  NoLeakedService
PROPERTIES
  StoppedIsQuiet
  EveryPostReplied
