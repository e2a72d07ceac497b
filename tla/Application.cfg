SPECIFICATION Spec
CONSTANTS
  Participants = {"a"}
  Partyless = {"sb"}
  Sandboxes = {"sb"}
  MaxFlows = 2
  MaxRetries = 1
  MaxMoves = 3
  Sockets = {"w1", "w2"}
  Updates = {1, 2}
  Required = {1}
  MaxEvents = 2
  MaxBuffer = 1
  RecentLimit = 1
  MaxAttempts = 1
  Reassigned = {"r1", "r2"}
  MaxMessages = 3
  MaxLimit = 2
  Contracts = {1, 2, 3}
  MaxTxs = 3
  MaxTxEvents = 4
  Sorts = {"a", "b"}
  Filters = {{"a", "b"}, {"a"}}
  PrunedUpTo = 1
  PageSize = 1
  MaxOffset = 2
  MaxClicks = 2
  MaxNodes = 3
  MaxRequests = 2
  Catalog <- MCCatalog
  PackageNames <- MCPackageNames
  NoValue = NoValue
  Parties = {"p", "q"}
  MaxPrivateEvents = 3
  ArgumentTypes <- MCArgumentTypes
  MaxItems = 2
  MaxVersion = 2
  MaxCommits = 2
  PlainNames = {"Text", "Int64", "Bool", "Party", "Iou"}
  MaxDepth = 3
  Content <- MCContent
  EmptyType = "checkpoint"
  MaxListed = 2
  MaxUnseen = 1
  MaxRows = 2
  MaxFetches = 2
  SandboxIds = {"s", "t"}
  Demo = {}
  MaxTries = 2
  MaxMishaps = 3
  Library <- MCLibrary
  Addresses <- MCAddresses
  Searches = {"lib", "Iou"}
  Ledger <- MCLedger
  RecordFields = {"f", "g"}
  MaxWraps = 3
  Compiled <- MCCompiled
  MaxPackageAsks = 2
  BootstrapTx = 1
  Traceable <- MCTraceable
  TracedPackages = {"A", "B"}
  MaxTraces = 2
  MaxPanelClicks = 1
  MaxSimulations = 3
  CodeNames <- MCCodeNames
  Failures <- MCFailures
  MaxErrorRows = 2
  MaxExplanations = 2
  Sheets <- MCSheets
  Histories <- MCHistories
  Strangers = {"e"}
  MaxPanelMoves = 5
CHECK_DEADLOCK FALSE
INVARIANTS
  TypeOK
  OneSocket
  ListFaithful
  ShownIsConnected
  AnswersFaithful
  HistoryShown
  TransactionShown
  PackageRead
  CiLeavesOnly
  EventsDrawn
  FormCoherent
  FieldsFaithful
  EngineFed
  LedgerTold
  SandboxSelected
  PickKept
PROPERTIES
  EverythingSettles
