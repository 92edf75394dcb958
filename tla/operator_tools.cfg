SPECIFICATION ToolsSpec
CONSTANTS
  Backends = {1, 2, 3}
  MaxFrrMoves = 2
  MaxFrrDeaths = 2
  Ces = {1, 2}
  MaxDrills = 2
  Proposals <- MCProposals
  Fragile = {"host_isolation", "frr_routes"}
  MaxDrifts = 1
  MaxPlans = 3
  MaxApplies = 2
  Writers = {w1, w2}
  MaxAttempts = 2
  Fetchers = {f1, f2, f3}
  Observers = {"bgp", "nic"}
  Timeout = 6
  Poll = 2
  Request = 1
  Layouts <- MCLayouts
  MenuSize <- MCMenuSize
  PageRows = 2
  Patience = 4
  MaxScrolls = 8
  Late = 2
  Sites = {"01", "02"}
  Versions = {1, 2}
  Wanted <- MCWanted
  MaxUpgradePlans = 2
  Addresses = {"vpc", "dns", "host_bridge"}
  Core = {"vpc"}
  HostNetwork = {"host_bridge"}
  MaxStateMoves = 1
  Verifiers = {p1, p2}
  Nodes = 2
  MaxCaptures = 2
  MaxSwaps = 2
  Verifications = {v1, v2}
  Samples = 2
  MaxLanMoves = 2
  NoVerification = none
INVARIANTS
  ToolsTypeOK
  PassedReviewed
  PassedObserved
  LanBehindHardware
  ExitTellsTruth
  DrillRestores
  EvidenceMatches
  CacheInv
  CommandOutlived
  DeadlineKept
  JoinIsOneToOne
  HarvestComplete
  DestroysPulled
  ProviderPinned
  MatrixFollows
  SummaryTrue
PROPERTIES
  ReceiptImmutable
  RelayRefines
  RelayCatchesUp
  EffectsReviewed
CHECK_DEADLOCK FALSE
