SPECIFICATION Spec
CONSTANTS
  AwsSites = {a1, a2, a3}
  KvmSite = k
  AzureSites = {z1, z2, z3}
  NoPlan = NoPlan
  Admissions = {"NEW", "ONLINE"}
  MaxPolls = 1
  MaxRuns = 1
  MaxFaults = 0
  MaxOverwrites = 0
  Orphans = FALSE
SYMMETRY SiteSymmetry
INVARIANTS
  TypeOK
  CaptureNeverIncomplete
  GateNeverRefuses
  ScopeStopsExplained
  PreflightStopsExplained
CHECK_DEADLOCK FALSE
