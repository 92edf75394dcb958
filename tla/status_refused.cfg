SPECIFICATION Spec
CONSTANTS
  AwsSites = {a1}
  KvmSite = k
  AzureSites = {z1}
  NoPlan = NoPlan
  Admissions = {"ONLINE"}
  MaxPolls = 1
  MaxRuns = 1
  MaxFaults = 0
  MaxOverwrites = 0
  Orphans = FALSE
INVARIANTS
  StatusRefreshAccepted
CHECK_DEADLOCK FALSE
