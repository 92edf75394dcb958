SPECIFICATION FairSpec
CONSTANTS
  AwsSites = {a1}
  KvmSite = k
  AzureSites = {z1}
  NoPlan = NoPlan
  Admissions = {"NEW", "ONLINE"}
  MaxPolls = 1
  MaxRuns = 2
  MaxFaults = 0
  MaxOverwrites = 0
  Orphans = FALSE
PROPERTIES
  Terminates
CHECK_DEADLOCK FALSE
