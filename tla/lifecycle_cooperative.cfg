SPECIFICATION CoopSpec
CONSTANTS
  AwsSites = {a1, a2}
  KvmSite = k
  AzureSites = {z1, z2}
  NoPlan = NoPlan
  Admissions = {"ONLINE"}
  MaxPolls = 1
  MaxRuns = 1
  MaxFaults = 0
  MaxOverwrites = 0
  Orphans = FALSE
PROPERTIES
  CoopPasses
CHECK_DEADLOCK FALSE
