SPECIFICATION Spec
CONSTANTS
  AwsSites = {a1}
  KvmSite = k
  AzureSites = {z1}
  NoPlan = NoPlan
  Admissions = {"ONLINE"}
  MaxPolls = 0
  MaxRuns = 2
  MaxFaults = 1
  MaxOverwrites = 0
  Orphans = TRUE
INVARIANTS
  AzureAbsenceHonest
CHECK_DEADLOCK FALSE
