SPECIFICATION Spec
CONSTANTS
  AwsSites = {a1}
  KvmSite = k
  AzureSites = {z1}
  NoPlan = NoPlan
  Admissions = {"ONLINE"}
  MaxPolls = 0
  MaxRuns = 3
  MaxFaults = 2
  MaxOverwrites = 0
  Orphans = FALSE
INVARIANTS
  AzureAfterGates
  PassedMeansConverged
  DestroyNeverRefused
  SecondBuildFromNothing
CHECK_DEADLOCK FALSE
