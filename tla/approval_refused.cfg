SPECIFICATION Spec
CONSTANTS
  AwsSites = {a1, a2, a3}
  KvmSite = k
  AzureSites = {z1}
  NoPlan = NoPlan
  Admissions = {"NEW", "ONLINE"}
  MaxPolls = 1
  MaxRuns = 1
  MaxFaults = 0
  MaxOverwrites = 0
  Orphans = FALSE
SYMMETRY AwsSymmetry
INVARIANTS
  ApprovalPhaseAccepted
CHECK_DEADLOCK FALSE
