SPECIFICATION Spec
CONSTANTS
  AwsSites = {a1, a2}
  KvmSite = k
  AzureSites = {z1}
  NoPlan = NoPlan
  Admissions = {"NEW", "ONLINE"}
  MaxPolls = 1
  MaxRuns = 2
  MaxFaults = 1
  MaxOverwrites = 1
  Orphans = TRUE
SYMMETRY AwsSymmetry
INVARIANTS
  CollisionFoundFirst
  AbsenceHonest
  BuildInv
PROPERTIES
  Contained
  EstateKept
CHECK_DEADLOCK FALSE
