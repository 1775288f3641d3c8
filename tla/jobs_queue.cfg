SPECIFICATION FairSpec
CONSTANTS
  j1 = j1  j2 = j2  j3 = j3
  k1 = k1  k2 = k2  k3 = k3
  a1 = a1  a2 = a2
  Apis = {a1}
  Backend <- AllQueued
  Workers = {w1}
  Jobs = {j1, j2, j3}
  RunOf <- DistinctRuns
  Runs = {k1, k2, k3}
  MaxJobs = 1
  MaxBurst = 1
  MaxRuns = 1
  MaxApiKills = 1
  MaxWorkerKills = 1
  MaxOutages = 1
  NoJob = NoJob
INVARIANTS
  InterruptedIsDead
  ActiveWithinLimit
  StoredRunsBounded
PROPERTIES
  KeepsContract
  HandedOverEnds
CHECK_DEADLOCK FALSE
