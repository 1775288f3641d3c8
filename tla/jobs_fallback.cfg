SPECIFICATION Spec
CONSTANTS
  j1 = j1  j2 = j2  j3 = j3
  k1 = k1  k2 = k2  k3 = k3
  a1 = a1  a2 = a2
  Apis = {a1}
  Backend <- AllQueued
  Workers = {w1}
  Jobs = {j1, j2}
  RunOf <- TwoJobs
  Runs = {k1, k2, k3}
  MaxJobs = 2
  MaxBurst = 2
  MaxRuns = 2
  MaxApiKills = 1
  MaxWorkerKills = 0
  MaxOutages = 1
  NoJob = NoJob
INVARIANTS
  QueueIsSpared
CHECK_DEADLOCK FALSE
