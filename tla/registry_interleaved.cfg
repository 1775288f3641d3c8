SPECIFICATION MCSpec
CONSTANTS
  h1 = h1
  h2 = h2
  r2 = r2
  Hosts = {h1, h2}
  HostOf <- TwoHosts
  Uploads = {u1}
  Retrainers = {r1, r2}
  Predictors = {}
  VersionIds = {v1, v2, v3}
  MaxVersion = 3
  MaxCrashes = 1
  Metric = "f1"
  Scores <- TwoScores
  MarginNum = 1
  MarginDen = 100
  NoScore = NoScore
  NoVersion = NoVersion
  NoModel = NoModel
  InitialModel = InitialModel
  Users = {alice, bob}
  Keys = {k1, k2, k3}
  Requests = {q1, q2}
  MaxActive = 2
  DefaultExpiry = "never"
  MaxFaults = 1
  Nobody = Nobody
  NoKey = NoKey
SYMMETRY Symmetry
INVARIANTS
  KeysWithinCeiling
  BarredStaysOut
  LockoutTakesARace
  AdminRemains
  RefusedNeverServed
  RegisteredBundleExists
  OnlyWinnersPublished
  NeverWithoutChampion
CHECK_DEADLOCK FALSE
