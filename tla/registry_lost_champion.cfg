SPECIFICATION Spec
CONSTANTS
  h1 = h1
  h2 = h2
  r2 = r2
  Hosts = {h1}
  HostOf <- OneHost
  Uploads = {u1, u2}
  Retrainers = {}
  Predictors = {}
  VersionIds = {v1, v2}
  MaxVersion = 2
  MaxCrashes = 0
  Metric = "f1"
  Scores <- TwoScores
  MarginNum = 1
  MarginDen = 100
  NoScore = NoScore
  NoVersion = NoVersion
  NoModel = NoModel
  InitialModel = InitialModel
INVARIANT
  NeverWithoutChampion
CHECK_DEADLOCK FALSE
