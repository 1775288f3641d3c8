SPECIFICATION FairSerialSpec
CONSTANTS
  h1 = h1
  h2 = h2
  r2 = r2
  Hosts = {h1, h2}
  HostOf <- TwoHosts
  Uploads = {u1}
  Retrainers = {r1, r2}
  Predictors = {q1}
  VersionIds = {v1, v2, v3}
  MaxVersion = 3
  MaxCrashes = 1
  Metric = "f1"
  Scores <- TwoScores
  MarginNum = 1
  MarginDen = 100
  NoScore = NoScore
  NoVersion = NoVersion
  NoModel = NoModel
  InitialModel = InitialModel
INVARIANTS
  OneChampion
  AnswersNameTheirModel
PROPERTIES
  KeepsRegistryContract
  ChampionReachesBucket
CHECK_DEADLOCK FALSE
