SPECIFICATION Spec
CONSTANTS
  s1 = s1
  s2 = s2
  Interval <- Intervals
  Chain <- Scripts
  Starters = {api, worker}
  Copies = {2, 3}
  Sentinel = "runs"
  MaxDeaths = 2
  Nobody = Nobody
  Schedules = {s1, s2}
  Crons = {c1}
  Workers = {w1}
  MaxDue = 1
  MaxSlips = 1
  MaxFaults = 1
  MaxQueued = 2
  NoSchedule = NoSchedule
  Tokens = {t1}
  Visitors = {v1, v2}
  Asked = {0, 1, 3}
  DefaultTtl = 1
  MaxTtl = 2
  MaxEras = 2
  NoToken = NoToken
  Calls = {x1}
  Bins = 5
  Unit = 60
  MaxCategories = 2
  LogCap = 12
  SampleSize = 11
  MinRows = 8
  Trainings <- SomeTrainings
  Batches <- SomeBatches
  MaxLogged = 2
  Ln <- Logarithms
  LnEpsilon <- OfEpsilon
  Nothing = Nothing
INVARIANTS
  HeadIsWhole
  OneReportPerInterval
  EndedStaysShut
  NothingRunsOn
  StatusMatchesMove
  SampleIsEven
PROPERTIES
  StartsSucceed
  DueIsProcessed
  CallsAndStraysEnd
CHECK_DEADLOCK FALSE
