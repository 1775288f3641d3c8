SPECIFICATION MCSpec
CONSTANTS
  MarginNum = 1
  MarginDen = 4
  NoScore = NoScore
  ScoreRange <- SmallScores
  Clients = {r1, r2}
  Conversations = {c1}
  MaxCalls = 1
  MaxMessages = 1
  TokenBudget = 5
  MaxSteps = 1
  ListLimit = 3
  Sizes = {1, 2}
  MaxAsks = 3
  MaxFaults = 1
  Registry <- SomeLearners
  Tunable = {"RandomForest", "SVM"}
  MaxModels = 3
  Orders <- SomeOrders
  Means = {1, 2}
  Spreads = {0, 1}
  Errors = {3, 7, 12}
  MaxRetrains = 1
  Nothing = Nothing
INVARIANT ConfidenceIsHonest
CHECK_DEADLOCK FALSE
