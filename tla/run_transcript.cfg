SPECIFICATION Spec
CONSTANTS
  d1 = d1  d2 = d2
  Uploads = {u1}
  Retrainers = {}
  Chats = {c1}
  Adders = {}
  Deleters = {d2}
  Kind <- PurgeAndDelete
  MaxVersion = 1
  MaxRequests = 1
  MaxCrashes = 0
INVARIANT TranscriptGoesWithTheRun
CHECK_DEADLOCK FALSE
