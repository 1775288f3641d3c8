SPECIFICATION Spec
CONSTANTS
  d1 = d1  d2 = d2
  Uploads = {u1, u2}
  Retrainers = {r1}
  Chats = {c1}
  Adders = {q1}
  Deleters = {d1, d2}
  Kind <- PurgeAndDelete
  MaxVersion = 2
  MaxRequests = 1
  MaxCrashes = 1
SYMMETRY UploadSymmetry
INVARIANTS
  NothingOutlivesTheRun
  DeadPurgeIsRepeatable
  DeletionIsThorough
PROPERTIES
  PurgeTakesOnlyExpired
CHECK_DEADLOCK FALSE
