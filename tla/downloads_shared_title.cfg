CONSTANTS
  Videos = {v1, v2, v3}
  Titles = {v1, v2, v3}
  TitleOf <- OneTitle
  NoVideo = NoVideo
  NoFile = NoFile
  Mislabelled = {}
  Size = 1
  SizeHints = {1}
  MinResume = 1
  MaxConcurrent = 1
  MaxRetries = 0
  MaxPersisted = 1
  MaxCollisionAttempts = 2
  MaxTimers = 1
  Faults = {}
SPECIFICATION Spec
PROPERTY NothingOverwritten
CHECK_DEADLOCK FALSE
