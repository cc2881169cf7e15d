CONSTANTS
  Videos = {v1}
  Titles = {v1}
  TitleOf <- OwnTitles
  NoVideo = NoVideo
  NoFile = NoFile
  Mislabelled = {}
  Size = 1
  SizeHints = {1}
  MinResume = 1
  MaxConcurrent = 1
  MaxRetries = 1
  MaxPersisted = 1
  MaxCollisionAttempts = 2
  MaxTimers = 1
  Faults = {"space", "dropped", "quit"}
SPECIFICATION Spec
INVARIANT UniqueIds
CHECK_DEADLOCK FALSE
