CONSTANTS
  Videos = {v1}
  Titles = {v1}
  TitleOf <- OwnTitles
  NoVideo = NoVideo
  NoFile = NoFile
  Mislabelled = {}
  Size = 2
  SizeHints = {2}
  MinResume = 1
  MaxConcurrent = 1
  MaxRetries = 0
  MaxPersisted = 1
  MaxCollisionAttempts = 1
  MaxTimers = 1
  Faults = {"flush"}
SPECIFICATION Spec
INVARIANT CompletedIsWhole
CHECK_DEADLOCK FALSE
