CONSTANTS
  Videos = {v1}
  Titles = {v1}
  TitleOf <- OwnTitles
  NoVideo = NoVideo
  NoFile = NoFile
  Mislabelled = {}
  Size = 1
  SizeHints = {0}
  MinResume = 1
  MaxConcurrent = 1
  MaxRetries = 1
  MaxPersisted = 1
  MaxCollisionAttempts = 1
  MaxTimers = 1
  Faults = {"dropped"}
SPECIFICATION Spec
PROPERTY RangeRefusedIsSuccess
CHECK_DEADLOCK FALSE
