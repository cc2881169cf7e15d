CONSTANTS
  Videos = {v1}
  Titles = {v1}
  TitleOf <- OwnTitles
  NoVideo = NoVideo
  NoFile = NoFile
  Mislabelled = {v1}
  Size = 2
  SizeHints = {0}
  MinResume = 1
  MaxConcurrent = 1
  MaxRetries = 1
  MaxPersisted = 1
  MaxCollisionAttempts = 2
  MaxTimers = 1
  Faults = {"open", "write", "truncate", "rename", "files", "parts", "dropped", "http", "quit"}
SPECIFICATION Spec
INVARIANTS ResumeInStep CompletedIsWhole
PROPERTY NothingOverwritten
VIEW DiskView
CHECK_DEADLOCK FALSE
