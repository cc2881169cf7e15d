CONSTANTS
  Videos = {v1, v2}
  Titles = {v1, v2}
  TitleOf <- OwnTitles
  NoVideo = NoVideo
  NoFile = NoFile
  Mislabelled = {}
  Size = 2
  SizeHints = {2}
  MinResume = 1
  MaxConcurrent = 1
  MaxRetries = 1
  MaxPersisted = 1
  MaxCollisionAttempts = 1
  MaxTimers = 1
  Faults = {"dropped", "files", "quit"}
SPECIFICATION BarSpec
INVARIANTS TypeOK SlotCap NoStall RegistriesAgree HidesOnlyEnded ShowsLatest
PROPERTY EveryoneServed
CHECK_DEADLOCK FALSE
