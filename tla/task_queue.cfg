CONSTANTS
  Tasks = {t1, t2, t3}
  NoTask = NoTask
  MaxBatch = 2
  MaxSignals = 2
SPECIFICATION FairSpec
INVARIANT FinishAnnounced
PROPERTIES IsJobQueue LeftBehindOnlyBy EveryoneProcessed EveryoneFinished
