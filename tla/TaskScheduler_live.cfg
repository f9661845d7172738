CONSTANTS
  Tasks = {t1}
  MaxWorkers = 1
  Handlers = {TRUE}
  QueueLimits = {1}
  UpdateLimits <- OnlyBudgeted
  NoTask = NoTask
  MaxGen = 2
  MaxSends = 2
SPECIFICATION FairSpec
PROPERTIES SendersReleased RunningEnds ShutdownEndsThreads
CHECK_DEADLOCK FALSE
