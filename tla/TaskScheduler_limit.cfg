CONSTANTS
  Tasks = {t1}
  MaxWorkers = 1
  Handlers = {TRUE}
  QueueLimits = {1}
  UpdateLimits <- OnlyBatched
  NoTask = NoTask
  MaxGen = 3
  MaxSends = 2
SPECIFICATION Spec
INVARIANTS QueueLimitKept
CHECK_DEADLOCK FALSE
