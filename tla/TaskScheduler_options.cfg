CONSTANTS
  Tasks = {t1}
  MaxWorkers = 2
  Handlers = {TRUE, FALSE}
  QueueLimits = {0, 1}
  UpdateLimits <- BatchedOrLimited
  NoTask = NoTask
  MaxGen = 2
  MaxSends = 2
SPECIFICATION Spec
INVARIANTS NoLostWakeup SlotsAreHeld SendOrderKept
CHECK_DEADLOCK FALSE
