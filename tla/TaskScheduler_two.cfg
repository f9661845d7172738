CONSTANTS
  Tasks = {t1, t2}
  MaxWorkers = 1
  Handlers = {TRUE}
  QueueLimits = {1}
  UpdateLimits <- OnlyBudgeted
  NoTask = NoTask
  MaxGen = 2
  MaxSends = 1
SYMMETRY Symmetry
SPECIFICATION Spec
INVARIANTS TypeOK TasksPlacedOnce RunningBounded NoSlotLeak
PROPERTIES OnlyCurrentReports StartsCurrent ImplementsLifecycle
CHECK_DEADLOCK FALSE
