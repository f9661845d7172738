CONSTANTS
  D = d
  T = t
  P = p
  Ids = {d, t, p}
  Intervals = {2}
  Steps = {1, 2}
  Raising = TRUE
  None = None
  MaxAge = 4
  Delay = 2
  DebounceArgs = {x, y}
  ThrottleArgs = {x}
  Edges = {TRUE, FALSE}
  MaxDepth = 2
SPECIFICATION FairSpec
INVARIANTS TypeOK LimitersAreArmed
PROPERTIES TimersSafe FiresRight Fires
