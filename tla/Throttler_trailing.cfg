CONSTANTS
  D = d
  T = t
  P = p
  Ids = {d, t, p}
  Intervals = {2}
  Steps = {1, 2}
  Raising = TRUE
  None = None
  MaxAge = 2
  Delay = 2
  DebounceArgs = {x, y}
  ThrottleArgs = {x}
  Edges = {FALSE}
  MaxDepth = 2
SPECIFICATION FairSpec

PROPERTIES BufferedFiresAlways
