\* Two coroutines, waiting in every way (a token of no known kind is a Pause), and
\* one topic of the bus that a handler of the program may also be subscribed to.
\* Operations: two calls with one retry, by a run of two steps, and one restart.
CONSTANTS
    Topics = {t}
    Scopes = {}
    NoScope = NoScope
    AllSubs = AllSubs
    Handlers = {h}
    MaxSubs = 2
    MaxNested = 1
    MaxOps = 2
    Cos = {c1, c2}
    None = None
    Kinds = {"other", "sleep", "event", "source", "signal", "until", "all"}
    Sleeps = {2}
    MaxYields = 3
    MaxWaited = 3
    Runs = {r1}
    StepCount = 2
    Keys = {k1}
    MaxCalls = 2
    MaxRetries = 1
    MaxEnqueued = 0
    MaxRestarts = 1
    RecordLimit = 1
    InflightLimit = 1
SPECIFICATION MessagesSpec
INVARIANTS MessagesTypeOK HandlesOnce RunsDoAndUndo
PROPERTIES EachFrameOnce ReadyResumes OperationsSettle
\* The program may start nothing, and use up its bounds.
CHECK_DEADLOCK FALSE
