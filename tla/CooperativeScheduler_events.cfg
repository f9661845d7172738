\* One coroutine waits for an event of one topic, then of the other.
CONSTANTS
    Topics = {t1, t2}
    Scopes = {}
    NoScope = NoScope
    AllSubs = AllSubs
    Handlers = {}
    MaxSubs = 2
    MaxNested = 1
    MaxOps = 2
    Cos = {c1}
    None = None
    Kinds = {"event"}
    Sleeps = {}
    MaxYields = 2
    MaxWaited = 1
SPECIFICATION CoopSpec
INVARIANT WokenByItsEvent
CHECK_DEADLOCK FALSE
