\* Two subscriptions, of which one takes itself back.
CONSTANTS
    Topics = {t}
    Scopes = {sc}
    NoScope = NoScope
    AllSubs = AllSubs
    Handlers = {h}
    MaxSubs = 3
    MaxNested = 2
    MaxOps = 4
SPECIFICATION BusSpec
PROPERTY NoneSkipped
CHECK_DEADLOCK FALSE
