\* Queue: two records, of which it keeps one when ended, one operation at a time,
\* one retry, one restart.
\* Graphs: every acyclic graph of three nodes that depend on earlier ones, two
\* computed per update.
\* Pipelines: four events, a queue of two, every kind of stage.  Lifecycle: two
\* features with one name and one of any scene.  Undo: entries of one to four
\* commands on a stack of two; two contexts, three changes.  Store: two keys, two
\* calls in three levels of callbacks.  Forms: two fields, two changes.  Provider:
\* two listeners, three loads.  Values: an observer of a value and one of the
\* computed value, two assignments, a batch and an exception.  Tweens: four, two
\* of them by the sequence at once.
\* Animation: three states, four requests.  Timeline: two events, a loop, a region, a
\* callback after a delay and an event added later, three updates.  Cache and pool: two
\* threads, two keys and one place, three lookups; a pool of two objects.  Routed:
\* two setups of a feature.  Collections: a list or an empty dict, two listeners,
\* a view that two may subscribe to, three operations at any depth of callbacks.
CONSTANTS
    a = a
    a2 = a2
    b = b
    w1 = w1
    w2 = w2
    Runs = {}
    StepCount = 1
    Keys = {k1, k2}
    MaxCalls = 2
    MaxRetries = 1
    MaxEnqueued = 2
    MaxRestarts = 1
    RecordLimit = 1
    InflightLimit = 1
    NodeCount = 3
    NodesPerUpdate = 2
    EventCount = 4
    QueueSize = 2
    StageLists <- Stages2
    Interval = 2
    WindowSize = 2
    Instances = {a, a2, b}
    NameOf <- Names2
    SceneOf <- Scenes2
    LogicFeatures = {a}
    Routed = {a, a2}
    Scenes = {"s1", "s2"}
    AnyScene = "any"
    Histories = {h1}
    Contexts = {k1, k2}
    Watchers = {w1, w2}
    UndoSize = 2
    MaxCommands = 4
    MaxSwitches = 3
    NoContext = NoContext
    StateKeys = {"x", "y"}
    Values = {0, 1}
    Subscribers = {w1, w2}
    KeyOf <- KeyOf2
    Selectors = {"both"}
    DependsOn <- Depends2
    MaxPatches = 2
    MaxDepth = 3
    Fields = {1, 2}
    FieldValues = {"good", "bad", "taken"}
    Malformed = {"bad"}
    Taken = {"taken"}
    Debounce = 2
    MaxEdits = 2
    Job = Job
    ListenerCount = 2
    MaxLoads = 3
    First = First
    Second = Second
    Off = 0
    Contents = {0, 1, 2}
    Observers = {w1, w2}
    OfComputed = {w2}
    Computed = Computed
    MaxAssigned = 2
    MaxBlocks = 1
    MaxRaised = 1
    Durations = {0, 2}
    Animation <- Groups2
    MaxTweens = 4
    MaxFrames = 2
    AnimStates = {"idle", "hover", "press"}
    StepsIn <- StepsIn2
    NoState = "none"
    OnStateChange = 2
    MaxRequests = 4
    MaxTelling = 2
    EventTimes <- Times2
    LaterTimes = {2}
    AfterPlay <- Delays2
    LoopInterval = 2
    RegionStart = 1
    RegionEnd = 3
    SetDuration = 0
    Deltas = {1, 2}
    MaxTimed = 4
    MaxUpdates = 3
    MaxAdvances = 3
    CacheThreads = {t1, t2}
    CacheKeys = {k1, k2}
    CacheSize = 1
    MaxVersion = 1
    MaxExpired = 1
    MaxCached = 3
    PoolSize = 2
    MaxObjects = 2
    MaxAcquired = 3
    MaxPasses = 2
    Followers = {w1, w2}
    Foremost = w1
    ViewListener = ViewListener
    ViewWatchers = {w1, w2}
    NewItems = {3}
    NewLists <- Lists2
    DictKeys = {"x", "y"}
    DictValues = {1, 2}
    NewEntries <- Entries2
    StartList <- List2
    StartView <- View2
    Filtered = {3}
    Queries <- Queries2
    MaxUses = 3
SPECIFICATION AllSpec
INVARIANTS AllTypeOK DurableKept UpdatesSafe FeaturesSafe UndoSafe CallbacksSafe AnswersSafe
CHECK_DEADLOCK FALSE
