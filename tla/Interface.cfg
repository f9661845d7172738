\* Bus: one topic and one scope; three subscriptions, with and without the
\* scope, for good or once; publishes nested two deep.
\* Scenes: two, one of which may be removed and made again, one task id in each of
\* their schedulers, and two toasts of which one fits on the screen.
\* Overlays: a panel that takes the focus, the palette, menus and dialogs,
\* three overlays and four operations of the program, two scenes.  Focus: two windows, a control of the
\* second, one of the scene and one of the task panel.
\* Router: two routes, one guard, two listeners, two navigations that nest.  Flow:
\* three steps, six moves.  Drags: two, over two targets.
\* Text: at most three letters of three kinds, lines of two.  Rows: three items,
\* two in view.  Tree: five nodes, two in view.  Selections: three items.
\* Windows: three of two widths, one of each effect, and three acts.
CONSTANTS
    Topics = {t}
    Scopes = {sc}
    NoScope = NoScope
    AllSubs = AllSubs
    Handlers = {h}
    MaxSubs = 3
    MaxNested = 2
    MaxOps = 5
    Scenes = {default, s3}
    Default = default
    Tasks = {t1}
    Toasts = {x1, x2}
    MaxVisible = 1
    NoScene = NoScene
    Panels = {p}
    FocusPanels = {p}
    Palette = Palette
    OverlayScenes = {s1, s2}
    MaxShown = 3
    MaxOverlayOps = 4
    Windows = {11, 12}
    Controls = {1, 2, 4}
    BarControls = {4}
    Home <- HomeMap
    MaxProgramOps = 2
    MaxInputs = 2
    Routes = {"r1", "r2"}
    RouteSceneOf <- RouteScenes
    Nowhere = Nowhere
    GuardCount = 1
    RouteListeners = {l1, l2}
    StartHistories <- Histories2
    MaxNavigations = 2
    MaxRouting = 3
    StepsInFlow = 3
    MaxMoves = 6
    MaxHooks = 5
    DropTargets = {x, y}
    NoTarget = NoTarget
    MaxDrags = 2
    MaxMotions = 3
    Editors = {"input", "area", "read only"}
    Letters = {"a", " ", "newline"}
    Typed <- TypedTexts
    Replacements <- ProgramTexts
    MaxText = 3
    LineWidth = 2
    RowKinds = {"list", "multi", "grid"}
    Items = {"p", "q", "r"}
    Viewport = 2
    TreeNodes = {"p", "q", "r", "s", "t"}
    NoNode = NoNode
    Children <- TreeChildren
    RootLists <- TreeRoots
    TreeViewport = 2
    Modes = {"single", "multi", "range"}
    MaxCount = 3
    TiledWindows = {"a", "b", "c"}
    WindowWidth <- WidthMap
    WindowHeight <- HeightMap
    Bounds <- Area
    Padding = 5
    Gap = 10
    Effects <- EffectMap
    StartShown = {"a", "b"}
    StartPlaces <- AllAt
    TitleSpot <- OnTitle
    BodySpot <- OnBody
    Pointers <- MousePlaces
    NoWindow = NoWindow
    MaxActs = 3
SPECIFICATION InterfaceSpec
INVARIANTS InterfaceTypeOK ListsAgree OnlyActiveExecutes SwitchedTasksReturn ProgramTasksStay  OverlaysSafe 
PROPERTIES DeliveryExact
SYMMETRY Symmetry
CHECK_DEADLOCK FALSE
