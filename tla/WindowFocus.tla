------------------------------ MODULE WindowFocus ------------------------------
(***************************************************************************)
(* The windows and controls of a scene and who has the keyboard: the       *)
(* stacking and activation of windows in a panel (panel_control.py,        *)
(* window_control.py), the walk a scene caches (scene.py), the focus       *)
(* managers of controls, windows and the task panel                        *)
(* (gui_do/focus/), and what pointer, Tab and the frame do to them         *)
(* (gui_application.py, keyboard_manager.py).                              *)
(*                                                                         *)
(* One scene holds a root panel with the windows, the controls of their    *)
(* contents, controls of its own and a task panel; the application may     *)
(* also be in another, empty scene.  Handlers and frames run one after the *)
(* other on one thread; between them the program shows, hides, adds and    *)
(* removes what it likes.  Windows and controls are numbers: a control's   *)
(* is its tab index, a window's stands for its control_id.                 *)
(***************************************************************************)
EXTENDS Integers, SequencesExt, FiniteSetsExt

CONSTANTS
    Windows,       \* the windows
    Controls,      \* the controls that accept the focus
    Home,          \* the window a control is in, 0 for the root or task panel
    BarControls,   \* those of the task panel
    MaxProgramOps, \* bound: what the program does between events
    MaxInputs      \* bound: keys and presses

ASSUME WindowFocusAssumption ==
    /\ Windows \cup Controls \subseteq Nat \ {0} /\ Windows \cap Controls = {}
    /\ Home \in [Controls -> Windows \cup {0}]
    /\ BarControls \subseteq {k \in Controls : Home[k] = 0}

VARIABLES
    win,           \* the root panel and the windows' flags
    able,          \* controls that are visible and enabled
    kids,          \* controls that are where Home says; the others are removed
    bar,           \* the task panel is visible and enabled
    walk,          \* the cached walk of the scene, and the windows out of it
    foc,           \* the three focus managers
    capture,       \* pointer_capture.owner_id
    here,          \* the scene is the application's
    frame,         \* what has been since the last frame: "settled", "moved" or "open"
    programOps,
    inputs         \* keys and presses so far

focusVars == <<win, able, kids, bar, walk, foc, capture, here, frame, programOps, inputs>>

None == 0

-----------------------------------------------------------------------------
(* The root panel: its windows, from the bottom to the top.                *)

Usable(w, x)   == x \in w.visible \cap w.enabled
Standing(w)    == SelectSeq(w.order, LAMBDA x : Usable(w, x))
TopVisible(w)  == IF Standing(w) = <<>> THEN None ELSE Last(Standing(w))
NextTop(w, x)  == TopVisible([w EXCEPT !.order = SelectSeq(@, LAMBDA y : y # x)])

(* _set_window_active_state(x, FALSE).                                     *)
Inactive(w, x) == [w EXCEPT !.active = @ \ {x}, !.current = IF @ = x THEN None ELSE @]

(* _clear_active_windows().                                                *)
ClearActive(w) ==
    IF Contains(w.order, w.current) THEN Inactive(w, w.current)
    ELSE LET all == Range(w.order) IN
         [w EXCEPT !.active = @ \ all, !.current = IF @ \in all THEN None ELSE @]

(* _set_active_window().                                                   *)
Activated(w, x) == [w EXCEPT !.active = (@ \ Range(w.order)) \cup {x}, !.current = x]

SetActive(w, x) ==
    LET target == IF Contains(w.order, x) /\ Usable(w, x) THEN x ELSE NextTop(w, x) IN
    IF target = None THEN ClearActive(w) ELSE Activated(w, target)
ActivateTop(w) == IF TopVisible(w) = None THEN ClearActive(w) ELSE SetActive(w, TopVisible(w))
ActivateNext(w, x) == IF NextTop(w, x) = None THEN ClearActive(w) ELSE SetActive(w, NextTop(w, x))

OnTop(w, x)   == IF Contains(w.order, x)
                 THEN [w EXCEPT !.order = Append(SelectSeq(@, LAMBDA y : y # x), x)] ELSE w
AtBottom(w, x) == [w EXCEPT !.order = <<x>> \o SelectSeq(@, LAMBDA y : y # x)]
RaiseWindow(w, x) ==
    LET r == OnTop(w, x) IN IF Usable(w, x) THEN SetActive(r, x) ELSE ActivateTop(r)

(* A drag is broken off; the capture is released at the next event.        *)
DragBroken(w, x) == IF w.drag = x THEN [w EXCEPT !.drag = None, !.release = x] ELSE w

(* _on_window_visibility_changed(), unless the window has been removed.    *)
Shown(w, x) ==
    LET s == [w EXCEPT !.visible = @ \cup {x}] IN
    IF ~Contains(w.order, x) THEN s
    ELSE IF x \in w.enabled THEN SetActive(RaiseWindow(s, x), x)
    ELSE ActivateNext(Inactive(RaiseWindow(s, x), x), x)
Hidden(w, x) ==
    LET h == [w EXCEPT !.visible = @ \ {x}] IN
    IF ~Contains(w.order, x) THEN h ELSE ActivateNext(Inactive(DragBroken(h, x), x), x)

(* _on_window_enabled_changed().                                           *)
Enabled(w, x) ==
    LET e == [w EXCEPT !.enabled = @ \cup {x}] IN
    IF ~Contains(w.order, x) THEN e
    ELSE IF x \notin w.visible THEN Inactive(DragBroken(e, x), x)
    ELSE IF Contains(w.order, w.current) /\ Usable(e, w.current) THEN e
    ELSE SetActive(e, x)
Disabled(w, x) ==
    LET d == [w EXCEPT !.enabled = @ \ {x}]
        off == Inactive(DragBroken(d, x), x)
    IN IF ~Contains(w.order, x) THEN d
       ELSE IF x \in w.visible /\ x \in w.active THEN ActivateNext(off, x) ELSE off

(* remove().                                                               *)
Removed(w, x) ==
    LET r == [Inactive(DragBroken(w, x), x) EXCEPT !.order = SelectSeq(@, LAMBDA y : y # x)] IN
    IF x \in w.active THEN ActivateTop(r) ELSE r

-----------------------------------------------------------------------------
(* The scene.                                                              *)

(* _get_cached_bfs_walk() and _window_query_nodes(): what was there when   *)
(* the walk was made.                                                      *)
InTree == {k \in kids : Home[k] = 0 \/ Contains(win.order, Home[k])}
Tree   == [nodes |-> InTree, order |-> win.order, made |-> TRUE]
Walked == IF walk.made THEN walk ELSE Tree
Unmade == [nodes |-> {}, order |-> <<>>, made |-> FALSE]

(* active_window() and _is_node_in_scene().                                *)
ActiveWindow(w, t) ==
    LET q == SelectSeq(t.order, LAMBDA x : x \in w.active /\ Usable(w, x)) IN
    IF ~here \/ q = <<>> THEN None ELSE Last(q)
InScene(k) == here /\ k \in InTree

WindowOf(k) == IF k \in kids THEN Home[k] ELSE 0
ValidWindow(w, k) == LET x == WindowOf(k) IN x # 0 => Usable(w, x) /\ x \in w.active

-----------------------------------------------------------------------------
(* The focus of controls.                                                  *)

(* set_focus().                                                            *)
SetFocus(f, k, keyboard) ==
    IF f.node = k THEN [f EXCEPT !.hint = k # None /\ (@ \/ keyboard)]
    ELSE IF k = None THEN [f EXCEPT !.node = None, !.hint = FALSE]
    ELSE [f EXCEPT !.node = k, !.hint = keyboard, !.memory[WindowOf(k)] = k]

(* _focusable_nodes(): of the walk, in window x if x is one.               *)
Focusable(w, t, x) ==
    {k \in t.nodes \cap able : here /\ ~(k \in BarControls /\ k \in kids)
                                    /\ ValidWindow(w, k) /\ (x # None => WindowOf(k) = x)}

(* _remembered_focus_for_scope().                                          *)
Remembered(f, x, among) == IF f.memory[x] \in among THEN f.memory[x] ELSE None
Forgotten(f, x, among)  == [f EXCEPT !.memory[x] = Remembered(f, x, among)]

Following(k, among, forward) ==
    LET rest == {j \in among : IF forward THEN j > k ELSE j < k} IN
    IF forward THEN Min(IF rest = {} THEN among ELSE rest)
    ELSE Max(IF rest = {} THEN among ELSE rest)

(* restore_remembered_focus_for_window().                                  *)
(* Mutant: whatever is remembered.                                         *)
RestoredAny(f, w, t, x) == SetFocus(f, f.memory[x], FALSE)
Restored(f, w, t, x) ==
    LET among == Focusable(w, t, x)
        g == Forgotten(f, x, among)
    IN IF f.node \in among THEN f ELSE SetFocus(g, g.memory[x], FALSE)

(* revalidate_focus().                                                     *)
Revalidated(f, w, t) ==
    LET k == f.node
        among == Focusable(w, t, WindowOf(k))
        later == {j \in among : j >= k}
    IN
    IF k = None THEN f
    ELSE IF ~InScene(k) \/ ~ValidWindow(w, k) THEN SetFocus(f, None, FALSE)
    ELSE IF k \in able THEN f
    ELSE IF among = {} THEN SetFocus(f, None, FALSE)
    ELSE SetFocus(f, Min(IF later = {} THEN among ELSE later), FALSE)

(* WindowFocusManager.revalidate().                                        *)
CycleWindows(w, t) == {x \in Range(t.order) : here /\ Usable(w, x)}
WindowRevalidated(f, w, t) ==
    IF f.window = None \/ Usable(w, f.window) THEN f
    ELSE IF CycleWindows(w, t) = {} THEN [f EXCEPT !.window = None, !.windowHint = FALSE]
    ELSE [f EXCEPT !.window = Min(CycleWindows(w, t))]

-----------------------------------------------------------------------------
(* The focus mode of the task panel.                                       *)

BarCandidates == {k \in BarControls \cap kids \cap able : bar}

(* enter(), or cycle() and revalidate() with the focus elsewhere.          *)
IntoBar(f) ==
    LET k == IF f.chosen \in BarCandidates THEN f.chosen ELSE Min(BarCandidates) IN
    [SetFocus(f, k, TRUE) EXCEPT !.chosen = k]

(* exit(): the focus goes back where it was, if it may.                    *)
BackIfValid(f, w) ==
    LET k == f.saved IN
    SetFocus(f, IF k # None /\ InScene(k) /\ k \in able /\ ValidWindow(w, k) THEN k ELSE None, FALSE)
OutOfBar(f, w) ==
    LET g == IF f.node \in BarCandidates THEN [f EXCEPT !.chosen = f.node] ELSE f IN
    [BackIfValid(g, w) EXCEPT !.mode = FALSE, !.saved = None]

(* TaskPanelFocusManager.revalidate().                                     *)
BarRevalidated(f, w) ==
    IF ~f.mode \/ (here /\ f.node \in BarCandidates) THEN f
    ELSE IF ~here \/ BarCandidates = {} THEN OutOfBar(f, w) ELSE IntoBar(f)

-----------------------------------------------------------------------------
(* The frame: the end of GuiApplication.update().                          *)

Frame(hintEnds) ==
    LET t == IF here THEN Walked ELSE Tree
        f0 == IF hintEnds THEN [foc EXCEPT !.hint = FALSE, !.windowHint = FALSE] ELSE foc
        f3 == BarRevalidated(WindowRevalidated(Revalidated(f0, win, t), win, t), win)
        top == ActiveWindow(win, t)
    IN
    /\ foc' = IF top = foc.last THEN f3
              ELSE LET f4 == [f3 EXCEPT !.last = top] IN
                   IF top = None THEN f4 ELSE Restored(f4, win, t, top)
    /\ frame' = IF top \in {foc.last, None} THEN "settled" ELSE "moved"
    /\ walk' = IF here THEN t ELSE walk
    /\ UNCHANGED <<win, able, kids, bar, capture, here, programOps, inputs>>

-----------------------------------------------------------------------------
(* Keys.                                                                   *)

(* end_window_drag(): everything but the picture of it.                    *)
DragEnded(w)      == [w EXCEPT !.drag = None]
CaptureAfter(w)   == IF capture = w.drag THEN None ELSE capture

(* Tab in the task panel, and in the controls of the active window or of   *)
(* the scene: the first only shows where the focus is.                     *)
TabInBar(forward) ==
    /\ foc.mode
    /\ foc' = IF BarCandidates = {} THEN OutOfBar(foc, win)
              ELSE IF foc.node \notin BarCandidates THEN IntoBar(foc)
              ELSE IF ~foc.hint THEN [foc EXCEPT !.hint = TRUE]
              ELSE LET k == Following(foc.node, BarCandidates, forward) IN
                   [SetFocus(foc, k, TRUE) EXCEPT !.chosen = k]
    /\ UNCHANGED <<win, capture, walk>>

Tab(forward) ==
    /\ ~foc.mode
    /\ walk' = Walked
    /\ LET x == ActiveWindow(win, Walked)
           f == IF foc.node # None /\ ~ValidWindow(win, foc.node)
                THEN SetFocus(foc, None, FALSE) ELSE foc
           among == Focusable(win, Walked, x)
           g == Forgotten(f, x, among)
       IN foc' = IF among = {} THEN SetFocus(f, None, FALSE)
                 ELSE IF f.node \notin among
                 THEN SetFocus(g, IF g.memory[x] # None THEN g.memory[x] ELSE Min(among), TRUE)
                 ELSE IF ~f.hint THEN [f EXCEPT !.hint = TRUE]
                 ELSE SetFocus(f, Following(f.node, among, forward), TRUE)
    /\ UNCHANGED <<win, capture>>

(* Ctrl+Tab: a drag ends; the next window is raised and gets its           *)
(* remembered focus.                                                       *)
CtrlTab(forward) ==
    /\ ~foc.mode
    /\ walk' = Walked
    /\ LET windows == CycleWindows(win, Walked)
           x == IF foc.window \notin windows THEN Min(windows)
                ELSE IF ~foc.windowHint THEN foc.window
                ELSE Following(foc.window, windows, forward)
           w == RaiseWindow(DragEnded(win), x)
       IN IF windows = {}
          THEN /\ win' = DragEnded(win)
               /\ foc' = [foc EXCEPT !.window = None, !.windowHint = FALSE]
          ELSE /\ win' = IF Contains(win.order, x) THEN w ELSE DragEnded(win)
               /\ foc' = Restored([foc EXCEPT !.window = x, !.windowHint = TRUE], win', Walked, x)
    /\ capture' = CaptureAfter(win)

ToggleBar ==
    /\ IF foc.mode THEN foc' = OutOfBar(foc, win)
       ELSE /\ BarCandidates # {}
            /\ foc' = IntoBar([foc EXCEPT !.mode = TRUE, !.saved = foc.node])
    /\ UNCHANGED <<win, capture, walk>>

Input == here /\ inputs < MaxInputs /\ inputs' = inputs + 1

KeyPressed ==
    /\ Input
    /\ \/ \E forward \in BOOLEAN : TabInBar(forward) \/ Tab(forward) \/ CtrlTab(forward)
       \/ ToggleBar
    /\ frame' = "open"
    /\ UNCHANGED <<able, kids, bar, here, programOps>>

-----------------------------------------------------------------------------
(* The pointer.                                                            *)

(* on_event_capture(): the capture of a drag that broke off.               *)
CaptureReleased == IF win.release # None /\ capture = win.release THEN None ELSE capture

(* A press over the windows `under` and the controls `hit`: outside the    *)
(* task panel it ends its mode; the focus goes to a control of the window  *)
(* that is on top in the walk.  Then a feature takes the event, or the     *)
(* window on top in the panel is raised, or only made active where the     *)
(* layout has it on top, or is dragged by its title bar.                   *)
Press(under, hit) ==
    LET t == Walked
        f0 == IF foc.mode THEN OutOfBar(foc, win) ELSE foc
        there == SelectSeq(t.order, LAMBDA x : x \in under /\ Usable(win, x))
        tops == SelectSeq(win.order, LAMBDA x : x \in under)
        targets == {k \in hit \cap t.nodes :
                       /\ WindowOf(k) # 0 => Usable(win, WindowOf(k))
                       /\ there # <<>> => WindowOf(k) = Last(there)}
        w == [(IF there = <<>> THEN ClearActive(win) ELSE win) EXCEPT !.release = None]
        x == Last(tops)
    IN
    \E f1 \in IF targets = {} THEN {f0} ELSE {SetFocus(f0, k, FALSE) : k \in targets} :
        \/ foc' = f1 /\ walk' = t /\ UNCHANGED <<win, capture>>
        \/ /\ win.drag = None
           /\ walk' = IF there = <<>> THEN Unmade ELSE t
           /\ \/ tops = <<>> /\ win' = w /\ foc' = f1 /\ capture' = CaptureReleased
              \/ /\ tops # <<>> /\ win' \in {RaiseWindow(w, x), SetActive(w, x)}
                 /\ foc' = f1 /\ capture' = CaptureReleased
              \/ /\ tops # <<>> /\ win' = [RaiseWindow(w, x) EXCEPT !.drag = x]
                 /\ foc' = SetFocus(f1, None, FALSE) /\ capture' = x

(* A press on a control of the task panel, which the windows do not see.   *)
PressBar(k) ==
    /\ k \in BarCandidates /\ k \in Walked.nodes
    /\ walk' = Walked
    /\ foc' = SetFocus(foc, k, FALSE)
    /\ UNCHANGED <<win, capture>>

(* Moving the pointer, and letting go.                                     *)
Move ==
    /\ win.release # None
    /\ win' = [win EXCEPT !.release = None]
    /\ capture' = CaptureReleased
    /\ UNCHANGED <<foc, walk>>
LetGo ==
    /\ win.drag # None
    /\ win' = DragEnded(win)
    /\ capture' = CaptureAfter(win)
    /\ UNCHANGED <<foc, walk>>

Pointer ==
    /\ \/ /\ Input
          /\ \/ \E under \in SUBSET (win.visible \cap win.enabled) :
                   \E hit \in SUBSET {k \in able \ BarControls : WindowOf(k) \in under \cup {0}} :
                      Press(under, hit)
             \/ \E k \in BarControls : PressBar(k)
       \/ here /\ (Move \/ LetGo) /\ UNCHANGED inputs
    /\ frame' = "open"
    /\ UNCHANGED <<able, kids, bar, here, programOps>>

-----------------------------------------------------------------------------
(* What the program does, anywhere between those.                          *)

Program ==
    /\ programOps < MaxProgramOps
    /\ programOps' = programOps + 1
    /\ frame' = "open" /\ UNCHANGED inputs
    /\ \/ /\ \E x \in Windows :
                \/ win' = IF x \in win.visible THEN Hidden(win, x) ELSE Shown(win, x)
                \/ win' = IF x \in win.enabled THEN Disabled(win, x) ELSE Enabled(win, x)
                \/ win' = IF Contains(win.order, x) THEN Removed(win, x)
                          ELSE [win EXCEPT !.order = Append(@, x)]
                \/ Contains(win.order, x) /\ win' = RaiseWindow(win, x)
                \/ Contains(win.order, x) /\ win' = ActivateTop(AtBottom(win, x))
                \/ /\ Contains(win.order, x)
                   /\ win' = IF x \in win.active THEN [win EXCEPT !.active = @ \ {x}]
                             ELSE IF Usable(win, x) THEN SetActive(win, x) ELSE win
          /\ UNCHANGED <<able, kids, bar, walk, foc, capture, here>>
       \/ /\ \E k \in Controls :
                \/ able' = SymDiff(able, {k}) /\ UNCHANGED <<kids, foc>>
                \/ kids' = SymDiff(kids, {k}) /\ UNCHANGED <<able, foc>>
                \/ foc' = SetFocus(foc, k, FALSE) /\ UNCHANGED <<able, kids>>
          /\ UNCHANGED <<win, bar, walk, capture, here>>
       \/ bar' = ~bar /\ UNCHANGED <<win, able, kids, walk, foc, capture, here>>
       \/ /\ here' = ~here                                    \* switch_scene()
          /\ foc' = IF foc.mode THEN OutOfBar(foc, win) ELSE foc
          /\ UNCHANGED <<win, able, kids, bar, walk, capture>>

FocusInit ==
    /\ win = [order |-> SetToSeq(Windows), visible |-> Windows, enabled |-> Windows,
              active |-> {}, current |-> None, drag |-> None, release |-> None]
    /\ able = Controls /\ kids = Controls
    /\ bar = TRUE /\ here = TRUE
    /\ walk = Unmade
    /\ foc = [node |-> None, hint |-> FALSE, memory |-> [x \in Windows \cup {0} |-> None],
              last |-> None, window |-> None, windowHint |-> FALSE,
              mode |-> FALSE, saved |-> None, chosen |-> None]
    /\ capture = None /\ frame = "open" /\ programOps = 0 /\ inputs = 0

FocusNext == Program \/ KeyPressed \/ Pointer \/ \E hintEnds \in BOOLEAN : Frame(hintEnds)

FocusSpec == FocusInit /\ [][FocusNext]_focusVars

-----------------------------------------------------------------------------
FocusTypeOK ==
    /\ win.order \in Seq(Windows)
    /\ {win.visible, win.enabled, win.active} \subseteq SUBSET Windows
    /\ {win.current, win.drag, win.release, capture, foc.last, foc.window}
            \subseteq Windows \cup {None}
    /\ {able, kids, walk.nodes} \subseteq SUBSET Controls
    /\ {foc.node, foc.saved, foc.chosen} \subseteq Controls \cup {None}
    /\ foc.memory \in [Windows \cup {0} -> Controls \cup {None}]

(* At most one window of the panel is active, it is one that can be used,  *)
(* and it is the one the panel takes for active.                           *)
OneActive ==
    /\ win.active \subseteq {win.current}
    /\ \A x \in win.active : Contains(win.order, x) /\ Usable(win, x)

(* The pointer is captured by the window that is dragged, or there is a    *)
(* release under way, however the drag was interrupted; and only a window  *)
(* that can be used is dragged.                                            *)
CaptureIsDrags ==
    /\ capture # None => capture \in {win.drag, win.release}
    /\ win.drag # None => /\ capture = win.drag
                          /\ Contains(win.order, win.drag) /\ Usable(win, win.drag)

(* After a frame the focus is on a control the user can see and use, in a  *)
(* window that is active; unless the walk still has a removed control.     *)
FocusIsLive ==
    (frame # "open" /\ foc.node # None /\ walk.nodes \subseteq kids) =>
        InScene(foc.node) /\ foc.node \in able /\ ValidWindow(win, foc.node)

(* After a frame in which no other window became the active one, a task    *)
(* panel in focus mode has the focus.                                      *)
BarKeepsFocus == (frame = "settled" /\ foc.mode) => here /\ foc.node \in BarCandidates

FocusSafe == OneActive /\ CaptureIsDrags /\ FocusIsLive /\ BarKeepsFocus
=============================================================================
