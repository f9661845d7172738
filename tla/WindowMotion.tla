----------------------------- MODULE WindowMotion -----------------------------
(***************************************************************************)
(* Windows that are shown, hidden, raised, lowered and dragged, and the    *)
(* layout that moves them: set_window_visible_state() of                   *)
(* gui_do/features/feature_lifecycle.py, the operations of                 *)
(* WindowLayoutHandler (layout/window_layout_handler.py), the visibility   *)
(* transition (graphics/window_visibility_transition.py), the panel that   *)
(* holds the windows and the buttons that toggle them.                     *)
(*                                                                         *)
(* A handler changes the windows several times in a row; each change is a  *)
(* function of `desk`.  A tween takes two frames, and so does a transition *)
(* that is not turned back.  Which window is active is in WindowFocus.     *)
(***************************************************************************)
EXTENDS WindowLayout

CONSTANTS
    Effects,       \* of each window: "none", "hide_show" or "grow_shrink"
    StartShown, StartPlaces,
    TitleSpot, BodySpot,   \* where in a window it is pressed
    Pointers,      \* where the mouse may go
    NoWindow,      \* None
    MaxActs        \* bound: what the user and the program do

ASSUME MotionAssumption ==
    /\ Effects \in [TiledWindows -> {"none", "hide_show", "grow_shrink"}]
    /\ StartShown \subseteq TiledWindows /\ StartPlaces \in [TiledWindows -> Nat \X Nat]
    /\ {TitleSpot, BodySpot} \cup Pointers \subseteq Nat \X Nat /\ NoWindow \notin TiledWindows /\ MaxActs \in Nat

VARIABLES
    desk,        \* the windows: z (panel.children), shown (visible), at (rect), goal
                 \* (_window_tiling_target_rect, <<>> for none), flying (_window_tiling_animating),
                 \* tween (what of it is in TweenManager), layers (_last_solve_layers), dragged
                 \* (_drag_window); history: tidy, all is where the last arrangement put it,
                 \* and strayed, the windows that were placed while a tween of theirs went on
    fade,        \* visibility_transition_controller of each window
    layoutOn,    \* enabled
    pushed,      \* the windows whose toggle is
    grip,        \* _drag_offset
    held,        \* _drag_last_pos
    preview,     \* _drag_preview_window, _drag_preview_plan and _drag_preview_rects
    acts,        \* bound
    disturbed,   \* history: the dragged window was moved, or the others arranged, in the drag
    front, back  \* history: the window that was brought to the front, sent to the back, last

motionVars == <<desk, fade, layoutOn, pushed, grip, held, preview, acts, disturbed,
                front, back>>

Still == <<>>
NoPreview == [window |-> NoWindow, plan |-> <<>>, rects |-> <<>>]

Visible(d) == SelectSeq(d.z, LAMBDA w : w \in d.shown)
TopShown(d) == IF d.shown = {} THEN NoWindow ELSE Last(Visible(d))

-----------------------------------------------------------------------------
(* Changes of the windows.                                                 *)
Raised(d, w)  == [d EXCEPT !.z = Append(SelectSeq(d.z, LAMBDA v : v # w), w)]
Lowered(d, w) == [d EXCEPT !.z = <<w>> \o SelectSeq(d.z, LAMBDA v : v # w)]

(* The setter of `visible`, and the panel's answer to a change.            *)
WithVisible(d, w, v) ==
    LET s == [d EXCEPT !.shown = IF v THEN @ \cup {w} ELSE @ \ {w}, !.tidy = FALSE] IN
    IF v = (w \in d.shown) THEN d
    ELSE IF v THEN Raised(s, w)
    ELSE [s EXCEPT !.dragged = IF @ = w THEN NoWindow ELSE @]

StopMotion(d, w) == [d EXCEPT !.flying = @ \ {w}, !.tween[w] = Still, !.strayed = @ \ {w}]

(* A tween that was not cancelled goes on moving the window.               *)
KeepTween(d, w) == [d EXCEPT !.strayed = IF d.tween[w] = Still THEN @ \ {w} ELSE @ \cup {w}]
AtOnce(d, w, p) == [KeepTween(d, w) EXCEPT !.flying = @ \ {w}, !.at[w] = p]

Animate(d, w, p) ==
    IF d.at[w] = p THEN AtOnce(d, w, p)
    ELSE [d EXCEPT !.flying = @ \cup {w}, !.strayed = @ \ {w},
                   !.tween[w] = [from |-> d.at[w], last |-> d.at[w], to |-> p, ticks |-> 0]]

(* _apply_targets() leaves a window alone that is where it goes.           *)
MoveTo(d, w, p, now) ==
    LET g == [d EXCEPT !.goal[w] = p] IN
    IF d.at[w] = p THEN KeepTween(g, w)
    ELSE IF now THEN AtOnce(g, w, p) ELSE Animate(g, w, p)

MoveAlone(d, w, p, now) ==
    LET g == [d EXCEPT !.goal[w] = p, !.tidy = TRUE] IN
    IF now THEN AtOnce(g, w, p) ELSE Animate(g, w, p)

Far(d, w, by) == Apart(d.at[w][1], d.goal[w][1]) > by \/ Apart(d.at[w][2], d.goal[w][2]) > by
Reference(d, w) == IF Far(d, w, IF w \in d.flying THEN 64 ELSE 4) THEN d.at[w] ELSE d.goal[w]

(* The windows in a new order, with forced rows; those of `but` stay, and  *)
(* then so does the order in which they are drawn.                         *)
Solved(d, plan, behind, before, atOnce, but) ==
    LET Placed(layout, all) ==
          LET Move(e, w) == IF w \in but THEN e
                            ELSE MoveTo(e, w, InBounds(w, layout.places[w]), w \in atOnce)
          IN FoldLeft(Move,
                      IF but # {} THEN d
                      ELSE [d EXCEPT !.z = ReorderContainer(@, LayerOrder(layout.layers, behind, before)),
                                     !.layers = layout.layers, !.tidy = TRUE],
                      all)
    IN UNION {{Placed(layout, all) : all \in {FlattenSeq(layout.layers)}} : layout \in LayoutOf(plan)}

(* arrange_windows(); rowsOf: preserve_existing_rows.                      *)
ArrangeWindows(d, newly, raised, lowered, atOnce, rowsOf) ==
    LET Plans(s, known) ==
          IF ~rowsOf THEN {[order |-> s, force |-> {}]}
          ELSE UNION {RowPreserving(s, known, at) : at \in {[w \in known |-> Reference(d, w)]}}
        Rested(known) == IF rowsOf /\ Cardinality(known) > 1
                         THEN [d EXCEPT !.flying = {w \in @ : w \in known => ~Far(d, w, 64)}] ELSE d
    IN UNION {
         IF s = <<>> THEN {d}
         ELSE IF Len(s) = 1
         THEN {MoveAlone(d, w, InBounds(w, CentredPlace(w)), w \in atOnce) : w \in {s[1]}}
         ELSE UNION {Solved(e, plan, behind, before, atOnce, {}) :
                       e \in {Rested(known)}, plan \in Plans(s, known),
                       behind \in {lowered \cap d.shown}, before \in {(raised \cup newly) \cap d.shown}} :
         s \in {Visible(d)}, known \in {{w \in d.shown \ newly : d.goal[w] # Still}}}

ArrangeForDrop(d, w, point, lowered, raised) ==
    UNION {
      IF w \notin d.shown THEN ArrangeWindows(d, {}, {}, {}, {}, FALSE)
      ELSE IF others = <<>> THEN {MoveAlone(d, w, InBounds(w, CentredPlace(w)), FALSE)}
      ELSE UNION {Solved(d, plan, lowered, raised, {}, {}) :
                     plan \in InsertionPlan(w, point, others, d.at, d.z)} :
      others \in {SelectSeq(Visible(d), LAMBDA v : v # w)}}

(* set_window_visible_state(), but for the transition and the toggle: the  *)
(* window is shown or hidden, and then the windows are arranged.           *)
SetVisibleState(d, w, v) ==
    LET moved == StopMotion(d, w) IN
    IF v = (w \in d.shown) THEN d
    ELSE WithVisible(IF v THEN Raised(moved, w) ELSE Lowered(moved, w), w, v)

ArrangedWith(d, w, v, was) ==
    IF ~layoutOn THEN {d}
    ELSE IF v THEN ArrangeWindows(d, {w}, IF was THEN {} ELSE {w}, {},
                                  IF Effects[w] = "none" THEN {} ELSE {w}, TRUE)
    ELSE ArrangeWindows(d, {}, {TopShown(d)}, {}, {}, TRUE)

-----------------------------------------------------------------------------
(* The transition of a window.  Its progress is 0, 1 or between.           *)
BaseDuration == 2

FadeProgress(f) == IF ~f.active THEN f.target ELSE IF f.elapsed = 0 THEN f.start ELSE "between"

(* A transition that is turned back takes the time that it took.           *)
BeginTransition(d, w, v) ==
    LET f == fade[w]
        target == IF v THEN "shown" ELSE "hidden"
        left == IF ~f.active THEN BaseDuration
                ELSE IF target # f.target THEN f.elapsed ELSE f.duration - f.elapsed
    IN IF Effects[w] = "none" THEN fade
       ELSE [fade EXCEPT ![w] =
              [active |-> FadeProgress(f) # target, start |-> FadeProgress(f), target |-> target,
               elapsed |-> 0, duration |-> IF left = 0 THEN BaseDuration ELSE left,
               frozen |-> IF Effects[w] # "hide_show" \/ ~v THEN Still
                          ELSE IF d.goal[w] = Still THEN d.at[w] ELSE d.goal[w]]]

(* The end of showing puts the window where it is to be.                   *)
HandOff(d, w, f) ==
    LET p == IF f.frozen = Still THEN d.goal[w]
             ELSE IF d.goal[w] = Still THEN f.frozen
             ELSE IF Apart(d.goal[w][1], f.frozen[1]) > 1 \/ Apart(d.goal[w][2], f.frozen[2]) > 1
             THEN d.goal[w] ELSE f.frozen
    IN IF f.target # "shown" \/ p = Still THEN d
       ELSE [StopMotion(d, w) EXCEPT !.at[w] = p, !.goal[w] = p]

-----------------------------------------------------------------------------
(* What the user and the program do.                                       *)
Act == acts < MaxActs /\ acts' = acts + 1
Dragged == desk.dragged

(* A window that is raised or hidden in the drag ends it or disturbs it.   *)
Disturbs == disturbed' = (desk'.dragged # NoWindow)

Sets(w, v) ==
    /\ \E d \in {SetVisibleState(desk, w, v)} : desk' \in ArrangedWith(d, w, v, w \in desk.shown)
    /\ fade' = BeginTransition(desk', w, v)
    /\ front' = IF v THEN IF layoutOn \/ w \notin desk.shown THEN w ELSE front
                ELSE IF front = w THEN NoWindow ELSE front
    /\ back' = NoWindow
    /\ Disturbs
    /\ UNCHANGED <<layoutOn, grip, held, preview>>

(* The presentation model's set_visible(), of the program or the title     *)
(* bar's control; the toggle follows.                                      *)
SetVisible(w, v) ==
    /\ Act /\ Sets(w, v)
    /\ pushed' = IF v THEN pushed \cup {w} ELSE pushed \ {w}

(* raise_window() with its relayout.                                       *)
Raises(w) ==
    /\ \E d \in {Raised(desk, w)} :
          desk' \in IF layoutOn THEN ArrangeWindows(d, {}, {w}, {}, {}, FALSE) ELSE {d}
    /\ front' = w /\ back' = NoWindow
    /\ UNCHANGED <<fade, layoutOn, grip, held, preview, disturbed>>

(* The window's button: a press shows or raises, a right press hides.      *)
PressToggle(w) ==
    /\ Act /\ Dragged = NoWindow
    /\ pushed' = pushed \cup {w}
    /\ IF w \in desk.shown THEN Raises(w) ELSE Sets(w, TRUE)

RightPressToggle(w) ==
    /\ Act /\ Dragged = NoWindow
    /\ w \in desk.shown \cup pushed
    /\ pushed' = pushed \ {w} /\ Sets(w, FALSE)

(* The topmost window under the mouse.                                     *)
TopAt(p) ==
    LET s == SelectSeq(desk.z, LAMBDA w : /\ w \in desk.shown
                                          /\ desk.at[w][1] <= p[1] /\ p[1] < desk.at[w][1] + WindowWidth[w]
                                          /\ desk.at[w][2] <= p[2] /\ p[2] < BottomOf(w, desk.at[w]))
    IN IF s = <<>> THEN NoWindow ELSE Last(s)
Spot(w, offset) == <<desk.at[w][1] + offset[1], desk.at[w][2] + offset[2]>>

(* A press into the title bar begins a drag: nothing moves the window but  *)
(* the mouse, and where it is becomes its goal.                            *)
(* Mutant: its tween goes on.                                              *)
Freed(d, w)   == [StopMotion(d, w) EXCEPT !.goal[w] = d.at[w], !.tidy = FALSE]
Unfreed(d, w) == [d EXCEPT !.goal[w] = d.at[w], !.tidy = FALSE]

PressTitle(w) ==
    /\ Act /\ Dragged = NoWindow
    /\ w \in desk.shown /\ TopAt(Spot(w, TitleSpot)) = w
    /\ desk' = [Freed(Raised(desk, w), w) EXCEPT !.dragged = w]
    /\ grip' = TitleSpot /\ held' = Spot(w, TitleSpot)
    /\ preview' = NoPreview /\ disturbed' = FALSE
    /\ front' = w /\ back' = NoWindow
    /\ UNCHANGED <<fade, layoutOn, pushed>>

(* A press elsewhere raises a window that another one overlaps.            *)
PressBody(w) ==
    /\ Act /\ Dragged = NoWindow
    /\ w \in desk.shown /\ TopAt(Spot(w, BodySpot)) = w
    /\ LET above == {i \in DOMAIN desk.z : /\ desk.z[i] \in desk.shown
                                           /\ \E j \in 1..(i - 1) : desk.z[j] = w}
           covered == \E i \in above : Overlap(w, desk.at[w], desk.z[i], desk.at[desk.z[i]])
       IN covered /\ Raises(w)
    /\ UNCHANGED pushed

(* The title bar's other control, or lower_window().                       *)
Lower(w) ==
    /\ Act /\ Dragged = NoWindow /\ w \in desk.shown
    /\ \E d \in {Lowered(desk, w)},
          under \in {<<MiddleOf(w, desk.at[w]), Bounds.bottom + LargerOf(4, 2 * Gap)>>} :
          desk' \in IF layoutOn THEN ArrangeForDrop(d, w, under, {w}, {}) ELSE {d}
    /\ front' = NoWindow /\ back' = w
    /\ UNCHANGED <<fade, layoutOn, pushed, grip, held, preview, disturbed>>

-----------------------------------------------------------------------------
(* The drag.                                                               *)

(* arrange_windows_during_drag(): the others make room where the window    *)
(* would go, by the places that they were given before and not by those    *)
(* where they are meanwhile.                                               *)
Previewed(d, w, point) ==
    LET others == SelectSeq(Visible(d), LAMBDA v : v # w)
        valid  == preview.window = w /\ DOMAIN preview.rects = ToSet(others)
        at     == IF valid THEN preview.rects ELSE d.at
    IN \E plan \in InsertionPlan(w, point, others, at, d.z) :
         IF ~layoutOn \/ others = <<>> \/ (valid /\ plan = preview.plan)
         THEN desk' = d /\ UNCHANGED preview
         ELSE /\ desk' \in Solved(d, plan, {}, {}, {}, {w})
              /\ \E layout \in LayoutOf(plan) :
                    preview' = [window |-> w, plan |-> plan,
                                rects |-> [v \in ToSet(others) |-> layout.places[v]]]

DragTo(p) ==
    /\ Act /\ Dragged # NoWindow
    /\ \E at \in {InBounds(Dragged, <<p[1] - grip[1], p[2] - grip[2]>>)} :
          /\ held' = <<at[1] + grip[1], at[2] + grip[2]>>
          /\ \E d \in {[desk EXCEPT !.at[Dragged] = at, !.tidy = FALSE]} : Previewed(d, Dragged, held')
    /\ UNCHANGED <<fade, layoutOn, pushed, grip, disturbed, front, back>>

(* end_window_drag().                                                      *)
Drop ==
    /\ Dragged # NoWindow
    /\ \E d \in {[desk EXCEPT !.dragged = NoWindow]} :
          desk' \in IF layoutOn THEN ArrangeForDrop(d, Dragged, held, {}, {Dragged}) ELSE {d}
    /\ front' = IF layoutOn THEN Dragged ELSE front
    /\ back' = NoWindow
    /\ preview' = NoPreview /\ disturbed' = FALSE
    /\ UNCHANGED <<fade, layoutOn, pushed, grip, held, acts>>

(* set_window_layout_enabled() and its toggle.                             *)
SetLayout(on) ==
    /\ Act /\ on # layoutOn
    /\ layoutOn' = on
    /\ desk' \in IF on THEN ArrangeWindows(desk, {}, {}, {}, {}, FALSE) ELSE {desk}
    /\ Disturbs /\ back' = NoWindow
    /\ UNCHANGED <<fade, pushed, grip, held, preview, front>>

-----------------------------------------------------------------------------
(* A frame: the tweens, then the transitions.                              *)
Tweened(d, w) ==
    LET t == d.tween[w]
        next == IF t.ticks = 1 THEN t.to
                ELSE <<RoundedMean(t.from[1] + t.to[1], 2), RoundedMean(t.from[2] + t.to[2], 2)>>
        moved == [d EXCEPT !.at[w] = <<@[1] + next[1] - t.last[1], @[2] + next[2] - t.last[2]>>]
    IN IF t = Still THEN d
       ELSE IF t.ticks = 1 THEN [moved EXCEPT !.flying = @ \ {w}, !.tween[w] = Still]
       ELSE [moved EXCEPT !.tween[w].ticks = 1, !.tween[w].last = next]

Ends(f) == f.active /\ f.elapsed + 1 >= f.duration
Faded(d, w) == IF Ends(fade[w]) THEN HandOff(d, w, fade[w]) ELSE d

MotionFrame ==
    /\ \E w \in TiledWindows : desk.tween[w] # Still \/ fade[w].active
    /\ desk' = FoldLeft(Faded, FoldLeft(Tweened, desk, desk.z), desk.z)
    /\ fade' = [w \in TiledWindows |->
                  IF ~fade[w].active THEN fade[w]
                  ELSE [fade[w] EXCEPT !.elapsed = @ + 1, !.active = ~Ends(fade[w]),
                                       !.start = IF Ends(fade[w]) THEN fade[w].target ELSE @]]
    /\ disturbed' = (disturbed \/ (Dragged # NoWindow /\ Ends(fade[Dragged])))
    /\ UNCHANGED <<layoutOn, pushed, grip, held, preview, acts, front, back>>

-----------------------------------------------------------------------------
NoFade(w) == LET p == IF w \in StartShown THEN "shown" ELSE "hidden" IN
    [active |-> FALSE, start |-> p, target |-> p, elapsed |-> 0, duration |-> 0, frozen |-> Still]

(* initialize_window_positions(): the layout is on, and places at once.    *)
MotionInit ==
    /\ LET z == SetToSeq(TiledWindows) IN
       desk \in ArrangeWindows([z |-> z, shown |-> StartShown, at |-> StartPlaces, goal |-> [w \in TiledWindows |-> Still],
                              flying |-> {}, tween |-> [w \in TiledWindows |-> Still],
                              layers |-> <<>>, dragged |-> NoWindow, tidy |-> FALSE, strayed |-> {}],
                             {}, {}, {}, TiledWindows, FALSE)
    /\ fade = [w \in TiledWindows |-> NoFade(w)]
    /\ layoutOn = TRUE /\ pushed = StartShown
    /\ grip = Still /\ held = Still /\ preview = NoPreview /\ acts = 0
    /\ disturbed = FALSE /\ front = NoWindow /\ back = NoWindow

MotionNext ==
    \/ \E w \in TiledWindows : \E v \in BOOLEAN : SetVisible(w, v)
    \/ \E w \in TiledWindows : PressToggle(w) \/ RightPressToggle(w)
    \/ \E w \in TiledWindows : PressTitle(w) \/ PressBody(w) \/ Lower(w)
    \/ \E p \in Pointers : DragTo(p)
    \/ Drop
    \/ \E on \in BOOLEAN : SetLayout(on)
    \/ MotionFrame

MotionSpec == MotionInit /\ [][MotionNext]_motionVars

-----------------------------------------------------------------------------
MotionTypeOK ==
    /\ desk.z \in [1..Cardinality(TiledWindows) -> TiledWindows] /\ ToSet(desk.z) = TiledWindows
    /\ desk.shown \cup desk.flying \cup desk.strayed \cup pushed \subseteq TiledWindows
    /\ {desk.dragged, front, back, preview.window} \subseteq TiledWindows \cup {NoWindow}
    /\ desk.at \in [TiledWindows -> Int \X Int]
    /\ \A w \in TiledWindows : fade[w].duration \in 0..BaseDuration /\ fade[w].elapsed \in 0..BaseDuration

(* The button of a window is pushed when the window is shown, whoever      *)
(* showed it or hid it.                                                    *)
TogglesAgree == pushed = desk.shown

(* A window that flies will arrive at its goal, however often it was told  *)
(* to go elsewhere, and no tween moves one that does not fly -- but for    *)
(* those that were placed while their tween went on.                       *)
FlyToGoal ==
    \A w \in TiledWindows \ desk.strayed :
        IF w \in desk.flying THEN desk.tween[w] # Still /\ desk.tween[w].to = desk.goal[w]
        ELSE desk.tween[w] = Still

(* When all has come to rest after an arrangement, each window that is     *)
(* shown is at its goal and within the bounds, and those of one page do    *)
(* not cover each other.                                                   *)
AtRest == /\ desk.tidy /\ desk.dragged = NoWindow
          /\ \A w \in TiledWindows : desk.tween[w] = Still /\ ~fade[w].active
InPlace(w) == w \in desk.shown \ desk.strayed
Settled ==
    AtRest =>
      /\ \A w \in TiledWindows : InPlace(w) => /\ desk.at[w] = desk.goal[w]
                                               /\ desk.at[w] = InBounds(w, desk.at[w])
      /\ \A i \in DOMAIN desk.layers : \A v, w \in ToSet(desk.layers[i]) :
            v # w /\ InPlace(v) /\ InPlace(w) => ~Overlap(v, desk.at[v], w, desk.at[w])

(* A transition goes to what the window is, so one that is hidden is not   *)
(* drawn when its transition has ended.                                    *)
FadesAgree ==
    \A w \in TiledWindows : Effects[w] # "none" =>
        (fade[w].target = "shown") = (w \in desk.shown)

(* The window that was shown, raised or dropped last is above the others,  *)
(* and the one that was lowered last below them, on whatever page the      *)
(* arrangement put them.                                                   *)
RankOf(w) == CHOOSE i \in DOMAIN desk.z : desk.z[i] = w
OrderKept ==
    \A w \in desk.shown :
        /\ front # NoWindow => RankOf(w) <= RankOf(front)
        /\ back # NoWindow => RankOf(back) <= RankOf(w)

(* A dragged window is shown and under the mouse; the others go where the  *)
(* preview says, as long as nothing else arranges them.                    *)
DragKept ==
    desk.dragged # NoWindow =>
        /\ desk.dragged \in desk.shown
        /\ ~disturbed =>
             /\ held = Spot(desk.dragged, grip)
             /\ preview.window = desk.dragged =>
                  /\ DOMAIN preview.rects = desk.shown \ {desk.dragged}
                  /\ \A v \in DOMAIN preview.rects : desk.goal[v] = InBounds(v, preview.rects[v])

(* Windows that are shown, hidden, raised and dragged while others move:   *)
(* see the parts above.                                                    *)
MotionSafe == TogglesAgree /\ FlyToGoal /\ Settled /\ FadesAgree /\ OrderKept /\ DragKept
=============================================================================
