----------------------------- MODULE MCInterface -----------------------------
(* Instances of the modules of what is on the screen, and of the bus that  *)
(* its parts talk through.  A behaviour is one of the module its subject   *)
(* names.                                                                  *)
EXTENDS EventBus, SceneRuntimes, Overlays, WindowFocus,
        Router, Wizard, DragDrop,
        TextEditing, RowControls, TreeRows, SelectionModel,
        WindowMotion, TLC

VARIABLE subject   \* the module whose steps the behaviour takes

flowVars == <<routerVars, wizardVars, dragVars>>
controlVars == <<textVars, rowVars, treeVars, selectionVars>>
interfaceVars == <<eventVars, vars, overlayVars, focusVars, flowVars, controlVars, motionVars, subject>>

(* A route that shows a scene and one that does not.                       *)
RouteScenes == "r1" :> "s1" @@ "r2" :> Nowhere
Histories2  == {<<>>, <<"r2", "r1">>}

(* Two windows; a control of the second, one of the scene, one of the      *)
(* task panel.                                                             *)
HomeMap == 2 :> 11 @@ 1 :> 0 @@ 4 :> 0

(* Letters typed and pasted, and texts that on_change sets.               *)
TypedTexts   == {<<"a">>, <<"newline">>, <<"a", " ">>}
ProgramTexts == {<<>>, <<"a", "newline">>}

(* A tree of five nodes, three deep, of which the last may be left alone. *)
TreeChildren == "p" :> <<"q", "r">> @@ "q" :> <<"s">> @@ [n \in {"r", "s", "t"} |-> <<>>]
TreeRoots    == {<<"p", "t">>, <<"t">>}

(* Two windows that stand side by side, and one wider: all three need two *)
(* rows, and any two of one row fit.                                       *)
WidthMap  == "a" :> 40 @@ "b" :> 40 @@ "c" :> 60
HeightMap == [w \in {"a", "b", "c"} |-> 30]
EffectMap == "a" :> "none" @@ "b" :> "hide_show" @@ "c" :> "grow_shrink"
Area      == [left |-> 0, top |-> 10, right |-> 130, bottom |-> 90]
AllAt     == [w \in {"a", "b", "c"} |-> <<20, 30>>]
OnTitle   == <<10, 4>>
OnBody    == <<10, 20>>
MousePlaces == {<<20, 20>>, <<20, 60>>, <<110, 50>>, <<60, 88>>}

(* The scenes but the default one are alike, and so are the toasts.        *)
Symmetry == Permutations(OverlayScenes) \cup Permutations(Toasts)

(* Outside their subject the windows are left out of the state.            *)
NoDesk ==
    /\ desk = Still /\ fade = Still /\ layoutOn = FALSE /\ pushed = {}
    /\ grip = Still /\ held = Still /\ preview = Still /\ acts = 0
    /\ disturbed = FALSE /\ front = NoWindow /\ back = NoWindow

InterfaceInit ==
    /\ BusInit /\ Init /\ OverlaysInit /\ FocusInit
    /\ RouterInit /\ WizardInit /\ DragInit
    /\ TextInit /\ RowsInit /\ TreeInit /\ SelectionInit
    /\ subject \in {"bus", "scenes", "overlays", "focus", "router", "wizard", "drag",
                   "text", "rows", "tree", "selection", "windows"}
    /\ IF subject = "windows" THEN MotionInit ELSE NoDesk
    /\ subject # "router" => history = <<>>
    /\ subject # "text" => editor = "input"
    /\ subject # "rows" => rowKind = "list"
    /\ subject # "tree" => roots = <<"t">>
    /\ subject # "selection" => mode = "single" /\ itemCount = 0

InterfaceNext ==
    /\ UNCHANGED subject
    /\ \/ /\ subject = "bus" /\ BusNext
          /\ UNCHANGED <<vars, overlayVars, focusVars, flowVars, controlVars, motionVars>>
       \/ /\ subject = "scenes" /\ Next
          /\ UNCHANGED <<eventVars, overlayVars, focusVars, flowVars, controlVars, motionVars>>
       \/ /\ subject = "overlays" /\ OverlaysNext
          /\ UNCHANGED <<eventVars, vars, focusVars, flowVars, controlVars, motionVars>>
       \/ /\ subject = "focus" /\ FocusNext
          /\ UNCHANGED <<eventVars, vars, overlayVars, flowVars, controlVars, motionVars>>
       \/ /\ UNCHANGED <<eventVars, vars, overlayVars, focusVars, controlVars, motionVars>>
          /\ \/ subject = "router" /\ RouterNext /\ UNCHANGED <<wizardVars, dragVars>>
             \/ subject = "wizard" /\ WizardNext /\ UNCHANGED <<routerVars, dragVars>>
             \/ subject = "drag" /\ DragNext /\ UNCHANGED <<routerVars, wizardVars>>
       \/ /\ UNCHANGED <<eventVars, vars, overlayVars, focusVars, flowVars, motionVars>>
          /\ \/ subject = "text" /\ TextNext /\ UNCHANGED <<rowVars, treeVars, selectionVars>>
             \/ subject = "rows" /\ RowsNext /\ UNCHANGED <<textVars, treeVars, selectionVars>>
             \/ subject = "tree" /\ TreeNext /\ UNCHANGED <<textVars, rowVars, selectionVars>>
             \/ subject = "selection" /\ SelectionNext /\ UNCHANGED <<textVars, rowVars, treeVars>>
       \/ /\ subject = "windows" /\ MotionNext
          /\ UNCHANGED <<eventVars, vars, overlayVars, focusVars, flowVars, controlVars>>

InterfaceSpec == InterfaceInit /\ [][InterfaceNext]_interfaceVars

(* The variables of the modules keep their types.                          *)
InterfaceTypeOK ==
    CASE subject = "bus"      -> BusTypeOK
      [] subject = "scenes"   -> TypeOK
      [] subject = "overlays" -> OverlaysTypeOK
      [] subject = "focus"    -> FocusTypeOK
      [] subject = "router"   -> RouterTypeOK
      [] subject = "wizard"   -> WizardTypeOK
      [] subject = "drag"     -> DragTypeOK
      [] subject = "text"     -> TextTypeOK
      [] subject = "rows"     -> RowsTypeOK
      [] subject = "tree"     -> TreeTypeOK
      [] subject = "selection" -> SelectionTypeOK
      [] subject = "windows"  -> MotionTypeOK

(* What is current -- the focus, the route, the step of a flow, the drag, *)
(* the cursor, the selected rows, the place of a window -- is what         *)
(* everybody was told of, and means what it meant, whatever guards, hooks, *)
(* handlers and the program do while it changes: see FocusSafe,            *)
(* RouterSafe, WizardSafe, DragSafe, TextSafe, RowsSafe, TreeSafe,         *)
(* SelectionSafe and MotionSafe.                                           *)
CurrentSafe ==
    CASE subject = "focus"     -> FocusSafe
      [] subject = "router"    -> RouterSafe
      [] subject = "wizard"    -> WizardSafe
      [] subject = "drag"      -> DragSafe
      [] subject = "text"      -> TextSafe
      [] subject = "rows"      -> RowsSafe
      [] subject = "tree"      -> TreeSafe
      [] subject = "selection" -> SelectionSafe
      [] subject = "windows"   -> MotionSafe
      [] OTHER                 -> TRUE
=============================================================================
