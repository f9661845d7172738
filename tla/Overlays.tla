------------------------------- MODULE Overlays -------------------------------
(***************************************************************************)
(* The overlays of a scene (gui_do/overlays/overlay_manager.py), who opens *)
(* them -- context menus, dialogs, the command palette, the program -- and *)
(* what events, focus and scene switches do to them                        *)
(* (app/gui_application.py).                                               *)
(*                                                                         *)
(* Everything happens on the frame thread; what makes it hard is that a    *)
(* dismissal, a handler and a menu's action run the program's code, which  *)
(* opens and closes overlays, moves the focus and switches scenes while    *)
(* an event is routed.  `ui.stack` holds what is under way, the innermost  *)
(* first.  A record is known by the number of the show() that made it; a   *)
(* dialog's scrim and box, shown and hidden together, are one record.      *)
(* `ui.shown` has the kind and the owner of each.                          *)
(*                                                                         *)
(* History: `ui.told` counts the dismissals told for each; `ui.reshown`    *)
(* has the owners shown again by the dismissal that show() began;          *)
(* `ui.forgot` notes that a palette's dismissal, or hide(), found another  *)
(* palette open, whose list and focus it gave back or forgot: the manager  *)
(* keeps them for one.                                                     *)
(***************************************************************************)
EXTENDS Integers, SequencesExt, SequenceFilter

CONSTANTS
    Panels,        \* owner ids of the program's own overlays
    FocusPanels,   \* those that are dismissed when their control loses the focus
    Palette,       \* "__command_palette__"
    OverlayScenes, \* the scenes, each with its overlay manager
    MaxShown,      \* bound: overlays ever shown
    MaxOverlayOps  \* bound: operations of the program

(* Owner ids are strings: a menu's is none of the others.                  *)
ASSUME OverlaysAssumption ==
    /\ FocusPanels \subseteq Panels /\ Palette \notin Panels
    /\ MaxShown \in Nat /\ (1 .. MaxShown) \cap (Panels \cup {Palette}) = {}

VARIABLES
    ui,            \* the managers, the focus and what is under way
    overlayOps     \* operations so far

overlayVars == <<ui, overlayOps>>

Records    == 1 .. MaxShown
Owners     == Panels \cup {Palette} \cup Records   \* a menu's or dialog's id is its own
NoRecord   == 0
NoFocus    == 0
Control    == -1                                   \* a control of the scene; n > 0: list of palette n
Owner(u, r) == u.shown[r].owner
Kind(u, r)  == u.shown[r].kind
OwnersOf(u, q) == [i \in DOMAIN q |-> Owner(u, q[i])]

ProgramCall(f)  == [call |-> f]                        \* "callback" or "handler"
Each(sc, q) == [call |-> "each", sc |-> sc, todo |-> q]
Push(u, frames) == [u EXCEPT !.stack = frames \o @]

-----------------------------------------------------------------------------
(* Focus: dismiss_for_focus(), the listener of the focus.                  *)

LosesFocus(u, r, n) ==
    \/ Kind(u, r) = "palette" /\ n <= 0
    \/ Owner(u, r) \in FocusPanels /\ n # Control

FocusSet(u, n) ==
    IF n = u.focus THEN u
    ELSE LET losers == {r \in 1 .. Len(u.shown) : LosesFocus(u, r, n)} IN
         Push([u EXCEPT !.focus = n],
              <<Each(u.front, OwnersOf(u, Including(u.lists[u.front], losers)))>>)

-----------------------------------------------------------------------------
(* The manager.                                                            *)

(* on_dismiss: a menu's leaves _open_ids before the program is called; the *)
(* palette's gives the focus back, then forgets the list and, unlike the   *)
(* manager's hide(), where the focus was before.                           *)
SomePalette(u) == \E sc \in OverlayScenes : u.by[sc][Palette] # NoRecord
Reset(dismissed) == [call |-> "reset", dismissed |-> dismissed]
PaletteGone(u) ==
    LET reset == Push([u EXCEPT !.forgot = @ \/ SomePalette(u)], <<Reset(TRUE)>>) IN
    IF u.focus = u.list THEN FocusSet(reset, u.before) ELSE reset

OnDismiss(u, r) ==
    LET told == [u EXCEPT !.told[r] = @ + 1] IN
    CASE Kind(u, r) = "panel"   -> Push(told, <<ProgramCall("callback")>>)
      [] Kind(u, r) = "menu"    -> Push([told EXCEPT !.menus = @ \ {r}], <<ProgramCall("callback")>>)
      [] Kind(u, r) = "dialog"  -> told
      [] Kind(u, r) = "palette" -> PaletteGone(told)

(* Mutant: the places of those above a hidden overlay stay as they were.   *)
NotShifted(index, owners, i, o) == [index EXCEPT ![o] = 0]

Shifted(index, owners, i, o) ==
    [p \in Owners |->
        IF \E j \in i .. Len(owners) : owners[j] = p
        THEN CHOOSE j \in i .. Len(owners) : /\ owners[j] = p
                                             /\ \A k \in j + 1 .. Len(owners) : owners[k] # p
        ELSE IF p = o THEN 0 ELSE index[p]]

(* hide().                                                                 *)
Unlisted(u, sc, o) ==
    LET i == u.index[sc][o]
        q == RemoveAt(u.lists[sc], i)
    IN [u EXCEPT !.lists[sc] = q, !.by[sc][o] = NoRecord,
                 !.index[sc] = Shifted(@, OwnersOf(u, q), i, o)]

Hide(u, sc, o) ==
    IF u.by[sc][o] = NoRecord THEN [u EXCEPT !.index[sc][o] = 0]
    ELSE OnDismiss(Unlisted(u, sc, o), u.by[sc][o])

(* The end of show(): the record comes on top.                             *)
Appended(u, sc, r, o) ==
    [u EXCEPT !.lists[sc] = Append(@, r), !.by[sc][o] = r,
              !.index[sc][o] = Len(u.lists[sc]) + 1,
              !.reshown = IF u.by[sc][o] # NoRecord THEN @ \cup {o} ELSE @]

(* show() begins with hide() of the owner's last overlay.                  *)
Newest(u)  == Len(u.shown) + 1
Showing(u, kind, o) ==
    Push([u EXCEPT !.shown = Append(@, [kind |-> kind, owner |-> o])],
         <<[call |-> "show", sc |-> u.front, record |-> Newest(u), owner |-> o]>>)
Show(u, kind, o) == Hide(Showing(u, kind, o), u.front, o)

(* hide_all(): the tables are emptied before the first callback.           *)
(* Iterations over the old list go on over it.                             *)
Detached(f, sc, q) ==
    IF f.call = "route" /\ f.sc = sc /\ f.live THEN [f EXCEPT !.live = FALSE, !.over = q] ELSE f
Emptied(u, sc) ==
    [u EXCEPT !.lists[sc] = <<>>,
              !.by[sc] = [o \in Owners |-> NoRecord], !.index[sc] = [o \in Owners |-> 0],
              !.stack = [k \in DOMAIN @ |-> Detached(@[k], sc, u.lists[sc])]]
HideAll(u, sc, then) ==
    Push(Emptied(u, sc), <<[call |-> "callbacks", todo |-> u.lists[sc]], then>>)

-----------------------------------------------------------------------------
(* What the program does between events, in handlers, actions and          *)
(* dismissals.                                                             *)

Running(f)   == ui.stack # <<>> /\ Head(ui.stack).call = f
ProgramIsRunning  == ui.stack # <<>> => Head(ui.stack).call \in {"callback", "handler"}
PaletteIsOpen(u) == u.by[u.at][Palette] # NoRecord

OverlayOp == ProgramIsRunning /\ overlayOps < MaxOverlayOps /\ overlayOps' = overlayOps + 1
Fresh(u)  == Len(u.shown) < MaxShown

ShowOverlay ==
    /\ OverlayOp
    /\ Fresh(ui)
    /\ \/ \E o \in Panels : ui' = Show(ui, "panel", o)
       \/ ui' = Show([ui EXCEPT !.menus = @ \cup {Newest(ui)}], "menu", Newest(ui))
       \/ ui' = Show([ui EXCEPT !.dialogs = @ \cup {Newest(ui)}], "dialog", Newest(ui))

(* CommandPaletteManager.show(): nothing when it is open where it was last *)
(* shown; its list takes the focus once the overlay is there.              *)
ShowPalette(u) ==
    LET synced == [u EXCEPT !.at = u.front] IN
    IF PaletteIsOpen(synced) THEN synced
    ELSE Show(Push([synced EXCEPT !.list = Newest(u)],
                   <<[call |-> "palette", record |-> Newest(u)]>>),
              "palette", Palette)

OpenPalette ==
    /\ OverlayOp
    /\ Fresh(ui)
    /\ ui' = ShowPalette(ui)

(* A handle's dismiss(), DialogManager's, CommandPaletteManager.hide().    *)
HidePalette(u) == Hide(Push(u, <<Reset(FALSE)>>), u.at, Palette)
HideOverlay ==
    /\ OverlayOp
    /\ \/ \E o \in Panels \cup ui.menus : ui' = Hide(ui, ui.front, o)
       \/ \E d \in ui.dialogs :
             ui' = Hide([ui EXCEPT !.dialogs = @ \ {d}], ui.front, d)
       \/ ui' = HidePalette(ui)

MoveFocus ==
    /\ OverlayOp
    /\ \E n \in {NoFocus, Control} : n # ui.focus /\ ui' = FocusSet(ui, n)

(* switch_scene(): the palette goes first, then every overlay of the scene *)
(* that is left, then the scene's manager becomes the application's.       *)
SwitchOverlayScene(s) ==
    /\ OverlayOp
    /\ s # ui.front
    /\ \A i \in DOMAIN ui.stack : ui.stack[i].call \notin {"leave", "enter"}
    /\ ui' = Hide(Push(ui, <<[call |-> "leave", to |-> s]>>), ui.front, Palette)

-----------------------------------------------------------------------------
(* Events: route_event() and what process_event() does around it.          *)

Route(event, sc, hit, then) ==
    [call |-> "route", event |-> event, sc |-> sc, at |-> Len(ui.lists[sc]),
     live |-> TRUE, over |-> <<>>, hit |-> hit, then |-> then,
     passed |-> <<>>, seen |-> <<>>, todo |-> <<>>, inside |-> FALSE]

(* Escape hides the topmost overlay that it dismisses.                     *)
EscapeKey ==
    /\ ui.stack = <<>>
    /\ \E i \in DOMAIN ui.lists[ui.front] :
          LET q == ui.lists[ui.front] IN
          /\ Kind(ui, q[i]) # "dialog"
          /\ \A j \in i + 1 .. Len(q) : Kind(ui, q[j]) = "dialog"
          /\ ui' = Hide(ui, ui.front, Owner(ui, q[i]))
    /\ UNCHANGED overlayOps

OtherEvent ==
    /\ ui.stack = <<>>
    /\ ui.lists[ui.front] # <<>>
    /\ ui' = Push(ui, <<Route("other", ui.front, {}, NoFocus)>>)
    /\ UNCHANGED overlayOps

(* A click in the overlays `hit`, or beside them all, on a control or not: *)
(* beside the palette it hides the palette first.                          *)
Click(hit, target) ==
    /\ ui.stack = <<>>
    /\ ui.lists[ui.front] # <<>>
    /\ LET palette == ui.by[ui.front][Palette]
           clicked == Push(ui, <<[call |-> "clicked", hit |-> hit, target |-> target]>>)
       IN ui' = IF palette # NoRecord /\ palette \notin hit
                THEN Hide(clicked, ui.front, Palette) ELSE clicked
    /\ UNCHANGED overlayOps

Rest(u) == [u EXCEPT !.stack = Tail(@)]
Focused(u, n) == IF n = NoFocus THEN u ELSE FocusSet(u, n)

(* A click beside the overlays moves the focus before they see it, one     *)
(* inside after they have let it pass.                                     *)
RouteClick ==
    /\ Running("clicked")
    /\ LET f == Head(ui.stack)
           inside == \E r \in f.hit : Contains(ui.lists[ui.front], r)
           Begun(then) == Push(Rest(ui), <<Route("click", ui.front, f.hit, then)>>)
       IN ui' = IF inside THEN Begun(f.target) ELSE Focused(Begun(NoFocus), f.target)
    /\ UNCHANGED overlayOps

(* The overlay r handles the event: a panel as the program likes, a dialog *)
(* by taking clicks inside it.  A menu may close and run an item's action, *)
(* the palette may do so too, or run it and stay, or come back.            *)
Handles(u, r, f) ==
    LET consumed == Rest(u) IN
    CASE Kind(u, r) = "panel"   -> {Push(u, <<ProgramCall("handler")>>)}
      [] Kind(u, r) = "dialog"  -> {IF f.event = "click" /\ r \in f.hit THEN consumed ELSE u}
      [] Kind(u, r) = "menu"    ->
            {u, consumed,
             Hide(Push([consumed EXCEPT !.menus = @ \ {r}], <<ProgramCall("callback")>>),
                  u.front, r)}
      [] Kind(u, r) = "palette" ->
            {u, consumed,
             HidePalette(Push(consumed, <<ProgramCall("callback")>>)),
             Push(consumed, <<ProgramCall("callback"), [call |-> "reopen", sc |-> u.front]>>)}

(* The next overlay, from the top of the list as it is now.  A click waits *)
(* for an overlay that contains it; those passed meanwhile see it then.    *)
RouteStep ==
    /\ Running("route")
    /\ LET f == Head(ui.stack)
           q == IF f.live THEN ui.lists[f.sc] ELSE f.over
           Now(g) == [ui EXCEPT !.stack[1] = g]
       IN
       \/ /\ f.todo # <<>>
          /\ LET g == [f EXCEPT !.todo = Tail(@)] IN
             ui' \in Handles(Now(g), Head(f.todo), g)
       \/ /\ f.todo = <<>> /\ f.at \in 1 .. Len(q)
          /\ LET r == q[f.at]
                 hit == r \in f.hit
                 g == [f EXCEPT !.at = @ - 1,
                         !.seen = IF Kind(ui, r) # "dialog" THEN Append(@, Owner(ui, r)) ELSE @]
             IN ui' = Now(IF f.event = "click" /\ ~f.inside /\ ~hit
                          THEN [g EXCEPT !.passed = Append(@, r)]
                          ELSE [g EXCEPT !.inside = f.inside \/ hit, !.passed = <<>>,
                                         !.todo = Append(f.passed, r)])
       \/ /\ f.todo = <<>> /\ f.at \notin 1 .. Len(q)
          /\ ui' = IF f.event = "click" /\ ~f.inside
                   THEN Push(Rest(ui), <<Each(f.sc, f.seen)>>)
                   ELSE Focused(Rest(ui), f.then)
    /\ UNCHANGED overlayOps

-----------------------------------------------------------------------------
(* What is under way goes on.                                              *)

(* The program's code returns; a handler has consumed the event or not.    *)
ProgramReturns ==
    /\ ui.stack # <<>>
    /\ ProgramIsRunning
    /\ ui' \in IF Running("handler") THEN {Rest(ui), Rest(Rest(ui))} ELSE {Rest(ui)}
    /\ UNCHANGED overlayOps

Continue ==
    /\ ui.stack # <<>>
    /\ LET f == Head(ui.stack)
           u == Rest(ui)
       IN
       \/ f.call = "show" /\ ui' = Appended(u, f.sc, f.record, f.owner)
       \/ /\ f.call = "each"
          /\ ui' = IF f.todo = <<>> THEN u
                   ELSE Hide(Push(u, <<Each(f.sc, Tail(f.todo))>>), f.sc, Head(f.todo))
       \/ /\ f.call = "callbacks"
          /\ ui' = IF f.todo = <<>> THEN u
                   ELSE OnDismiss(Push(u, <<[f EXCEPT !.todo = Tail(@)]>>), Head(f.todo))
       \/ f.call = "palette" /\ ui' = FocusSet([u EXCEPT !.before = u.focus], f.record)
       \/ /\ f.call = "reset"
          /\ ui' = [u EXCEPT !.list = NoRecord, !.before = IF f.dismissed THEN NoFocus ELSE @,
                            !.forgot = @ \/ SomePalette(u)]
       \/ /\ f.call = "reopen"
          /\ ui' = IF PaletteIsOpen(u) \/ u.front # f.sc \/ ~Fresh(u) THEN u ELSE ShowPalette(u)
       \/ f.call = "leave" /\ ui' = HideAll(u, u.front, [f EXCEPT !.call = "enter"])
       \/ f.call = "enter" /\ ui' = [u EXCEPT !.front = f.to]
    /\ UNCHANGED overlayOps

OverlaysInit ==
    /\ \E s \in OverlayScenes :
          ui = [lists |-> [sc \in OverlayScenes |-> <<>>],
                by |-> [sc \in OverlayScenes |-> [o \in Owners |-> NoRecord]],
                index |-> [sc \in OverlayScenes |-> [o \in Owners |-> 0]],
                menus |-> {}, dialogs |-> {}, list |-> NoRecord, before |-> NoFocus,
                at |-> s, focus |-> NoFocus, front |-> s, stack |-> <<>>,
                shown |-> <<>>, told |-> [r \in Records |-> 0], reshown |-> {}, forgot |-> FALSE]
    /\ overlayOps = 0

OverlaysNext ==
    \/ ShowOverlay \/ OpenPalette \/ HideOverlay \/ MoveFocus
    \/ \E s \in OverlayScenes : SwitchOverlayScene(s)
    \/ EscapeKey
    \/ OtherEvent
    \/ \E hit \in SUBSET (1 .. Len(ui.shown)), target \in {NoFocus, Control} : Click(hit, target)
    \/ RouteClick
    \/ RouteStep
    \/ ProgramReturns
    \/ Continue

OverlaysSpec == OverlaysInit /\ [][OverlaysNext]_overlayVars

-----------------------------------------------------------------------------
OverlaysTypeOK ==
    /\ ui.shown \in Seq([kind : {"panel", "menu", "dialog", "palette"}, owner : Owners])
    /\ \A sc \in OverlayScenes :
          /\ ui.lists[sc] \in Seq(1 .. Len(ui.shown))
          /\ ui.by[sc] \in [Owners -> Records \cup {NoRecord}]
          /\ ui.index[sc] \in [Owners -> 0 .. MaxShown]
    /\ {ui.menus, ui.dialogs} \subseteq SUBSET (1 .. Len(ui.shown))
    /\ {ui.list, ui.before, ui.focus} \subseteq Records \cup {NoFocus, Control}
    /\ {ui.at, ui.front} \subseteq OverlayScenes
    /\ ui.reshown \subseteq Panels \cup {Palette}

(* The list of records and the tables by owner and by place say the same,  *)
(* whoever shows and hides what in the middle of what; except for an owner *)
(* that its own dismissal, within show(), has shown again.                 *)
TablesAgree ==
    \A sc \in OverlayScenes, o \in Owners \ ui.reshown :
        LET q == ui.lists[sc]
            places == {i \in DOMAIN q : Owner(ui, q[i]) = o}
        IN IF places = {} THEN ui.by[sc][o] = NoRecord /\ ui.index[sc][o] = 0
           ELSE /\ places = {ui.index[sc][o]}
                /\ ui.by[sc][o] = q[ui.index[sc][o]]

(* An overlay is either there or being shown, or its on_dismiss has been   *)
(* called, once, or is among those hide_all() has still to call.           *)
DismissedOnce ==
    \A r \in 1 .. Len(ui.shown) :
        LET Waits(f) == \/ f.call = "show" /\ f.record = r
                        \/ f.call = "callbacks" /\ Contains(f.todo, r)
        IN ui.told[r] = IF \/ \E sc \in OverlayScenes : Contains(ui.lists[sc], r)
                           \/ \E i \in DOMAIN ui.stack : Waits(ui.stack[i])
                        THEN 0 ELSE 1

(* A menu is open to its manager until its dismissal is told to the        *)
(* program, whichever of click, key, focus, action and scene switch ends   *)
(* it, and then no more.                                                   *)
MenusAgree ==
    \A r \in 1 .. Len(ui.shown) : Kind(ui, r) = "menu" =>
        (r \in ui.menus <=> ui.told[r] = 0)

(* The focus is not left on the list of a palette that is gone, as long as *)
(* no dismissal, nor hide(), has come while another palette was open.      *)
PaletteReturnsFocus ==
    (ui.focus > 0 /\ ui.stack = <<>> /\ ~ui.forgot) =>
        \E sc \in OverlayScenes : ui.by[sc][Palette] = ui.focus

OverlaysSafe == TablesAgree /\ DismissedOnce /\ MenusAgree /\ PaletteReturnsFocus
=============================================================================
