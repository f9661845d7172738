------------------------------- MODULE DragDrop -------------------------------
(***************************************************************************)
(* DragDropManager (gui_do/overlays/drag_drop_manager.py): the session of  *)
(* a drag, from the press on its source to the drop or the cancellation.   *)
(*                                                                         *)
(* Which node is under the pointer and accepts the payload is chosen anew  *)
(* with each event.  The nodes' hooks are the program's code and may       *)
(* cancel the session; what they raise is swallowed.                       *)
(***************************************************************************)
EXTENDS Integers, Sequences, FiniteSets

CONSTANTS
    DropTargets, \* nodes that accept payloads
    NoTarget,    \* none of them
    MaxDrags,    \* bound: presses on a source
    MaxMotions   \* bound: motions and releases of a drag in a row

ASSUME DragDropAssumption ==
    /\ NoTarget \notin DropTargets
    /\ {MaxDrags, MaxMotions} \subseteq Nat

VARIABLES
    drag,      \* _session: its number, 0 for None
    met,       \* drag_threshold_met
    dragTarget,\* current_target
    hooks,     \* hooks still to be called by the call under way, in order
    inHook,    \* whether a hook is running
    drags,     \* presses so far
    motions,   \* motions so far
    inside,    \* history: drags and the targets that were told they entered, and
               \* neither that they left nor of the drop
    ended,     \* history: how often the source of each was told of the end
    dragged,   \* history: the drags that met the threshold
    replaced,  \* history: the drags that a press has replaced
    elsewhere, \* history: the drags dropped on a target they had not entered
    undone     \* history: the drags that a hook has cancelled

dragVars == <<drag, met, dragTarget, hooks, inHook, drags, motions,
              inside, ended, dragged, replaced, elsewhere, undone>>

Between == hooks = <<>> /\ ~inHook
HookCall(hook, d, t) == [hook |-> hook, drag |-> d, target |-> t]

-----------------------------------------------------------------------------
(* A press on a source: a session that is there is replaced.               *)
PressSource ==
    /\ Between
    /\ drags < MaxDrags
    /\ drags' = drags + 1
    /\ drag' = drags + 1 /\ met' = FALSE /\ dragTarget' = NoTarget
    /\ replaced' = IF drag # 0 THEN replaced \cup {drag} ELSE replaced
    /\ motions' = 0
    /\ UNCHANGED <<hooks, inHook, inside, ended, dragged, elsewhere, undone>>

(* A motion, by now far enough from the press or not: the target that is   *)
(* left is told before the one that is entered, and the session last.      *)
MovePointer(far, t) ==
    /\ Between
    /\ drag # 0 /\ motions < MaxMotions
    /\ motions' = motions + 1
    /\ met' = (met \/ far)
    /\ dragged' = IF met' THEN dragged \cup {drag} ELSE dragged
    /\ hooks' = IF ~met' \/ t = dragTarget THEN <<>>
                ELSE (IF dragTarget = NoTarget THEN <<>> ELSE <<HookCall("leave", drag, dragTarget)>>)
                     \o (IF t = NoTarget THEN <<>> ELSE <<HookCall("enter", drag, t)>>)
                     \o <<HookCall("set", drag, t)>>
    /\ UNCHANGED <<drag, dragTarget, inHook, drags, inside, ended, replaced, elsewhere, undone>>

(* A release ends the session before anybody is told; the target is the    *)
(* one found now.                                                          *)
ReleaseButton(t) ==
    /\ Between
    /\ drag # 0
    /\ drag' = 0 /\ met' = FALSE /\ dragTarget' = NoTarget
    /\ hooks' = IF ~met THEN <<>>
                ELSE (IF t = NoTarget THEN <<>> ELSE <<HookCall("drop", drag, t)>>)
                     \o <<HookCall("end", drag, NoTarget)>>
    /\ elsewhere' = IF met /\ t # dragTarget THEN elsewhere \cup {drag} ELSE elsewhere
    /\ UNCHANGED <<inHook, drags, motions, inside, ended, dragged, replaced, undone>>

LeavesAndEnds ==
    (IF dragTarget = NoTarget THEN <<>> ELSE <<HookCall("leave", drag, dragTarget)>>)
    \o <<HookCall("end", drag, NoTarget)>>

(* cancel(), also in a hook.  A motion under way cannot enter and set its  *)
(* target any more: it raises.                                             *)
CancelDrag ==
    /\ drag # 0
    /\ hooks = <<>> \/ inHook
    /\ drag' = 0 /\ met' = FALSE /\ dragTarget' = NoTarget
    /\ hooks' = LeavesAndEnds
    /\ inHook' = FALSE
    /\ undone' = IF inHook THEN undone \cup {drag} ELSE undone
    /\ UNCHANGED <<drags, motions, inside, ended, dragged, replaced, elsewhere>>

CallHook ==
    LET h == hooks[1] IN
    /\ hooks # <<>> /\ ~inHook
    /\ hooks' = Tail(hooks)
    /\ inHook' = (h.hook # "set")
    /\ dragTarget' = IF h.hook = "set" THEN h.target ELSE dragTarget
    /\ inside' = IF h.hook = "enter" THEN inside \cup {<<h.drag, h.target>>}
                 ELSE IF h.hook \in {"leave", "drop"} THEN inside \ {<<h.drag, h.target>>}
                 ELSE inside
    /\ ended' = IF h.hook = "end" THEN [ended EXCEPT ![h.drag] = @ + 1] ELSE ended
    /\ UNCHANGED <<drag, met, drags, motions, dragged, replaced, elsewhere, undone>>

DragHookReturns ==
    /\ inHook
    /\ inHook' = FALSE
    /\ UNCHANGED <<drag, met, dragTarget, hooks, drags, motions,
                   inside, ended, dragged, replaced, elsewhere, undone>>

DragInit ==
    /\ drag = 0 /\ met = FALSE /\ dragTarget = NoTarget
    /\ hooks = <<>> /\ inHook = FALSE /\ drags = 0 /\ motions = 0
    /\ inside = {} /\ ended = [d \in 1 .. MaxDrags |-> 0]
    /\ dragged = {} /\ replaced = {} /\ elsewhere = {} /\ undone = {}

DragNext ==
    \/ PressSource
    \/ \E far \in BOOLEAN, t \in DropTargets \cup {NoTarget} : MovePointer(far, t)
    \/ \E t \in DropTargets \cup {NoTarget} : ReleaseButton(t)
    \/ CancelDrag
    \/ CallHook
    \/ DragHookReturns

DragSpec == DragInit /\ [][DragNext]_dragVars

-----------------------------------------------------------------------------
DragTypeOK ==
    /\ drag \in 0 .. MaxDrags /\ drags \in 0 .. MaxDrags /\ motions \in 0 .. MaxMotions
    /\ {met, inHook} \subseteq BOOLEAN
    /\ dragTarget \in DropTargets \cup {NoTarget}
    /\ inside \subseteq (1 .. MaxDrags) \X DropTargets
    /\ ended \in [1 .. MaxDrags -> Nat]
    /\ UNION {dragged, replaced, elsewhere, undone} \subseteq 1 .. MaxDrags
    /\ \A i \in DOMAIN hooks : hooks[i].hook \in {"leave", "enter", "set", "drop", "end"}

(* Between events, the target of the session is the one node that was told *)
(* that the drag entered it, and no other drag is anywhere: unless a press *)
(* replaced that drag, it was dropped elsewhere, or a hook cancelled it;   *)
(* and the source of every drag that went far enough and is over was told  *)
(* so, once, unless a press replaced it.                                   *)
DragSafe ==
    Between =>
        /\ \A d \in 1 .. drags \ (replaced \cup elsewhere \cup undone) :
              {t \in DropTargets : <<d, t>> \in inside}
                 = IF d = drag /\ dragTarget # NoTarget THEN {dragTarget} ELSE {}
        /\ \A d \in dragged \ (replaced \cup {drag}) : ended[d] = 1
=============================================================================
