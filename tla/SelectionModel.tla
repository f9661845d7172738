---------------------------- MODULE SelectionModel ----------------------------
(***************************************************************************)
(* SelectionModel (gui_do/data/selection_model.py): which of a number of   *)
(* items are selected, one at a time, several, or from an anchor to an     *)
(* active end.                                                             *)
(*                                                                         *)
(* Listeners are called when a change is complete, from a copy of their    *)
(* list, and read the model themselves: what they change is a change of    *)
(* its own, and only whether somebody was told is kept of them.            *)
(***************************************************************************)
EXTENDS Integers, FiniteSetsExt

CONSTANTS
    Modes,     \* SelectionMode: "single", "multi", "range"
    MaxCount   \* bound: items

ASSUME SelectionAssumption == Modes \subseteq {"single", "multi", "range"} /\ MaxCount \in Nat

VARIABLES
    mode,      \* _mode
    itemCount, \* _item_count
    picked,    \* _selected
    ends,      \* _anchor and _active
    bounds,    \* _range_bounds
    seen,      \* history: what listeners could read when they were told last
    shrunk,    \* history: there are fewer items and the ends stayed
    allPicked  \* history: select_all() of the single mode

selectionVars == <<mode, itemCount, picked, ends, bounds, seen, shrunk, allPicked>>

NoEnd == -1
Indices == 0 .. itemCount - 1
BoundsBetween(e) ==
    IF NoEnd \in {e.anchor, e.active} THEN <<>>
    ELSE <<Min({e.anchor, e.active}), Max({e.anchor, e.active})>>

(* selected_indices, and contains() of an index.                           *)
SelectedIndices(m, p, b) == IF m # "range" \/ b = <<>> THEN p ELSE b[1] .. b[2]
ContainsIndex(i) ==
    /\ i \in Indices
    /\ IF mode = "range" /\ bounds # <<>> THEN bounds[1] <= i /\ i <= bounds[2] ELSE i \in picked

(* What changes is told.                                                   *)
TellListeners == seen' = SelectedIndices(mode', picked', bounds')
EndsAre(e) == ends' = e /\ bounds' = BoundsBetween(e)
Both(i) == [anchor |-> i, active |-> i]

SelectIndex(i) ==
    /\ mode = "single" => picked # {i}
    /\ picked' = IF mode = "single" THEN {i} ELSE picked \cup {i}
    /\ EndsAre(Both(i)) /\ shrunk' = FALSE /\ allPicked' = (allPicked /\ mode # "single")
    /\ UNCHANGED <<mode, itemCount>> /\ TellListeners

DeselectIndex(i) ==
    /\ i \in picked
    /\ picked' = picked \ {i}
    /\ UNCHANGED <<mode, itemCount, ends, bounds, shrunk, allPicked>> /\ TellListeners

ToggleIndex(i) ==
    /\ picked' = IF mode = "single" THEN IF picked = {i} THEN {} ELSE {i}
                 ELSE IF i \in picked THEN picked \ {i} ELSE picked \cup {i}
    /\ EndsAre(Both(i)) /\ shrunk' = FALSE /\ allPicked' = (allPicked /\ mode # "single")
    /\ UNCHANGED <<mode, itemCount>> /\ TellListeners

(* An end that is set is the other one too when there is none.             *)
SetAnchorEnd(i) ==
    /\ EndsAre([anchor |-> i, active |-> IF ends.active = NoEnd THEN i ELSE ends.active])
    /\ UNCHANGED <<mode, itemCount, picked, shrunk, allPicked>> /\ TellListeners

SetActiveEnd(i) ==
    /\ EndsAre([active |-> i, anchor |-> IF ends.anchor = NoEnd THEN i ELSE ends.anchor])
    /\ UNCHANGED <<mode, itemCount, picked, shrunk, allPicked>> /\ TellListeners

SelectEverything ==
    /\ picked # Indices
    /\ picked' = Indices /\ allPicked' = (mode = "single")
    /\ UNCHANGED <<mode, itemCount, ends, bounds, shrunk>> /\ TellListeners

Cleared == picked' = {} /\ EndsAre(Both(NoEnd)) /\ shrunk' = FALSE /\ allPicked' = FALSE
ClearSelection ==
    /\ picked # {} \/ ends # Both(NoEnd)
    /\ Cleared /\ UNCHANGED <<mode, itemCount>> /\ TellListeners

(* A mode is set and everything cleared, which tells nobody when there was *)
(* nothing.                                                                *)
SetMode(m) ==
    /\ mode' = m /\ Cleared
    /\ UNCHANGED itemCount /\ TellListeners

(* set_item_count() looks at the ends only when a selected item goes.      *)
(* Mutant: the bounds stay.                                                *)
BoundsStay(e) == ends' = e /\ bounds' = bounds
BoundsOf(e)   == EndsAre(e)
SetItemCount(n) ==
    LET gone   == {i \in picked : i >= n}
        end(e) == IF e >= n THEN NoEnd ELSE e
    IN
    /\ itemCount' = n /\ UNCHANGED <<mode, allPicked>>
    /\ picked' = picked \ gone
    /\ IF gone # {} THEN BoundsOf([anchor |-> end(ends.anchor), active |-> end(ends.active)]) /\ TellListeners
       ELSE UNCHANGED <<ends, bounds, seen>>
    /\ shrunk' = ((shrunk \/ n < itemCount) /\ \E e \in {ends'.anchor, ends'.active} : e >= n)

SelectionInit ==
    /\ mode \in Modes /\ itemCount \in 0 .. MaxCount
    /\ picked = {} /\ ends = Both(NoEnd) /\ bounds = <<>>
    /\ seen = {} /\ shrunk = FALSE /\ allPicked = FALSE

SelectionNext ==
    \/ \E i \in Indices : SelectIndex(i) \/ DeselectIndex(i) \/ ToggleIndex(i) \/ SetAnchorEnd(i) \/ SetActiveEnd(i)
    \/ SelectEverything \/ ClearSelection
    \/ \E m \in Modes : SetMode(m)
    \/ \E n \in 0 .. MaxCount : SetItemCount(n)

SelectionSpec == SelectionInit /\ [][SelectionNext]_selectionVars

SelectionTypeOK ==
    /\ mode \in Modes /\ itemCount \in 0 .. MaxCount
    /\ picked \subseteq Indices /\ seen \subseteq 0 .. MaxCount
    /\ ends \in [{"anchor", "active"} -> NoEnd .. MaxCount]
    /\ bounds \in {<<>>} \cup (0 .. MaxCount) \X (0 .. MaxCount)

(* Both answers agree on what is selected, and it is among the items,      *)
(* unless the ends of a range outlived them; one item at most is selected  *)
(* in the single mode, unless all were; the bounds are those of the ends;  *)
(* and what listeners were told of last is what is selected.               *)
SelectionSafe ==
    LET now == SelectedIndices(mode, picked, bounds) IN
    /\ ~shrunk => now \subseteq Indices /\ now = {i \in Indices : ContainsIndex(i)}
    /\ mode = "single" /\ ~allPicked => Cardinality(picked) <= 1
    /\ bounds = BoundsBetween(ends)
    /\ seen = now
=============================================================================
