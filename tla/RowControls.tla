----------------------------- MODULE RowControls ------------------------------
(***************************************************************************)
(* Lists and grids: ListViewControl and DataGridControl                    *)
(* (gui_do/controls/data/list_view_control.py, data_grid_control.py) over  *)
(* _VirtualizedScrollListBase: rows, which of them are selected, and how   *)
(* far they are scrolled.                                                  *)
(*                                                                         *)
(* The selection is kept by position, while the program and views that are *)
(* bound to the control change the rows.  A row is one unit high.  The     *)
(* callback of a selection comes last in a call and may make other calls,  *)
(* which are therefore calls of their own here.                            *)
(***************************************************************************)
EXTENDS Integers, SequencesExt, FiniteSetsExt

CONSTANTS
    RowKinds,  \* "list", "multi" (a list with multi_select), "grid"
    Items,     \* what rows show
    Viewport   \* rows in view

ASSUME RowsAssumption ==
    /\ RowKinds \subseteq {"list", "multi", "grid"}
    /\ Viewport \in Nat \ {0}

VARIABLES
    rowKind,   \* the kind of the control
    rows,      \* _items, _rows
    selection, \* _selected_indices, _selected_row: positions, none for -1
    offset,    \* _scroll_offset
    kept,      \* what capture_state() returned last
    chosen,    \* history: the items that were selected
    inView,    \* history: the item scrolled to, if nothing has happened since
    drifted,   \* history: a row above the selected one of a grid was removed
    unclamped, \* history: rows were removed and the offset not limited since
    emptied    \* history: a state without a selection was restored

rowVars == <<rowKind, rows, selection, offset, kept, chosen, inView, drifted, unclamped, emptied>>

Listings == {s \in UNION {[1 .. n -> Items] : n \in 0 .. Cardinality(Items)} : IsInjective(s)}
ItemsAt(sel, rs) == {rs[sel[i]] : i \in DOMAIN sel}
MaxOffset(rs) == IF Len(rs) > Viewport THEN Len(rs) - Viewport ELSE 0
Clamped(o, rs) == IF o > MaxOffset(rs) THEN MaxOffset(rs) ELSE o

(* _ensure_selection_invariant() of a list: something is selected.         *)
Ensured(sel, rs) ==
    LET valid == SelectSeq(sel, LAMBDA i : i \in DOMAIN rs)
    IN IF rowKind = "grid" \/ valid # <<>> THEN valid ELSE IF rs = <<>> THEN <<>> ELSE <<1>>

(* scroll_to_item().                                                       *)
ScrolledTo(i, o) == Clamped(IF i - 1 < o THEN i - 1 ELSE IF i > o + Viewport THEN i - Viewport ELSE o, rows)

SelectionIs(sel, rs) == selection' = sel /\ chosen' = ItemsAt(sel, rs)

-----------------------------------------------------------------------------
(* What the user does.                                                     *)

(* _toggle_or_select().                                                    *)
Toggled(i) ==
    IF rowKind # "multi" THEN <<i>>
    ELSE IF i \notin ToSet(selection) THEN Append(selection, i)
    ELSE IF Len(selection) > 1 THEN SelectSeq(selection, LAMBDA j : j # i) ELSE selection

PressRow(i) ==
    /\ offset < i /\ i <= offset + Viewport
    /\ SelectionIs(Toggled(i), rows)
    /\ drifted' = FALSE /\ emptied' = FALSE /\ inView' = {}
    /\ UNCHANGED <<rowKind, rows, offset, kept, unclamped>>

ToggleKey ==
    /\ rowKind = "multi" /\ selection # <<>>
    /\ SelectionIs(Toggled(selection[1]), rows)
    /\ inView' = {}
    /\ UNCHANGED <<rowKind, rows, offset, kept, drifted, unclamped, emptied>>

(* select(): a list with more than one selected adds the row.              *)
SelectRow(i, scrolls) ==
    /\ SelectionIs(IF rowKind # "multi" THEN <<i>>
                   ELSE IF i \in ToSet(selection) THEN selection ELSE Append(selection, i), rows)
    /\ offset' = IF scrolls THEN ScrolledTo(i, offset) ELSE offset
    /\ inView' = IF scrolls THEN {rows[i]} ELSE {}
    /\ unclamped' = (unclamped /\ ~scrolls) /\ drifted' = FALSE /\ emptied' = FALSE
    /\ UNCHANGED <<rowKind, rows, kept>>

(* A key moves from the row that was selected first.                       *)
MoveSelection(by) ==
    LET from == IF selection = <<>> THEN IF by = 1 THEN 0 ELSE 1 ELSE selection[1]
        to   == Max({1, Min({Len(rows), from + by})})
    IN
    /\ rows # <<>>
    /\ IF selection = <<>> THEN TRUE ELSE to # selection[1]
    /\ SelectRow(to, TRUE)

(* The wheel and the handle of the scrollbar.                              *)
ScrollRows(o) ==
    /\ o # offset
    /\ offset' = o /\ unclamped' = FALSE /\ inView' = {}
    /\ UNCHANGED <<rowKind, rows, selection, kept, chosen, drifted, emptied>>

-----------------------------------------------------------------------------
(* What the program does.                                                  *)

SetRows(rs) ==
    /\ rows' = rs /\ offset' = 0
    /\ SelectionIs(Ensured(<<>>, rs), rs)
    /\ inView' = {} /\ drifted' = FALSE /\ unclamped' = FALSE /\ emptied' = FALSE
    /\ UNCHANGED <<rowKind, kept>>

(* set_collection_view(), also when a view that is bound is refreshed: the *)
(* items are found again.                                                  *)
FoundAgain(rs) ==
    LET again == SelectSeq([i \in DOMAIN rs |-> i], LAMBDA i : rs[i] \in ItemsAt(selection, rows))
    IN IF rowKind = "multi" \/ again = <<>> THEN again ELSE <<again[1]>>

RefreshRows(rs) ==
    /\ rows' = rs
    /\ selection' = Ensured(FoundAgain(rs), rs)
    /\ chosen' = IF chosen \cap ToSet(rs) = {} THEN ItemsAt(selection', rs) ELSE chosen \cap ToSet(rs)
    /\ offset' = Clamped(offset, rs)
    /\ inView' = {} /\ unclamped' = FALSE /\ emptied' = FALSE
    /\ UNCHANGED <<rowKind, kept, drifted>>

AppendRow(x) ==
    /\ x \notin ToSet(rows)
    /\ rows' = Append(rows, x)
    /\ selection' = Ensured(selection, rows')
    /\ chosen' = IF selection = <<>> THEN ItemsAt(selection', rows') ELSE chosen
    /\ emptied' = FALSE
    /\ UNCHANGED <<rowKind, offset, kept, inView, drifted, unclamped>>

(* A list moves the positions after that of the row; a grid only comes     *)
(* back into its rows.                                                     *)
(* Mutant: as in a grid.                                                   *)
NotMoved(i, j)   == j
MovedUp(i, j)    == IF j > i THEN j - 1 ELSE j
RemoveRow(i) ==
    LET left   == RemoveAt(rows, i)
        others == SelectSeq(selection, LAMBDA j : j # i)
    IN
    /\ rows' = left
    /\ selection' = IF rowKind = "grid"
                    THEN IF selection # <<>> /\ selection[1] > Len(left)
                         THEN IF left = <<>> THEN <<>> ELSE <<Len(left)>> ELSE selection
                    ELSE Ensured([n \in DOMAIN others |-> MovedUp(i, others[n])], left)
    /\ chosen' = IF chosen \ {rows[i]} = {} THEN ItemsAt(selection', left) ELSE chosen \ {rows[i]}
    /\ drifted' = (drifted \/ (rowKind = "grid" /\ selection # <<>> /\ i < selection[1]))
    /\ unclamped' = TRUE /\ inView' = {} /\ emptied' = FALSE
    /\ UNCHANGED <<rowKind, offset, kept>>

(* capture_state(), and restore_state() when the rows are others.          *)
KeepState ==
    /\ rowKind # "grid"
    /\ kept' = [selection |-> selection, offset |-> offset]
    /\ UNCHANGED <<rowKind, rows, selection, offset, chosen, inView, drifted, unclamped, emptied>>

RestoreState ==
    /\ rowKind # "grid"
    /\ SelectionIs(SelectSeq(kept.selection, LAMBDA i : i \in DOMAIN rows), rows)
    /\ offset' = Clamped(kept.offset, rows)
    /\ inView' = {} /\ unclamped' = FALSE /\ drifted' = FALSE /\ emptied' = (selection' = <<>>)
    /\ UNCHANGED <<rowKind, rows, kept>>

RowsInit ==
    /\ rowKind \in RowKinds
    /\ rows = <<>> /\ selection = <<>> /\ offset = 0
    /\ kept = [selection |-> <<>>, offset |-> 0]
    /\ chosen = {} /\ inView = {} /\ drifted = FALSE /\ unclamped = FALSE /\ emptied = FALSE

RowsNext ==
    \/ \E i \in DOMAIN rows : PressRow(i) \/ RemoveRow(i)
    \/ \E i \in DOMAIN rows, scrolls \in BOOLEAN : rowKind # "grid" /\ SelectRow(i, scrolls)
    \/ \E by \in {1, -1, Viewport, -Viewport, Len(rows), -Len(rows)} : MoveSelection(by)
    \/ \E o \in 0 .. MaxOffset(rows) : ScrollRows(o)
    \/ \E rs \in Listings : SetRows(rs) \/ RefreshRows(rs)
    \/ \E x \in Items : AppendRow(x)
    \/ ToggleKey \/ KeepState \/ RestoreState

RowsSpec == RowsInit /\ [][RowsNext]_rowVars

RowsTypeOK ==
    /\ rowKind \in RowKinds /\ rows \in Listings
    /\ selection \in Seq(1 .. Cardinality(Items)) /\ offset \in Nat
    /\ chosen \cup inView \subseteq Items

(* Every selected position is that of one row, and a list that has rows    *)
(* has a selected one, unless none was restored; the items there are those *)
(* that were selected, whatever rows came and went since, unless a grid    *)
(* lost one above; the offset leaves no room below the last row, unless    *)
(* rows were removed; and what was scrolled to is in view.                 *)
RowsSafe ==
    /\ IsInjective(selection) /\ ToSet(selection) \subseteq DOMAIN rows
    /\ rowKind # "multi" => Len(selection) <= 1
    /\ rowKind # "grid" /\ rows # <<>> /\ ~emptied => selection # <<>>
    /\ ~drifted => ItemsAt(selection, rows) = chosen
    /\ ~unclamped => offset <= MaxOffset(rows)
    /\ \A x \in inView : \E i \in offset + 1 .. offset + Viewport : i \in DOMAIN rows /\ rows[i] = x
=============================================================================
