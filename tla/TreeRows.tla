------------------------------- MODULE TreeRows -------------------------------
(***************************************************************************)
(* TreeControl (gui_do/controls/data/tree_control.py): nodes that are      *)
(* expanded and collapsed, the rows they make, and the selected one.       *)
(*                                                                         *)
(* A press on a node with children toggles it, which calls the program     *)
(* back before the press has selected the row: what the program does then  *)
(* happens in the middle of the press.  A row is one unit high.            *)
(***************************************************************************)
EXTENDS Integers, SequencesExt

CONSTANTS
    TreeNodes,    \* nodes
    NoNode,       \* None
    Children,     \* children of each, in order
    RootLists,    \* lists of nodes given to set_nodes()
    TreeViewport  \* rows in view

ASSUME TreeAssumption ==
    /\ NoNode \notin TreeNodes
    /\ Children \in [TreeNodes -> Seq(TreeNodes)] /\ RootLists \subseteq Seq(TreeNodes)
    /\ TreeViewport \in Nat \ {0}

VARIABLES
    roots,      \* _nodes
    expanded,   \* the nodes that are
    flat,       \* _rows
    pickedNode, \* _selected_node
    pickedRow,  \* _selected_row_index, 0 for -1
    treeOffset, \* _scroll_offset
    pressing,   \* the row whose press has called on_expand, 0 for none
    pressedNode,\* its node
    notified,   \* history: the node that on_select was told last, or the program selected
    movedRow,   \* history: on_expand moved the row that was pressed
    shrunken    \* history: rows went and the offset was not limited since

treeVars == <<roots, expanded, flat, pickedNode, pickedRow, treeOffset, pressing, pressedNode,
              notified, movedRow, shrunken>>

IsLeaf(n) == Children[n] = <<>>

(* _flatten().                                                             *)
Flatten(list, open) ==
    LET under[n \in TreeNodes] ==
          <<n>> \o IF n \in open THEN FlattenSeq([i \in DOMAIN Children[n] |-> under[Children[n][i]]])
                   ELSE <<>>
    IN FlattenSeq([i \in DOMAIN list |-> under[list[i]]])

RowOf(n, fl) == IF n \in ToSet(fl) THEN SelectInSeq(fl, LAMBDA m : m = n) ELSE 0
TreeMax(fl) == IF Len(fl) > TreeViewport THEN Len(fl) - TreeViewport ELSE 0
TreeLimited(o, fl) == IF o > TreeMax(fl) THEN TreeMax(fl) ELSE o

(* _rebuild_rows() looks for the selected node again.                      *)
(* Mutant: it does not.                                                    *)
RowKept(n, fl)  == pickedRow
RowAgain(n, fl) == RowOf(n, fl)
Rebuilt(open) ==
    /\ expanded' = open
    /\ flat' = Flatten(roots, open)
    /\ pickedRow' = RowAgain(pickedNode, flat')
    /\ shrunken' = (shrunken \/ Len(flat') < Len(flat))
    /\ movedRow' = FALSE

-----------------------------------------------------------------------------
(* The program: expand(), collapse(), expand_all(), collapse_all(),        *)
(* select() and set_nodes(), between events and in on_expand.              *)
Expand(n) ==
    /\ ~IsLeaf(n)
    /\ Rebuilt(expanded \cup {n})
    /\ UNCHANGED <<roots, pickedNode, treeOffset, pressing, pressedNode, notified>>

Collapse(n) ==
    /\ Rebuilt(expanded \ {n})
    /\ UNCHANGED <<roots, pickedNode, treeOffset, pressing, pressedNode, notified>>

ExpandAll(all) ==
    /\ Rebuilt(IF all THEN expanded \cup ToSet(Flatten(roots, TreeNodes))
               ELSE expanded \ ToSet(Flatten(roots, TreeNodes)))
    /\ UNCHANGED <<roots, pickedNode, treeOffset, pressing, pressedNode, notified>>

SelectNode(n) ==
    /\ pickedNode' = n /\ pickedRow' = RowOf(n, flat) /\ notified' = n
    /\ movedRow' = FALSE
    /\ UNCHANGED <<roots, expanded, flat, treeOffset, pressing, pressedNode, shrunken>>

SetNodes(list) ==
    /\ roots' = list /\ flat' = Flatten(list, expanded)
    /\ pickedNode' = NoNode /\ pickedRow' = 0 /\ notified' = NoNode
    /\ treeOffset' = 0 /\ shrunken' = FALSE /\ movedRow' = FALSE
    /\ UNCHANGED <<expanded, pressing, pressedNode>>

-----------------------------------------------------------------------------
(* The user.                                                               *)

(* A press on a row: that of a node with children toggles it first.        *)
Pick(n, i) ==
    /\ pickedNode' = n /\ pickedRow' = i
    /\ notified' = IF n # pickedNode THEN n ELSE notified
    /\ movedRow' = (RowOf(n, flat) # i)
    /\ pressing' = 0 /\ pressedNode' = NoNode
    /\ UNCHANGED <<roots, expanded, flat, treeOffset, shrunken>>

PressNode(i) ==
    /\ pressing = 0
    /\ treeOffset < i /\ i <= treeOffset + TreeViewport
    /\ LET n == flat[i] IN
       IF IsLeaf(n) THEN Pick(n, i)
       ELSE /\ Rebuilt(IF n \in expanded THEN expanded \ {n} ELSE expanded \cup {n})
            /\ pressing' = i /\ pressedNode' = n
            /\ UNCHANGED <<roots, pickedNode, treeOffset, notified>>

PressEnds == pressing # 0 /\ Pick(pressedNode, pressing)

(* Up and Down; _scroll_to_row().  A row that is not there any more ends   *)
(* the key in an exception.                                                *)
MoveTree(by) ==
    LET i == pickedRow + by IN
    /\ pressing = 0 /\ pickedNode # NoNode
    /\ IF by = 1 THEN i <= Len(flat) ELSE pickedRow > 1 /\ i <= Len(flat)
    /\ pickedNode' = flat[i] /\ pickedRow' = i /\ notified' = flat[i]
    /\ treeOffset' = TreeLimited(IF i - 1 < treeOffset THEN i - 1
                                 ELSE IF i > treeOffset + TreeViewport THEN i - TreeViewport
                                 ELSE treeOffset, flat)
    /\ shrunken' = FALSE /\ movedRow' = FALSE
    /\ UNCHANGED <<roots, expanded, flat, pressing, pressedNode>>

(* Right expands and Left collapses what is in the selected row.           *)
OpenKey(open) ==
    /\ pressing = 0 /\ pickedNode # NoNode /\ pickedRow \in DOMAIN flat
    /\ LET n == flat[pickedRow] IN
          /\ ~IsLeaf(n) /\ (n \in expanded) # open
          /\ Rebuilt(IF open THEN expanded \cup {n} ELSE expanded \ {n})
    /\ UNCHANGED <<roots, pickedNode, treeOffset, pressing, pressedNode, notified>>

ScrollTree(o) ==
    /\ pressing = 0 /\ o # treeOffset
    /\ treeOffset' = o /\ shrunken' = FALSE
    /\ UNCHANGED <<roots, expanded, flat, pickedNode, pickedRow, pressing, pressedNode, notified, movedRow>>

TreeInit ==
    /\ roots \in RootLists /\ expanded = {} /\ flat = Flatten(roots, {})
    /\ pickedNode = NoNode /\ pickedRow = 0 /\ treeOffset = 0
    /\ pressing = 0 /\ pressedNode = NoNode
    /\ notified = NoNode /\ movedRow = FALSE /\ shrunken = FALSE

TreeNext ==
    \/ \E n \in TreeNodes : Expand(n) \/ Collapse(n)
    \/ \E n \in TreeNodes \cup {NoNode} : SelectNode(n)
    \/ \E list \in RootLists : SetNodes(list)
    \/ \E i \in DOMAIN flat : PressNode(i)
    \/ \E by \in {-1, 1} : MoveTree(by)
    \/ \E b \in BOOLEAN : ExpandAll(b) \/ OpenKey(b)
    \/ \E o \in 0 .. TreeMax(flat) : ScrollTree(o)
    \/ PressEnds

TreeSpec == TreeInit /\ [][TreeNext]_treeVars

TreeTypeOK ==
    /\ roots \in RootLists /\ expanded \subseteq TreeNodes /\ flat \in Seq(TreeNodes)
    /\ {pickedNode, pressedNode, notified} \subseteq TreeNodes \cup {NoNode}
    /\ {pickedRow, treeOffset, pressing} \subseteq Nat
    /\ {movedRow, shrunken} \subseteq BOOLEAN

(* The rows are those of the nodes that are reached by expanded ones; the  *)
(* selected row is that of the selected node, or none while that is in a   *)
(* collapsed one, unless on_expand has moved the row in the middle of a    *)
(* press; the program knows which node is selected; the offset is within   *)
(* the rows, unless some of them went.                                     *)
TreeSafe ==
    /\ flat = Flatten(roots, expanded)
    /\ ~movedRow => pickedRow = RowOf(pickedNode, flat)
    /\ notified = pickedNode
    /\ ~shrunken => treeOffset <= TreeMax(flat)
=============================================================================
