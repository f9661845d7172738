----------------------------- MODULE WindowLayout -----------------------------
(***************************************************************************)
(* The solver of gui_do/layout/window_layout_handler.py: where the windows *)
(* of a scene go.  Windows fill shelves from left to right, shelves fill a *)
(* page from top to bottom, and the pages lie over each other.             *)
(*                                                                         *)
(* A place is the <<left, top>> of a window; a window keeps its size.      *)
(*                                                                         *)
(* A plan, and what is made of it, is given as the set that has it as its  *)
(* one element: so it is computed once where it is used often.             *)
(***************************************************************************)
EXTENDS Integers, SequencesExt

CONSTANTS
    TiledWindows,  \* windows
    WindowWidth, WindowHeight,
    Bounds,        \* bounded_area_rect(): what menu bar and task panel leave
    Padding, Gap

ASSUME LayoutAssumption ==
    /\ WindowWidth \in [TiledWindows -> Nat \ {0}] /\ WindowHeight \in [TiledWindows -> Nat \ {0}]
    /\ Bounds \in [left : Nat, top : Nat, right : Nat, bottom : Nat]
    /\ Padding \in Nat /\ Gap \in Nat

LargerOf(m, n)  == IF m > n THEN m ELSE n
SmallerOf(m, n) == IF m < n THEN m ELSE n
Apart(m, n) == IF m > n THEN m - n ELSE n - m
Total(s) == FoldLeft(LAMBDA m, n : m + n, 0, s)

(* round(), which takes a half to the even neighbour.                      *)
RoundedMean(sum, n) ==
    LET q == sum \div n  r == 2 * (sum % n) IN
    IF r > n \/ (r = n /\ q % 2 = 1) THEN q + 1 ELSE q

WorkWidth  == Bounds.right - Bounds.left - 2 * Padding
WorkHeight == Bounds.bottom - Bounds.top - 2 * Padding

LimitedTo(v, low, high) == IF high < low THEN low ELSE LargerOf(low, SmallerOf(v, high))
InBounds(w, p) == <<LimitedTo(p[1], Bounds.left, Bounds.right - WindowWidth[w]),
                    LimitedTo(p[2], Bounds.top, Bounds.bottom - WindowHeight[w])>>

MiddleOf(w, p) == p[1] + WindowWidth[w] \div 2
BottomOf(w, p) == p[2] + WindowHeight[w]

(* The sequence s by its keys, equal ones as they are.                     *)
SortedBy(s, Key(_)) ==
    LET Less(k, l) == k[1] < l[1] \/ (k[1] = l[1] /\ k[2] < l[2])
        First(i, j) == Less(Key(s[i]), Key(s[j])) \/ (Key(s[i]) = Key(s[j]) /\ i < j)
    IN [n \in DOMAIN s |-> s[CHOOSE i \in DOMAIN s :
                                Cardinality({j \in DOMAIN s : First(j, i)}) = n - 1]]

-----------------------------------------------------------------------------
(* Windows whose tops are close are of one row, whose top is their mean.   *)
Tolerance(s) ==
    LET heights == SortedBy([i \in DOMAIN s |-> WindowHeight[s[i]]], LAMBDA h : <<h, 0>>)
    IN LargerOf(8, SmallerOf(heights[Len(s) \div 2 + 1] \div 3, LargerOf(12, 2 * Gap)))

SpatialRows(s, at) ==
    LET Top(items) == RoundedMean(Total([i \in DOMAIN items |-> at[items[i]][2]]), Len(items))
        Into(rows, w) ==
          LET d(i) == Apart(Top(rows[i]), at[w][2])
              near == {i \in DOMAIN rows : d(i) <= Tolerance(s)}
              nearest == CHOOSE i \in near : \A j \in near : d(i) < d(j) \/ (d(i) = d(j) /\ i <= j)
          IN IF near = {} THEN Append(rows, <<w>>)
             ELSE [rows EXCEPT ![nearest] = Append(rows[nearest], w)]
    IN UNION {
         {[i \in DOMAIN rows |-> SortedBy(rows[i], LAMBDA w : <<MiddleOf(w, at[w]), 0>>)] :
            rows \in {SortedBy(found, LAMBDA row : <<Top(row), 0>>)}} :
         found \in {FoldLeft(Into, <<>>, SortedBy(s, LAMBDA w : <<at[w][2], at[w][1]>>))}}

(* Rows that the windows made stay rows: those of known windows, when they *)
(* are two or more, before the other windows.                              *)
RowPreserving(s, known, at) ==
    {IF Cardinality(known) < 2 \/ Len(rows) < 2 THEN [order |-> s, force |-> {}]
     ELSE [order |-> FlattenSeq(rows) \o SelectSeq(s, LAMBDA w : w \notin known),
           force |-> {rows[i][1] : i \in 2..Len(rows)}] :
        rows \in SpatialRows(SelectSeq(s, LAMBDA w : w \in known), at)}

(* Where a window that is dropped goes among the others: into the topmost  *)
(* row under the pointer, or between two rows, in a row of its own.        *)
InsertedInto(rows, w, point, at, z) ==
    LET reading == FlattenSeq(rows)
        Top(i)    == CHOOSE t \in {at[v][2] : v \in ToSet(rows[i])} :
                        \A v \in ToSet(rows[i]) : t <= at[v][2]
        Bottom(i) == CHOOSE b \in {BottomOf(v, at[v]) : v \in ToSet(rows[i])} :
                        \A v \in ToSet(rows[i]) : BottomOf(v, at[v]) <= b
        Highest(i) == CHOOSE k \in DOMAIN z : /\ z[k] \in ToSet(rows[i])
                                              /\ \A l \in DOMAIN z : z[l] \in ToSet(rows[i]) => l <= k
        Before(i) == Total([j \in 1..(i - 1) |-> Len(rows[j])])
        under     == {i \in DOMAIN rows : Top(i) <= point[2] /\ point[2] <= Bottom(i)}
        row       == CHOOSE i \in under : \A j \in under : Highest(j) <= Highest(i)
        below     == {i \in DOMAIN rows : \A j \in 1..i : 2 * point[2] > Top(j) + Bottom(j)}
        index     == IF under # {}
                     THEN Before(row) + Cardinality({v \in ToSet(rows[row]) : point[1] > MiddleOf(v, at[v])})
                     ELSE Before(Cardinality(below) + 1)
    IN [order |-> InsertAt(reading, index + 1, w),
        force |-> IF under # {} \/ rows = <<>> THEN {}
                  ELSE {w} \cup {reading[i] : i \in {index + 1} \cap DOMAIN reading}]

InsertionPlan(w, point, others, at, z) ==
    {InsertedInto(rows, w, point, at, z) : rows \in SpatialRows(others, at)}

-----------------------------------------------------------------------------
(* Shelves and pages.                                                      *)
FitHeight(w) == SmallerOf(WindowHeight[w], LargerOf(1, WorkHeight))
ShelfHeight(shelf) == CHOOSE h \in {FitHeight(w) : w \in ToSet(shelf)} :
                         \A w \in ToSet(shelf) : FitHeight(w) <= h
PageHeight(page) == Total([i \in DOMAIN page |-> ShelfHeight(page[i])]) + Gap * (Len(page) - 1)
RowWidth(shelf)  == Total([i \in DOMAIN shelf |-> WindowWidth[shelf[i]]]) + Gap * (Len(shelf) - 1)

(* Whether a window may go on the shelf that is being filled: a forced row *)
(* and a window wider than the area may not.                               *)
(* Mutant: the gap before the window is not counted.                       *)
Adjoins(shelf, w)        == RowWidth(shelf) + Gap + WindowWidth[w] <= WorkWidth
AdjoinsClosely(shelf, w) == RowWidth(shelf) + WindowWidth[w] <= WorkWidth

PackPages(order, force) ==
    LET Closed(s) == IF s.shelf = <<>> THEN s.page ELSE Append(s.page, s.shelf)
        Paged(s)  == IF Closed(s) = <<>> THEN s.pages ELSE Append(s.pages, Closed(s))
        OnShelf(s, w) ==
          /\ s.shelf # <<>> /\ w \notin force /\ WindowWidth[w] <= WorkWidth /\ Adjoins(s.shelf, w)
          /\ PageHeight(Append(s.page, Append(s.shelf, w))) <= WorkHeight
        Put(s, w) ==
          LET full == Closed(s) # <<>> /\ PageHeight(Closed(s)) + Gap + FitHeight(w) > WorkHeight
              page == IF full THEN <<>> ELSE Closed(s)
              wide == WindowWidth[w] > WorkWidth
          IN IF OnShelf(s, w) THEN [s EXCEPT !.shelf = Append(@, w)]
             ELSE [pages |-> IF full THEN Paged(s) ELSE s.pages,
                   page  |-> IF wide THEN Append(page, <<w>>) ELSE page,
                   shelf |-> IF wide THEN <<>> ELSE <<w>>]
    IN Paged(FoldLeft(Put, [pages |-> <<>>, page |-> <<>>, shelf |-> <<>>], order))

LayersOf(pages) == [i \in DOMAIN pages |-> FlattenSeq(pages[i])]

(* The place of each window: page and shelf are centred.                   *)
PositionPages(pages) ==
    LET Spot(w) ==
          LET page  == CHOOSE p \in ToSet(pages) : w \in ToSet(FlattenSeq(p))
              k     == CHOOSE i \in DOMAIN page : w \in ToSet(page[i])
              n     == CHOOSE i \in DOMAIN page[k] : page[k][i] = w
              above == Total([i \in 1..(k - 1) |-> ShelfHeight(page[i]) + Gap])
              left  == Total([i \in 1..(n - 1) |-> WindowWidth[page[k][i]] + Gap])
          IN <<Bounds.left + Padding + LargerOf(0, (WorkWidth - RowWidth(page[k])) \div 2) + left,
               Bounds.top + Padding + LargerOf(0, (WorkHeight - PageHeight(page)) \div 2) + above>>
    IN [w \in ToSet(FlattenSeq(LayersOf(pages))) |-> Spot(w)]

LayoutOf(plan) ==
    {[layers |-> LayersOf(pages), places |-> PositionPages(pages)] :
        pages \in {PackPages(plan.order, plan.force)}}

-----------------------------------------------------------------------------
(* The order in which windows are drawn: pages over each other, what was   *)
(* lowered at the back, what was raised or shown at the front.  Windows    *)
(* that are not arranged keep their slots.                                 *)
LayerOrder(layers, back, front) ==
    LET all   == FlattenSeq(layers)
        moved == SelectSeq(all, LAMBDA w : w \in back) \o SelectSeq(all, LAMBDA w : w \notin back)
    IN SelectSeq(moved, LAMBDA w : w \notin front) \o SelectSeq(moved, LAMBDA w : w \in front)

ReorderContainer(z, desired) ==
    [i \in DOMAIN z |->
       IF z[i] \in ToSet(desired)
       THEN desired[Cardinality({j \in 1..i : z[j] \in ToSet(desired)})] ELSE z[i]]

(* One window alone goes to the middle.                                    *)
CentredPlace(w) ==
    <<Bounds.left + Padding + WorkWidth \div 2 - WindowWidth[w] \div 2,
      Bounds.top + Padding + WorkHeight \div 2 - WindowHeight[w] \div 2>>

Overlap(v, p, w, q) ==
    /\ p[1] < q[1] + WindowWidth[w] /\ q[1] < p[1] + WindowWidth[v]
    /\ p[2] < q[2] + WindowHeight[w] /\ q[2] < p[2] + WindowHeight[v]
=============================================================================
