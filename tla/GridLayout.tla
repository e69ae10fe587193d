----------------------------- MODULE GridLayout -----------------------------
(***************************************************************************)
(* The geometry of the tile grid: GridView::relayout and cellIndexAt       *)
(* (src/ui/grid/GridView.cpp) with autoColumns                             *)
(* (src/domain/layout/GridRules.h).                                        *)
(*                                                                         *)
(* A cell is numbered row by row from 0.  A channel is dropped on the cell *)
(* cellIndexAt finds, and shown in the cell relayout gives it: two         *)
(* computations that must agree about every cell of every layout.          *)
(***************************************************************************)
EXTENDS Integers, FiniteSets, Sequences, SequencesExt

GridSpacing == 1
InfoBarHeight == 28

AtLeastOne(n) == IF n < 1 THEN 1 ELSE n

\* The columns of Auto, for a number of channels.
AutoColumns(n) ==
    CASE n <= 0 -> 3
      [] n = 1 -> 1
      [] n \in 2 .. 4 -> 2
      [] n \in 5 .. 9 -> 3
      [] n \in 10 .. 16 -> 4
      [] OTHER -> 5

Columns(manual, n) == IF manual > 0 THEN manual ELSE AutoColumns(n)
CellWidth(cols, width) == AtLeastOne((width - (cols - 1) * GridSpacing) \div cols)
CellHeight(cellW) == (cellW * 3) \div 4 + InfoBarHeight

\* The rows that hold every gridIndex, and those that fill the viewport.
RequiredRows(cols, maxIndex) == AtLeastOne((maxIndex + cols) \div cols)
RowsForViewport(cellH, height) ==
    AtLeastOne((height + GridSpacing + cellH) \div (cellH + GridSpacing))
Larger(a, b) == IF a < b THEN b ELSE a

\* What relayout computes, and compares with the layout it has.
Layout(n, maxIndex, manual, view) ==
    LET cols == Columns(manual, n)
        w == CellWidth(cols, view.width)
        h == CellHeight(w)
    IN [cols |-> cols, w |-> w, h |-> h,
        rows |-> Larger(RequiredRows(cols, maxIndex), RowsForViewport(h, view.height))]

\* The cached members before the first relayout, and after rebuild has reset them.
NoLayout == [cols |-> 0, w |-> 0, h |-> 0, rows |-> 0]

Cells(l) == 0 .. l.rows * l.cols - 1

\* The cell of each channel: its gridIndex when the grid has that cell, else
\* the first cells nobody took; a channel that finds none is not shown.
Placement(l, at) ==
    LET inside == {id \in DOMAIN at : at[id] \in Cells(l)}
        free == Cells(l) \ {at[id] : id \in inside}
        Before(id) == {o \in DOMAIN at \ inside : at[o] < at[id]}
        fallback == {id \in DOMAIN at \ inside : Cardinality(Before(id)) < Cardinality(free)}
        FreeCell(n) == CHOOSE c \in free : Cardinality({d \in free : d < c}) = n
    IN [id \in inside \cup fallback |->
            IF id \in inside THEN at[id] ELSE FreeCell(Cardinality(Before(id)))]

\* Where a cell begins, for the highlight and in the QGridLayout.
Left(l, cell) == (cell % l.cols) * (l.w + GridSpacing)
Top(l, cell) == (cell \div l.cols) * (l.h + GridSpacing)

\* The cell under a point of the content, -1 for none.
CellIndexAt(l, x, y) ==
    IF l.cols <= 0 \/ l.w <= 0 \/ l.h <= 0 \/ x < 0 \/ y < 0
       \/ x \div (l.w + GridSpacing) >= l.cols
    THEN -1
    ELSE (y \div (l.h + GridSpacing)) * l.cols + x \div (l.w + GridSpacing)
=============================================================================
