----------------------------- MODULE ShellProofs ----------------------------
(***************************************************************************)
(* Proofs about the window and the control thread (Shell), for any number  *)
(* of channels, every viewport and every length of the two queues.         *)
(*                                                                         *)
(* What is on the way to the UI thread decides what the window will show:  *)
(* an event is a function of the view (After), and the events in the queue *)
(* lead, one after the other, from the view that is shown to the one that  *)
(* holds (EventsLead).  A step of the control thread publishes an event    *)
(* that leads one view further, a delivery takes the first away; when none *)
(* is left the two are the same.  Every view between them has the state    *)
(* Idle for a channel it does not list: that is what removeRequested owes  *)
(* to its order, the end of the recording before the list, and why a tile  *)
(* that is deleted never leaves the tick running.  The rows of the panel   *)
(* are right unless an order or a list is on the way (OrderComing).  What  *)
(* tiles and rows say of a connection is told by the last snapshot before, *)
(* and the last one on the way is true (ToldInv): that needs every change  *)
(* of a connection to be published by the task that makes it, for a new    *)
(* channel after the list that has it.                                     *)
(*                                                                         *)
(* The greatest number of a finite set is found by induction, over the set *)
(* of the sizes for which there is one.                                    *)
(***************************************************************************)
EXTENDS Shell, FiniteSetTheorems, WellFoundedInduction, TLAPS

-----------------------------------------------------------------------------
(* The invariant. *)

Place == [grid : Nat, list : Nat]
Lists == UNION {[D -> Place] : D \in SUBSET Ids}
Label == {"NameOnly"} \cup ConnStates
Tile == [rec : RecState, label : Label]
RowType == [id : Ids, text : Ids, status : Label]
Column == 0 .. 5

EventType ==
    [kind : {"list"}, channels : Lists]
        \cup [kind : {"snapshot"}, id : Ids, state : ConnStates]
        \cup [kind : {"recording"}, id : Ids, state : RecState]

TaskType ==
    [kind : {"add"}]
        \cup [kind : {"update", "toggle", "capture"}, id : Ids]
        \cup [kind : {"move"}, id : Ids, cell : Nat]
        \cup [kind : {"reorder"}, order : Seq(Ids)]
        \cup [kind : {"remove"}, id : Ids, shown : Ids, late : BOOLEAN]

DialogType ==
    [kind : {"none"}]
        \cup [kind : {"minus"}, row : Nat, shown : Ids, late : BOOLEAN]
        \cup [kind : {"menu"}, row : Nat, id : Ids, late : BOOLEAN]
        \cup [kind : {"tile"}, row : {0}, id : Ids, late : BOOLEAN]
        \cup [kind : {"edit"}, id : Ids]
        \cup [kind : {"confirm"}, id : Ids, row : Nat, shown : Ids, late : BOOLEAN]

ControlTyped ==
    /\ entries \in Lists
    /\ conn \in [DOMAIN entries -> ConnStates]
    /\ rec \in [Ids -> RecState]

QueuesTyped ==
    /\ tasks \in Seq(TaskType)
    /\ events \in Seq(EventType)

WindowTyped ==
    /\ window = [channels |-> window.channels, streaming |-> window.streaming,
                 recStates |-> window.recStates, tabs |-> window.tabs]
    /\ window.channels \in Lists
    /\ window.streaming \in [DOMAIN window.channels -> BOOLEAN]
    /\ window.recStates \in [Ids -> RecState]
    /\ window.tabs \in [DOMAIN window.tabs -> RecState] /\ DOMAIN window.tabs \subseteq Ids

\* Tile, tab and cache agree.
TilesAgree ==
    /\ grid.tiles \in [DOMAIN window.channels -> Tile]
    /\ \A id \in DOMAIN window.channels :
          /\ grid.tiles[id].rec = window.recStates[id]
          /\ grid.tiles[id].label # "NameOnly" =>
                (grid.tiles[id].label = "Streaming" <=> window.streaming[id])
    /\ \A id \in DOMAIN window.tabs : window.tabs[id] = window.recStates[id]
    /\ grid.recTick \in BOOLEAN
    /\ grid.recTick <=> AnyRecording(grid.tiles)

\* The layout.
PlacesOf(es) == [id \in DOMAIN es |-> es[id].grid]
LayoutType == [cols : Nat, w : Nat, h : Nat, rows : Nat]
TilesPlaced ==
    /\ grid = [tiles |-> grid.tiles, configs |-> grid.configs, columns |-> grid.columns,
               layout |-> grid.layout, place |-> grid.place, recTick |-> grid.recTick,
               queued |-> grid.queued]
    /\ grid.configs = PlacesOf(window.channels)
    /\ grid.place = PlacesOf(window.channels)
    /\ grid.columns \in Column
    /\ grid.layout \in LayoutType
    /\ \A id \in DOMAIN window.channels : window.channels[id].grid \in Cells(grid.layout)
    /\ view \in Views

\* The panel.
RowsFit ==
    \A i \in DOMAIN panel.rows :
        LET id == panel.configs[i]
        IN /\ panel.rows[i].id = id /\ panel.rows[i].text = id
           /\ panel.rows[i].status # "Idle" =>
                 (panel.rows[i].status = "Streaming" <=> window.streaming[id])
OrderComing ==
    \/ \E i \in DOMAIN tasks : tasks[i].kind = "reorder"
    \/ \E i \in DOMAIN events : events[i].kind = "list"

PanelAgrees ==
    /\ panel = [configs |-> panel.configs, rows |-> panel.rows]
    /\ panel.configs = ListOrder(window.channels)
    /\ panel.rows \in Seq(RowType) /\ Len(panel.rows) = Len(panel.configs)
    /\ ~OrderComing => RowsFit

\* The menu or dialog.
DialogTyped == dialog \in DialogType

\* What the window shows, what there is, and what an event does to the former.
Shown == [channels |-> window.channels, streaming |-> window.streaming,
          recs |-> window.recStates]
Truth == [channels |-> entries,
          streaming |-> [id \in DOMAIN entries |-> conn[id] = "Streaming"],
          recs |-> rec]
Listed(x, es) ==
    [x EXCEPT !.channels = es,
              !.streaming = [id \in DOMAIN es |-> IF id \in DOMAIN @ THEN @[id] ELSE FALSE]]
Streams(x, id, s) == [x EXCEPT !.streaming = With(@, id, s = "Streaming")]
Records(x, id, s) == [x EXCEPT !.recs[id] = s]
After(x, e) ==
    CASE e.kind = "list" -> Listed(x, e.channels)
      [] e.kind = "snapshot" -> Streams(x, e.id, e.state)
      [] OTHER -> Records(x, e.id, e.state)

\* A view: what is listed, which stream, and a state for every recording,
\* Idle where there is no channel.
ViewType == {x \in [channels : Lists, streaming : UNION {[D -> BOOLEAN] : D \in SUBSET Ids},
                    recs : [Ids -> RecState]] :
               /\ DOMAIN x.streaming = DOMAIN x.channels
               /\ \A id \in Ids \ DOMAIN x.channels : x.recs[id] = "Idle"}

\* The events es lead from the view a to the view b.
Linked(a, es, b) ==
    \E h \in [1 .. Len(es) + 1 -> ViewType] :
        /\ h[1] = a /\ h[Len(es) + 1] = b
        /\ \A i \in 1 .. Len(es) : h[i + 1] = After(h[i], es[i])

EventsLead == Linked(Shown, events, Truth)

\* The inductive invariant.
IInv ==
    /\ ControlTyped /\ QueuesTyped /\ WindowTyped
    /\ TilesAgree /\ TilesPlaced /\ PanelAgrees /\ DialogTyped
    /\ EventsLead

-----------------------------------------------------------------------------
(* Numbers, places and ranks. *)

\* There are finitely many ids.
LEMMA IdsAreFinite == IsFiniteSet(Ids)
<1>1. MaxId \in Nat
  BY ShellAssumption
<1> QED BY <1>1, FS_Interval DEF Ids

\* A set of numbers has a least one.
LEMMA LeastNumber ==
    ASSUME NEW T \in SUBSET Nat, T # {}
    PROVE  \E n \in T : \A m \in T : n <= m
<1>1. PICK n \in T : \A m \in T : ~(<<m, n>> \in OpToRel(<, Nat))
  BY NatLessThanWellFounded, WFMin
<1>2. \A m \in T : ~(m < n)
  BY <1>1 DEF OpToRel
<1> QED BY <1>2

\* Induction, for the set of the numbers that have the property.
LEMMA SetInduction ==
    ASSUME NEW T \in SUBSET Nat, 0 \in T, \A n \in T : n + 1 \in T
    PROVE  T = Nat
<1> SUFFICES ASSUME Nat \ T # {} PROVE FALSE
  OBVIOUS
<1>1. PICK n \in Nat \ T : \A m \in Nat \ T : n <= m
  BY LeastNumber
<1>2. n # 0 /\ n - 1 \in Nat
  BY <1>1
<1>3. n - 1 \in T
  BY <1>1, <1>2
<1>4. (n - 1) + 1 \in T
  BY <1>3
<1> QED BY <1>1, <1>2, <1>4

\* A finite set of numbers has a greatest one.
LEMMA GreatestNumber ==
    ASSUME NEW S \in SUBSET Nat, IsFiniteSet(S), S # {}
    PROVE  \E n \in S : \A m \in S : m <= n
<1> DEFINE HasMax(U) == \E n \in U : \A m \in U : m <= n
           T == {n \in Nat : \A U \in SUBSET Nat :
                    IsFiniteSet(U) /\ Cardinality(U) = n => U = {} \/ HasMax(U)}
<1>1. 0 \in T
  BY FS_EmptySet
<1>2. ASSUME NEW n \in T PROVE n + 1 \in T
  <2> SUFFICES ASSUME NEW U \in SUBSET Nat, IsFiniteSet(U), Cardinality(U) = n + 1, U # {}
               PROVE  HasMax(U)
    OBVIOUS
  <2>1. PICK x \in U : TRUE
    OBVIOUS
  <2>2. IsFiniteSet(U \ {x}) /\ Cardinality(U \ {x}) = n
    <3>1. IsFiniteSet(U \ {x}) /\ Cardinality(U \ {x}) = (n + 1) - 1
      BY <2>1, FS_RemoveElement, Zenon
    <3>2. n \in Nat
      OBVIOUS
    <3> QED BY <3>1, <3>2
  <2>3. U \ {x} = {} \/ HasMax(U \ {x})
    BY <2>2
  <2>4. CASE U \ {x} = {}
    BY <2>1, <2>4
  <2>5. CASE HasMax(U \ {x})
    <3>1. PICK m \in U \ {x} : \A k \in U \ {x} : k <= m
      BY <2>5
    <3>2. CASE x <= m
      BY <3>1, <3>2
    <3>3. CASE m <= x
      BY <3>1, <3>3
    <3> QED BY <3>2, <3>3
  <2> QED BY <2>3, <2>4, <2>5
<1>3. T = Nat
  <2> HIDE DEF T
  <2>1. T \subseteq Nat
    BY DEF T
  <2> QED BY <1>1, <1>2, <2>1, SetInduction
<1>4. Cardinality(S) \in T
  BY <1>3, FS_CardinalityType
<1> QED BY <1>4

\* The first place that is free.
LEMMA FreePlaceIsFree ==
    ASSUME NEW taken \in SUBSET Nat, IsFiniteSet(taken)
    PROVE  FreePlace(taken) \in Nat /\ FreePlace(taken) \notin taken
<1> DEFINE T == (0 .. Cardinality(taken)) \ taken
<1>1. Cardinality(taken) \in Nat
  BY FS_CardinalityType
<1>2. T # {}
  <2> SUFFICES ASSUME 0 .. Cardinality(taken) \subseteq taken PROVE FALSE
    OBVIOUS
  <2>1. Cardinality(0 .. Cardinality(taken)) <= Cardinality(taken)
    BY FS_Subset
  <2>2. Cardinality(0 .. Cardinality(taken)) = Cardinality(taken) - 0 + 1
    BY <1>1, FS_Interval
  <2> QED BY <1>1, <2>1, <2>2
<1>3. PICK n \in T : \A m \in T : n <= m
  <2> HIDE DEF T
  <2>1. T \subseteq Nat
    BY <1>1 DEF T
  <2> QED BY <1>2, <2>1, LeastNumber
<1>4. n \in 0 .. Cardinality(taken) /\ n \notin taken /\ \A m \in 0 .. n - 1 : m \in taken
  BY <1>1, <1>3
<1> HIDE DEF T
<1> QED BY <1>1, <1>4 DEF FreePlace

\* The list of the panel has every channel once: the channels are ranked by
\* the number of those before them.
LEMMA ListOrderHasAll ==
    ASSUME NEW es, DOMAIN es \subseteq Ids, \A id \in DOMAIN es : es[id].list \in Nat
    PROVE  /\ Len(ListOrder(es)) = Cardinality(DOMAIN es)
           /\ ListOrder(es) \in Seq(DOMAIN es)
           /\ \A id \in DOMAIN es : \E i \in DOMAIN ListOrder(es) : ListOrder(es)[i] = id
<1> DEFINE D == DOMAIN es
           N == Cardinality(D)
           Lower(id) == {e \in D : Earlier(es, e, id)}
           r == [id \in D |-> Cardinality(Lower(id))]
<1>1. IsFiniteSet(D) /\ N \in Nat
  BY IdsAreFinite, FS_Subset, FS_CardinalityType
<1>2. ASSUME NEW id \in D PROVE r[id] \in 0 .. N - 1
  <2>1. Lower(id) \subseteq D \ {id}
    BY ShellAssumption DEF Earlier, Ids
  <2>2. IsFiniteSet(D \ {id}) /\ Cardinality(D \ {id}) = N - 1
    BY <1>1, FS_RemoveElement
  <2>3. Cardinality(Lower(id)) \in Nat /\ Cardinality(Lower(id)) <= N - 1
    BY <2>1, <2>2, FS_Subset, FS_CardinalityType
  <2> QED BY <1>1, <2>3
<1>3. ASSUME NEW a \in D, NEW b \in D, Earlier(es, a, b) PROVE r[a] < r[b]
  <2>1. Lower(a) \subseteq Lower(b) \ {a}
    BY <1>3, ShellAssumption DEF Earlier, Ids
  <2>2. a \in Lower(b)
    BY <1>3
  <2>3. IsFiniteSet(Lower(b)) /\ Cardinality(Lower(b)) \in Nat
    BY <1>1, FS_Subset, FS_CardinalityType
  <2>4. /\ IsFiniteSet(Lower(b) \ {a})
        /\ Cardinality(Lower(b) \ {a}) = Cardinality(Lower(b)) - 1
    BY <2>2, <2>3, FS_RemoveElement
  <2>5. /\ Cardinality(Lower(a)) <= Cardinality(Lower(b)) - 1
        /\ Cardinality(Lower(a)) \in Nat
    BY <2>1, <2>4, FS_Subset, FS_CardinalityType
  <2> QED BY <2>3, <2>5
<1>4. ASSUME NEW a \in D, NEW b \in D, a # b PROVE r[a] # r[b]
  <2>1. Earlier(es, a, b) \/ Earlier(es, b, a)
    BY <1>4, ShellAssumption DEF Earlier, Ids
  <2>2. r[a] < r[b] \/ r[b] < r[a]
    BY <2>1, <1>3
  <2>3. r[a] \in Int /\ r[b] \in Int
    BY <1>1, <1>2
  <2> HIDE DEF r
  <2> QED BY <2>2, <2>3
<1>5. \A n \in 0 .. N - 1 : \E id \in D : r[id] = n
  <2> HIDE DEF r
  <2>1. r \in [D -> 0 .. N - 1]
    BY <1>2 DEF r
  <2>2. r \in Injection(D, 0 .. N - 1)
    BY <2>1, <1>4 DEF Injection, IsInjective
  <2>3. IsFiniteSet(0 .. N - 1) /\ Cardinality(0 .. N - 1) = N
    BY <1>1, FS_Interval
  <2>4. r \in Surjection(D, 0 .. N - 1)
    BY <2>2, <2>3, FS_Injection
  <2> QED BY <2>4 DEF Surjection
<1>6. ASSUME NEW n \in 1 .. N
      PROVE  ListOrder(es)[n] \in D /\ r[ListOrder(es)[n]] = n - 1
  <2>1. \E id \in D : r[id] = n - 1
    <3>1. n - 1 \in 0 .. N - 1
      BY <1>1
    <3> HIDE DEF r, N, D
    <3> QED BY <3>1, <1>5
  <2>2. ListOrder(es)[n] = CHOOSE id \in D : Cardinality(Lower(id)) = n - 1
    BY DEF ListOrder
  <2>3. ListOrder(es)[n] \in D /\ Cardinality(Lower(ListOrder(es)[n])) = n - 1
    <3> HIDE DEF Lower, N
    <3> QED BY <2>1, <2>2
  <2> QED BY <2>3
<1>7. /\ DOMAIN ListOrder(es) = 1 .. N
      /\ ListOrder(es) = [n \in 1 .. N |-> ListOrder(es)[n]]
  <2> DEFINE F(n) == CHOOSE id \in D : Cardinality(Lower(id)) = n - 1
  <2>1. ListOrder(es) = [n \in 1 .. N |-> F(n)]
    BY DEF ListOrder
  <2> HIDE DEF F
  <2> QED BY <2>1
<1>8. ListOrder(es) \in Seq(D) /\ Len(ListOrder(es)) = N
  <2>1. \A n \in 1 .. N : ListOrder(es)[n] \in D
    BY <1>6
  <2> HIDE DEF D, N
  <2> QED BY <1>1, <1>7, <2>1
<1>9. ASSUME NEW id \in D PROVE ListOrder(es)[r[id] + 1] = id /\ r[id] + 1 \in 1 .. N
  <2>1. r[id] + 1 \in 1 .. N /\ r[id] \in Int
    BY <1>1, <1>2
  <2>2. ListOrder(es)[r[id] + 1] \in D /\ r[ListOrder(es)[r[id] + 1]] = r[id]
    <3>1. \A n \in 1 .. N : ListOrder(es)[n] \in D /\ r[ListOrder(es)[n]] = n - 1
      BY <1>6
    <3> HIDE DEF r, D, N
    <3> QED BY <2>1, <3>1
  <2> HIDE DEF r, D, N
  <2> QED BY <2>1, <2>2, <1>4
<1> HIDE DEF r
<1> QED BY <1>7, <1>8, <1>9

-----------------------------------------------------------------------------
(* The layout of the grid. *)

\* Division of a multiple and a remainder.
LEMMA DivOfSum ==
    ASSUME NEW a \in Nat, NEW s \in Nat \ {0}, NEW b \in 0 .. s - 1
    PROVE  (a * s + b) \div s = a
  <1> DEFINE q == (a * s + b) \div s
             r == (a * s + b) % s
  <1>1. a * s \in Nat
    OBVIOUS
  <1>2. q \in Int /\ r \in 0 .. s - 1 /\ a * s + b = s * q + r
    BY <1>1
  <1>3. s * (a - q) = r - b
    BY <1>1, <1>2
  <1> HIDE DEF q, r
  <1>4. CASE a - q >= 1
    BY <1>2, <1>3, <1>4
  <1>5. CASE q - a >= 1
    BY <1>2, <1>3, <1>5
  <1>6. q = a
    BY <1>2, <1>4, <1>5
  <1> QED
    BY <1>6 DEF q

\* requiredRows holds the greatest index.
LEMMA RowsHoldEveryIndex ==
    ASSUME NEW cols \in Nat \ {0}, NEW maxIndex \in Nat
    PROVE  /\ RequiredRows(cols, maxIndex) \in Nat
           /\ RequiredRows(cols, maxIndex) * cols > maxIndex
  <1> DEFINE q == (maxIndex + cols) \div cols
             r == (maxIndex + cols) % cols
  <1>1. q \in Int /\ r \in 0 .. cols - 1 /\ maxIndex + cols = cols * q + r
    OBVIOUS
  <1>2. RequiredRows(cols, maxIndex) = AtLeastOne(q)
    BY DEF RequiredRows
  <1> HIDE DEF q, r
  <1>3. cols * q > maxIndex
    BY <1>1
  <1>4. q >= 1
    BY <1>1, <1>3
  <1> QED
    BY <1>1, <1>2, <1>3, <1>4 DEF AtLeastOne

\* There is a column, whatever was chosen.
LEMMA ColumnsArePositive ==
    ASSUME NEW manual \in Int, NEW n \in Int
    PROVE  Columns(manual, n) \in Nat \ {0}
  BY DEF Columns, AutoColumns

\* A cell has a width and a height.
LEMMA CellsHaveASize ==
    ASSUME NEW cols \in Nat \ {0}, NEW width \in Int, NEW height \in Int
    PROVE  LET h == CellHeight(CellWidth(cols, width))
           IN h \in Nat \ {0} /\ RowsForViewport(h, height) \in Nat
  <1> DEFINE w == CellWidth(cols, width)
             h == CellHeight(w)
  <1>1. w \in Nat \ {0}
    BY DEF CellWidth, AtLeastOne, GridSpacing
  <1> HIDE DEF w
  <1>2. h \in Nat \ {0}
    BY <1>1 DEF CellHeight, InfoBarHeight
  <1> HIDE DEF h
  <1>3. RowsForViewport(h, height) \in Nat
    BY <1>2 DEF RowsForViewport, AtLeastOne, GridSpacing
  <1> QED
    BY <1>2, <1>3 DEF w, h

\* relayout has a cell for every gridIndex in use, for any number of columns and
\* any viewport, so the fallback to a foreign cell is never taken for one.
THEOREM EveryIndexHasACell ==
    ASSUME NEW n \in Int, NEW maxIndex \in Nat, NEW manual \in Int, NEW size,
           size.width \in Int, size.height \in Int
    PROVE  0 .. maxIndex \subseteq Cells(Layout(n, maxIndex, manual, size))
  <1> DEFINE cols == Columns(manual, n)
             h == CellHeight(CellWidth(cols, size.width))
             needed == RequiredRows(cols, maxIndex)
             filling == RowsForViewport(h, size.height)
             rows == Larger(needed, filling)
  <1>1. cols \in Nat \ {0}
    BY ColumnsArePositive, Zenon
  <1>2. Cells(Layout(n, maxIndex, manual, size)) = 0 .. rows * cols - 1
    BY DEF Cells, Layout
  <1> HIDE DEF cols
  <1>3. needed \in Nat /\ needed * cols > maxIndex
    BY <1>1, RowsHoldEveryIndex
  <1>4. filling \in Nat
    BY <1>1, CellsHaveASize
  <1> HIDE DEF needed, filling
  <1>5. rows \in Nat /\ rows >= needed
    BY <1>3, <1>4 DEF Larger
  <1> HIDE DEF rows
  <1>6. rows * cols >= needed * cols /\ rows * cols \in Nat /\ needed * cols \in Nat
    <2>1. (rows - needed) * cols \in Nat
      BY <1>1, <1>3, <1>5
    <2> QED
      BY <2>1, <1>1, <1>3, <1>5
  <1> QED
    BY <1>2, <1>3, <1>6

\* A point inside a shown cell, its pixels counted from where relayout puts it,
\* is found in that cell by cellIndexAt.
THEOREM DropHitsShownCell ==
    ASSUME NEW l, NEW cell \in Nat, NEW dx, NEW dy,
           l.cols \in Nat \ {0}, l.w \in Nat \ {0}, l.h \in Nat \ {0},
           dx \in 0 .. l.w - 1, dy \in 0 .. l.h - 1
    PROVE  CellIndexAt(l, Left(l, cell) + dx, Top(l, cell) + dy) = cell
  <1> DEFINE column == cell % l.cols
             row == cell \div l.cols
             w == l.w + 1
             h == l.h + 1
             x == column * w + dx
             y == row * h + dy
  <1>1. /\ column \in 0 .. l.cols - 1 /\ row \in Nat
        /\ cell = l.cols * row + column
    OBVIOUS
  <1>2. /\ w \in Nat \ {0} /\ h \in Nat \ {0}
        /\ dx \in 0 .. w - 1 /\ dy \in 0 .. h - 1
    OBVIOUS
  <1>3. x = Left(l, cell) + dx /\ y = Top(l, cell) + dy
    BY DEF Left, Top, GridSpacing
  <1>4. CellIndexAt(l, x, y) =
          IF l.cols <= 0 \/ l.w <= 0 \/ l.h <= 0 \/ x < 0 \/ y < 0 \/ x \div w >= l.cols
          THEN -1 ELSE (y \div h) * l.cols + x \div w
    BY DEF CellIndexAt, GridSpacing
  <1> HIDE DEF column, row, w, h
  <1>5. column * w \in Nat /\ row * h \in Nat
    BY <1>1, <1>2
  <1>6. x \in Nat /\ y \in Nat
    BY <1>2, <1>5
  <1>7. column \in Nat
    BY <1>1
  <1>8. x \div w = column
    BY <1>2, <1>7, DivOfSum, Zenon
  <1>9. y \div h = row
    BY <1>1, <1>2, DivOfSum, Zenon
  <1> HIDE DEF x, y
  <1>10. ~(l.cols <= 0 \/ l.w <= 0 \/ l.h <= 0 \/ x < 0 \/ y < 0 \/ column >= l.cols)
    BY <1>1, <1>6
  <1>11. CellIndexAt(l, x, y) = row * l.cols + column
    BY <1>4, <1>8, <1>9, <1>10, Zenon
  <1> QED
    BY <1>1, <1>3, <1>11

\* Nobody is moved to a foreign cell.
LEMMA PlacementIsPlace ==
    ASSUME NEW l, NEW D, NEW at, DOMAIN at = D, at = [id \in D |-> at[id]],
           \A id \in D : at[id] \in Cells(l)
    PROVE  Placement(l, at) = at
<1> DEFINE inside == {id \in DOMAIN at : at[id] \in Cells(l)}
           free == Cells(l) \ {at[id] : id \in inside}
           Before(id) == {o \in DOMAIN at \ inside : at[o] < at[id]}
           fallback == {id \in DOMAIN at \ inside : Cardinality(Before(id)) < Cardinality(free)}
           FreeCell(n) == CHOOSE c \in free : Cardinality({d \in free : d < c}) = n
<1>1. inside = D /\ fallback = {}
  OBVIOUS
<1>2. Placement(l, at) = [id \in inside \cup fallback |->
            IF id \in inside THEN at[id] ELSE FreeCell(Cardinality(Before(id)))]
  BY DEF Placement
<1> HIDE DEF inside, free, Before, fallback, FreeCell
<1> QED BY <1>1, <1>2

\* The layout of a grid: sizes, and a cell for every index it was made for.
LEMMA LayoutIsTyped ==
    ASSUME NEW n \in Int, NEW m \in Int, m >= -1, NEW columns \in Column, NEW size \in Views
    PROVE  /\ Layout(n, m, columns, size) \in LayoutType
           /\ Layout(n, m, columns, size) # NoLayout
           /\ m # -1 => 0 .. m \subseteq Cells(Layout(n, m, columns, size))
<1> DEFINE cols == Columns(columns, n)
           w == CellWidth(cols, size.width)
           h == CellHeight(w)
           needed == RequiredRows(cols, m)
           filling == RowsForViewport(h, size.height)
<1>0. size.width \in Int /\ size.height \in Int /\ columns \in Int
  BY ShellAssumption DEF Column
<1>1. cols \in Nat \ {0}
  BY <1>0, ColumnsArePositive, Zenon
<1>2. Layout(n, m, columns, size) =
         [cols |-> cols, w |-> w, h |-> h, rows |-> Larger(needed, filling)]
  BY DEF Layout
<1>3. w \in Nat
  <2> HIDE DEF cols
  <2> QED BY <1>0, <1>1 DEF CellWidth, AtLeastOne, GridSpacing
<1>4. h \in Nat /\ filling \in Nat
  <2> HIDE DEF cols
  <2> QED BY <1>0, <1>1, CellsHaveASize
<1>5. needed \in Nat
  <2> HIDE DEF cols
  <2> QED BY <1>1 DEF RequiredRows, AtLeastOne
<1>6. m # -1 => 0 .. m \subseteq Cells(Layout(n, m, columns, size))
  BY <1>0, EveryIndexHasACell
<1> HIDE DEF cols, w, h, needed, filling
<1>7. Larger(needed, filling) \in Nat
  BY <1>4, <1>5 DEF Larger
<1> QED BY <1>1, <1>2, <1>3, <1>4, <1>6, <1>7 DEF LayoutType, NoLayout

-----------------------------------------------------------------------------
(* Lists, and the tiles of a list. *)

\* A list of channels, member by member.
LEMMA ListsAreFunctions ==
    ASSUME NEW es \in Lists
    PROVE  /\ DOMAIN es \subseteq Ids /\ IsFiniteSet(DOMAIN es)
           /\ es \in [DOMAIN es -> Place]
           /\ \A id \in DOMAIN es : es[id].grid \in Nat /\ es[id].list \in Nat
  BY IdsAreFinite, FS_Subset DEF Lists, Place

\* ... and what is one.
LEMMA FunctionsAreLists ==
    ASSUME NEW D, D \subseteq Ids, NEW es \in [D -> Place]
    PROVE  es \in Lists
  BY DEF Lists

\* A grid has its members, and a choice of columns.
GridType(g) ==
    /\ g = [tiles |-> g.tiles, configs |-> g.configs, columns |-> g.columns,
            layout |-> g.layout, place |-> g.place, recTick |-> g.recTick,
            queued |-> g.queued]
    /\ g.columns \in Column

\* relayout puts every tile into the cell of its gridIndex, or finds it there.
LEMMA RelaidPlacesAll ==
    ASSUME NEW g, NEW es \in Lists, GridType(g), g.configs = PlacesOf(es),
           \/ g.layout = NoLayout
           \/ /\ g.layout \in LayoutType /\ g.place = PlacesOf(es)
              /\ \A id \in DOMAIN es : es[id].grid \in Cells(g.layout),
           NEW size \in Views
    PROVE  LET r == Relaid(g, size)
           IN /\ GridType(r)
              /\ r.configs = g.configs /\ r.columns = g.columns /\ r.tiles = g.tiles
              /\ r.recTick = g.recTick /\ r.queued = g.queued
              /\ r.layout \in LayoutType /\ r.place = PlacesOf(es)
              /\ \A id \in DOMAIN es : es[id].grid \in Cells(r.layout)
<1> DEFINE cells == {g.configs[id] : id \in DOMAIN g.configs}
           max == CHOOSE n \in cells \cup {-1} : \A m \in cells : m <= n
           count == Cardinality(DOMAIN g.configs)
           l == Layout(count, max, g.columns, size)
<1>1. /\ DOMAIN g.configs = DOMAIN es
      /\ \A id \in DOMAIN es : g.configs[id] = es[id].grid
  BY DEF PlacesOf
<1>2. count \in Nat /\ IsFiniteSet(DOMAIN g.configs)
  BY <1>1, ListsAreFunctions, FS_CardinalityType
<1>3. cells \subseteq Nat
  BY <1>1, ListsAreFunctions
<1>4. IsFiniteSet(cells)
  <2> DEFINE f == [id \in DOMAIN g.configs |-> g.configs[id]]
  <2>1. f \in Surjection(DOMAIN g.configs, cells)
    BY DEF Surjection
  <2> HIDE DEF f, cells
  <2> QED BY <1>2, <2>1, FS_Surjection
<1>5. \E n \in cells \cup {-1} : \A m \in cells : m <= n
  <2>1. CASE cells = {}
    <3> HIDE DEF cells
    <3> QED BY <2>1
  <2>2. CASE cells # {}
    <3> HIDE DEF cells
    <3> QED BY <1>3, <1>4, <2>2, GreatestNumber
  <2> QED BY <2>1, <2>2
<1>6. max \in cells \cup {-1} /\ \A m \in cells : m <= max
  <2> HIDE DEF cells
  <2> QED BY <1>5
<1>7. max \in Int /\ max >= -1
  <2> HIDE DEF max, cells
  <2> QED BY <1>3, <1>6
<1>8. /\ l \in LayoutType /\ l # NoLayout
      /\ max # -1 => 0 .. max \subseteq Cells(l)
  <2>1. g.columns \in Column
    BY DEF GridType
  <2> HIDE DEF max, count
  <2> QED BY <1>2, <1>7, <2>1, LayoutIsTyped
<1>9. ASSUME NEW id \in DOMAIN es PROVE es[id].grid \in Cells(l)
  <2>1. es[id].grid \in cells
    BY <1>1
  <2> HIDE DEF max, cells, l
  <2>2. es[id].grid \in Nat /\ es[id].grid <= max
    BY <1>3, <1>6, <2>1
  <2>3. max # -1 /\ es[id].grid \in 0 .. max
    BY <1>7, <2>2
  <2> QED BY <1>8, <2>3
<1>10. Relaid(g, size) = IF l = g.layout THEN g
                         ELSE [g EXCEPT !.layout = l, !.place = Placement(l, g.configs)]
  BY DEF Relaid
<1> HIDE DEF max, cells, count, l
<1>11. CASE l = g.layout
  <2>1. Relaid(g, size) = g
    BY <1>10, <1>11
  <2>2. g.layout # NoLayout
    BY <1>8, <1>11
  <2> QED BY <1>8, <1>11, <2>1, <2>2
<1>12. CASE l # g.layout
  <2>1. Placement(l, g.configs) = g.configs
    <3>1. \A id \in DOMAIN es : g.configs[id] \in Cells(l)
      BY <1>1, <1>9
    <3>2. g.configs = [id \in DOMAIN es |-> g.configs[id]]
      BY DEF PlacesOf
    <3> QED BY <1>1, <3>1, <3>2, PlacementIsPlace
  <2>2. Relaid(g, size) = [g EXCEPT !.layout = l, !.place = PlacesOf(es)]
    BY <1>10, <1>12, <2>1
  <2>3. Relaid(g, size) = [tiles |-> g.tiles, configs |-> g.configs, columns |-> g.columns,
            layout |-> l, place |-> PlacesOf(es), recTick |-> g.recTick, queued |-> g.queued]
    BY <2>2 DEF GridType
  <2> QED BY <1>8, <1>9, <2>3 DEF GridType
<1> QED BY <1>11, <1>12

-----------------------------------------------------------------------------
(* The events on the way. *)

\* No event: the two views are one.
LEMMA LinkNone == ASSUME NEW a, NEW b, Linked(a, << >>, b) PROVE a = b
  BY DEF Linked

\* The ends of a chain are views.
LEMMA LinkEnds ==
    ASSUME NEW a, NEW b, NEW S, NEW es \in Seq(S), Linked(a, es, b)
    PROVE  a \in ViewType /\ b \in ViewType
  BY DEF Linked

\* A delivery: the rest leads on from the view after the first event.
LEMMA LinkHead ==
    ASSUME NEW a, NEW b, NEW S, NEW es \in Seq(S), es # << >>, Linked(a, es, b)
    PROVE  /\ After(a, Head(es)) \in ViewType
           /\ Linked(After(a, Head(es)), Tail(es), b)
<1>1. PICK h \in [1 .. Len(es) + 1 -> ViewType] :
        /\ h[1] = a /\ h[Len(es) + 1] = b
        /\ \A i \in 1 .. Len(es) : h[i + 1] = After(h[i], es[i])
  BY DEF Linked
<1> DEFINE n == Len(es) - 1
           k == [i \in 1 .. n + 1 |-> h[i + 1]]
<1>2. n \in Nat /\ Len(Tail(es)) = n /\ Len(es) = n + 1
  OBVIOUS
<1>3. k[1] = After(a, Head(es)) /\ k[1] \in ViewType
  BY <1>1, <1>2
<1>4. k \in [1 .. n + 1 -> ViewType] /\ k[n + 1] = b
  BY <1>1, <1>2
<1>5. ASSUME NEW i \in 1 .. n PROVE k[i + 1] = After(k[i], Tail(es)[i])
  <2>1. /\ i + 1 \in 1 .. Len(es)
        /\ Tail(es)[i] = es[i + 1]
        /\ i \in 1 .. n + 1
        /\ i + 1 \in 1 .. n + 1
    BY <1>2
  <2>2. h[(i + 1) + 1] = After(h[i + 1], es[i + 1])
    BY <1>1, <2>1
  <2> QED BY <2>1, <2>2
<1> HIDE DEF k, n
<1> QED BY <1>2, <1>3, <1>4, <1>5 DEF Linked

\* A publication: the chain leads one view further.
LEMMA LinkAppend ==
    ASSUME NEW a, NEW b, NEW S, NEW es \in Seq(S), NEW e \in S, Linked(a, es, b),
           After(b, e) \in ViewType
    PROVE  Linked(a, Append(es, e), After(b, e))
<1>1. PICK h \in [1 .. Len(es) + 1 -> ViewType] :
        /\ h[1] = a /\ h[Len(es) + 1] = b
        /\ \A i \in 1 .. Len(es) : h[i + 1] = After(h[i], es[i])
  BY DEF Linked
<1> DEFINE n == Len(es)
           c == After(b, e)
           k == [i \in 1 .. n + 2 |-> IF i = n + 2 THEN c ELSE h[i]]
           fs == Append(es, e)
<1>2. n \in Nat /\ Len(fs) = n + 1 /\ fs[n + 1] = e /\ \A i \in 1 .. n : fs[i] = es[i]
  OBVIOUS
<1> HIDE DEF n, fs, c
<1>3. k \in [1 .. (n + 1) + 1 -> ViewType] /\ k[1] = a /\ k[(n + 1) + 1] = c
  BY <1>1, <1>2 DEF n, c
<1>4. ASSUME NEW i \in 1 .. n + 1 PROVE k[i + 1] = After(k[i], fs[i])
  <2>1. CASE i = n + 1
    <3>1. k[i + 1] = c /\ k[i] = b
      BY <1>1, <1>2, <2>1 DEF n
    <3> QED BY <1>2, <2>1, <3>1 DEF c
  <2>2. CASE i # n + 1
    <3>1. i \in 1 .. n /\ k[i + 1] = h[i + 1] /\ k[i] = h[i]
      BY <1>2, <2>2
    <3>2. h[i + 1] = After(h[i], es[i])
      BY <1>1, <3>1 DEF n
    <3> QED BY <1>2, <3>1, <3>2
  <2> QED BY <2>1, <2>2
<1> HIDE DEF k
<1> QED BY <1>2, <1>3, <1>4 DEF Linked, n, fs, c

\* An event that is published brings what the window will show one step further.
LEMMA PublishOne ==
    ASSUME NEW a, NEW b, NEW es \in Seq(EventType), NEW e \in EventType, Linked(a, es, b),
           After(b, e) \in ViewType
    PROVE  /\ Linked(a, es \o <<e>>, After(b, e))
           /\ es \o <<e>> \in Seq(EventType)
<1>1. es \o <<e>> = Append(es, e) /\ Append(es, e) \in Seq(EventType)
  OBVIOUS
<1>2. Linked(a, Append(es, e), After(b, e))
  BY LinkAppend
<1> QED BY <1>1, <1>2, Zenon

\* The same for two events.
LEMMA PublishTwo ==
    ASSUME NEW a, NEW b, NEW es \in Seq(EventType), NEW e \in EventType, NEW f \in EventType,
           Linked(a, es, b), After(b, e) \in ViewType, After(After(b, e), f) \in ViewType
    PROVE  /\ Linked(a, es \o <<e, f>>, After(After(b, e), f))
           /\ es \o <<e, f>> \in Seq(EventType)
<1>1. es \o <<e, f>> = Append(Append(es, e), f) /\ Append(es, e) \in Seq(EventType)
  OBVIOUS
<1>2. Linked(a, Append(es, e), After(b, e))
  BY LinkAppend
<1>3. Linked(a, Append(Append(es, e), f), After(After(b, e), f))
  BY <1>1, <1>2, LinkAppend
<1>4. Append(Append(es, e), f) \in Seq(EventType)
  BY <1>1
<1> QED BY <1>1, <1>3, <1>4, Zenon

\* What a task has, by kind.
LEMMA TaskFields ==
    ASSUME NEW t \in TaskType
    PROVE  /\ t.kind \in {"add", "update", "toggle", "capture", "move", "reorder", "remove"}
           /\ t.kind \in {"update", "toggle", "capture", "move", "remove"} => t.id \in Ids
           /\ t.kind = "move" => t.cell \in Nat
           /\ t.kind = "reorder" => t.order \in Seq(Ids)
  BY DEF TaskType

\* What an event has, by kind.
LEMMA EventFields ==
    ASSUME NEW e \in EventType
    PROVE  /\ e.kind \in {"list", "snapshot", "recording"}
           /\ e.kind = "list" => e = ListEvent(e.channels) /\ e.channels \in Lists
           /\ e.kind = "snapshot" => /\ e = SnapshotEvent(e.id, e.state)
                                     /\ e.id \in Ids /\ e.state \in ConnStates
           /\ e.kind = "recording" => /\ e = RecordingEvent(e.id, e.state)
                                      /\ e.id \in Ids /\ e.state \in RecState
  BY DEF EventType, ListEvent, SnapshotEvent, RecordingEvent

\* What the control thread publishes is an event.
LEMMA EventsTyped ==
    /\ \A es \in Lists : ListEvent(es) \in EventType
    /\ \A id \in Ids, s \in ConnStates : SnapshotEvent(id, s) \in EventType
    /\ \A id \in Ids, s \in RecState : RecordingEvent(id, s) \in EventType
  BY DEF EventType, ListEvent, SnapshotEvent, RecordingEvent

\* What a view has ...
LEMMA ViewFields ==
    ASSUME NEW x \in ViewType
    PROVE  /\ x = [channels |-> x.channels, streaming |-> x.streaming, recs |-> x.recs]
           /\ x.channels \in Lists /\ DOMAIN x.channels \subseteq Ids
           /\ x.streaming \in [DOMAIN x.channels -> BOOLEAN]
           /\ x.recs \in [Ids -> RecState]
           /\ \A id \in Ids \ DOMAIN x.channels : x.recs[id] = "Idle"
<1>1. x.channels \in Lists /\ x.recs \in [Ids -> RecState]
  BY DEF ViewType
<1>2. x.streaming \in [DOMAIN x.channels -> BOOLEAN]
  BY DEF ViewType
<1>3. x = [channels |-> x.channels, streaming |-> x.streaming, recs |-> x.recs]
  BY DEF ViewType
<1>4. \A id \in Ids \ DOMAIN x.channels : x.recs[id] = "Idle"
  BY DEF ViewType
<1> QED BY <1>1, <1>2, <1>3, <1>4, ListsAreFunctions

\* ... and what is one.
LEMMA ViewBuilt ==
    ASSUME NEW es \in Lists, NEW up \in [DOMAIN es -> BOOLEAN], NEW rs \in [Ids -> RecState],
           \A id \in Ids \ DOMAIN es : rs[id] = "Idle"
    PROVE  [channels |-> es, streaming |-> up, recs |-> rs] \in ViewType
<1> DEFINE x == [channels |-> es, streaming |-> up, recs |-> rs]
<1>1. DOMAIN es \in SUBSET Ids
  BY ListsAreFunctions
<1>2. up \in UNION {[D -> BOOLEAN] : D \in SUBSET Ids}
  BY <1>1
<1>3. x \in [channels : Lists, streaming : UNION {[D -> BOOLEAN] : D \in SUBSET Ids},
             recs : [Ids -> RecState]]
  BY <1>2
<1>4. DOMAIN x.streaming = DOMAIN x.channels
  OBVIOUS
<1>5. \A id \in Ids \ DOMAIN x.channels : x.recs[id] = "Idle"
  OBVIOUS
<1> HIDE DEF x
<1> QED BY <1>3, <1>4, <1>5 DEF ViewType, x

\* What updateChannels keeps of the streams of x.
Kept(x, es) == [id \in DOMAIN es |-> IF id \in DOMAIN x.streaming THEN x.streaming[id] ELSE FALSE]

\* What a list does to a view: a view, if every channel it forgets is Idle.
LEMMA AfterList ==
    ASSUME NEW x \in ViewType, NEW es \in Lists
    PROVE  /\ After(x, ListEvent(es)) =
                 [channels |-> es, streaming |-> Kept(x, es), recs |-> x.recs]
           /\ (\A id \in Ids \ DOMAIN es : x.recs[id] = "Idle")
                 => After(x, ListEvent(es)) \in ViewType
<1>1. After(x, ListEvent(es)) =
          [x EXCEPT !.channels = es,
              !.streaming = [id \in DOMAIN es |-> IF id \in DOMAIN @ THEN @[id] ELSE FALSE]]
  BY DEF After, ListEvent, Listed
<1>2. After(x, ListEvent(es)) =
          [channels |-> es, streaming |-> Kept(x, es), recs |-> x.recs]
  BY <1>1, ViewFields DEF Kept
<1>3. Kept(x, es) \in [DOMAIN es -> BOOLEAN]
  BY ViewFields DEF Kept
<1> QED BY <1>2, <1>3, ViewFields, ViewBuilt

\* One value of a function replaced.
Set(f, k, v) == [f EXCEPT ![k] = v]

\* What a snapshot of a listed channel does to a view.
LEMMA AfterSnapshot ==
    ASSUME NEW x \in ViewType, NEW id \in DOMAIN x.channels, NEW s
    PROVE  /\ After(x, SnapshotEvent(id, s)) =
                 [channels |-> x.channels, streaming |-> Set(x.streaming, id, s = "Streaming"),
                  recs |-> x.recs]
           /\ After(x, SnapshotEvent(id, s)) \in ViewType
<1>1. After(x, SnapshotEvent(id, s)) =
          [x EXCEPT !.streaming = With(@, id, s = "Streaming")]
  BY DEF After, SnapshotEvent, Streams
<1>2. With(x.streaming, id, s = "Streaming") = Set(x.streaming, id, s = "Streaming")
  <2>1. x.streaming \in [DOMAIN x.channels -> BOOLEAN]
    BY ViewFields
  <2>2. DOMAIN x.streaming \cup {id} = DOMAIN x.streaming
    BY <2>1
  <2> QED BY <2>1, <2>2 DEF With, Set
<1>3. After(x, SnapshotEvent(id, s)) =
          [channels |-> x.channels, streaming |-> Set(x.streaming, id, s = "Streaming"),
           recs |-> x.recs]
  BY <1>1, <1>2, ViewFields
<1>4. Set(x.streaming, id, s = "Streaming") \in [DOMAIN x.channels -> BOOLEAN]
  BY ViewFields DEF Set
<1> QED BY <1>3, <1>4, ViewFields, ViewBuilt

\* What the state of a recording does to a view.
LEMMA AfterRecording ==
    ASSUME NEW x \in ViewType, NEW id \in Ids, NEW s \in RecState
    PROVE  /\ After(x, RecordingEvent(id, s)) =
                 [channels |-> x.channels, streaming |-> x.streaming, recs |-> Set(x.recs, id, s)]
           /\ id \in DOMAIN x.channels \/ s = "Idle" => After(x, RecordingEvent(id, s)) \in ViewType
<1>1. After(x, RecordingEvent(id, s)) = [x EXCEPT !.recs[id] = s]
  BY DEF After, RecordingEvent, Records
<1>2. After(x, RecordingEvent(id, s)) =
          [channels |-> x.channels, streaming |-> x.streaming, recs |-> Set(x.recs, id, s)]
  BY <1>1, ViewFields DEF Set
<1>3. Set(x.recs, id, s) \in [Ids -> RecState]
  BY ViewFields DEF Set
<1>4. ASSUME id \in DOMAIN x.channels \/ s = "Idle"
      PROVE  \A i \in Ids \ DOMAIN x.channels : Set(x.recs, id, s)[i] = "Idle"
  BY <1>4, ViewFields DEF Set
<1> QED BY <1>2, <1>3, <1>4, ViewFields, ViewBuilt

-----------------------------------------------------------------------------
(* The control thread. *)

\* The last view is what there is.
LEMMA TruthIsView ==
    ASSUME IInv
    PROVE  /\ Truth \in ViewType /\ Shown \in ViewType
           /\ \A id \in Ids \ DOMAIN entries : rec[id] = "Idle"
<1>1. Truth \in ViewType /\ Shown \in ViewType
  BY LinkEnds DEF IInv, QueuesTyped, EventsLead
<1>2. \A id \in Ids \ DOMAIN Truth.channels : Truth.recs[id] = "Idle"
  BY <1>1, ViewFields
<1> QED BY <1>1, <1>2 DEF Truth

\* A step of the control thread that publishes what it does.
LEMMA ControlStep ==
    ASSUME IInv, UNCHANGED ui, ControlTyped',
           tasks' = tasks \/ (tasks # << >> /\ tasks' = Tail(tasks)),
           events' \in Seq(EventType), Linked(Shown, events', Truth'),
           OrderComing => OrderComing'
    PROVE  IInv'
<1>1. UNCHANGED <<window, panel, grid, view, dialog>>
  BY DEF ui
<1>2. QueuesTyped'
  BY DEF IInv, QueuesTyped
<1>3. WindowTyped' /\ TilesAgree' /\ TilesPlaced' /\ DialogTyped'
  BY <1>1 DEF IInv, WindowTyped, TilesAgree, TilesPlaced, DialogTyped
<1>4. PanelAgrees'
  BY <1>1 DEF IInv, PanelAgrees, RowsFit
<1>5. EventsLead'
  BY <1>1 DEF EventsLead, Shown
<1> QED BY <1>2, <1>3, <1>4, <1>5 DEF IInv

\* The order that is coming still is.
LEMMA OrderStillComes ==
    ASSUME QueuesTyped, NEW es \in Seq(EventType), events' = events \o es,
           tasks' = tasks \/ (tasks # << >> /\ tasks' = Tail(tasks) /\ Head(tasks).kind # "reorder"),
           OrderComing
    PROVE  OrderComing'
<1>1. \A i \in DOMAIN events : i \in DOMAIN events' /\ events'[i] = events[i]
  BY DEF QueuesTyped
<1>2. ASSUME NEW i \in DOMAIN tasks, tasks[i].kind = "reorder"
      PROVE  \E j \in DOMAIN tasks' : tasks'[j].kind = "reorder"
  <2>1. CASE tasks' = tasks
    BY <1>2, <2>1
  <2>2. CASE tasks # << >> /\ tasks' = Tail(tasks) /\ Head(tasks).kind # "reorder"
    <3>1. i # 1
      BY <1>2, <2>2
    <3>2. i - 1 \in DOMAIN tasks' /\ tasks'[i - 1] = tasks[i]
      BY <2>2, <3>1 DEF QueuesTyped
    <3> QED BY <1>2, <3>2
  <2> QED BY <2>1, <2>2
<1> QED BY <1>1, <1>2 DEF OrderComing

\* A task is taken from the queue.
LEMMA TaskTaken ==
    ASSUME IInv, NEW kind, Begin(kind)
    PROVE  /\ tasks # << >> /\ tasks' = Tail(tasks) /\ Task \in TaskType /\ Task.kind = kind
           /\ Head(tasks).kind = kind
  BY DEF IInv, QueuesTyped, Begin, Task

\* The parts a step of the control thread starts from.
LEMMA Typed == ASSUME IInv PROVE ControlTyped /\ QueuesTyped /\ EventsLead
  BY DEF IInv

\* A task that does nothing.
LEMMA IgnoredStep ==
    ASSUME IInv, UNCHANGED ui, NEW kind, Begin(kind), kind # "reorder", Ignored
    PROVE  IInv'
<1>1. UNCHANGED <<entries, conn, rec, events>>
  BY DEF Ignored, control
<1>2. events' = events \o << >> /\ << >> \in Seq(EventType) /\ events \in Seq(EventType)
  BY <1>1, Typed DEF QueuesTyped
<1>3. ControlTyped'
  BY <1>1, Typed DEF ControlTyped
<1>4. Shown' = Shown /\ Truth' = Truth
  BY <1>1 DEF Shown, Truth, ui
<1>5. Linked(Shown, events', Truth')
  BY <1>1, <1>4, Typed DEF EventsLead
<1>6. OrderComing => OrderComing'
  BY <1>2, Typed, TaskTaken, OrderStillComes
<1> QED BY <1>1, <1>2, <1>3, <1>5, <1>6, TaskTaken, ControlStep

\* A step that publishes one event.
LEMMA OneEvent ==
    ASSUME IInv, UNCHANGED ui, ControlTyped', NEW e \in EventType, Publish(<<e>>),
           Truth' = After(Truth, e), After(Truth, e) \in ViewType,
           \/ tasks' = tasks
           \/ tasks # << >> /\ tasks' = Tail(tasks) /\ (Head(tasks).kind # "reorder" \/ e.kind = "list")
    PROVE  IInv'
<1>1. events' = events \o <<e>> /\ events \in Seq(EventType) /\ <<e>> \in Seq(EventType)
  BY Typed DEF QueuesTyped, Publish
<1>2. Linked(Shown, events', Truth') /\ events' \in Seq(EventType)
  BY <1>1, Typed, PublishOne DEF EventsLead
<1>3. OrderComing => OrderComing'
  <2>1. CASE e.kind = "list"
    <3>1. Len(events) + 1 \in DOMAIN events' /\ events'[Len(events) + 1] = e
      BY <1>1
    <3> QED BY <2>1, <3>1 DEF OrderComing
  <2>2. CASE e.kind # "list"
    BY <1>1, <2>2, Typed, OrderStillComes
  <2> QED BY <2>1, <2>2
<1> QED BY <1>2, <1>3, ControlStep

\* A task that publishes two events.
LEMMA TwoEvents ==
    ASSUME IInv, UNCHANGED ui, ControlTyped', NEW e \in EventType, NEW f \in EventType,
           Publish(<<e, f>>),
           After(Truth, e) \in ViewType,
           Truth' = After(After(Truth, e), f), After(After(Truth, e), f) \in ViewType,
           tasks # << >> /\ tasks' = Tail(tasks) /\ Head(tasks).kind # "reorder"
    PROVE  IInv'
<1>1. /\ events' = events \o <<e, f>>
      /\ events \in Seq(EventType)
      /\ <<e, f>> \in Seq(EventType)
  BY Typed DEF QueuesTyped, Publish
<1>2. Linked(Shown, events', Truth') /\ events' \in Seq(EventType)
  BY <1>1, Typed, PublishTwo DEF EventsLead
<1>3. OrderComing => OrderComing'
  BY <1>1, Typed, OrderStillComes
<1> QED BY <1>2, <1>3, ControlStep

\* What there is, when the entries and the rest are given.
LEMMA ListPublished ==
    ASSUME IInv, UNCHANGED ui, NEW es \in Lists, DOMAIN es = DOMAIN entries,
           entries' = es, UNCHANGED <<conn, rec>>, Publish(<<ListEvent(es)>>),
           tasks # << >> /\ tasks' = Tail(tasks)
    PROVE  IInv'
<1>1. ControlTyped'
  BY Typed DEF ControlTyped
<1>2. /\ After(Truth, ListEvent(es)) = [channels |-> es, streaming |-> Kept(Truth, es), recs |-> rec]
      /\ After(Truth, ListEvent(es)) \in ViewType
  <2>1. Truth.recs = rec
    BY DEF Truth
  <2> QED BY <2>1, TruthIsView, AfterList
<1>3. Kept(Truth, es) = [id \in DOMAIN es |-> conn[id] = "Streaming"]
  BY DEF Kept, Truth
<1>4. Truth' = After(Truth, ListEvent(es))
  BY <1>2, <1>3 DEF Truth
<1>5. ListEvent(es) \in EventType /\ ListEvent(es).kind = "list"
  BY EventsTyped DEF ListEvent
<1> QED BY <1>1, <1>2, <1>4, <1>5, OneEvent

\* moveGrid.
LEMMA DoMoveStep == IInv /\ UNCHANGED ui /\ DoMove => IInv'
<1> SUFFICES ASSUME IInv, UNCHANGED ui, DoMove PROVE IInv'
  OBVIOUS
<1>0. Begin("move")
  BY DEF DoMove
<1>1. CASE Ignored
  BY <1>0, <1>1, IgnoredStep
<1>2. CASE Task.id \in DOMAIN entries /\ entries[Task.id].grid # Task.cell
  <2>1. Task.cell \in Nat
    BY <1>0, TaskTaken, TaskFields
  <2>2. /\ entries \in Lists
        /\ DOMAIN entries \subseteq Ids
        /\ entries \in [DOMAIN entries -> Place]
    BY Typed, ListsAreFunctions DEF ControlTyped
  <2>3. Moved(Task.id, Task.cell) \in [DOMAIN entries -> Place]
    <3>1. ASSUME NEW i \in DOMAIN entries PROVE Moved(Task.id, Task.cell)[i] \in Place
      BY <1>2, <2>1, <2>2 DEF Moved, Place
    <3>2. Moved(Task.id, Task.cell) = [i \in DOMAIN entries |-> Moved(Task.id, Task.cell)[i]]
      BY DEF Moved
    <3> QED BY <3>1, <3>2
  <2>4. /\ Moved(Task.id, Task.cell) \in Lists
        /\ DOMAIN Moved(Task.id, Task.cell) = DOMAIN entries
    BY <2>2, <2>3, FunctionsAreLists
  <2>5. /\ entries' = Moved(Task.id, Task.cell) /\ UNCHANGED <<conn, rec>>
        /\ Publish(<<ListEvent(Moved(Task.id, Task.cell))>>)
    BY <1>2 DEF DoMove
  <2> QED BY <1>0, <2>4, <2>5, TaskTaken, ListPublished
<1> QED BY <1>1, <1>2 DEF DoMove

\* reorderList: the echo is the list that holds.
LEMMA DoReorderStep == IInv /\ UNCHANGED ui /\ DoReorder => IInv'
<1> SUFFICES ASSUME IInv, UNCHANGED ui, DoReorder PROVE IInv'
  OBVIOUS
<1>0. Begin("reorder")
  BY DEF DoReorder
<1> DEFINE order == Task.order
           Position(id) == IF id \in ToSet(order) THEN CHOOSE i \in DOMAIN order : order[i] = id
                                              ELSE Len(order) + 1 + entries[id].list
           Rank(id) == Cardinality({e \in DOMAIN entries : Position(e) < Position(id)})
<1>2. /\ entries \in Lists
      /\ DOMAIN entries \subseteq Ids
      /\ entries \in [DOMAIN entries -> Place]
      /\ IsFiniteSet(DOMAIN entries)
  BY Typed, ListsAreFunctions DEF ControlTyped
<1>3. ASSUME NEW id \in DOMAIN entries PROVE Rank(id) \in Nat
  BY <1>2, FS_Subset, FS_CardinalityType
<1>4. Reordered(order) = [id \in DOMAIN entries |-> [entries[id] EXCEPT !.list = Rank(id)]]
  BY DEF Reordered
<1> HIDE DEF Rank
<1>5. Reordered(order) \in [DOMAIN entries -> Place]
  <2>1. ASSUME NEW id \in DOMAIN entries PROVE [entries[id] EXCEPT !.list = Rank(id)] \in Place
    BY <1>2, <1>3 DEF Place
  <2> QED BY <1>4, <2>1
<1>6. Reordered(order) \in Lists /\ DOMAIN Reordered(order) = DOMAIN entries
  BY <1>2, <1>5, FunctionsAreLists
<1>7. /\ entries' = Reordered(order)
      /\ Publish(<<ListEvent(Reordered(order))>>)
      /\ UNCHANGED <<conn, rec>>
  BY DEF DoReorder, Echo
<1> QED BY <1>0, <1>6, <1>7, TaskTaken, ListPublished

\* A recording of a listed channel changes, and is published.
LEMMA RecordingPublished ==
    ASSUME IInv, UNCHANGED ui, UNCHANGED <<entries, conn>>, NEW id \in Ids, NEW s \in RecState,
           rec' = [rec EXCEPT ![id] = s], id \in DOMAIN entries \/ s = "Idle",
           Publish(<<RecordingEvent(id, s)>>),
           \/ tasks' = tasks
           \/ tasks # << >> /\ tasks' = Tail(tasks) /\ Head(tasks).kind # "reorder"
    PROVE  IInv'
<1>1. ControlTyped'
  BY Typed DEF ControlTyped
<1>2. Truth.channels = entries /\ Truth.recs = rec
  BY DEF Truth
<1>3. /\ After(Truth, RecordingEvent(id, s)) =
            [channels |-> entries, streaming |-> Truth.streaming, recs |-> Set(rec, id, s)]
      /\ After(Truth, RecordingEvent(id, s)) \in ViewType
  BY <1>2, TruthIsView, AfterRecording
<1>4. Truth' = After(Truth, RecordingEvent(id, s))
  BY <1>3 DEF Truth, Set
<1>5. RecordingEvent(id, s) \in EventType
  BY EventsTyped
<1> QED BY <1>1, <1>3, <1>4, <1>5, OneEvent

\* toggle: a channel that is gone stays Idle.
LEMMA DoToggleStep == IInv /\ UNCHANGED ui /\ DoToggle => IInv'
<1> SUFFICES ASSUME IInv, UNCHANGED ui, DoToggle PROVE IInv'
  OBVIOUS
<1>1. Begin("toggle")
  BY DEF DoToggle
<1>2. Task.id \in Ids
  BY <1>1, TaskTaken, TaskFields
<1>3. PICK s \in IF rec[Task.id] = "Idle" /\ Task.id \in DOMAIN entries THEN RecState ELSE {"Idle"} :
         /\ rec' = [rec EXCEPT ![Task.id] = s]
         /\ Publish(<<RecordingEvent(Task.id, s)>>)
  BY DEF DoToggle
<1>4. s \in RecState /\ (Task.id \in DOMAIN entries \/ s = "Idle")
  BY <1>3 DEF RecState
<1>5. UNCHANGED <<entries, conn>>
  BY DEF DoToggle
<1>6. tasks # << >> /\ tasks' = Tail(tasks) /\ Head(tasks).kind # "reorder"
  BY <1>1, TaskTaken
<1> QED BY <1>2, <1>3, <1>4, <1>5, <1>6, RecordingPublished

\* snapshotRequested: the state that holds is sent once more.
LEMMA DoCaptureStep == IInv /\ UNCHANGED ui /\ DoCapture => IInv'
<1> SUFFICES ASSUME IInv, UNCHANGED ui, DoCapture PROVE IInv'
  OBVIOUS
<1>1. /\ Begin("capture")
      /\ UNCHANGED <<entries, conn, rec>>
      /\ Publish(<<RecordingEvent(Task.id, rec[Task.id])>>)
  BY DEF DoCapture, control
<1>2. Task.id \in Ids
  BY <1>1, TaskTaken, TaskFields
<1>3. rec \in [Ids -> RecState]
  BY Typed DEF ControlTyped
<1>4. rec' = [rec EXCEPT ![Task.id] = rec[Task.id]] /\ rec[Task.id] \in RecState
  BY <1>1, <1>2, <1>3
<1>5. Task.id \in DOMAIN entries \/ rec[Task.id] = "Idle"
  BY <1>2, TruthIsView
<1>6. tasks # << >> /\ tasks' = Tail(tasks) /\ Head(tasks).kind # "reorder"
  BY <1>1, TaskTaken
<1> QED BY <1>1, <1>2, <1>4, <1>5, <1>6, RecordingPublished

\* The tick of the recordings.
LEMMA RecordingChangesStep == IInv /\ RecordingChanges => IInv'
<1> SUFFICES ASSUME IInv, RecordingChanges PROVE IInv'
  OBVIOUS
<1>1. PICK id \in DOMAIN entries, s \in RecState :
         rec' = [rec EXCEPT ![id] = s] /\ Publish(<<RecordingEvent(id, s)>>)
  BY DEF RecordingChanges
<1>2. UNCHANGED <<entries, conn>> /\ UNCHANGED ui /\ tasks' = tasks
  BY DEF RecordingChanges
<1>3. id \in Ids
  BY Typed, ListsAreFunctions DEF ControlTyped
<1> QED BY <1>1, <1>2, <1>3, RecordingPublished

\* A connection changes, and is published.
LEMMA SnapshotPublished ==
    ASSUME IInv, UNCHANGED ui, UNCHANGED <<entries, rec>>, NEW id \in DOMAIN entries,
           NEW s \in ConnStates, conn' = [conn EXCEPT ![id] = s],
           Publish(<<SnapshotEvent(id, s)>>), tasks' = tasks
    PROVE  IInv'
<1>1. ControlTyped' /\ id \in Ids
  BY Typed, ListsAreFunctions DEF ControlTyped
<1>2. SnapshotEvent(id, s) \in EventType
  BY <1>1, EventsTyped
<1>3. /\ After(Truth, SnapshotEvent(id, s)) =
            [channels |-> entries, streaming |-> Set(Truth.streaming, id, s = "Streaming"),
             recs |-> rec]
      /\ After(Truth, SnapshotEvent(id, s)) \in ViewType
  <2>1. Truth.channels = entries /\ Truth.recs = rec
    BY DEF Truth
  <2> QED BY <2>1, TruthIsView, AfterSnapshot
<1>4. Set(Truth.streaming, id, s = "Streaming") = [i \in DOMAIN entries |-> conn'[i] = "Streaming"]
  <2>1. Truth.streaming = [i \in DOMAIN entries |-> conn[i] = "Streaming"]
    BY DEF Truth
  <2>2. conn \in [DOMAIN entries -> ConnStates]
    BY Typed DEF ControlTyped
  <2>3. \A i \in DOMAIN entries : conn'[i] = IF i = id THEN s ELSE conn[i]
    BY <2>2
  <2>4. Set(Truth.streaming, id, s = "Streaming") =
           [i \in DOMAIN entries |-> IF i = id THEN s = "Streaming" ELSE Truth.streaming[i]]
    BY <2>1, Zenon DEF Set
  <2> QED BY <2>1, <2>3, <2>4
<1>5. Truth' = After(Truth, SnapshotEvent(id, s))
  BY <1>3, <1>4 DEF Truth
<1> QED BY <1>1, <1>2, <1>3, <1>5, OneEvent

\* A snapshot of a controller.
LEMMA ConnectionChangesStep == IInv /\ ConnectionChanges => IInv'
<1> SUFFICES ASSUME IInv, ConnectionChanges PROVE IInv'
  OBVIOUS
<1>1. PICK id \in DOMAIN entries, s \in ConnStates :
         conn' = [conn EXCEPT ![id] = s] /\ Publish(<<SnapshotEvent(id, s)>>)
  BY DEF ConnectionChanges
<1>2. UNCHANGED <<entries, rec>> /\ UNCHANGED ui /\ tasks' = tasks
  BY DEF ConnectionChanges
<1> QED BY <1>1, <1>2, SnapshotPublished

\* disconnect: a change that is published leads to a view in which the channel
\* does not stream, and so does none when it is Idle.
LEMMA DisconnectedLeads ==
    ASSUME IInv, NEW id \in DOMAIN entries, NEW q \in Seq(EventType), NEW x \in ViewType,
           x.channels = entries, x.streaming = Truth.streaming, Linked(Shown, q, x)
    PROVE  LET y == [channels |-> entries, streaming |-> Set(Truth.streaming, id, FALSE),
                     recs |-> x.recs]
           IN /\ y \in ViewType
              /\ Linked(Shown, q \o Disconnected(id), y)
              /\ Disconnected(id) \in Seq(EventType) /\ q \o Disconnected(id) \in Seq(EventType)
<1> DEFINE off == Set(Truth.streaming, id, FALSE)
           y == [channels |-> entries, streaming |-> off, recs |-> x.recs]
           e == SnapshotEvent(id, "Idle")
<1>1. /\ x = [channels |-> entries, streaming |-> Truth.streaming, recs |-> x.recs]
      /\ Truth.streaming = [i \in DOMAIN entries |-> conn[i] = "Streaming"]
  BY ViewFields DEF Truth
<1>2. CASE conn[id] = "Idle"
  <2>1. Disconnected(id) = << >> /\ q \o << >> = q
    BY <1>2 DEF Disconnected
  <2>2. Truth.streaming[id] = FALSE
    <3>1. Truth.streaming[id] = (conn[id] = "Streaming")
      BY <1>1
    <3>2. ("Idle" = "Streaming") = FALSE
      OBVIOUS
    <3> QED BY <1>2, <3>1, <3>2
  <2>3. off = Truth.streaming
    <3>1. off = [i \in DOMAIN entries |-> IF i = id THEN FALSE ELSE Truth.streaming[i]]
      BY <1>1, Zenon DEF Set
    <3>2. \A i \in DOMAIN entries : (IF i = id THEN FALSE ELSE Truth.streaming[i]) = Truth.streaming[i]
      BY <2>2
    <3>3. off = [i \in DOMAIN entries |-> Truth.streaming[i]]
      BY <3>1, <3>2, Zenon
    <3> QED BY <1>1, <3>3
  <2>4. y = x
    BY <1>1, <2>3
  <2> HIDE DEF y, off
  <2>5. << >> \in Seq(EventType)
    OBVIOUS
  <2> QED BY <2>1, <2>4, <2>5 DEF y, off
<1>3. CASE conn[id] # "Idle"
  <2>1. id \in Ids
    BY Typed, ListsAreFunctions DEF ControlTyped
  <2>2. e \in EventType
    BY <2>1, EventsTyped DEF ConnStates
  <2>3. After(x, e) = y /\ After(x, e) \in ViewType
    <3>1. /\ After(x, e) = [channels |-> x.channels,
                            streaming |-> Set(x.streaming, id, "Idle" = "Streaming"), recs |-> x.recs]
          /\ After(x, e) \in ViewType
      BY AfterSnapshot
    <3>2. ("Idle" = "Streaming") = FALSE
      OBVIOUS
    <3> QED BY <3>1, <3>2
  <2>4. Disconnected(id) = <<e>> /\ <<e>> \in Seq(EventType)
    BY <1>3, <2>2 DEF Disconnected
  <2> HIDE DEF y, e, off
  <2>5. Linked(Shown, q \o <<e>>, After(x, e)) /\ q \o <<e>> \in Seq(EventType)
    BY <2>2, <2>3, PublishOne
  <2> QED BY <2>3, <2>4, <2>5 DEF y, off
<1> QED BY <1>2, <1>3

\* updateChannel: the session is replaced, or only the list is told.
LEMMA DoUpdateStep == IInv /\ UNCHANGED ui /\ DoUpdate => IInv'
<1> SUFFICES ASSUME IInv, UNCHANGED ui, DoUpdate PROVE IInv'
  OBVIOUS
<1>0. Begin("update")
  BY DEF DoUpdate
<1>1. CASE Ignored
  BY <1>0, <1>1, IgnoredStep
<1> DEFINE id == Task.id
           e == SnapshotEvent(id, "Down")
           f == ListEvent(entries)
<1>2. CASE id \in DOMAIN entries /\ UNCHANGED <<entries, rec>> /\ UNCHANGED conn /\ Publish(<<f>>)
  <2>1. entries \in Lists
    BY Typed DEF ControlTyped
  <2> QED BY <1>0, <1>2, <2>1, TaskTaken, ListPublished
<1>3. CASE /\ id \in DOMAIN entries /\ UNCHANGED <<entries, rec>>
           /\ conn' = [conn EXCEPT ![id] = "Down"]
           /\ Publish(Disconnected(id) \o <<e, f>>)
  <2>1. /\ entries \in Lists
        /\ DOMAIN entries \subseteq Ids
        /\ conn \in [DOMAIN entries -> ConnStates]
        /\ rec \in [Ids -> RecState] /\ id \in Ids
        /\ events \in Seq(EventType)
    BY <1>3, Typed, ListsAreFunctions DEF ControlTyped, QueuesTyped
  <2>2. ControlTyped'
    BY <1>3, <2>1 DEF ControlTyped, ConnStates
  <2>3. e \in EventType /\ f \in EventType
    BY <2>1, EventsTyped DEF ConnStates
  <2> DEFINE off == Set(Truth.streaming, id, FALSE)
             v == [channels |-> entries, streaming |-> off, recs |-> rec]
             q == events \o Disconnected(id)
  <2>4. Truth.channels = entries /\ Truth.recs = rec
        /\ Truth.streaming = [i \in DOMAIN entries |-> conn[i] = "Streaming"]
    BY DEF Truth
  <2>5. /\ v \in ViewType /\ Linked(Shown, q, v)
        /\ Disconnected(id) \in Seq(EventType) /\ q \in Seq(EventType)
    BY <1>3, <2>1, <2>4, TruthIsView, Typed, DisconnectedLeads DEF EventsLead
  <2>6. off = [i \in DOMAIN entries |-> conn'[i] = "Streaming"] /\ off = Set(off, id, "Down" = "Streaming")
    <3>1. \A i \in DOMAIN entries : conn'[i] = IF i = id THEN "Down" ELSE conn[i]
      BY <1>3, <2>1
    <3>2. off = [i \in DOMAIN entries |-> IF i = id THEN FALSE ELSE Truth.streaming[i]]
      BY <2>4, Zenon DEF Set
    <3>3. ("Down" = "Streaming") = FALSE
      OBVIOUS
    <3>4. ASSUME NEW i \in DOMAIN entries
          PROVE  (IF i = id THEN FALSE ELSE Truth.streaming[i]) = (conn'[i] = "Streaming")
      <4>1. CASE i = id
        BY <3>1, <3>3, <4>1
      <4>2. CASE i # id
        <5>1. conn'[i] = conn[i]
          BY <3>1, <4>2
        <5>2. Truth.streaming[i] = (conn[i] = "Streaming")
          BY <2>4
        <5> HIDE DEF id
        <5> QED BY <4>2, <5>1, <5>2
      <4> QED BY <4>1, <4>2
    <3>5. off = [i \in DOMAIN entries |-> conn'[i] = "Streaming"]
      BY <3>2, <3>4, Zenon
    <3>6. off[id] = FALSE
      BY <1>3, <3>2
    <3> HIDE DEF off
    <3> QED BY <3>3, <3>5, <3>6 DEF Set
  <2> HIDE DEF off, q, e, f
  <2>7. v.channels = entries /\ v.streaming = off /\ v.recs = rec
    OBVIOUS
  <2>8. \A i \in Ids \ DOMAIN entries : rec[i] = "Idle"
    BY TruthIsView
  <2>9. After(v, e) = v
    <3>1. After(v, e) = [channels |-> v.channels,
                         streaming |-> Set(v.streaming, id, "Down" = "Streaming"), recs |-> v.recs]
      <4> HIDE DEF v
      <4> QED BY <1>3, <2>5, <2>7, AfterSnapshot DEF e
    <3> QED BY <2>6, <2>7, <3>1
  <2> HIDE DEF v
  <2>10. /\ After(v, f) = [channels |-> entries, streaming |-> Kept(v, entries), recs |-> rec]
         /\ After(v, f) \in ViewType
    BY <2>1, <2>5, <2>7, <2>8, AfterList DEF f
  <2>11. Kept(v, entries) = off
    BY <2>6, <2>7 DEF Kept
  <2>12. Truth' = After(v, f)
    BY <1>3, <2>6, <2>10, <2>11 DEF Truth
  <2>13. Linked(Shown, q \o <<e, f>>, After(After(v, e), f)) /\ q \o <<e, f>> \in Seq(EventType)
    BY <2>3, <2>5, <2>9, <2>10, PublishTwo
  <2>14. events' = events \o (Disconnected(id) \o <<e, f>>)
         /\ events' = q \o <<e, f>> /\ Disconnected(id) \o <<e, f>> \in Seq(EventType)
    <3>1. <<e, f>> \in Seq(EventType)
      BY <2>3
    <3>2. \A a, b, c \in Seq(EventType) : a \o (b \o c) = (a \o b) \o c /\ b \o c \in Seq(EventType)
      OBVIOUS
    <3>3. events' = events \o (Disconnected(id) \o <<e, f>>)
      BY <1>3 DEF Publish, e, f
    <3> QED BY <2>1, <2>5, <3>1, <3>2, <3>3 DEF q
  <2>15. Linked(Shown, events', Truth') /\ events' \in Seq(EventType)
    BY <2>9, <2>12, <2>13, <2>14
  <2>16. tasks # << >> /\ tasks' = Tail(tasks) /\ Head(tasks).kind # "reorder"
    BY <1>0, TaskTaken
  <2>17. OrderComing => OrderComing'
    BY <2>14, <2>16, Typed, OrderStillComes
  <2> QED BY <2>2, <2>15, <2>16, <2>17, ControlStep
<1> QED BY <1>1, <1>2, <1>3 DEF DoUpdate

\* addChannel: the list comes before the first snapshot of its channel.
LEMMA DoAddStep == IInv /\ UNCHANGED ui /\ DoAdd => IInv'
<1> SUFFICES ASSUME IInv, UNCHANGED ui, DoAdd PROVE IInv'
  OBVIOUS
<1>0. Begin("add")
  BY DEF DoAdd
<1>1. CASE Ignored
  BY <1>0, <1>1, IgnoredStep
<1> DEFINE grids == {entries[i].grid : i \in DOMAIN entries}
           lists == {entries[i].list : i \in DOMAIN entries}
           place == [grid |-> FreePlace(grids), list |-> FreePlace(lists)]
           id == NextId
           es == With(entries, id, place)
           e == ListEvent(es)
           f == SnapshotEvent(id, "Down")
<1>2. CASE /\ id \in Ids /\ entries' = es /\ conn' = With(conn, id, "Down")
           /\ Publish(<<ListEvent(entries'), f>>) /\ UNCHANGED rec
  <2>1. entries \in Lists /\ DOMAIN entries \subseteq Ids /\ IsFiniteSet(DOMAIN entries)
        /\ entries \in [DOMAIN entries -> Place]
        /\ conn \in [DOMAIN entries -> ConnStates] /\ rec \in [Ids -> RecState]
    BY <1>2, Typed, ListsAreFunctions DEF ControlTyped
  <2>2. place \in Place
    <3>1. grids \subseteq Nat /\ lists \subseteq Nat
      BY <2>1 DEF Place
    <3>2. IsFiniteSet(grids) /\ IsFiniteSet(lists)
      <4> DEFINE g == [i \in DOMAIN entries |-> entries[i].grid]
                 l == [i \in DOMAIN entries |-> entries[i].list]
      <4>1. /\ g \in Surjection(DOMAIN entries, grids)
            /\ l \in Surjection(DOMAIN entries, lists)
        BY DEF Surjection
      <4> HIDE DEF g, l, grids, lists
      <4> QED BY <2>1, <4>1, FS_Surjection
    <3> HIDE DEF grids, lists
    <3> QED BY <3>1, <3>2, FreePlaceIsFree DEF Place
  <2> HIDE DEF place, id
  <2>3. /\ es \in [DOMAIN entries \cup {id} -> Place]
        /\ DOMAIN es = DOMAIN entries \cup {id} /\ DOMAIN es \subseteq Ids
    BY <1>2, <2>1, <2>2 DEF With
  <2>4. es \in Lists
    BY <2>3, FunctionsAreLists
  <2> HIDE DEF es
  <2>5. conn' \in [DOMAIN es -> ConnStates]
        /\ \A i \in DOMAIN es : conn'[i] = IF i = id THEN "Down" ELSE conn[i]
    BY <1>2, <2>1, <2>3 DEF With, ConnStates
  <2>6. ControlTyped'
    BY <1>2, <2>1, <2>4, <2>5 DEF ControlTyped
  <2>7. e \in EventType /\ f \in EventType
    BY <1>2, <2>4, EventsTyped DEF ConnStates
  <2> DEFINE v == [channels |-> es, streaming |-> Kept(Truth, es), recs |-> rec]
  <2>8. Truth.channels = entries /\ Truth.recs = rec
        /\ Truth.streaming = [i \in DOMAIN entries |-> conn[i] = "Streaming"]
    BY DEF Truth
  <2>9. \A i \in Ids \ DOMAIN es : rec[i] = "Idle"
    BY <2>3, TruthIsView
  <2>10. After(Truth, e) = v /\ After(Truth, e) \in ViewType
    BY <2>4, <2>8, <2>9, TruthIsView, AfterList
  <2>11. v.channels = es /\ v.streaming = Kept(Truth, es) /\ v.recs = rec
    OBVIOUS
  <2> HIDE DEF v, e
  <2>12. id \in DOMAIN v.channels
    BY <2>3, <2>11
  <2>13. /\ After(v, f) = [channels |-> es,
                           streaming |-> Set(Kept(Truth, es), id, "Down" = "Streaming"), recs |-> rec]
         /\ After(v, f) \in ViewType
    BY <2>10, <2>11, <2>12, AfterSnapshot
  <2>14. Set(Kept(Truth, es), id, "Down" = "Streaming") = [i \in DOMAIN es |-> conn'[i] = "Streaming"]
    <3>1. Kept(Truth, es) = [i \in DOMAIN es |-> IF i \in DOMAIN entries THEN Truth.streaming[i] ELSE FALSE]
      BY <2>8 DEF Kept
    <3>2. Set(Kept(Truth, es), id, "Down" = "Streaming") =
             [i \in DOMAIN es |-> IF i = id THEN "Down" = "Streaming" ELSE Kept(Truth, es)[i]]
      BY <3>1, Zenon DEF Set
    <3>3. \A i \in DOMAIN es : i # id => (Kept(Truth, es)[i] = (conn'[i] = "Streaming"))
      <4> SUFFICES ASSUME NEW i \in DOMAIN es, i # id
                   PROVE  Kept(Truth, es)[i] = (conn'[i] = "Streaming")
        OBVIOUS
      <4>1. i \in DOMAIN entries /\ conn'[i] = conn[i]
        BY <2>3, <2>5
      <4>2. Kept(Truth, es)[i] = Truth.streaming[i]
        BY <3>1, <4>1
      <4>3. Truth.streaming[i] = (conn[i] = "Streaming")
        BY <2>8, <4>1
      <4> QED BY <4>1, <4>2, <4>3
    <3> QED BY <2>5, <3>2, <3>3
  <2>15. Truth' = After(v, f)
    BY <1>2, <2>13, <2>14 DEF Truth
  <2>16. tasks # << >> /\ tasks' = Tail(tasks) /\ Head(tasks).kind # "reorder"
    BY <1>0, TaskTaken
  <2>17. Publish(<<e, f>>)
    BY <1>2 DEF e
  <2> HIDE DEF f
  <2> QED BY <1>2, <2>6, <2>7, <2>10, <2>13, <2>15, <2>16, <2>17, TwoEvents
<1> QED BY <1>1, <1>2 DEF DoAdd

\* removeRequested: the recording ends, the stream ends, the channel goes.
LEMMA DoRemoveStep == IInv /\ UNCHANGED ui /\ DoRemove => IInv'
<1> SUFFICES ASSUME IInv, UNCHANGED ui, DoRemove PROVE IInv'
  OBVIOUS
<1>0. Begin("remove")
  BY DEF DoRemove
<1>1. CASE Ignored
  BY <1>0, <1>1, IgnoredStep
<1> DEFINE id == Task.id
           es == Without(entries, id)
           r == RecordingEvent(id, "Idle")
           l == ListEvent(es)
<1>2. CASE /\ id \in DOMAIN entries /\ Publish(Removal(id)) /\ entries' = es
           /\ conn' = Without(conn, id) /\ rec' = [rec EXCEPT ![id] = "Idle"]
  <2>1. entries \in Lists /\ DOMAIN entries \subseteq Ids /\ IsFiniteSet(DOMAIN entries)
        /\ entries \in [DOMAIN entries -> Place] /\ id \in Ids
        /\ conn \in [DOMAIN entries -> ConnStates] /\ rec \in [Ids -> RecState]
        /\ events \in Seq(EventType)
    BY <1>2, Typed, ListsAreFunctions DEF ControlTyped, QueuesTyped
  <2>2. DOMAIN es = DOMAIN entries \ {id} /\ es \in [DOMAIN entries \ {id} -> Place]
    BY <2>1 DEF Without
  <2>3. es \in Lists
    BY <2>1, <2>2, FunctionsAreLists
  <2>4. ControlTyped'
    <3>1. conn' \in [DOMAIN es -> ConnStates]
      BY <1>2, <2>1, <2>2 DEF Without
    <3>2. rec' \in [Ids -> RecState]
      BY <1>2, <2>1 DEF RecState
    <3> QED BY <1>2, <2>3, <3>1, <3>2 DEF ControlTyped
  <2> DEFINE rs == Set(rec, id, "Idle")
             q1 == events \o EndOfRecording(id)
             v1 == [channels |-> entries, streaming |-> Truth.streaming, recs |-> rs]
             q2 == q1 \o Disconnected(id)
             up == Set(Truth.streaming, id, FALSE)
             v2 == [channels |-> entries, streaming |-> up, recs |-> rs]
  <2>5. r \in EventType /\ l \in EventType
    BY <2>1, <2>3, EventsTyped DEF RecState
  <2>6. EndOfRecording(id) = (IF rec[id] = "Idle" THEN << >> ELSE <<r>>)
    BY DEF EndOfRecording
  <2>7. Truth.channels = entries /\ Truth.recs = rec
        /\ Truth.streaming = [i \in DOMAIN entries |-> conn[i] = "Streaming"]
        /\ Truth = [channels |-> entries, streaming |-> Truth.streaming, recs |-> rec]
    BY DEF Truth
  <2>8. After(Truth, r) = v1 /\ After(Truth, r) \in ViewType
    BY <2>1, <2>7, TruthIsView, AfterRecording DEF RecState
  <2> HIDE DEF r, l, es
  <2>9. Linked(Shown, q1, v1) /\ q1 \in Seq(EventType) /\ v1 \in ViewType
    <3>1. CASE rec[id] = "Idle"
      <4>1. rs = rec
        BY <2>1, <3>1 DEF Set
      <4>2. q1 = events
        BY <2>1, <2>6, <3>1
      <4>3. v1 = Truth
        BY <2>7, <4>1
      <4> HIDE DEF q1, v1
      <4> QED BY <2>1, <4>2, <4>3, TruthIsView, Typed DEF EventsLead
    <3>2. CASE rec[id] # "Idle"
      <4>1. q1 = events \o <<r>>
        BY <2>6, <3>2
      <4>2. /\ Linked(Shown, events \o <<r>>, After(Truth, r))
            /\ events \o <<r>> \in Seq(EventType)
        BY <2>1, <2>5, <2>8, Typed, PublishOne DEF EventsLead
      <4> HIDE DEF q1, v1
      <4> QED BY <2>8, <4>1, <4>2
    <3> QED BY <3>1, <3>2
  <2>10. v1.channels = entries /\ v1.streaming = Truth.streaming /\ v1.recs = rs
    OBVIOUS
  <2> HIDE DEF q1
  <2>11. /\ Linked(Shown, q2, v2) /\ q2 \in Seq(EventType) /\ v2 \in ViewType
         /\ Disconnected(id) \in Seq(EventType)
    <3> HIDE DEF v1, rs
    <3> QED BY <1>2, <2>9, <2>10, DisconnectedLeads
  <2>12. v2.channels = entries /\ v2.streaming = up /\ v2.recs = rs
    OBVIOUS
  <2>13. \A i \in Ids \ DOMAIN es : rs[i] = "Idle"
    BY <2>1, <2>2, TruthIsView DEF Set
  <2>14. /\ up = [i \in DOMAIN entries |-> up[i]]
         /\ \A i \in DOMAIN entries : i # id => up[i] = (conn[i] = "Streaming")
    <3>1. up = [i \in DOMAIN entries |-> IF i = id THEN FALSE ELSE Truth.streaming[i]]
      BY <2>7, Zenon DEF Set
    <3>2. ASSUME NEW i \in DOMAIN entries, i # id PROVE up[i] = (conn[i] = "Streaming")
      <4> HIDE DEF up
      <4>1. up[i] = Truth.streaming[i]
        BY <3>1, <3>2
      <4>2. Truth.streaming[i] = (conn[i] = "Streaming")
        BY <2>7
      <4> QED BY <4>1, <4>2
    <3> HIDE DEF up
    <3> QED BY <3>1, <3>2
  <2> HIDE DEF q2, v2, rs, up
  <2>15. /\ After(v2, l) = [channels |-> es, streaming |-> Kept(v2, es), recs |-> rs]
         /\ After(v2, l) \in ViewType
    BY <2>3, <2>11, <2>12, <2>13, AfterList DEF l
  <2>16. Kept(v2, es) = [i \in DOMAIN es |-> conn'[i] = "Streaming"]
    <3>1. Kept(v2, es) = [i \in DOMAIN es |-> IF i \in DOMAIN up THEN up[i] ELSE FALSE]
      BY <2>12 DEF Kept
    <3>2. ASSUME NEW i \in DOMAIN es
          PROVE  (IF i \in DOMAIN up THEN up[i] ELSE FALSE) = (conn'[i] = "Streaming")
      <4>1. i \in DOMAIN entries /\ i # id /\ conn'[i] = conn[i]
        BY <1>2, <2>1, <2>2 DEF Without
      <4>2. i \in DOMAIN up
        BY <2>14, <4>1
      <4>3. up[i] = (conn[i] = "Streaming")
        BY <2>14, <4>1
      <4> QED BY <4>1, <4>2, <4>3
    <3> QED BY <3>1, <3>2
  <2>17. Truth' = After(v2, l)
    BY <1>2, <2>15, <2>16 DEF Truth, rs, Set
  <2>18. events' = q2 \o <<l>>
    <3>1. Removal(id) = EndOfRecording(id) \o (Disconnected(id) \o <<l>>)
      BY DEF Removal, RemovalOfEntry, l, es
    <3>2. EndOfRecording(id) \in Seq(EventType) /\ <<l>> \in Seq(EventType)
      BY <2>5, <2>6
    <3>3. events \o (EndOfRecording(id) \o (Disconnected(id) \o <<l>>))
             = ((events \o EndOfRecording(id)) \o Disconnected(id)) \o <<l>>
      BY <2>1, <2>11, <3>2
    <3> QED BY <1>2, <3>1, <3>3 DEF Publish, q1, q2
  <2>19. Linked(Shown, events', Truth') /\ events' \in Seq(EventType)
    BY <2>5, <2>11, <2>15, <2>17, <2>18, PublishOne
  <2>20. tasks # << >> /\ tasks' = Tail(tasks)
    BY <1>0, TaskTaken
  <2>21. Len(q2) + 1 \in DOMAIN events' /\ events'[Len(q2) + 1] = l /\ l.kind = "list"
    BY <2>11, <2>18 DEF l, ListEvent
  <2>22. OrderComing'
    BY <2>21 DEF OrderComing
  <2> QED BY <2>4, <2>19, <2>20, <2>22, ControlStep
<1> QED BY <1>1, <1>2 DEF DoRemove

\* The control thread.
LEMMA ControlKeepsIInv == IInv /\ Control => IInv'
<1> SUFFICES ASSUME IInv, Control PROVE IInv'
  OBVIOUS
<1>1. UNCHANGED ui /\ (DoAdd \/ DoUpdate \/ DoRemove \/ DoMove \/ DoReorder \/ DoToggle \/ DoCapture)
  BY DEF Control
<1> QED BY <1>1, DoAddStep, DoUpdateStep, DoRemoveStep, DoMoveStep, DoReorderStep,
           DoToggleStep, DoCaptureStep

-----------------------------------------------------------------------------
(* The UI thread. *)

\* A delivery: what is shown afterwards, and what is still on the way.
LEMMA EventDelivered ==
    ASSUME IInv, NEW kind, Deliver(kind)
    PROVE  /\ Event \in EventType /\ Event.kind = kind
           /\ events # << >> /\ events' = Tail(events) /\ events' \in Seq(EventType)
           /\ Shown \in ViewType
           /\ After(Shown, Event) \in ViewType
           /\ Linked(After(Shown, Event), Tail(events), Truth)
<1>1. /\ events \in Seq(EventType)
      /\ events # << >>
      /\ Event = Head(events)
      /\ events' = Tail(events)
      /\ Event.kind = kind
  BY Typed DEF QueuesTyped, Deliver, Event
<1>2. Event \in EventType /\ events' \in Seq(EventType)
  BY <1>1
<1>3. Linked(Shown, events, Truth)
  BY Typed DEF EventsLead
<1>4. /\ After(Shown, Head(events)) \in ViewType
      /\ Linked(After(Shown, Head(events)), Tail(events), Truth)
  BY <1>1, <1>3, LinkHead
<1> QED BY <1>1, <1>2, <1>4, TruthIsView

\* A delivery that leaves the panel's claim about the order as it was.
LEMMA OrderNotForgotten ==
    ASSUME IInv, NEW kind, Deliver(kind), kind # "list", UNCHANGED tasks, OrderComing
    PROVE  OrderComing'
<1>1. CASE \E i \in DOMAIN tasks : tasks[i].kind = "reorder"
  BY <1>1 DEF OrderComing
<1>2. ASSUME NEW i \in DOMAIN events, events[i].kind = "list" PROVE OrderComing'
  <2>1. /\ events \in Seq(EventType)
        /\ events # << >>
        /\ Head(events).kind = kind
        /\ events' = Tail(events)
    BY Typed DEF QueuesTyped, Deliver
  <2>2. i # 1
    BY <1>2, <2>1
  <2>3. i - 1 \in DOMAIN events' /\ events'[i - 1] = events[i]
    BY <2>1, <2>2
  <2> QED BY <1>2, <2>3 DEF OrderComing
<1> QED BY <1>1, <1>2 DEF OrderComing

\* The parts a step of the window starts from.
LEMMA UiTyped ==
    ASSUME IInv
    PROVE WindowTyped /\ TilesAgree /\ TilesPlaced /\ PanelAgrees /\ DialogTyped
  BY DEF IInv

\* What an event makes of the window is what it was published for.
LEMMA UiStep ==
    ASSUME IInv, NEW kind, Deliver(kind), UNCHANGED <<control, tasks>>,
           Shown' = After(Shown, Event),
           WindowTyped', TilesAgree', TilesPlaced', PanelAgrees', DialogTyped'
    PROVE  IInv'
<1>1. ControlTyped' /\ Truth' = Truth
  BY Typed DEF ControlTyped, Truth, control
<1>2. QueuesTyped'
  BY Typed, EventDelivered DEF QueuesTyped
<1>3. EventsLead'
  BY <1>1, EventDelivered DEF EventsLead
<1> QED BY <1>1, <1>2, <1>3 DEF IInv

\* What is shown, member by member.
LEMMA ShownFields ==
    /\ Shown.channels = window.channels /\ Shown.streaming = window.streaming
    /\ Shown.recs = window.recStates
  BY DEF Shown

\* onSnapshot, updateStatus and the label of the tile.
LEMMA OnSnapshotStep == IInv /\ UNCHANGED <<control, tasks>> /\ OnSnapshot => IInv'
<1> SUFFICES ASSUME IInv, UNCHANGED <<control, tasks>>, OnSnapshot PROVE IInv'
  OBVIOUS
<1> DEFINE id == Event.id
           s == Event.state
           up == s = "Streaming"
<1>1. Deliver("snapshot") /\ UNCHANGED <<view, dialog>>
  BY DEF OnSnapshot
<1>2. Event = SnapshotEvent(id, s) /\ id \in Ids /\ s \in ConnStates
  BY <1>1, EventDelivered, EventFields
<1>3. After(Shown, Event) \in ViewType /\ Shown \in ViewType
  BY <1>1, EventDelivered
<1>4. /\ id \in DOMAIN window.channels
      /\ window.streaming \in [DOMAIN window.channels -> BOOLEAN]
  <2>1. window.streaming \in [DOMAIN window.channels -> BOOLEAN]
    BY UiTyped DEF WindowTyped
  <2>2. After(Shown, Event) = [Shown EXCEPT !.streaming = With(@, id, up)]
    BY <1>2 DEF After, Streams, SnapshotEvent
  <2>3. After(Shown, Event).channels = window.channels
        /\ After(Shown, Event).streaming = With(window.streaming, id, up)
    BY <2>2 DEF Shown
  <2>4. DOMAIN With(window.streaming, id, up) = DOMAIN window.streaming \cup {id}
    BY DEF With
  <2>5. DOMAIN After(Shown, Event).streaming = DOMAIN After(Shown, Event).channels
    BY <1>3, ViewFields
  <2> QED BY <2>1, <2>3, <2>4, <2>5
<1>5. window' = [window EXCEPT !.streaming = With(@, id, up)]
  BY DEF OnSnapshot
<1>6. With(window.streaming, id, up) = Set(window.streaming, id, up)
  <2>1. DOMAIN window.streaming \cup {id} = DOMAIN window.streaming
    BY <1>4
  <2> QED BY <1>4, <2>1 DEF With, Set
<1>7. window' = [channels |-> window.channels, streaming |-> Set(window.streaming, id, up),
                 recStates |-> window.recStates, tabs |-> window.tabs]
  BY <1>5, <1>6, UiTyped DEF WindowTyped
<1>8. Set(window.streaming, id, up) \in [DOMAIN window.channels -> BOOLEAN]
      /\ \A i \in DOMAIN window.channels :
            Set(window.streaming, id, up)[i] = IF i = id THEN up ELSE window.streaming[i]
  BY <1>4 DEF Set
<1>9. Shown' = After(Shown, Event)
  <2>1. After(Shown, SnapshotEvent(id, s)) =
           [channels |-> window.channels, streaming |-> Set(window.streaming, id, up),
            recs |-> window.recStates]
    BY <1>3, <1>4, ShownFields, AfterSnapshot
  <2> QED BY <1>2, <1>7, <2>1 DEF Shown
<1> HIDE DEF id, s, up
<1>10. WindowTyped'
  BY <1>7, <1>8, UiTyped DEF WindowTyped
<1>11. /\ grid' = [grid EXCEPT !.tiles[id].label = s]
       /\ grid.tiles \in [DOMAIN window.channels -> Tile]
       /\ id \in DOMAIN grid.tiles
  BY <1>4, UiTyped DEF TilesAgree, OnSnapshot, id, s
<1> DEFINE ts == [grid.tiles EXCEPT ![id] = [grid.tiles[id] EXCEPT !.label = s]]
<1>12. grid' = [tiles |-> ts, configs |-> grid.configs, columns |-> grid.columns,
               layout |-> grid.layout, place |-> grid.place, recTick |-> grid.recTick,
               queued |-> grid.queued]
  BY <1>11, UiTyped DEF TilesPlaced
<1>13. TilesPlaced'
  BY <1>1, <1>7, <1>12, UiTyped DEF TilesPlaced
<1>14. \A i \in DOMAIN window.channels :
          /\ ts[i] \in Tile /\ ts[i].rec = grid.tiles[i].rec
          /\ ts[i].label = IF i = id THEN s ELSE grid.tiles[i].label
  <2>1. s \in Label
    BY <1>2 DEF Label, s
  <2> QED BY <1>4, <1>11, <2>1 DEF Tile
<1>15. ts \in [DOMAIN window.channels -> Tile]
  BY <1>11, <1>14
<1>16. /\ grid'.tiles = ts
       /\ grid'.recTick = grid.recTick
       /\ window'.channels = window.channels
       /\ window'.recStates = window.recStates /\ window'.tabs = window.tabs
       /\ window'.streaming = Set(window.streaming, id, up)
  BY <1>7, <1>12
<1> HIDE DEF ts
<1>17. AnyRecording(ts) <=> AnyRecording(grid.tiles)
  BY <1>11, <1>14, <1>15 DEF AnyRecording
<1>18. TilesAgree'
  <2>1. ASSUME NEW i \in DOMAIN window.channels
        PROVE  /\ ts[i].rec = window.recStates[i]
               /\ ts[i].label # "NameOnly" =>
                    (ts[i].label = "Streaming" <=> Set(window.streaming, id, up)[i])
    BY <1>8, <1>14, UiTyped DEF TilesAgree, up
  <2> QED BY <1>15, <1>16, <1>17, <2>1, UiTyped DEF TilesAgree
<1>19. panel' = [panel EXCEPT !.rows = [i \in DOMAIN @ |->
                    IF panel.configs[i] = id THEN Row(@[i].id, id, s) ELSE @[i]]]
  BY DEF OnSnapshot, StatusPanel, id, s
<1> DEFINE rs == [i \in DOMAIN panel.rows |->
                    IF panel.configs[i] = id THEN Row(panel.rows[i].id, id, s) ELSE panel.rows[i]]
<1>20. panel' = [configs |-> panel.configs, rows |-> rs]
  BY <1>19, UiTyped DEF PanelAgrees
<1>21. panel.rows \in Seq(RowType) /\ Len(panel.rows) = Len(panel.configs)
       /\ panel.configs = ListOrder(window.channels)
  BY UiTyped DEF PanelAgrees
<1>22. rs \in Seq(RowType) /\ Len(rs) = Len(panel.rows) /\ DOMAIN rs = DOMAIN panel.rows
  <2>1. ASSUME NEW i \in DOMAIN panel.rows PROVE rs[i] \in RowType
    <3>1. panel.rows[i] \in RowType
      BY <1>21
    <3>2. Row(panel.rows[i].id, id, s) \in RowType
      BY <1>2, <3>1 DEF RowType, Row, Label
    <3> QED BY <3>1, <3>2
  <2>2. /\ panel.rows \in Seq(RowType)
        /\ DOMAIN rs = 1 .. Len(panel.rows)
        /\ Len(panel.rows) \in Nat
    BY <1>21
  <2>3. rs \in [1 .. Len(panel.rows) -> RowType]
    BY <2>1, <2>2
  <2> HIDE DEF rs
  <2> QED BY <2>2, <2>3
<1>23. ASSUME RowsFit PROVE RowsFit'
  <2>1. panel'.rows = rs /\ panel'.configs = panel.configs
    BY <1>20
  <2> DEFINE Fits(i) ==
                /\ rs[i].id = panel.configs[i] /\ rs[i].text = panel.configs[i]
                /\ rs[i].status # "Idle" =>
                      (rs[i].status = "Streaming" <=> Set(window.streaming, id, up)[panel.configs[i]])
  <2>0. (\A i \in DOMAIN rs : Fits(i)) => RowsFit'
    <3> HIDE DEF rs
    <3> QED BY <1>16, <2>1 DEF RowsFit
  <2> SUFFICES ASSUME NEW i \in DOMAIN panel.rows PROVE Fits(i)
    BY <1>22, <2>0
  <2>2. /\ panel.rows[i].id = panel.configs[i] /\ panel.rows[i].text = panel.configs[i]
        /\ panel.rows[i].status # "Idle" =>
              (panel.rows[i].status = "Streaming" <=> window.streaming[panel.configs[i]])
    BY <1>23 DEF RowsFit
  <2>3. panel.configs[i] \in DOMAIN window.channels
    <3>1. window.channels \in Lists
      BY UiTyped DEF WindowTyped
    <3>2. panel.configs \in Seq(DOMAIN window.channels)
      BY <1>21, <3>1, ListsAreFunctions, ListOrderHasAll
    <3> QED BY <1>21, <3>2
  <2> QED BY <1>8, <2>2, <2>3 DEF up, Row
<1>24. PanelAgrees'
  <2>1. OrderComing => OrderComing'
    BY <1>1, OrderNotForgotten
  <2>2. /\ panel'.rows = rs
        /\ panel'.configs = panel.configs
        /\ panel' = [configs |-> panel.configs, rows |-> rs]
    BY <1>20
  <2> HIDE DEF rs
  <2> QED BY <1>16, <1>21, <1>22, <1>23, <2>1, <2>2, UiTyped DEF PanelAgrees
<1>25. DialogTyped'
  BY <1>1, UiTyped DEF DialogTyped
<1> QED BY <1>1, <1>9, <1>10, <1>13, <1>18, <1>24, <1>25, UiStep

\* onRecordingState, the tile and the tick.
LEMMA OnRecordingStateStep == IInv /\ UNCHANGED <<control, tasks>> /\ OnRecordingState => IInv'
<1> SUFFICES ASSUME IInv, UNCHANGED <<control, tasks>>, OnRecordingState PROVE IInv'
  OBVIOUS
<1> DEFINE id == Event.id
           s == Event.state
           rs == Set(window.recStates, id, s)
           tabs == [i \in DOMAIN window.tabs |-> IF i = id THEN s ELSE window.tabs[i]]
<1>1. Deliver("recording") /\ UNCHANGED <<panel, view, dialog>>
  BY DEF OnRecordingState
<1>2. Event = RecordingEvent(id, s) /\ id \in Ids /\ s \in RecState
  BY <1>1, EventDelivered, EventFields
<1>3. After(Shown, Event) \in ViewType /\ Shown \in ViewType
  BY <1>1, EventDelivered
<1>4. window' = [channels |-> window.channels, streaming |-> window.streaming,
                 recStates |-> rs, tabs |-> tabs]
  <2>1. window' = [window EXCEPT
          !.recStates[id] = s,
          !.tabs = [i \in DOMAIN @ |-> IF i = id THEN s ELSE @[i]]]
    BY DEF OnRecordingState
  <2> QED BY <2>1, UiTyped DEF WindowTyped, Set
<1>5. After(Shown, Event) = [channels |-> window.channels, streaming |-> window.streaming, recs |-> rs]
  BY <1>2, <1>3, ShownFields, AfterRecording
<1>6. Shown' = After(Shown, Event)
  BY <1>4, <1>5 DEF Shown
<1>7. rs \in [Ids -> RecState] /\ \A i \in Ids : rs[i] = IF i = id THEN s ELSE window.recStates[i]
  BY <1>2, UiTyped DEF WindowTyped, Set
<1>8. tabs \in [DOMAIN window.tabs -> RecState] /\ DOMAIN tabs = DOMAIN window.tabs
      /\ \A i \in DOMAIN window.tabs : tabs[i] = rs[i] /\ i \in Ids
  <2>1. /\ window.tabs \in [DOMAIN window.tabs -> RecState]
        /\ DOMAIN window.tabs \subseteq Ids
        /\ \A i \in DOMAIN window.tabs : window.tabs[i] = window.recStates[i]
    BY UiTyped DEF WindowTyped, TilesAgree
  <2> QED BY <1>2, <1>7, <2>1
<1> HIDE DEF rs, tabs
<1>9. window'.channels = window.channels /\ window'.streaming = window.streaming
      /\ window'.recStates = rs /\ window'.tabs = tabs
  BY <1>4
<1>10. WindowTyped'
  BY <1>4, <1>7, <1>8, <1>9, UiTyped DEF WindowTyped
<1>11. /\ grid.tiles \in [DOMAIN window.channels -> Tile] /\ DOMAIN window.channels \subseteq Ids
       /\ \A i \in DOMAIN window.channels : grid.tiles[i].rec = window.recStates[i]
       /\ \A i \in DOMAIN window.channels : grid.tiles[i].label # "NameOnly" =>
             (grid.tiles[i].label = "Streaming" <=> window.streaming[i])
       /\ grid.recTick \in BOOLEAN
       /\ grid.recTick <=> AnyRecording(grid.tiles)
  BY UiTyped, ListsAreFunctions DEF TilesAgree, WindowTyped
<1>12. grid' = RecordedGrid(id, s)
  BY DEF OnRecordingState
<1> HIDE DEF id, s
<1>13. CASE id \notin DOMAIN grid.tiles
  <2>1. grid' = grid
    BY <1>12, <1>13 DEF RecordedGrid
  <2>2. \A i \in DOMAIN window.channels : rs[i] = window.recStates[i]
    BY <1>7, <1>11, <1>13
  <2>3. TilesAgree'
    <3>1. \A i \in DOMAIN window.channels : grid.tiles[i].rec = rs[i]
      BY <1>11, <2>2
    <3>2. grid'.tiles = grid.tiles /\ grid'.recTick = grid.recTick
      BY <2>1
    <3>3. grid'.recTick \in BOOLEAN /\ (grid'.recTick <=> AnyRecording(grid'.tiles))
      BY <1>11, <2>1
    <3> QED BY <1>8, <1>9, <1>11, <3>1, <3>2, <3>3 DEF TilesAgree
  <2>4. TilesPlaced'
    BY <1>1, <1>9, <2>1, UiTyped DEF TilesPlaced
  <2> QED BY <2>3, <2>4, <1>1, <1>6, <1>9, <1>10, UiTyped, UiStep, OrderNotForgotten
          DEF PanelAgrees, RowsFit, DialogTyped
<1>14. CASE id \in DOMAIN grid.tiles
  <2> DEFINE ts == [grid.tiles EXCEPT ![id] = [grid.tiles[id] EXCEPT !.rec = s]]
  <2>1. grid' = [grid EXCEPT !.tiles = ts, !.recTick = AnyRecording(ts)]
    BY <1>12, <1>14 DEF RecordedGrid
  <2>2. \A i \in DOMAIN window.channels :
          /\ ts[i] \in Tile /\ ts[i].label = grid.tiles[i].label
          /\ ts[i].rec = IF i = id THEN s ELSE grid.tiles[i].rec
    BY <1>2, <1>11, <1>14 DEF Tile
  <2>3. ts \in [DOMAIN window.channels -> Tile]
    BY <1>11, <2>2
  <2> DEFINE any == AnyRecording(ts)
  <2>4. any \in BOOLEAN
    BY DEF AnyRecording
  <2>5. grid' = [tiles |-> ts, configs |-> grid.configs, columns |-> grid.columns,
               layout |-> grid.layout, place |-> grid.place, recTick |-> any,
               queued |-> grid.queued]
    BY <2>1, UiTyped DEF TilesPlaced
  <2>6. grid'.tiles = ts /\ grid'.recTick = any
    BY <2>5
  <2>7. TilesPlaced'
    BY <1>1, <1>9, <2>5, UiTyped DEF TilesPlaced
  <2> HIDE DEF ts
  <2>8. TilesAgree'
    <3>1. \A i \in DOMAIN window.channels : ts[i].rec = rs[i]
      BY <1>7, <1>11, <2>2
    <3>2. grid'.recTick \in BOOLEAN /\ (grid'.recTick <=> AnyRecording(grid'.tiles))
      BY <2>4, <2>6
    <3> QED BY <1>8, <1>9, <1>11, <2>2, <2>3, <2>6, <3>1, <3>2 DEF TilesAgree
  <2> QED BY <2>7, <2>8, <1>1, <1>6, <1>9, <1>10, UiTyped, UiStep, OrderNotForgotten
          DEF PanelAgrees, RowsFit, DialogTyped
<1> QED BY <1>13, <1>14

\* The relayout a resize has put off finds every tile where it belongs.
LEMMA RelayoutPlacesAll ==
    ASSUME IInv, OnRelayout
    PROVE  /\ GridType(grid') /\ grid'.configs = grid.configs /\ grid'.columns = grid.columns
           /\ grid'.tiles = grid.tiles /\ grid'.recTick = grid.recTick
           /\ grid'.layout \in LayoutType /\ grid'.place = PlacesOf(window.channels)
           /\ \A id \in DOMAIN window.channels : window.channels[id].grid \in Cells(grid'.layout)
<1> DEFINE g == [grid EXCEPT !.queued = FALSE]
<1>1. grid' = Relaid(g, view)
  BY DEF OnRelayout
<1>2. g = [tiles |-> grid.tiles, configs |-> grid.configs, columns |-> grid.columns,
           layout |-> grid.layout, place |-> grid.place, recTick |-> grid.recTick, queued |-> FALSE]
  <2>1. ASSUME NEW q
        PROVE  [grid EXCEPT !.queued = q] =
          [tiles |-> grid.tiles, configs |-> grid.configs, columns |-> grid.columns,
           layout |-> grid.layout, place |-> grid.place, recTick |-> grid.recTick, queued |-> q]
    BY UiTyped DEF TilesPlaced
  <2> QED BY <2>1
<1>3. /\ GridType(g)
      /\ g.configs = PlacesOf(window.channels) /\ g.configs = grid.configs
      /\ g.place = PlacesOf(window.channels) /\ g.columns = grid.columns
      /\ g.layout = grid.layout /\ g.tiles = grid.tiles /\ g.recTick = grid.recTick
  BY <1>2, UiTyped DEF TilesPlaced, GridType
<1> HIDE DEF g
<1>4. window.channels \in Lists /\ view \in Views /\ grid.layout \in LayoutType
      /\ \A id \in DOMAIN window.channels : window.channels[id].grid \in Cells(grid.layout)
  BY UiTyped DEF WindowTyped, TilesPlaced
<1> QED BY <1>1, <1>3, <1>4, RelaidPlacesAll

\* The relayout a resize has put off.
LEMMA OnRelayoutStep == IInv /\ UNCHANGED <<control, tasks>> /\ OnRelayout => IInv'
<1> SUFFICES ASSUME IInv, UNCHANGED <<control, tasks>>, OnRelayout PROVE IInv'
  OBVIOUS
<1>1. UNCHANGED <<window, panel, view, dialog, events>>
  BY DEF OnRelayout
<1>4. /\ GridType(grid') /\ grid'.configs = grid.configs /\ grid'.columns = grid.columns
      /\ grid'.tiles = grid.tiles /\ grid'.recTick = grid.recTick
      /\ grid'.layout \in LayoutType /\ grid'.place = PlacesOf(window.channels)
      /\ \A id \in DOMAIN window.channels : window.channels[id].grid \in Cells(grid'.layout)
  BY RelayoutPlacesAll
<1>5. TilesPlaced'
  BY <1>1, <1>4, UiTyped DEF TilesPlaced, GridType
<1>6. TilesAgree'
  BY <1>1, <1>4, UiTyped DEF TilesAgree
<1>7. WindowTyped' /\ PanelAgrees' /\ DialogTyped'
  BY <1>1, UiTyped DEF WindowTyped, PanelAgrees, RowsFit, OrderComing, DialogTyped
<1>8. ControlTyped' /\ QueuesTyped' /\ EventsLead'
  BY <1>1, Typed DEF ControlTyped, QueuesTyped, EventsLead, Shown, Truth, control
<1> QED BY <1>5, <1>6, <1>7, <1>8 DEF IInv

\* rebuild, for the list that is shown or one that arrives.
LEMMA RebuiltPlacesAll ==
    ASSUME TilesPlaced, NEW es \in Lists, NEW n \in Column
    PROVE  LET r == Rebuilt(es, n)
           IN /\ GridType(r) /\ r.tiles = TilesOf(es) /\ r.recTick = grid.recTick
              /\ r.configs = PlacesOf(es) /\ r.place = PlacesOf(es) /\ r.layout \in LayoutType
              /\ \A id \in DOMAIN es : es[id].grid \in Cells(r.layout)
<1> DEFINE g == [Configured(es, n) EXCEPT !.layout = NoLayout]
<1>1. Rebuilt(es, n) = Relaid(g, view)
  BY DEF Rebuilt
<1>2. g = [tiles |-> TilesOf(es), configs |-> PlacesOf(es), columns |-> n,
           layout |-> NoLayout, place |-> grid.place, recTick |-> grid.recTick,
           queued |-> grid.queued]
  <2>1. Configured(es, n) =
          [grid EXCEPT !.tiles = TilesOf(es), !.configs = PlacesOf(es), !.columns = n]
    BY DEF Configured, PlacesOf
  <2>2. grid = [tiles |-> grid.tiles, configs |-> grid.configs, columns |-> grid.columns,
                layout |-> grid.layout, place |-> grid.place, recTick |-> grid.recTick,
                queued |-> grid.queued]
    BY DEF TilesPlaced
  <2>3. Configured(es, n) =
          [tiles |-> TilesOf(es), configs |-> PlacesOf(es), columns |-> n,
           layout |-> grid.layout, place |-> grid.place, recTick |-> grid.recTick,
           queued |-> grid.queued]
    BY <2>1, <2>2
  <2> QED BY <2>3
<1>3. /\ GridType(g) /\ g.configs = PlacesOf(es) /\ g.layout = NoLayout
      /\ g.tiles = TilesOf(es) /\ g.recTick = grid.recTick
  BY <1>2 DEF GridType
<1> HIDE DEF g
<1> QED BY <1>1, <1>3, RelaidPlacesAll DEF TilesPlaced

\* onChannelList, updateChannels of the panel and of the grid.
LEMMA OnChannelListStep == IInv /\ UNCHANGED <<control, tasks>> /\ OnChannelList => IInv'
<1> SUFFICES ASSUME IInv, UNCHANGED <<control, tasks>>, OnChannelList PROVE IInv'
  OBVIOUS
<1> DEFINE es == Event.channels
           up == Kept(Shown, es)
           tabs == [id \in DOMAIN window.tabs \cap DOMAIN es |-> window.tabs[id]]
<1>1. Deliver("list") /\ UNCHANGED view
  BY DEF OnChannelList
<1>2. Event = ListEvent(es) /\ es \in Lists
  BY <1>1, EventDelivered, EventFields
<1>3. After(Shown, Event) \in ViewType /\ Shown \in ViewType
  BY <1>1, EventDelivered
<1>4. /\ DOMAIN es \subseteq Ids /\ IsFiniteSet(DOMAIN es) /\ es \in [DOMAIN es -> Place]
      /\ \A id \in DOMAIN es : es[id].grid \in Nat /\ es[id].list \in Nat
  BY <1>2, ListsAreFunctions
<1>5. After(Shown, Event) = [channels |-> es, streaming |-> up, recs |-> window.recStates]
  BY <1>2, <1>3, ShownFields, AfterList
<1>6. window' = [channels |-> es, streaming |-> up, recStates |-> window.recStates, tabs |-> tabs]
  <2>1. window' = [window EXCEPT
               !.channels = es,
               !.streaming = [id \in DOMAIN es |-> IF id \in DOMAIN @ THEN @[id] ELSE FALSE],
               !.tabs = [id \in DOMAIN @ \cap DOMAIN es |-> @[id]]]
    BY DEF OnChannelList
  <2>2. up = [id \in DOMAIN es |-> IF id \in DOMAIN window.streaming THEN window.streaming[id] ELSE FALSE]
    BY ShownFields DEF Kept
  <2>3. window = [channels |-> window.channels, streaming |-> window.streaming,
                  recStates |-> window.recStates, tabs |-> window.tabs]
    BY UiTyped DEF WindowTyped
  <2> HIDE DEF up, es
  <2> QED BY <2>1, <2>2, <2>3
<1>7. Shown' = After(Shown, Event)
  BY <1>5, <1>6 DEF Shown
<1>8. /\ up \in [DOMAIN es -> BOOLEAN]
      /\ \A id \in DOMAIN es : id \in DOMAIN window.channels => up[id] = window.streaming[id]
  BY ShownFields, UiTyped DEF WindowTyped, Kept
<1>9. \A id \in Ids \ DOMAIN es : window.recStates[id] = "Idle"
  <2>1. /\ After(Shown, Event).channels = es
        /\ After(Shown, Event).recs = window.recStates
    BY <1>5
  <2> QED BY <1>3, <2>1, ViewFields
<1>10. \A id \in Ids \ DOMAIN window.channels : window.recStates[id] = "Idle"
  BY <1>3, ViewFields, ShownFields
<1>11. /\ tabs \in [DOMAIN tabs -> RecState] /\ DOMAIN tabs \subseteq Ids
       /\ \A id \in DOMAIN tabs : tabs[id] = window.recStates[id]
  BY UiTyped DEF WindowTyped, TilesAgree
<1> HIDE DEF es, up, tabs
<1>12. /\ window'.channels = es /\ window'.streaming = up
       /\ window'.recStates = window.recStates /\ window'.tabs = tabs
  BY <1>6
<1>13. WindowTyped'
  BY <1>2, <1>6, <1>8, <1>11, <1>12, UiTyped DEF WindowTyped
<1>14. /\ GridType(grid') /\ grid'.tiles = TilesOf(es) /\ grid'.recTick = grid.recTick
       /\ grid'.configs = PlacesOf(es) /\ grid'.place = PlacesOf(es) /\ grid'.layout \in LayoutType
       /\ \A id \in DOMAIN es : es[id].grid \in Cells(grid'.layout)
  <2>1. grid' = Rebuilt(es, grid.columns)
    BY DEF OnChannelList, es
  <2>2. TilesPlaced /\ grid.columns \in Column
    BY UiTyped DEF TilesPlaced
  <2> QED BY <1>2, <2>1, <2>2, RebuiltPlacesAll
<1>15. TilesPlaced'
  BY <1>1, <1>12, <1>14, UiTyped DEF TilesPlaced, GridType
<1>16. /\ grid.tiles \in [DOMAIN window.channels -> Tile]
       /\ \A id \in DOMAIN window.channels : grid.tiles[id].rec = window.recStates[id]
       /\ grid.recTick \in BOOLEAN
       /\ grid.recTick <=> AnyRecording(grid.tiles)
  BY UiTyped DEF TilesAgree
<1> DEFINE ts == TilesOf(es)
<1>17. ASSUME NEW id \in DOMAIN es
       PROVE  ts[id] \in Tile /\ ts[id].rec = window.recStates[id] /\ ts[id].label = "NameOnly"
  <2>1. ts[id] = TileOf(id)
    BY DEF TilesOf
  <2>2. CASE id \in DOMAIN grid.tiles
    <3>1. ts[id] = [grid.tiles[id] EXCEPT !.label = "NameOnly"]
      BY <2>1, <2>2 DEF TileOf, Relabelled
    <3> QED BY <1>16, <2>2, <3>1 DEF Tile, Label
  <2>3. CASE id \notin DOMAIN grid.tiles
    <3>1. ts[id] = NewTile
      BY <2>1, <2>3 DEF TileOf
    <3>2. window.recStates[id] = "Idle"
      BY <1>4, <1>10, <1>16, <2>3
    <3> QED BY <3>1, <3>2 DEF NewTile, Tile, Label, RecState
  <2> QED BY <2>2, <2>3
<1>18. DOMAIN ts = DOMAIN es /\ ts \in [DOMAIN es -> Tile]
  <2>1. DOMAIN ts = DOMAIN es /\ ts = [id \in DOMAIN es |-> ts[id]]
    BY DEF TilesOf
  <2> HIDE DEF ts
  <2> QED BY <1>17, <2>1
<1> HIDE DEF ts
<1>19. AnyRecording(ts) <=> AnyRecording(grid.tiles)
  <2>1. ASSUME NEW id \in DOMAIN ts, ts[id].rec = "Recording"
        PROVE  id \in DOMAIN grid.tiles /\ grid.tiles[id].rec = "Recording"
    BY <1>4, <1>10, <1>16, <1>17, <1>18, <2>1
  <2>2. ASSUME NEW id \in DOMAIN grid.tiles, grid.tiles[id].rec = "Recording"
        PROVE  id \in DOMAIN ts /\ ts[id].rec = "Recording"
    <3>1. id \in Ids
      BY <1>16, ListsAreFunctions, UiTyped DEF WindowTyped
    <3>2. window.recStates[id] = "Recording"
      BY <1>16, <2>2
    <3>3. id \in DOMAIN es
      BY <1>9, <3>1, <3>2
    <3> QED BY <1>17, <1>18, <3>2, <3>3
  <2> QED BY <2>1, <2>2 DEF AnyRecording
<1>20. TilesAgree'
  <2>1. grid'.tiles = ts /\ grid'.recTick = grid.recTick
    BY <1>14 DEF ts
  <2>2. grid'.recTick \in BOOLEAN
    BY <1>16, <2>1
  <2>3. grid'.recTick <=> AnyRecording(grid'.tiles)
    BY <1>16, <1>19, <2>1
  <2> QED BY <1>11, <1>12, <1>17, <1>18, <2>1, <2>2, <2>3 DEF TilesAgree
<1> DEFINE order == ListOrder(es)
           rs == [i \in DOMAIN order |-> Row(order[i], order[i], "Idle")]
<1>21. panel' = [configs |-> order, rows |-> rs]
  BY DEF OnChannelList, ListedPanel, es
<1>22. order \in Seq(DOMAIN es)
  BY <1>4, ListOrderHasAll
<1> HIDE DEF order
<1>23. rs \in Seq(RowType) /\ Len(rs) = Len(order) /\ DOMAIN rs = DOMAIN order
  <2>1. ASSUME NEW i \in DOMAIN order PROVE rs[i] \in RowType
    BY <1>4, <1>22 DEF RowType, Row, Label, ConnStates
  <2>2. DOMAIN rs = 1 .. Len(order) /\ Len(order) \in Nat
    BY <1>22
  <2>3. rs \in [1 .. Len(order) -> RowType]
    BY <2>1, <2>2
  <2> HIDE DEF rs
  <2> QED BY <1>22, <2>2, <2>3
<1>24. \A i \in DOMAIN rs : /\ rs[i].id = order[i] /\ rs[i].text = order[i]
                            /\ rs[i].status = "Idle"
  BY DEF Row
<1>25. panel'.configs = order /\ panel'.rows = rs
  BY <1>21
<1> HIDE DEF rs
<1>26. PanelAgrees'
  <2>1. RowsFit'
    BY <1>24, <1>25 DEF RowsFit
  <2> QED BY <1>12, <1>21, <1>23, <1>25, <2>1 DEF PanelAgrees, order
<1>27. DialogTyped'
  <2>1. dialog' = IF Outdates(es) THEN [dialog EXCEPT !.late = TRUE] ELSE dialog
    BY DEF OnChannelList, es
  <2>2. dialog \in DialogType
    BY UiTyped DEF DialogTyped
  <2>3. CASE ~Outdates(es)
    BY <2>1, <2>2, <2>3 DEF DialogTyped
  <2>4. CASE Outdates(es)
    <3>1. dialog.kind \in {"minus", "menu", "tile", "confirm"}
      BY <2>4 DEF Outdates
    <3> QED BY <2>1, <2>2, <2>4, <3>1 DEF DialogType, DialogTyped
  <2> QED BY <2>3, <2>4
<1> QED BY <1>1, <1>7, <1>13, <1>15, <1>20, <1>26, <1>27, UiStep

\* The UI thread.
LEMMA UiKeepsIInv == IInv /\ Ui => IInv'
<1> SUFFICES ASSUME IInv, Ui PROVE IInv'
  OBVIOUS
<1>1. UNCHANGED <<control, tasks>> /\ (OnChannelList \/ OnSnapshot \/ OnRecordingState \/ OnRelayout)
  BY DEF Ui
<1> QED BY <1>1, OnChannelListStep, OnSnapshotStep, OnRecordingStateStep, OnRelayoutStep

-----------------------------------------------------------------------------
(* The user. *)

\* A command takes nothing off the queues.
LEMMA OrderComesPosted ==
    ASSUME IInv, UNCHANGED events, tasks' = tasks \/ \E t : tasks' = Append(tasks, t), OrderComing
    PROVE  OrderComing'
<1>1. \A i \in DOMAIN tasks : i \in DOMAIN tasks' /\ tasks'[i] = tasks[i]
  BY Typed DEF QueuesTyped
<1> QED BY <1>1 DEF OrderComing

\* An input that may post one task and change the widgets.
LEMMA UserStep ==
    ASSUME IInv, UNCHANGED <<control, events>>,
           tasks' = tasks \/ \E t \in TaskType : tasks' = Append(tasks, t),
           Shown' = Shown,
           WindowTyped', TilesAgree', TilesPlaced', PanelAgrees', DialogTyped'
    PROVE  IInv'
<1>1. ControlTyped' /\ Truth' = Truth
  BY Typed DEF ControlTyped, Truth, control
<1>2. QueuesTyped'
  BY Typed DEF QueuesTyped
<1>3. EventsLead'
  BY <1>1, Typed DEF EventsLead
<1> QED BY <1>1, <1>2, <1>3 DEF IInv

\* The panel, when it is not touched.
LEMMA PanelKept ==
    ASSUME IInv, UNCHANGED <<events, panel>>, tasks' = tasks \/ \E t : tasks' = Append(tasks, t),
           Shown' = Shown
    PROVE  PanelAgrees'
<1>1. window'.channels = window.channels /\ window'.streaming = window.streaming
  BY DEF Shown
<1>2. OrderComing => OrderComing'
  BY OrderComesPosted
<1> QED BY <1>1, <1>2, UiTyped DEF PanelAgrees, RowsFit

\* A command: the widgets keep what they show.
LEMMA CommandStep ==
    ASSUME IInv, UNCHANGED <<control, events, window, panel, grid, view>>,
           tasks' = tasks \/ \E t \in TaskType : tasks' = Append(tasks, t),
           DialogTyped'
    PROVE  IInv'
<1>1. Shown' = Shown
  BY DEF Shown
<1>2. WindowTyped' /\ TilesAgree' /\ TilesPlaced'
  BY UiTyped DEF WindowTyped, TilesAgree, TilesPlaced
<1>3. PanelAgrees'
  BY <1>1, PanelKept
<1> QED BY <1>1, <1>2, <1>3, UserStep

\* The menu or dialog, when it is not touched.
LEMMA DialogKept ==
    ASSUME IInv, UNCHANGED dialog
    PROVE  DialogTyped'
  BY UiTyped DEF DialogTyped

\* Nothing is open.
LEMMA NothingOpen == ASSUME dialog' = NoDialog PROVE DialogTyped'
  BY DEF NoDialog, DialogTyped, DialogType

\* Tiles are of channels.
LEMMA TilesTyped ==
    ASSUME IInv
    PROVE  DOMAIN grid.tiles = DOMAIN window.channels /\ DOMAIN grid.tiles \subseteq Ids
  BY UiTyped, ListsAreFunctions DEF TilesAgree, WindowTyped

\* The panel lists channels.
LEMMA ConfigsTyped ==
    ASSUME IInv
    PROVE  /\ panel.configs \in Seq(Ids)
           /\ \A i \in DOMAIN panel.configs : i \in Nat /\ panel.configs[i] \in Ids
<1>1. window.channels \in Lists /\ panel.configs = ListOrder(window.channels)
  BY UiTyped DEF WindowTyped, PanelAgrees
<1>2. /\ panel.configs \in Seq(DOMAIN window.channels)
      /\ DOMAIN window.channels \subseteq Ids
  BY <1>1, ListsAreFunctions, ListOrderHasAll
<1> QED BY <1>2

\* The tasks the window posts.
LEMMA TasksTyped ==
    /\ [kind |-> "add"] \in TaskType
    /\ \A id \in Ids, k \in {"update", "toggle", "capture"} :
          [kind |-> k, id |-> id] \in TaskType
    /\ \A id \in Ids, c \in Nat : [kind |-> "move", id |-> id, cell |-> c] \in TaskType
    /\ \A o \in Seq(Ids) : [kind |-> "reorder", order |-> o] \in TaskType
  BY DEF TaskType

\* A button.
LEMMA PressStep ==
    ASSUME IInv, NEW t \in TaskType, Press(t)
    PROVE  IInv'
<1>1. /\ UNCHANGED <<control, events, window, panel, grid, view, dialog>>
      /\ tasks' = Append(tasks, t)
  BY DEF Press, Post, Stays, ui
<1> QED BY <1>1, DialogKept, CommandStep

\* The buttons and the drop of a tile.
LEMMA ButtonsStep == IInv /\ (PressAdd \/ PressRecord \/ PressSnapshot \/ DropTile) => IInv'
<1> SUFFICES ASSUME IInv, PressAdd \/ PressRecord \/ PressSnapshot \/ DropTile PROVE IInv'
  OBVIOUS
<1>1. CASE PressAdd
  BY <1>1, TasksTyped, PressStep DEF PressAdd
<1>2. CASE PressRecord
  BY <1>2, TilesTyped, TasksTyped, PressStep DEF PressRecord
<1>3. CASE PressSnapshot
  BY <1>3, TilesTyped, TasksTyped, PressStep DEF PressSnapshot
<1>4. CASE DropTile
  <2>1. PICK id \in DOMAIN grid.tiles, cell \in Cells(grid.layout) :
           Press([kind |-> "move", id |-> id, cell |-> cell])
    BY <1>4 DEF DropTile
  <2>2. cell \in Nat
    <3>1. grid.layout.rows \in Nat /\ grid.layout.cols \in Nat
      BY UiTyped DEF TilesPlaced, LayoutType
    <3>2. grid.layout.rows * grid.layout.cols \in Nat
      BY <3>1
    <3> QED BY <3>2 DEF Cells
  <2> QED BY <2>1, <2>2, TilesTyped, TasksTyped, PressStep
<1> QED BY <1>1, <1>2, <1>3, <1>4

\* Another set of tabs, each as the cache has it.
LEMMA TabStep ==
    ASSUME IInv, UNCHANGED <<control, events, tasks, panel, grid, view>>, DialogTyped',
           NEW tabs, window' = [window EXCEPT !.tabs = tabs],
           tabs \in [DOMAIN tabs -> RecState], DOMAIN tabs \subseteq Ids,
           \A id \in DOMAIN tabs : tabs[id] = window.recStates[id]
    PROVE  IInv'
<1>1. window' = [channels |-> window.channels, streaming |-> window.streaming,
                 recStates |-> window.recStates, tabs |-> tabs]
  BY UiTyped DEF WindowTyped
<1>2. Shown' = Shown
  BY <1>1 DEF Shown
<1>3. WindowTyped'
  BY <1>1, UiTyped DEF WindowTyped
<1>4. TilesAgree' /\ TilesPlaced'
  BY <1>1, UiTyped DEF TilesAgree, TilesPlaced
<1>5. PanelAgrees'
  BY <1>2, PanelKept
<1> QED BY <1>2, <1>3, <1>4, <1>5, UserStep

\* openFullscreenTab.
LEMMA TabOpened ==
    ASSUME IInv, UNCHANGED <<control, events, tasks, panel, grid, view>>, DialogTyped',
           NEW id \in Ids, window' = Tabbed(id)
    PROVE  IInv'
<1> DEFINE tabs == IF id \in DOMAIN window.tabs THEN window.tabs
                   ELSE With(window.tabs, id, window.recStates[id])
<1>1. window' = [window EXCEPT !.tabs = tabs]
  BY DEF Tabbed
<1>2. /\ window.tabs \in [DOMAIN window.tabs -> RecState] /\ DOMAIN window.tabs \subseteq Ids
      /\ window.recStates \in [Ids -> RecState]
      /\ \A i \in DOMAIN window.tabs : window.tabs[i] = window.recStates[i]
  BY UiTyped DEF WindowTyped, TilesAgree
<1>3. /\ tabs \in [DOMAIN tabs -> RecState] /\ DOMAIN tabs \subseteq Ids
      /\ \A i \in DOMAIN tabs : tabs[i] = window.recStates[i]
  BY <1>2 DEF With
<1> HIDE DEF tabs
<1> QED BY <1>1, <1>3, TabStep

\* Rows are of channels.
LEMMA RowsTyped ==
    ASSUME IInv
    PROVE  \A i \in DOMAIN panel.rows : panel.rows[i].id \in Ids
<1>1. panel.rows \in Seq(RowType)
  BY UiTyped DEF PanelAgrees
<1>2. \A i \in DOMAIN panel.rows : panel.rows[i] \in RowType
  BY <1>1
<1> QED BY <1>2 DEF RowType

\* Tabs are opened and closed.
LEMMA TabsStep == IInv /\ (DoubleClick \/ CloseTab) => IInv'
<1> SUFFICES ASSUME IInv, DoubleClick \/ CloseTab PROVE IInv'
  OBVIOUS
<1>1. UNCHANGED <<control, events, tasks, panel, grid, view, dialog>>
  BY DEF DoubleClick, CloseTab, Stays
<1>2. DialogTyped'
  BY <1>1, DialogKept
<1>3. CASE DoubleClick
  <2>1. PICK id \in DOMAIN grid.tiles \cup {panel.rows[i].id : i \in DOMAIN panel.rows} :
           window' = Tabbed(id)
    BY <1>3 DEF DoubleClick
  <2>2. id \in Ids
    BY TilesTyped, RowsTyped
  <2> QED BY <1>1, <1>2, <2>1, <2>2, TabOpened
<1>4. CASE CloseTab
  <2>1. PICK id \in DOMAIN window.tabs : window' = [window EXCEPT !.tabs = Without(@, id)]
    BY <1>4 DEF CloseTab
  <2> DEFINE tabs == Without(window.tabs, id)
  <2>2. window' = [window EXCEPT !.tabs = tabs]
    BY <2>1
  <2>3. /\ tabs \in [DOMAIN tabs -> RecState] /\ DOMAIN tabs \subseteq Ids
        /\ \A i \in DOMAIN tabs : tabs[i] = window.recStates[i]
    BY UiTyped DEF WindowTyped, TilesAgree, Without
  <2> HIDE DEF tabs
  <2> QED BY <1>1, <1>2, <2>2, <2>3, TabStep
<1> QED BY <1>3, <1>4

\* A row that is dragged leaves as many.
LEMMA DraggedTyped ==
    ASSUME NEW S, NEW rows \in Seq(S), NEW i \in DOMAIN rows, NEW j \in DOMAIN rows
    PROVE  Dragged(rows, i, j) \in Seq(S) /\ Len(Dragged(rows, i, j)) = Len(rows)
<1> DEFINE r == RemoveAt(rows, i)
<1>1. r = SubSeq(rows, 1, i - 1) \o SubSeq(rows, i + 1, Len(rows))
  BY DEF RemoveAt
<1>2. /\ r \in Seq(S)
      /\ Len(r) = Len(rows) - 1
      /\ i \in 1 .. Len(rows)
      /\ j \in 1 .. Len(r) + 1
      /\ rows[i] \in S
  <2>1. i \in 1 .. Len(rows) /\ j \in 1 .. Len(rows) /\ rows[i] \in S
    OBVIOUS
  <2>2. SubSeq(rows, 1, i - 1) \in Seq(S) /\ Len(SubSeq(rows, 1, i - 1)) = i - 1
    BY <2>1
  <2>3. SubSeq(rows, i + 1, Len(rows)) \in Seq(S)
        /\ Len(SubSeq(rows, i + 1, Len(rows))) = Len(rows) - i
    BY <2>1
  <2>4. r \in Seq(S) /\ Len(r) = Len(rows) - 1
    <3> HIDE DEF r
    <3>1. \A a, b \in Seq(S) : a \o b \in Seq(S) /\ Len(a \o b) = Len(a) + Len(b)
      OBVIOUS
    <3>2. r \in Seq(S)
      BY <1>1, <2>2, <2>3, <3>1
    <3>3. Len(r) = (i - 1) + (Len(rows) - i)
      BY <1>1, <2>2, <2>3, <3>1
    <3> QED BY <2>1, <3>2, <3>3
  <2> QED BY <2>1, <2>4
<1> HIDE DEF r
<1>3. InsertAt(r, j, rows[i]) = SubSeq(r, 1, j - 1) \o <<rows[i]>> \o SubSeq(r, j, Len(r))
  BY DEF InsertAt
<1>4. SubSeq(r, 1, j - 1) \in Seq(S) /\ Len(SubSeq(r, 1, j - 1)) = j - 1
  BY <1>2
<1>5. SubSeq(r, j, Len(r)) \in Seq(S) /\ Len(SubSeq(r, j, Len(r))) = Len(r) - j + 1
  BY <1>2
<1>6. InsertAt(r, j, rows[i]) \in Seq(S) /\ Len(InsertAt(r, j, rows[i])) = Len(r) + 1
  BY <1>2, <1>3, <1>4, <1>5
<1> QED BY <1>2, <1>6 DEF Dragged, r

\* The rows are dragged before m_configs: an order is on the way.
LEMMA DropRowStep == IInv /\ DropRow => IInv'
<1> SUFFICES ASSUME IInv, DropRow PROVE IInv'
  OBVIOUS
<1>1. PICK i \in DOMAIN panel.rows, j \in DOMAIN panel.rows :
          /\ panel' = [panel EXCEPT !.rows = Dragged(@, i, j)]
          /\ Post([kind |-> "reorder", order |-> [k \in DOMAIN panel'.rows |-> panel'.rows[k].id]])
  BY DEF DropRow
<1>2. UNCHANGED <<control, events, window, grid, view, dialog>>
  BY DEF DropRow, Stays
<1> DEFINE rs == Dragged(panel.rows, i, j)
           order == [k \in DOMAIN rs |-> rs[k].id]
           t == [kind |-> "reorder", order |-> order]
<1>3. panel.rows \in Seq(RowType) /\ Len(panel.rows) = Len(panel.configs)
      /\ panel = [configs |-> panel.configs, rows |-> panel.rows]
      /\ panel.configs = ListOrder(window.channels)
  BY UiTyped DEF PanelAgrees
<1>4. rs \in Seq(RowType) /\ Len(rs) = Len(panel.rows)
  BY <1>3, DraggedTyped
<1>5. panel' = [configs |-> panel.configs, rows |-> rs]
  BY <1>1, <1>3
<1> HIDE DEF rs
<1>6. panel'.rows = rs /\ panel'.configs = panel.configs
  BY <1>5
<1>7. order \in Seq(Ids)
  <2>1. \A k \in DOMAIN rs : rs[k] \in RowType
    BY <1>4
  <2>2. \A k \in DOMAIN rs : order[k] \in Ids
    BY <2>1 DEF RowType
  <2>3. DOMAIN rs = 1 .. Len(rs) /\ Len(rs) \in Nat
    BY <1>4
  <2>4. order \in [1 .. Len(rs) -> Ids]
    BY <2>2, <2>3
  <2> HIDE DEF order
  <2> QED BY <2>3, <2>4
<1>8. tasks' = Append(tasks, t)
  BY <1>1, <1>6 DEF Post
<1> HIDE DEF order
<1>9. t \in TaskType
  BY <1>7, TasksTyped
<1>10. OrderComing'
  <2>1. Len(tasks) + 1 \in DOMAIN tasks' /\ tasks'[Len(tasks) + 1] = t
    BY <1>8, Typed DEF QueuesTyped
  <2> QED BY <2>1 DEF OrderComing
<1>11. PanelAgrees'
  BY <1>2, <1>3, <1>4, <1>5, <1>6, <1>10 DEF PanelAgrees
<1>12. DialogTyped'
  BY <1>2, DialogKept
<1>13. Shown' = Shown /\ WindowTyped' /\ TilesAgree' /\ TilesPlaced'
  BY <1>2, UiTyped DEF Shown, WindowTyped, TilesAgree, TilesPlaced
<1> HIDE DEF t
<1> QED BY <1>2, <1>8, <1>9, <1>11, <1>12, <1>13, UserStep

\* A column button rebuilds the grid.
LEMMA PressColumnsStep == IInv /\ PressColumns => IInv'
<1> SUFFICES ASSUME IInv, PressColumns PROVE IInv'
  OBVIOUS
<1>1. PICK n \in ColumnChoices : grid' = Rebuilt(window.channels, n)
  BY DEF PressColumns
<1>2. UNCHANGED <<control, events, tasks, window, panel, view, dialog>>
  BY DEF PressColumns, Stays
<1>3. n \in Column
  BY ShellAssumption DEF Column
<1> DEFINE ts == TilesOf(window.channels)
<1>4. window.channels \in Lists /\ TilesPlaced
  BY UiTyped DEF WindowTyped
<1>5. /\ GridType(grid') /\ grid'.tiles = ts /\ grid'.recTick = grid.recTick
      /\ grid'.configs = PlacesOf(window.channels) /\ grid'.place = PlacesOf(window.channels)
      /\ grid'.layout \in LayoutType
      /\ \A id \in DOMAIN window.channels : window.channels[id].grid \in Cells(grid'.layout)
  BY <1>1, <1>3, <1>4, RebuiltPlacesAll
<1>6. TilesPlaced'
  BY <1>2, <1>4, <1>5 DEF TilesPlaced, GridType
<1>7. /\ grid.tiles \in [DOMAIN window.channels -> Tile]
      /\ \A id \in DOMAIN window.channels : grid.tiles[id].rec = window.recStates[id]
      /\ grid.recTick \in BOOLEAN
      /\ grid.recTick <=> AnyRecording(grid.tiles)
  BY UiTyped DEF TilesAgree
<1>8. ASSUME NEW id \in DOMAIN window.channels
      PROVE  ts[id] \in Tile /\ ts[id].rec = grid.tiles[id].rec /\ ts[id].label = "NameOnly"
  <2>1. ts[id] = [grid.tiles[id] EXCEPT !.label = "NameOnly"]
    BY <1>7 DEF TilesOf, TileOf, Relabelled
  <2> QED BY <1>7, <2>1 DEF Tile, Label
<1>9. DOMAIN ts = DOMAIN window.channels /\ ts \in [DOMAIN window.channels -> Tile]
  <2>1. /\ DOMAIN ts = DOMAIN window.channels
        /\ ts = [id \in DOMAIN window.channels |-> ts[id]]
    BY DEF TilesOf
  <2> HIDE DEF ts
  <2> QED BY <1>8, <2>1
<1> HIDE DEF ts
<1>10. AnyRecording(ts) <=> AnyRecording(grid.tiles)
  BY <1>7, <1>8, <1>9 DEF AnyRecording
<1>11. TilesAgree'
  <2>1. grid'.recTick \in BOOLEAN
    BY <1>5, <1>7
  <2>2. grid'.recTick <=> AnyRecording(grid'.tiles)
    BY <1>5, <1>7, <1>10
  <2> QED BY <1>2, <1>5, <1>7, <1>8, <1>9, <2>1, <2>2, UiTyped DEF TilesAgree
<1>12. Shown' = Shown /\ WindowTyped'
  BY <1>2, UiTyped DEF Shown, WindowTyped
<1>13. PanelAgrees' /\ DialogTyped'
  BY <1>2, <1>12, PanelKept, DialogKept
<1> QED BY <1>2, <1>6, <1>11, <1>12, <1>13, UserStep

\* A resize: the tiles stay where they are.
LEMMA ResizeStep == IInv /\ Resize => IInv'
<1> SUFFICES ASSUME IInv, Resize PROVE IInv'
  OBVIOUS
<1>1. /\ UNCHANGED <<control, events, tasks, window, panel, dialog>>
      /\ view' \in Views /\ grid' = [grid EXCEPT !.queued = TRUE]
  BY DEF Resize, Stays
<1>2. grid' = [tiles |-> grid.tiles, configs |-> grid.configs, columns |-> grid.columns,
               layout |-> grid.layout, place |-> grid.place, recTick |-> grid.recTick,
               queued |-> TRUE]
  <2>1. ASSUME NEW q
        PROVE  [grid EXCEPT !.queued = q] =
          [tiles |-> grid.tiles, configs |-> grid.configs, columns |-> grid.columns,
           layout |-> grid.layout, place |-> grid.place, recTick |-> grid.recTick, queued |-> q]
    BY UiTyped DEF TilesPlaced
  <2> QED BY <1>1, <2>1
<1>3. TilesPlaced'
  BY <1>1, <1>2, UiTyped DEF TilesPlaced
<1>4. TilesAgree'
  BY <1>1, <1>2, UiTyped DEF TilesAgree
<1>5. Shown' = Shown /\ WindowTyped'
  BY <1>1, UiTyped DEF Shown, WindowTyped
<1>6. PanelAgrees' /\ DialogTyped'
  BY <1>1, <1>5, PanelKept, DialogKept
<1> QED BY <1>1, <1>3, <1>4, <1>5, <1>6, UserStep

\* A menu or a dialog is opened, or closed with nothing done.
LEMMA OpenStep ==
    ASSUME IInv, NEW d, Open(d), DialogTyped'
    PROVE  IInv'
<1>1. UNCHANGED <<control, events, tasks, window, panel, grid, view>>
  BY DEF Open, Stays
<1> QED BY <1>1, CommandStep

\* A menu or the dialog of the "-" button opens.
LEMMA MenusStep == IInv /\ (PressMinus \/ OpenListMenu \/ OpenTileMenu \/ Cancel) => IInv'
<1> SUFFICES ASSUME IInv, PressMinus \/ OpenListMenu \/ OpenTileMenu \/ Cancel PROVE IInv'
  OBVIOUS
<1>1. CASE PressMinus
  <2>1. PICK row \in DOMAIN panel.configs :
           Open([kind |-> "minus", row |-> row, shown |-> panel.configs[row], late |-> FALSE])
    BY <1>1 DEF PressMinus
  <2>2. /\ dialog' = [kind |-> "minus", row |-> row, shown |-> panel.configs[row], late |-> FALSE]
        /\ panel' = panel
    BY <2>1 DEF Open
  <2>3. row \in Nat /\ panel.configs[row] \in Ids
    BY ConfigsTyped
  <2>4. dialog' \in DialogType
    BY <2>2, <2>3 DEF DialogType
  <2>5. DialogTyped'
    BY <2>2, <2>4 DEF DialogTyped
  <2> QED BY <2>1, <2>5, OpenStep
<1>2. CASE OpenListMenu
  <2>1. PICK row \in DOMAIN panel.configs :
           Open([kind |-> "menu", row |-> row, id |-> panel.configs[row], late |-> FALSE])
    BY <1>2 DEF OpenListMenu
  <2>2. /\ dialog' = [kind |-> "menu", row |-> row, id |-> panel.configs[row], late |-> FALSE]
        /\ panel' = panel
    BY <2>1 DEF Open
  <2>3. row \in Nat /\ panel.configs[row] \in Ids
    BY ConfigsTyped
  <2>4. dialog' \in DialogType
    BY <2>2, <2>3 DEF DialogType
  <2>5. DialogTyped'
    BY <2>2, <2>4 DEF DialogTyped
  <2> QED BY <2>1, <2>5, OpenStep
<1>3. CASE OpenTileMenu
  <2>1. PICK id \in DOMAIN grid.tiles : Open([kind |-> "tile", row |-> 0, id |-> id, late |-> FALSE])
    BY <1>3 DEF OpenTileMenu
  <2>2. dialog' = [kind |-> "tile", row |-> 0, id |-> id, late |-> FALSE]
    BY <2>1 DEF Open
  <2>3. dialog' \in DialogType
    BY <2>2, TilesTyped DEF DialogType
  <2>4. DialogTyped'
    BY <2>2, <2>3 DEF DialogTyped
  <2> QED BY <2>1, <2>4, OpenStep
<1>4. CASE Cancel
  <2>1. Open(NoDialog) /\ dialog' = NoDialog
    BY <1>4 DEF Cancel, Open
  <2> QED BY <2>1, NothingOpen, OpenStep
<1> QED BY <1>1, <1>2, <1>3, <1>4

\* What an open dialog has, by kind.
LEMMA DialogFields ==
    ASSUME IInv
    PROVE  /\ dialog \in DialogType
           /\ dialog.kind \in {"menu", "tile", "edit", "confirm"} => dialog.id \in Ids
           /\ dialog.kind \in {"minus", "menu", "tile", "confirm"} => dialog.late \in BOOLEAN
           /\ dialog.kind \in {"minus", "confirm"} => dialog.shown \in Ids
           /\ dialog.kind \in {"minus", "menu"} => dialog.row \in Nat
<1>1. dialog \in DialogType
  BY UiTyped DEF DialogTyped
<1> QED BY <1>1 DEF DialogType

\* What is found at a row is an id.
LEMMA ConfigAtTyped == ASSUME IInv, NEW row PROVE ConfigAt(row) \subseteq Ids
  BY ConfigsTyped DEF ConfigAt

\* A menu leads to a dialog.
LEMMA ChooseDialogStep == IInv /\ (ChooseEdit \/ ChooseRemove) => IInv'
<1> SUFFICES ASSUME IInv, ChooseEdit \/ ChooseRemove PROVE IInv'
  OBVIOUS
<1>1. CASE ChooseEdit
  <2>1. Open([kind |-> "edit", id |-> dialog.id]) /\ dialog.id \in Ids
    BY <1>1, DialogFields DEF ChooseEdit
  <2>2. dialog' = [kind |-> "edit", id |-> dialog.id]
    BY <2>1 DEF Open
  <2>3. dialog' \in DialogType
    BY <2>1, <2>2 DEF DialogType
  <2>4. DialogTyped'
    BY <2>2, <2>3 DEF DialogTyped
  <2> QED BY <2>1, <2>4, OpenStep
<1>2. ASSUME NEW shown, dialog.kind = "menu", shown \in ConfigAt(dialog.row),
             Open(Confirm(dialog.id, dialog.row, shown, dialog.late))
      PROVE  IInv'
  <2>1. dialog' = [kind |-> "confirm", id |-> dialog.id, row |-> dialog.row, shown |-> shown,
                   late |-> dialog.late]
    BY <1>2 DEF Open, Confirm
  <2>2. dialog' \in DialogType
    BY <1>2, <2>1, DialogFields, ConfigAtTyped DEF DialogType
  <2>4. DialogTyped'
    BY <2>2 DEF DialogTyped
  <2> QED BY <1>2, <2>4, OpenStep
<1>3. CASE dialog.kind = "tile" /\ Open(Confirm(dialog.id, 0, dialog.id, dialog.late))
  <2>1. dialog' = [kind |-> "confirm", id |-> dialog.id, row |-> 0, shown |-> dialog.id,
                   late |-> dialog.late]
    BY <1>3 DEF Open, Confirm
  <2>2. dialog' \in DialogType
    BY <1>3, <2>1, DialogFields DEF DialogType
  <2>3. DialogTyped'
    BY <2>1, <2>2 DEF DialogTyped
  <2> QED BY <1>3, <2>3, OpenStep
<1> QED BY <1>1, <1>2, <1>3 DEF ChooseRemove

\* A menu opens a tab.
LEMMA ChooseTabStep == IInv /\ ChooseTab => IInv'
<1> SUFFICES ASSUME IInv, ChooseTab PROVE IInv'
  OBVIOUS
<1>1. /\ UNCHANGED <<control, events, tasks, panel, grid, view>> /\ dialog' = NoDialog
      /\ window' = Tabbed(dialog.id) /\ dialog.id \in Ids
  BY DialogFields DEF ChooseTab, Close, Stays
<1> QED BY <1>1, NothingOpen, TabOpened

\* A choice that posts its task and closes what was open.
LEMMA ChoiceStep ==
    ASSUME IInv, NEW t \in TaskType, Post(t), Close, Stays, UNCHANGED window
    PROVE  IInv'
<1>1. UNCHANGED <<control, events, window, panel, grid, view>> /\ dialog' = NoDialog
      /\ tasks' = Append(tasks, t)
  BY DEF Post, Close, Stays
<1> QED BY <1>1, NothingOpen, CommandStep

\* A menu or a dialog posts its task.
LEMMA ChoicesStep == IInv /\ (ChooseOfTile \/ Accept \/ SayYes) => IInv'
<1> SUFFICES ASSUME IInv, ChooseOfTile \/ Accept \/ SayYes PROVE IInv'
  OBVIOUS
<1>1. CASE ChooseOfTile
  <2>1. PICK kind \in {"toggle", "capture"} : Post([kind |-> kind, id |-> dialog.id])
    BY <1>1 DEF ChooseOfTile
  <2>2. dialog.id \in Ids
    BY <1>1, DialogFields DEF ChooseOfTile
  <2>3. Close /\ Stays /\ UNCHANGED window
    BY <1>1 DEF ChooseOfTile
  <2> QED BY <2>1, <2>2, <2>3, TasksTyped, ChoiceStep
<1>2. CASE Accept
  <2>1. /\ Post([kind |-> "update", id |-> dialog.id])
        /\ Close
        /\ Stays
        /\ UNCHANGED window
    BY <1>2 DEF Accept
  <2>2. dialog.id \in Ids
    BY <1>2, DialogFields DEF Accept
  <2> QED BY <2>1, <2>2, TasksTyped, ChoiceStep
<1>3. CASE SayYes
  <2>1. Close /\ Stays /\ UNCHANGED window
    BY <1>3 DEF SayYes
  <2>2. dialog.shown \in Ids /\ dialog.late \in BOOLEAN
    BY <1>3, DialogFields DEF SayYes
  <2>3. PICK id \in Removed : Post(RemoveTask(id))
    BY <1>3 DEF SayYes
  <2>4. id \in Ids
    BY <1>3, <2>3, DialogFields, ConfigAtTyped DEF SayYes, Removed
  <2>5. RemoveTask(id) \in TaskType
    BY <2>2, <2>4 DEF RemoveTask, TaskType
  <2> QED BY <2>1, <2>3, <2>5, ChoiceStep
<1> QED BY <1>1, <1>2, <1>3

\* The user.
LEMMA UserKeepsIInv == IInv /\ User => IInv'
  BY ButtonsStep, DropRowStep, TabsStep, PressColumnsStep, ResizeStep, MenusStep,
     ChooseTabStep,
     ChoicesStep, ChooseDialogStep DEF User

-----------------------------------------------------------------------------
(* The theorems. *)

\* A function that is empty.
LEMMA EmptyFunction ==
    /\ DOMAIN << >> = {}
    /\ \A S : << >> \in [{} -> S]
    /\ \A f : f = [x \in {} |-> f[x]] => f = << >>
<1>1. DOMAIN << >> = {}
  OBVIOUS
<1>2. \A S : << >> \in [{} -> S]
  OBVIOUS
<1>3. ASSUME NEW f, f = [x \in {} |-> f[x]] PROVE f = << >>
  BY <1>3
<1> QED BY <1>1, <1>2, <1>3

\* An empty list.
LEMMA OrderOfNone == ListOrder(<< >>) = << >>
<1>1. DOMAIN << >> = {} /\ Cardinality({}) = 0
  BY FS_EmptySet
<1> QED BY <1>1 DEF ListOrder

\* The list of the empty window.
LEMMA EmptyIsList == << >> \in Lists
  BY EmptyFunction DEF Lists

\* The list that is restored.
LEMMA FirstIsList == FirstChannels \in Lists
  BY ShellAssumption DEF Lists, Place

\* The list of restore is on the way to an empty window.
LEMMA InitIInv == Init => IInv
<1> SUFFICES ASSUME Init PROVE IInv
  OBVIOUS
<1>1. /\ DOMAIN FirstChannels \subseteq Ids
      /\ FirstChannels \in [DOMAIN FirstChannels -> Place]
  BY FirstIsList, ListsAreFunctions
<1>2. entries = FirstChannels /\ entries \in Lists
  BY FirstIsList DEF Init
<1>3. ControlTyped
  BY <1>2 DEF Init, ControlTyped, ConnStates, RecState
<1>4. ListEvent(FirstChannels) \in EventType
  BY FirstIsList, EventsTyped
<1>5. QueuesTyped
  BY <1>4 DEF Init, QueuesTyped
<1>6. WindowTyped
  BY EmptyFunction, EmptyIsList DEF Init, WindowTyped, RecState
<1>7. TilesAgree
  BY EmptyFunction DEF Init, TilesAgree, AnyRecording
<1>8. TilesPlaced
  <2>1. PlacesOf(<< >>) = << >>
    BY EmptyFunction DEF PlacesOf
  <2>2. NoLayout \in LayoutType
    BY DEF NoLayout, LayoutType
  <2> QED BY <2>1, <2>2, EmptyFunction DEF Init, TilesPlaced, Column
<1>9. PanelAgrees
  BY OrderOfNone, EmptyFunction DEF Init, PanelAgrees, RowsFit
<1>10. DialogTyped
  BY DEF Init, DialogTyped, DialogType, NoDialog
<1>12. EventsLead
  <2> DEFINE e == ListEvent(FirstChannels)
  <2>1. Shown = [channels |-> << >>, streaming |-> << >>, recs |-> [id \in Ids |-> "Idle"]]
    BY DEF Init, Shown
  <2>2. [id \in Ids |-> "Idle"] \in [Ids -> RecState]
    BY DEF RecState
  <2>3. Shown \in ViewType
    <3> DEFINE rs == [id \in Ids |-> "Idle"]
    <3>1. rs \in [Ids -> RecState] /\ \A id \in Ids : rs[id] = "Idle"
      BY <2>2
    <3>2. Shown = [channels |-> << >>, streaming |-> << >>, recs |-> rs]
      BY <2>1
    <3> HIDE DEF rs
    <3> QED BY <3>1, <3>2, EmptyFunction, EmptyIsList, ViewBuilt
  <2>4. Linked(Shown, << >>, Shown)
    <3> DEFINE h == [i \in 1 .. 1 |-> Shown]
    <3>1. /\ h \in [1 .. Len(<< >>) + 1 -> ViewType]
          /\ h[1] = Shown
          /\ h[Len(<< >>) + 1] = Shown
      BY <2>3
    <3>2. \A i \in 1 .. Len(<< >>) : h[i + 1] = After(h[i], << >>[i])
      OBVIOUS
    <3> HIDE DEF h
    <3> QED BY <3>1, <3>2 DEF Linked
  <2>5. After(Shown, e) =
          [channels |-> FirstChannels, streaming |-> Kept(Shown, FirstChannels), recs |-> rec]
    BY <2>1, <2>3, FirstIsList, AfterList DEF Init
  <2>6. After(Shown, e) \in ViewType
    BY <2>1, <2>3, FirstIsList, AfterList
  <2>7. Truth = After(Shown, e)
    <3>1. Kept(Shown, FirstChannels) = [id \in DOMAIN FirstChannels |-> FALSE]
      BY <2>1, EmptyFunction DEF Kept
    <3>2. [id \in DOMAIN entries |-> conn[id] = "Streaming"] = [id \in DOMAIN FirstChannels |-> FALSE]
      BY DEF Init
    <3> QED BY <1>2, <2>5, <3>1, <3>2 DEF Truth
  <2>8. Linked(Shown, << >> \o <<e>>, After(Shown, e))
    <3>1. << >> \in Seq(EventType) /\ e \in EventType
      BY <1>4
    <3> HIDE DEF e
    <3> QED BY <2>4, <2>6, <3>1, PublishOne
  <2>9. << >> \o <<e>> = <<e>> /\ events = <<e>>
    BY DEF Init
  <2> HIDE DEF e
  <2> QED BY <2>7, <2>8, <2>9 DEF EventsLead
<1> QED BY <1>3, <1>5, <1>6, <1>7, <1>8, <1>9, <1>10, <1>12 DEF IInv

\* Every step keeps the invariant.
LEMMA StepIInv == IInv /\ [Next]_vars => IInv'
<1> SUFFICES ASSUME IInv, [Next]_vars PROVE IInv'
  OBVIOUS
<1>1. CASE Control
  BY <1>1, ControlKeepsIInv
<1>2. CASE ConnectionChanges
  BY <1>2, ConnectionChangesStep
<1>3. CASE RecordingChanges
  BY <1>3, RecordingChangesStep
<1>4. CASE Ui
  BY <1>4, UiKeepsIInv
<1>5. CASE User
  BY <1>5, UserKeepsIInv
<1>6. CASE UNCHANGED vars
  BY <1>6 DEF vars, control, ui, IInv, ControlTyped, QueuesTyped, WindowTyped,
         TilesAgree,
     TilesPlaced, PanelAgrees, RowsFit, OrderComing, DialogTyped, EventsLead, Shown,
     Truth
<1> QED BY <1>1, <1>2, <1>3, <1>4, <1>5, <1>6 DEF Next

\* The inductive invariant holds in every state of the program.
THEOREM Invariance == Spec => []IInv
<1> QED BY InitIInv, StepIInv, PTL DEF Spec

-----------------------------------------------------------------------------
(* What is said of a connection.  A snapshot that is on the way may be out *)
(* of date, the last one of a channel is not (LastWord): so when none is,  *)
(* the tile and the row have the state they were told, or were made anew   *)
(* by a list meanwhile: then the tile shows none, and the row "Idle".      *)

Tells(e, id) == e.kind = "snapshot" /\ e.id = id
Silent(es, id) == \A i \in DOMAIN es : ~Tells(es[i], id)
EndsWith(es, id, s) ==
    \A i \in DOMAIN es :
        Tells(es[i], id) /\ (\A j \in DOMAIN es : j > i => ~Tells(es[j], id)) => es[i].state = s

LastWord == \A id \in DOMAIN entries : EndsWith(events, id, conn[id])

TilesTrue ==
    \A id \in DOMAIN entries \cap DOMAIN window.channels :
        Silent(events, id) => grid.tiles[id].label \in {"NameOnly", conn[id]}

RowTrue(i) ==
    LET id == panel.configs[i]
    IN id \in DOMAIN entries /\ Silent(events, id) =>
          \/ panel.rows[i].status = conn[id]
          \/ panel.rows[i].status = "Idle" /\ grid.tiles[id].label = "NameOnly"
RowsTrue == ~OrderComing => \A i \in DOMAIN panel.rows : RowTrue(i)

ToldInv == LastWord /\ TilesTrue /\ RowsTrue

\* What the events es, when they are published, say of the connections there
\* are then: the last is true of a channel, or there is none and no change.
Told(es) ==
    \A id \in DOMAIN entries' :
        \/ ~Silent(es, id) /\ EndsWith(es, id, conn'[id])
        \/ Silent(es, id) /\ id \in DOMAIN entries /\ conn'[id] = conn[id]

\* The events that tell of a channel.
LEMMA TellsOf ==
    /\ \A es, id : ~Tells(ListEvent(es), id)
    /\ \A j, s, id : Tells(SnapshotEvent(j, s), id) <=> j = id
    /\ \A j, s, id : ~Tells(RecordingEvent(j, s), id)
    /\ \A j, s : SnapshotEvent(j, s).state = s
  BY DEF Tells, ListEvent, SnapshotEvent, RecordingEvent

\* Two sequences, one after the other.
LEMMA SilentBoth ==
    ASSUME NEW S, NEW a \in Seq(S), NEW b \in Seq(S), NEW id
    PROVE  Silent(a \o b, id) <=> Silent(a, id) /\ Silent(b, id)
<1>1. ASSUME Silent(a, id), Silent(b, id), NEW i \in DOMAIN (a \o b) PROVE ~Tells((a \o b)[i], id)
  <2>1. CASE i <= Len(a)
    <3>1. i \in DOMAIN a /\ (a \o b)[i] = a[i]
      BY <2>1
    <3> QED BY <1>1, <3>1 DEF Silent
  <2>2. CASE i > Len(a)
    <3>1. i - Len(a) \in DOMAIN b /\ (a \o b)[i] = b[i - Len(a)]
      BY <2>2
    <3> QED BY <1>1, <3>1 DEF Silent
  <2> QED BY <2>1, <2>2
<1>2. ASSUME Silent(a \o b, id), NEW i \in DOMAIN a PROVE ~Tells(a[i], id)
  <2>1. i \in DOMAIN (a \o b) /\ (a \o b)[i] = a[i]
    OBVIOUS
  <2> QED BY <1>2, <2>1 DEF Silent
<1>3. ASSUME Silent(a \o b, id), NEW i \in DOMAIN b PROVE ~Tells(b[i], id)
  <2>1. Len(a) + i \in DOMAIN (a \o b) /\ (a \o b)[Len(a) + i] = b[i]
    OBVIOUS
  <2> QED BY <1>3, <2>1 DEF Silent
<1> QED BY <1>1, <1>2, <1>3 DEF Silent

\* The last word of two sequences is that of the second, if it has one.
LEMMA EndsWithLast ==
    ASSUME NEW S, NEW a \in Seq(S), NEW b \in Seq(S), NEW id, NEW s,
           \/ EndsWith(b, id, s) /\ ~Silent(b, id)
           \/ EndsWith(a, id, s) /\ Silent(b, id)
    PROVE  EndsWith(a \o b, id, s)
<1> DEFINE c == a \o b
<1> SUFFICES ASSUME NEW i \in DOMAIN c, Tells(c[i], id),
                    \A j \in DOMAIN c : j > i => ~Tells(c[j], id)
             PROVE  c[i].state = s
  BY DEF EndsWith
<1>1. /\ \A k \in DOMAIN a : k \in DOMAIN c /\ c[k] = a[k]
      /\ \A k \in DOMAIN b : Len(a) + k \in DOMAIN c /\ c[Len(a) + k] = b[k]
  OBVIOUS
<1>2. CASE i <= Len(a)
  <2>1. i \in DOMAIN a /\ c[i] = a[i]
    BY <1>2
  <2>2. Silent(b, id)
    <3>1. ASSUME NEW k \in DOMAIN b PROVE ~Tells(b[k], id)
      <4>1. Len(a) + k > i
        BY <1>2
      <4> HIDE DEF c
      <4> QED BY <1>1, <4>1
    <3> QED BY <3>1 DEF Silent
  <2>3. \A j \in DOMAIN a : j > i => ~Tells(a[j], id)
    <3> HIDE DEF c
    <3> QED BY <1>1
  <2> HIDE DEF c
  <2> QED BY <2>1, <2>2, <2>3 DEF EndsWith
<1>3. CASE i > Len(a)
  <2>1. i - Len(a) \in DOMAIN b /\ c[i] = b[i - Len(a)] /\ i \in Int
    BY <1>3
  <2>2. \A j \in DOMAIN b : j > i - Len(a) => ~Tells(b[j], id)
    <3>1. \A j \in DOMAIN b : j > i - Len(a) => Len(a) + j > i
      BY <2>1
    <3> HIDE DEF c
    <3> QED BY <1>1, <3>1
  <2>3. ~Silent(b, id)
    <3> HIDE DEF c
    <3> QED BY <2>1 DEF Silent
  <2> HIDE DEF c
  <2> QED BY <2>1, <2>2, <2>3 DEF EndsWith
<1> QED BY <1>2, <1>3

\* A publication that says what holds.
LEMMA Publication ==
    ASSUME IInv, ToldInv, UNCHANGED ui, NEW es \in Seq(EventType), events' = events \o es,
           Told(es), OrderComing => OrderComing'
    PROVE  ToldInv'
<1>1. UNCHANGED <<window, panel, grid>> /\ events \in Seq(EventType)
  BY Typed DEF ui, QueuesTyped
<1>2. ASSUME NEW id \in DOMAIN entries' PROVE EndsWith(events', id, conn'[id])
  <2>1. CASE ~Silent(es, id)
    <3>1. EndsWith(es, id, conn'[id])
      BY <2>1 DEF Told
    <3> QED BY <1>1, <2>1, <3>1, EndsWithLast
  <2>2. CASE Silent(es, id)
    <3>1. id \in DOMAIN entries /\ conn'[id] = conn[id]
      BY <2>2 DEF Told
    <3>2. EndsWith(events, id, conn'[id])
      BY <3>1 DEF ToldInv, LastWord
    <3> QED BY <1>1, <2>2, <3>2, EndsWithLast
  <2> QED BY <2>1, <2>2
<1>3. ASSUME NEW id \in DOMAIN entries', Silent(events', id)
      PROVE  id \in DOMAIN entries /\ conn'[id] = conn[id] /\ Silent(events, id)
  <2>1. Silent(events, id) /\ Silent(es, id)
    BY <1>1, <1>3, SilentBoth
  <2> QED BY <2>1 DEF Told
<1>4. TilesTrue'
  BY <1>1, <1>3 DEF ToldInv, TilesTrue
<1>5. RowsTrue'
  BY <1>1, <1>3 DEF ToldInv, RowsTrue, RowTrue
<1> QED BY <1>2, <1>4, <1>5 DEF ToldInv, LastWord

\* What each task says.
LEMMA TasksTell ==
    ASSUME IInv, Control
    PROVE  \E es \in Seq(EventType) :
              /\ events' = events \o es /\ Told(es)
              /\ Head(tasks).kind = "reorder" => \E i \in DOMAIN es : es[i].kind = "list"
<1> DEFINE id == Task.id
           Says(es) == /\ events' = events \o es /\ Told(es)
                       /\ Head(tasks).kind = "reorder" => \E i \in DOMAIN es : es[i].kind = "list"
<1> SUFFICES \E es \in Seq(EventType) : Says(es)
  OBVIOUS
<1>0. ControlTyped /\ ControlTyped' /\ events \in Seq(EventType)
  BY ControlKeepsIInv, Typed DEF IInv, QueuesTyped
<1>1. /\ entries' \in Lists
      /\ conn \in [DOMAIN entries -> ConnStates] /\ DOMAIN entries \subseteq Ids
      /\ rec \in [Ids -> RecState] /\ rec' \in [Ids -> RecState]
  BY <1>0, ListsAreFunctions DEF ControlTyped
<1>2. ListEvent(entries') \in EventType /\ ListEvent(entries').kind = "list"
  BY <1>1, EventsTyped DEF ListEvent
<1>3. ASSUME Ignored, Head(tasks).kind # "reorder" PROVE \E es \in Seq(EventType) : Says(es)
  <2>1. UNCHANGED <<entries, conn, events>>
    BY <1>3 DEF Ignored, control
  <2>2. << >> \in Seq(EventType) /\ Says(<< >>)
    BY <1>0, <1>3, <2>1 DEF Told, Silent
  <2> QED BY <2>2
<1>4. ASSUME UNCHANGED conn, DOMAIN entries' = DOMAIN entries, Publish(<<ListEvent(entries')>>)
      PROVE  \E es \in Seq(EventType) : Says(es)
  <2> DEFINE es == <<ListEvent(entries')>>
  <2>1. es \in Seq(EventType) /\ DOMAIN es = {1} /\ es[1] = ListEvent(entries')
    BY <1>2
  <2>2. events' = events \o es
    BY <1>4 DEF Publish
  <2> HIDE DEF es
  <2>3. Told(es)
    BY <1>4, <2>1, TellsOf DEF Told, Silent
  <2>4. Says(es)
    BY <1>2, <2>1, <2>2, <2>3
  <2> QED BY <2>1, <2>4
<1>5. ASSUME UNCHANGED <<entries, conn>>, NEW s \in RecState, id \in Ids,
             Publish(<<RecordingEvent(id, s)>>), Head(tasks).kind # "reorder"
      PROVE  \E es \in Seq(EventType) : Says(es)
  <2> DEFINE es == <<RecordingEvent(id, s)>>
  <2>1. RecordingEvent(id, s) \in EventType
    BY <1>5, EventsTyped
  <2>2. es \in Seq(EventType) /\ DOMAIN es = {1} /\ es[1] = RecordingEvent(id, s)
    BY <2>1
  <2>3. events' = events \o es
    BY <1>5 DEF Publish
  <2> HIDE DEF es, id
  <2>4. Told(es)
    BY <1>5, <2>2, TellsOf DEF Told, Silent
  <2> QED BY <1>5, <2>2, <2>3, <2>4
<1>6. CASE DoAdd
  <2>0. Head(tasks).kind # "reorder"
    BY <1>6, TaskTaken DEF DoAdd
  <2>1. CASE Ignored
    BY <1>3, <2>0, <2>1
  <2> DEFINE f == SnapshotEvent(NextId, "Down")
             es == <<ListEvent(entries'), f>>
  <2>2. CASE /\ NextId \in Ids /\ DOMAIN entries' = DOMAIN entries \cup {NextId}
             /\ conn' = With(conn, NextId, "Down") /\ Publish(es)
    <3>1. f \in EventType
      BY <2>2, EventsTyped DEF ConnStates
    <3>2. /\ es \in Seq(EventType) /\ DOMAIN es = {1, 2}
          /\ es[1] = ListEvent(entries') /\ es[2] = f
      BY <1>2, <3>1
    <3>3. events' = events \o es
      BY <2>2 DEF Publish
    <3>4. \A i \in DOMAIN entries' : conn'[i] = IF i = NextId THEN "Down" ELSE conn[i]
      BY <1>1, <2>2 DEF With
    <3> HIDE DEF es
    <3>5. Told(es)
      BY <2>2, <3>2, <3>4, TellsOf DEF Told, Silent, EndsWith
    <3> HIDE DEF f
    <3> QED BY <2>0, <3>2, <3>3, <3>5
  <2>3. Ignored \/ (/\ NextId \in Ids /\ DOMAIN entries' = DOMAIN entries \cup {NextId}
                    /\ conn' = With(conn, NextId, "Down") /\ Publish(es))
    BY <1>6 DEF DoAdd, With
  <2> QED BY <2>1, <2>2, <2>3
<1>7. CASE DoUpdate
  <2>0. Head(tasks).kind # "reorder"
    BY <1>7, TaskTaken DEF DoUpdate
  <2>1. CASE Ignored
    BY <1>3, <2>0, <2>1
  <2>2. CASE UNCHANGED <<entries, conn>> /\ Publish(<<ListEvent(entries)>>)
    BY <1>4, <2>2
  <2> DEFINE d == Disconnected(id)
             b == <<SnapshotEvent(id, "Down"), ListEvent(entries')>>
  <2>3. CASE /\ id \in DOMAIN entries /\ UNCHANGED entries
             /\ conn' = [conn EXCEPT ![id] = "Down"] /\ Publish(d \o b)
    <3>1. SnapshotEvent(id, "Down") \in EventType /\ SnapshotEvent(id, "Idle") \in EventType
      BY <1>1, <2>3, EventsTyped DEF ConnStates
    <3>2. /\ b \in Seq(EventType) /\ DOMAIN b = {1, 2}
          /\ b[1] = SnapshotEvent(id, "Down") /\ b[2] = ListEvent(entries')
      BY <1>2, <3>1
    <3>3. d \in Seq(EventType) /\ \A i : i # id => Silent(d, i)
      BY <3>1, TellsOf DEF Disconnected, Silent
    <3>4. \A i \in DOMAIN entries' : conn'[i] = IF i = id THEN "Down" ELSE conn[i]
      BY <1>1, <2>3
    <3>5. events' = events \o (d \o b) /\ d \o b \in Seq(EventType)
      BY <2>3, <3>2, <3>3 DEF Publish
    <3> HIDE DEF d, b
    <3>6. ~Silent(b, id) /\ EndsWith(b, id, "Down") /\ \A i : i # id => Silent(b, i)
      BY <3>2, TellsOf DEF Silent, EndsWith
    <3>7. ~Silent(d \o b, id) /\ EndsWith(d \o b, id, "Down")
      BY <3>2, <3>3, <3>6, SilentBoth, EndsWithLast
    <3>8. \A i : i # id => Silent(d \o b, i)
      BY <3>2, <3>3, <3>6, SilentBoth
    <3> HIDE DEF id
    <3>9. Told(d \o b)
      BY <2>3, <3>4, <3>7, <3>8 DEF Told
    <3> QED BY <2>0, <3>5, <3>9
  <2>4. \/ Ignored
        \/ UNCHANGED <<entries, conn>> /\ Publish(<<ListEvent(entries)>>)
        \/ /\ id \in DOMAIN entries /\ UNCHANGED entries
           /\ conn' = [conn EXCEPT ![id] = "Down"] /\ Publish(d \o b)
    BY <1>7 DEF DoUpdate
  <2> QED BY <2>1, <2>2, <2>3, <2>4
<1>8. CASE DoRemove
  <2>0. Head(tasks).kind # "reorder"
    BY <1>8, TaskTaken DEF DoRemove
  <2>1. CASE Ignored
    BY <1>3, <2>0, <2>1
  <2> DEFINE r == EndOfRecording(id)
             d == Disconnected(id)
             l == <<ListEvent(entries')>>
  <2>2. CASE /\ id \in DOMAIN entries /\ entries' = Without(entries, id)
             /\ conn' = Without(conn, id) /\ Publish(r \o (d \o l))
    <3>1. SnapshotEvent(id, "Idle") \in EventType /\ RecordingEvent(id, "Idle") \in EventType
      BY <1>1, <2>2, EventsTyped DEF ConnStates, RecState
    <3>2. /\ l \in Seq(EventType) /\ \A i : Silent(l, i)
          /\ d \in Seq(EventType) /\ \A i : i # id => Silent(d, i)
          /\ r \in Seq(EventType) /\ \A i : Silent(r, i)
      BY <1>2, <3>1, TellsOf DEF Disconnected, EndOfRecording, Silent
    <3>3. events' = events \o (r \o (d \o l))
          /\ d \o l \in Seq(EventType) /\ r \o (d \o l) \in Seq(EventType)
      BY <2>2, <3>2 DEF Publish
    <3>4. \A i \in DOMAIN entries' : i # id /\ i \in DOMAIN entries /\ conn'[i] = conn[i]
      BY <1>1, <2>2 DEF Without
    <3> HIDE DEF r, d, l, id
    <3>5. ASSUME NEW i, i # id PROVE Silent(r \o (d \o l), i)
      <4>1. Silent(d \o l, i)
        BY <3>2, <3>5, SilentBoth
      <4> QED BY <3>2, <3>3, <4>1, SilentBoth
    <3>6. Told(r \o (d \o l))
      BY <3>4, <3>5 DEF Told
    <3> QED BY <2>0, <3>3, <3>6
  <2>3. Ignored \/ (/\ id \in DOMAIN entries /\ entries' = Without(entries, id)
                    /\ conn' = Without(conn, id) /\ Publish(r \o (d \o l)))
    BY <1>8 DEF DoRemove, Removal, RemovalOfEntry
  <2> QED BY <2>1, <2>2, <2>3
<1>9. CASE DoMove
  <2>1. Ignored \/ (UNCHANGED conn /\ entries' = Moved(Task.id, Task.cell)
                    /\ Publish(<<ListEvent(entries')>>))
    BY <1>9 DEF DoMove
  <2>2. Head(tasks).kind # "reorder"
    BY <1>9, TaskTaken DEF DoMove
  <2> QED BY <1>3, <1>4, <2>1, <2>2 DEF Moved
<1>10. CASE DoReorder
  <2>1. UNCHANGED conn /\ DOMAIN entries' = DOMAIN entries /\ Publish(<<ListEvent(entries')>>)
    BY <1>10 DEF DoReorder, Echo, Reordered
  <2> QED BY <1>4, <2>1
<1>11. CASE DoToggle
  <2>1. PICK s \in IF rec[id] = "Idle" /\ id \in DOMAIN entries THEN RecState ELSE {"Idle"} :
           Publish(<<RecordingEvent(id, s)>>)
    BY <1>11 DEF DoToggle
  <2>2. s \in RecState
    BY <2>1 DEF RecState
  <2>3. UNCHANGED <<entries, conn>> /\ id \in Ids /\ Head(tasks).kind # "reorder"
    BY <1>11, TaskTaken, TaskFields DEF DoToggle
  <2> QED BY <1>5, <2>1, <2>2, <2>3
<1>12. CASE DoCapture
  <2>1. UNCHANGED <<entries, conn>> /\ id \in Ids /\ Head(tasks).kind # "reorder"
        /\ Publish(<<RecordingEvent(id, rec[id])>>)
    BY <1>12, TaskTaken, TaskFields DEF DoCapture, control
  <2>2. rec[id] \in RecState
    BY <1>1, <2>1
  <2> QED BY <1>5, <2>1, <2>2
<1> QED BY <1>6, <1>7, <1>8, <1>9, <1>10, <1>11, <1>12 DEF Control

\* The control thread.
LEMMA ControlTells == IInv /\ ToldInv /\ Control => ToldInv'
<1> SUFFICES ASSUME IInv, ToldInv, Control PROVE ToldInv'
  OBVIOUS
<1>1. PICK es \in Seq(EventType) :
         /\ events' = events \o es /\ Told(es)
         /\ Head(tasks).kind = "reorder" => \E i \in DOMAIN es : es[i].kind = "list"
  BY TasksTell
<1>2. UNCHANGED ui /\ tasks # << >> /\ tasks' = Tail(tasks)
  BY DEF Control, Begin, DoAdd, DoUpdate, DoRemove, DoMove, DoReorder, DoToggle, DoCapture
<1>3. OrderComing => OrderComing'
  <2>1. CASE Head(tasks).kind # "reorder"
    BY <1>1, <1>2, <2>1, Typed, OrderStillComes
  <2>2. ASSUME NEW i \in DOMAIN es, es[i].kind = "list" PROVE OrderComing'
    <3>1. events \in Seq(EventType)
      BY Typed DEF QueuesTyped
    <3>2. Len(events) + i \in DOMAIN events' /\ events'[Len(events) + i] = es[i]
      BY <1>1, <3>1
    <3> QED BY <2>2, <3>2 DEF OrderComing
  <2> QED BY <1>1, <2>1, <2>2
<1> QED BY <1>1, <1>2, <1>3, Publication

\* What the executor's tick changes is published.
LEMMA ChangesTell == IInv /\ ToldInv /\ (ConnectionChanges \/ RecordingChanges) => ToldInv'
<1> SUFFICES ASSUME IInv, ToldInv, ConnectionChanges \/ RecordingChanges PROVE ToldInv'
  OBVIOUS
<1>1. UNCHANGED <<entries, tasks>> /\ UNCHANGED ui
  BY DEF ConnectionChanges, RecordingChanges
<1>2. /\ conn \in [DOMAIN entries -> ConnStates] /\ DOMAIN entries \subseteq Ids
      /\ events \in Seq(EventType)
  BY Typed, ListsAreFunctions DEF ControlTyped, QueuesTyped
<1>3. ASSUME NEW e \in EventType, Publish(<<e>>), Told(<<e>>) PROVE ToldInv'
  <2>1. <<e>> \in Seq(EventType) /\ events' = events \o <<e>>
    BY <1>3 DEF Publish
  <2>2. OrderComing => OrderComing'
    BY <1>1, <2>1, Typed, OrderStillComes
  <2> QED BY <1>1, <1>3, <2>1, <2>2, Publication
<1>4. CASE ConnectionChanges
  <2>1. PICK id \in DOMAIN entries, s \in ConnStates :
           conn' = [conn EXCEPT ![id] = s] /\ Publish(<<SnapshotEvent(id, s)>>)
    BY <1>4 DEF ConnectionChanges
  <2>2. \A i \in DOMAIN entries' : i \in DOMAIN entries /\ conn'[i] = IF i = id THEN s ELSE conn[i]
    BY <1>1, <1>2, <2>1
  <2> DEFINE es == <<SnapshotEvent(id, s)>>
  <2>3. DOMAIN es = {1} /\ es[1] = SnapshotEvent(id, s)
    OBVIOUS
  <2> HIDE DEF es
  <2>4. Told(es)
    BY <2>2, <2>3, TellsOf DEF Told, Silent, EndsWith
  <2>5. SnapshotEvent(id, s) \in EventType
    BY <1>2, EventsTyped
  <2> QED BY <1>3, <2>1, <2>4, <2>5 DEF es
<1>5. CASE RecordingChanges
  <2>1. PICK id \in DOMAIN entries, s \in RecState : Publish(<<RecordingEvent(id, s)>>)
    BY <1>5 DEF RecordingChanges
  <2>2. UNCHANGED conn
    BY <1>5 DEF RecordingChanges
  <2> DEFINE es == <<RecordingEvent(id, s)>>
  <2>3. DOMAIN es = {1} /\ es[1] = RecordingEvent(id, s)
    OBVIOUS
  <2> HIDE DEF es
  <2>4. Told(es)
    BY <1>1, <2>2, <2>3, TellsOf DEF Told, Silent
  <2>5. RecordingEvent(id, s) \in EventType
    BY <1>2, EventsTyped
  <2> QED BY <1>3, <2>1, <2>4, <2>5 DEF es
<1> QED BY <1>4, <1>5

\* A delivery: the rest has the same last words, and what it tells nothing more
\* of, the event has told truly, or nobody.
LEMMA WordDelivered ==
    ASSUME IInv, ToldInv, NEW kind, Deliver(kind), UNCHANGED control
    PROVE  /\ LastWord'
           /\ \A id \in DOMAIN entries : Silent(events', id) =>
                 \/ Silent(events, id) /\ ~Tells(Event, id)
                 \/ Tells(Event, id) /\ Event.state = conn[id]
<1>1. events \in Seq(EventType) /\ events # << >> /\ events' = Tail(events) /\ Event = events[1]
  BY Typed DEF QueuesTyped, Deliver, Event
<1>2. /\ \A i \in DOMAIN events' : i + 1 \in DOMAIN events /\ events'[i] = events[i + 1]
      /\ \A i \in DOMAIN events : i # 1 => i - 1 \in DOMAIN events' /\ events'[i - 1] = events[i]
      /\ 1 \in DOMAIN events
      /\ DOMAIN events \subseteq Nat \ {0} /\ DOMAIN events' \subseteq Nat \ {0}
  BY <1>1
<1>3. ASSUME NEW id \in DOMAIN entries PROVE EndsWith(events', id, conn[id])
  <2> SUFFICES ASSUME NEW i \in DOMAIN events', Tells(events'[i], id),
                      \A j \in DOMAIN events' : j > i => ~Tells(events'[j], id)
               PROVE  events'[i].state = conn[id]
    BY DEF EndsWith
  <2>1. ASSUME NEW j \in DOMAIN events, j > i + 1 PROVE ~Tells(events[j], id)
    <3>1. j # 1 /\ j - 1 > i
      BY <1>2, <2>1
    <3> QED BY <1>2, <3>1
  <2>2. i + 1 \in DOMAIN events /\ events'[i] = events[i + 1]
    BY <1>2
  <2>3. EndsWith(events, id, conn[id])
    BY DEF ToldInv, LastWord
  <2> QED BY <2>1, <2>2, <2>3 DEF EndsWith
<1>4. ASSUME NEW id \in DOMAIN entries, Silent(events', id)
      PROVE  \/ Silent(events, id) /\ ~Tells(Event, id)
             \/ Tells(Event, id) /\ Event.state = conn[id]
  <2>1. \A i \in DOMAIN events : i # 1 => ~Tells(events[i], id)
    BY <1>2, <1>4 DEF Silent
  <2>2. CASE Tells(Event, id)
    <3>1. EndsWith(events, id, conn[id])
      BY DEF ToldInv, LastWord
    <3>2. \A j \in DOMAIN events : j > 1 => ~Tells(events[j], id)
      BY <1>2, <2>1
    <3> QED BY <1>1, <1>2, <2>2, <3>1, <3>2 DEF EndsWith
  <2>3. CASE ~Tells(Event, id)
    <3>1. Silent(events, id)
      BY <1>1, <2>1, <2>3 DEF Silent
    <3> QED BY <2>3, <3>1
  <2> QED BY <2>2, <2>3
<1>5. LastWord'
  BY <1>3 DEF LastWord, control
<1> QED BY <1>4, <1>5

\* A row is about a channel of the window, and every channel has a tile.
LEMMA RowsHaveTiles ==
    ASSUME IInv
    PROVE  /\ DOMAIN grid.tiles = DOMAIN window.channels
           /\ \A i \in DOMAIN panel.rows : panel.configs[i] \in DOMAIN window.channels
           /\ DOMAIN panel.rows = DOMAIN panel.configs
<1>1. /\ window.channels \in Lists /\ panel.configs = ListOrder(window.channels)
      /\ panel.rows \in Seq(RowType) /\ Len(panel.rows) = Len(panel.configs)
  BY UiTyped DEF WindowTyped, PanelAgrees
<1>2. panel.configs \in Seq(DOMAIN window.channels)
  BY <1>1, ListsAreFunctions, ListOrderHasAll
<1> QED BY <1>1, <1>2, TilesTyped

\* The new tiles of a list say nothing.
LEMMA FreshTiles ==
    ASSUME IInv, NEW es, NEW id \in DOMAIN es
    PROVE  TilesOf(es)[id].label = "NameOnly"
<1>1. TilesOf(es)[id] = TileOf(id)
  BY DEF TilesOf
<1>2. CASE id \in DOMAIN grid.tiles
  <2>1. grid.tiles[id] \in Tile
    BY <1>2, UiTyped DEF TilesAgree
  <2> QED BY <1>1, <1>2, <2>1 DEF TileOf, Relabelled, Tile
<1>3. CASE id \notin DOMAIN grid.tiles
  BY <1>1, <1>3 DEF TileOf, NewTile
<1> QED BY <1>2, <1>3

\* onChannelList.
LEMMA OnChannelListTells ==
    ASSUME IInv, ToldInv, UNCHANGED <<control, tasks>>, OnChannelList
    PROVE  ToldInv'
<1> DEFINE es == Event.channels
<1>1. Deliver("list")
  BY DEF OnChannelList
<1>2. IInv'
  BY OnChannelListStep
<1>3. Event = ListEvent(es) /\ es \in Lists
  BY <1>1, EventDelivered, EventFields
<1>4. grid'.tiles = TilesOf(es)
  <2>1. grid' = Rebuilt(es, grid.columns)
    BY DEF OnChannelList
  <2>2. TilesPlaced /\ grid.columns \in Column
    BY UiTyped DEF TilesPlaced
  <2> HIDE DEF es
  <2> QED BY <1>3, <2>1, <2>2, RebuiltPlacesAll
<1>5. /\ window'.channels = es
      /\ panel' = ListedPanel(es)
  BY UiTyped DEF OnChannelList, WindowTyped
<1> HIDE DEF es
<1>6. \A id \in DOMAIN window'.channels : grid'.tiles[id].label = "NameOnly"
  BY <1>4, <1>5, FreshTiles
<1>7. \A i \in DOMAIN panel'.rows : panel'.rows[i].status = "Idle"
  BY <1>5 DEF ListedPanel, Row
<1>8. \A i \in DOMAIN panel'.rows : panel'.configs[i] \in DOMAIN window'.channels
  <2>1. (IInv => \A i \in DOMAIN panel.rows : panel.configs[i] \in DOMAIN window.channels)'
    BY <1>2, <1>5, ListsAreFunctions, ListOrderHasAll, <1>3 DEF ListedPanel
  <2> QED BY <1>2, <2>1
<1>9. TilesTrue' /\ RowsTrue'
  BY <1>6, <1>7, <1>8 DEF TilesTrue, RowsTrue, RowTrue
<1> QED BY <1>1, <1>9, WordDelivered DEF ToldInv

\* onSnapshot.
LEMMA OnSnapshotTells ==
    ASSUME IInv, ToldInv, UNCHANGED <<control, tasks>>, OnSnapshot
    PROVE  ToldInv'
<1> DEFINE id == Event.id
           s == Event.state
<1>1. Deliver("snapshot") /\ UNCHANGED <<entries, conn>>
  BY DEF OnSnapshot, control
<1>2. Event = SnapshotEvent(id, s)
  BY <1>1, EventDelivered, EventFields
<1>3. \A i : Tells(Event, i) <=> i = id
  BY <1>2, TellsOf
<1>4. /\ window'.channels = window.channels
      /\ panel'.configs = panel.configs /\ DOMAIN panel'.rows = DOMAIN panel.rows
      /\ \A i \in DOMAIN panel.rows :
            panel'.rows[i].status = IF panel.configs[i] = id THEN s ELSE panel.rows[i].status
  <2>1. window'.channels = window.channels
    BY UiTyped DEF OnSnapshot, WindowTyped
  <2>2. panel' = [configs |-> panel.configs,
                  rows |-> [i \in DOMAIN panel.rows |->
                    IF panel.configs[i] = id THEN Row(panel.rows[i].id, id, s) ELSE panel.rows[i]]]
    BY UiTyped DEF OnSnapshot, StatusPanel, PanelAgrees
  <2> HIDE DEF id, s
  <2> QED BY <2>1, <2>2 DEF Row
<1>5. \A i \in DOMAIN grid.tiles :
         grid'.tiles[i].label = IF i = id THEN s ELSE grid.tiles[i].label
  <2>1. grid' = IF id \in DOMAIN grid.tiles THEN [grid EXCEPT !.tiles[id].label = s] ELSE grid
    BY DEF OnSnapshot
  <2>2. grid.tiles \in [DOMAIN window.channels -> Tile]
    BY UiTyped DEF TilesAgree
  <2>3. \A i \in DOMAIN grid.tiles : grid.tiles[i] \in Tile
    BY <2>2
  <2>4. CASE id \in DOMAIN grid.tiles
    <3>1. grid'.tiles = [grid.tiles EXCEPT ![id] = [grid.tiles[id] EXCEPT !.label = s]]
      BY <2>1, <2>4, UiTyped DEF TilesPlaced
    <3> HIDE DEF id, s
    <3> QED BY <2>2, <2>3, <3>1 DEF Tile
  <2>5. CASE id \notin DOMAIN grid.tiles
    BY <2>1, <2>5
  <2> QED BY <2>4, <2>5
<1> HIDE DEF id, s
<1>6. \A i \in DOMAIN entries : Silent(events', i) => IF i = id THEN s = conn[i] ELSE Silent(events, i)
  BY <1>1, <1>3, WordDelivered DEF s
<1>7. TilesTrue'
  BY <1>1, <1>4, <1>5, <1>6, RowsHaveTiles DEF ToldInv, TilesTrue
<1>8. RowsTrue'
  <2> SUFFICES ASSUME ~OrderComing', NEW i \in DOMAIN panel.rows PROVE RowTrue(i)'
    BY <1>4 DEF RowsTrue
  <2>1. RowTrue(i)
    BY <1>1, OrderNotForgotten DEF ToldInv, RowsTrue
  <2>2. panel.configs[i] \in DOMAIN grid.tiles
    BY RowsHaveTiles
  <2> QED BY <1>1, <1>4, <1>5, <1>6, <2>1, <2>2 DEF RowTrue
<1>9. LastWord'
  BY <1>1, WordDelivered
<1> QED BY <1>7, <1>8, <1>9 DEF ToldInv

\* What leaves the labels and the panel alone.
LEMMA WidgetsKept ==
    ASSUME IInv, ToldInv, UNCHANGED <<entries, conn, panel>>, LastWord',
           \A id \in DOMAIN entries : Silent(events', id) => Silent(events, id),
           OrderComing => OrderComing', window'.channels = window.channels,
           \A id \in DOMAIN window.channels : grid'.tiles[id].label \in {"NameOnly", grid.tiles[id].label}
    PROVE  ToldInv'
<1>1. TilesTrue'
  BY DEF ToldInv, TilesTrue
<1>2. RowsTrue'
  BY RowsHaveTiles DEF ToldInv, RowsTrue, RowTrue
<1> QED BY <1>1, <1>2 DEF ToldInv

\* onRecordingState.
LEMMA OnRecordingStateTells ==
    ASSUME IInv, ToldInv, UNCHANGED <<control, tasks>>, OnRecordingState
    PROVE  ToldInv'
<1> DEFINE id == Event.id
           s == Event.state
<1>1. Deliver("recording") /\ UNCHANGED <<entries, conn, panel>>
  BY DEF OnRecordingState, control
<1>2. \A i : ~Tells(Event, i)
  BY <1>1, EventDelivered DEF Tells
<1>3. LastWord' /\ \A i \in DOMAIN entries : Silent(events', i) => Silent(events, i)
  BY <1>1, <1>2, WordDelivered
<1>4. window'.channels = window.channels
  BY UiTyped DEF OnRecordingState, WindowTyped
<1>5. \A i \in DOMAIN window.channels : grid'.tiles[i].label = grid.tiles[i].label
  <2>1. grid' = RecordedGrid(id, s)
    BY DEF OnRecordingState
  <2>2. grid.tiles \in [DOMAIN window.channels -> Tile]
    BY UiTyped DEF TilesAgree
  <2>3. \A i \in DOMAIN grid.tiles : grid.tiles[i] \in Tile
    BY <2>2
  <2> HIDE DEF id, s
  <2>4. CASE id \notin DOMAIN grid.tiles
    BY <2>1, <2>4 DEF RecordedGrid
  <2>5. CASE id \in DOMAIN grid.tiles
    <3> DEFINE ts == [grid.tiles EXCEPT ![id] = [grid.tiles[id] EXCEPT !.rec = s]]
    <3>1. grid' = [grid EXCEPT !.tiles = ts, !.recTick = AnyRecording(ts)]
      BY <2>1, <2>5 DEF RecordedGrid
    <3>2. \A i \in DOMAIN window.channels : ts[i].label = grid.tiles[i].label
      BY <2>2, <2>3 DEF Tile
    <3> HIDE DEF ts
    <3>3. grid'.tiles = ts
      BY <3>1, UiTyped DEF TilesPlaced
    <3> QED BY <3>2, <3>3
  <2> QED BY <2>4, <2>5
<1>6. OrderComing => OrderComing'
  BY <1>1, OrderNotForgotten
<1> QED BY <1>1, <1>3, <1>4, <1>5, <1>6, WidgetsKept

\* The UI thread.
LEMMA UiTells == IInv /\ ToldInv /\ Ui => ToldInv'
<1> SUFFICES ASSUME IInv, ToldInv, Ui PROVE ToldInv'
  OBVIOUS
<1>1. UNCHANGED <<control, tasks>> /\ (OnChannelList \/ OnSnapshot \/ OnRecordingState \/ OnRelayout)
  BY DEF Ui
<1>2. CASE OnRelayout
  <2>1. UNCHANGED <<entries, conn, tasks, events, panel, window>> /\ grid'.tiles = grid.tiles
    BY <1>1, <1>2, RelayoutPlacesAll DEF OnRelayout, control
  <2>2. LastWord' /\ (OrderComing => OrderComing')
    BY <2>1 DEF ToldInv, LastWord, OrderComing
  <2> QED BY <2>1, <2>2, WidgetsKept
<1> QED BY <1>1, <1>2, OnChannelListTells, OnSnapshotTells, OnRecordingStateTells

\* The user.
LEMMA UserTells == IInv /\ ToldInv /\ User => ToldInv'
<1> SUFFICES ASSUME IInv, ToldInv, User PROVE ToldInv'
  OBVIOUS
<1>1. UNCHANGED <<entries, conn, events>>
  BY DEF User, PressAdd, PressRecord, PressSnapshot, DropTile, DropRow, DoubleClick, CloseTab,
         PressColumns, Resize, PressMinus, OpenListMenu, OpenTileMenu, Cancel, ChooseTab,
         ChooseOfTile, ChooseEdit, ChooseRemove, Accept, SayYes, Press, Open, Stays, control
<1>2. tasks' = tasks \/ \E t : tasks' = Append(tasks, t)
  BY DEF User, PressAdd, PressRecord, PressSnapshot, DropTile, DropRow, DoubleClick, CloseTab,
         PressColumns, Resize, PressMinus, OpenListMenu, OpenTileMenu, Cancel, ChooseTab,
         ChooseOfTile, ChooseEdit, ChooseRemove, Accept, SayYes, Press, Open, Stays, Post
<1>3. OrderComing => OrderComing'
  BY <1>1, <1>2, OrderComesPosted
<1>4. LastWord'
  BY <1>1 DEF ToldInv, LastWord
<1>5. window'.channels = window.channels
  BY UiTyped
     DEF WindowTyped, Tabbed, ui, User, PressAdd, PressRecord, PressSnapshot, DropTile, DropRow,
         DoubleClick, CloseTab, PressColumns, Resize, PressMinus, OpenListMenu, OpenTileMenu,
         Cancel, ChooseTab, ChooseOfTile, ChooseEdit, ChooseRemove, Accept, SayYes, Press, Open
<1>6. CASE DropRow
  <2>1. OrderComing'
    <3>1. PICK o : tasks' = Append(tasks, [kind |-> "reorder", order |-> o])
      BY <1>6 DEF DropRow, Post
    <3>2. /\ Len(tasks) + 1 \in DOMAIN tasks'
          /\ tasks'[Len(tasks) + 1] = [kind |-> "reorder", order |-> o]
      BY <3>1, Typed DEF QueuesTyped
    <3> QED BY <3>2 DEF OrderComing
  <2>2. grid' = grid
    BY <1>6 DEF DropRow
  <2> QED BY <1>1, <1>4, <1>5, <2>1, <2>2 DEF ToldInv, TilesTrue, RowsTrue
<1>7. CASE PressColumns
  <2>1. PICK n \in ColumnChoices : grid' = Rebuilt(window.channels, n)
    BY <1>7 DEF PressColumns
  <2>2. n \in Column /\ window.channels \in Lists /\ TilesPlaced
    BY ShellAssumption, UiTyped DEF Column, WindowTyped
  <2>3. grid'.tiles = TilesOf(window.channels)
    BY <2>1, <2>2, RebuiltPlacesAll
  <2>4. \A id \in DOMAIN window.channels : grid'.tiles[id].label = "NameOnly"
    BY <2>3, FreshTiles
  <2>5. panel' = panel
    BY <1>7 DEF PressColumns
  <2> QED BY <1>1, <1>3, <1>4, <1>5, <2>4, <2>5, WidgetsKept
<1>8. ASSUME ~DropRow, ~PressColumns PROVE panel' = panel /\ grid'.tiles = grid.tiles
  BY <1>8, UiTyped
     DEF TilesPlaced, ui, User, PressAdd, PressRecord, PressSnapshot, DropTile, DoubleClick,
         CloseTab, Resize, PressMinus, OpenListMenu, OpenTileMenu, Cancel, ChooseTab,
         ChooseOfTile, ChooseEdit, ChooseRemove, Accept, SayYes, Press, Open, Close
<1> QED BY <1>1, <1>3, <1>4, <1>5, <1>6, <1>7, <1>8, WidgetsKept

\* The list of restore comes before every snapshot.
LEMMA InitTold == Init => ToldInv
<1> SUFFICES ASSUME Init PROVE ToldInv
  OBVIOUS
<1>1. events = <<ListEvent(FirstChannels)>> /\ DOMAIN events = {1}
      /\ events[1] = ListEvent(FirstChannels)
  BY DEF Init
<1>2. LastWord
  BY <1>1, TellsOf DEF LastWord, EndsWith
<1>3. TilesTrue
  BY EmptyFunction DEF Init, TilesTrue
<1>4. RowsTrue
  BY EmptyFunction DEF Init, RowsTrue
<1> QED BY <1>2, <1>3, <1>4 DEF ToldInv

\* What is said of a connection holds in every state of the program.
THEOREM WordsAreTrue == Spec => []ToldInv
<1>1. IInv /\ ToldInv /\ [Next]_vars => ToldInv'
  <2> SUFFICES ASSUME IInv, ToldInv, [Next]_vars PROVE ToldInv'
    OBVIOUS
  <2>1. CASE UNCHANGED vars
    BY <2>1 DEF vars, control, ui, ToldInv, LastWord, TilesTrue, RowsTrue, RowTrue, OrderComing
  <2> QED BY <2>1, ControlTells, ChangesTell, UiTells, UserTells DEF Next
<1> QED BY <1>1, InitTold, Invariance, PTL DEF Spec

-----------------------------------------------------------------------------
(* What the window shows. *)

\* With an empty queue the chain has no link, no order is on the way and no
\* snapshot.
LEMMA QuietIsCurrent == IInv /\ ToldInv => QuietMeansCurrent
<1> SUFFICES ASSUME IInv, ToldInv, Quiet PROVE
        /\ window.channels = entries
        /\ panel.configs = ListOrder(entries)
        /\ \A i \in DOMAIN panel.rows :
              LET id == panel.configs[i]
                  label == grid.tiles[id].label
              IN /\ panel.rows[i].id = id /\ panel.rows[i].text = id
                 /\ label \in {"NameOnly", conn[id]}
                 /\ \/ panel.rows[i].status = conn[id]
                    \/ panel.rows[i].status = "Idle" /\ label = "NameOnly"
        /\ Alarm = (entries # <<>> /\ \A id \in DOMAIN entries : conn[id] # "Streaming")
  BY DEF QuietMeansCurrent
<1>1. Shown = Truth
  BY LinkNone, Typed DEF Quiet, EventsLead
<1>2. /\ window.channels = entries
      /\ window.streaming = [id \in DOMAIN entries |-> conn[id] = "Streaming"]
  BY <1>1 DEF Shown, Truth
<1>3. panel.configs = ListOrder(entries)
  BY <1>2, UiTyped DEF PanelAgrees
<1>4. ~OrderComing /\ \A id : Silent(events, id)
  BY DEF Quiet, OrderComing, Silent
<1>5. RowsFit
  BY <1>4, UiTyped DEF PanelAgrees
<1>6. ASSUME NEW i \in DOMAIN panel.rows
      PROVE  LET id == panel.configs[i]
                 label == grid.tiles[id].label
             IN /\ panel.rows[i].id = id /\ panel.rows[i].text = id
                /\ label \in {"NameOnly", conn[id]}
                /\ \/ panel.rows[i].status = conn[id]
                   \/ panel.rows[i].status = "Idle" /\ label = "NameOnly"
  <2>1. panel.configs[i] \in DOMAIN entries
    BY <1>2, RowsHaveTiles
  <2>2. panel.rows[i].id = panel.configs[i] /\ panel.rows[i].text = panel.configs[i]
    BY <1>5 DEF RowsFit
  <2>3. RowTrue(i)
    BY <1>4 DEF ToldInv, RowsTrue
  <2>4. grid.tiles[panel.configs[i]].label \in {"NameOnly", conn[panel.configs[i]]}
    BY <1>2, <1>4, <2>1 DEF ToldInv, TilesTrue
  <2> QED BY <1>4, <2>1, <2>2, <2>3, <2>4 DEF RowTrue
<1>7. Alarm = (entries # <<>> /\ \A id \in DOMAIN entries : conn[id] # "Streaming")
  <2>1. entries # <<>> <=> DOMAIN entries # {}
    <3>1. entries = [id \in DOMAIN entries |-> entries[id]]
      BY Typed, ListsAreFunctions DEF ControlTyped
    <3> QED BY <3>1, EmptyFunction
  <2>2. \A id \in DOMAIN entries : window.streaming[id] <=> conn[id] = "Streaming"
    BY <1>2
  <2> QED BY <1>2, <2>1, <2>2 DEF Alarm
<1> QED BY <1>2, <1>3, <1>6, <1>7

\* What is shown of the recordings, from the chain and the tiles.
LEMMA RecordingIsSeen == IInv => RecordingIsShown
<1> SUFFICES ASSUME IInv PROVE RecordingIsShown
  OBVIOUS
<1>1. TilesAgree
  BY UiTyped
<1>2. ASSUME Quiet PROVE \A id \in DOMAIN entries : window.recStates[id] = rec[id]
  BY <1>2, LinkNone, Typed DEF Quiet, EventsLead, Shown, Truth
<1> QED BY <1>1, <1>2 DEF TilesAgree, RecordingIsShown

\* When nothing is on the way between the threads (executor.post and
\* QMetaObject::invokeMethod) the window shows the channels, their order, the
\* alarm and what its tiles say of the connections as they are; and so do the
\* rows, except one that the last list has set to "Idle" (updateChannels) and no
\* snapshot has overwritten since.
THEOREM WindowCatchesUp == Spec => []QuietMeansCurrent
<1> QED BY Invariance, WordsAreTrue, QuietIsCurrent, PTL

\* Tile, tab and cache (onRecordingState) agree about every recording in every
\* state, and with the controller when nothing is on the way.
THEOREM RecordingShown == Spec => []RecordingIsShown
<1> QED BY Invariance, RecordingIsSeen, PTL

\* GridView::m_recTick runs exactly while a tile records, though only
\* updateRecordingState starts or stops it.
THEOREM TickIsRight == Spec => []TickFollowsTiles
<1>1. IInv => TickFollowsTiles
  BY DEF IInv, TilesAgree, TickFollowsTiles
<1> QED BY <1>1, Invariance, PTL

\* Every channel has its tile in the cell of its gridIndex, through lists, moves,
\* column buttons and resizes (rebuild, relayout).
THEOREM TilesAreFound == Spec => []TilesSitOnTheirCells
<1>1. IInv => TilesSitOnTheirCells
  BY DEF IInv, TilesPlaced, TilesSitOnTheirCells, PlacesOf
<1> QED BY <1>1, Invariance, PTL

\* The types, from the invariant.
LEMMA MembersAreTyped == IInv => TypeOK
<1> SUFFICES ASSUME IInv PROVE TypeOK
  OBVIOUS
<1>1. /\ ControlTyped /\ WindowTyped /\ TilesAgree /\ TilesPlaced /\ PanelAgrees
  BY DEF IInv
<1>2. \A id \in DOMAIN entries : id \in Ids /\ entries[id] \in [grid : Nat, list : Nat]
  BY <1>1, ListsAreFunctions DEF ControlTyped, Place
<1>3. ToSet(panel.configs) = DOMAIN window.channels
  <2>1. /\ ListOrder(window.channels) \in Seq(DOMAIN window.channels)
        /\ \A id \in DOMAIN window.channels :
              \E i \in DOMAIN ListOrder(window.channels) : ListOrder(window.channels)[i] = id
    BY <1>1, ListsAreFunctions, ListOrderHasAll DEF WindowTyped
  <2> QED BY <1>1, <2>1 DEF PanelAgrees, ToSet
<1>4. /\ DOMAIN grid.tiles = DOMAIN window.channels
      /\ DOMAIN grid.configs = DOMAIN grid.tiles
  BY <1>1 DEF TilesAgree, TilesPlaced, PlacesOf
<1> QED BY <1>1, <1>2, <1>3, <1>4 DEF TypeOK, ControlTyped, WindowTyped, TilesPlaced,
       PanelAgrees

\* The members have their types and the window is of one piece: a row for every
\* configuration, a tile and a place for every channel (updateChannels).
THEOREM TypeCorrect == Spec => []TypeOK
<1> QED BY Invariance, MembersAreTyped, PTL
=============================================================================
