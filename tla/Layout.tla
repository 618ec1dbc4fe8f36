------------------------------- MODULE Layout -------------------------------
(***************************************************************************)
(* Where the labels of a sheet go: PerPage, Validate, fits and CellRectMM  *)
(* of internal/sheet/sheet.go.  Lengths are whole hundredths of a          *)
(* millimetre, exact for every stock of template.go, where the code has    *)
(* floats and allows them a tolerance.                                     *)
(***************************************************************************)
EXTENDS Integers

CONSTANTS MaxInt,          \* the largest int
          maxCellsPerPage, \* cells of a page
          captionHeight    \* captionBandMM + captionPadMM

ASSUME LayoutAssumption ==
    /\ MaxInt \in Nat /\ maxCellsPerPage \in 1 .. MaxInt /\ captionHeight \in Nat

fitTolerance == 5 \* a twentieth of a millimetre

\* A grid on a page, and whether a caption is drawn beneath each code.
Grid == [page    : [w: Int, h: Int],   cols: Int, rows: Int,
         margin  : [left: Int, top: Int],
         cell    : [w: Int, h: Int],
         gutter  : [x: Int, y: Int],
         caption : BOOLEAN]

\* int arithmetic wraps.
Wrap(x) == ((x + MaxInt + 1) % (2 * MaxInt + 2)) - (MaxInt + 1)

PerPage(l) == IF l.cols <= 0 \/ l.rows <= 0 THEN 0 ELSE Wrap(l.cols * l.rows)

\* Mutant: the margin is left out.
BugFitsNoMargin(count, margin, cell, gutter, page) ==
    count * cell + (count - 1) * gutter <= page + fitTolerance

\* One axis of the grid against the page; no gutter follows the last cell.
fits(count, margin, cell, gutter, page) ==
    margin + count * cell + (count - 1) * gutter <= page + fitTolerance

Validate(l) ==
    /\ l.page.w > 0 /\ l.page.h > 0
    /\ l.cols > 0 /\ l.rows > 0
    /\ PerPage(l) <= maxCellsPerPage
    /\ l.cell.w > 0 /\ l.cell.h > 0
    /\ l.margin.left >= 0 /\ l.margin.top >= 0
    /\ l.gutter.x >= 0 /\ l.gutter.y >= 0
    /\ fits(l.cols, l.margin.left, l.cell.w, l.gutter.x, l.page.w)
    /\ fits(l.rows, l.margin.top, l.cell.h, l.gutter.y, l.page.h)

OnPage(l, index) == index >= 0 /\ index < PerPage(l)

Col(l, index) == index % l.cols
Row(l, index) == index \div l.cols

\* The cell at a position, from the top-left corner of the page.
CellRectMM(l, index) ==
    [x |-> l.margin.left + Col(l, index) * (l.cell.w + l.gutter.x),
     y |-> l.margin.top + Row(l, index) * (l.cell.h + l.gutter.y),
     w |-> l.cell.w,
     h |-> l.cell.h]

\* The room a code is drawn in: a caption takes its band and its pad.
Room(l) == IF l.caption THEN l.cell.h - captionHeight ELSE l.cell.h

-----------------------------------------------------------------------------
\* A label printed partly off the page is lost, and found out on paper.
InsidePage(l, index) ==
    LET r == CellRectMM(l, index)
    IN  /\ r.x >= 0 /\ r.x + r.w <= l.page.w + fitTolerance
        /\ r.y >= 0 /\ r.y + r.h <= l.page.h + fitTolerance

\* Two labels of a page never share ground.
Apart(l, i, j) ==
    LET a == CellRectMM(l, i)
        b == CellRectMM(l, j)
    IN  \/ a.x + a.w <= b.x \/ b.x + b.w <= a.x
        \/ a.y + a.h <= b.y \/ b.y + b.h <= a.y
=============================================================================
