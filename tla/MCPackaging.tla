---------------------------- MODULE MCPackaging ----------------------------
(* The archive: three slots over ids that collide: shared ids, an id that  *)
(* is another one's numbered form, ids that clean to the same stem or to   *)
(* nothing, an id past the length limit, the manifest's own name, and the  *)
(* words the fallback is made of.                                          *)
(* The sheet: up to three labels over bodies that repeat, are too large or *)
(* are no image, on layouts that are legal, too wide, too many, that leave *)
(* a code no room, or whose count of cells wraps: to zero, to one, below.  *)
EXTENDS Packaging

MCPlain == Range(Digits) \cup {"a", "A", "results", "item", "json", "png", "bin", "_"}

MCIds == { <<>>, <<"a">>, <<"A">>, <<"a", "-", "2">>, <<"a", "/", "2">>,
           <<".", ".", "/">>, <<" ", "a", ".", ".", "a">>, <<"results">>,
           <<"item", "-", "2">>, <<"a", ".", ".", ".", "2", "-", "a">>, <<"~", "2">> }

MCExts == {<<"png">>, <<".", "json">>}

MCLower(c) == IF c = "A" THEN "a" ELSE c

MCBodies    == {"a", "b", "c", "huge", "svg"}
MCPngs      == {"a", "b", "c", "huge"}
MCPixels(b) == CASE b = "a" -> 2 [] b = "b" -> 3 [] b = "c" -> 1 [] b = "huge" -> 9 [] OTHER -> 0
\* What two rows render to: a label, and the bytes of another format.
RowBodies == {"a", "svg"}
RowPngs   == {"a"}

MCSkips     == {-1, 0, 1, 2, 15}

Cells(cols, rows, caption) ==
    [page |-> [w |-> 100, h |-> 100], cols |-> cols, rows |-> rows,
     margin |-> [left |-> 10, top |-> 10], cell |-> [w |-> 20, h |-> 10],
     gutter |-> [x |-> 2, y |-> 0], caption |-> caption]

\* Products that wrap: to zero, to one, to minus one, and to the least int.
Tiny(cols, rows) == [Cells(cols, rows, FALSE) EXCEPT !.cell  = [w |-> 2, h |-> 2],
                                                     !.gutter = [x |-> 0, y |-> 0]]
WrapLayouts == {Tiny(4, 8), Tiny(3, 11), Tiny(31, 1), Tiny(4, 4)}

\* Captions that leave a code no room.
LowLayouts == {[Cells(1, 2, TRUE) EXCEPT !.cell.h = 4]}

\* One label a page, a column of two, a grid of four, and grids that are too wide by
\* the margin and too many.
MCLayouts == {Cells(1, 1, FALSE), Cells(1, 2, TRUE), Cells(2, 2, FALSE),
              [Cells(1, 2, FALSE) EXCEPT !.cell.w = 98],
              Cells(3, 3, FALSE)} \cup WrapLayouts \cup LowLayouts
=============================================================================
