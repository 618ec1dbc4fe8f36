------------------------------- MODULE Sheet -------------------------------
(***************************************************************************)
(* POST /v1/sheet: handleSheet of internal/httpapi/sheet_handler.go and    *)
(* Compose of internal/sheet/compose.go.  A request becomes items, results *)
(* of the batch runner, cells, distinct images, numbered PDF objects and   *)
(* an answer; every early return is an answer of its own.                  *)
(*                                                                         *)
(* An item is what rendering makes of it: "fails", or a body.  A body is a *)
(* PNG, or the bytes of another format its own options asked for.  A PDF   *)
(* object is a record of what Compose writes in it.                        *)
(***************************************************************************)
EXTENDS Layout, Sequences, FiniteSets

CONSTANTS Bodies,         \* what an item can render to
          Pngs,           \* the bodies png.Decode reads
          Pixels(_),      \* width times height of a body's image
          Layouts,        \* templates, and grids a caller describes
          MaxItems,       \* bound: items of a request
          Skips,          \* values of skip a caller sends
          MaxBatchItems,  \* BARQR_MAX_BATCH_ITEMS
          MaxCells,       \* sheet.MaxCells
          maxImagePixels, \* one image
          maxTotalPixels  \* the distinct images of a document

Fails == "fails" \* an item whose render returned an error
Blank == "blank" \* a cell with no PNG

ASSUME SheetAssumption ==
    /\ Pngs \subseteq Bodies /\ Fails \notin Bodies /\ Blank \notin Bodies
    /\ \A b \in Bodies : Pixels(b) \in Nat
    /\ Layouts \subseteq Grid
    /\ MaxItems \in Nat /\ MaxBatchItems \in Nat \ {0}
    /\ MaxCells \in Nat \ {0} /\ maxImagePixels \in Nat /\ maxTotalPixels \in Nat
    /\ Skips \subseteq (-MaxInt) .. MaxInt
    /\ MaxItems + MaxBatchItems <= MaxInt

VARIABLES layout, items, skip, \* the request
          pc,      \* where the handler is, or "answered"
          answer,  \* what it answered
          cells,   \* Compose's cells
          images,  \* the distinct images decoded so far
          refs,    \* per decoded cell, an index in images from 0, or -1
          total,   \* pixels of the distinct images
          objs,    \* the PDF's objects, numbered from 1
          page     \* the pages written

request == <<layout, items, skip>>
vars    == <<layout, items, skip, pc, answer, cells, images, refs, total, objs, page>>

Init == /\ layout \in Layouts
        /\ items \in UNION {[1 .. n -> Bodies \cup {Fails}] : n \in 0 .. MaxItems}
        /\ skip \in Skips
        /\ pc = "check"
        /\ answer = "none"
        /\ cells = <<>> /\ images = <<>> /\ refs = <<>> /\ objs = <<>>
        /\ total = 0 /\ page = 0

Answer(with) == /\ pc' = "answered"
                /\ answer' = with
                /\ UNCHANGED <<layout, items, skip, cells, images, refs, total, objs, page>>

SkipInRange == skip >= 0 /\ skip <= MaxBatchItems

Sum == Wrap(Len(items) + skip)

\* The checks before any render, in the handler's order.  A named template
\* passes Validate too.
RefuseLayout == pc = "check" /\ ~Validate(layout) /\ Answer("bad layout")
RefuseEmpty  == pc = "check" /\ Validate(layout) /\ items = <<>> /\ Answer("no labels")
RefuseSkip   == /\ pc = "check" /\ Validate(layout) /\ items # <<>>
                /\ ~SkipInRange /\ Answer("bad skip")
RefuseTotal  == /\ pc = "check" /\ Validate(layout) /\ items # <<>> /\ SkipInRange
                /\ Sum > MaxBatchItems /\ Answer("too many labels")
Admit ==
    /\ pc = "check" /\ Validate(layout) /\ items # <<>> /\ SkipInRange
    /\ Sum <= MaxBatchItems
    /\ pc' = "run"
    /\ UNCHANGED <<request, answer, cells, images, refs, total, objs, page>>

\* batch.Run fails as a whole when its context ends.
RunCancelled == pc = "run" /\ Answer("cancelled")

\* Mutant: a failed item leaves no cell, and the labels after it move up.
BugCellsOf(its) == [i \in 1 .. skip |-> Blank] \o SelectSeq(its, LAMBDA b : b # Fails)

\* The skipped positions, then one cell per item: blank when it failed.
CellsOf(its) == [i \in 1 .. skip |-> Blank]
                \o [i \in 1 .. Len(its) |-> IF its[i] = Fails THEN Blank ELSE its[i]]

\* The cells are allocated with room for skip and the results; a negative
\* capacity would panic.
RunDone ==
    /\ pc = "run"
    /\ IF Sum < 0
       THEN Answer("panic in make")
       ELSE /\ cells' = CellsOf(items)
            /\ pc' = "compose"
            /\ UNCHANGED <<request, answer, images, refs, total, objs, page>>

RefuseCells == pc = "compose" /\ Len(cells) > MaxCells /\ Answer("too many cells")
Compose ==
    /\ pc = "compose" /\ Len(cells) <= MaxCells
    /\ pc' = "decode"
    /\ UNCHANGED <<request, answer, cells, images, refs, total, objs, page>>

-----------------------------------------------------------------------------
\* decodeCells, one turn per cell.
Here == cells[Len(refs) + 1]

Seen == {k \in DOMAIN images : images[k] = Here}

DecodeBlank ==
    /\ pc = "decode" /\ Len(refs) < Len(cells) /\ Here = Blank
    /\ refs' = Append(refs, -1)
    /\ UNCHANGED <<request, pc, answer, cells, images, total, objs, page>>

DecodeSeen ==
    /\ pc = "decode" /\ Len(refs) < Len(cells) /\ Here # Blank /\ Seen # {}
    /\ refs' = Append(refs, (CHOOSE k \in Seen : TRUE) - 1)
    /\ UNCHANGED <<request, pc, answer, cells, images, total, objs, page>>

\* decodePNG reads it and accepts its size.
Printable(b) == b \in Pngs /\ Pixels(b) > 0 /\ Pixels(b) <= maxImagePixels

Decodable == Printable(Here)

DecodeBad ==
    /\ pc = "decode" /\ Len(refs) < Len(cells) /\ Here # Blank /\ Seen = {}
    /\ \/ ~Decodable /\ Answer("bad image")
       \/ Decodable /\ total + Pixels(Here) > maxTotalPixels /\ Answer("too many pixels")

DecodeNew ==
    /\ pc = "decode" /\ Len(refs) < Len(cells) /\ Here # Blank /\ Seen = {}
    /\ Decodable /\ total + Pixels(Here) <= maxTotalPixels
    /\ total' = total + Pixels(Here)
    /\ refs' = Append(refs, Len(images))
    /\ images' = Append(images, Here)
    /\ UNCHANGED <<request, pc, answer, cells, objs, page>>

-----------------------------------------------------------------------------
\* The objects: catalog, page tree, font, the images, then a content stream
\* and a page object for each sheet.  Their numbers are computed beforehand.
firstImageObj == 4
firstPageObj  == firstImageObj + Len(images)

Magnitude(x) == IF x < 0 THEN -x ELSE x

\* Go's division: towards zero.
Quotient(a, b) == LET q == Magnitude(a) \div Magnitude(b)
                  IN  IF (a < 0) = (b < 0) THEN q ELSE -q

\* Negative, or zero, where the product of cols and rows wrapped below zero.
PageCount == Quotient(Len(cells) + PerPage(layout) - 1, PerPage(layout))

Object(kind) == [kind |-> kind, kids |-> <<>>, body |-> Blank, draws |-> {}, uses |-> {},
                 contents |-> 0]

\* The number of pages is a division by PerPage, which no check makes positive.
DivideByZero == /\ pc = "decode" /\ Len(refs) = Len(cells)
                /\ PerPage(layout) = 0 /\ Answer("panic dividing")

\* The kids of the page tree are allocated by that number.
TooFewPages == /\ pc = "decode" /\ Len(refs) = Len(cells)
               /\ PerPage(layout) # 0 /\ PageCount < 0 /\ Answer("panic making pages")

BeginPdf ==
    /\ pc = "decode" /\ Len(refs) = Len(cells) /\ PerPage(layout) # 0 /\ PageCount >= 0
    /\ objs' = << Object("catalog"),
                  [Object("pages") EXCEPT
                      !.kids = [p \in 1 .. PageCount |-> firstPageObj + 2 * (p - 1) + 1]],
                  Object("font") >>
               \o [k \in DOMAIN images |-> [Object("image") EXCEPT !.body = images[k]]]
    /\ pc' = "pages"
    /\ UNCHANGED <<request, answer, cells, images, refs, total, page>>

\* The positions of the cells pages[from:to] that hold an image.
Drawn(from, to) == {i \in from .. (to - 1) : refs[i + 1] >= 0}

SmallerOf(a, b) == IF a <= b THEN a ELSE b

ContentObj(p) == firstPageObj + 2 * p

\* One sheet: pageContent draws the images of its cells by name, where there is
\* room, and pageObject names the images of those cells in the resources.
WritePage ==
    /\ pc = "pages" /\ page < PageCount /\ PerPage(layout) > 0
    /\ LET from == page * PerPage(layout)
           to   == SmallerOf(from + PerPage(layout), Len(cells))
       IN  objs' = objs \o <<
               [Object("content") EXCEPT
                   !.draws = {[at |-> i - from, im |-> refs[i + 1]] :
                                  i \in {j \in Drawn(from, to) : Room(layout) > 0}}],
               [Object("page") EXCEPT
                   !.uses = {[im |-> refs[i + 1], obj |-> firstImageObj + refs[i + 1]] :
                                 i \in Drawn(from, to)},
                   !.contents = ContentObj(page)] >>
    /\ page' = page + 1
    /\ UNCHANGED <<request, pc, answer, cells, images, refs, total>>

\* A negative count of cells ends the slice before its beginning, and the panic
\* takes the document with it.
SliceBackwards ==
    /\ pc = "pages" /\ page < PageCount /\ PerPage(layout) < 0
    /\ pc' = "answered" /\ answer' = "panic slicing" /\ objs' = <<>>
    /\ UNCHANGED <<request, cells, images, refs, total, page>>

PrintSheet ==
    /\ pc = "pages" /\ page = PageCount
    /\ Answer("sheet")

\* The handler has returned.
Rest == pc = "answered" /\ UNCHANGED vars

Next == \/ RefuseLayout \/ RefuseEmpty \/ RefuseSkip \/ RefuseTotal \/ Admit
        \/ RunCancelled \/ RunDone \/ RefuseCells \/ Compose
        \/ DecodeBlank \/ DecodeSeen \/ DecodeBad \/ DecodeNew
        \/ DivideByZero \/ TooFewPages \/ BeginPdf \/ WritePage \/ SliceBackwards
        \/ PrintSheet \/ Rest

Spec == Init /\ [][Next]_vars

-----------------------------------------------------------------------------
Printed == answer = "sheet"

\* The types; a reference made by decodeCells is to an image it has.
TypeOK ==
    /\ layout \in Layouts /\ items \in Seq(Bodies \cup {Fails}) /\ skip \in Skips
    /\ pc \in {"check", "run", "compose", "decode", "pages", "answered"}
    /\ pc = "answered" <=> answer # "none"
    /\ cells \in Seq(Bodies \cup {Blank}) /\ images \in Seq(Pngs)
    /\ Len(refs) <= Len(cells)
    /\ \A i \in DOMAIN refs : refs[i] \in -1 .. (Len(images) - 1)
    /\ total \in Nat /\ page \in Nat
    /\ \A n \in DOMAIN objs : objs[n].kind \in {"catalog", "pages", "font", "image",
                                                "content", "page"}

ObjectsOf(kind) == {n \in DOMAIN objs : objs[n].kind = kind}

\* The object numbers Compose computes beforehand are the numbers the objects
\* get: a page's contents are its own content stream, every image the stream
\* draws is named once in the page's resources and is the object of that
\* image, and the page tree of a printed sheet lists every page object.
RefsResolve ==
    /\ \A n \in ObjectsOf("page") :
        /\ objs[n].contents = n - 1 /\ objs[n - 1].kind = "content"
        /\ \A d \in objs[n - 1].draws :
              \E u \in objs[n].uses : u.im = d.im
        /\ \A u \in objs[n].uses :
              u.obj \in ObjectsOf("image") /\ objs[u.obj].body = images[u.im + 1]
        /\ \A u, v \in objs[n].uses : u.im = v.im => u = v
    /\ Printed => {objs[2].kids[p] : p \in DOMAIN objs[2].kids} = ObjectsOf("page")

\* What is drawn on the sheet, as positions counted from its first page.
OnSheet == UNION {{[pos  |-> (p - 1) * PerPage(layout) + d.at,
                    body |-> images[d.im + 1]] :
                       d \in objs[objs[objs[2].kids[p]].contents].draws} :
                  p \in DOMAIN objs[2].kids}

\* The product of cols and rows has not wrapped to zero or below.  Validate does
\* not ask it: a sheet whose product did is an empty document, or a panic.
Countable == PerPage(layout) > 0

\* Label i of a printed sheet is at the i-th position after the skipped ones,
\* whatever failed, repeated or was blank before it, and nothing else is drawn,
\* on every grid whose cells can be counted.
LabelsInPlace ==
    Printed /\ Countable => OnSheet = {[pos |-> skip + i - 1, body |-> items[i]] :
                             i \in {j \in DOMAIN items : items[j] # Fails /\ Room(layout) > 0}}

\* Every label of a printed sheet is inside the paper, apart from its
\* neighbours, and on a position of the grid.
LabelsOnPaper ==
    Printed => \A n \in ObjectsOf("content") : \A d \in objs[n].draws :
        /\ OnPage(layout, d.at) /\ InsidePage(layout, d.at)
        /\ \A e \in objs[n].draws : d.at # e.at => Apart(layout, d.at, e.at)

\* An image is stored once however many cells repeat it, in whatever order:
\* this is what lets the pixel limit bound the memory of a document.
EachImageOnce == \A j, k \in DOMAIN images : images[j] = images[k] => j = k

\* The pixels of the images held in memory.
PixelsHeld == LET held[k \in 0 .. Len(images)] ==
                      IF k = 0 THEN 0 ELSE held[k - 1] + Pixels(images[k])
              IN  held[Len(images)]

\* The images held in memory never have more pixels than a document may.
BoundedPixels == PixelsHeld <= maxTotalPixels

\* No skip that is accepted makes the count of labels wrap: the cells are never
\* allocated with a negative capacity.
SkipIsBounded == answer # "panic in make"

-----------------------------------------------------------------------------
\* A comment of handleSheet says that one bad row does not cost the whole
\* sheet: a sheet with a label that can be printed is not refused as a bad
\* image because of another one.
OneBadRow == answer = "bad image" => \A i \in DOMAIN items : ~Printable(items[i])

\* The labels of a sheet are on its paper and apart, an image is stored once,
\* and no skip makes the count of labels wrap, whatever the request and the grid
\* (handleSheet, Compose).
SheetSound == LabelsOnPaper /\ EachImageOnce /\ SkipIsBounded

\* Every label is on the sticker that is its own, in a document whose references
\* resolve and whose pixels are bounded (Compose, decodeCells).
SheetDrawn == RefsResolve /\ LabelsInPlace /\ BoundedPixels
=============================================================================
