------------------------------ MODULE Decoder ------------------------------
(***************************************************************************)
(* Reading codes out of an upload (internal/decoder, and decode_handler.go *)
(* of internal/httpapi): the caps before any pixel exists, the readers a   *)
(* filter leaves, and the search of an image for every code in it, which   *)
(* cuts away what it has read and looks at the strips around it.           *)
(*                                                                         *)
(* Lengths are in units of the smallest strip worth a scan.  A code is     *)
(* [sym, data, x, y, w, h, linear, whole]: a linear one is read along any  *)
(* of its rows, another needs all of itself; one that is not whole is seen *)
(* and cannot be read.  Which code a reader meets first is the library's.  *)
(***************************************************************************)
EXTENDS Integers, Sequences

CONSTANTS Uploads,        \* [transport, named, well, wanted, multi, image]
          MaxBody,        \* BARQR_MAX_BODY: also Options.MaxBytes
          MaxPixels,      \* BARQR_MAX_CANVAS_PX
          MaxDepth, ScanBudget, MinDimension

\* A code lies in the image that has it.
ASSUME UploadsAssumption ==
  /\ MaxBody \in Nat /\ MaxPixels \in Nat
  /\ MaxDepth \in Nat /\ ScanBudget \in Nat \ {0} /\ MinDimension \in Nat
  /\ \A u \in Uploads :
       /\ u.multi \in BOOLEAN /\ u.image.corrupt \in BOOLEAN
       /\ u.image.bytes \in Nat /\ u.image.declared \in Nat
       /\ u.image.w \in Nat \ {0} /\ u.image.h \in Nat \ {0}
       /\ \A c \in u.image.codes :
            /\ c.x \in Nat /\ c.w \in Nat \ {0} /\ c.x + c.w <= u.image.w
            /\ c.y \in Nat /\ c.h \in Nat \ {0} /\ c.y + c.h <= u.image.h
            /\ c.linear \in BOOLEAN /\ c.whole \in BOOLEAN

VARIABLES at,             \* where handleDecode stands
          upload,
          wanted,         \* POSSIBLE_FORMATS, in the caller's order
          inflated,       \* pixels exist
          todo,           \* rectangles still to walk, the next one first
          budget, scans, pruned,
          found,          \* s.out
          cancelled, said

decoderVars == <<at, upload, wanted, inflated, todo, budget, scans, pruned,
                 found, cancelled, said>>

Image == upload.image
NoCode == ""
Silent == [status |-> 0, code |-> NoCode]
Say(status, code) == [status |-> status, code |-> code]

\* formatMap, in scan order; PDF417 is named and has no reader.
FormatMap == <<"qr", "datamatrix", "aztec", "pdf417", "ean13", "ean8", "upca", "upce",
               "code128", "code93", "code39", "itf", "codabar">>
Named    == {FormatMap[i] : i \in DOMAIN FormatMap}
HasReader(name) == name \in Named \ {"pdf417"}
UpcEan   == {"ean13", "ean8", "upca", "upce"}

\* PossibleFormats: the first name that cannot be read refuses the filter.
Unreadable(names) == {i \in DOMAIN names : ~HasReader(names[i])}
FilterFault(names) ==
  IF Unreadable(names) = {} THEN Silent
  ELSE LET i == CHOOSE i \in Unreadable(names) : \A j \in Unreadable(names) : i <= j
       IN  IF names[i] \in Named THEN Say(501, "SYMBOLOGY_UNAVAILABLE")
           ELSE Say(400, "UNKNOWN_SYMBOLOGY")

\* buildReaders: one reader per wanted format, one for the four retail ones,
\* in the order of the map; each is the set of symbologies it may report.
Wants(names, f) == names = <<>> \/ \E i \in DOMAIN names : names[i] = f
Readers(names) ==
  LET kept(i) == /\ Wants(names, FormatMap[i]) /\ HasReader(FormatMap[i])
                 /\ FormatMap[i] \in UpcEan =>
                      ~ \E j \in 1..(i - 1) : FormatMap[j] \in UpcEan /\ Wants(names, FormatMap[j])
      reports(i) == IF FormatMap[i] \in UpcEan
                    THEN {f \in UpcEan : Wants(names, f)} ELSE {FormatMap[i]}
      list[i \in 0..Len(FormatMap)] ==
        IF i = 0 THEN <<>> ELSE IF kept(i) THEN Append(list[i - 1], reports(i)) ELSE list[i - 1]
  IN  list[Len(FormatMap)]

-----------------------------------------------------------------------------
DecoderInit ==
  /\ at = "upload" /\ upload \in Uploads /\ wanted = <<>> /\ inflated = FALSE
  /\ todo = <<>> /\ budget = ScanBudget /\ scans = 0 /\ pruned = FALSE
  /\ found = <<>> /\ cancelled = FALSE /\ said = Silent

Answer(s) == at' = "answered" /\ said' = s

\* decodeInput: the part, the field or the body that holds the image, whole or
\* not at all.
InputFault ==
  IF upload.transport = "multipart" /\ ~upload.well THEN Say(400, "BAD_REQUEST")
  ELSE IF upload.transport \in {"multipart", "json"} /\ ~upload.named THEN Say(400, "MISSING_DATA")
  ELSE IF upload.transport = "json" /\ ~upload.well THEN Say(400, "INVALID_VALUE")
  ELSE IF upload.transport # "json" /\ Image.bytes > MaxBody THEN Say(413, "BODY_TOO_LARGE")
  ELSE IF upload.transport = "bare" /\ Image.bytes = 0 THEN Say(400, "MISSING_DATA")
  ELSE Silent

ReadInput ==
  /\ at = "upload"
  /\ IF InputFault # Silent THEN Answer(InputFault) ELSE at' = "header" /\ UNCHANGED said
  /\ UNCHANGED <<upload, wanted, inflated, todo, budget, scans, pruned, found, cancelled>>

Cancelled == Say(500, "INTERNAL")      \* decodeFault knows no context error

\* LoadImage up to the header: size, then the declared pixels.
HeaderFault ==
  CASE Image.bytes = 0              -> Say(400, "INVALID_VALUE")
    [] Image.bytes > MaxBody        -> Say(413, "CANVAS_TOO_LARGE")
    [] OTHER -> IF cancelled THEN Cancelled
                ELSE IF Image.declared = 0 THEN Say(400, "INVALID_VALUE")
                ELSE IF Image.declared > MaxPixels THEN Say(413, "CANVAS_TOO_LARGE")
                ELSE Silent

LoadHeader ==
  /\ at = "header"
  /\ IF HeaderFault # Silent THEN Answer(HeaderFault) ELSE at' = "pixels" /\ UNCHANGED said
  /\ UNCHANGED <<upload, wanted, inflated, todo, budget, scans, pruned, found, cancelled>>

\* Then the pixels, of which there may be more than the header claimed.
PixelsFault ==
  CASE Image.corrupt -> Say(400, "INVALID_VALUE")
    [] ~Image.corrupt /\ cancelled -> Cancelled
    [] OTHER -> IF Image.w * Image.h > MaxPixels THEN Say(413, "CANVAS_TOO_LARGE") ELSE Silent

LoadPixels ==
  /\ at = "pixels"
  /\ inflated' = TRUE
  /\ IF PixelsFault # Silent THEN Answer(PixelsFault) ELSE at' = "formats" /\ UNCHANGED said
  /\ UNCHANGED <<upload, wanted, todo, budget, scans, pruned, found, cancelled>>

\* DecodeImage: the filter, and the whole image to look at.
Whole == [x |-> 0, y |-> 0, w |-> Image.w, h |-> Image.h, depth |-> 0]
Filter ==
  /\ at = "formats"
  /\ IF cancelled THEN Answer(Cancelled) /\ UNCHANGED <<wanted, todo>>
     ELSE IF FilterFault(upload.wanted) # Silent
     THEN Answer(FilterFault(upload.wanted)) /\ UNCHANGED <<wanted, todo>>
     ELSE /\ wanted' = upload.wanted /\ todo' = <<Whole>> /\ at' = "scan" /\ UNCHANGED said
  /\ UNCHANGED <<upload, inflated, budget, scans, pruned, found, cancelled>>

-----------------------------------------------------------------------------
\* Whether a code can be met in a rectangle, and the rows it can be met on.
Across(c, r) == r.x <= c.x /\ c.x + c.w <= r.x + r.w
Rows(c, r) == IF c.linear THEN {y \in c.y..(c.y + c.h - 1) : r.y <= y /\ y < r.y + r.h}
              ELSE IF r.y <= c.y /\ c.y + c.h <= r.y + r.h THEN {c.y} ELSE {}
Visible(r) == {c \in Image.codes : Across(c, r) /\ Rows(c, r) # {}}

\* scan: what the first reader that can read something here reads; when none
\* can, whether one saw something it could not.
Readable(r, i) == {c \in Visible(r) : c.whole /\ c.sym \in Readers(wanted)[i]}
Hits(r) ==
  LET able == {i \in DOMAIN Readers(wanted) : Readable(r, i) # {}}
  IN  IF able = {} THEN {}
      ELSE Readable(r, CHOOSE i \in able : \A j \in able : i <= j)
Damaged(r) == \E c \in Visible(r) : ~c.whole /\ \E i \in DOMAIN Readers(wanted) : c.sym \in Readers(wanted)[i]

\* The box of a hit in the rectangle's own coordinates: a linear code gives
\* the ends of one line.
Box(c, row, r) == [x |-> c.x - r.x, y |-> row - r.y, w |-> c.w,
                   h |-> IF c.linear THEN 0 ELSE c.h]

\* A strip is kept for its own side, whatever the other.
Kept(s) == IF s.own > MinDimension THEN <<s>> ELSE <<>>

BugStrips(b, r) ==
  Kept([x |-> 0, y |-> 0, w |-> b.x, h |-> b.y, own |-> b.x])
  \o Kept([x |-> b.x + b.w, y |-> b.y + b.h, w |-> r.w - (b.x + b.w),
           h |-> r.h - (b.y + b.h), own |-> r.w - (b.x + b.w)])

\* surrounding: the four strips outside the box, each of the full other side
\* and kept for its own.
Strips(b, r) ==
  Kept([x |-> 0, y |-> 0, w |-> b.x, h |-> r.h, own |-> b.x])
  \o Kept([x |-> 0, y |-> 0, w |-> r.w, h |-> b.y, own |-> b.y])
  \o Kept([x |-> b.x + b.w, y |-> 0, w |-> r.w - (b.x + b.w), h |-> r.h,
           own |-> r.w - (b.x + b.w)])
  \o Kept([x |-> 0, y |-> b.y + b.h, w |-> r.w, h |-> r.h - (b.y + b.h),
           own |-> r.h - (b.y + b.h)])

\* Crop and recurse, with the strip's offset added to the rectangle's.
Crop(s, r) == [x |-> r.x + s.x, y |-> r.y + s.y, w |-> s.w, h |-> s.h, depth |-> r.depth + 1]

\* toResult: the points in the caller's coordinates.
Result(c, b, r) == [sym |-> c.sym, data |-> c.data,
                    points |-> {<<b.x + r.x, b.y + r.y>>, <<b.x + b.w + r.x, b.y + b.h + r.y>>}]
Seen(c) == \E i \in DOMAIN found : found[i].sym = c.sym /\ found[i].data = c.data

BugUnbudgeted(r) == r.depth > MaxDepth
Spent(r) == r.depth > MaxDepth \/ budget <= 0

\* walk, one rectangle of it.
Walk ==
  /\ at = "scan" /\ upload.multi /\ todo # <<>>
  /\ LET r == Head(todo)
     IN  IF Spent(r)
         THEN /\ pruned' = TRUE /\ todo' = Tail(todo)
              /\ UNCHANGED <<at, said, budget, scans, found>>
         ELSE /\ budget' = budget - 1 /\ scans' = scans + 1 /\ UNCHANGED pruned
              /\ IF cancelled THEN Answer(Cancelled) /\ UNCHANGED <<todo, found>>
                 ELSE IF Hits(r) = {} THEN todo' = Tail(todo) /\ UNCHANGED <<at, said, found>>
                 ELSE \E c \in Hits(r) : \E row \in Rows(c, r) :
                        LET b == Box(c, row, r)
                            subs == [i \in DOMAIN Strips(b, r) |-> Crop(Strips(b, r)[i], r)]
                        IN  /\ todo' = subs \o Tail(todo)
                            /\ found' = IF Seen(c) THEN found
                                        ELSE Append(found, Result(c, b, r))
                            /\ UNCHANGED <<at, said>>
  /\ UNCHANGED <<upload, wanted, inflated, cancelled>>

WalkEnds ==
  /\ at = "scan" /\ upload.multi /\ todo = <<>>
  /\ Answer(IF found = <<>> THEN Say(404, "NOT_FOUND") ELSE Say(200, NoCode))
  /\ UNCHANGED <<upload, wanted, inflated, todo, budget, scans, pruned, found, cancelled>>

\* decodeFirst: one scan, whose damage is the answer.
First ==
  /\ at = "scan" /\ ~upload.multi
  /\ scans' = scans + 1
  /\ IF cancelled THEN Answer(Cancelled) /\ UNCHANGED found
     ELSE IF Hits(Whole) # {}
     THEN \E c \in Hits(Whole) : \E row \in Rows(c, Whole) :
            /\ found' = <<Result(c, Box(c, row, Whole), Whole)>> /\ Answer(Say(200, NoCode))
     ELSE Answer(IF Damaged(Whole) THEN Say(422, "INVALID_DATA") ELSE Say(404, "NOT_FOUND"))
          /\ UNCHANGED found
  /\ UNCHANGED <<upload, wanted, inflated, todo, budget, pruned, cancelled>>

Cancel ==
  /\ at # "answered" /\ ~cancelled /\ cancelled' = TRUE
  /\ UNCHANGED <<at, upload, wanted, inflated, todo, budget, scans, pruned, found, said>>

DecoderStep == ReadInput \/ LoadHeader \/ LoadPixels \/ Filter \/ Walk \/ WalkEnds \/ First
DecoderNext == DecoderStep \/ Cancel
DecoderSpec == DecoderInit /\ [][DecoderNext]_decoderVars /\ WF_decoderVars(DecoderStep)

-----------------------------------------------------------------------------
DecoderTypeOK ==
  /\ at \in {"upload", "header", "pixels", "formats", "scan", "answered"}
  /\ (at = "answered") <=> (said # Silent)
  /\ \A i \in DOMAIN todo : todo[i].depth \in 0..(MaxDepth + 1)

\* An image is bounded before it exists: no pixel is made of an upload that is
\* over the byte cap or declares too many, none is scanned over the cap
\* (image.go LoadImage).
BoundedBeforePixels ==
  /\ inflated => Image.bytes \in 1..MaxBody /\ Image.declared \in 1..MaxPixels
  /\ scans > 0 => Image.w * Image.h <= MaxPixels

\* The strips fan out four ways a level; the budget bounds them all, and every
\* one lies within the image (decoder.go walk, multiScanBudget).
BoundedSearch ==
  /\ scans <= ScanBudget
  /\ \A i \in DOMAIN todo : LET r == todo[i] IN
       r.x >= 0 /\ r.y >= 0 /\ r.w > 0 /\ r.h > 0
       /\ r.x + r.w <= Image.w /\ r.y + r.h <= Image.h

\* What is reported is there: its points lie on a code of the caller's image
\* that says so, through however many crops it was found (toResult).
PointsTrue ==
  \A i \in DOMAIN found : \E c \in Image.codes :
    /\ c.sym = found[i].sym /\ c.data = found[i].data /\ c.whole
    /\ upload.wanted = <<>> \/ \E j \in DOMAIN upload.wanted : upload.wanted[j] = c.sym
    /\ \A p \in found[i].points : /\ c.x <= p[1] /\ p[1] <= c.x + c.w
                                  /\ c.y <= p[2] /\ p[2] <= c.y + c.h

\* The overlap of the strips reports nothing twice (decoder.go seen).
NoDuplicates ==
  \A i, j \in DOMAIN found :
    found[i].sym = found[j].sym /\ found[i].data = found[j].data => i = j

\* "A code sitting diagonally must fall inside at least one": a search that
\* ran out of neither depth nor budget missed no code that can be read
\* (decoder.go surrounding).
AllFound ==
  (at = "answered" /\ upload.multi /\ said.status \in {200, 404} /\ ~pruned)
    => \A c \in Image.codes :
         (c.whole /\ HasReader(c.sym) /\ (upload.wanted = <<>> \/ \E j \in DOMAIN upload.wanted : upload.wanted[j] = c.sym))
           => Seen(c)

\* The images of which that can be promised: their codes do not overlap, and
\* none is so small that a strip which holds it is a sliver (multiMinDimension).
Apart(c, e) == \/ c.x + c.w <= e.x \/ e.x + e.w <= c.x
               \/ c.y + c.h <= e.y \/ e.y + e.h <= c.y
Large(c) == c.w > MinDimension /\ c.h > MinDimension
SeparateCodes ==
  \A u \in Uploads : \A c, e \in u.image.codes : Large(c) /\ (c = e \/ Apart(c, e))

\* The work an upload can cause is bounded, at the header, at the pixels and in
\* the walk (LoadImage, walk).
SearchBounded == BoundedBeforePixels /\ BoundedSearch

\* The report of an upload is its codes: each that the walk can reach, once,
\* and where it is (walk, toResult).
CodesReported == PointsTrue /\ NoDuplicates /\ AllFound
=============================================================================
