-------------------------------- MODULE Calls --------------------------------
(***************************************************************************)
(* The pure parts of the program, called one at a time on bounded inputs:  *)
(* a matrix becomes a canvas and a report (Drawing), a canvas becomes what *)
(* a writer inks (Writers), a ramp is sampled (Drawing), a payload is built  *)
(* and parsed (Builders), a text is taken or refused by a symbology        *)
(* (Symbols), a place becomes a link (MapLinks), a table becomes items     *)
(* (Intake).  They keep nothing and share nothing, so that the state is    *)
(* the call in hand, and what the functions promise are invariants of it;  *)
(* a payload that was built is read back, and what was read built again.   *)
(***************************************************************************)
EXTENDS Writers

B == INSTANCE Builders
Y == INSTANCE Symbols
P == INSTANCE MapLinks
I == INSTANCE Intake

CONSTANTS
    Drawings,    \* pairs of a matrix and a style
    Scales,      \* image pixels per module
    RampArgs,    \* lists of gradient stops as the caller wrote them
    Sizings,     \* records [cols, rows, o]
    maxPixels,   \* Options.MaxPixels, as a word
    Captions,    \* records [n, w, h, scale]
    Inks,        \* colours, as records [v, a]
    Payloads,    \* pairs of a payload type and a payload
    Scans,       \* texts read from symbols
    Keys,        \* field names, as words
    Barcodes,       \* triples of a symbology, a payload and options
    Places,      \* triples of a text, options and the point it means, if any
    Batches,     \* requests for a batch
    MaxItems     \* BARQR_MAX_BATCH_ITEMS, or 0

\* Only square symbols have finder patterns, none is narrower than a bubble's tail, and an
\* encoder draws a finder pattern as the writers do that paint it whole.
ASSUME DrawingsAssumption ==
  \A d \in Drawings : /\ d \in Matrix \X Style
                      /\ d[1].symbology = "qr" => d[1].kind = "2d"
                      /\ d[1].cols >= 2 * BubbleTailModules
                      /\ hasFinderPatterns(d[1]) =>
                           EyeInk(Corners(d[1], 0)) =
                             d[1].dark \cap UNION {Block(p[1], p[2], eyeSize) : p \in Corners(d[1], 0)}

\* A channel and an alpha are bytes.
ASSUME InksAssumption  == Inks \subseteq [v : 0 .. 255, a : 0 .. 255]
ASSUME RampsAssumption == \A args \in RampArgs : args \in Seq([color : 0 .. 255, at : Int])

\* A field name is a word; a payload of a symbology is of the characters told apart here.
ASSUME KeysAssumption     == Keys \subseteq Seq(STRING)
ASSUME BarcodesAssumption ==
  Barcodes \subseteq (DOMAIN Y!Caps) \X Seq(Y!Utf8) \X [auto : BOOLEAN, ecc : STRING]

\* A batch is its output, its items and its table; a table begins with its header.
ASSUME BatchesAssumption ==
  /\ MaxItems \in Nat
  /\ \A req \in Batches :
       /\ req = [output |-> req.output, items |-> req.items, csv |-> req.csv]
       /\ req.csv \in I!Table /\ (req.csv.header = <<>> => req.csv.rows = <<>>)

VARIABLE call

Idle == [op |-> "idle"]

Init == call = Idle

Draw == /\ call = Idle
        /\ \E d \in Drawings :
             call' = LET Answer(c) == [op |-> "draw", m |-> d[1], s |-> d[2], c |-> c,
                                       found |-> IF c.ok THEN Findings(c) ELSE <<>>]
                     IN  Answer(Render(d[1], d[2]))

Ramp == /\ call = Idle
        /\ \E args \in RampArgs : call' = [op |-> "ramp", args |-> args, r |-> ParseGradient(args)]

Size == /\ call = Idle
        /\ \E z \in Sizings :
             call' = [op |-> "size", z |-> z, r |-> PixelSize(z.cols, z.rows, z.o, maxPixels)]

Caption == /\ call = Idle
           /\ \E q \in Captions :
                call' = [op |-> "caption", q |-> q, r |-> fitCaption(Face, q.n, q.w, q.h, q.scale)]

Ink == /\ call = Idle
       /\ \E p, bg \in Inks : call' = [op |-> "ink", p |-> p, bg |-> bg]

\* What may be built: a payload, or what a builder read in the symbol in hand.
Payable == CASE call = Idle      -> Payloads
             [] call.op = "scan" -> {<<t, call.reads[t].v>> :
                                       t \in {u \in B!Types \ ({"raw", "text"} \ {call.t}) : call.reads[u].ok}}
             [] OTHER            -> {}
Unbuilt == [t |-> "none"]
Build == \E q \in Payable :
           call' = [op |-> "build", t |-> q[1], p |-> q[2], r |-> B!Build(q[1], q[2]),
                    was |-> IF call = Idle THEN Unbuilt ELSE [t |-> call.t, p |-> call.p, v |-> call.raw]]

\* A text read from a symbol, foreign or one that was built, is offered to every builder.
Readable == CASE call = Idle                   -> Scans
              [] call.op = "build" /\ call.r.ok -> {call.r.v}
              [] OTHER                         -> {}
Scan == \E raw \in Readable :
          LET mine == call # Idle
          IN  call' = [op |-> "scan", t |-> IF mine THEN call.t ELSE "none",
                       p |-> IF mine THEN call.p ELSE <<>>, raw |-> raw, reads |-> B!Reads(raw)]

Suggest == /\ call = Idle
           /\ \E a, b \in Keys : call' = [op |-> "suggest", a |-> a, b |-> b]

Encode == /\ call = Idle
          /\ \E q \in Barcodes : \E holds \in Y!Holding(q[1], q[2]) :
               call' = [op |-> "encode", sym |-> q[1], data |-> q[2], o |-> q[3],
                        r |-> Y!Encode(q[1], q[2], q[3], holds)]

Locate == /\ call = Idle
          /\ \E q \in Places :
               call' = [op |-> "locate", o |-> q[2], means |-> q[3], r |-> P!Resolve(q[1], q[2]),
                        built |-> P!Build(q[1], q[2])]

Take == /\ call = Idle
        /\ \E req \in Batches : call' = [op |-> "take", req |-> req, r |-> I!Run(req, MaxItems)]

Return == call # Idle /\ call' = Idle

Next == Draw \/ Ramp \/ Size \/ Caption \/ Ink \/ Build \/ Scan \/ Suggest \/ Encode \/ Locate \/ Take \/ Return

Spec == Init /\ [][Next]_call

-----------------------------------------------------------------------------
(* Drawing and writing.                                                    *)

Canvas == IF call.op = "draw" THEN call.c ELSE Refusal
Shifted(c, q) == <<q[1] + SymbolRect(c).x0, q[2] + SymbolRect(c).y0>>

\* The quiet zone of every canvas is free of dark modules, of the frame, its bar and its
\* tail and of the caption, and no ink leaves the canvas: the arithmetic of pads, bands and
\* tails in frame.go, standard.go and paint.go agree on where the margin is.
MarginsClear ==
  Canvas.ok =>
    LET c      == Canvas
        symbol == Points(SymbolRect(c))
        margin == Points(Inset(SymbolRect(c), -c.quiet)) \ symbol
        decor  == resolveFrame(c) \cup Points(resolveCaption(c))
    IN  /\ c.dark \subseteq symbol
        /\ decor \cap (margin \cup symbol) = {}
        /\ decor \cup margin \subseteq Points(Rect(0, 0, c.cols, c.rows))
        /\ Points(resolveCaption(c)) # {} => Points(resolveCaption(c)) \cap
              (Points(FrameRect(c)) \ Points(Inset(FrameRect(c), c.pad))) = {}

\* The canvas is the matrix: outside the hole cut for a logo every module is as encoded,
\* inside it nothing is dark, and a finder pattern is kept whole wherever the hole lies
\* (Canvas.excavate).
SymbolWhole ==
  Canvas.ok =>
    LET c    == Canvas
        hole == IF c.style.logo.on /\ c.style.logo.excavate THEN Points(excavateRect(c)) \ c.eyes
                ELSE {}
        Source(p) == <<p[1] - SymbolRect(c).x0,
                       IF c.kind = "1d" THEN 0 ELSE p[2] - SymbolRect(c).y0>>
    IN  \A p \in Points(SymbolRect(c)) : At(c, p[1], p[2]) <=> (p \notin hole /\ Source(p) \in call.m.dark)

\* The raster writer finds the finder patterns by scanning roles, the SVG writer by their
\* corners: both find the three corners of the symbol, in whatever frame it sits, or none.
EyesAgree ==
  Canvas.ok => /\ findEyes(Canvas) = svgEyeOrigins(Canvas)
               /\ findEyes(Canvas) = IF ~hasFinderPatterns(call.m) THEN {}
                                     ELSE {Shifted(Canvas, p) : p \in {<<0, 0>>,
                                              <<call.m.cols - eyeSize, 0>>, <<0, call.m.rows - eyeSize>>}}

\* A larger logo, or a weaker correction level under the same logo, never earns a better
\* grade: the thresholds of checkLogo, crossed in any order, only take away.  A picture
\* nearly all dark, which is an error of its own, is left out: a larger hole thins it.
NearlyAllDark(c) == 20 * Cardinality(c.dark) > 19 * (c.cols * c.rows)
MonotoneVerdict ==
  (Canvas.ok /\ Canvas.style.logo.on /\ ~NearlyAllDark(Canvas)) =>
    LET grade == gradeFor(call.found)
        weaker == CASE Canvas.style.ecc = "H" -> "Q" [] Canvas.style.ecc = "Q" -> "M"
                    [] Canvas.style.ecc = "M" -> "L" [] OTHER -> Canvas.style.ecc
        larger == Render(call.m, [call.s EXCEPT !.logo.scale = Least(35, @ + 5)])
    IN  /\ Scannability([Canvas EXCEPT !.style.ecc = weaker]).grade <= grade
        /\ call.s.logo.scale # 0 => Scannability(larger).grade <= grade

\* The report lists what it found, the gravest first and otherwise in the order of the
\* checks; its first issue is an error exactly when the grade says unscannable.
IssuesSorted ==
  Canvas.ok =>
    LET found  == call.found
        report == Report(found)
        With(k) == I!Kept(found, {i \in Y!Range(found) : Rank(i) = k})
    IN  /\ report.issues = With(0) \o With(1) \o With(2)
        /\ report.grade = 0 <=> (found # <<>> /\ report.issues[1].severity = "error")
        /\ report.grade = 3 => \A i \in DOMAIN found : found[i].cost <= 5

\* Whatever path a writer takes to the modules, by runs of one colour on a page counted
\* from the bottom, by pairs of rows, by patterns painted whole or one by one, it inks the
\* dark modules and no other, and no run twice.
EveryModuleDrawn ==
  Canvas.ok => /\ \A format \in {"pdf", "unicode", "svg", "png"} : Inked(format, Canvas) = Canvas.dark
               /\ \A r, q \in vecRuns(Canvas) :
                    (r # q /\ r.y = q.y) => r.x + r.n <= q.x \/ q.x + q.n <= r.x
               /\ \A r \in vecRuns(Canvas) : Canvas.hri > 0 => PageRect(Canvas, r).y0 > baseline(Canvas)

\* Every object a PDF refers to is where its cross-reference table says, with and without
\* a font (pdf.go: "an off-by-one here produces a file that opens in one viewer and is
\* rejected by the next").
PdfResolves ==
  Canvas.ok =>
    LET file == pdfSerialise([i \in 1 .. PdfObjects(Canvas) |-> (i * i) % 4])
    IN  /\ \A i \in PdfRefs(Canvas) : /\ i \in DOMAIN file.offsets
                                      /\ file.bytes[file.offsets[i] + 1] = "obj"
                                      /\ \A k \in 1 .. (i - 1) : file.offsets[k] < file.offsets[i]
        /\ file.bytes[file.startxref + 1] = "xref"

\* A logo whose hole meets a finder pattern is reported: the pattern is kept, and the
\* report says what was refused.
FinderReported ==
  (Canvas.ok /\ Canvas.style.logo.on /\ Canvas.style.logo.excavate
   /\ Points(excavateRect(Canvas)) \cap Canvas.eyes # {}) =>
     \E i \in DOMAIN call.found : call.found[i].severity \in {"warn", "error"}

\* The text under a linear code is inside the image, clear of the bars, and not clipped, at
\* every scale and quiet zone, as long as no frame or caption shares the margin.
TextApart ==
  (Canvas.ok /\ ~drawn(Canvas.style.frame) /\ ~HasCaption(Canvas.style)) =>
    \A scale \in Scales :
      LET w == Canvas.cols * scale
          h == Canvas.rows * scale
          t == layoutHRI(Canvas, Face, w, h, scale)
      IN  IF t.ok THEN /\ t.x >= 0 /\ t.x + t.w <= w
                       /\ t.y > SymbolRect(Canvas).y1 * scale
                       /\ t.y + t.h < h + t.extra
          ELSE Canvas.hri = 0 \/ textWidth(Face, Canvas.hri, 1) > w

\* A ramp's colours lie between those of its stops, are the stops' own at the stops, and
\* never jump over the neighbouring stops.
RampBounded ==
  (call.op = "ramp" /\ call.r.ok) =>
    LET stops == call.r.stops
    IN  /\ stops[1].at >= 0 /\ stops[Len(stops)].at <= Full
        /\ \A t \in 0 .. Full : \E i \in DOMAIN stops :
             LET here == stops[i]
                 next == stops[Least(i + 1, Len(stops))]
                 c    == sample(stops, t)
             IN  /\ t >= here.at \/ i = 1
                 /\ t <= next.at \/ i = Len(stops)
                 /\ Least(here.color, next.color) <= c /\ c <= Largest(here.color, next.color)

\* A size is kept by drawing every module the same whole number of pixels, as many as fit:
\* no side wraps, the image is never wider than asked, misses less than a pixel a module, and
\* has no more pixels than allowed wherever their number is one the machine can hold; where
\* it is not, the cap is checked on what is left of it (CapMeansWhatItSays).
Counted(w, h) == \A i \in 8 .. 16 : Product(w, h, 16)[i] <= IF i = 8 THEN 127 ELSE 0
WithinCap(r)  == ~Exceeds(Product(r.w, r.h, 16), Wide(maxPixels))
PixelsFit ==
  (call.op = "size" /\ call.r.ok) =>
    LET z == call.z
        r == call.r
    IN  /\ Counted(r.w, r.h) => WithinCap(r)
        /\ Product(Word(z.cols), r.scale, 16) = Wide(r.w) /\ Product(Word(z.rows), r.scale, 16) = Wide(r.h)
        /\ z.o.size > 0 =>
             /\ ~Exceeds(r.w, Pixels(z.o))
             /\ Less(Pixels(z.o), Plus(r.w, Word(z.cols)))

\* "Clamping the factors keeps the arithmetic in a range where the real check means what it
\* says" (pipeline.go): with sizes, resolutions and scales as clamped there, a picture that
\* passes the cap has no more pixels than it.
CapMeansWhatItSays == (call.op = "size" /\ call.r.ok) => WithinCap(call.r)

\* A caption is drawn inside its box, shrunk before it is cut, and cut to no less than fits.
CaptionFits ==
  (call.op = "caption" /\ call.r.ok) =>
    LET q == call.q
        r == call.r
    IN  /\ textWidth(Face, r.n, r.pixel) <= q.w /\ Face.rows * r.pixel <= q.h
        /\ r.n < q.n => r.pixel = 1 /\ textWidth(Face, r.n + 1, 1) > q.w
        /\ Cardinality(r.dots) <= 3 /\ r.dots \subseteq 1 .. r.n
        /\ Points(CaptionAt(Face, r, q.w, q.h)) \subseteq Points(Rect(0, 0, q.w, q.h))

\* Blending stays between the two colours, an image is never more transparent than its
\* layers, no division is by zero, and the same ink over the same paper is the same to
\* within one in a picture, on a page and on a terminal.
InksAgree ==
  call.op = "ink" =>
    LET p  == call.p
        bg == call.bg
        r  == Composite(p, bg)
    IN  /\ r.v \in 0 .. 255 /\ r.a \in 0 .. 255 /\ r.a >= p.a /\ r.a >= bg.a
        /\ (bg.a > 0 /\ p.a > 0) => Least(p.v, bg.v) <= r.v /\ r.v <= Largest(p.v, bg.v)
        /\ bg.a = 255 => vecOver(p, bg) - r.v \in {-1, 0, 1}
        /\ bg = White => overWhite(p) - r.v \in {-1, 0, 1}
        /\ backdrop(bg).a = 255

-----------------------------------------------------------------------------
(* Encoding.                                                               *)

Encoded == call.op = "encode" /\ call.r.ok
Plainly == [auto |-> TRUE, ecc |-> ""]
Taken(sym, text) == Y!Admit(sym, text, Plainly) = Y!Accept(text)

\* What a linear encoder lets through its own checks the library draws: its messages, which
\* do not name the digit that was expected or the letters that are missing, are never seen.
LibraryAgrees == Encoded => Y!LibraryTakes(call.sym, call.r.text)

\* One digit mistyped in a whole number is refused, wherever it is; in a UPC-E the last but
\* one says how to read the others, and is not covered.
MistypeRefused ==
  (Encoded /\ call.sym \in Y!Numbered) =>
    \A i \in DOMAIN call.r.text : \A d \in Y!Digits \ {call.r.text[i]} :
      (call.sym = "upce" /\ i = 7) \/ ~Y!Admit(call.sym, [call.r.text EXCEPT ![i] = d], Plainly).ok

\* The text printed under a code is the number the code carries: encoded again it is the
\* same, and the wider codes take it, padded with zeroes or expanded, with its check digit.
SameNumber ==
  (Encoded /\ call.sym \in Y!Numbered) =>
    LET text == call.r.text
        Padded(sym) == Taken(sym, Y!Zeroes(Y!Caps[sym].max - Len(text)) \o text)
    IN  /\ Taken(call.sym, text)
        /\ call.sym = "upce" => Taken("upca", Append(Y!upceExpand(SubSeq(text, 1, 7)), text[8]))
        /\ call.sym = "upca" => Padded("ean13")
        /\ call.sym \in {"ean8", "upca", "ean13"} => Padded("itf14")

\* The capabilities served are those of the encoders: what is encoded is within them, and
\* nothing is refused for its option that they admit.  A line of bars is called too long only
\* beyond its capabilities; in two dimensions their length is an upper bound, and the library
\* may refuse what is within it for want of room (ErrDataTooLong), but no short payload.
CapsHonest ==
  call.op = "encode" =>
    LET caps  == Y!Caps[call.sym]
        fits  == /\ Y!Size(call.sym, call.data) \in 1 .. caps.max
                 /\ caps.lengths # {} => Len(call.data) \in caps.lengths
        level == call.o.auto /\ call.o.ecc \in caps.levels \cup {""}
    IN  IF call.r.ok THEN fits /\ level /\ Y!Range(call.data) \subseteq caps.alphabet
        ELSE /\ call.r.why = "too_long" =>
                  ~fits \/ (call.sym \in Y!Grids /\ Y!Size(call.sym, call.data) > Y!SurelyHeld)
             /\ call.r.why = "option" => ~level

-----------------------------------------------------------------------------
(* Payloads.                                                               *)

\* A payload was built; a text was read, which a builder had made of a payload; a payload
\* that was read was built.
Built   == call.op = "build" /\ call.r.ok
Scanned == call.op = "scan" /\ call.t # "none"
Rebuilt == call.op = "build" /\ call.was # Unbuilt
Given(p, f) == IF f \in DOMAIN p THEN p[f] ELSE <<>>

\* Payloads that are built and not read back: a link in a scheme only allow_any admits
\* (url.go states it), text that looks structured (text.go states it), and, against "every
\* builder round-trips" (docs/API.md), a bookmark whose title is blank, which is written as
\* an empty title and read as none.
NotReread(t, p) ==
  \/ t = "url" /\ B!boolean(Given(p, "allow_any")).v
  \/ t = "text" /\ ~B!TextParse(Given(p, "text")).ok
  \/ t = "bookmark" /\ Given(p, "title") # <<>> /\ B!TrimSpace(Given(p, "title")) = <<>>

\* Parse(Build(p)) recovers a payload that rebuilds to the same string, for every builder
\* and whatever characters of its own grammar the values hold (builder.go).
RoundTrips ==
  /\ (Scanned /\ ~NotReread(call.t, call.p)) => call.reads[call.t].ok
  /\ (Rebuilt /\ call.was.t = call.t) =>
        call.r = B!Yes(call.was.v) \/ NotReread(call.was.t, call.was.p)

Verbatim == [wifi |-> {"ssid", "password"}, email |-> {"subject", "body"}, sms |-> {"message"},
             whatsapp |-> {"message"}, geo |-> {"query"}, raw |-> {"data"}, text |-> {"text"}]
Trimmed  == [mecard |-> {"first_name", "last_name", "address", "note"}, bookmark |-> {"title"},
             location |-> {"location"},
             crypto |-> {"label", "message"}, otp |-> {"issuer", "account"},
             epc |-> {"name", "purpose", "reference", "remittance", "information"}]
Folded   == [vcard |-> {"first_name", "last_name", "org", "title", "street", "city", "region",
                        "postal_code", "country", "note"},
             event |-> {"summary", "location", "description"}]
Derived  == {"auth", "coin", "type"}

\* No value bleeds into another: each free text comes back in its own field as it was
\* given, but for the blanks and line breaks that Build folds, and a field that was not
\* given does not come back.
FieldsKeep ==
  (Scanned /\ call.reads[call.t].ok) =>
    \A f \in DOMAIN call.reads[call.t].v :
      LET here  == call.reads[call.t].v[f]
          given == Given(call.p, f)
          In(sets) == call.t \in DOMAIN sets /\ f \in sets[call.t]
      IN  /\ In(Verbatim) => here = given
          /\ In(Trimmed)  => here = B!TrimSpace(given)
          /\ In(Folded)   => here = B!OneBreak(B!TrimSpace(given))
          /\ (given = <<>> /\ f \notin Derived) => here = <<>>

\* A record that a builder claims is one it would write: what it recovers from any text
\* builds (and what that gives, RoundTrips says, is read back as the same record).  Parse
\* must draw every line where Build does.  It does not for the numbers that are not finite:
\* geo, crypto and epc compare them with their limits, and no comparison with NaN refuses.
NumberFields == {"latitude", "longitude", "altitude", "amount"}
ClaimsRebuild ==
  Rebuilt => call.r.ok \/ \E f \in NumberFields : Given(call.p, f) \in B!NonFinite

\* A symbol made from a structured payload is reported as that payload when it is decoded
\* (decode_handler.go); a link may be any of the payloads that are links.
DecodesAsBuilt ==
  (Scanned /\ call.t \notin {"text", "raw", "url", "whatsapp"} /\ ~NotReread(call.t, call.p)) =>
     B!parseWithBuilders(call.reads) = call.t

\* No text that reads as plain text is one that another builder wrote.
TextIsPlain == (Scanned /\ call.t \notin {"text", "raw", "url"}) => ~call.reads["text"].ok

\* A transfer whose account number has one digit wrong, or two neighbours swapped, is
\* refused.
TransferSafe ==
  (Scanned /\ call.t = "epc") =>
    LET iban == call.reads["epc"].v["iban"]
        Wrong == {[iban EXCEPT ![i] = d] : i \in 3 .. Len(iban), d \in B!Digits}
                 \cup {[iban EXCEPT ![i] = iban[i + 1], ![i + 1] = iban[i]] : i \in 1 .. (Len(iban) - 1)}
    IN  \A x \in Wrong \ {iban} : ~B!EpcBuild(B!Full("epc", [call.p EXCEPT !["iban"] = x])).ok

\* The distance behind "did you mean" is the fewest insertions, deletions and replacements.
DistanceExact ==
  call.op = "suggest" =>
    LET a == call.a
        b == call.b
        d[p \in (0 .. Len(a)) \X (0 .. Len(b))] ==
          LET i == p[1]
              j == p[2]
          IN  IF i = 0 \/ j = 0 THEN i + j
              ELSE IF a[i] = b[j] THEN d[<<i - 1, j - 1>>]
              ELSE 1 + Least(d[<<i - 1, j - 1>>], Least(d[<<i - 1, j>>], d[<<i, j - 1>>]))
    IN  B!levenshtein(a, b) = d[<<Len(a), Len(b)>>]

-----------------------------------------------------------------------------
(* Places.                                                                 *)

\* However a point is written, with letters, signs, minutes, the longitude first, in any
\* map's link, the link made of it opens that point, to the printed precision.  The sign of
\* zero degrees is lost with minutes after it, and such a pair is left out.
SamePoint ==
  (call.op = "locate" /\ call.means # <<>>) =>
    LET r    == call.r
        p    == call.means[1]
        pair == r.url.to.pair[1]
    IN  /\ r.at = call.means
        /\ r.kind # "link" => pair.a = P!fmtCoord(p[1]) /\ pair.b = P!fmtCoord(p[2])

\* A link of one of the three forms that carry their place is read back as a payload that
\* builds it again (location.go).  Left out are a negative coordinate printed as a zero, a
\* point off the globe with a zoom, which only another provider's link or a geo: URI can
\* name, and a destination that reads as a route of its own.
PlacesReread ==
  call.op = "locate" =>
    LET built == call.built
        Zero(a) == a.neg /\ a.d = 0
    IN  (built.ok /\ built.url.form # "as is") =>
           \/ P!Parse(built.url).ok
           \/ \E p \in Y!Range(built.url.to.pair) : Zero(p.a) \/ Zero(p.b)
           \/ (built.url.form = "point" /\ P!ParseCoordinates(built.url.to) = <<>>)
           \/ (built.url.form = "dir" /\ built.url.to.route \o built.url.to.arrow # <<>>)

-----------------------------------------------------------------------------
(* Batches.                                                                *)

Sheeted == call.op = "take" /\ call.req.csv # I!NoDoc /\ call.req.items = <<>> /\ call.req.output = "zip"

\* Every row that says anything becomes one item, in order, with every cell that has a name;
\* rows of commas count neither as items nor towards the limit; a refusal names the first
\* row at fault, by its line in the document.
RowsKept ==
  Sheeted =>
    LET doc  == call.req.csv
        said == I!Kept(doc.rows, {row \in Y!Range(doc.rows) : \E i \in DOMAIN row.cells : row.cells[i] # I!Blank})
        UpTo(k) == [doc EXCEPT !.rows = SubSeq(doc.rows, 1, k)]
        Whole(item, row) == /\ Y!Range(item) = {row.cells[i] : i \in {j \in DOMAIN row.cells :
                                                 row.cells[j] # I!Blank /\ doc.header[j].name # I!Blank}}
                           /\ \A n \in DOMAIN item : \E i \in DOMAIN row.cells :
                                doc.header[i].name = n /\ row.cells[i] = item[n]
    IN  CASE call.r.ok -> /\ Len(call.r.items) = Len(said)
                          /\ \A i \in DOMAIN said : Whole(call.r.items[i], said[i])
          [] ~call.r.ok /\ call.r.why = "too_many" -> Len(said) > MaxItems
          [] ~call.r.ok /\ call.r.why = "empty" -> said = <<>>
          [] OTHER -> \/ call.r.row = 1 /\ ~I!ParseCSV(UpTo(0)).ok
                      \/ \E k \in DOMAIN doc.rows : /\ doc.rows[k].line = call.r.row
                                                    /\ I!ParseCSV(UpTo(k - 1)).ok /\ ~I!ParseCSV(UpTo(k)).ok

\* The order of the columns of a table means nothing: two of them swapped, with their
\* header, give the same items or the same refusal.
ColumnsCommute ==
  Sheeted =>
    LET doc == call.req.csv
        Swap(s, i, j) == [s EXCEPT ![i] = s[j], ![j] = s[i]]
        Swapped(i, j) == [header |-> Swap(doc.header, i, j),
                          rows |-> [k \in DOMAIN doc.rows |-> [doc.rows[k] EXCEPT !.cells = Swap(@, i, j)]]]
    IN  (\A k \in DOMAIN doc.rows : ~I!Ragged(doc.header, doc.rows[k])) =>
           \A i, j \in DOMAIN doc.header : I!Run([call.req EXCEPT !.csv = Swapped(i, j)], MaxItems) = call.r

-----------------------------------------------------------------------------
(* What the runs check, by the question it answers.                        *)

\* A reader finds the symbol: what is drawn around it keeps clear of it, what is drawn on it
\* is a logo's clearing, and both kinds of writers find the same eyes (package render).
SymbolKept == MarginsClear /\ SymbolWhole /\ EyesAgree

\* The scannability report can be acted on: it is sorted, graded by what it holds, and a
\* worse design never fares better (scannability.go).
ReportHonest == MonotoneVerdict /\ IssuesSorted

\* One symbol comes out of every format: each inks the same modules, blends inks alike to
\* within one, keeps a ramp between its stops, and a PDF has every object where its table
\* says (package writer).  Decorations are not compared: PDF and EPS leave some out.
WritersAgree == EveryModuleDrawn /\ InksAgree /\ RampBounded /\ PdfResolves

\* Pixels, as far as they are counted, text and captions fit the room they are given
\* (PixelSize, layoutHRI, caption).
RoomKept == PixelsFit /\ TextApart /\ CaptionFits

\* A built payload can be read back: into the same fields, by the same builder, whatever
\* characters its values hold; and no builder claims what it would not write, but for
\* numbers that are not finite.
PayloadsReread == RoundTrips /\ FieldsKeep /\ ClaimsRebuild /\ DecodesAsBuilt /\ TextIsPlain /\ TransferSafe

\* A mistyped number or key is caught, and a right number is neither refused nor changed.
MistakesCaught == LibraryAgrees /\ MistypeRefused /\ SameNumber /\ CapsHonest /\ DistanceExact

\* A place stays where it is, in every notation and through every provider's link.
PlacesHonest == SamePoint /\ PlacesReread

\* The cells of a table reach the item of their row and the field of their column.
TablesKept == RowsKept /\ ColumnsCommute
=============================================================================
