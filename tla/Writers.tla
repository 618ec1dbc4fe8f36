------------------------------- MODULE Writers -------------------------------
(***************************************************************************)
(* internal/writer: the size of an output in pixels, the placing of text,  *)
(* frames and finder patterns, and what of a canvas each format draws.     *)
(* The bytes of the formats are their encoders'.                           *)
(***************************************************************************)
EXTENDS Drawing

-----------------------------------------------------------------------------
(* 64-bit integers as Go's int is on the platforms the image is built for, *)
(* in eight bytes, the least significant first.                            *)
Word(n) == [i \in 1 .. 8 |-> IF i <= 4 THEN (n \div 256 ^ (i - 1)) % 256 ELSE 0]

\* The first `bytes` bytes of a product: with 8 what the machine keeps of it,
\* with 16 all of it.
Product(a, b, bytes) ==
  LET column[k \in 1 .. bytes] ==
        MapThenSumSet(LAMBDA i : a[i] * b[k + 1 - i], {i \in 1 .. 8 : k + 1 - i \in 1 .. 8})
      carried[k \in 1 .. bytes] ==
        column[k] + (IF k = 1 THEN 0 ELSE carried[k - 1] \div 256)
  IN  [k \in 1 .. bytes |-> carried[k] % 256]

Times(a, b) == Product(a, b, 8)

Plus(a, b) ==
  LET carried[i \in 1 .. 8] == a[i] + b[i] + (IF i = 1 THEN 0 ELSE carried[i - 1] \div 256)
  IN  [i \in 1 .. 8 |-> carried[i] % 256]

\* Division of a non-negative word by a small divisor, from the top byte down.
Quotient(a, d) ==
  LET rest[i \in 1 .. 9] == IF i = 9 THEN 0 ELSE (rest[i + 1] * 256 + a[i]) % d
  IN  [i \in 1 .. 8 |-> (rest[i + 1] * 256 + a[i]) \div d]

Less(a, b) == \E i \in DOMAIN a : a[i] < b[i] /\ \A j \in DOMAIN a : j > i => a[j] = b[j]

Negative(a) == a[8] >= 128

Exceeds(a, b) == IF Negative(a) = Negative(b) THEN Less(b, a) ELSE Negative(b)

Wide(a) == a \o Word(0) \* a non-negative word on sixteen bytes

-----------------------------------------------------------------------------
(* PixelSize.  o: [size, unit, dpi, scale] are whole numbers; a millimetre *)
(* is 10/254 of an inch.                                                   *)
DefaultScale == 10

Pixels(o) ==
  LET dpi == IF o.dpi <= 0 THEN 300 ELSE o.dpi
  IN  CASE o.unit = "mm" -> Quotient(Times(Word(o.size), Word(dpi * 10)), 254)
        [] o.unit = "in" -> Times(Word(o.size), Word(dpi))
        [] OTHER         -> Word(o.size)

\* Mutant: the module is rounded to the nearest whole number of pixels.
BugModuleScale(cols, o) == IF o.size > 0 THEN Quotient(Plus(Pixels(o), Word(cols \div 2)), cols)
                           ELSE IF o.scale > 0 THEN Word(o.scale) ELSE Word(DefaultScale)
ModuleScale(cols, o) == IF o.size > 0 THEN Quotient(Pixels(o), cols)
                        ELSE IF o.scale > 0 THEN Word(o.scale) ELSE Word(DefaultScale)

PixelSize(cols, rows, o, maxPixels) ==
  LET scale == ModuleScale(cols, o)
      w     == Times(Word(cols), scale)
      h     == Times(Word(rows), scale)
      fault == IF o.size > 0 /\ o.unit \notin {"px", "mm", "in", ""} THEN "unknown unit"
               ELSE IF Negative(scale) \/ scale = Word(0)   THEN "too small"
               ELSE IF Exceeds(Times(w, h), maxPixels)      THEN "canvas too large" ELSE "none"
  IN  IF cols <= 0 \/ rows <= 0 THEN [ok |-> FALSE, fault |-> "empty canvas"]
      ELSE [ok |-> fault = "none", fault |-> fault, w |-> w, h |-> h, scale |-> scale]

-----------------------------------------------------------------------------
(* Text.  A face has cells of cols by rows font pixels, with a gap.        *)
Face == [cols |-> 5, rows |-> 7, gap |-> 2]
advance(f, pixel)      == (f.cols + f.gap) * pixel
textWidth(f, n, pixel) == IF n = 0 THEN 0 ELSE n * advance(f, pixel) - f.gap * pixel
maxGlyphs(f, w, pixel) == (w \div pixel + f.gap) \div (f.cols + f.gap)

\* The largest font pixel up to the wanted one at which n glyphs fit, or 1.
Shrunk(f, n, wanted, w) ==
  LET fits == {p \in 1 .. wanted : textWidth(f, n, p) <= w}
  IN  IF fits = {} THEN 1 ELSE CHOOSE p \in fits : \A q \in fits : q <= p

Extra(needed, below) == Largest(0, needed - below)

\* layoutHRI, for a text of c.hri glyphs on an image w wide and h high.
layoutHRI(c, f, w, h, scale) ==
  LET size   == IF c.style.hriSize <= 0 THEN 2 ELSE c.style.hriSize
      target == size * scale
      pixel  == Shrunk(f, c.hri, Largest(1, (target + f.rows \div 2) \div f.rows), w)
      tw     == textWidth(f, c.hri, pixel)
      clear  == Largest(pixel, scale \div 2)
      bottom == SymbolRect(c).y1 * scale
      needed == clear + Largest(f.rows * pixel, target) + clear
  IN  IF c.hri = 0 \/ tw > w THEN [ok |-> FALSE, extra |-> 0]
      ELSE [ok |-> TRUE, pixel |-> pixel, x |-> (w - tw) \div 2, y |-> bottom + clear,
            w |-> tw, h |-> f.rows * pixel, extra |-> Extra(needed, h - bottom)]

\* fitCaption: shrunk first, cut short only at one image pixel.
fitCaption(f, n, w, h, scale) ==
  LET wanted == Least(Largest(1, (2 * scale + f.rows \div 2) \div f.rows), h \div f.rows)
      pixel  == Shrunk(f, n, wanted, w)
      fit    == IF textWidth(f, n, pixel) <= w THEN n ELSE maxGlyphs(f, w, pixel)
  IN  IF n = 0 \/ w <= 0 \/ h < f.rows \/ fit <= 0 THEN [ok |-> FALSE]
      ELSE [ok |-> TRUE, n |-> fit, pixel |-> pixel,
            dots |-> IF fit < n THEN (Largest(0, fit - 3) + 1) .. fit ELSE {}]

\* paintCaption: centred in a box of w by h.
CaptionAt(f, fitted, w, h) == LET x == (w - textWidth(f, fitted.n, fitted.pixel)) \div 2
                                  y == (h - f.rows * fitted.pixel) \div 2
                              IN  Rect(x, y, x + textWidth(f, fitted.n, fitted.pixel),
                                       y + f.rows * fitted.pixel)

-----------------------------------------------------------------------------
(* Frames and finder patterns.                                             *)
FrameWidth(f) == IF f.width <= 0 THEN DefaultFrameWidth ELSE f.width

\* bubbleTail, under the bar.
bubbleTail(bar) == LET cx == bar.x0 + Wider(bar) \div 2
                   IN  Rect(cx - BubbleTailModules, bar.y1,
                            cx + BubbleTailModules, bar.y1 + BubbleTailModules)

Bar(c) == LET r == CaptionRect(c)
          IN  IF c.style.frame.kind = "bubble" THEN [r EXCEPT !.y1 = @ - BubbleTailModules] ELSE r

\* resolveFrame: the modules a frame inks.
resolveFrame(c) ==
  LET f     == c.style.frame
      outer == FrameRect(c)
      inner == Inset(outer, FrameWidth(f))
      bar   == IF f.kind \in {"banner", "bubble"} /\ c.band > 0 THEN Points(Bar(c)) ELSE {}
      tail  == IF f.kind = "bubble" /\ bar # {} THEN Points(bubbleTail(Bar(c))) ELSE {}
  IN  IF Empty(outer) \/ Empty(inner) THEN {} ELSE (Points(outer) \ Points(inner)) \cup bar \cup tail

\* resolveCaption: the box of the caption's text.
resolveCaption(c) == IF ~HasCaption(c.style) \/ c.band <= 0 THEN Rect(0, 0, 0, 0) ELSE Bar(c)

\* Rasterize's findEyes: a frame module with none above it or to its left.
findEyes(c) == {p \in c.eyes \ c.balls : /\ Role(c, p[1] - 1, p[2]) = RoleData
                                         /\ Role(c, p[1], p[2] - 1) = RoleData}

svgEyeOrigins(c) ==
  LET sym == SymbolRect(c)
      at  == {<<sym.x0, sym.y0>>, <<sym.x1 - eyeSize, sym.y0>>, <<sym.x0, sym.y1 - eyeSize>>}
  IN  IF \/ Wider(sym) < eyeSize \/ Taller(sym) < eyeSize
         \/ \E p \in at : Role(c, p[1], p[2]) # RoleEyeFrame THEN {} ELSE at

-----------------------------------------------------------------------------
(* The modules each family of writers inks.                                *)
Joined(c, x, i, y) == At(c, i, y) /\ ColorAt(c, i, y) = ColorAt(c, x, y)
RunStarts(c, y)    == {x \in 0 .. (c.cols - 1) : At(c, x, y) /\ ~Joined(c, x, x - 1, y)}
RunLength(c, x, y) == CHOOSE n \in 1 .. c.cols : /\ ~Joined(c, x, x + n, y)
                                                 /\ \A i \in x .. (x + n - 1) : Joined(c, x, i, y)

\* vecRuns of PDF and EPS: a run ends where the colour changes.
vecRuns(c) == UNION {{[x |-> x, y |-> y, n |-> RunLength(c, x, y), color |-> ColorAt(c, x, y)] :
                         x \in RunStarts(c, y)} : y \in 0 .. (c.rows - 1)}

hriFontModules(c) == IF c.style.hriSize > 0 THEN c.style.hriSize ELSE 2
hriBandPad == 1
\* vecPageSize, in modules: a page is higher by the band of the text.
PageRows(c)  == c.rows + (IF c.hri > 0 THEN hriFontModules(c) + hriBandPad ELSE 0)
baseline(c)  == PageRows(c) - (c.rows + hriFontModules(c))
\* vecPage.rect: a page counts its rows from the bottom.
PageRect(c, r) == Rect(r.x, PageRows(c) - (r.y + 1), r.x + r.n, PageRows(c) - r.y)

\* unicode: one character for two rows.
Glyph(c, x, y) == IF At(c, x, y) /\ At(c, x, y + 1) THEN "full"
                  ELSE IF At(c, x, y)                THEN "upper"
                  ELSE IF At(c, x, y + 1)            THEN "lower" ELSE "none"
\* Mutant: an odd last row is left out.
BugCellRows(c) == {2 * k : k \in 0 .. (c.rows \div 2 - 1)}
CellRows(c) == {2 * k : k \in 0 .. ((c.rows - 1) \div 2)}

\* PNG and SVG paint a finder pattern whole, a ring and a ball in its middle, and leave
\* its modules out of the rest.
EyeInk(at) == UNION {(Block(p[1], p[2], eyeSize) \ Block(p[1] + 1, p[2] + 1, eyeSize - 2))
                     \cup Block(p[1] + ballOffset, p[2] + ballOffset, ballSize) : p \in at}
DataInk(c) == {p \in c.dark : Role(c, p[1], p[2]) = RoleData}

Inked(format, c) ==
  CASE format \in {"pdf", "eps"} ->
         {<<p[1], PageRows(c) - 1 - p[2]>> : p \in UNION {Points(PageRect(c, r)) : r \in vecRuns(c)}}
    [] format = "unicode" ->
         UNION {{<<x, y>> : x \in {i \in 0 .. (c.cols - 1) : Glyph(c, i, y) \in {"full", "upper"}}}
                \cup {<<x, y + 1>> : x \in {i \in 0 .. (c.cols - 1) :
                                              Glyph(c, i, y) \in {"full", "lower"}}} :
                y \in CellRows(c)}
    [] format = "svg" -> IF svgEyeOrigins(c) = {} THEN c.dark
                         ELSE DataInk(c) \cup EyeInk(svgEyeOrigins(c))
    [] format = "png" -> DataInk(c) \cup EyeInk(findEyes(c))
    [] OTHER -> c.dark

\* The cross-reference table of a PDF: objects are written one after the other, and the
\* place of each is noted as it begins.  A file is a sequence of one mark per byte; lens
\* are the bodies' lengths.
PdfHeader == <<"%", "%">>
PdfAppend(file, n) == [bytes |-> (file.bytes \o <<"obj">>) \o [k \in 1 .. n |-> "body"],
                       offsets |-> Append(file.offsets, Len(file.bytes))]
pdfSerialise(lens) ==
  LET files[k \in 0 .. Len(lens)] == IF k = 0 THEN [bytes |-> PdfHeader, offsets |-> <<>>]
                                     ELSE PdfAppend(files[k - 1], lens[k])
      body == files[Len(lens)]
  IN  [bytes |-> body.bytes \o <<"xref">>, offsets |-> body.offsets, startxref |-> Len(body.bytes)]

\* The catalog, the pages, the page, its stream and, for a linear code, the font.
PdfObjects(c) == 4 + (IF c.hri > 0 THEN 1 ELSE 0)
PdfRefs(c)    == {1, 2, 3, 4} \cup (IF c.hri > 0 THEN {5} ELSE {})

-----------------------------------------------------------------------------
(* Colours.  A colour is one channel v and its alpha a, bytes both.        *)
\* compositeOverUniform: ink over a flat background.
Composite(p, bg) ==
  LET inv == 255 - p.a
      out == p.a * 255 + bg.a * inv
  IN  IF bg.a = 0 \/ p.a = 255 THEN p
      ELSE IF p.a = 0          THEN bg
      ELSE IF bg.a = 255       THEN [v |-> (p.v * p.a + bg.v * inv + 127) \div 255, a |-> 255]
      ELSE [v |-> (p.v * p.a * 255 + bg.v * bg.a * inv) \div out, a |-> (out + 127) \div 255]

White == [v |-> 255, a |-> 255]
overWhite(c) == IF c.a = 255 THEN c.v ELSE (c.v * c.a + 255 * (255 - c.a) + 127) \div 255
vecOver(fg, bg) ==
  LET under == IF bg.a # 255 THEN White ELSE bg
  IN  IF fg.a = 255 THEN fg.v ELSE Rounded(fg.v * fg.a + under.v * (255 - fg.a), 255)
\* jpeg's flatten: the backdrop when there is no alpha to keep.
backdrop(bg) == IF bg.a = 255 THEN bg ELSE White
=============================================================================
