------------------------------- MODULE Drawing -------------------------------
(***************************************************************************)
(* internal/render: the standard renderer (a matrix of modules and a style *)
(* become a canvas), the areas the decorations reserve, the excavation for *)
(* a logo, colour ramps, and the scannability report.                      *)
(*                                                                         *)
(* A colour is its luminance in percent, as it appears on white.  A        *)
(* symbol's modules come from an external encoder: a matrix is its size,   *)
(* its kind and the set of its dark modules.                               *)
(***************************************************************************)
EXTENDS Integers, Sequences, FiniteSetsExt

eyeSize == 7
ballOffset == 2
ballSize == 3
DefaultFrameWidth == 2
MaxFrameWidth == 16
CaptionBandModules == 4
BubbleTailModules == 2
DefaultLogoScale == 20
MaxLogoPadding == 8

Least(a, b)   == IF a <= b THEN a ELSE b
Largest(a, b) == IF a >= b THEN a ELSE b

-----------------------------------------------------------------------------
(* A matrix as an encoder makes it, and a style as it is resolved.         *)
Matrix == [cols : Nat, rows : Nat, kind : {"1d", "2d"}, symbology : STRING, hri : Nat, quiet : Nat,
           dark : SUBSET (Nat \X Nat)]
Frame  == [kind : STRING, width : Int, caption : BOOLEAN]
Logo   == [on : BOOLEAN, scale : Int, pad : Int, w : Nat \ {0}, h : Nat \ {0}, excavate : BOOLEAN]
Style  == [quiet : Int, bar : Int, hri : BOOLEAN, hriSize : Int, frame : Frame, caption : BOOLEAN,
           logo : Logo, ecc : STRING, fg : 0 .. 100, bg : 0 .. 100, alpha : STRING,
           eye : -1 .. 100, stops : Seq(0 .. 100)]

-----------------------------------------------------------------------------
(* Rectangles in module coordinates, half open.                            *)
Rect(x0, y0, x1, y1) == [x0 |-> x0, y0 |-> y0, x1 |-> x1, y1 |-> y1]
Points(r)   == (r.x0 .. (r.x1 - 1)) \X (r.y0 .. (r.y1 - 1))
Empty(r)    == r.x0 >= r.x1 \/ r.y0 >= r.y1
Wider(r)    == r.x1 - r.x0
Taller(r)   == r.y1 - r.y0
Inset(r, n) == Rect(r.x0 + n, r.y0 + n, r.x1 - n, r.y1 - n)
Meet(r, s)  == Rect(Largest(r.x0, s.x0), Largest(r.y0, s.y0), Least(r.x1, s.x1), Least(r.y1, s.y1))

drawn(f)  == f.kind \notin {"", "none"}
pad(f)    == IF ~drawn(f) THEN 0 ELSE IF f.width <= 0 THEN DefaultFrameWidth ELSE f.width
HasCaption(s) == s.frame.caption \/ s.caption
\* frameLayout: the band under the code.
band(s) == IF ~HasCaption(s) THEN 0
           ELSE CaptionBandModules + (IF drawn(s.frame) /\ s.frame.kind = "bubble"
                                      THEN BubbleTailModules ELSE 0)

SymbolRect(c)    == LET in == c.pad + c.quiet IN Rect(in, in, c.cols - in, c.rows - c.band - in)

FrameRect(c)   == IF drawn(c.style.frame) THEN Rect(0, 0, c.cols, c.rows) ELSE Rect(0, 0, 0, 0)
CaptionRect(c) == LET top == c.rows - c.pad - c.band
                  IN  Rect(c.pad, top, c.cols - c.pad, top + c.band)

-----------------------------------------------------------------------------
(* The logo: [on, scale, pad, w, h, excavate], its scale in percent.       *)
Rounded(num, den) == (2 * num + den) \div (2 * den)

Sized(x, y, w, h) == Rect(x, y, x + w, y + h)
LogoRect(c) ==
  LET sym   == SymbolRect(c)
      logo  == c.style.logo
      scale == IF logo.scale <= 0 THEN DefaultLogoScale ELSE logo.scale
      wide  == Largest(1, Rounded(Wider(sym) * scale, 100))
      w     == Least(wide, Wider(sym))
      h     == Least(Largest(1, Rounded(wide * logo.h, logo.w)), Taller(sym))
  IN  IF ~logo.on \/ Empty(sym) THEN Rect(0, 0, 0, 0)
      ELSE Sized(sym.x0 + (Wider(sym) - w) \div 2, sym.y0 + (Taller(sym) - h) \div 2, w, h)

excavateRect(c) == IF ~c.style.logo.on THEN Rect(0, 0, 0, 0)
                   ELSE Meet(Inset(LogoRect(c), -c.style.logo.pad), SymbolRect(c))

-----------------------------------------------------------------------------
(* Finder patterns.                                                        *)
hasFinderPatterns(m) == m.symbology = "qr" /\ m.cols >= 21 /\ m.cols = m.rows

Block(x, y, size) == Points(Rect(x, y, x + size, y + size))

Corners(m, offset) == {<<offset, offset>>, <<offset + m.cols - eyeSize, offset>>,
                       <<offset, offset + m.rows - eyeSize>>}

RoleData == "data"
RoleEyeFrame == "frame"
RoleEyeBall == "ball"

Role(c, x, y) == IF <<x, y>> \in c.balls THEN RoleEyeBall
                 ELSE IF <<x, y>> \in c.eyes THEN RoleEyeFrame ELSE RoleData

\* Mutant: the logo is cut out of the finder patterns too.
Bugexcavate(c) == c.dark \ Points(excavateRect(c))
\* Finder modules are never cleared.
excavate(c) == c.dark \ (Points(excavateRect(c)) \ c.eyes)

-----------------------------------------------------------------------------
(* standard.Render.                                                        *)
BadStyle(s) ==
  \/ s.logo.on /\ s.logo.scale # 0 /\ s.logo.scale \notin 5 .. 35
  \/ s.logo.on /\ s.logo.pad \notin 0 .. MaxLogoPadding
  \/ s.hriSize # 0 /\ s.hriSize \notin 1 .. 8
  \/ s.frame.kind \notin {"", "none", "border", "rounded", "banner", "bubble"}
  \/ s.frame.width \notin 0 .. MaxFrameWidth

\* A linear code is one row, drawn as tall as the style says.
ExtrudedRows(m, s) ==
  IF m.kind = "2d" THEN m.rows
  ELSE IF s.bar <= 0 THEN Largest((m.cols * 15) \div 100, 20) ELSE s.bar

Refusal == [ok |-> FALSE]

Render(m, s) ==
  LET quiet  == IF s.quiet < 0 THEN m.quiet ELSE s.quiet
      rows   == ExtrudedRows(m, s)
      offset == quiet + pad(s.frame)
      at     == Corners(m, offset)
      plain  == [ok |-> TRUE, cols |-> m.cols + 2 * offset,
                 rows |-> rows + 2 * offset + band(s),
                 quiet |-> quiet, pad |-> pad(s.frame), band |-> band(s), style |-> s,
                 symbology |-> m.symbology, kind |-> m.kind,
                 hri |-> IF s.hri THEN m.hri ELSE 0,
                 dark |-> {<<p[1] + offset, p[2] + offset>> :
                              p \in {q \in (0 .. (m.cols - 1)) \X (0 .. (rows - 1)) :
                                        <<q[1], IF m.kind = "1d" THEN 0 ELSE q[2]>> \in m.dark}},
                 eyes |-> IF ~hasFinderPatterns(m) THEN {}
                          ELSE UNION {Block(p[1], p[2], eyeSize) : p \in at},
                 balls |-> IF ~hasFinderPatterns(m) THEN {}
                           ELSE UNION {Block(p[1] + ballOffset, p[2] + ballOffset, ballSize) :
                                          p \in at}]
  IN  IF m.cols <= 0 \/ m.rows <= 0 \/ BadStyle(s) \/ quiet < 0 THEN Refusal
      ELSE IF s.logo.on /\ s.logo.excavate THEN [plain EXCEPT !.dark = excavate(plain)] ELSE plain

At(c, x, y) == <<x, y>> \in c.dark

\* Which colour a module is drawn in: the style's own, the eyes', or the ramp's
\* at its column.
Foreground == -1
EyeColour  == -2
ColorAt(c, x, y) ==
  IF c.style.eye >= 0 /\ Role(c, x, y) # RoleData THEN EyeColour
  ELSE IF c.style.stops # <<>> /\ Role(c, x, y) = RoleData /\ ~Empty(SymbolRect(c))
  THEN x - SymbolRect(c).x0
  ELSE Foreground

-----------------------------------------------------------------------------
(* Scannability.  A contrast ratio is compared as a fraction: luminances   *)
(* are in percent, so 0.05 is 5.                                           *)
ContrastBelow(a, b, num, den) == den * (Largest(a, b) + 5) < num * (Least(a, b) + 5)
BelowHard(a, b) == ContrastBelow(a, b, 3, 1)
BelowSoft(a, b) == ContrastBelow(a, b, 9, 2)

specQuietZone(symbology) ==
  CASE symbology = "qr" -> 4 [] symbology \in {"datamatrix", "aztec"} -> 1
    [] symbology = "pdf417" -> 2 [] symbology = "" -> 0 [] OTHER -> 9

Issue(code, severity, cost) == [code |-> code, severity |-> severity, cost |-> cost]
When(found, issue) == IF found THEN <<issue>> ELSE <<>>

\* What the logo and its clear space take of the symbol: as 100ths times its area.
Area(r) == Wider(r) * Taller(r)
Covers(c, percent) == 100 * Area(excavateRect(c)) > percent * Area(SymbolRect(c))

\* Mutant: the level is looked at after the size.
BugcheckLogo(c) ==
  IF ~c.style.logo.on \/ ~Covers(c, 0) THEN <<>>
  ELSE IF Covers(c, 25)                 THEN <<Issue("LOGO_TOO_LARGE", "error", 80)>>
  ELSE IF Covers(c, 8) /\ c.style.ecc # "H" THEN <<Issue("LOGO_EXCEEDS_ECC", "warn", 30)>>
  ELSE IF c.style.ecc = "L"             THEN <<Issue("LOGO_AT_LOWEST_ECC", "error", 80)>>
  ELSE IF Covers(c, 8)                  THEN <<Issue("LOGO_LARGE", "info", 0)>> ELSE <<>>

checkLogo(c) ==
  LET ecc == c.style.ecc
  IN  IF ~c.style.logo.on \/ ~Covers(c, 0) THEN <<>>
      ELSE IF ecc = "L"                       THEN <<Issue("LOGO_AT_LOWEST_ECC", "error", 80)>>
      ELSE IF Covers(c, 25)                   THEN <<Issue("LOGO_TOO_LARGE", "error", 80)>>
      ELSE IF Covers(c, 8) /\ ecc # "H"       THEN <<Issue("LOGO_EXCEEDS_ECC", "warn", 30)>>
      ELSE IF Covers(c, 4) /\ ecc \in {"M", "Q"} THEN <<Issue("LOGO_NEAR_ECC_BUDGET", "info", 0)>>
      ELSE When(Covers(c, 8), Issue("LOGO_LARGE", "info", 0))

checkGradient(c) ==
  LET stops == Range(c.style.stops)
  IN  IF stops = {} THEN <<>>
      ELSE IF \A l \in stops : BelowHard(l, c.style.bg)
      THEN <<Issue("GRADIENT_LOW_CONTRAST", "error", 70)>>
      ELSE When(\E l \in stops : BelowHard(l, c.style.bg), Issue("GRADIENT_FADES_OUT", "warn", 30))

Findings(c) ==
  LET s == c.style
      want == specQuietZone(c.symbology)
  IN  (IF BelowHard(s.fg, s.bg) THEN <<Issue("LOW_CONTRAST", "error", 70)>>
       ELSE When(BelowSoft(s.fg, s.bg), Issue("MARGINAL_CONTRAST", "warn", 25)))
      \o When(s.fg > s.bg, Issue("INVERTED", "warn", 20))
      \o When(s.alpha # "opaque",
              Issue("TRANSPARENT_BACKGROUND", "warn", IF s.alpha = "none" THEN 20 ELSE 15))
      \o When(c.quiet < want,
              IF c.quiet = 0 THEN Issue("QUIET_ZONE_TOO_SMALL", "error", 60)
              ELSE Issue("QUIET_ZONE_TOO_SMALL", "warn", 25))
      \o When(s.eye >= 0 /\ BelowHard(s.eye, s.bg), Issue("LOW_EYE_CONTRAST", "error", 60))
      \o checkGradient(c)
      \o checkLogo(c)
      \o When(LET n == Cardinality(c.dark) all == c.cols * c.rows
              IN  20 * n < all \/ 20 * n > 19 * all,
              Issue("DEGENERATE_MATRIX", "error", 90))

Cost(issues) == LET cost[k \in 0 .. Len(issues)] == IF k = 0 THEN 0 ELSE cost[k - 1] + issues[k].cost
                IN  cost[Len(issues)]
Score(issues) == Largest(0, 100 - Cost(issues))

\* Excellent, good, risky and unscannable, as 3, 2, 1 and 0.
gradeFor(issues) ==
  LET score == Score(issues)
  IN  IF \E i \in DOMAIN issues : issues[i].severity = "error" THEN 0
      ELSE IF score >= 95 THEN 3 ELSE IF score >= 75 THEN 2 ELSE 1

Rank(issue) == CASE issue.severity = "error" -> 0 [] issue.severity = "warn" -> 1 [] OTHER -> 2

\* One turn of slicesSortIssues' outer loop: the new issue moves before every
\* issue that ranks below it.
InsertIssue(sorted, issue) ==
  LET k == Cardinality({i \in DOMAIN sorted : Rank(sorted[i]) <= Rank(issue)})
  IN  SubSeq(sorted, 1, k) \o <<issue>> \o SubSeq(sorted, k + 1, Len(sorted))
slicesSortIssues(issues) ==
  LET sorted[k \in 0 .. Len(issues)] == IF k = 0 THEN <<>> ELSE InsertIssue(sorted[k - 1], issues[k])
  IN  sorted[Len(issues)]

Report(found)   == [grade |-> gradeFor(found), issues |-> slicesSortIssues(found)]
Scannability(c) == Report(Findings(c))

-----------------------------------------------------------------------------
(* Colour ramps (gradient.go): the stops of the compact syntax, their      *)
(* offsets, and the colour at a point of the sweep.  Here a colour is one  *)
(* channel; an offset counts Full to the whole sweep, and is Unset when    *)
(* the caller gave none.                                                   *)
Full  == 60
Unset == -1
maxGradientStops == 16

\* parseStops: the offsets that were left out are distributed evenly, and the
\* whole list must not run backwards.
Offset(args, i) == IF args[i].at = Unset THEN ((i - 1) * Full) \div (Len(args) - 1)
                   ELSE args[i].at

ParseGradient(args) ==
  LET stops == [i \in DOMAIN args |-> [color |-> args[i].color, at |-> Offset(args, i)]]
      ok    == /\ Len(args) \in 2 .. maxGradientStops
               /\ \A i \in DOMAIN args : args[i].at # Unset => args[i].at \in 0 .. Full
               /\ \A i \in 2 .. Len(args) : stops[i].at >= stops[i - 1].at
  IN  [ok |-> ok, stops |-> IF ok THEN stops ELSE <<>>]

\* Rounded half up, as the conversion to a byte after adding a half does.
lerpColor(a, b, num, den) == (2 * a * den + 2 * (b - a) * num + den) \div (2 * den)

\* The segment t falls in: the first whose end is not before it.
Segment(stops, t) == CHOOSE i \in 2 .. Len(stops) :
                        /\ t <= stops[i].at
                        /\ \A j \in 2 .. (i - 1) : t > stops[j].at

sample(stops, t) ==
  LET last == stops[Len(stops)]
      b    == stops[Segment(stops, t)]
      a    == stops[Segment(stops, t) - 1]
  IN  IF t <= stops[1].at THEN stops[1].color
      ELSE IF t >= last.at THEN last.color
      ELSE IF b.at = a.at THEN b.color
      ELSE lerpColor(a.color, b.color, t - a.at, b.at - a.at)
=============================================================================
