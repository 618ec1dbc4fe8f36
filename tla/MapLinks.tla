------------------------------ MODULE MapLinks ------------------------------
(***************************************************************************)
(* Places: whatever names one, an address, a pair of coordinates in some   *)
(* notation, a plus code, a geo: URI, a link to a map or a route, becomes  *)
(* one link (internal/mapsurl), which the location builder reads back.     *)
(* A text is what the patterns of the code find in it, each pattern a      *)
(* sequence of at most one match; the patterns themselves are Go's regexp. *)
(* Angles are in seconds of arc, and are printed to hundredths of a degree *)
(* where the code prints seven decimals.                                   *)
(***************************************************************************)
EXTENDS Integers, Sequences

Free(name) == [name |-> name, route |-> <<>>, arrow |-> <<>>, geo |-> <<>>, url |-> <<>>,
               plus |-> <<>>, pair |-> <<>>]
Blank(text) == text.name \in {"", "invisible"}  \* once normalised

Degree    == 3600
Hundredth == 36

\* An angle as written: degrees, their sign, minutes, seconds, a letter before or after.
Angle(neg, d, m, s, letter) == [neg |-> neg, d |-> d, m |-> m, s |-> s, letter |-> letter]
BugtoDecimal(a) == LET v == a.d + 60 * a.m + a.s IN IF a.neg /\ a.d > 0 THEN -v ELSE v
toDecimal(a) ==
  LET v == a.d + 60 * a.m + a.s
  IN  IF (a.neg /\ a.d > 0) \/ a.letter \in {"S", "W"} THEN -v ELSE v

InRange(lat, lng) == lat \in -90 * Degree .. 90 * Degree /\ lng \in -180 * Degree .. 180 * Degree

\* A bare space between two plain numbers is no pair; a letter E or W on the first says that
\* the longitude came first.
ParseCoordinates(text) ==
  IF text.pair = <<>> THEN <<>>
  ELSE LET p    == text.pair[1]
           bare == /\ p.sep = " " /\ ~p.marks
                   /\ p.a.letter = "" /\ p.b.letter = ""
           a    == toDecimal(p.a)
           b    == toDecimal(p.b)
           here == IF p.a.letter \in {"E", "W"} THEN <<b, a>> ELSE <<a, b>>
       IN  IF ~bare /\ InRange(here[1], here[2]) THEN <<here>> ELSE <<>>

\* A short code needs a place to be short of.
ParsePlusCode(text) ==
  SelectSeq(text.plus, LAMBDA c : c.head >= 2 /\ c.head % 2 = 0 /\ (c.head = 8 \/ c.locality # ""))

mapHosts == {"google.com/maps", "maps.google.", "goo.gl/maps", "maps.app.goo.gl", "openstreetmap.org",
             "maps.apple.com", "waze.com", "bing.com/maps"}
EndsIn(host, tail) == Len(tail) <= Len(host) /\ SubSeq(host, Len(host) - Len(tail) + 1, Len(host)) = tail
IsMapLink(u)    == u.mentions \cap mapHosts # {}
IsGoogleLink(u) == \/ \E tail \in {<<"goo", "gl">>, <<"g", "co">>} : EndsIn(u.host, tail)
                   \/ \E i \in 1 .. (Len(u.host) - 1) : u.host[i] = "google"

\* The pairs of several parameters, one after another.
Joined(parts) ==
  LET all[i \in 0 .. Len(parts)] == IF i = 0 THEN <<>> ELSE all[i - 1] \o parts[i] IN all[Len(parts)]

paramKeys == <<"ll", "q", "query", "center", "destination", "daddr", "sll">>
\* The fragment and the pair a provider writes of its own, then the marker, then the
\* parameters in a fixed order, then a pair after an @.
CoordsFromURL(u) ==
  LET Of(key)    == Joined([i \in DOMAIN u.params |->
                      IF u.params[i][1] = key THEN ParseCoordinates(u.params[i][2]) ELSE <<>>])
      candidates == u.osm \o u.bing \o u.marker \o Joined([i \in DOMAIN paramKeys |-> Of(paramKeys[i])]) \o u.at
  IN  IF candidates = <<>> THEN <<>> ELSE <<Head(candidates)>>

-----------------------------------------------------------------------------
(* Links.                                                                  *)

\* A negative coordinate that rounds to zero is printed with its sign.
fmtCoord(v) == LET size == IF v < 0 THEN -v ELSE v
               IN  Angle(v < 0, ((size + Hundredth \div 2) \div Hundredth) * Hundredth, 0, 0, "")
Printed(lat, lng) ==
  [Free("printed") EXCEPT !.pair = <<[a |-> fmtCoord(lat), b |-> fmtCoord(lng), sep |-> ",", marks |-> FALSE]>>]

Link(form, to, o) == [form |-> form, to |-> to, from |-> <<>>, mode |-> "", zoom |-> 0, hl |-> o.hl, gl |-> o.gl]
AsIs(text)        == Link("as is", text, [hl |-> "", gl |-> ""])

BuildSearch(query, o) == Link("search", query, o)
BuildCoords(lat, lng, o) ==
  IF o.zoom > 0 THEN [Link("point", Printed(lat, lng), o) EXCEPT !.zoom = IF o.zoom > 21 THEN 21 ELSE o.zoom]
  ELSE BuildSearch(Printed(lat, lng), o)
BuildDirections(to, from, o) == [Link("dir", to, o) EXCEPT !.from = from, !.mode = o.mode]

-----------------------------------------------------------------------------
(* The handlers, each a resolution or nothing.                             *)

Found(kind, url, at) == <<[kind |-> kind, url |-> url, at |-> at]>>

handleEmpty(text, o) == IF Blank(text) THEN Found("empty", AsIs(text), <<>>) ELSE <<>>

\* What the text says wins over the option; arrows that do not make two ends end the search.
Ends(text, o) ==
  IF text.route # <<>> THEN text.route
  ELSE IF text.arrow # <<>>
  THEN IF Len(text.arrow) = 2 /\ ~\E i \in 1 .. 2 : text.arrow[i].name = "" THEN text.arrow ELSE <<>>
  ELSE IF o.origin # <<>> THEN o.origin \o <<text>> ELSE <<>>
handleDirections(text, o) ==
  LET ends == Ends(text, o)
  IN  IF ends = <<>> THEN <<>> ELSE Found("directions", BuildDirections(ends[2], <<ends[1]>>, o), <<>>)

handleGeoURI(text, o) ==
  IF text.geo = <<>> THEN <<>>
  ELSE Found("geo_uri", BuildCoords(text.geo[1][1], text.geo[1][2], o), text.geo)

\* A link of Google's is handed on as it is, with the coordinates it names; another map's is
\* rebuilt from them; any other is handed on.
handleLink(text, o) ==
  IF text.url = <<>> THEN <<>>
  ELSE LET u  == text.url[1]
           at == IF IsMapLink(u) THEN CoordsFromURL(u) ELSE <<>>
       IN  IF (IsMapLink(u) /\ IsGoogleLink(u)) \/ at = <<>> THEN Found("link", AsIs(text), at)
           ELSE Found("map_link", BuildCoords(at[1][1], at[1][2], o), at)

handlePlusCode(text, o) ==
  LET code == ParsePlusCode(text)
  IN  IF code = <<>> THEN <<>>
      ELSE Found("plus_code", BuildSearch([text EXCEPT !.plus[1].upper = TRUE], o), <<>>)

handleCoordinates(text, o) ==
  LET at == ParseCoordinates(text)
  IN  IF at = <<>> THEN <<>> ELSE Found("coordinates", BuildCoords(at[1][1], at[1][2], o), at)

handleAddress(text, o) == Found("address", BuildSearch(text, o), <<>>)

Resolve(text, o) ==
  Head(handleEmpty(text, o) \o handleDirections(text, o) \o handleGeoURI(text, o) \o handleLink(text, o)
       \o handlePlusCode(text, o) \o handleCoordinates(text, o) \o handleAddress(text, o))

-----------------------------------------------------------------------------
(* The builder.                                                            *)

No == [ok |-> FALSE]
locationModes == {"driving", "walking", "bicycling", "transit"}
Tuning == [origin |-> <<>>, mode |-> "", zoom |-> 0, hl |-> "", gl |-> ""]
locationOptions(o) == o.mode \in locationModes \cup {""} /\ o.zoom \in 0 .. 21

Build(loc, o) ==
  LET Answer(r) == IF r.kind = "empty" THEN No ELSE [ok |-> TRUE, url |-> r.url]
  IN  IF loc.name = "" \/ ~locationOptions(o) THEN No ELSE Answer(Resolve(loc, o))

\* The three forms that carry their place in a parameter, and only where rebuilding what they
\* say gives the same link.
Parse(url) ==
  IF url.form = "as is" THEN No
  ELSE LET o == [origin |-> url.from, mode |-> url.mode, zoom |-> url.zoom, hl |-> url.hl, gl |-> url.gl]
       IN  IF Build(url.to, o) = [ok |-> TRUE, url |-> url] THEN [ok |-> TRUE, loc |-> url.to, o |-> o] ELSE No
=============================================================================
