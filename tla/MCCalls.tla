------------------------------ MODULE MCCalls ------------------------------
(* Drawings: a QR code of version 1, a Data Matrix of ten modules and an   *)
(* EAN-8, in styles that vary one concern at a time: frames and margins,   *)
(* logos and levels, colours.                                              *)
EXTENDS Calls, TLC

Finder == (Points(Rect(0, 0, 7, 7)) \ Points(Rect(1, 1, 6, 6))) \cup Points(Rect(2, 2, 5, 5))
Qr == [cols |-> 21, rows |-> 21, kind |-> "2d", symbology |-> "qr", hri |-> 0, quiet |-> 4,
       dark |-> LET eyes == UNION {{<<x + p[1], y + p[2]>> : p \in Finder} :
                                     <<x, y>> \in {<<0, 0>>, <<14, 0>>, <<0, 14>>}} IN
                eyes \cup {p \in Points(Rect(0, 0, 21, 21)) :
                             /\ (p[1] * p[2] + p[1] + p[2]) % 3 = 0
                             /\ ~(p[1] < 8 /\ p[2] < 8) /\ ~(p[1] > 12 /\ p[2] < 8)
                             /\ ~(p[1] < 8 /\ p[2] > 12)}]
DataMatrix == [cols |-> 10, rows |-> 10, kind |-> "2d", symbology |-> "datamatrix", hri |-> 0,
               quiet |-> 1,
               dark |-> {p \in Points(Rect(0, 0, 10, 10)) :
                           p[1] = 0 \/ p[2] = 9 \/ (p[1] * p[2]) % 4 = 2}]
Ean8 == [cols |-> 67, rows |-> 1, kind |-> "1d", symbology |-> "ean8", hri |-> 8, quiet |-> 7,
         dark |-> {<<x, 0>> : x \in {i \in 0 .. 66 : (i * i) % 5 < 2}}]

Plain == [quiet |-> -1, bar |-> 0, hri |-> TRUE, hriSize |-> 0,
          frame |-> [kind |-> "", width |-> 0, caption |-> FALSE], caption |-> FALSE,
          logo |-> [on |-> FALSE, scale |-> 0, pad |-> 0, w |-> 1, h |-> 1, excavate |-> TRUE],
          ecc |-> "M", fg |-> 0, bg |-> 100, alpha |-> "opaque", eye |-> -1, stops |-> <<>>]

Framed == {[Plain EXCEPT !.quiet = q, !.frame = [kind |-> k, width |-> w, caption |-> a],
                         !.caption = b, !.bar = 4] :
             q \in {-1, 0, 1}, k \in {"", "border", "banner", "bubble", "star"}, w \in {0, 3, 17},
             a \in BOOLEAN, b \in BOOLEAN}
Texts == {[Plain EXCEPT !.quiet = q, !.bar = b, !.hri = h, !.hriSize = z] :
             q \in {-1, 0, 2, 30}, b \in {1, 5}, h \in BOOLEAN, z \in {0, 1, 6, 9}}
Logos == {[Plain EXCEPT !.logo = [on |-> TRUE, scale |-> sc, pad |-> p, w |-> a[1], h |-> a[2],
                                  excavate |-> x], !.ecc = e, !.quiet = q] :
             sc \in {0, 5, 15, 20, 30, 35}, p \in {0, 1, 8}, a \in {<<1, 1>>, <<1, 3>>, <<5, 1>>},
             x \in BOOLEAN, e \in {"L", "M", "Q", "H"}, q \in {4}}
Colours == {[Plain EXCEPT !.fg = f, !.bg = b, !.alpha = a, !.eye = e, !.stops = s, !.quiet = 2] :
             f \in {0, 30, 90}, b \in {100, 60, 10}, a \in {"opaque", "none"}, e \in {-1, 10, 80},
             s \in {<<>>, <<0, 40>>, <<90, 70>>}}

MCDrawings == ({DataMatrix, Ean8} \X Framed) \cup ({Ean8} \X Texts) \cup ({Qr} \X Logos)
              \cup ({DataMatrix} \X Colours)
              \cup ({Qr} \X {s \in Framed : s.frame.width = 3 /\ s.caption})

MCRampArgs == UNION {[1 .. n -> [color : {0, 7, 255}, at : {-1, 0, 25, 60, 61}]] : n \in 0 .. 3}

MCSizings == {[cols |-> c, rows |-> r, o |-> [size |-> z[1], unit |-> z[2], dpi |-> d, scale |-> k]] :
                c \in {0, 21, 29, 95}, r \in {1, 29, 40},
                z \in {<<0, "px">>, <<20, "px">>, <<100, "px">>, <<10, "mm">>, <<4, "in">>,
                       <<9000, "px">>, <<3, "cm">>},
                d \in {0, 72, 600}, k \in {0, 1, 10, 16384}}
             \* The largest that are let through (maxSize, maxDPI, maxScale).
             \cup {[cols |-> c[1], rows |-> c[2], o |-> [size |-> 1048576, unit |-> u, dpi |-> d, scale |-> 16384]] :
                     c \in {<<29, 29>>, <<32, 32>>, <<113, 40>>}, u \in {"px", "mm", "in"}, d \in {300, 65536}}

MCMaxPixels == Times(Word(5000), Word(8000))

MCCaptions == [n : {0, 1, 4, 9, 40}, w : {0, 4, 5, 12, 47, 60, 400}, h : {0, 6, 7, 20, 80},
               scale : {1, 3, 10}]

MCInks == [v : {0, 1, 100, 254, 255}, a : {0, 1, 64, 128, 200, 254, 255}]

MCScales == {1, 3, 10}

\* Payloads: one valid payload of each type, its free texts replaced in turn by everything
\* short that its grammar could trip on, its checked fields by spellings of numbers, links,
\* times and amounts on both sides of every limit.
Reserved1 == {"\\", ";", ":", ",", "\"", "n", " ", "LF", "CR", "a"}
Reserved2 == {"%", "&", "=", "+", "#", "?", ":", "/", " ", "a", "LF"}
Short(S) == {<<>>} \cup {<<c>> : c \in S} \cup (S \X S)
Records == Short(Reserved1) \cup [1 .. 3 -> {"\\", ";", "n"}]
Params  == Short(Reserved2)
Long(n) == [i \in 1 .. n |-> "a"]

Phone  == <<"+", "4", "4", "2", "0">>
Phones == {Phone, <<" ", "+", " ", "4", "(", "4", ")", "-", "7">>, <<"0", "1", "2", "3">>, <<"1", "2", "3">>,
           <<"1", "2">>, <<"4", "+", "4", "1">>, <<"1", "2", "3", "a">>} \cup {[i \in 1 .. n |-> "4"] : n \in {15, 16}}
Url    == <<"https", ":", "/", "/", "h", ".", "c", "/", "a">>
Urls   == {Url, <<"H", ".", "c">>, <<" ", "HTTPS", ":", "/", "/", "H", ":", "8", "0", "/", "A", "\\">>,
           <<"h", "/", "a", "?", "b", "=", ";", "#", ",">>, <<"https", ":", "/", "/", "/", "a">>,
           <<"javascript", ":", "a">>, <<"mailto", ":", "a", "@", "b", ".", "c">>, <<"mailto", ":">>,
           <<"tel", ":", "1", "1", "2">>, <<"h", "/", "%", "3A">>, <<"h", "/", "%">>, <<"h", " ", "a">>,
           <<"h", ".", "c", ":", "8", "0">>, <<"https", ":", "/", "/", "wa.me", "/", "4", "4", "1">>,
           <<"h", "?">>, <<"h", "#">>, <<"ftp", ":", "/", "/", "h">>}
Emails == {<<"a", "@", "b", ".", "c">>, <<"a", "+", "b", "@", "b", "-", "b", ".", "c">>, <<"a", "@", "b">>,
           <<"a", "&", "@", "b", ".", "c">>, <<"a", "@", "-", "b", ".", "c">>}
Regions == {<<>>, <<"GB">>, <<" ", "GB">>, <<"XX">>}
Numbers == {<<n>> : n \in DOMAIN B!Numerals} \cup {<<>>, <<" ", "90">>, <<"a">>}
Instants == {<<t>> : t \in DOMAIN B!Basic \cup DOMAIN B!Rfc3339} \cup {<<"a">>, <<>>}
Address == <<"b", "c", "1", "a", "0", "2", "3", "4", "5", "6">>
Iban    == <<"A", "T", "3", "2", "0", "0", "1", "2", "3", "4", "5", "6", "7", "8", "9">>

Base == [
  mecard   |-> ("first_name" :> <<"a">>) @@ ("last_name" :> <<"b">>) @@ ("phone" :> Phone)
               @@ ("url" :> Url) @@ ("note" :> <<"n">>),
  bookmark |-> ("title" :> <<"a">>) @@ ("url" :> Url),
  wifi     |-> ("ssid" :> <<"a">>) @@ ("password" :> Long(8)) @@ ("hidden" :> <<"true">>),
  vcard    |-> ("first_name" :> <<"a">>) @@ ("last_name" :> <<"b">>) @@ ("mobile" :> Phone)
               @@ ("city" :> <<"c">>) @@ ("email" :> <<"a", "@", "b", ".", "c">>),
  event    |-> ("summary" :> <<"a">>) @@ ("start" :> <<"2026-01-01T00:00:00Z">>)
               @@ ("end" :> <<"20260102T000000Z">>) @@ ("location" :> <<"b">>),
  email    |-> ("email" :> <<"a", "@", "b", ".", "c">>) @@ ("subject" :> <<"a">>) @@ ("body" :> <<"b">>),
  tel      |-> ("phone" :> Phone) @@ ("phone_region" :> <<>>),
  sms      |-> ("phone" :> Phone) @@ ("message" :> <<"a">>),
  whatsapp |-> ("phone" :> Phone) @@ ("message" :> <<"a">>),
  geo      |-> ("latitude" :> <<"-90">>) @@ ("longitude" :> <<"90.5">>) @@ ("query" :> <<"a">>),
  crypto   |-> ("coin" :> <<"litecoin">>) @@ ("address" :> Address) @@ ("amount" :> <<"0.5">>)
               @@ ("label" :> <<"a">>),
  location |-> "location" :> <<"a">>,
  otp      |-> ("type" :> <<"TOTP">>) @@ ("issuer" :> <<"a">>) @@ ("account" :> <<"b">>)
               @@ ("secret" :> <<"A", "2", " ", "7", "=">>) @@ ("digits" :> <<"8">>),
  app      |-> ("platform" :> <<"both">>) @@ ("ios_id" :> <<"id", "1", "2", "3", "4", "5">>)
               @@ ("android_package" :> <<"a", ".", "b">>),
  epc      |-> ("name" :> <<"a">>) @@ ("iban" :> Iban) @@ ("amount" :> <<"12.346">>)
               @@ ("reference" :> <<"a">>),
  url      |-> "url" :> Url,
  text     |-> "text" :> <<"a">>,
  raw      |-> "data" :> <<"a">>]

Varied(t, f, S) == {<<t, (f :> v) @@ Base[t]>> : v \in S}
Varied2(t, f, S, g, T) == {<<t, (f :> v) @@ (g :> w) @@ Base[t]>> : v \in S, w \in T}

MCPayloads ==
  UNION {
    UNION {Varied("mecard", f, Records) : f \in {"address", "note"}},
    Varied2("mecard", "last_name", Short({"\\", ",", " "}), "first_name", Short({",", ";"})),
    Varied2("mecard", "phone", Phones \cup {<<>>}, "phone_region", Regions),
    Varied("mecard", "email", Emails), Varied("mecard", "url", Urls), Varied("mecard", "subject", {<<"a">>}),
    Varied("bookmark", "title", Records), Varied("bookmark", "url", Urls),
    Varied("wifi", "ssid", Records \cup {Long(32), Long(33)}),
    {<<"wifi", [Base.wifi EXCEPT !["password"] = r \o Long(7)]>> : r \in Records},
    Varied2("wifi", "password", {Long(n) : n \in {0, 1, 5, 7, 8, 10, 11, 26, 63, 64}},
            "auth", {<<>>, <<"nopass">>, <<"WEP">>, <<"WPA2">>, <<" ", "EAP">>, <<"a">>}),
    Varied("wifi", "hidden", {<<>>, <<"0">>, <<" ", "T">>, <<"a">>}),
    UNION {Varied("vcard", f, Records) : f \in {"org", "street", "note"}},
    Varied2("vcard", "last_name", Short({"\\", ";", "CR"}), "first_name", Short({" ", "n"})),
    Varied2("vcard", "phone", Phones, "phone_region", Regions), Varied("vcard", "url", Urls),
    UNION {Varied("event", f, Records) : f \in {"summary", "location"}},
    Varied2("event", "start", Instants, "end", Instants),
    UNION {Varied("email", f, Params) : f \in {"subject", "body"}}, Varied("email", "email", Emails),
    Varied2("tel", "phone", Phones, "phone_region", Regions),
    Varied("sms", "message", Params), Varied("sms", "phone", Phones),
    Varied("whatsapp", "message", Params), Varied2("whatsapp", "phone", Phones, "phone_region", Regions),
    Varied("geo", "query", Params), Varied2("geo", "latitude", Numbers, "altitude", {<<"7.5">>, <<"06">>, <<>>}),
    Varied("geo", "longitude", Numbers),
    UNION {Varied("crypto", f, Params) : f \in {"label", "message"}}, Varied("crypto", "amount", Numbers),
    Varied("crypto", "address", {<<>>, Long(9), Long(110), Long(111)}), Varied("crypto", "coin", {<<>>, <<"dogecoin">>}),
    UNION {Varied("otp", f, Params) : f \in {"issuer", "account"}},
    Varied2("otp", "issuer", {<<>>}, "account", Params),
    UNION {Varied2("otp", f, Numbers, "type", {<<>>, <<"hotp">>}) : f \in {"digits", "period", "counter"}},
    Varied2("otp", "counter", {<<"0">>, <<"6">>}, "type", {<<"hotp">>}),
    Varied2("otp", "type", {<<"HOTP">>, <<" ", "totp">>, <<"a">>}, "counter", {<<>>, <<"1">>}),
    Varied("otp", "algorithm", {<<"sha", "1">>, <<" ", "SHA", "256">>, <<"sha">>}), Varied("location", "location", Params),
    Varied("otp", "secret", {<<>>, <<"=">>, <<"1">>, <<"a", "-", "7">>}),
    Varied2("app", "platform", {<<"ios">>, <<"android">>, <<"both">>}, "ios_id", {<<>>, Base.app["ios_id"], <<"1">>}),
    Varied2("app", "platform", {<<"ios">>, <<"android">>}, "android_package", {<<>>, <<"a", ".", "b">>, <<"a">>}),
    UNION {Varied("epc", f, Short({" ", "LF", "a"})) : f \in {"name", "reference", "information", "purpose"}},
    Varied2("epc", "remittance", {<<>>, <<"a">>, Long(140)}, "reference", {<<>>, <<"b">>, Long(35)}),
    Varied2("epc", "information", {Long(70)}, "remittance", {Long(140)}), Varied("epc", "name", {Long(70), Long(71)}),
    {<<"epc", ("reference" :> <<>>) @@ ("remittance" :> Long(140)) @@ ("information" :> Long(70))
              @@ ("name" :> Long(n)) @@ Base.epc>> : n \in {62, 64, 65, 66, 67, 68, 70}},
    Varied("epc", "amount", Numbers), Varied("epc", "bic", {<<>>, <<"A", "B", "C", "A", "A", "T", "1", "B">>, <<"A">>}),
    Varied("epc", "iban", {<<" ">> \o Iban, [Iban EXCEPT ![7] = "9"], SubSeq(Iban, 1, 14), <<>>}),
    Varied2("url", "url", Urls, "allow_any", {<<>>, <<"true">>, <<"a">>}),
    Varied("text", "text", Params \cup {<<"https", ":", "/", "/", "h">>, <<"wifi", ":">>}), Varied("raw", "data", Params)}

\* Texts read from symbols: what each base builds, with one token dropped, doubled,
\* replaced or inserted.
Text(t) == B!Build(t, Base[t]).v
Edits(s, S) == {s} \cup UNION {{SubSeq(s, 1, i - 1) \o m \o SubSeq(s, i + 1, Len(s)) :
                                 m \in {<<>>, <<s[i], s[i]>>} \cup {<<c>> : c \in S} \cup {<<c, s[i]>> : c \in S}} :
                                i \in DOMAIN s}
MCScans == UNION {Edits(Text(t), {"\\", ";", ":", "n"}) : t \in {"mecard", "bookmark", "wifi", "vcard", "event"}}
           \cup UNION {Edits(Text(t), {"NaN", "+Inf", "-Inf"}) : t \in {"geo", "crypto", "epc"}}
           \cup Edits(B!Build("otp", ("algorithm" :> <<"SHA", "1">>) @@ Base.otp).v, {"TOTP", "hotp", "sha", "SHA"})
           \cup UNION {Edits(Text(t), {"%", "&", ":", "=", "/", "LF", "0", "181", "8", "+"}) :
                         t \in DOMAIN Base \ {"mecard", "bookmark", "wifi", "vcard", "event", "raw", "text"}}

MCKeys == UNION {[1 .. n -> {"a", "b", "c"}] : n \in 0 .. 3} \cup [1 .. 4 -> {"a", "b"}]

\* Barcodes: numbers of every length a check digit takes, with digits at both ends of their
\* range, one digit short, closed or miscounted; texts that miss a rule by one character.
Ends == {"0", "9"}
Numbers7 == [1 .. 7 -> Ends] \cup {<<"1", "2", "3", "4", "5", "6", d>> : d \in Y!Digits}
            \cup {<<s, "1", "0", "2", "7", "0", d>> : s \in {"0", "1", "2"}, d \in Y!Digits}
Number(n, k) == [i \in 1 .. n |-> Y!DigitOf[((i * k) % 10) + 1]]
Widths == [ean13 |-> 12, ean8 |-> 7, upca |-> 11, upce |-> 7, itf14 |-> 13]
Option(a, e) == [auto |-> a, ecc |-> e]
MCBarcodes ==
  ({"ean8", "upce"} \X Numbers7 \X {Plainly})
  \cup UNION {{<<sym, Number(Widths[sym] + j, k), Plainly>> : j \in -1 .. 2, k \in 0 .. 9} : sym \in DOMAIN Widths}
  \cup UNION {{<<sym, Append(Number(Widths[sym], 3), d), o>> : d \in Y!Digits \cup {"a"},
               o \in {Plainly, Option(FALSE, ""), Option(TRUE, "M")}} : sym \in DOMAIN Widths}
  \cup ({"itf", "twooffive", "codabar", "code39", "code93", "code128"}
        \X (UNION {[1 .. n -> {"1", "A", "$", "a", "*", "e-acute"}] : n \in 0 .. 3}
            \cup UNION {{[i \in 1 .. n |-> c] : n \in {4, 80, 81, 128, 129}} : c \in {"1", "A"}}
            \cup {<<"A", "1", "B", "1", "C">>, <<"A", "1", "1", "D">>, <<"1", "A", "1", "B">>})
        \X {Plainly})
  \cup (Y!Grids \X {[i \in 1 .. n |-> c] : n \in {0, 1, 554, 555, 1108, 1109}, c \in {"1", "e-acute"}}
        \X {Option(a, e) : a \in BOOLEAN, e \in {"", "M", "2", "9"}})

\* Places: points on both sides of every sign, limit and rounding, in every notation; links
\* of several maps that name one point in one or two ways; routes and codes, with and
\* without options.
Points2 == {<<lat, lng>> : lat \in {0, 17, 3600, 129437, 324000, -1830, -324000, -3605},
                           lng \in {0, 19, 20000, 648000, -1850, -3600, -648000}}
Abs(v) == IF v < 0 THEN -v ELSE v
Decimal(v) == P!Angle(v < 0, Abs(v), 0, 0, "")
Lettered(v, l) == P!Angle(FALSE, Abs(v), 0, 0, IF v < 0 THEN l[1] ELSE l[2])
Minutes(v) == P!Angle(v < 0, (Abs(v) \div 3600) * 3600, (Abs(v) % 3600) \div 60, Abs(v) % 60, "")
MinutesLettered(v, l) == [Minutes(v) EXCEPT !.neg = FALSE, !.letter = IF v < 0 THEN l[1] ELSE l[2]]
NS == <<"S", "N">>
EW == <<"W", "E">>
Pair(x, y, sep, marks) == [P!Free("pair") EXCEPT !.pair = <<[a |-> x, b |-> y, sep |-> sep, marks |-> marks]>>]
NegativeNothing(v) == v < 0 /\ v > -3600
Map(host, mentions) == [host |-> host, mentions |-> mentions, osm |-> <<>>, bing |-> <<>>, marker |-> <<>>,
                        params |-> <<>>, at |-> <<>>]
Osm    == Map(<<"www", "openstreetmap", "org">>, {"openstreetmap.org"})
Apple  == Map(<<"maps", "apple", "com">>, {"maps.apple.com"})
Google == Map(<<"www", "google", "com">>, {"google.com/maps"})
Bing   == Map(<<"www", "bing", "com">>, {"bing.com/maps"})
Linked(u) == [P!Free("link") EXCEPT !.url = <<u>>]
Written(p) ==
  LET lat == p[1]
      lng == p[2]
  IN  {Pair(Decimal(lat), Decimal(lng), ",", FALSE),
       Pair(Lettered(lat, NS), Lettered(lng, EW), " ", FALSE), Pair(Lettered(lng, EW), Lettered(lat, NS), ",", FALSE),
       Pair(MinutesLettered(lat, NS), MinutesLettered(lng, EW), " ", TRUE),
       [P!Free("geo") EXCEPT !.geo = <<p>>],
       Linked([Osm EXCEPT !.osm = <<p>>, !.at = <<<<1, 1>>>>]), Linked([Osm EXCEPT !.marker = <<p>>, !.params = <<<<"q", Pair(Decimal(1), Decimal(2), ",", FALSE)>>>>]),
       Linked([Apple EXCEPT !.params = <<<<"q", P!Free("a")>>, <<"ll", Pair(Decimal(lat), Decimal(lng), ",", FALSE)>>>>]),
       Linked([Bing EXCEPT !.bing = <<p>>, !.params = <<<<"q", Pair(Decimal(1), Decimal(2), ",", FALSE)>>>>]),
       Linked([Google EXCEPT !.at = <<p>>])}
      \cup (IF NegativeNothing(lat) \/ NegativeNothing(lng) THEN {}
            ELSE {Pair(Minutes(lat), Minutes(lng), ",", TRUE)})
Tuned == {P!Tuning} \cup {[P!Tuning EXCEPT !.zoom = z, !.hl = h] : z \in {0, 1, 21, 22}, h \in {"", "fr"}}
         \cup {[P!Tuning EXCEPT !.origin = x, !.mode = m, !.zoom = z] :
                 x \in {<<>>, <<P!Free("home")>>}, m \in {"", "walking", "flying"}, z \in {0, 5}}
A == P!Free("a")
Others == {P!Free(n) : n \in {"", "invisible", "a"}}
  \cup {[P!Free("b") EXCEPT !.route = <<A, t>>] : t \in {A, [A EXCEPT !.arrow = <<A, A>>], [A EXCEPT !.name = "c", !.geo = <<<<1, 1>>>>]}}
  \cup {[P!Free("b") EXCEPT !.arrow = t, !.url = u] : t \in {<<A, A>>, <<A, A, A>>, <<A, P!Free("")>>}, u \in {<<>>, <<Osm>>}}
  \cup {[P!Free("b") EXCEPT !.plus = <<[head |-> h, locality |-> l, upper |-> u]>>] : h \in {2, 3, 8}, l \in {"", "x"}, u \in BOOLEAN}
  \cup {Pair(Decimal(x), Decimal(y), sep, FALSE) : x \in {90 * 3600 + 36, 3600}, y \in {-180 * 3600 - 36, 7200}, sep \in {" ", ","}}
  \cup {[P!Free("geo") EXCEPT !.geo = <<<<95 * 3600, 3600>>>>], [P!Free("geo") EXCEPT !.geo = <<<<-5, 3600>>>>]}
  \cup {Linked(u) : u \in {Osm, Apple, Google, Map(<<"example", "com">>, {}), Map(<<"maps", "google", "de">>, {"maps.google."}),
                           Map(<<"goo", "gl">>, {"goo.gl/maps"}), Map(<<"bing", "com">>, {"bing.com/maps"})}}
Pointing == [P!Tuning EXCEPT !.zoom = 5]
MCPlaces == {<<t, o, <<>>>> : t \in Others, o \in Tuned}
            \cup UNION {{<<t, o, <<p>>>> : t \in Written(p), o \in {P!Tuning, Pointing}} : p \in Points2}

\* Batches: tables of up to three columns of every kind, and of up to three rows, full, part
\* blank, blank, ragged or torn, quoted fields spreading them over lines; lists of items; both.
Cell(n, d) == [name |-> n, dressed |-> d]
Headers == UNION {[1 .. n -> {Cell("data", FALSE), Cell("type", FALSE), Cell("payload.text", FALSE), Cell("style.fg", TRUE),
                              Cell("", FALSE), Cell("style.", FALSE), Cell("data", TRUE)}] : n \in 1 .. 2}
           \cup {<<Cell("type", FALSE), Cell("payload.text", FALSE), Cell("payload.ssid", FALSE)>>,
                 <<Cell("id", FALSE), Cell("data", TRUE), Cell("", TRUE)>>}
Torn == <<"\"">>
RowsOf(n) == [1 .. n -> {"", "x", "y"}] \cup {<<"x">>, Torn}
Tables == UNION {{[header |-> h, rows |-> [i \in DOMAIN r |-> [line |-> 3 * i - 1, torn |-> r[i] = Torn, cells |-> r[i]]]] :
                    r \in UNION {[1 .. k -> RowsOf(Len(h))] : k \in 0 .. (IF Len(h) = 1 THEN 3 ELSE IF Len(h) = 2 THEN 2 ELSE 1)}}
                 : h \in Headers}
Item == "data" :> "x"
MCBatches == {[output |-> "zip", items |-> <<>>, csv |-> t] : t \in Tables}
             \cup {[output |-> o, items |-> [i \in 1 .. n |-> Item], csv |-> t] :
                     o \in {"", "zip", "json", "pdf"}, n \in 0 .. 3,
                     t \in {I!NoDoc, [header |-> <<Cell("data", FALSE)>>, rows |-> <<[line |-> 2, torn |-> FALSE, cells |-> <<"x">>]>>]}}
=============================================================================
