----------------------------- MODULE MCRequest -----------------------------
(***************************************************************************)
(* Small instances of Endpoints: every transport and endpoint over a few   *)
(* keys, one message for each kind of logo, and uploads of up to three     *)
(* codes on a grid of six by five of the smallest strips.                  *)
(***************************************************************************)
EXTENDS Endpoints

ASSUME ImagesAssumption == SeparateCodes

T(c) == Text(c)
D(c) == [core |-> c, dressed |-> TRUE]
One(k, v) == [x \in {k} |-> <<v>>]
Two(k, v, l, w) == [x \in {k, l} |-> IF x = k THEN <<v>> ELSE <<w>>]

Query(values) == [parses |-> TRUE, values |-> values]
NoQuery == Query(<< >>)
Queries ==
  {NoQuery, [parses |-> FALSE, values |-> << >>]} \cup
  {Query(q) : q \in
    {One("data", T("a")), Two("data", D("a"), "style.fg", T("red")),
     Two("colour", T("red"), "encode.version", T("x")),
     [k \in {"output.scale", "meta.attachment", "data"} |->
        CASE k = "output.scale" -> <<T("x"), D("4")>> [] OTHER -> <<T("")>>],
     Two("type", T("raw"), "payload.url", T("u")),
     Two("type", T("raw"), "payload.data", T("u")),
     Two("type", T("url"), "payload.url", T("u")),
     One("payload", T("u")), One("payload.", T("u")),
     Two("data", T("a"), "symbology", T("pdf417")),
     Two("data", T("a"), "symbology", T("")),
     Two("data", T("a"), "encode.ecc", D("H")),
     Two("style.caption", T("a"), "output.format", T("gif")),
     Two("style.frame", T("oval"), "data", T("a")),
     Two("style.hri_size", T("NaN"), "data", T("long"))}}

M(key, type, text) == [key |-> key, type |-> type, text |-> text]
NoBody == [type |-> "json", shape |-> "empty", doc |-> << >>, values |-> << >>,
           files |-> << >>, raw |-> T("")]
JSON(doc) == [NoBody EXCEPT !.shape = "object", !.doc = doc]
Form(t, values, files) ==
  [NoBody EXCEPT !.type = t, !.shape = "form", !.values = values, !.files = files]
Part(uri, large) == [uri |-> uri, large |-> large]

Bodies ==
  {NoBody, [NoBody EXCEPT !.shape = "malformed"], [NoBody EXCEPT !.shape = "oversize"],
   [JSON(<<M("data", "string", T("b"))>>) EXCEPT !.shape = "many"],
   [NoBody EXCEPT !.type = "", !.shape = "raw", !.raw = D("b")],
   [NoBody EXCEPT !.type = "other"],
   JSON(<<M("data", "string", T("b")), M("data", "null", T(""))>>),
   JSON(<<M("style.fg", "number", T("4")), M("colour", "string", T("red"))>>),
   JSON(<<M("colour", "string", T("red")), M("encode.version", "string", T("x"))>>),
   JSON(<<M("data", "string", T("b")), M("encode.version", "null", T("")),
          M("encode.quiet_zone", "number", T("0")), M("encode.quiet_zone", "null", T(""))>>),
   JSON(<<M("payload.url", "string", T("u")), M("type", "string", T("url")),
          M("payload", "null", T(""))>>),
   JSON(<<M("type", "string", T("url")), M("payload.url", "string", T("v"))>>),
   JSON(<<M("encode.version", "number", T("7")), M("data", "string", T("b"))>>),
   JSON(<<M("symbology", "string", T("")), M("output.scale", "number", T("7"))>>),
   Form("form", Two("data", T("b"), "meta.attachment", T("no")), << >>),
   Form("multipart", Two("data", T("b"), "style.logo", T("inline")),
        [x \in {"style.logo"} |-> Part("file", FALSE)]),
   Form("multipart", << >>, [x \in {"output.scale", "payload.url"} |-> Part("file", FALSE)]),
   Form("multipart", << >>, [x \in {"colour", "style.logo"} |-> Part("file", x = "colour")])}

NoItem == [defaults |-> << >>, options |-> << >>, type |-> T(""), data |-> T(""),
           payload |-> NoPayload]
Base == [endpoint |-> "qr", path |-> "qr", method |-> "GET", query |-> NoQuery,
         body |-> NoBody, match |-> {}, item |-> NoItem]

Places == {<<"qr", "qr">>, <<"barcode", "ean13">>, <<"barcode", "maxicode">>,
           <<"barcode", "qr">>, <<"build", "url">>, <<"build", "raw">>,
           <<"validate", "">>, <<"preset", "brand">>, <<"preset", "gone">>}

\* Every place with every query, then with every body over some queries.
Plain == {[Base EXCEPT !.endpoint = p[1], !.path = p[2], !.query = q, !.method = m] :
            p \in Places, q \in Queries, m \in {"GET"}}
Posted == {[Base EXCEPT !.endpoint = p[1], !.path = p[2], !.query = q, !.body = b,
                        !.method = "POST"] :
             p \in {<<"qr", "qr">>, <<"barcode", "ean13">>, <<"validate", "">>,
                    <<"preset", "brand">>, <<"build", "url">>},
             q \in {NoQuery, Query(Two("data", T("a"), "encode.version", T("4")))},
             b \in Bodies}
Cached == {[Base EXCEPT !.query = Query(One("data", T("a"))), !.method = m, !.match = t] :
             m \in {"GET", "HEAD"}, t \in {{}, {"*"}, {"other"}, {"own", "other"}}}

Pairs == {<< >>, [x \in {"type"} |-> T("url")], [x \in {"colour"} |-> T("red")],
          [x \in {"style.fg", "output.format"} |-> IF x = "style.fg" THEN T("mud") ELSE T("svg")],
          [x \in {"style.fg", "data"} |-> IF x = "style.fg" THEN T("red") ELSE T("a")]}
Items == {[Base EXCEPT !.endpoint = "item",
             !.item = [defaults |-> d, options |-> o, type |-> t, data |-> x, payload |-> p]] :
           d \in Pairs, o \in Pairs, t \in {T(""), T("url")}, x \in {T(""), T("b")},
           p \in {NoPayload, SetPayload(NoPayload, "payload.url", T("u"))}}

Host(n, s) == [name |-> n, spelling |-> s]
Ref(k, s, h) == [kind |-> k, scheme |-> s, host |-> h]
MCLogoRefs ==
  [l \in {"", "inline", "file", "webp", "cdn", "rooted", "http", "suffix", "lit", "loop"} |->
     CASE l = "cdn"    -> Ref("remote", "https", Host(<<"cdn">>, "plain"))
       [] l = "webp"   -> Ref("remote", "https", Host(<<"cdn">>, "shouted"))
       [] l = "rooted" -> Ref("remote", "https", Host(<<"cdn">>, "rooted"))
       [] l = "http"   -> Ref("remote", "http", Host(<<"cdn">>, "plain"))
       [] l = "suffix" -> Ref("remote", "https", Host(<<"evil", "cdn">>, "plain"))
       [] l = "lit"    -> Ref("remote", "https", Host(<<"lit">>, "plain"))
       [] l = "loop"   -> Ref("remote", "https", Host(<<"loop">>, "plain"))
       [] l = ""       -> Ref("empty", "", Host(NoName, "plain"))
       [] OTHER        -> Ref("data", "", Host(NoName, "plain"))]
MCRefs == {MCLogoRefs[l] : l \in DOMAIN MCLogoRefs}

Logos == {[Base EXCEPT !.query = Query(Two("data", T("a"), "style.logo", T(l)))] :
            l \in DOMAIN MCLogoRefs \ {""}}

MCMessages == Plain \cup Posted \cup Cached \cup Items \cup Logos

Levels == {"L", "M", "Q", "H"}
MCSymbologies ==
  [s \in {"qr", "ean13", "pdf417", "maxicode"} |->
     CASE s = "qr"     -> [available |-> TRUE, levels |-> Levels,
                           refuses |-> [d \in {"long"} |-> "DATA_TOO_LONG"]]
       [] s = "pdf417" -> [available |-> TRUE, levels |-> {"0", "7"}, refuses |-> << >>]
       [] s = "ean13"  -> [available |-> TRUE, levels |-> {},
                           refuses |-> [d \in {"b"} |-> "INVALID_DATA"]]
       [] OTHER        -> [available |-> FALSE, levels |-> {}, refuses |-> << >>]]
MCBuilders == [b \in {"url"} |-> "payload.url"]
MCPresets  == [p \in {"brand"} |->
  [k \in {"style.fg", "data", "encode.version"} |->
     CASE k = "style.fg" -> T("red") [] k = "data" -> T("a") [] OTHER -> D("auto")]]
MCConfigs == {[strict |-> "strict", ecc |-> "M", format |-> "png"],
              [strict |-> "warn", ecc |-> "H", format |-> "svg"]}

Public == [net |-> "public", mapped |-> FALSE]
MCNames == {<<"cdn">>, <<"evil", "cdn">>, <<"lit">>, <<"loop">>}
MCLiterals == [n \in {<<"lit">>, <<"loop">>} |->
                 IF n = <<"lit">> THEN Public ELSE [net |-> "loopback", mapped |-> TRUE]]
MCAllowlist == {Host(<<"cdn">>, "shouted"), Host(NoName, "plain"), Host(<<"loop">>, "plain"),
                Host(<<"lit">>, "plain")}
MCAnswers == {<< >>, <<Public>>, <<Public, [net |-> "private", mapped |-> FALSE]>>,
              <<[net |-> "public", mapped |-> TRUE]>>, <<[net |-> "nat", mapped |-> TRUE]>>}
R(status, declared, size, image) ==
  [status |-> status, declared |-> declared, size |-> size, image |-> image]
MCReplies == {R(200, 2, 2, TRUE), R(200, 0, 4, TRUE), R(200, 4, 4, TRUE), R(302, 0, 0, FALSE),
              R(200, 0, 2, FALSE), R(200, 1, 2, TRUE)}
MCWaits == {1, 3}
MCChunks == {1, 2}

C(s, d, x, y, w, h, linear, whole) ==
  [sym |-> s, data |-> d, x |-> x, y |-> y, w |-> w, h |-> h, linear |-> linear, whole |-> whole]
Codes ==
  { {}, {C("qr", "a", 0, 0, 2, 2, FALSE, TRUE)},
    {C("qr", "a", 1, 1, 2, 2, FALSE, TRUE), C("qr", "b", 4, 3, 2, 2, FALSE, TRUE),
     C("ean13", "c", 4, 0, 2, 2, TRUE, TRUE)},
    {C("qr", "a", 0, 0, 2, 2, FALSE, TRUE), C("qr", "a", 4, 3, 2, 2, FALSE, TRUE),
     C("aztec", "b", 2, 2, 2, 2, FALSE, FALSE)},
    {C("pdf417", "a", 0, 0, 2, 2, FALSE, TRUE), C("upca", "b", 1, 2, 4, 3, TRUE, TRUE)},
    {C("ean13", "a", 0, 0, 3, 3, TRUE, TRUE), C("itf", "b", 3, 2, 3, 3, TRUE, TRUE)} }
I(bytes, declared, corrupt, codes, w, h) ==
  [bytes |-> bytes, declared |-> declared, corrupt |-> corrupt, codes |-> codes, w |-> w, h |-> h]
Images ==
  {I(1, 30, FALSE, c, 6, 5) : c \in Codes} \cup
  {I(0, 30, FALSE, {}, 6, 5), I(3, 30, FALSE, {}, 6, 5), I(1, 0, FALSE, {}, 6, 5),
   I(1, 31, FALSE, {}, 6, 5), I(1, 30, TRUE, {}, 6, 5),
   I(1, 1, FALSE, {C("qr", "a", 0, 0, 2, 2, FALSE, TRUE)}, 6, 6)}
Filters == {<< >>, <<"ean13", "qr">>, <<"upca">>, <<"qr", "pdf417">>, <<"nope">>}
U(t, n, ok, names, multi, i) ==
  [transport |-> t, named |-> n, well |-> ok, wanted |-> names, multi |-> multi, image |-> i]
MCUploads ==
  {U(t, n, ok, << >>, FALSE, i) : t \in {"multipart", "json", "bare"}, n \in BOOLEAN,
                                  ok \in BOOLEAN, i \in {j \in Images : j.codes = {}}}
  \cup {U("bare", TRUE, TRUE, f, m, i) : f \in Filters, m \in BOOLEAN, i \in Images}

\* Any answer may be put in this one's place before it is read, and the
\* decoder's calls need one configuration.
MCInit == /\ dns = <<Public>> /\ cfg \in Configs /\ CallInit
          /\ serves = "decode" => cfg = CHOOSE c \in Configs : TRUE
MCSpec == MCInit /\ [][CallNext]_callVars /\ WF_callVars(RenderCall \/ DecodeCall)
=============================================================================
