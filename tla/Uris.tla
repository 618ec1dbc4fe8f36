-------------------------------- MODULE Uris --------------------------------
(***************************************************************************)
(* The builders whose record is a URI or plain lines: mailto, tel, SMSTO,  *)
(* wa.me, geo, payment and one-time-password URIs, store links, the EPC    *)
(* transfer, links, text and raw data; and the registry they are found in. *)
(*                                                                         *)
(* A number is a numeral; its value is in thousandths.                     *)
(***************************************************************************)
EXTENDS Cards

\* Numerals, and the one formatNumber writes for each value.
Canonical == ("-181" :> -181000) @@ ("-90" :> -90000) @@ ("-1" :> -1000) @@ ("-0.5" :> -500)
  @@ ("0" :> 0) @@ ("0.01" :> 10) @@ ("0.5" :> 500) @@ ("1" :> 1000) @@ ("6" :> 6000)
  @@ ("7.5" :> 7500) @@ ("8" :> 8000) @@ ("9" :> 9000) @@ ("10" :> 10000) @@ ("12.346" :> 12346)
  @@ ("12.35" :> 12350) @@ ("90" :> 90000) @@ ("90.5" :> 90500) @@ ("181" :> 181000)
  @@ ("3601" :> 3601000)
Spelled   == ("06" :> 6000) @@ ("1.00" :> 1000) @@ ("1e1" :> 10000) @@ ("-0.5e0" :> -500)
Numerals  == Canonical @@ Spelled
\* number: an absent field, a value, or a refusal.
number(s) ==
  LET t  == TrimSpace(s)
      is == Len(t) = 1 /\ t[1] \in DOMAIN Numerals
  IN  IF t = <<>> THEN [ok |-> TRUE, given |-> FALSE, v |-> 0]
      ELSE [ok |-> is, given |-> is, v |-> IF is THEN Numerals[t[1]] ELSE 0]
formatNumber(n) == IF n.given THEN <<CHOOSE w \in DOMAIN Canonical : Canonical[w] = n.v>> ELSE <<>>
Exact(s) == LET n == number(s) IN n.ok /\ n.given /\ formatNumber(n) = s

\* What ParseFloat also reads and formatNumber writes: number refuses them, a builder that
\* parses a numeral itself does not.
NaN       == <<"NaN">>
NonFinite == {NaN, <<"+Inf">>, <<"-Inf">>}

-----------------------------------------------------------------------------
(* mailto, tel, SMSTO, wa.me.                                              *)

EmailFields == {"email", "subject", "body"}
EmailBuild(p) ==
  LET addr == checkEmail(TrimSpace(p["email"]))
  IN  IF ~addr.ok THEN No
      ELSE Yes(<<"mailto", ":">> \o addr.v
               \o Query(<<<<"subject", p["subject"]>>, <<"body", p["body"]>>>>))
EmailParse(raw) ==
  LET rest   == cutPrefixFold(raw, <<"mailto", ":">>)
      parts  == Cut(rest.v, "?")
      addr   == PathUnescape(parts.before)
  IN  IF ~rest.ok THEN No
      ELSE Then(Then(addr, checkEmail), LAMBDA a :
             Then(parseURIQuery(parts.after, {"subject", "body"}), LAMBDA q : Yes(("email" :> a) @@ q)))

TelFields == {"phone", "phone_region"}
TelBuild(p) ==
  LET n == normalisePhoneRegion(p["phone"], p["phone_region"])
  IN  IF n.ok THEN Yes(<<"tel", ":">> \o n.v) ELSE No
TelParse(raw) ==
  LET rest == cutPrefixFold(raw, <<"tel", ":">>)
  IN  IF rest.ok /\ stableString(rest.v, normalisePhone(rest.v))
      THEN Yes(("phone" :> rest.v) @@ ("phone_region" :> <<>>)) ELSE No

SmsFields == {"phone", "message"}
SmsBuild(p) ==
  LET n == normalisePhone(p["phone"])
  IN  IF ~n.ok THEN No
      ELSE Yes(<<"SMSTO", ":">> \o n.v \o (IF p["message"] = <<>> THEN <<>> ELSE <<":">> \o p["message"]))
SmsParse(raw) ==
  LET rest  == cutPrefixFold(raw, <<"SMSTO", ":">>)
      parts == Cut(rest.v, ":")
  IN  IF \/ ~rest.ok
         \/ ~stableString(parts.before, normalisePhone(parts.before))
         \/ parts.found /\ parts.after = <<>>
      THEN No ELSE Yes(("phone" :> parts.before) @@ ("message" :> parts.after))

WhatsappFields == {"phone", "phone_region", "message"}
Rootless(path) == IF path # <<>> /\ path[1] = "/" THEN Tail(path) ELSE path
NoPlus(s) == IF s # <<>> /\ s[1] = "+" THEN Tail(s) ELSE s
WhatsappBuild(p) ==
  LET n == normalisePhoneRegion(p["phone"], p["phone_region"])
  IN  IF ~n.ok THEN No
      ELSE Yes(<<"https", ":", "/", "/", "wa.me", "/">> \o NoPlus(n.v) \o Query(<<<<"text", p["message"]>>>>))
WhatsappParse(raw) ==
  LET Chat(n, q) == IF ~stableString(n, normalisePhone(n)) \/ \E i \in DOMAIN n : n[i] \in {"+", "/"} THEN No
                    ELSE Yes(("phone" :> n) @@ ("phone_region" :> <<>>) @@ ("message" :> q["text"]))
      Read(u) == IF ~u.ok \/ u.scheme # <<"https">> \/ u.host # <<"wa.me">> THEN No
                 ELSE Then(parseURIQuery(u.query, {"text"}), LAMBDA q : Chat(Rootless(EscapedPath(u.path)), q))
  IN  Read(ParseLink(raw))

-----------------------------------------------------------------------------
(* geo and payment URIs.                                                   *)

GeoFields == {"latitude", "longitude", "altitude", "query"}
OnEarth(lat, lon) == lat \in -90000 .. 90000 /\ lon \in -180000 .. 180000
\* Not beyond the limit: no comparison holds of NaN.
Within(s, max)     == s = NaN \/ (s \notin NonFinite /\ number(s).v \in -max .. max)
GeoParts(coords) == LET parts == Split(coords, ",") IN
                    /\ Len(parts) \in 2 .. 3
                    /\ \A i \in DOMAIN parts : Exact(parts[i]) \/ parts[i] \in NonFinite
                    /\ Within(parts[1], 90000) /\ Within(parts[2], 180000)
GeoBuild(p) ==
  LET n == [f \in {"latitude", "longitude", "altitude"} |-> number(p[f])]
  IN  IF \/ \E f \in DOMAIN n : ~n[f].ok
         \/ ~n["latitude"].given \/ ~n["longitude"].given
         \/ ~OnEarth(n["latitude"].v, n["longitude"].v)
      THEN No
      ELSE Yes(<<"geo", ":">> \o formatNumber(n["latitude"]) \o <<",">> \o formatNumber(n["longitude"])
               \o (IF n["altitude"].given THEN <<",">> \o formatNumber(n["altitude"]) ELSE <<>>)
               \o Query(<<<<"q", p["query"]>>>>))
GeoParse(raw) ==
  LET rest   == cutPrefixFold(raw, <<"geo", ":">>)
      parts  == Cut(rest.v, "?")
      Point(coords, q) == ("latitude" :> coords[1]) @@ ("longitude" :> coords[2]) @@ ("query" :> q["q"])
                          @@ ("altitude" :> IF Len(coords) = 3 THEN coords[3] ELSE <<>>)
  IN  IF \/ ~rest.ok
         \/ \E i \in DOMAIN parts.before : parts.before[i] = ";"
         \/ ~GeoParts(parts.before)
      THEN No
      ELSE Then(parseURIQuery(parts.after, {"q"}), LAMBDA q : Yes(Point(Split(parts.before, ","), q)))

CryptoFields == {"coin", "address", "amount", "label", "message"}
Coins == {<<"bitcoin">>, <<"ethereum">>, <<"litecoin">>}
cryptoAddress(s) == /\ Len(s) \in 10 .. 110
                    /\ \A i \in DOMAIN s : s[i] \in Digits \cup Lowers \cup Uppers
CryptoBuild(p) ==
  LET v      == readStrings(p)
      coin   == IF v["coin"] = <<>> THEN <<"bitcoin">> ELSE ToLower(v["coin"])
      amount == number(p["amount"])
  IN  IF \/ coin \notin Coins \/ ~cryptoAddress(v["address"])
         \/ ~amount.ok \/ (amount.given /\ amount.v <= 0)
      THEN No
      ELSE Yes(coin \o <<":">> \o v["address"]
               \o Query(<<<<"amount", formatNumber(amount)>>, <<"label", v["label"]>>,
                          <<"message", v["message"]>>>>))
CryptoParse(raw) ==
  LET at     == Cut(raw, ":")
      parts  == Cut(at.after, "?")
      Paid(s)  == s \in NonFinite \ {<<"-Inf">>} \/ (Exact(s) /\ number(s).v > 0)
      Asked(q) == IF \/ q["amount"] # <<>> /\ ~Paid(q["amount"])
                     \/ ~trimmedValues(q)
                  THEN No ELSE Yes(("coin" :> ToLower(at.before)) @@ ("address" :> parts.before) @@ q)
  IN  IF ~at.found \/ ToLower(at.before) \notin Coins \/ ~cryptoAddress(parts.before) THEN No
      ELSE Then(parseURIQuery(parts.after, {"amount", "label", "message"}), Asked)

-----------------------------------------------------------------------------
(* One-time passwords.                                                     *)

OtpFields == {"type", "issuer", "account", "secret", "algorithm", "digits", "period", "counter"}
OtpNumbers == <<"digits", "period", "counter">>
Base32 == Uppers \cup {"2", "3", "4", "5", "6", "7"}
otpSecret(raw) ==
  LET s    == SelectSeq(ToUpper(raw), LAMBDA c : c \notin {" ", "-", "TAB"})
      body == {i \in DOMAIN s : s[i] # "="}
      kept == IF body = {} THEN <<>> ELSE SubSeq(s, 1, CHOOSE i \in body : \A j \in body : i >= j)
  IN  IF kept = <<>> \/ \E i \in DOMAIN kept : kept[i] \notin Base32 THEN No ELSE Yes(kept)
otpAlgorithm(raw) == LET a == ToUpper(TrimSpace(raw)) IN
                     IF a = <<>> \/ a \in {<<"SHA", n>> : n \in {"1", "256", "512"}} THEN Yes(a) ELSE No

\* The limit on counters is scaled to 3600, so that a numeral of the instance is past it.
otpMaxCounter == 3600000

otpValidate(kind, n) ==
  /\ n["digits"].given  => n["digits"].v \in {6000, 7000, 8000}
  /\ n["period"].given  => n["period"].v % 1000 = 0 /\ n["period"].v \in 1000 .. 3600000
  /\ n["counter"].given => n["counter"].v % 1000 = 0 /\ n["counter"].v \in 0 .. otpMaxCounter
  /\ IF kind = <<"hotp">> THEN n["counter"].given /\ ~n["period"].given ELSE ~n["counter"].given

OtpBuild(p) ==
  LET v      == readStrings(p)
      kind   == IF v["type"] = <<>> THEN <<"totp">> ELSE ToLower(v["type"])
      secret == otpSecret(v["secret"])
      hash   == otpAlgorithm(v["algorithm"])
      n      == [f \in {"digits", "period", "counter"} |-> number(p[f])]
      issuer == v["issuer"]
  IN  IF \/ kind \notin {<<"totp">>, <<"hotp">>} \/ v["account"] = <<>>
         \/ \E i \in DOMAIN issuer : issuer[i] = ":"
         \/ ~secret.ok \/ ~hash.ok
         \/ \E f \in DOMAIN n : ~n[f].ok
      THEN No
      ELSE IF ~otpValidate(kind, n) THEN No
      ELSE Yes(<<"otpauth", ":", "/", "/">> \o kind \o <<"/">>
               \o (IF issuer = <<>> THEN <<>> ELSE pctEscape(issuer) \o <<":">>) \o pctEscape(v["account"])
               \o Query(<<<<"secret", secret.v>>, <<"issuer", issuer>>, <<"algorithm", hash.v>>>>
                        \o [i \in 1 .. 3 |-> <<OtpNumbers[i], formatNumber(n[OtpNumbers[i]])>>]))

\* The label is split at its first colon before either half is unescaped.
OtpLabel(label) ==
  LET at      == Cut(label, ":")
      issuer  == PathUnescape(IF at.found THEN at.before ELSE <<>>)
      account == PathUnescape(IF at.found THEN at.after ELSE label)
  IN  [ok |-> issuer.ok /\ account.ok, issuer |-> issuer.v, account |-> account.v]
OtpParse(raw) ==
  LET Key(kind, label, q) ==
        LET n   == [f \in {"digits", "period", "counter"} |-> number(q[f])]
            out == ("type" :> kind) @@ ("account" :> label.account) @@ [q EXCEPT !["issuer"] = label.issuer, !["algorithm"] = otpAlgorithm(@).v]
        IN  IF \/ ~label.ok \/ label.account = <<>>
               \/ ~stableString(q["secret"], otpSecret(q["secret"]))
               \/ q["issuer"] # label.issuer /\ ~(q["issuer"] = <<>> /\ label.issuer # <<>>)
               \/ ~otpAlgorithm(q["algorithm"]).ok
               \/ \E f \in DOMAIN n : q[f] # <<>> /\ ~Exact(q[f])
            THEN No
            ELSE IF ~otpValidate(kind, n) \/ ~trimmedValues(out) THEN No ELSE Yes(out)
      Read(u) == IF u.ok /\ u.scheme = <<"otpauth">> /\ u.fragment = <<>> /\ ToLower(u.host) \in {<<"totp">>, <<"hotp">>}
                 THEN Then(parseURIQuery(u.query, OtpFields \ {"type", "account"}),
                           LAMBDA q : Key(ToLower(u.host), OtpLabel(Rootless(EscapedPath(u.path))), q))
                 ELSE No
  IN  Read(ParseLink(raw))

-----------------------------------------------------------------------------
(* Store links.                                                            *)

AppFields == {"platform", "ios_id", "android_package"}
appStoreURL  == <<"https", ":", "/", "/", "apps.apple.com", "/", "app", "/", "id">>
playStoreURL == <<"https", ":", "/", "/", "play.google.com", "/", "details", "?", "id", "=">>
intentPrefix == <<"intent", ":", "/", "/", "details", "?", "id", "=">>
appIOSID(s)  == Len(s) \in 5 .. 12 /\ \A i \in DOMAIN s : s[i] \in Digits
appAndroidPackage(s) ==
  LET parts == Split(s, ".")
  IN  /\ Len(parts) > 1 /\ s # <<>> /\ s[1] \in Lowers \cup Uppers
      /\ \A i \in DOMAIN parts : /\ parts[i] # <<>>
                                 /\ \A j \in DOMAIN parts[i] : parts[i][j] \in Lowers \cup Uppers \cup Digits \cup {"_"}
Needed(wanted, s, OK(_)) == IF wanted THEN OK(s) ELSE s = <<>>
AppBuild(p) ==
  LET v   == readStrings(p)
      ios == LET s == ToLower(v["ios_id"]) IN IF s # <<>> /\ s[1] = "id" THEN Tail(s) ELSE s
      pkg == v["android_package"]
      on  == v["platform"]
  IN  IF \/ on \notin {<<"ios">>, <<"android">>, <<"both">>}
         \/ ~Needed(on # <<"android">>, ios, appIOSID)
         \/ ~Needed(on # <<"ios">>, pkg, appAndroidPackage)
      THEN No
      ELSE CASE on = <<"ios">>     -> Yes(appStoreURL \o ios)
             [] on = <<"android">> -> Yes(playStoreURL \o pkg)
             [] on = <<"both">>    -> Yes(intentPrefix \o pkg
                  \o <<"#", "Intent", ";", "scheme", "=", "market", ";", "package", "=", "vending", ";", "fallback", "=">>
                  \o pctEscape(appStoreURL \o ios) \o <<";", "end">>)
AppPayload(on, ios, pkg) == Yes(("platform" :> <<on>>) @@ ("ios_id" :> ios) @@ ("android_package" :> pkg))
AppTake(out, extra) ==
  LET kv == Cut(extra, "=")
      v  == PathUnescape(kv.after)
  IN  IF ~kv.found THEN No ELSE
      CASE kv.before = <<"scheme">>    -> IF kv.after = <<"market">> THEN Yes(out) ELSE No
        [] kv.before = <<"package">>   -> IF kv.after = <<"vending">> THEN Yes(out) ELSE No
        [] kv.before = <<"fallback">>  -> v
        [] OTHER                       -> No
AppIntent(raw) ==
  LET rest == cutPrefixFold(raw, intentPrefix)
      at   == Cut(rest.v, "#")
      n    == Len(at.after)
      mid  == SubSeq(at.after, 3, n - 2)
      back == Walk(Split(mid, ";"), <<>>, AppTake)
      id   == cutPrefixFold(back.v, appStoreURL)
  IN  IF \/ ~rest.ok \/ ~at.found \/ ~appAndroidPackage(at.before) \/ n < 4
         \/ SubSeq(at.after, 1, 2) # <<"Intent", ";">> \/ SubSeq(at.after, n - 1, n) # <<";", "end">>
      THEN No
      ELSE IF ~back.ok THEN No
      ELSE IF ~id.ok \/ ~appIOSID(id.v) THEN No ELSE AppPayload("both", id.v, at.before)
AppParse(raw) ==
  LET ios  == cutPrefixFold(raw, appStoreURL)
      play == cutPrefixFold(raw, playStoreURL)
  IN  IF ios.ok THEN IF appIOSID(ios.v) THEN AppPayload("ios", ios.v, <<>>) ELSE No
      ELSE IF play.ok THEN IF appAndroidPackage(play.v) THEN AppPayload("android", <<>>, play.v) ELSE No
      ELSE AppIntent(raw)
=============================================================================
