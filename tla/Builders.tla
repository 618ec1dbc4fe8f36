------------------------------ MODULE Builders ------------------------------
(***************************************************************************)
(* The remaining builders, transfers, links, text and raw data, and the    *)
(* registry: a payload with a field its type does not declare is refused   *)
(* before its builder sees it.                                             *)
(***************************************************************************)
EXTENDS Uris

\* An EPC transfer is twelve positional lines.  The cap on amounts is scaled to 3600 euro,
\* so that a numeral of the instance is past it.
EpcFields == {"bic", "name", "iban", "amount", "purpose", "reference", "remittance", "information"}
epcMax(f) == CASE f = "name" -> 70 [] f = "purpose" -> 4 [] f = "reference" -> 35
               [] f = "remittance" -> 140 [] f = "information" -> 70
epcMaxBytes  == 331
epcLines     == 12
epcMaxAmount == 3600000

\* Two decimals exactly, of a value in thousandths.
CentsOf == ("0.01" :> 10) @@ ("0.50" :> 500) @@ ("1.00" :> 1000) @@ ("6.00" :> 6000) @@ ("7.50" :> 7500)
           @@ ("8.00" :> 8000) @@ ("9.00" :> 9000) @@ ("10.00" :> 10000) @@ ("12.35" :> 12350)
           @@ ("90.00" :> 90000) @@ ("90.50" :> 90500) @@ ("181.00" :> 181000)
Cents(v) == CHOOSE w \in DOMAIN CentsOf : CentsOf[w] = ((v + 5) \div 10) * 10

LetterValue == ("A" :> 10) @@ ("B" :> 11) @@ ("C" :> 12) @@ ("H" :> 17) @@ ("N" :> 23) @@ ("T" :> 29)
DigitValue  == ("0" :> 0) @@ ("1" :> 1) @@ ("2" :> 2) @@ ("3" :> 3) @@ ("4" :> 4) @@ ("5" :> 5)
               @@ ("6" :> 6) @@ ("7" :> 7) @@ ("8" :> 8) @@ ("9" :> 9)

Mod97(s) == Fold(LAMBDA r, c : IF c \in Digits THEN (r * 10 + DigitValue[c]) % 97
                                ELSE (r * 100 + LetterValue[c]) % 97, 0, s)
ibanCheckDigitsOK(iban)    == Mod97(SubSeq(iban, 5, Len(iban)) \o SubSeq(iban, 1, 4)) = 1
epcIBAN(s) == /\ Len(s) \in 15 .. 34
              /\ \A i \in DOMAIN s : s[i] \in (IF i <= 2 THEN Uppers ELSE IF i <= 4 THEN Digits
                                               ELSE Uppers \cup Digits)
epcBIC(s)  == /\ Len(s) \in {8, 11}
              /\ \A i \in DOMAIN s : s[i] \in (IF i <= 6 THEN Uppers ELSE Uppers \cup Digits)

Euros(n) == n.given => n.v \in 10 .. epcMaxAmount
epcValidate(v, amount) ==
  /\ v["name"] # <<>> /\ epcIBAN(v["iban"]) /\ ibanCheckDigitsOK(v["iban"])
  /\ v["bic"] # <<>> => epcBIC(v["bic"])
  /\ v["reference"] = <<>> \/ v["remittance"] = <<>>
  /\ \A f \in {"name", "purpose", "reference", "remittance", "information"} :
       /\ Len(v[f]) <= epcMax(f)
       /\ \A i \in DOMAIN v[f] : v[f][i] \notin {"CR", "LF"}
  /\ Euros(amount)

\* The length in bytes, where a keyword is a token of three and an amount is taken as four.
Width(s) == Len(s) + 2 * Cardinality({i \in DOMAIN s : s[i] \in {"BCD", "002", "SCT", "EUR", "NaN"}})
            + 3 * Cardinality({i \in DOMAIN s : s[i] \in DOMAIN CentsOf})
trimTrailingEmpty(lines) ==
  LET ink == {i \in DOMAIN lines : lines[i] # <<>>} IN SubSeq(lines, 1, CHOOSE i \in ink : \A j \in ink : i >= j)

EpcBuild(p) ==
  LET Grouped(s) == ToUpper(SelectSeq(s, LAMBDA c : c # " "))
      v      == [f \in EpcFields |-> IF f \in {"iban", "bic"} THEN Grouped(TrimSpace(p[f])) ELSE TrimSpace(p[f])]
      amount == number(p["amount"])
      lines  == <<<<"BCD">>, <<"002">>, <<"1">>, <<"SCT">>, v["bic"], v["name"], v["iban"],
                  IF amount.given THEN <<"EUR", Cents(amount.v)>> ELSE <<>>,
                  v["purpose"], v["reference"], v["remittance"], v["information"]>>
      out    == Join(trimTrailingEmpty(lines), <<"LF">>)
  IN  IF ~amount.ok THEN No ELSE IF ~epcValidate(v, amount) THEN No
      ELSE IF Width(out) > epcMaxBytes THEN No ELSE Yes(out)

EpcParse(raw) ==
  LET cut    == Split(raw, "LF")
      lines  == [i \in 1 .. epcLines |-> IF i <= Len(cut) THEN cut[i] ELSE <<>>]
      money  == lines[8]
      wild   == money = <<"EUR", "NaN">> \* within every limit, as NaN is
      amount == IF money = <<>> \/ wild THEN number(<<>>)
                ELSE [ok |-> TRUE, given |-> TRUE, v |-> CentsOf[money[2]]]
      v      == ("bic" :> lines[5]) @@ ("name" :> lines[6]) @@ ("iban" :> lines[7])
                @@ ("purpose" :> lines[9]) @@ ("reference" :> lines[10])
                @@ ("remittance" :> lines[11]) @@ ("information" :> lines[12])
  IN  IF \/ Len(cut) \notin 7 .. epcLines \/ Width(raw) > epcMaxBytes
         \/ SubSeq(lines, 1, 4) # <<<<"BCD">>, <<"002">>, <<"1">>, <<"SCT">>>>
         \/ money # <<>> /\ ~wild /\ ~(Len(money) = 2 /\ money[1] = "EUR" /\ money[2] \in DOMAIN CentsOf)
      THEN No
      ELSE IF ~epcValidate(v, amount) \/ ~trimmedValues(v) THEN No
      ELSE Yes(v @@ ("amount" :> IF wild THEN NaN ELSE formatNumber(amount)))

-----------------------------------------------------------------------------
(* Links, text and raw data.                                               *)

UrlFields == {"url", "allow_any"}
UrlBuild(p) == LET any == boolean(p["allow_any"]) IN
               IF any.ok THEN normaliseURL(p["url"], any.v) ELSE No
UrlParse(raw) == LET u == strictURL(raw) IN
                 IF u.ok THEN Yes(("url" :> u.v) @@ ("allow_any" :> <<>>)) ELSE No

structuredPrefixes ==
  {<<"http", ":", "/", "/">>, <<"https", ":", "/", "/">>, <<"mailto", ":">>, <<"tel", ":">>,
   <<"SMSTO", ":">>, <<"wifi", ":">>, <<"mecard", ":">>, <<"MEBKM", ":">>, <<"BEGIN", ":", "VCARD">>,
   <<"BEGIN", ":", "VCALENDAR">>, <<"BEGIN", ":", "VEVENT">>, <<"geo", ":">>,
   <<"otpauth", ":", "/", "/">>, <<"bitcoin", ":">>, <<"ethereum", ":">>, <<"litecoin", ":">>,
   <<"intent", ":", "/", "/">>, <<"BCD", "LF">>}
TextFields == {"text"}
TextBuild(p) == IF p["text"] = <<>> THEN No ELSE Yes(p["text"])
TextParse(raw) == IF raw = <<>> \/ \E q \in structuredPrefixes : cutPrefixFold(raw, q).ok THEN No
                  ELSE Yes("text" :> raw)
RawFields == {"data"}
RawBuild(p) == IF p["data"] = <<>> THEN No ELSE Yes(p["data"])
RawParse(raw) == IF raw = <<>> THEN No ELSE Yes("data" :> raw)

\* A place that is an address; the other notations, and the tuning, are MapLinks'.
LocationFields == {"location"}
locationSearch == <<"https", ":", "/", "/", "www.google.com", "/", "maps", "/", "search", "/", "?",
                    "api", "=", "1", "&", "query", "=">>
LocationBuild(p) == LET s == TrimSpace(p["location"]) IN
                    IF s = <<>> THEN No ELSE Yes(locationSearch \o pctEscape(s))
LocationParse(raw) ==
  IF ~IsPrefix(locationSearch, raw) THEN No
  ELSE Then(PathUnescape(SubSeq(raw, Len(locationSearch) + 1, Len(raw))),
            LAMBDA s : IF LocationBuild("location" :> s) = Yes(raw) /\ s = TrimSpace(s) THEN Yes("location" :> s) ELSE No)

-----------------------------------------------------------------------------
(* The registry.                                                           *)

FieldsOf(t) ==
  CASE t = "mecard" -> MeCardFields [] t = "bookmark" -> BookmarkFields [] t = "wifi" -> WifiFields
    [] t = "vcard" -> VCardFields [] t = "event" -> EventFields [] t = "email" -> EmailFields
    [] t = "tel" -> TelFields [] t = "sms" -> SmsFields [] t = "whatsapp" -> WhatsappFields
    [] t = "geo" -> GeoFields [] t = "crypto" -> CryptoFields [] t = "otp" -> OtpFields
    [] t = "app" -> AppFields [] t = "epc" -> EpcFields [] t = "url" -> UrlFields
    [] t = "text" -> TextFields [] t = "raw" -> RawFields [] t = "location" -> LocationFields

BuildOf(t, p) ==
  CASE t = "mecard" -> MeCardBuild(p) [] t = "bookmark" -> BookmarkBuild(p) [] t = "wifi" -> WifiBuild(p)
    [] t = "vcard" -> VCardBuild(p) [] t = "event" -> EventBuild(p) [] t = "email" -> EmailBuild(p)
    [] t = "tel" -> TelBuild(p) [] t = "sms" -> SmsBuild(p) [] t = "whatsapp" -> WhatsappBuild(p)
    [] t = "geo" -> GeoBuild(p) [] t = "crypto" -> CryptoBuild(p) [] t = "otp" -> OtpBuild(p)
    [] t = "app" -> AppBuild(p) [] t = "epc" -> EpcBuild(p) [] t = "url" -> UrlBuild(p)
    [] t = "text" -> TextBuild(p) [] t = "raw" -> RawBuild(p) [] t = "location" -> LocationBuild(p)

Parse(t, raw) ==
  CASE t = "mecard" -> MeCardParse(raw) [] t = "bookmark" -> BookmarkParse(raw) [] t = "wifi" -> WifiParse(raw)
    [] t = "vcard" -> VCardParse(raw) [] t = "event" -> EventParse(raw) [] t = "email" -> EmailParse(raw)
    [] t = "tel" -> TelParse(raw) [] t = "sms" -> SmsParse(raw) [] t = "whatsapp" -> WhatsappParse(raw)
    [] t = "geo" -> GeoParse(raw) [] t = "crypto" -> CryptoParse(raw) [] t = "otp" -> OtpParse(raw)
    [] t = "app" -> AppParse(raw) [] t = "epc" -> EpcParse(raw) [] t = "url" -> UrlParse(raw)
    [] t = "text" -> TextParse(raw) [] t = "raw" -> RawParse(raw) [] t = "location" -> LocationParse(raw)

\* parseWithBuilders (the decode endpoint): the first builder, in the order of their names,
\* that claims a decoded text, given what each made of it; raw and text are skipped, for they
\* would claim every one.
Decodable == <<"app", "bookmark", "crypto", "email", "epc", "event", "geo", "location", "mecard",
               "otp", "sms", "tel", "url", "vcard", "whatsapp", "wifi">>
Types == {Decodable[i] : i \in DOMAIN Decodable} \cup {"raw", "text"}
Reads(raw) == [t \in Types |-> Parse(t, raw)]
parseWithBuilders(reads) ==
  LET claims == {i \in DOMAIN Decodable : reads[Decodable[i]].ok}
  IN  IF claims = {} THEN "none" ELSE Decodable[Least(claims)]

Full(t, p) == [f \in FieldsOf(t) |-> IF f \in DOMAIN p THEN p[f] ELSE <<>>]
Build(t, p) == IF DOMAIN p \subseteq FieldsOf(t) THEN BuildOf(t, Full(t, p)) ELSE No
=============================================================================
