------------------------------- MODULE Cards --------------------------------
(***************************************************************************)
(* The record builders: MECARD, MEBKM and WIFI (fields ended by a          *)
(* semicolon, tags by a colon), vCard and iCalendar (content lines ended   *)
(* by CR LF).  Each builds a record from a payload, or refuses it, and     *)
(* parses a text back into a payload, or says that it is not its form.     *)
(***************************************************************************)
EXTENDS Texts

Absent(fields) == [f \in fields |-> <<>>]
Kept(v, old)   == IF v = <<>> THEN old ELSE v       \* setIfNotEmpty

\* A record PREFIX:TAG:value;TAG:value;; (docomo grammar), its fields handed to Take.
Tagged(tag, v) == IF v = <<>> THEN <<>> ELSE <<tag, ":">> \o docomoEscape(v) \o <<";">>
ParseRecord(raw, prefix, base, Take(_, _, _)) ==
  LET rest  == cutPrefixFold(raw, <<prefix, ":">>)
      ended == /\ rest.ok /\ Len(rest.v) > 1
               /\ SubSeq(rest.v, Len(rest.v) - 1, Len(rest.v)) = <<";", ";">>
      fields == SelectSeq(docomoSplit(SubSeq(rest.v, 1, Len(rest.v) - 1), ";"), LAMBDA f : f # <<>>)
      Field(out, f) == LET kv == docomoCut(f, ":") IN
                       IF ~kv.found THEN No
                       ELSE Take(out, ToUpper(docomoUnescape(kv.before)), kv.after)
  IN  IF ended THEN Walk(fields, base, Field) ELSE No

\* What MECARD and vCard ask of an address, the numbers among phones and a link.
Contact(v, phones) ==
  LET Checked(k) == IF v[k] = <<>> THEN Yes(<<>>)
                    ELSE IF k \in phones THEN normalisePhoneRegion(v[k], v["phone_region"])
                    ELSE IF k = "email" THEN checkEmail(v[k])
                    ELSE IF k = "url" THEN normaliseURL(v[k], FALSE)
                    ELSE Yes(v[k])
      All(c) == IF \A k \in DOMAIN c : c[k].ok THEN Yes([k \in DOMAIN c |-> c[k].v]) ELSE No
  IN  IF v["phone_region"] # <<>> /\ \A k \in phones : v[k] = <<>> THEN No
      ELSE All([k \in DOMAIN v |-> Checked(k)])

-----------------------------------------------------------------------------
(* MECARD.                                                                 *)

MeCardFields == {"first_name", "last_name", "phone", "phone_region", "email", "url", "address", "note"}

MeCardBuild(p) ==
  LET Record(v) == Yes(<<"MECARD", ":", "N", ":">> \o docomoEscape(v["last_name"]) \o <<",">>
               \o docomoEscape(v["first_name"]) \o <<";">>
               \o Tagged("TEL", v["phone"]) \o Tagged("EMAIL", v["email"]) \o Tagged("URL", v["url"])
               \o Tagged("ADR", v["address"]) \o Tagged("NOTE", v["note"]) \o <<";">>)
  IN  IF TrimSpace(p["first_name"]) = <<>> /\ TrimSpace(p["last_name"]) = <<>> THEN No
      ELSE Then(Contact(readStrings(p), {"phone"}), Record)

MeCardTake(out, tag, value) ==
  LET v == docomoUnescape(value)
      n == docomoSplit(value, ",")
  IN  CASE tag = <<"N">>     -> IF Len(n) # 2 THEN No
                                ELSE Yes([out EXCEPT !["last_name"] = Kept(docomoUnescape(n[1]), @),
                                                     !["first_name"] = Kept(docomoUnescape(n[2]), @)])
        [] tag = <<"TEL">>   -> IF stableString(v, normalisePhone(v)) THEN Yes([out EXCEPT !["phone"] = v]) ELSE No
        [] tag = <<"EMAIL">> -> IF checkEmail(v).ok THEN Yes([out EXCEPT !["email"] = v]) ELSE No
        [] tag = <<"URL">>   -> IF stableString(v, strictURL(v)) THEN Yes([out EXCEPT !["url"] = v]) ELSE No
        [] tag = <<"ADR">>   -> Yes([out EXCEPT !["address"] = Kept(v, @)])
        [] tag = <<"NOTE">>  -> Yes([out EXCEPT !["note"] = Kept(v, @)])
        [] OTHER             -> No

MeCardParse(raw) ==
  Then(ParseRecord(raw, "MECARD", Absent(MeCardFields), MeCardTake),
       LAMBDA v : IF (v["first_name"] # <<>> \/ v["last_name"] # <<>>) /\ trimmedValues(v) THEN Yes(v)
                  ELSE No)

-----------------------------------------------------------------------------
(* MEBKM.                                                                  *)

BookmarkFields == {"title", "url"}

BookmarkBuild(p) ==
  LET title == IF p["title"] = <<>> THEN <<>>
               ELSE <<"TITLE", ":">> \o docomoEscape(TrimSpace(p["title"])) \o <<";">>
  IN  Then(normaliseURL(p["url"], FALSE), LAMBDA link :
             Yes(<<"MEBKM", ":">> \o title \o <<"URL", ":">> \o docomoEscape(link) \o <<";", ";">>))

BookmarkTake(out, tag, value) ==
  LET v == docomoUnescape(value)
  IN  CASE tag = <<"TITLE">> -> Yes([out EXCEPT !["title"] = Kept(v, @)])
        [] tag = <<"URL">>   -> IF stableString(v, strictURL(v)) THEN Yes([out EXCEPT !["url"] = v]) ELSE No
        [] OTHER             -> No

BookmarkParse(raw) ==
  Then(ParseRecord(raw, "MEBKM", Absent(BookmarkFields), BookmarkTake),
       LAMBDA v : IF v["url"] # <<>> /\ trimmedValues(v) THEN Yes(v) ELSE No)

-----------------------------------------------------------------------------
(* WIFI.                                                                   *)

WifiFields   == {"ssid", "password", "auth", "hidden"}
ssidMaxBytes == 32
HexDigits    == Digits \cup {"a", "b", "c", "A", "B", "C"}
isHexString(s) == s # <<>> /\ \A i \in DOMAIN s : s[i] \in HexDigits

wifiAuth(raw, password) ==
  LET name == ToUpper(TrimSpace(raw))
  IN  CASE name = <<>>                             -> Yes(IF password = <<>> THEN <<"nopass">> ELSE <<"WPA">>)
        [] name \in {<<"nopass">>, <<"OPEN">>}      -> Yes(<<"nopass">>)
        [] name = <<"WEP">>                        -> Yes(<<"WEP">>)
        [] name \in {<<"WPA">>, <<"WPA2">>}         -> Yes(<<"WPA">>)
        [] name \in {<<"WPA2-EAP">>, <<"EAP">>}     -> Yes(<<"WPA2-EAP">>)
        [] OTHER                                   -> No

wifiPasswordOK(auth, password) ==
  LET n == Len(password)
  IN  CASE auth = <<"nopass">>   -> n = 0
        [] auth = <<"WEP">>      -> n \in {5, 13} \/ (isHexString(password) /\ n \in {10, 26})
        [] auth = <<"WPA">>      -> n \in 8 .. 63
        [] auth = <<"WPA2-EAP">> -> n \in 1 .. 63

wifiEscape(s) ==
  LET e == Spread(s, LAMBDA c : IF c \in {"\\", ";", ",", ":", "\""} THEN <<"\\", c>> ELSE <<c>>)
  IN  IF isHexString(s) THEN <<"\"">> \o e \o <<"\"">> ELSE e
wifiUnescape(raw) ==
  IF Len(raw) >= 2 /\ raw[1] = "\"" /\ raw[Len(raw)] = "\"" THEN SubSeq(raw, 2, Len(raw) - 1)
  ELSE docomoUnescape(raw)

WifiBuild(p) ==
  LET auth   == wifiAuth(p["auth"], p["password"])
      hidden == boolean(p["hidden"])
  IN  IF \/ TrimSpace(p["ssid"]) = <<>> \/ Len(p["ssid"]) > ssidMaxBytes
         \/ ~hidden.ok \/ ~auth.ok
      THEN No
      ELSE IF ~wifiPasswordOK(auth.v, p["password"]) THEN No
      ELSE Yes(<<"WIFI", ":", "T", ":">> \o auth.v \o <<";", "S", ":">> \o wifiEscape(p["ssid"]) \o <<";">>
               \o (IF auth.v = <<"nopass">> THEN <<>>
                   ELSE <<"P", ":">> \o wifiEscape(p["password"]) \o <<";">>)
               \o (IF hidden.v THEN <<"H", ":", "true", ";">> ELSE <<>>) \o <<";">>)

WifiTake(out, tag, value) ==
  LET auth   == wifiAuth(docomoUnescape(value), <<>>)
      hidden == boolean(docomoUnescape(value))
      v      == wifiUnescape(value)
  IN  CASE tag = <<"T">> -> IF auth.ok THEN Yes([out EXCEPT !["auth"] = auth.v]) ELSE No
        [] tag = <<"S">> -> Yes([out EXCEPT !["ssid"] = v])
        [] tag = <<"P">> -> Yes([out EXCEPT !["password"] = Kept(v, @)])
        [] tag = <<"H">> -> IF ~hidden.ok THEN No
                            ELSE Yes([out EXCEPT !["hidden"] = IF hidden.v THEN <<"true">> ELSE <<"false">>])
        [] OTHER         -> No

WifiParse(raw) ==
  LET Network(v, auth) == IF /\ TrimSpace(v["ssid"]) # <<>> /\ Len(v["ssid"]) <= ssidMaxBytes
                             /\ wifiPasswordOK(auth, v["password"])
                          THEN Yes([v EXCEPT !["auth"] = auth]) ELSE No
  IN  Then(ParseRecord(raw, "WIFI", Absent(WifiFields), WifiTake), LAMBDA v :
             Network(v, IF v["auth"] = <<>> THEN wifiAuth(<<>>, v["password"]).v ELSE v["auth"]))

-----------------------------------------------------------------------------
(* Content lines: the envelope of vCard and iCalendar.                     *)

crlf == <<"CR", "LF">>
Line(name, v) == IF v = <<>> THEN <<>> ELSE name \o <<":">> \o v \o crlf

splitContentLines(raw, object) ==
  LET n     == Len(raw)
      text  == IF n > 1 /\ SubSeq(raw, n - 1, n) = crlf THEN SubSeq(raw, 1, n - 2) ELSE raw
      lines == Pieces(text, {i \in 1 .. (Len(text) - 1) : SubSeq(text, i, i + 1) = crlf}, 2)
  IN  IF Len(lines) >= 3 /\ lines[1] = <<"BEGIN", ":", object>>
         /\ lines[Len(lines)] = <<"END", ":", object>>
      THEN Yes(SubSeq(lines, 2, Len(lines) - 1)) ELSE No
splitContentLine(line) ==
  LET at == Cut(line, ":")
      nm == Cut(at.before, ";")
  IN  [ok |-> at.found /\ at.before # <<>>, name |-> ToUpper(nm.before), params |-> nm.after, value |-> at.after]

-----------------------------------------------------------------------------
(* vCard 3.0.                                                              *)

VCardFields == {"first_name", "last_name", "org", "title", "phone", "mobile", "phone_region", "email",
                "url", "street", "city", "region", "postal_code", "country", "note"}
Postal == <<"street", "city", "region", "postal_code", "country">>

vcardFullName(v) ==
  LET name == TrimSpace(v["first_name"] \o <<" ">> \o v["last_name"])
  IN  IF name = <<>> THEN v["org"] ELSE name

VCardBuild(p) ==
  LET Postcode(c) ==
        LET adr == [i \in 1 .. 5 |-> c[Postal[i]]]
        IN  IF \A i \in 1 .. 5 : adr[i] = <<>> THEN <<>>
            ELSE <<"ADR", ";", "TYPE=WORK", ":">> \o joinComponents(<<<<>>, <<>>>> \o adr) \o crlf
      Card(c) == Yes(<<"BEGIN", ":", "VCARD">> \o crlf \o <<"VERSION", ":", "3.0">> \o crlf
               \o <<"N", ":">> \o joinComponents(<<c["last_name"], c["first_name"], <<>>, <<>>, <<>>>>) \o crlf
               \o Line(<<"FN">>, escapeTextValue(vcardFullName(c)))
               \o Line(<<"ORG">>, escapeTextValue(c["org"]))
               \o Line(<<"TITLE">>, escapeTextValue(c["title"]))
               \o Line(<<"TEL", ";", "TYPE=WORK,VOICE">>, escapeTextValue(c["phone"]))
               \o Line(<<"TEL", ";", "TYPE=CELL,VOICE">>, escapeTextValue(c["mobile"]))
               \o Line(<<"EMAIL", ";", "TYPE=INTERNET">>, escapeTextValue(c["email"]))
               \o Line(<<"URL">>, escapeTextValue(c["url"]))
               \o Postcode(c)
               \o Line(<<"NOTE">>, escapeTextValue(c["note"]))
               \o <<"END", ":", "VCARD">> \o crlf)
  IN  IF \A f \in {"first_name", "last_name", "org"} : TrimSpace(p[f]) = <<>> THEN No
      ELSE Then(Contact(readStrings(p), {"phone", "mobile"}), Card)

VCardField(out, l) ==
  LET v     == unescapeTextValue(l.value)
      parts == splitComponents(l.value)
      Set(f, x) == Yes([out EXCEPT ![f] = Kept(x, @)])
      tel   == IF \E i \in DOMAIN l.params : l.params[i] = "TYPE=CELL,VOICE" THEN "mobile" ELSE "phone"
  IN  IF ~l.ok THEN No ELSE
      CASE l.name = <<"VERSION">>  -> Yes([out EXCEPT !["version"] = l.value])
        [] l.name = <<"FN">>       -> Yes(out)
        [] l.name = <<"N">>        -> IF Len(parts) # 5 THEN No
                                      ELSE Yes([out EXCEPT !["last_name"] = Kept(parts[1], @),
                                                           !["first_name"] = Kept(parts[2], @)])
        [] l.name = <<"ORG">>      -> Set("org", v)
        [] l.name = <<"TITLE">>    -> Set("title", v)
        [] l.name = <<"TEL">>      -> IF stableString(v, normalisePhone(v)) THEN Set(tel, v) ELSE No
        [] l.name = <<"EMAIL">>    -> IF checkEmail(v).ok THEN Set("email", v) ELSE No
        [] l.name = <<"URL">>      -> IF stableString(v, strictURL(v)) THEN Set("url", v) ELSE No
        [] l.name = <<"ADR">>      -> IF Len(parts) # 7 THEN No
                                      ELSE Yes([f \in DOMAIN out |->
                                                 IF \E i \in 1 .. 5 : Postal[i] = f /\ parts[i + 2] # <<>>
                                                 THEN parts[(CHOOSE i \in 1 .. 5 : Postal[i] = f) + 2]
                                                 ELSE out[f]])
        [] l.name = <<"NOTE">>     -> Set("note", v)
        [] OTHER                   -> No
VCardTake(out, line) == VCardField(out, splitContentLine(line))

VCardParse(raw) ==
  LET Read(lines) == Walk(lines, Absent(VCardFields \cup {"version"}), VCardTake)
      Card(v) == LET card == [f \in VCardFields |-> v[f]] IN
                 IF /\ v["version"] = <<"3.0">>
                    /\ \E f \in {"first_name", "last_name", "org"} : card[f] # <<>>
                    /\ trimmedValues(card) /\ noRawCarriageReturn(card)
                 THEN Yes(card) ELSE No
  IN  Then(Then(splitContentLines(raw, "VCARD"), Read), Card)

-----------------------------------------------------------------------------
(* iCalendar events.  An instant has two spellings, and Build writes one.  *)

EventFields == {"summary", "start", "end", "location", "description"}
Basic   == ("20260101T000000Z" :> 0) @@ ("20260102T000000Z" :> 1)
Rfc3339 == ("2026-01-01T00:00:00Z" :> 0) @@ ("2026-01-02T01:00:00+01:00" :> 1)
Format(t) == <<CHOOSE w \in DOMAIN Basic : Basic[w] = t>>
parseEventTime(s) == IF Len(s) # 1 THEN No
                     ELSE IF s[1] \in DOMAIN Basic THEN Yes(Basic[s[1]])
                     ELSE IF s[1] \in DOMAIN Rfc3339 THEN Yes(Rfc3339[s[1]]) ELSE No

EventBuild(p) ==
  LET v     == readStrings(p)
      start == parseEventTime(p["start"])
      end   == parseEventTime(v["end"])
  IN  IF \/ v["summary"] = <<>> \/ ~start.ok THEN No
      ELSE IF v["end"] # <<>> /\ ~end.ok THEN No
      ELSE IF v["end"] # <<>> /\ end.v < start.v THEN No
      ELSE Yes(<<"BEGIN", ":", "VCALENDAR">> \o crlf \o <<"VERSION", ":", "2.0">> \o crlf
               \o <<"PRODID", ":", "barqr">> \o crlf \o <<"BEGIN", ":", "VEVENT">> \o crlf
               \o Line(<<"SUMMARY">>, escapeTextValue(v["summary"]))
               \o Line(<<"DTSTART">>, Format(start.v))
               \o (IF v["end"] = <<>> THEN <<>> ELSE Line(<<"DTEND">>, Format(end.v)))
               \o Line(<<"LOCATION">>, escapeTextValue(v["location"]))
               \o Line(<<"DESCRIPTION">>, escapeTextValue(v["description"]))
               \o <<"END", ":", "VEVENT">> \o crlf \o <<"END", ":", "VCALENDAR">> \o crlf)

EventField(out, l) ==
  LET v == unescapeTextValue(l.value)
      Set(f, x) == Yes([out EXCEPT ![f] = Kept(x, @)])
      Time(f)   == IF Len(l.value) = 1 /\ l.value[1] \in DOMAIN Basic THEN Set(f, l.value) ELSE No
  IN  IF ~l.ok THEN No ELSE
      CASE l.name \in {<<"VERSION">>, <<"PRODID">>, <<"UID">>, <<"DTSTAMP">>} -> Yes(out)
        [] l.name = <<"SUMMARY">>      -> Set("summary", v)
        [] l.name = <<"LOCATION">>     -> Set("location", v)
        [] l.name = <<"DESCRIPTION">>  -> Set("description", v)
        [] l.name = <<"DTSTART">>      -> Time("start")
        [] l.name = <<"DTEND">>        -> Time("end")
        [] OTHER                       -> No
EventTake(out, line) == EventField(out, splitContentLine(line))

\* The lines of the event, in a calendar or bare.
EventLines(raw) ==
  LET Inside(cal) ==
        LET open == {i \in DOMAIN cal : cal[i] = <<"BEGIN", ":", "VEVENT">>}
        IN  IF Len(cal) < 3 \/ cal[Len(cal)] # <<"END", ":", "VEVENT">> \/ open = {} THEN No
            ELSE Yes(SubSeq(cal, Least(open) + 1, Len(cal) - 1))
  IN  IF splitContentLines(raw, "VCALENDAR").ok THEN Then(splitContentLines(raw, "VCALENDAR"), Inside)
      ELSE splitContentLines(raw, "VEVENT")

EventParse(raw) ==
  LET Read(lines) == Walk(lines, Absent(EventFields), EventTake)
      Event(v) == IF /\ v["start"] # <<>> /\ v["summary"] # <<>>
                     /\ trimmedValues(v) /\ noRawCarriageReturn(v)
                     /\ v["end"] # <<>> => parseEventTime(v["end"]).v >= parseEventTime(v["start"]).v
                  THEN Yes(v) ELSE No
  IN  Then(Then(EventLines(raw), Read), Event)
=============================================================================
