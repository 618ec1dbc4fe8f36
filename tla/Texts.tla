------------------------------- MODULE Texts --------------------------------
(***************************************************************************)
(* What the payload builders share (internal/builder): trimming, splitting *)
(* and the three escaping rules, links, telephone numbers, query strings   *)
(* and the edit distance behind a suggestion.                              *)
(*                                                                         *)
(* A text is a sequence of tokens: a character that some grammar gives     *)
(* meaning to is a token of its own, a tag, a keyword, a numeral or the    *)
(* hexadecimal form of a character is one token.  A payload is a function  *)
(* from its fields to texts; an absent field is the empty text, as str     *)
(* reads it.                                                               *)
(***************************************************************************)
EXTENDS Integers, Sequences, FiniteSets, TLC

No     == [ok |-> FALSE, v |-> <<>>]
Yes(v) == [ok |-> TRUE, v |-> v]
\* What F makes of a result, or the refusal.
Then(o, F(_)) == IF o.ok THEN F(o.v) ELSE No

Fold(op(_, _), base, s) ==
  LET f[i \in 0 .. Len(s)] == IF i = 0 THEN base ELSE op(f[i - 1], s[i]) IN f[Len(s)]
Spread(s, F(_)) == Fold(LAMBDA out, c : out \o F(c), <<>>, s)
Least(S) == CHOOSE i \in S : \A j \in S : i <= j
IsPrefix(p, s) == Len(p) <= Len(s) /\ SubSeq(s, 1, Len(p)) = p

Blanks  == {" ", "TAB", "CR", "LF"}
Digits  == {"0", "1", "2", "3", "4", "5", "6", "7", "8", "9"}
CaseOf  == ("a" :> "A") @@ ("b" :> "B") @@ ("c" :> "C") @@ ("h" :> "H") @@ ("n" :> "N") @@ ("t" :> "T")
           @@ ("mecard" :> "MECARD") @@ ("wifi" :> "WIFI") @@ ("tel" :> "TEL") @@ ("https" :> "HTTPS")
           @@ ("totp" :> "TOTP") @@ ("hotp" :> "HOTP") @@ ("sha" :> "SHA")
Lowers  == DOMAIN CaseOf
Uppers  == {CaseOf[c] : c \in Lowers}
ToUpper(s) == [i \in DOMAIN s |-> IF s[i] \in Lowers THEN CaseOf[s[i]] ELSE s[i]]
ToLower(s) == [i \in DOMAIN s |-> IF s[i] \in Uppers THEN CHOOSE c \in Lowers : CaseOf[c] = s[i]
                                  ELSE s[i]]

TrimSpace(s) ==
  LET ink == {i \in DOMAIN s : s[i] \notin Blanks}
  IN  IF ink = {} THEN <<>> ELSE SubSeq(s, Least(ink), CHOOSE i \in ink : \A j \in ink : i >= j)

\* The pieces of s between the separators that start at cuts, each width tokens long.
Pieces(s, cuts, width) ==
  LET ends == SelectSeq([i \in 1 .. (Len(s) + 1) |-> i], LAMBDA i : i \in cuts \/ i > Len(s))
  IN  [k \in DOMAIN ends |->
         SubSeq(s, IF k = 1 THEN 1 ELSE ends[k - 1] + width, ends[k] - 1)]
Split(s, sep) == Pieces(s, {i \in DOMAIN s : s[i] = sep}, 1)
Join(parts, sep) ==
  IF parts = <<>> THEN <<>> ELSE Fold(LAMBDA out, p : out \o sep \o p, Head(parts), Tail(parts))
Cut(s, sep) ==
  LET at == {i \in DOMAIN s : s[i] = sep}
  IN  IF at = {} THEN [found |-> FALSE, before |-> s, after |-> <<>>]
      ELSE [found |-> TRUE, before |-> SubSeq(s, 1, Least(at) - 1),
            after |-> SubSeq(s, Least(at) + 1, Len(s))]
cutPrefixFold(s, prefix) ==
  IF IsPrefix(ToLower(prefix), ToLower(s)) THEN Yes(SubSeq(s, Len(prefix) + 1, Len(s))) ELSE No

\* The fields of a record, folded into a payload until one of them is foreign.
Walk(fields, base, Take(_, _)) ==
  Fold(LAMBDA o, f : IF o.ok THEN Take(o.v, f) ELSE o, Yes(base), fields)
readStrings(p)       == [f \in DOMAIN p |-> TrimSpace(p[f])]
trimmedValues(p)     == \A f \in DOMAIN p : p[f] = TrimSpace(p[f])
stableString(v, r)   == r.ok /\ r.v = v
boolean(s) == LET v == ToLower(TrimSpace(s)) IN
              CASE v = <<>> -> Yes(FALSE)
                [] v \in {<<"1">>, <<"t">>, <<"true">>} -> Yes(TRUE)
                [] v \in {<<"0">>, <<"n">>, <<"false">>} -> Yes(FALSE)
                [] OTHER -> No

-----------------------------------------------------------------------------
(* DoCoMo records: a backslash takes the meaning from the next character.  *)

escapes(s) == LET esc[i \in 0 .. Len(s)] == i > 1 /\ s[i - 1] = "\\" /\ ~esc[i - 1] IN esc

BugdocomoEscape(s) == Spread(s, LAMBDA c : IF c \in {";", ":", ","} THEN <<"\\", c>> ELSE <<c>>)
docomoEscape(s) == Spread(s, LAMBDA c : IF c \in {"\\", ";", ":", ","} THEN <<"\\", c>> ELSE <<c>>)
docomoUnescape(s) ==
  LET esc == escapes(s)
      kept == SelectSeq([i \in DOMAIN s |-> i],
                        LAMBDA i : s[i] # "\\" \/ esc[i] \/ i = Len(s))
  IN  [k \in DOMAIN kept |-> s[kept[k]]]
docomoSplit(s, sep) ==
  LET esc == escapes(s) IN Pieces(s, {i \in DOMAIN s : s[i] = sep /\ ~esc[i]}, 1)
docomoCut(s, sep) ==
  LET parts == docomoSplit(s, sep)
  IN  [found |-> Len(parts) > 1, before |-> parts[1], after |-> Join(Tail(parts), <<sep>>)]

-----------------------------------------------------------------------------
(* TEXT values of vCard and iCalendar: a line break of any spelling is a   *)
(* backslash and an n.                                                     *)

OneBreak(s) ==
  LET kept == SelectSeq([i \in DOMAIN s |-> i], LAMBDA i : ~(s[i] = "LF" /\ i > 1 /\ s[i - 1] = "CR"))
  IN  [k \in DOMAIN kept |-> IF s[kept[k]] = "CR" THEN "LF" ELSE s[kept[k]]]
escapeTextValue(s) ==
  Spread(OneBreak(s), LAMBDA c : CASE c = "LF" -> <<"\\", "n">>
                                   [] c \in {"\\", ";", ","} -> <<"\\", c>> [] OTHER -> <<c>>)
unescapeTextValue(s) ==
  LET esc == escapes(s)
      kept == SelectSeq([i \in DOMAIN s |-> i],
                        LAMBDA i : s[i] # "\\" \/ esc[i] \/ i = Len(s))
  IN  [k \in DOMAIN kept |-> IF esc[kept[k]] /\ s[kept[k]] \in {"n", "N"} THEN "LF" ELSE s[kept[k]]]
noRawCarriageReturn(p) == \A f \in DOMAIN p : \A i \in DOMAIN p[f] : p[f][i] # "CR"
joinComponents(parts) == Join([i \in DOMAIN parts |-> escapeTextValue(parts[i])], <<";">>)
splitComponents(s) == LET parts == docomoSplit(s, ";") IN
                      [i \in DOMAIN parts |-> unescapeTextValue(parts[i])]

-----------------------------------------------------------------------------
(* Percent escapes and queries.                                            *)

Hex == (" " :> "20") @@ ("\"" :> "22") @@ ("#" :> "23") @@ ("%" :> "25") @@ ("&" :> "26")
       @@ ("+" :> "2B") @@ ("," :> "2C") @@ ("/" :> "2F") @@ (":" :> "3A") @@ (";" :> "3B")
       @@ ("=" :> "3D") @@ ("?" :> "3F") @@ ("@" :> "40") @@ ("\\" :> "5C") @@ ("CR" :> "0D")
       @@ ("LF" :> "0A") @@ ("TAB" :> "09")
Named(h) == CHOOSE c \in DOMAIN Hex : Hex[c] = h
Codes == {Hex[c] : c \in DOMAIN Hex}

pctEscape(s) == Spread(s, LAMBDA c : IF c \in DOMAIN Hex THEN <<"%", Hex[c]>> ELSE <<c>>)
PathUnescape(s) ==
  IF \E i \in DOMAIN s : s[i] = "%" /\ ~(i < Len(s) /\ s[i + 1] \in Codes) THEN No
  ELSE LET kept == SelectSeq([i \in DOMAIN s |-> i], LAMBDA i : s[i] # "%")
       IN  Yes([k \in DOMAIN kept |-> LET i == kept[k] IN
                  IF i > 1 /\ s[i - 1] = "%" THEN Named(s[i]) ELSE s[i]])

\* params is a sequence of pairs of a key and a text; an empty text is not written.
Query(params) ==
  LET set == SelectSeq(params, LAMBDA q : q[2] # <<>>)
  IN  IF set = <<>> THEN <<>>
      ELSE <<"?">> \o Join([i \in DOMAIN set |-> <<set[i][1], "=">> \o pctEscape(set[i][2])], <<"&">>)

parseURIQuery(query, allowed) ==
  LET base == [k \in allowed |-> <<>>]
      Take(out, pair) ==
        LET kv  == Cut(pair, "=")
            key == PathUnescape(kv.before)
            val == PathUnescape(kv.after)
        IN  IF /\ kv.found /\ key.ok /\ val.ok /\ val.v # <<>> /\ Len(key.v) = 1
               /\ ToLower(key.v)[1] \in allowed /\ out[ToLower(key.v)[1]] = <<>>
            THEN Yes([out EXCEPT ![ToLower(key.v)[1]] = val.v]) ELSE No
  IN  IF query = <<>> THEN Yes(base) ELSE Walk(Split(query, "&"), base, Take)

-----------------------------------------------------------------------------
(* Links: net/url as far as a link without user information needs it.      *)

SchemeTokens == Lowers \cup Uppers \cup Digits
                \cup {"http", "mailto", "ftp", "javascript", "otpauth", "+", ".", "-"}
SchemeEnd(s) == IF \E i \in DOMAIN s : s[i] = ":" THEN Least({i \in DOMAIN s : s[i] = ":"}) ELSE 0
HasScheme(s) == /\ SchemeEnd(s) > 1
                /\ s[1] \notin Digits \cup {"+", ".", "-"}
                /\ \A i \in 1 .. (SchemeEnd(s) - 1) : s[i] \in SchemeTokens
HostOK(h) == LET colons == {i \in DOMAIN h : h[i] = ":"} IN
             /\ \A i \in DOMAIN h : h[i] \notin {"\\", "%", "@"} \cup Blanks
             /\ colons # {} => \A i \in (CHOOSE c \in colons : \A d \in colons : d <= c) + 1 .. Len(h) :
                                 h[i] \in Digits
\* The link s, parted at its # and its ?, and rest, what follows its scheme.
LinkOf(s, frag, query, rest) ==
  LET full  == IsPrefix(<<"/", "/">>, rest)
      body  == IF full THEN SubSeq(rest, 3, Len(rest)) ELSE rest
      opaque == ~full /\ (body = <<>> \/ body[1] # "/")
      slash == {i \in DOMAIN body : body[i] = "/"}
      cut   == IF ~full THEN 0 ELSE IF slash = {} THEN Len(body) ELSE Least(slash) - 1
  IN  [ok       |-> /\ HasScheme(s) /\ SchemeEnd(s) <= Len(query.before)
                    /\ \A i \in DOMAIN s : s[i] \notin Blanks \ {" "}
                    /\ HostOK(SubSeq(body, 1, cut))
                    /\ opaque \/ PathUnescape(SubSeq(body, cut + 1, Len(body))).ok
                    /\ PathUnescape(frag.after).ok,
       scheme   |-> ToLower(SubSeq(s, 1, SchemeEnd(s) - 1)),
       full     |-> full, opaque |-> opaque, host |-> SubSeq(body, 1, cut), path |-> SubSeq(body, cut + 1, Len(body)),
       asks     |-> query.found, query |-> query.after, fragment |-> frag.after]
ParseLink(s) ==
  LET frag  == Cut(s, "#")
      query == Cut(frag.before, "?")
  IN  LinkOf(s, frag, query, SubSeq(query.before, SchemeEnd(s) + 1, Len(query.before)))
EscapedPath(path) ==
  IF \A i \in DOMAIN path : path[i] \notin {"\\", "\"", " "} THEN path
  ELSE Spread(PathUnescape(path).v,
              LAMBDA c : IF c \in {"\\", "\"", " ", "%", "?", "#"} THEN <<"%", Hex[c]>> ELSE <<c>>)
LinkText(u) ==
  u.scheme \o <<":">> \o (IF u.full THEN <<"/", "/">> ELSE <<>>) \o u.host
  \o (IF u.opaque THEN u.path ELSE EscapedPath(u.path))
  \o (IF u.asks THEN <<"?">> \o u.query ELSE <<>>)
  \o (IF u.fragment # <<>> THEN <<"#">> \o EscapedPath(u.fragment) ELSE <<>>)

SafeSchemes == {<<"http">>, <<"https">>, <<"mailto">>, <<"tel">>}
normaliseURL(raw, allowAny) ==
  LET s == TrimSpace(raw)
      Web == {<<"http">>, <<"https">>}
      Normal(u) == IF \/ ~u.ok
                      \/ ~allowAny /\ u.scheme \notin SafeSchemes
                      \/ u.scheme \in Web /\ u.host = <<>>
                      \/ u.host = <<>> /\ u.path = <<>>
                   THEN No
                   ELSE Yes(LinkText([u EXCEPT !.host = IF u.scheme \in Web THEN ToLower(@) ELSE @]))
  IN  IF s = <<>> \/ \E i \in DOMAIN s : s[i] \in Blanks THEN No
      ELSE Normal(ParseLink(IF HasScheme(s) THEN s ELSE <<"https", ":", "/", "/">> \o s))
strictURL(raw) == IF HasScheme(raw) THEN normaliseURL(raw, FALSE) ELSE No

-----------------------------------------------------------------------------
(* Addresses and telephone numbers.                                        *)

checkEmail(s) ==
  LET at     == Cut(s, "@")
      labels == Split(at.after, ".")
      Plain  == Lowers \cup Uppers \cup Digits
  IN  IF /\ at.found /\ at.before # <<>>
         /\ \A i \in DOMAIN at.before : at.before[i] \in Plain \cup {".", "_", "+", "-"}
         /\ Len(labels) > 1
         /\ \A i \in DOMAIN labels :
              /\ labels[i] # <<>> /\ labels[i][1] # "-" /\ labels[i][Len(labels[i])] # "-"
              /\ \A j \in DOMAIN labels[i] : labels[i][j] \in Plain \cup {"-"}
      THEN Yes(s) ELSE No

phoneMinDigits == 3
phoneMaxDigits == 15
normalisePhone(raw) ==
  LET s      == TrimSpace(raw)
      plus   == s # <<>> /\ s[1] = "+"
      number == SelectSeq(s, LAMBDA c : c \in Digits)
      First  == {i \in DOMAIN s : s[i] \in Digits}
  IN  IF \/ \E i \in DOMAIN s : s[i] \notin Digits \cup {" ", "-", ".", "(", ")", "/", "TAB", "+"}
         \/ \E i \in DOMAIN s : s[i] = "+" /\ (~plus \/ (First # {} /\ i > Least(First)))
         \/ Len(number) \notin phoneMinDigits .. phoneMaxDigits
      THEN No ELSE Yes((IF plus THEN <<"+">> ELSE <<>>) \o number)

\* The numbering plans (external): in the one region of the instance a national number is a
\* trunk zero and at least three digits.
E164(number, region) == IF number[1] = "0" /\ Len(number) > 3 THEN Yes(<<"+", "4", "4">> \o Tail(number))
                        ELSE No
normalisePhoneRegion(raw, region) ==
  LET code == ToUpper(TrimSpace(region))
      World(number) == IF code = <<>> \/ number[1] = "+" THEN Yes(number)
                       ELSE Then(E164(number, code), normalisePhone)
  IN  IF code \in {<<>>, <<"GB">>} THEN Then(normalisePhone(raw), World) ELSE No

-----------------------------------------------------------------------------
(* checkFields: an unknown key is refused, with the nearest declared field *)
(* if one is near.                                                         *)

Fewest(x, y) == IF x < y THEN x ELSE y
levenshtein(a, b) ==
  LET Row(prev, j) ==
        LET curr[i \in 0 .. Len(a)] ==
              IF i = 0 THEN j
              ELSE Fewest(Fewest(curr[i - 1], prev[i]) + 1,
                          prev[i - 1] + (IF a[i] = b[j] THEN 0 ELSE 1))
        IN  curr
      rows[j \in 0 .. Len(b)] == IF j = 0 THEN [i \in 0 .. Len(a) |-> i] ELSE Row(rows[j - 1], j)
  IN  IF a = <<>> THEN Len(b) ELSE rows[Len(b)][Len(a)]
=============================================================================
