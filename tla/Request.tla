------------------------------ MODULE Request ------------------------------
(***************************************************************************)
(* One request, from the wire to the Request struct                        *)
(* (internal/httpapi/decode.go, request.go, applyOptions).                 *)
(*                                                                         *)
(* A raw text is [core, dressed]: what it says, and whether blanks or      *)
(* upper case surround it.  Text fields keep the dressing, every parser    *)
(* takes it off.  One field of each kind stands for the fields of that     *)
(* kind which the pipeline treats alike.                                   *)
(***************************************************************************)
EXTENDS Naturals, Sequences, FiniteSets

Empty   == ""
Text(c) == [core |-> c, dressed |-> FALSE]

TextFields == {"type", "data", "symbology", "encode.ecc", "style.fg",
               "style.logo", "style.frame", "style.caption", "output.format"}
AutoFields == {"encode.version"}
IntFields  == {"output.scale"}
OptIntFields == {"encode.quiet_zone"}
RealFields == {"style.hri_size"}
FlagFields == {"meta.attachment"}
Fields == TextFields \cup AutoFields \cup IntFields \cup OptIntFields
          \cup RealFields \cup FlagFields

\* Every key a caller may write, in the order sort.Strings gives them: the
\* fields, one name of the open payload namespace, and three that set nothing.
KeyOrder == <<"colour", "data", "encode.ecc", "encode.quiet_zone", "encode.version",
              "meta.attachment", "output.format", "output.scale", "payload",
              "payload.", "payload.data", "payload.url", "style.caption", "style.fg", "style.frame",
              "style.hri_size", "style.logo", "symbology", "type">>
PayloadKeys == {"payload.data", "payload.url"}

IntTexts  == {"0", "4", "7"}
RealTexts == IntTexts \cup {"NaN", "0.5"}
TrueTexts == {"true", "1", Empty, "on", "yes"}
FalseTexts == {"false", "0", "off", "no"}

\* The zero value of each kind.
Zero(f) == CASE f \in AutoFields               -> Text("auto")
             [] f \in IntFields \cup RealFields -> Text("0")
             [] f \in FlagFields                -> Text("false")
             [] OTHER                           -> Text(Empty)

Bad == Text("<bad>")

\* setField, with parseBool and AutoInt.parse: the value a raw text sets.
Parse(f, raw) ==
  CASE f \in TextFields -> raw
    [] f \in AutoFields -> IF raw.core \in {Empty, "auto"} THEN Text("auto")
                           ELSE IF raw.core \in IntTexts THEN Text(raw.core) ELSE Bad
    [] f \in IntFields \cup OptIntFields ->
                           IF raw.core \in IntTexts THEN Text(raw.core) ELSE Bad
    [] f \in RealFields -> IF raw.core \in RealTexts THEN Text(raw.core) ELSE Bad
    [] f \in FlagFields -> IF raw.core \in TrueTexts THEN Text("true")
                           ELSE IF raw.core \in FalseTexts THEN Text("false") ELSE Bad

-----------------------------------------------------------------------------
(* A request under construction, and a decoding that may have refused it.  *)

NoPayload == [given |-> FALSE, member |-> << >>]
Blank     == [f \in Fields |-> Zero(f)]
NewRequest(symbology) ==
  [field |-> [Blank EXCEPT !["symbology"] = Text(symbology)], payload |-> NoPayload]

NoFault == [status |-> 0, code |-> Empty, field |-> Empty]
Fault(status, code, field) == [status |-> status, code |-> code, field |-> field]

Decoded(req)    == [req |-> req, fault |-> NoFault]
Refused(req, f) == [req |-> req, fault |-> f]


\* applyOne: the refusal one key deserves.
KeyFault(key, raw) ==
  IF key \in PayloadKeys THEN NoFault
  ELSE IF key \notin Fields THEN Fault(400, "UNKNOWN_FIELD", key)
  ELSE IF Parse(key, raw) = Bad THEN Fault(400, "INVALID_VALUE", key)
  ELSE NoFault

\* applyValues: the first bad key in sorted order is named; otherwise the last
\* value of every key is set.  values maps keys to non-empty sequences.
LastOf(s) == s[Len(s)]
BadKeys(values) == {k \in DOMAIN values : KeyFault(k, LastOf(values[k])) # NoFault}
FirstKey(keys) ==
  KeyOrder[CHOOSE i \in DOMAIN KeyOrder :
             KeyOrder[i] \in keys /\ \A j \in 1..(i - 1) : KeyOrder[j] \notin keys]

\* One member of the payload map, which is made when the first is set.
SetPayload(p, k, raw) ==
  [given |-> TRUE,
   member |-> [m \in DOMAIN p.member \cup {k} |-> IF m = k THEN raw ELSE p.member[m]]]

Overlay(req, values) ==
  LET set == PayloadKeys \cap DOMAIN values
  IN  [field   |-> [f \in Fields |-> IF f \in DOMAIN values
                                     THEN Parse(f, LastOf(values[f])) ELSE req.field[f]],
       payload |-> [given  |-> req.payload.given \/ set # {},
                    member |-> [k \in DOMAIN req.payload.member \cup set |->
                                  IF k \in set THEN LastOf(values[k])
                                  ELSE req.payload.member[k]]]]

ApplyValues(req, values) ==
  IF BadKeys(values) = {} THEN Decoded(Overlay(req, values))
  ELSE LET k == FirstKey(BadKeys(values)) IN Refused(req, KeyFault(k, LastOf(values[k])))

-----------------------------------------------------------------------------
(* A JSON body: members in document order, each [key, type, text].         *)

\* AutoInt.UnmarshalJSON fails at once, and hides what failed before it.
BadAuto(m) == /\ m.key \in AutoFields
              /\ \/ m.type = "string" /\ Parse(m.key, m.text) = Bad
                 \/ m.type = "number" /\ m.text.core \notin IntTexts
                 \/ m.type = "boolean"

WrongType(m) ==
  /\ m.key \in Fields \ AutoFields
  /\ m.type # "null"
  /\ \/ m.key \in TextFields /\ m.type # "string"
     \/ m.key \in IntFields \cup OptIntFields
        /\ (m.type # "number" \/ m.text.core \notin IntTexts)
     \/ m.key \in RealFields /\ m.type # "number"
     \/ m.key \in FlagFields /\ m.type # "boolean"

UnknownMember(m) == m.key \notin Fields \cup PayloadKeys \cup {"payload"}

BugSetMember(req, m) ==
  IF m.key = "payload" THEN [req EXCEPT !.payload = NoPayload]
  ELSE IF m.key \in PayloadKeys THEN [req EXCEPT !.payload = SetPayload(@, m.key, m.text)]
  ELSE IF m.type = "null" THEN [req EXCEPT !.field[m.key] = Zero(m.key)]
  ELSE IF req.field[m.key] = Zero(m.key) THEN [req EXCEPT !.field[m.key] = Parse(m.key, m.text)]
  ELSE req
\* A null clears what has an unset form, and leaves the other fields alone.
SetMember(req, m) ==
  IF m.key = "payload" THEN [req EXCEPT !.payload = NoPayload]     \* null
  ELSE IF m.key \in PayloadKeys THEN [req EXCEPT !.payload = SetPayload(@, m.key, m.text)]
  ELSE IF m.type # "null" THEN [req EXCEPT !.field[m.key] = Parse(m.key, m.text)]
  ELSE IF m.key \in AutoFields \cup OptIntFields
       THEN [req EXCEPT !.field[m.key] = Zero(m.key)] ELSE req

SetMembers(req, doc) ==
  LET set[i \in 0..Len(doc)] == IF i = 0 THEN req ELSE SetMember(set[i - 1], doc[i])
  IN  set[Len(doc)]

FirstMember(doc, bad) ==
  doc[CHOOSE i \in DOMAIN doc :
        doc[i] \in bad /\ \A j \in 1..(i - 1) : doc[j] \notin bad]

ApplyJSON(req, body) ==
  LET members == {body.doc[i] : i \in DOMAIN body.doc}
      unread  == {m \in members : UnknownMember(m) \/ WrongType(m)}
  IN  IF body.shape = "empty" THEN Decoded(req)
      ELSE IF body.shape \in {"malformed", "oversize"} \/ \E m \in members : BadAuto(m)
      THEN Refused(req, Fault(400, "BAD_REQUEST", Empty))
      ELSE IF unread # {}
      THEN LET m == FirstMember(body.doc, unread) IN
           Refused(req, IF UnknownMember(m) THEN Fault(400, "UNKNOWN_FIELD", m.key)
                                            ELSE Fault(400, "INVALID_VALUE", m.key))
      ELSE IF body.shape = "many" THEN Refused(req, Fault(400, "BAD_REQUEST", Empty))
      ELSE Decoded(SetMembers(req, body.doc))

-----------------------------------------------------------------------------
\* readPart: an uploaded file becomes the data: URI of its bytes.
PartFault(part) == IF part.large THEN Fault(413, "BODY_TOO_LARGE", Empty) ELSE NoFault
PartURI(part)   == Text(part.uri)

\* applyMultipart: the values, then each file in the order a map is ranged
\* over, which is any: order is a sequence of the names of the files.
ApplyFiles(d, files, order) ==
  LET apply[i \in 0..Len(order)] ==
        IF i = 0 THEN d
        ELSE IF apply[i - 1].fault # NoFault THEN apply[i - 1]
        ELSE IF PartFault(files[order[i]]) # NoFault
             THEN Refused(apply[i - 1].req, PartFault(files[order[i]]))
             ELSE ApplyValues(apply[i - 1].req,
                              [k \in {order[i]} |-> <<PartURI(files[k])>>])
  IN  apply[Len(order)]

Orders(S) == {o \in [1..Cardinality(S) -> S] : {o[i] : i \in DOMAIN o} = S}

ApplyMultipart(req, body) ==
  IF body.shape \in {"malformed", "oversize"}
  THEN {Refused(req, Fault(400, "BAD_REQUEST", Empty))}
  ELSE LET d == ApplyValues(req, body.values)
       IN  IF d.fault # NoFault THEN {d}
           ELSE {ApplyFiles(d, body.files, o) : o \in Orders(DOMAIN body.files)}

\* The body, by its media type; a body of no type is the data itself.
ApplyBody(req, body) ==
  CASE body.type = "json"      -> {ApplyJSON(req, body)}
    [] body.type = "multipart" -> ApplyMultipart(req, body)
    [] body.type = "form"      -> {IF body.shape \in {"malformed", "oversize"}
                                   THEN Refused(req, Fault(400, "BAD_REQUEST", Empty))
                                   ELSE ApplyValues(req, body.values)}
    [] body.type = Empty          -> {IF body.shape = "oversize"
                                   THEN Refused(req, Fault(400, "BAD_REQUEST", Empty))
                                   ELSE IF body.shape = "empty" THEN Decoded(req)
                                   ELSE Decoded([req EXCEPT !.field["data"] = body.raw])}
    [] OTHER                   -> {Refused(req, Fault(415, "BAD_REQUEST", Empty))}

\* decodeOver: the query, then the body over it.  A query that url.ParseQuery
\* rejects is refused whole.
DecodeOver(req, msg) ==
  IF ~msg.query.parses THEN {Refused(req, Fault(400, "BAD_REQUEST", Empty))}
  ELSE LET q == ApplyValues(req, msg.query.values)
       IN  IF q.fault # NoFault \/ msg.method \in {"GET", "HEAD"} THEN {q}
           ELSE ApplyBody(q.req, msg.body)

\* applyOptions, with stringify: a preset's or an item's options go through
\* the same setter, one value to a key.
ApplyOptions(req, options) == ApplyValues(req, [k \in DOMAIN options |-> <<options[k]>>])
=============================================================================
