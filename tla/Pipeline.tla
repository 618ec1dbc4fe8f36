------------------------------ MODULE Pipeline ------------------------------
(***************************************************************************)
(* One request through the server: decode, build, encode, style, render,   *)
(* judge, write, serve (internal/httpapi/pipeline.go, handlers.go, and the *)
(* item and preset paths of batch_handler.go), with the logo fetched on    *)
(* the way (module Fetch) and the request's deadline passing whenever it   *)
(* likes.                                                                  *)
(*                                                                         *)
(* The deadline is read between stages only.  A symbology is [available,   *)
(* levels, refuses], refuses mapping the data it cannot carry to the code  *)
(* of the refusal; the verdict on a design is left open.                   *)
(***************************************************************************)
EXTENDS Request, Fetch

CONSTANTS Symbologies,   \* name -> [available, levels, refuses]
          Builders,      \* builder name -> the payload member it needs
          Colours, FrameKinds, Formats,
          Presets,       \* name -> dotted options
          LogoRefs,      \* the text of style.logo -> a member of Refs
          BadImages,     \* logo texts render.ParseLogo refuses, webp included
          TooLarge,      \* values of output.scale past the canvas cap
          Messages,      \* the requests considered
          Configs,       \* [strict, ecc, format]
          Waits, Chunks  \* what a wait may take, what a read may bring

\* A key is one of KeyOrder, which stands for all a caller may write; a raw
\* body has no type, a form no files, and a body that is empty no members.
ASSUME MessagesAssumption ==
  LET Written == {KeyOrder[i] : i \in DOMAIN KeyOrder}
  IN  /\ \A p \in DOMAIN Presets : DOMAIN Presets[p] \subseteq Written
      /\ \A m \in Messages :
           /\ DOMAIN m.query.values \subseteq Written
           /\ DOMAIN m.body.values \subseteq Written /\ DOMAIN m.body.files \subseteq Written
           /\ m.body.doc \in Seq({m.body.doc[i] : i \in DOMAIN m.body.doc})
           /\ m.body.shape = "empty" => m.body.doc = <<>>
           /\ m.body.type = "form" => DOMAIN m.body.files = {}
           /\ m.body.type = Empty => m.body.shape \in {"raw", "empty", "oversize"}
           /\ DOMAIN m.item.defaults \subseteq Written /\ DOMAIN m.item.options \subseteq Written
           /\ m.item.payload.given \in BOOLEAN
           /\ DOMAIN m.item.payload.member \subseteq PayloadKeys

\* What an encoder refuses its data for (errors.go asFault), and what a wait
\* and a read may be.
ASSUME StagesAssumption ==
  /\ \A s \in DOMAIN Symbologies : \A d \in DOMAIN Symbologies[s].refuses :
       Symbologies[s].refuses[d] \in {"INVALID_DATA", "DATA_TOO_LONG"}
  /\ Waits \subseteq Nat /\ Chunks \subseteq Nat \ {0}

VARIABLES phase, cfg, msg, req, encoded, expired, late, grade, fault, response

pipelineVars == <<phase, cfg, msg, req, encoded, expired, late, grade, fault, response>>
vars == <<pipelineVars, fetchVars>>

Phases == {"received", "build", "encode", "style", "logo", "frame", "render",
           "write", "serve", "done"}
Grades == {"excellent", "good", "risky", "unscannable"}
NoText == [type |-> Empty, text |-> Text(Empty)]
NoResponse == [kind |-> "none", status |-> 0]

-----------------------------------------------------------------------------
(* From the message to the request each endpoint runs.                     *)

\* renderBatchItem: defaults, then the item's options, then its own members.
ItemRequest(item) ==
  LET d == ApplyOptions(NewRequest("qr"), item.defaults)
      o == ApplyOptions(d.req, item.options)
      own == [field   |-> [f \in Fields |-> IF f \in {"type", "data"} /\ item[f] # Text(Empty)
                                            THEN item[f] ELSE o.req.field[f]],
              payload |-> IF item.data # Text(Empty) /\ item.type = Text(Empty) THEN NoPayload
                          ELSE IF item.payload.given THEN item.payload ELSE o.req.payload]
  IN  IF d.fault # NoFault THEN d ELSE IF o.fault # NoFault THEN o ELSE Decoded(own)

PresetRequest(m) ==
  IF m.path \notin DOMAIN Presets
  THEN {Refused(NewRequest("qr"), Fault(404, "NOT_FOUND", "preset"))}
  ELSE LET p == ApplyOptions(NewRequest("qr"), Presets[m.path])
       IN  IF p.fault # NoFault THEN {p} ELSE DecodeOver(p.req, m)

\* /v1/qr is QR whatever the request says; another path is only a default; the
\* type in /v1/build's path is not.
Settle(m, r) ==
  CASE m.endpoint \in {"qr", "barcode"} /\ m.path = "qr" ->
         [r EXCEPT !.field["symbology"] = Text("qr")]
    [] m.endpoint = "barcode" /\ m.path # "qr" /\ r.field["symbology"] = Text(Empty) ->
         [r EXCEPT !.field["symbology"] = Text(m.path)]
    [] m.endpoint = "build" -> [r EXCEPT !.field["type"] = Text(m.path)]
    [] OTHER -> r

Decodings(m) ==
  CASE m.endpoint = "item"    -> {ItemRequest(m.item)}
    [] m.endpoint = "preset"  -> PresetRequest(m)
    [] m.endpoint = "barcode" -> DecodeOver(NewRequest(m.path), m)
    [] OTHER                  -> DecodeOver(NewRequest("qr"), m)

-----------------------------------------------------------------------------
(* The stages' own verdicts.                                               *)

Field(f) == req.field[f]
HasType  == Field("type") \notin {Text(Empty), Text("raw")}
Given(k) == k \in DOMAIN req.payload.member

\* build: a type and data at once is an error, not a precedence.
BuildFault ==
  CASE HasType /\ Field("data") # Text(Empty) -> Fault(400, "BAD_REQUEST", "data")
    [] HasType /\ Field("data") = Text(Empty) ->
         IF Field("type").dressed \/ Field("type").core \notin DOMAIN Builders
         THEN Fault(400, "UNKNOWN_TYPE", "type")
         ELSE IF ~Given(Builders[Field("type").core])
              THEN Fault(400, "INVALID_PAYLOAD", "payload") ELSE NoFault
    [] ~HasType /\ Field("data") # Text(Empty) -> NoFault
    [] OTHER -> IF Field("type") # Text("raw") \/ ~req.payload.given
                THEN Fault(400, "MISSING_DATA", "data")
                ELSE IF Given("payload.data") THEN NoFault
                     ELSE Fault(500, "INTERNAL", Empty)      \* the builder's bare error

Built ==
  IF HasType THEN [type |-> Field("type").core,
                   text |-> IF Given(Builders[Field("type").core])
                            THEN req.payload.member[Builders[Field("type").core]]
                            ELSE Text(Empty)]
  ELSE [type |-> Empty, text |-> IF Field("data") # Text(Empty) THEN Field("data")
                              ELSE req.payload.member["payload.data"]]

\* encodeOpts: the configured level only where the symbology has it.
EccFor(sym) == IF Field("encode.ecc") # Text(Empty) THEN Field("encode.ecc").core
               ELSE IF cfg.ecc \in Symbologies[sym].levels THEN cfg.ecc ELSE Empty

\* encoder.Get, then what every Encode checks: the data's length and alphabet,
\* an automatic version, a level the symbology has.  The level's spelling is
\* trimmed and folded, the symbology's name is not.
EncodeFault ==
  LET sym == Field("symbology").core
  IN  CASE Field("symbology").dressed \/ sym \notin DOMAIN Symbologies ->
             Fault(400, "UNKNOWN_SYMBOLOGY", "symbology")
        [] OTHER ->
             IF ~Symbologies[sym].available THEN Fault(501, "SYMBOLOGY_UNAVAILABLE", "symbology")
             ELSE IF encoded.text.core \in DOMAIN Symbologies[sym].refuses
             THEN Fault(400, Symbologies[sym].refuses[encoded.text.core], "data")
             ELSE IF Field("encode.version") \notin {Text("auto"), Text("0")}
                     \/ EccFor(sym) \notin Symbologies[sym].levels \cup {Empty}
             THEN Fault(400, "UNSUPPORTED_OPTION", "encode") ELSE NoFault

ColourFault == IF Field("style.fg").core \in Colours \cup {Empty} THEN NoFault
               ELSE Fault(400, "INVALID_COLOR", "style.fg")

\* A caption alone implies the plain frame; NaN fails the range check.
FrameKind == IF Field("style.frame") = Text(Empty) THEN Text("border") ELSE Field("style.frame")
FrameFault ==
  IF /\ Field("style.frame") # Text(Empty) \/ Field("style.caption") # Text(Empty)
     /\ FrameKind \notin {Text(k) : k \in FrameKinds}
  THEN Fault(400, "INVALID_VALUE", "style.frame")
  ELSE IF Field("style.hri_size").core \notin {"0", "4", "7"}
  THEN Fault(400, "INVALID_VALUE", "style.hri_size") ELSE NoFault

Format == IF Field("output.format") = Text(Empty) THEN Text(cfg.format) ELSE Field("output.format")
WriteFault ==
  IF Format \notin {Text(f) : f \in Formats} THEN Fault(400, "UNKNOWN_FORMAT", "output.format")
  ELSE IF Field("output.scale").core \in TooLarge
  THEN Fault(413, "CANVAS_TOO_LARGE", "output.scale") ELSE NoFault

TimeoutFault == Fault(504, "TIMEOUT", Empty)

\* The renderer's: a shape it does not know.
ShapeFault == Fault(400, "UNKNOWN_SHAPE", "style.module")

-----------------------------------------------------------------------------
Init ==
  /\ phase = "received" /\ msg \in Messages /\ cfg \in Configs
  /\ req = NewRequest("qr") /\ encoded = NoText /\ expired = FALSE /\ late = 0
  /\ grade = "excellent" /\ fault = NoFault /\ response = NoResponse
  /\ FetchInit /\ ref.kind = "empty"

\* fail: the fault is the answer; an item's fault is its result.
Fail(f) == /\ phase' = "done" /\ fault' = f
           /\ response' = [kind |-> "fault", status |-> f.status]
Go(p)   == phase' = p /\ UNCHANGED <<fault, response>>
Stage   == late' = IF expired THEN late + 1 ELSE late

BugGoUnlessExpired(p) == Go(p)
\* The deadline, read after a stage.
GoUnlessExpired(p) == IF expired THEN Fail(TimeoutFault) ELSE Go(p)
Accept ==
  /\ phase = "received"
  /\ \E d \in Decodings(msg) :
       /\ req' = Settle(msg, d.req)
       /\ IF d.fault # NoFault THEN Fail(d.fault) ELSE Go("build")
  /\ UNCHANGED <<cfg, msg, encoded, expired, late, grade, fetchVars>>

\* handleBuild answers with the string itself.
Build ==
  /\ phase = "build" /\ Stage
  /\ IF BuildFault # NoFault THEN Fail(BuildFault) /\ UNCHANGED encoded
     ELSE /\ encoded' = Built
          /\ IF msg.endpoint # "build" THEN GoUnlessExpired("encode")
             ELSE /\ phase' = "done" /\ UNCHANGED fault
                  /\ response' = [kind |-> "json", status |-> 200]
  /\ UNCHANGED <<cfg, msg, req, expired, grade, fetchVars>>

Encode ==
  /\ phase = "encode" /\ Stage
  /\ IF EncodeFault # NoFault THEN Fail(EncodeFault) ELSE GoUnlessExpired("style")
  /\ UNCHANGED <<cfg, msg, req, encoded, expired, grade, fetchVars>>

\* style, up to its logo.
Style ==
  /\ phase = "style" /\ Stage
  /\ IF ColourFault # NoFault THEN Fail(ColourFault) /\ UNCHANGED ref
     ELSE IF Field("style.logo") = Text(Empty) THEN Go("frame") /\ UNCHANGED ref
     ELSE Go("logo") /\ ref' = LogoRefs[Field("style.logo").core]
  /\ UNCHANGED <<cfg, msg, req, encoded, expired, grade, stage, dns, pinned,
                 dialled, reply, got, elapsed, outcome>>

\* resolveLogo: the fetch's steps, given up only once the deadline has passed.
FetchLogo ==
  /\ phase = "logo" /\ stage # "done"
  /\ FetchWork(Waits, Chunks) \/ (expired /\ Abandon)
  /\ UNCHANGED pipelineVars

BugLogo ==
  /\ phase = "logo" /\ stage = "done" /\ Go("frame")
  /\ UNCHANGED <<cfg, msg, req, encoded, expired, late, grade, fetchVars>>

Logo ==
  /\ phase = "logo" /\ stage = "done"
  /\ IF outcome \notin {"ok", "inline"}
     THEN Fail(Fault(LogoFault(outcome)[1], LogoFault(outcome)[2], "style.logo"))
     ELSE IF Field("style.logo").core \in BadImages
     THEN Fail(Fault(400, "INVALID_VALUE", "style.logo")) ELSE Go("frame")
  /\ UNCHANGED <<cfg, msg, req, encoded, expired, late, grade, fetchVars>>

Frame ==
  /\ phase = "frame"
  /\ IF FrameFault # NoFault THEN Fail(FrameFault) ELSE Go("render")
  /\ UNCHANGED <<cfg, msg, req, encoded, expired, late, grade, fetchVars>>

\* Shapes are no data of the model: any request may name one that is unknown.
Render ==
  /\ phase = "render" /\ Stage
  /\ \/ Fail(ShapeFault) /\ UNCHANGED grade
     \/ GoUnlessExpired("write") /\ grade' \in Grades
  /\ UNCHANGED <<cfg, msg, req, encoded, expired, fetchVars>>

\* Judged on every render; only strict mode refuses.
Unscannable == cfg.strict = "strict" /\ grade = "unscannable"

Write ==
  /\ phase = "write" /\ Stage
  /\ IF Unscannable THEN Fail(Fault(422, "UNSCANNABLE", "style"))
     ELSE IF WriteFault # NoFault THEN Fail(WriteFault) ELSE Go("serve")
  /\ UNCHANGED <<cfg, msg, req, encoded, expired, grade, fetchVars>>

\* If-None-Match: "*", or a list one of whose tags, weak or strong, is ours.
EtagMatches(match) == "*" \in match \/ "own" \in match

\* An item's bytes go to the batch, a validation is reported, a render served:
\* not at all when the caller holds it, without its body for a HEAD.
Serve ==
  /\ phase = "serve"
  /\ phase' = "done" /\ UNCHANGED fault
  /\ response' =
       CASE msg.endpoint = "item"     -> [kind |-> "item", status |-> 200]
         [] msg.endpoint = "validate" -> [kind |-> "json", status |-> 200]
         [] OTHER -> IF EtagMatches(msg.match) THEN [kind |-> "none", status |-> 304]
                     ELSE IF msg.method = "HEAD" THEN [kind |-> "none", status |-> 200]
                     ELSE [kind |-> "image", status |-> 200]
  /\ UNCHANGED <<cfg, msg, req, encoded, expired, late, grade, fetchVars>>

\* The deadline passes, or the client goes away.
Expire ==
  /\ phase # "done" /\ ~expired /\ expired' = TRUE
  /\ UNCHANGED <<phase, cfg, msg, req, encoded, late, grade, fault, response, fetchVars>>

RebindName == phase = "logo" /\ Rebind /\ UNCHANGED pipelineVars

Step == \/ Accept \/ Build \/ Encode \/ Style \/ FetchLogo \/ Logo \/ Frame
        \/ Render \/ Write \/ Serve
Next == Step \/ Expire \/ RebindName
Spec == Init /\ [][Next]_vars /\ WF_vars(Step)
-----------------------------------------------------------------------------
(* What a message says of a field, from the weakest to the strongest: the  *)
(* preset or the batch, the query or the item's options, the body, a file. *)

ValuesLayer(values) == [f \in Fields \cap DOMAIN values |-> Parse(f, LastOf(values[f]))]
OptionsLayer(options) == [f \in Fields \cap DOMAIN options |-> Parse(f, options[f])]

\* A null says something only of a field that can be unset.
Speaking(m) == m.key \in Fields /\ (m.type = "null" => m.key \in AutoFields \cup OptIntFields)
JSONLayer(doc) ==
  [f \in {doc[i].key : i \in {j \in DOMAIN doc : Speaking(doc[j])}} |->
     LET i == CHOOSE i \in DOMAIN doc :
                /\ doc[i].key = f /\ Speaking(doc[i])
                /\ \A j \in DOMAIN doc : j > i => ~(doc[j].key = f /\ Speaking(doc[j]))
     IN  IF doc[i].type = "null" THEN Zero(f) ELSE Parse(f, doc[i].text)]

BodyLayer(body) ==
  CASE body.type = "json" -> JSONLayer(body.doc)
    [] body.type \in {"form", "multipart"} -> ValuesLayer(body.values)
    [] body.type = Empty /\ body.shape = "raw" -> [f \in {"data"} |-> body.raw]
    [] OTHER -> << >>

Bodied(m) == m.method \notin {"GET", "HEAD"}
Layers(m) ==
  IF m.endpoint = "item"
  THEN << OptionsLayer(m.item.defaults), OptionsLayer(m.item.options),
          [f \in {g \in {"type", "data"} : m.item[g] # Text(Empty)} |-> m.item[f]] >>
  ELSE << IF m.endpoint = "preset" /\ m.path \in DOMAIN Presets
          THEN OptionsLayer(Presets[m.path]) ELSE << >>,
          ValuesLayer(m.query.values),
          IF Bodied(m) THEN BodyLayer(m.body) ELSE << >>,
          IF Bodied(m) /\ m.body.type = "multipart"
          THEN [f \in Fields \cap DOMAIN m.body.files |-> Parse(f, PartURI(m.body.files[f]))]
          ELSE << >> >>

Implied(f) == IF f = "symbology" THEN Text("qr") ELSE Zero(f)
Said(m, f) ==
  LET layers == Layers(m)
      said   == {i \in DOMAIN layers : f \in DOMAIN layers[i]}
  IN  IF said = {} THEN Implied(f)
      ELSE layers[CHOOSE i \in said : \A j \in said : j <= i][f]

\* Every text of a logo is one of LogoRefs, and stands for a member of Refs.
ASSUME LogosAssumption ==
  /\ \A l \in DOMAIN LogoRefs : LogoRefs[l] \in Refs
  /\ \A m \in Messages : Said(m, "style.logo").core \in DOMAIN LogoRefs

\* The path decides these, whatever the message says.
PathDecides(m, f) == \/ f = "symbology" /\ m.endpoint \in {"qr", "barcode"}
                     \/ f = "type" /\ m.endpoint = "build"

Keys(m) ==
  IF m.endpoint = "item" THEN DOMAIN m.item.defaults \cup DOMAIN m.item.options
  ELSE DOMAIN m.query.values \cup
       IF ~Bodied(m) THEN {}
       ELSE CASE m.body.type = "json" -> {m.body.doc[i].key : i \in DOMAIN m.body.doc}
              [] m.body.type \in {"form", "multipart"} ->
                   DOMAIN m.body.values \cup DOMAIN m.body.files
              [] OTHER -> {}

Accepted == phase # "received" /\ fault = NoFault
Rendered == response.kind \in {"image", "item", "json"}

-----------------------------------------------------------------------------
PipelineTypeOK ==
  /\ phase \in Phases /\ grade \in Grades /\ expired \in BOOLEAN /\ late \in 0..5
  /\ DOMAIN req.field = Fields /\ DOMAIN req.payload.member \subseteq PayloadKeys
  /\ (fault # NoFault) <=> (response.kind = "fault")
  /\ (phase = "done") <=> (response # NoResponse)

\* The more specific statement wins on every field, whichever transports carry
\* it: a file over a form value, a body over the query, the request over its
\* preset, an item over its batch (decode.go decodeOver, applyMultipart).
SpecificWins ==
  Accepted => \A f \in Fields : PathDecides(msg, f) \/ Field(f) = Said(msg, f)

\* No key is silently dropped: a request that is accepted has none that sets
\* nothing (decode.go applyJSON, applyOne, walkPaths).
NothingDropped ==
  Accepted => Keys(msg) \subseteq Fields \cup PayloadKeys
                \cup {k \in {"payload"} : msg.endpoint # "item" /\ msg.body.type = "json"}

\* What is answered encodes one stated intent: never a type and data at once,
\* and an item's own data whatever its batch says (build, renderBatchItem).
EncodesOneIntent ==
  Rendered => /\ ~(HasType /\ Field("data") # Text(Empty))
              /\ (msg.endpoint = "item" /\ msg.item.data # Text(Empty))
                   => encoded = [type |-> Empty, text |-> msg.item.data]

\* A request that names no encode option is never refused for one: the
\* configured level means nothing to most symbologies (encodeOpts).
DefaultLevelNeverRefuses ==
  (fault.code = "UNSUPPORTED_OPTION" /\ fault.field = "encode")
    => \/ Field("encode.ecc") # Text(Empty)
       \/ Field("encode.version") \notin {Text("auto"), Text("0")}

\* "An unmapped error is a barqr bug": the only one met is the raw builder's,
\* for a payload without its data (asFault, build).
InternalOnlyForRaw ==
  fault.status = 500
    => Field("type") = Text("raw") /\ req.payload.given /\ ~Given("payload.data")

\* A deadline that has passed costs two more stages at most, and nothing is
\* answered that was past it before its symbol was drawn (pipeline).
BoundedOverrun == late <= 2 /\ (Rendered => late <= 1)

\* Strict mode serves no design it judges unreadable, on any endpoint, and
\* refuses none that it does not (pipeline, unscannableFault).
StrictRefuses ==
  /\ (Rendered /\ msg.endpoint # "build" /\ cfg.strict = "strict") => (grade # "unscannable")
  /\ fault.code = "UNSCANNABLE" => cfg.strict = "strict" /\ grade = "unscannable"

\* No image is answered without the logo it asked for, vetted, whole and in
\* time (style, resolveLogo).
NoImageWithoutItsLogo ==
  (Rendered /\ msg.endpoint # "build" /\ Field("style.logo") # Text(Empty))
    => /\ outcome = (IF ref.kind = "remote" THEN "ok" ELSE "inline")
       /\ ref = LogoRefs[Field("style.logo").core]
       /\ Field("style.logo").core \notin BadImages

\* An accepted request says what its caller said, on every transport: nothing
\* of it is overruled by something less specific, nothing is dropped, one intent
\* is encoded, no default refuses it, and an error is the caller's own, but for
\* the raw builder's (decodeOver, build, asFault).
RequestHonoured ==
  /\ SpecificWins /\ NothingDropped
  /\ EncodesOneIntent /\ DefaultLevelNeverRefuses /\ InternalOnlyForRaw

\* What is served is what was asked for: readable where the server is strict,
\* and with its logo (pipeline, style).
ServedAsAsked == StrictRefuses /\ NoImageWithoutItsLogo
=============================================================================
