------------------------------- MODULE Config -------------------------------
(***************************************************************************)
(* Configuration from the environment (internal/config/config.go): every   *)
(* variable parsed or refused, all refusals reported together, and the two *)
(* rules that keep an unauthenticated server off the network.              *)
(*                                                                         *)
(* A value is a word: a sequence of tokens, of which " " is a blank, a     *)
(* member of DOMAIN NumberOf a number and one of DOMAIN Units a size unit. *)
(* The key of each kind that decides something stands for its kind; the    *)
(* others are in the map of kinds only.                                    *)
(***************************************************************************)
EXTENDS Integers, Sequences, SequencesExt, FiniteSets

CONSTANTS Tokens,        \* what values are made of
          NumberOf,      \* numeric token -> its value
          Units,         \* size suffix -> its multiplier (sizeUnits)
          RateUnits,     \* window suffixes (rateUnits)
          MaxInt,        \* the largest int64; 1 << 62 is the largest size
          LoopbackHosts  \* words that isLoopback accepts

ASSUME NumbersAssumption == /\ MaxInt \in Nat
                            /\ NumberOf \in [DOMAIN NumberOf -> Int]
                            /\ Units \in [DOMAIN Units -> Nat \ {0}]
MaxSize == (MaxInt + 1) \div 2
Wrap64(x) == ((x + MaxInt + 1) % (2 * MaxInt + 2)) - (MaxInt + 1)

Blank == " "
Comma == ","

\* spec, by the method that parses each key.
Kinds == [
  str      |-> {"BIND", "PRESETS_PATH"},
  list     |-> {"API_KEYS", "FETCH_ALLOWLIST", "CORS_ORIGINS"},
  boolean  |-> {"ALLOW_REMOTE_FETCH", "DOCS", "METRICS", "DYNAMIC", "I_UNDERSTAND_OPEN_BIND"},
  int      |-> {"PORT", "CONCURRENCY", "MAX_CANVAS_PX", "MAX_BATCH_ITEMS"},
  duration |-> {"REQUEST_TIMEOUT", "SHUTDOWN_GRACE", "FETCH_TIMEOUT"},
  bytes    |-> {"MAX_BODY", "FETCH_MAX_BYTES"},
  rate     |-> {"RATE_LIMIT"},
  enum     |-> {"AUTH_MODE", "DEFAULT_FORMAT", "DEFAULT_ECC", "STRICT_SCANNABILITY",
                "LOG_LEVEL", "LOG_FORMAT"}]
Known   == UNION {Kinds[k] : k \in DOMAIN Kinds}
Secret  == {"API_KEYS"}

Default(key) ==
  IF key = "BIND" THEN <<"127.0.0.1">>
  ELSE IF key = "AUTH_MODE" THEN <<"required">>
  ELSE IF key \in {"DOCS", "METRICS"} THEN <<"true">>
  ELSE CASE key \in Kinds.rate     -> <<"7", "/", "min">>
         [] key \in Kinds.bytes    -> <<"2", "M">>
         [] key \in Kinds.duration -> <<"7", "ms">>
         [] key \in Kinds.int      -> <<"7">>
         [] key \in Kinds.boolean  -> <<"false">>
         [] key \in Kinds.str \cup Kinds.list -> <<>>
         [] OTHER                  -> <<"plain">>     \* the enumerations that decide nothing here

Allowed(key) == IF key = "AUTH_MODE" THEN {<<"required">>, <<"open">>}
                ELSE {<<"plain">>}

TrimSpace(w) ==
  LET ink == {i \in DOMAIN w : w[i] # Blank}
  IN  IF ink = {} THEN <<>>
      ELSE SubSeq(w, CHOOSE i \in ink : \A j \in ink : i <= j,
                     CHOOSE i \in ink : \A j \in ink : i >= j)

-----------------------------------------------------------------------------
(* newLoader: the environment is a sequence of [key, value], and the last  *)
(* of a repeated key counts.                                               *)
Sets(environ, key) == {i \in DOMAIN environ : environ[i].key = key}
Effective(environ, key) ==
  IF Sets(environ, key) = {} THEN Default(key)
  ELSE environ[CHOOSE i \in Sets(environ, key) : \A j \in Sets(environ, key) : j <= i].value
UnknownKeys(environ) == {environ[i].key : i \in DOMAIN environ} \ Known

Bad == [ok |-> FALSE]
Good(v) == [ok |-> TRUE, value |-> v]

IsNumber(w) == Len(w) = 1 /\ w[1] \in DOMAIN NumberOf
InInt64(n)  == n \in (-MaxInt - 1)..MaxInt

\* list: comma-separated, blanks trimmed, empties dropped.
Pieces(w) ==
  LET cut  == {0, Len(w) + 1} \cup {i \in DOMAIN w : w[i] = Comma}
      gaps == {p \in cut \X cut : p[1] < p[2] /\ \A k \in cut : ~(p[1] < k /\ k < p[2])}
  IN  {TrimSpace(SubSeq(w, p[1] + 1, p[2] - 1)) : p \in gaps}
List(w) == Pieces(w) \ {<<>>}

Boolean(w) == LET v == TrimSpace(w) IN
  CASE v \in {<<"true">>, <<"1">>} -> Good(TRUE)
    [] v \in {<<"false">>, <<"0">>} -> Good(FALSE)
    [] OTHER -> Bad

IntIn(w, lo, hi) == LET v == TrimSpace(w) IN
  IF IsNumber(v) /\ InInt64(NumberOf[v[1]]) /\ NumberOf[v[1]] \in lo..hi
  THEN Good(NumberOf[v[1]]) ELSE Bad

\* A Go duration carries its unit, but for zero.
Duration(w, lo) == LET v == TrimSpace(w) IN
  CASE v = <<"0">> -> IF lo = 0 THEN Good(0) ELSE Bad
    [] Len(v) = 2 /\ v[1] \in DOMAIN NumberOf /\ v[2] = "ms" ->
         IF NumberOf[v[1]] >= lo /\ InInt64(NumberOf[v[1]]) THEN Good(NumberOf[v[1]]) ELSE Bad
    [] OTHER -> Bad

BugBytes(w, lo) ==
  LET v    == TrimSpace(w)
      unit == v # <<>> /\ Last(v) \in DOMAIN Units
      mult == IF unit THEN Units[Last(v)] ELSE 1
      n    == TrimSpace(IF unit THEN Front(v) ELSE v)
  IN  IF ~IsNumber(n) \/ ~InInt64(NumberOf[n[1]]) THEN Bad
      ELSE IF Wrap64(NumberOf[n[1]] * mult) < lo THEN Bad
      ELSE Good(Wrap64(NumberOf[n[1]] * mult))
\* bytes: a number and at most one unit, blanks between them allowed; the range
\* is checked before the product is made, which is in int64.
Bytes(w, lo) ==
  LET v    == TrimSpace(w)
      unit == v # <<>> /\ Last(v) \in DOMAIN Units
      mult == IF unit THEN Units[Last(v)] ELSE 1
      n    == TrimSpace(IF unit THEN Front(v) ELSE v)
  IN  IF ~IsNumber(n) \/ ~InInt64(NumberOf[n[1]]) THEN Bad
      ELSE IF NumberOf[n[1]] < 0 \/ NumberOf[n[1]] > MaxSize \div mult THEN Bad
      ELSE IF Wrap64(NumberOf[n[1]] * mult) < lo THEN Bad
      ELSE Good(Wrap64(NumberOf[n[1]] * mult))

\* rate: a count of zero means no limit.
Rate(w) ==
  LET v   == TrimSpace(w)
      cut == {i \in DOMAIN v : v[i] = "/"}
  IN  IF cut = {} THEN Bad
      ELSE LET i     == CHOOSE i \in cut : \A j \in cut : i <= j
               count == TrimSpace(SubSeq(v, 1, i - 1))
               per   == TrimSpace(SubSeq(v, i + 1, Len(v)))
           IN  IF IsNumber(count) /\ NumberOf[count[1]] \in 0..MaxInt
                  /\ Len(per) = 1 /\ per[1] \in RateUnits
               THEN Good(NumberOf[count[1]]) ELSE Bad

Enum(w, allowed) == IF TrimSpace(w) \in allowed THEN Good(TrimSpace(w)) ELSE Bad

\* What Load makes of one key.
Value(environ, key) ==
  LET w == Effective(environ, key)
  IN  CASE key \in Kinds.str      -> Good(TrimSpace(w))
        [] key \in Kinds.list     -> Good(List(w))
        [] key \in Kinds.boolean  -> Boolean(w)
        [] key \in Kinds.int      -> IntIn(w, 1, MaxInt)
        [] key \in Kinds.duration -> Duration(w, IF key = "SHUTDOWN_GRACE" THEN 0 ELSE 1)
        [] key \in Kinds.bytes    -> Bytes(w, 1)
        [] key \in Kinds.rate     -> Rate(w)
        [] OTHER                  -> Enum(w, Allowed(key))

-----------------------------------------------------------------------------
IsLoopback(host) == host \in LoopbackHosts

BugInsecure(environ) ==
  LET is(key, v) == Value(environ, key).value = v
  IN  (IF is("AUTH_MODE", <<"required">>) /\ is("API_KEYS", {})
          /\ ~IsLoopback(Value(environ, "BIND").value) THEN {"keyless"} ELSE {})
      \cup (IF is("AUTH_MODE", <<"open">>) /\ is("I_UNDERSTAND_OPEN_BIND", FALSE)
               /\ (is("BIND", <<>>) \/ is("BIND", <<"0.0.0.0">>)) THEN {"open"} ELSE {})
\* checkSecurity, on a configuration whose values are all good.
Insecure(environ) ==
  LET is(key, v) == Value(environ, key).value = v
      exposed == ~IsLoopback(Value(environ, "BIND").value)
  IN  (IF exposed /\ is("AUTH_MODE", <<"required">>) /\ is("API_KEYS", {})
       THEN {"keyless"} ELSE {})
      \cup (IF exposed /\ is("AUTH_MODE", <<"open">>) /\ is("I_UNDERSTAND_OPEN_BIND", FALSE)
            THEN {"open"} ELSE {})

\* unimplemented: what is accepted and does nothing.
Idle(environ) ==
  {k \in {"ALLOW_REMOTE_FETCH", "DYNAMIC"} :
     Value(environ, k).value /\ (k = "DYNAMIC" \/ Value(environ, "FETCH_ALLOWLIST").value = {})}

\* The defaults are values like any other, and all of them are good.
ASSUME DefaultsAssumption == \A k \in Known : Default(k) \in Seq(Tokens) /\ Value(<<>>, k).ok
BadKeys(environ) == {k \in Known : Sets(environ, k) # {} /\ ~Value(environ, k).ok}
\* Load's errors: every refusal of a value; the security rules only when there
\* is none.
Errors(environ) == IF BadKeys(environ) # {} THEN BadKeys(environ) ELSE Insecure(environ)
Warnings(environ) == UnknownKeys(environ) \cup IF Errors(environ) = {} THEN Idle(environ) ELSE {}

\* Redacted, and the text of a refusal: a value is shown as it was set.
Hidden(key) == key \in Secret
Redacted(environ) == {<<k, IF Hidden(k) THEN <<"redacted">> ELSE Effective(environ, k)>> : k \in Known}
Quoted(environ, errs) == {<<k, Effective(environ, k)>> : k \in errs \cap Known}
=============================================================================
