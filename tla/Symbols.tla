------------------------------ MODULE Symbols ------------------------------
(***************************************************************************)
(* The encoders, up to the library that draws: which payloads and options  *)
(* each takes, in the order it checks them, and the number it hands on     *)
(* with its check digit.  A payload is a sequence of characters; a level   *)
(* is trimmed and folded already.  The grids themselves are the libraries',*)
(* and so is whether a payload that passed these checks fits one.          *)
(***************************************************************************)
EXTENDS Integers, Sequences, FiniteSets, Functions

Accept(text) == [ok |-> TRUE, text |-> text]
Refuse(why)  == [ok |-> FALSE, why |-> why]

DigitOf == <<"0", "1", "2", "3", "4", "5", "6", "7", "8", "9">>
Digits  == Range(DigitOf)
ValueOf == [c \in Digits |-> CHOOSE v \in 0 .. 9 : DigitOf[v + 1] = c]

\* What the capabilities of a symbology say: the lengths it takes, or the most characters
\* (bytes, in two dimensions) and the alphabet; its levels of correction.
Letters   == {"A", "B", "C", "D", "E"}
Code39Set == Digits \cup Letters \cup {"-", ".", " ", "$", "/", "+", "%"}
Ascii     == Code39Set \cup {"a", "*", ":", "NUL"}
Utf8      == Ascii \cup {"e-acute"}
Linear(max, alphabet) == [lengths |-> {}, max |-> max, alphabet |-> alphabet, levels |-> {}]
Fixed(n)              == [lengths |-> {n, n + 1}, max |-> n + 1, alphabet |-> Digits, levels |-> {}]
Grid(max, levels)     == [lengths |-> {}, max |-> max, alphabet |-> Utf8, levels |-> levels]
Four == {"L", "M", "Q", "H"}
Caps == [ean13   |-> Fixed(12), ean8 |-> Fixed(7), upca |-> Fixed(11), upce |-> Fixed(7), itf14 |-> Fixed(13),
         itf     |-> Linear(128, Digits), twooffive |-> Linear(128, Digits),
         codabar |-> Linear(128, Digits \cup {"-", "$", ":", "/", ".", "+", "A", "B", "C", "D"}),
         code39  |-> Linear(128, Code39Set), code93 |-> Linear(128, Code39Set), code128 |-> Linear(80, Ascii),
         qr      |-> Grid(2953, Four), aztec |-> Grid(1914, Four), datamatrix |-> Grid(1556, {}),
         pdf417  |-> Grid(1108, {DigitOf[i] : i \in 1 .. 9})]

Numbered == {"ean13", "ean8", "upca", "itf14", "upce"}
Grids    == {"qr", "aztec", "datamatrix", "pdf417"}

-----------------------------------------------------------------------------
(* Check digits.                                                           *)

Weighted(s, three) ==
  LET sum[i \in 0 .. Len(s)] ==
        IF i = 0 THEN 0 ELSE sum[i - 1] + ValueOf[s[i]] * (IF three[i] THEN 3 ELSE 1)
  IN  sum[Len(s)]
Closing(sum)       == DigitOf[((10 - (sum % 10)) % 10) + 1]

\* Weights alternate 3, 1, 3 from the rightmost digit.
gs1CheckDigit(payload) == Closing(Weighted(payload, [i \in DOMAIN payload |-> (Len(payload) - i) % 2 = 0]))

requireDigits(data) == Range(data) \subseteq Digits

\* A number one digit short is closed, a whole one is verified.
Checked(data, n, payload) ==
  IF Len(data) = n THEN Accept(Append(data, gs1CheckDigit(payload)))
  ELSE IF data[n + 1] = gs1CheckDigit(payload) THEN Accept(data) ELSE Refuse("invalid")
BugwithCheckDigit(data, n) ==
  IF ~requireDigits(data) \/ Len(data) \notin {n, n + 1} THEN Refuse("invalid")
  ELSE IF Len(data) = n THEN Checked(data, n, data) ELSE Accept(data)
withCheckDigit(data, n) ==
  IF ~requireDigits(data) \/ Len(data) \notin {n, n + 1} THEN Refuse("invalid")
  ELSE Checked(data, n, SubSeq(data, 1, n))

\* The eleven digits that seven stand for: the last says where zeroes were left out.
Zeroes(n) == [i \in 1 .. n |-> "0"]
upceExpand(seven) ==
  LET last == seven[7]
      First(n) == SubSeq(seven, 1, n)
  IN  CASE last \in {"0", "1", "2"} -> First(3) \o <<last>> \o Zeroes(4) \o SubSeq(seven, 4, 6)
        [] last = "3" -> First(4) \o Zeroes(5) \o SubSeq(seven, 5, 6)
        [] last = "4" -> First(5) \o Zeroes(5) \o SubSeq(seven, 6, 6)
        [] OTHER -> First(6) \o Zeroes(4) \o <<last>>

upceNormalise(data) ==
  IF ~requireDigits(data) \/ Len(data) \notin {7, 8} \/ data[1] \notin {"0", "1"} THEN Refuse("invalid")
  ELSE Checked(data, 7, upceExpand(SubSeq(data, 1, 7)))

-----------------------------------------------------------------------------
(* Payloads of variable length.                                            *)

StartStop == {"A", "B", "C", "D"}
codabarStructure(data) ==
  /\ Len(data) >= 3
  /\ \A i \in DOMAIN data : data[i] \in StartStop <=> i \in {1, Len(data)}

Bytes(data)    == Len(data) + Cardinality({i \in DOMAIN data : data[i] = "e-acute"})
Size(sym, data) == IF sym \in Grids THEN Bytes(data) ELSE Len(data)

requireLength(sym, data)    == data # <<>> /\ Size(sym, data) <= Caps[sym].max

Payload(sym, data) ==
  CASE sym = "upce" -> upceNormalise(data)
    [] sym \in Numbered \ {"upce"} -> withCheckDigit(data, Caps[sym].max - 1)
    [] ~requireLength(sym, data) /\ sym \notin Numbered ->
         Refuse(IF data = <<>> THEN "invalid" ELSE "too_long")
    [] OTHER ->
         IF /\ Range(data) \subseteq Caps[sym].alphabet
            /\ sym = "itf" => Len(data) % 2 = 0
            /\ sym = "codabar" => codabarStructure(data)
         THEN Accept(data) ELSE Refuse("invalid")

\* No size or mask can be pinned; a level must be one the symbology has.
Options(sym, o) == o.auto /\ o.ecc \in Caps[sym].levels \cup {""}

\* A numbered code looks at the options first, the others at the payload.
Admit(sym, data, o) ==
  LET read == Payload(sym, data)
  IN  IF ~Options(sym, o) /\ (sym \in Numbered \/ read.ok) THEN Refuse("option") ELSE read

\* What the library says of the largest symbol (external): it holds a hundred bytes in each
\* of the four grids at every level; of more it depends on the characters and the level.
SurelyHeld == 100
Holding(sym, data) == IF sym \in Grids /\ Bytes(data) > SurelyHeld THEN BOOLEAN ELSE {TRUE}

\* What was admitted goes to the library, and may be too long for it after all.
Encode(sym, data, o, holds) ==
  LET read == Admit(sym, data, o)
  IN  IF read.ok /\ ~holds THEN Refuse("too_long") ELSE read

-----------------------------------------------------------------------------
(* The libraries, as their own documentation has them: an EAN's last digit *)
(* closes the sum weighted by position from the left, a UPC-E's that of    *)
(* its expansion.                                                          *)
EanCloses(s) ==
  LET n == Len(s) - 1
  IN  s[n + 1] = Closing(Weighted(SubSeq(s, 1, n), [i \in 1 .. n |-> (i % 2 = 0) = (n = 12)]))

LibraryTakes(sym, text) ==
  CASE sym = "ean13" -> Len(text) = 13 /\ EanCloses(text)
    [] sym = "ean8"  -> Len(text) = 8 /\ EanCloses(text)
    [] sym = "upca"  -> Len(text) = 12 /\ EanCloses(<<"0">> \o text)
    [] sym = "upce"  -> Len(text) = 8 /\ EanCloses(<<"0">> \o upceExpand(SubSeq(text, 1, 7)) \o <<text[8]>>)
    [] sym \in {"itf", "itf14"} -> requireDigits(text) /\ Len(text) % 2 = 0
    [] sym = "codabar" -> /\ Len(text) >= 3
                          /\ {text[1], text[Len(text)]} \subseteq {"A", "B", "C", "D"}
                          /\ Range(SubSeq(text, 2, Len(text) - 1)) \cap Letters = {}
    [] sym \in {"code39", "code93"} -> "*" \notin Range(text)
    [] sym = "code128" -> Len(text) <= 80 /\ "e-acute" \notin Range(text)
    [] OTHER -> TRUE
=============================================================================
