------------------------------- MODULE Intake -------------------------------
(***************************************************************************)
(* What a batch is made of: the items of a JSON body or the rows of a CSV  *)
(* document (internal/batch: ParseCSV, resolveItems, outputFormat, and the *)
(* checks of Run before it renders).  A header cell is a name with or      *)
(* without capitals, blanks or a byte-order mark about it; a row is the    *)
(* line it is reported at, its cells, and whether it is torn: a quote that *)
(* is never closed, or that stands where none may, which the reader        *)
(* reports where it meets it.  A torn header is one with an unknown name.  *)
(***************************************************************************)
EXTENDS Integers, Sequences, Functions

Blank == ""
Table == [header : Seq([name : STRING, dressed : BOOLEAN]), rows : Seq([line : Nat, torn : BOOLEAN, cells : Seq(STRING)])]

\* The rows that are in S, in their order.
Kept(rows, S) == LET kept[k \in 0 .. Len(rows)] ==
                       IF k = 0 THEN <<>>
                       ELSE IF rows[k] \in S THEN Append(kept[k - 1], rows[k]) ELSE kept[k - 1]
                 IN  kept[Len(rows)]

Fault(why, row) == [ok |-> FALSE, why |-> why, row |-> row]

Columns  == [id |-> {"id"}, data |-> {"data"}, type |-> {"type"}, payload |-> {"payload.text", "payload.ssid"},
             option |-> {"style.fg", "encode.ecc", "output.format"}]
Known    == UNION Range(Columns) \* every other name is unknown, as is a prefix alone
LastOf(S) == CHOOSE i \in S : \A j \in S : j <= i

Named(header, kind) == {i \in DOMAIN header : header[i].name \in Columns[kind]}
Repeated(header)    == \E i, j \in DOMAIN header : i # j /\ header[i].name = header[j].name /\ header[i].name # Blank

\* A nameless column is ignored; a name said twice, however it is spelled, is refused.
parseHeader(header) ==
  /\ \A i \in DOMAIN header : header[i].name \in Known \cup {Blank}
  /\ ~Repeated(header)
  /\ Named(header, "data") # {} \/ (Named(header, "type") # {} /\ Named(header, "payload") # {})

\* A blank cell sets nothing, a row of blank cells is no row.
Cells(header, row, name) == {i \in DOMAIN header : header[i].name = name /\ row.cells[i] # Blank}
buildItem(header, row) == [name \in {n \in Known : Cells(header, row, n) # {}} |->
                             row.cells[LastOf(Cells(header, row, name))]]
BugFiller(header, row) == \A i \in DOMAIN row.cells : row.cells[i] = Blank \/ header[i].name = Blank
Filler(header, row)    == \A i \in DOMAIN row.cells : row.cells[i] = Blank

Ragged(header, row)  == row.torn \/ Len(row.cells) # Len(header)
Unsaid(header, row)  == {"data", "type"} \cap DOMAIN buildItem(header, row) = {}
BadRow(header, row)  == Ragged(header, row) \/ (~Filler(header, row) /\ Unsaid(header, row))
FirstBad(header, rows) == LET bad == {i \in DOMAIN rows : BadRow(header, rows[i])}
                          IN  IF bad = {} THEN 0 ELSE CHOOSE i \in bad : \A j \in bad : i <= j

ParseCSV(doc) ==
  IF doc.header = <<>> THEN Fault("bad_csv", 0)
  ELSE IF ~parseHeader(doc.header) THEN Fault("bad_csv", 1)
  ELSE IF FirstBad(doc.header, doc.rows) # 0 THEN Fault("bad_csv", doc.rows[FirstBad(doc.header, doc.rows)].line)
  ELSE LET full == Kept(doc.rows, {row \in Range(doc.rows) : ~Filler(doc.header, row)})
       IN  [ok |-> TRUE, items |-> [i \in DOMAIN full |-> buildItem(doc.header, full[i])]]

NoDoc == [header |-> <<>>, rows |-> <<>>]
resolveItems(req) ==
  IF req.csv # NoDoc
  THEN IF req.items # <<>> THEN Fault("bad_csv", 0)
       ELSE LET read == ParseCSV(req.csv)
            IN  IF read.ok /\ read.items = <<>> THEN Fault("empty", 0) ELSE read
  ELSE IF req.items = <<>> THEN Fault("empty", 0) ELSE [ok |-> TRUE, items |-> req.items]

\* The name of the packaging is folded; what it folds to is one of these.
outputFormat(name) == IF name \in {Blank, "zip"} THEN "zip" ELSE IF name = "json" THEN "json" ELSE "none"

\* Everything that can be refused without rendering, in its order.
Run(req, maxItems) ==
  LET read == resolveItems(req)
  IN  IF outputFormat(req.output) = "none" THEN Fault("unsupported_output", 0)
      ELSE IF read.ok /\ maxItems > 0 /\ Len(read.items) > maxItems THEN Fault("too_many", 0)
      ELSE read
=============================================================================
