----------------------------- MODULE CallsProofs -----------------------------
(***************************************************************************)
(* What the pure functions promise, for every input the calls are made on: *)
(* the table of a batch keeps its cells (Intake), a drawing keeps its      *)
(* symbol and its margin and is reported on honestly (Drawing), it comes   *)
(* out alike in every format (Writers), and what is mistyped in a number   *)
(* or a key is caught (Symbols, Texts).                                    *)
(***************************************************************************)
EXTENDS Calls, DataInduction, SequenceTheorems, TLAPS

(***************************************************************************)
(* The table of a batch (module Intake).                                   *)
(***************************************************************************)

\* What is kept of a sequence, prefix by prefix.
Keeps(g, s, S, T) ==
  /\ g \in [0 .. Len(s) -> Seq(T \cap S)]
  /\ g[0] = <<>>
  /\ \A k \in 1 .. Len(s) : g[k] = IF s[k] \in S THEN Append(g[k - 1], s[k]) ELSE g[k - 1]

LEMMA KeptRuns ==
  ASSUME NEW T, NEW s \in Seq(T), NEW S
  PROVE  \E g : Keeps(g, s, S, T) /\ I!Kept(s, S) = g[Len(s)]
<1> DEFINE n == Len(s)
           H == Seq(T \cap S)
           Next1(o, k) == IF s[k] \in S THEN Append(o, s[k]) ELSE o
           Runs(g) == g = [k \in 0 .. n |-> IF k = 0 THEN <<>> ELSE Next1(g[k - 1], k)]
           out == CHOOSE g : Runs(g)
           step == [k \in 1 .. n |-> [o \in H |-> Next1(o, k)]]
<1>0. n \in Nat /\ \A k \in 1 .. n : s[k] \in T
  BY LenProperties, ElementOfSeq
<1>1. I!Kept(s, S) = out[n]
  BY DEF I!Kept
<1>2. <<>> \in H /\ \A k \in 1 .. n : \A o \in H : Next1(o, k) \in H
  BY <1>0
<1> HIDE DEF H, Next1
<1>3. step \in StepsOn(n, H)
  BY <1>2 DEF StepsOn
<1>4. PICK g \in [0 .. n -> H] : g[0] = <<>> /\ \A k \in 1 .. n : g[k] = step[k][g[k - 1]]
  <2> DEFINE e == <<>>
  <2>1. n \in Nat
    BY <1>0, <1>2
  <2>3. e \in H
    BY <1>0, <1>2
  <2> HIDE DEF step, n, e
  <2>2. \E g : Computes(g, n, H, e, step)
    BY <1>3, <2>1, <2>3, Recursion
  <2>. QED BY <2>2 DEF e, Computes
<1>5. Runs(g)
  <2>1. ASSUME NEW k \in 1 .. n PROVE g[k] = Next1(g[k - 1], k)
    <3>1. g[k - 1] \in H
      <4>1. k - 1 \in 0 .. n
        BY <1>0
      <4>. QED BY <1>4, <4>1
    <3>2. step[k] = [o \in H |-> Next1(o, k)]
      OBVIOUS
    <3> HIDE DEF step
    <3>. QED BY <1>4, <3>1, <3>2
  <2>2. \A k \in 0 .. n : k = 0 \/ k \in 1 .. n
    BY <1>0
  <2>. QED BY <1>4, <2>1, <2>2
<1>6. Runs(out)
  <2> HIDE DEF Runs
  <2>. QED BY <1>5
<1> HIDE DEF out, step
<1> DEFINE Good == {k \in 0 .. n : out[k] \in H}
<1>7. 0 \in Good
  BY <1>0, <1>2, <1>6
<1>8. ASSUME NEW k \in 1 .. n, k - 1 \in Good PROVE k \in Good
  <2>1. out[k] = Next1(out[k - 1], k)
    BY <1>0, <1>6
  <2>. QED BY <1>0, <1>2, <1>8, <2>1
<1>9. \A k \in 0 .. n : out[k] \in H
  <2> HIDE DEF Good
  <2>1. \A k \in 0 .. n : k \in Good
    BY <1>0, <1>7, <1>8, Induction
  <2>. QED BY <2>1 DEF Good
<1>10. out \in [0 .. n -> H] /\ out[0] = <<>> /\ \A k \in 1 .. n : out[k] = Next1(out[k - 1], k)
  BY <1>0, <1>6, <1>9, SMTT(30)
<1>. QED BY <1>1, <1>10 DEF H, Next1, Keeps

\* Two sequences of one length, of which the same places are kept, are kept in
\* step.
Alike(s, t, S, R) == Len(s) = Len(t) /\ \A k \in 1 .. Len(s) : s[k] \in S <=> t[k] \in R

InStep(q, r, s, t) ==
  Len(q) = Len(r) /\ \A m \in 1 .. Len(q) : \E k \in 1 .. Len(s) : q[m] = s[k] /\ r[m] = t[k]

LEMMA KeptPairs ==
  ASSUME NEW T, NEW U, NEW s \in Seq(T), NEW t \in Seq(U), NEW S, NEW R, Alike(s, t, S, R)
  PROVE  /\ I!Kept(s, S) \in Seq(T \cap S) /\ I!Kept(t, R) \in Seq(U \cap R)
         /\ InStep(I!Kept(s, S), I!Kept(t, R), s, t)
<1> DEFINE n == Len(s)
           A == Seq(T \cap S)
           B1 == Seq(U \cap R)
           Same(q, r) == /\ Len(q) = Len(r)
                         /\ \A m \in 1 .. Len(q) : \E k \in 1 .. n : q[m] = s[k] /\ r[m] = t[k]
<1>0. /\ n \in Nat /\ n = Len(t) /\ \A k \in 1 .. n : s[k] \in T /\ t[k] \in U
      /\ \A k \in 1 .. n : s[k] \in S <=> t[k] \in R
  BY LenProperties, ElementOfSeq DEF Alike
<1>1. PICK g : Keeps(g, s, S, T) /\ I!Kept(s, S) = g[Len(s)]
  BY KeptRuns
<1>2. PICK h : Keeps(h, t, R, U) /\ I!Kept(t, R) = h[Len(t)]
  BY KeptRuns
<1>3. /\ g \in [0 .. n -> A] /\ g[0] = <<>> /\ h \in [0 .. n -> B1] /\ h[0] = <<>>
      /\ \A k \in 1 .. n : /\ g[k] = IF s[k] \in S THEN Append(g[k - 1], s[k]) ELSE g[k - 1]
                           /\ h[k] = IF t[k] \in R THEN Append(h[k - 1], t[k]) ELSE h[k - 1]
  BY <1>0, <1>1, <1>2 DEF Keeps
<1>4. ASSUME NEW k \in 1 .. n, Same(g[k - 1], h[k - 1]) PROVE Same(g[k], h[k])
  <2>0. k - 1 \in 0 .. n
    BY <1>0
  <2> DEFINE q == g[k - 1]
             r == h[k - 1]
  <2>1. q \in A /\ r \in B1 /\ Len(q) \in Nat /\ Len(r) = Len(q)
    <3>1. q \in A /\ r \in B1
      BY <1>3, <2>0
    <3>2. Len(q) = Len(r)
      BY <1>4
    <3>. QED BY <3>1, <3>2, LenProperties
  <2>2. CASE s[k] \notin S
    <3>1. g[k] = q /\ h[k] = r
      BY <1>0, <1>3, <2>2
    <3>. QED BY <1>4, <3>1
  <2>3. CASE s[k] \in S
    <3>1. g[k] = Append(q, s[k]) /\ h[k] = Append(r, t[k])
      BY <1>0, <1>3, <2>3
    <3>2. s[k] \in T \cap S /\ t[k] \in U \cap R
      BY <1>0, <2>3
    <3>3. /\ Len(g[k]) = Len(q) + 1 /\ Len(h[k]) = Len(q) + 1
          /\ \A m \in 1 .. Len(q) : g[k][m] = q[m] /\ h[k][m] = r[m]
          /\ g[k][Len(q) + 1] = s[k] /\ h[k][Len(q) + 1] = t[k]
      BY <2>1, <3>1, <3>2, AppendProperties
    <3>4. ASSUME NEW m \in 1 .. Len(g[k])
          PROVE  \E l \in 1 .. n : g[k][m] = s[l] /\ h[k][m] = t[l]
      <4>1. m = Len(q) + 1 \/ m \in 1 .. Len(q)
        BY <2>1, <3>3
      <4>2. CASE m = Len(q) + 1
        BY <3>3, <4>2
      <4>3. CASE m \in 1 .. Len(q)
        <5>1. \E l \in 1 .. n : q[m] = s[l] /\ r[m] = t[l]
          BY <1>4, <4>3
        <5>. QED BY <3>3, <4>3, <5>1
      <4>. QED BY <4>1, <4>2, <4>3
    <3>. QED BY <3>3, <3>4
  <2>. QED BY <2>2, <2>3
<1> DEFINE Good == {k \in 0 .. n : Same(g[k], h[k])}
<1>5. n \in Good
  <2>1. 0 \in Good
    BY <1>0, <1>3
  <2>2. \A k \in 1 .. n : k - 1 \in Good => k \in Good
    <3> HIDE DEF Same
    <3>. QED BY <1>0, <1>4
  <2>3. n \in Nat /\ n \in 0 .. n
    BY <1>0
  <2> HIDE DEF Good, n
  <2>4. \A k \in 0 .. n : k \in Good
    BY <2>1, <2>2, <2>3, Induction
  <2>. QED BY <2>3, <2>4
<1>6. Same(g[n], h[n]) /\ g[n] \in A /\ h[n] \in B1
  <2>1. n \in 0 .. n
    BY <1>0
  <2>. QED BY <1>3, <1>5, <2>1
<1>7. I!Kept(s, S) = g[n] /\ I!Kept(t, R) = h[n]
  BY <1>0, <1>1, <1>2
<1>. QED BY <1>6, <1>7 DEF InStep

\* The cells of a header and the rows of a table, as they are read.
HeaderCells == [name : STRING, dressed : BOOLEAN]
TableRows   == [line : Nat, torn : BOOLEAN, cells : Seq(STRING)]

LEMMA TableParts ==
  ASSUME NEW doc \in I!Table
  PROVE  /\ doc.header \in Seq(HeaderCells) /\ doc.rows \in Seq(TableRows)
         /\ doc = [header |-> doc.header, rows |-> doc.rows]
         /\ Len(doc.header) \in Nat /\ DOMAIN doc.header = 1 .. Len(doc.header)
         /\ Len(doc.rows) \in Nat /\ DOMAIN doc.rows = 1 .. Len(doc.rows)
<1>1. doc.header \in Seq(HeaderCells) /\ doc.rows \in Seq(TableRows)
  BY DEF I!Table, HeaderCells, TableRows
<1>2. doc = [header |-> doc.header, rows |-> doc.rows]
  BY DEF I!Table
<1>. QED BY <1>1, <1>2, LenProperties

LEMMA RowParts ==
  ASSUME NEW row \in TableRows
  PROVE  /\ row.cells \in Seq(STRING) /\ Len(row.cells) \in Nat
         /\ DOMAIN row.cells = 1 .. Len(row.cells)
<1>1. row.cells \in Seq(STRING)
  BY DEF TableRows
<1>. QED BY <1>1, LenProperties

\* No field has the blank for its name.
LEMMA BlankUnknown == I!Blank \notin I!Known
<1>1. \A S \in I!Range(I!Columns) : I!Blank \notin S
  <2>1. I!Range(I!Columns) = {I!Columns[x] : x \in {"id", "data", "type", "payload", "option"}}
    BY DEF I!Range, I!Columns
  <2>2. /\ I!Columns["id"] = {"id"} /\ I!Columns["data"] = {"data"} /\ I!Columns["type"] = {"type"}
        /\ I!Columns["payload"] = {"payload.text", "payload.ssid"}
        /\ I!Columns["option"] = {"style.fg", "encode.ecc", "output.format"}
    BY DEF I!Columns
  <2>3. /\ I!Blank # "id" /\ I!Blank # "data" /\ I!Blank # "type" /\ I!Blank # "payload.text"
        /\ I!Blank # "payload.ssid" /\ I!Blank # "style.fg" /\ I!Blank # "encode.ecc"
        /\ I!Blank # "output.format"
    BY DEF I!Blank
  <2>. QED BY <2>1, <2>2, <2>3
<1>. QED BY <1>1 DEF I!Known

\* In an accepted header a field has one column, and a row one cell for it.
LEMMA OneCell ==
  ASSUME NEW header \in Seq(HeaderCells), I!parseHeader(header), NEW row \in TableRows,
         NEW i \in DOMAIN header, header[i].name # I!Blank, row.cells[i] # I!Blank
  PROVE  /\ I!Cells(header, row, header[i].name) = {i}
         /\ I!LastOf(I!Cells(header, row, header[i].name)) = i
         /\ header[i].name \in I!Known
<1>1. \A j \in DOMAIN header : header[j].name = header[i].name => j = i
  BY DEF I!parseHeader, I!Repeated
<1>2. I!Cells(header, row, header[i].name) = {i}
  BY <1>1 DEF I!Cells
<1>3. i \in Nat
  BY LenProperties
<1>4. I!LastOf({i}) = i
  BY <1>3 DEF I!LastOf
<1>5. header[i].name \in I!Known
  BY DEF I!parseHeader
<1>. QED BY <1>2, <1>4, <1>5

\* A row's item has every cell that says something under a name, and no other.
LEMMA ItemIsRow ==
  ASSUME NEW header \in Seq(HeaderCells), I!parseHeader(header), NEW row \in TableRows,
         Len(row.cells) = Len(header)
  PROVE  LET item == I!buildItem(header, row)
         IN  /\ DOMAIN item \subseteq I!Known
             /\ \A n \in DOMAIN item : \E i \in DOMAIN row.cells :
                  /\ header[i].name = n /\ row.cells[i] = item[n]
                  /\ row.cells[i] # I!Blank /\ header[i].name # I!Blank
             /\ \A i \in DOMAIN row.cells : row.cells[i] # I!Blank /\ header[i].name # I!Blank =>
                  header[i].name \in DOMAIN item /\ item[header[i].name] = row.cells[i]
<1> DEFINE item == I!buildItem(header, row)
<1>0. DOMAIN row.cells = DOMAIN header
  BY RowParts, LenProperties
<1>1. /\ DOMAIN item = {n \in I!Known : I!Cells(header, row, n) # {}}
      /\ \A n \in DOMAIN item : item[n] = row.cells[I!LastOf(I!Cells(header, row, n))]
  BY DEF I!buildItem
<1> HIDE DEF item
<1>2. ASSUME NEW n \in DOMAIN item
      PROVE  \E i \in DOMAIN row.cells :
               /\ header[i].name = n /\ row.cells[i] = item[n]
               /\ row.cells[i] # I!Blank /\ header[i].name # I!Blank
  <2>1. n \in I!Known /\ I!Cells(header, row, n) # {}
    BY <1>1
  <2>2. PICK i \in DOMAIN header : header[i].name = n /\ row.cells[i] # I!Blank
    BY <2>1 DEF I!Cells
  <2>3. header[i].name # I!Blank
    BY <2>1, <2>2, BlankUnknown
  <2>4. I!LastOf(I!Cells(header, row, n)) = i
    BY <2>2, <2>3, OneCell
  <2>. QED BY <1>0, <1>1, <2>2, <2>3, <2>4
<1>3. ASSUME NEW i \in DOMAIN row.cells, row.cells[i] # I!Blank, header[i].name # I!Blank
      PROVE  header[i].name \in DOMAIN item /\ item[header[i].name] = row.cells[i]
  <2>1. i \in DOMAIN header
    BY <1>0
  <2>2. /\ I!Cells(header, row, header[i].name) = {i}
        /\ I!LastOf(I!Cells(header, row, header[i].name)) = i
        /\ header[i].name \in I!Known
    BY <1>3, <2>1, OneCell
  <2>. QED BY <1>1, <2>2
<1>. QED BY <1>1, <1>2, <1>3 DEF item

\* FirstBad is 0 where no row is bad, and the least row that is otherwise.
LEMMA FirstBadIs ==
  ASSUME NEW header, NEW rows \in Seq(TableRows)
  PROVE  LET k == I!FirstBad(header, rows)
         IN  \/ k = 0 /\ \A i \in 1 .. Len(rows) : ~I!BadRow(header, rows[i])
             \/ /\ k \in 1 .. Len(rows) /\ I!BadRow(header, rows[k])
                /\ \A i \in 1 .. k - 1 : ~I!BadRow(header, rows[i])
<1> DEFINE bad == {i \in DOMAIN rows : I!BadRow(header, rows[i])}
           k == I!FirstBad(header, rows)
<1>0. DOMAIN rows = 1 .. Len(rows) /\ Len(rows) \in Nat
  BY LenProperties
<1>1. k = IF bad = {} THEN 0 ELSE CHOOSE i \in bad : \A j \in bad : i <= j
  BY DEF I!FirstBad
<1>2. CASE bad = {}
  <2>1. k = 0
    BY <1>1, <1>2
  <2>2. \A i \in 1 .. Len(rows) : ~I!BadRow(header, rows[i])
    BY <1>0, <1>2
  <2>. QED BY <2>1, <2>2
<1>3. CASE bad # {}
  <2>1. bad \in SUBSET Nat
    BY <1>0
  <2>2. k = CHOOSE i \in bad : \A j \in bad : i <= j
    BY <1>1, <1>3
  <2> HIDE DEF bad, k
  <2>3. \E i \in bad : \A j \in bad : i <= j
    BY <1>3, <2>1, LeastNumber
  <2>4. k \in bad /\ \A j \in bad : k <= j
    BY <2>2, <2>3
  <2>5. k \in 1 .. Len(rows) /\ I!BadRow(header, rows[k])
    BY <1>0, <2>4 DEF bad
  <2>6. ASSUME NEW i \in 1 .. k - 1, I!BadRow(header, rows[i]) PROVE FALSE
    <3>1. i \in 1 .. Len(rows) /\ ~(k <= i)
      BY <1>0, <2>5
    <3>2. i \in bad
      BY <1>0, <2>6, <3>1 DEF bad
    <3>. QED BY <2>4, <3>1, <3>2
  <2>. QED BY <2>5, <2>6 DEF k
<1>. QED BY <1>2, <1>3

\* What is kept of a sequence is a sequence of its members.
LEMMA KeptFrom ==
  ASSUME NEW T, NEW s \in Seq(T), NEW S
  PROVE  /\ I!Kept(s, S) \in Seq(T) /\ Len(I!Kept(s, S)) \in Nat
         /\ \A m \in 1 .. Len(I!Kept(s, S)) : \E k \in 1 .. Len(s) : I!Kept(s, S)[m] = s[k]
<1>0. Alike(s, s, S, S)
  BY DEF Alike
<1>1. I!Kept(s, S) \in Seq(T \cap S)
  BY <1>0, KeptPairs
<1>2. \A m \in 1 .. Len(I!Kept(s, S)) : \E k \in 1 .. Len(s) : I!Kept(s, S)[m] = s[k]
  <2>1. InStep(I!Kept(s, S), I!Kept(s, S), s, s)
    BY <1>0, KeptPairs
  <2>. QED BY <2>1 DEF InStep
<1>3. I!Kept(s, S) \in Seq(T)
  BY <1>1
<1>. QED BY <1>2, <1>3, LenProperties

\* The rows that say something, as the property counts them.
Said(doc) == I!Kept(doc.rows, {row \in Y!Range(doc.rows) : \E i \in DOMAIN row.cells : row.cells[i] # I!Blank})

LEMMA SaidIs ==
  ASSUME NEW doc \in I!Table
  PROVE  /\ Said(doc) = I!Kept(doc.rows, {row \in I!Range(doc.rows) : ~I!Filler(doc.header, row)})
         /\ Said(doc) \in Seq(TableRows) /\ Len(Said(doc)) \in Nat
         /\ \A m \in 1 .. Len(Said(doc)) : \E k \in 1 .. Len(doc.rows) : Said(doc)[m] = doc.rows[k]
<1> DEFINE S == {row \in Y!Range(doc.rows) : \E i \in DOMAIN row.cells : row.cells[i] # I!Blank}
<1>1. S = {row \in I!Range(doc.rows) : ~I!Filler(doc.header, row)}
  BY DEF I!Filler, I!Range, Y!Range
<1>2. doc.rows \in Seq(TableRows)
  BY TableParts
<1>3. Said(doc) = I!Kept(doc.rows, S)
  BY DEF Said
<1> HIDE DEF S
<1> DEFINE rows == doc.rows
<1> HIDE DEF rows
<1>4. /\ I!Kept(rows, S) \in Seq(TableRows) /\ Len(I!Kept(rows, S)) \in Nat
      /\ \A m \in 1 .. Len(I!Kept(rows, S)) : \E k \in 1 .. Len(rows) : I!Kept(rows, S)[m] = rows[k]
  <2>1. rows \in Seq(TableRows)
    BY <1>2 DEF rows
  <2>. QED BY <2>1, KeptFrom
<1>. QED BY <1>1, <1>3, <1>4 DEF S, rows

\* The items that are made of them.
ItemsOf(doc) == [i \in DOMAIN Said(doc) |-> I!buildItem(doc.header, Said(doc)[i])]

\* What reading a table comes to.
LEMMA ParseIs ==
  ASSUME NEW doc \in I!Table, doc.header # <<>>
  PROVE  LET r == I!ParseCSV(doc)
             k == I!FirstBad(doc.header, doc.rows)
         IN  \/ /\ ~I!parseHeader(doc.header)
                /\ r = [ok |-> FALSE, why |-> "bad_csv", row |-> 1]
             \/ /\ I!parseHeader(doc.header) /\ k # 0
                /\ r = [ok |-> FALSE, why |-> "bad_csv", row |-> doc.rows[k].line]
             \/ /\ I!parseHeader(doc.header) /\ k = 0
                /\ r = [ok |-> TRUE, items |-> ItemsOf(doc)]
<1> DEFINE full == I!Kept(doc.rows, {row \in I!Range(doc.rows) : ~I!Filler(doc.header, row)})
           made == [i \in DOMAIN full |-> I!buildItem(doc.header, full[i])]
           k == I!FirstBad(doc.header, doc.rows)
<1>1. I!ParseCSV(doc) = IF ~I!parseHeader(doc.header) THEN [ok |-> FALSE, why |-> "bad_csv", row |-> 1]
                        ELSE IF k # 0 THEN [ok |-> FALSE, why |-> "bad_csv", row |-> doc.rows[k].line]
                        ELSE [ok |-> TRUE, items |-> made]
  BY DEF I!ParseCSV, I!Fault
<1>2. made = ItemsOf(doc)
  <2>1. Said(doc) = full
    BY SaidIs
  <2>. QED BY <2>1 DEF ItemsOf
<1> HIDE DEF made, k
<1>. QED BY <1>1, <1>2 DEF k

\* The rows up to a place are read when none of them is bad.
LEMMA UpToIs ==
  ASSUME NEW doc \in I!Table, doc.header # <<>>, I!parseHeader(doc.header), NEW k \in 0 .. Len(doc.rows)
  PROVE  LET upto == [doc EXCEPT !.rows = SubSeq(doc.rows, 1, k)]
         IN  I!ParseCSV(upto).ok <=> \A i \in 1 .. k : ~I!BadRow(doc.header, doc.rows[i])
<1> DEFINE upto == [doc EXCEPT !.rows = SubSeq(doc.rows, 1, k)]
           rows == SubSeq(doc.rows, 1, k)
<1>1. doc.header \in Seq(HeaderCells) /\ doc.rows \in Seq(TableRows) /\ Len(doc.rows) \in Nat
  BY TableParts
<1>2. rows \in Seq(TableRows) /\ Len(rows) = k /\ \A i \in 1 .. k : rows[i] = doc.rows[i]
  <2>1. CASE k = 0
    BY <1>1, <2>1, SubSeqProperties
  <2>2. CASE k # 0
    <3>1. k \in 1 .. Len(doc.rows) /\ 1 \in 1 .. Len(doc.rows)
      BY <1>1, <2>2
    <3>2. rows \in Seq(TableRows)
      BY <1>1, <3>1, SubSeqProperties
    <3>3. Len(rows) = k /\ \A i \in 1 .. k : rows[i] = doc.rows[i]
      BY <1>1, <3>1, SubSeqProperties
    <3>. QED BY <3>2, <3>3
  <2>. QED BY <2>1, <2>2
<1>3. doc = [header |-> doc.header, rows |-> doc.rows]
  BY TableParts
<1> HIDE DEF rows
<1>4. upto = [header |-> doc.header, rows |-> rows] /\ upto.header = doc.header /\ upto.rows = rows
  <2>1. PICK h, r : doc = [header |-> h, rows |-> r]
    BY <1>3
  <2>3. \A x : [[header |-> h, rows |-> r] EXCEPT !.rows = x] = [header |-> h, rows |-> x]
    OBVIOUS
  <2>4. doc.header = h
    BY <2>1
  <2>5. \A x : [doc EXCEPT !.rows = x] = [header |-> h, rows |-> x]
    BY <2>1, <2>3, Zenon
  <2>2. upto = [header |-> doc.header, rows |-> rows]
    BY <2>4, <2>5 DEF rows
  <2>. QED BY <2>2
<1>5. upto \in I!Table
  BY <1>1, <1>2, <1>4 DEF I!Table, HeaderCells, TableRows
<1> HIDE DEF upto
<1>6. I!ParseCSV(upto).ok <=> I!FirstBad(doc.header, rows) = 0
  <2>1. upto.header # <<>>
    BY <1>4
  <2>. QED BY <1>4, <1>5, <2>1, ParseIs
<1> DEFINE first == I!FirstBad(doc.header, rows)
<1>7. \/ first = 0 /\ \A i \in 1 .. k : ~I!BadRow(doc.header, rows[i])
      \/ first \in 1 .. k /\ I!BadRow(doc.header, rows[first])
  BY <1>2, FirstBadIs
<1>8. first = 0 <=> \A i \in 1 .. k : ~I!BadRow(doc.header, rows[i])
  <2> HIDE DEF first
  <2>1. k \in Nat
    BY <1>1
  <2>. QED BY <1>7, <2>1
<1>. QED BY <1>2, <1>6, <1>8 DEF upto

\* What a row's cells come to in its item: RowsKept says it of every item.
Whole(header, item, row) ==
  /\ Y!Range(item) = {row.cells[i] : i \in {j \in DOMAIN row.cells :
                        row.cells[j] # I!Blank /\ header[j].name # I!Blank}}
  /\ \A n \in DOMAIN item : \E i \in DOMAIN row.cells : header[i].name = n /\ row.cells[i] = item[n]

LEMMA ReadTable ==
  ASSUME NEW doc \in I!Table, doc.header # <<>>, I!ParseCSV(doc).ok
  PROVE  LET items == I!ParseCSV(doc).items
         IN  /\ DOMAIN items = 1 .. Len(Said(doc)) /\ Len(items) = Len(Said(doc))
             /\ DOMAIN Said(doc) = 1 .. Len(Said(doc))
             /\ \A i \in DOMAIN Said(doc) : Whole(doc.header, items[i], Said(doc)[i])
             /\ items = <<>> => Said(doc) = <<>>
<1> DEFINE said == Said(doc)
           items == I!ParseCSV(doc).items
<1>1. /\ I!parseHeader(doc.header) /\ I!FirstBad(doc.header, doc.rows) = 0
      /\ items = [i \in DOMAIN said |-> I!buildItem(doc.header, said[i])]
  BY ParseIs DEF ItemsOf
<1>2. /\ doc.header \in Seq(HeaderCells) /\ doc.rows \in Seq(TableRows)
      /\ Len(doc.rows) \in Nat /\ DOMAIN doc.header = 1 .. Len(doc.header)
  BY TableParts
<1>3. /\ said \in Seq(TableRows) /\ Len(said) \in Nat /\ DOMAIN said = 1 .. Len(said)
      /\ \A m \in 1 .. Len(said) : \E k \in 1 .. Len(doc.rows) : said[m] = doc.rows[k]
  BY SaidIs, LenProperties
<1> HIDE DEF said, items
<1>4. DOMAIN items = 1 .. Len(said) /\ Len(items) = Len(said)
  <2>1. items = [i \in 1 .. Len(said) |-> I!buildItem(doc.header, said[i])]
    BY <1>1, <1>3
  <2>. QED BY <1>3, <2>1
<1>5. ASSUME NEW i \in DOMAIN said PROVE Whole(doc.header, items[i], said[i])
  <2> DEFINE row == said[i]
             item == items[i]
  <2>1. PICK k \in 1 .. Len(doc.rows) : row = doc.rows[k]
    BY <1>3
  <2>2. ~I!BadRow(doc.header, doc.rows[k])
    BY <1>1, <1>2, <2>1, FirstBadIs
  <2>3. row \in TableRows /\ Len(row.cells) = Len(doc.header)
    <3>1. doc.rows[k] \in TableRows
      BY <1>2, ElementOfSeq
    <3>. QED BY <2>1, <2>2, <3>1 DEF I!BadRow, I!Ragged
  <2>4. item = I!buildItem(doc.header, row)
    BY <1>1, <1>5
  <2> HIDE DEF row, item
  <2>5. /\ \A n \in DOMAIN item : \E j \in DOMAIN row.cells :
             /\ doc.header[j].name = n /\ row.cells[j] = item[n]
             /\ row.cells[j] # I!Blank /\ doc.header[j].name # I!Blank
        /\ \A j \in DOMAIN row.cells : row.cells[j] # I!Blank /\ doc.header[j].name # I!Blank =>
             doc.header[j].name \in DOMAIN item /\ item[doc.header[j].name] = row.cells[j]
    BY <1>1, <1>2, <2>3, <2>4, ItemIsRow
  <2>6. Y!Range(item) = {row.cells[j] : j \in {l \in DOMAIN row.cells :
                            row.cells[l] # I!Blank /\ doc.header[l].name # I!Blank}}
    BY <2>5 DEF Y!Range
  <2>. QED BY <2>5, <2>6 DEF Whole, row, item
<1>6. ASSUME items = <<>> PROVE said = <<>>
  <2>1. Len(said) = 0
    BY <1>4, <1>6
  <2>. QED BY <1>3, <2>1, EmptySeq
<1>. QED BY <1>3, <1>4, <1>5, <1>6 DEF said, items

\* What a request that is only a table is answered.
LEMMA RunIs ==
  ASSUME NEW req, req.csv # I!NoDoc, req.items = <<>>, req.output = "zip"
  PROVE  LET read == I!ParseCSV(req.csv)
             r    == I!Run(req, MaxItems)
         IN  \/ ~read.ok /\ r = read
             \/ read.ok /\ read.items = <<>> /\ r = [ok |-> FALSE, why |-> "empty", row |-> 0]
             \/ /\ read.ok /\ Len(read.items) > MaxItems
                /\ r = [ok |-> FALSE, why |-> "too_many", row |-> 0]
             \/ read.ok /\ r = read
<1> DEFINE read == I!ParseCSV(req.csv)
           taken == I!resolveItems(req)
<1>1. taken = IF read.ok /\ read.items = <<>> THEN [ok |-> FALSE, why |-> "empty", row |-> 0] ELSE read
  BY DEF I!resolveItems, I!Fault
<1>2. I!outputFormat(req.output) = "zip"
  BY DEF I!outputFormat
<1> HIDE DEF taken
<1>3. I!Run(req, MaxItems) =
        IF taken.ok /\ MaxItems > 0 /\ Len(taken.items) > MaxItems
        THEN [ok |-> FALSE, why |-> "too_many", row |-> 0] ELSE taken
  BY <1>2 DEF I!Run, I!Fault, taken
<1> HIDE DEF read
<1>4. CASE read.ok /\ read.items = <<>>
  BY <1>1, <1>3, <1>4 DEF read
<1>5. CASE ~(read.ok /\ read.items = <<>>)
  <2>1. taken = read
    BY <1>1, <1>5
  <2>. QED BY <1>3, <2>1 DEF read
<1>. QED BY <1>4, <1>5

\* A request that is only a table has a header.
LEMMA TableOf ==
  ASSUME NEW req \in Batches, req.csv # I!NoDoc
  PROVE  req.csv \in I!Table /\ req.csv.header # <<>>
<1>1. req.csv \in I!Table /\ (req.csv.header = <<>> => req.csv.rows = <<>>)
  BY BatchesAssumption
<1>2. req.csv = [header |-> req.csv.header, rows |-> req.csv.rows]
  BY <1>1, TableParts
<1>. QED BY <1>1, <1>2 DEF I!NoDoc

\* In every state a batch in hand is answered as Run answers it.
Taking == call.op = "take" => call.req \in Batches /\ call.r = I!Run(call.req, MaxItems)

LEMMA RowsAreKept == Taking => RowsKept
<1> SUFFICES ASSUME Taking, Sheeted PROVE RowsKept
  BY DEF RowsKept
<1> DEFINE doc == call.req.csv
           read == I!ParseCSV(doc)
           said == Said(doc)
           UpTo(k) == [doc EXCEPT !.rows = SubSeq(doc.rows, 1, k)]
<1>1. /\ call.req \in Batches /\ call.r = I!Run(call.req, MaxItems)
      /\ doc # I!NoDoc /\ call.req.items = <<>> /\ call.req.output = "zip"
  BY DEF Taking, Sheeted
<1>2. doc \in I!Table /\ doc.header # <<>>
  BY <1>1, TableOf
<1>3. \/ ~read.ok /\ call.r = read
      \/ read.ok /\ read.items = <<>> /\ call.r = [ok |-> FALSE, why |-> "empty", row |-> 0]
      \/ /\ read.ok /\ Len(read.items) > MaxItems
         /\ call.r = [ok |-> FALSE, why |-> "too_many", row |-> 0]
      \/ read.ok /\ call.r = read
  BY <1>1, RunIs
<1>4. read.ok => /\ Len(read.items) = Len(said) /\ (read.items = <<>> => said = <<>>)
                 /\ \A i \in DOMAIN said : Whole(doc.header, read.items[i], said[i])
  BY <1>2, ReadTable
<1>5. ASSUME ~read.ok
      PROVE  /\ read.ok = FALSE /\ read.why = "bad_csv"
             /\ \/ read.row = 1 /\ ~I!ParseCSV(UpTo(0)).ok
                \/ \E k \in DOMAIN doc.rows : /\ doc.rows[k].line = read.row
                                              /\ I!ParseCSV(UpTo(k - 1)).ok /\ ~I!ParseCSV(UpTo(k)).ok
  <2>1. CASE ~I!parseHeader(doc.header)
    <3>1. read = [ok |-> FALSE, why |-> "bad_csv", row |-> 1]
      BY <1>2, <2>1, ParseIs
    <3>2. UpTo(0).header = doc.header
      <4>1. doc = [header |-> doc.header, rows |-> doc.rows]
        BY <1>2, TableParts
      <4>. QED BY <4>1
    <3>3. ~I!ParseCSV(UpTo(0)).ok
      <4> DEFINE none == UpTo(0)
      <4>1. none.header = doc.header
        BY <3>2
      <4> HIDE DEF none
      <4>2. ~I!ParseCSV(none).ok
        BY <1>2, <2>1, <4>1 DEF I!ParseCSV, I!Fault
      <4>. QED BY <4>2 DEF none
    <3>. QED BY <3>1, <3>3
  <2>2. CASE I!parseHeader(doc.header)
    <3> DEFINE k == I!FirstBad(doc.header, doc.rows)
    <3>1. k # 0 /\ read = [ok |-> FALSE, why |-> "bad_csv", row |-> doc.rows[k].line]
      <4>1. \/ k # 0 /\ read = [ok |-> FALSE, why |-> "bad_csv", row |-> doc.rows[k].line]
            \/ read = [ok |-> TRUE, items |-> ItemsOf(doc)]
        <5> HIDE DEF doc
        <5>. QED BY <1>2, <2>2, ParseIs DEF k, read
      <4> HIDE DEF doc, read, k
      <4>. QED BY <1>5, <4>1
    <3>2. doc.rows \in Seq(TableRows) /\ Len(doc.rows) \in Nat /\ DOMAIN doc.rows = 1 .. Len(doc.rows)
      BY <1>2, TableParts
    <3>3. /\ k \in 1 .. Len(doc.rows) /\ I!BadRow(doc.header, doc.rows[k])
          /\ \A i \in 1 .. k - 1 : ~I!BadRow(doc.header, doc.rows[i])
      BY <3>1, <3>2, FirstBadIs
    <3> HIDE DEF k
    <3>4. k \in 0 .. Len(doc.rows) /\ k - 1 \in 0 .. Len(doc.rows) /\ k \in 1 .. k
      BY <3>2, <3>3
    <3>5. I!ParseCSV(UpTo(k - 1)).ok /\ ~I!ParseCSV(UpTo(k)).ok
      <4>1. \A j \in 0 .. Len(doc.rows) :
              I!ParseCSV(UpTo(j)).ok <=> \A i \in 1 .. j : ~I!BadRow(doc.header, doc.rows[i])
        BY <1>2, <2>2, UpToIs
      <4> HIDE DEF UpTo
      <4>. QED BY <3>3, <3>4, <4>1
    <3> HIDE DEF UpTo
    <3>. QED BY <3>1, <3>2, <3>3, <3>5
  <2>. QED BY <2>1, <2>2
<1> DEFINE Right ==
      CASE call.r.ok -> /\ Len(call.r.items) = Len(said)
                        /\ \A i \in DOMAIN said : Whole(doc.header, call.r.items[i], said[i])
        [] ~call.r.ok /\ call.r.why = "too_many" -> Len(said) > MaxItems
        [] ~call.r.ok /\ call.r.why = "empty" -> said = <<>>
        [] OTHER -> \/ call.r.row = 1 /\ ~I!ParseCSV(UpTo(0)).ok
                    \/ \E k \in DOMAIN doc.rows : /\ doc.rows[k].line = call.r.row
                                                  /\ I!ParseCSV(UpTo(k - 1)).ok /\ ~I!ParseCSV(UpTo(k)).ok
<1>6. Right
  <2> HIDE DEF doc, read, said, UpTo
  <2>1. CASE ~read.ok
    BY <1>3, <1>5, <2>1
  <2>2. CASE read.ok /\ call.r = read
    BY <1>4, <2>2
  <2>3. CASE read.ok /\ call.r = [ok |-> FALSE, why |-> "empty", row |-> 0] /\ read.items = <<>>
    BY <1>4, <2>3
  <2>4. CASE /\ read.ok /\ Len(read.items) > MaxItems
             /\ call.r = [ok |-> FALSE, why |-> "too_many", row |-> 0]
    BY <1>4, <2>4
  <2>. QED BY <1>3, <2>1, <2>2, <2>3, <2>4
<1>7. Right => RowsKept
  BY DEF RowsKept, Said, Whole
<1>. QED BY <1>6, <1>7

\* The columns of a table in another order: p says where each one was.  Only orders that
\* are undone by doing them again are needed.
Reordered(p, s, t) ==
  /\ p \in [1 .. Len(s) -> 1 .. Len(s)] /\ Len(t) = Len(s)
  /\ \A x \in 1 .. Len(s) : p[p[x]] = x /\ t[x] = s[p[x]]

LEMMA ReorderedBack ==
  ASSUME NEW p, NEW s, NEW t, Reordered(p, s, t)
  PROVE  Reordered(p, t, s)
BY DEF Reordered

\* Two elements swapped.
Exchange(s, i, j) == [s EXCEPT ![i] = s[j], ![j] = s[i]]

LEMMA ExchangeReorders ==
  ASSUME NEW T, NEW s \in Seq(T), NEW i \in 1 .. Len(s), NEW j \in 1 .. Len(s)
  PROVE  LET p == [x \in 1 .. Len(s) |-> IF x = i THEN j ELSE IF x = j THEN i ELSE x]
         IN  Exchange(s, i, j) \in Seq(T) /\ Reordered(p, s, Exchange(s, i, j))
<1> DEFINE p == [x \in 1 .. Len(s) |-> IF x = i THEN j ELSE IF x = j THEN i ELSE x]
           t == Exchange(s, i, j)
<1>1. s \in [1 .. Len(s) -> T] /\ Len(s) \in Nat /\ s[i] \in T /\ s[j] \in T
  BY LenProperties, ElementOfSeq
<1>2. t \in [1 .. Len(s) -> T] /\ \A x \in 1 .. Len(s) : t[x] = s[p[x]]
  BY <1>1 DEF Exchange
<1> HIDE DEF t
<1>3. t \in Seq(T) /\ Len(t) = Len(s)
  BY <1>1, <1>2, IsASeq, LenProperties
<1>4. p \in [1 .. Len(s) -> 1 .. Len(s)] /\ \A x \in 1 .. Len(s) : p[p[x]] = x
  BY <1>1
<1> HIDE DEF p
<1>. QED BY <1>2, <1>3, <1>4 DEF Reordered, p, t

\* A header is accepted in every order of its columns.
LEMMA HeaderReordered ==
  ASSUME NEW header \in Seq(HeaderCells), NEW other \in Seq(HeaderCells), NEW p,
         Reordered(p, header, other), I!parseHeader(header)
  PROVE  I!parseHeader(other)
<1>1. /\ Len(header) \in Nat /\ DOMAIN header = 1 .. Len(header) /\ DOMAIN other = 1 .. Len(header)
      /\ p \in [1 .. Len(header) -> 1 .. Len(header)]
      /\ \A x \in 1 .. Len(header) : p[p[x]] = x /\ other[x] = header[p[x]]
  BY LenProperties DEF Reordered
<1>2. \A i \in DOMAIN other : other[i].name \in I!Known \cup {I!Blank}
  BY <1>1 DEF I!parseHeader
<1>3. ~I!Repeated(other)
  <2>1. SUFFICES ASSUME NEW i \in DOMAIN other, NEW j \in DOMAIN other, i # j,
                        other[i].name = other[j].name, other[i].name # I!Blank
                 PROVE  FALSE
    BY DEF I!Repeated
  <2>2. p[i] \in DOMAIN header /\ p[j] \in DOMAIN header /\ p[i] # p[j]
    BY <1>1, <2>1
  <2>. QED BY <1>1, <2>1, <2>2 DEF I!parseHeader, I!Repeated
<1>4. \A kind : I!Named(header, kind) # {} => I!Named(other, kind) # {}
  <2>1. SUFFICES ASSUME NEW kind, NEW i \in I!Named(header, kind) PROVE p[i] \in I!Named(other, kind)
    OBVIOUS
  <2>. QED BY <1>1 DEF I!Named
<1>. QED BY <1>2, <1>3, <1>4 DEF I!parseHeader

\* A row in another order is a filler when it was one, and its item is the same.
LEMMA RowReordered ==
  ASSUME NEW header \in Seq(HeaderCells), NEW other \in Seq(HeaderCells),
         NEW row \in TableRows, NEW that \in TableRows, NEW p,
         Reordered(p, header, other), Reordered(p, row.cells, that.cells),
         Len(row.cells) = Len(header), I!parseHeader(header), I!parseHeader(other)
  PROVE  /\ I!Filler(header, row) => I!Filler(other, that)
         /\ DOMAIN I!buildItem(header, row) \subseteq DOMAIN I!buildItem(other, that)
         /\ \A n \in DOMAIN I!buildItem(header, row) :
              I!buildItem(other, that)[n] = I!buildItem(header, row)[n]
<1>1. /\ Len(header) \in Nat /\ DOMAIN row.cells = 1 .. Len(header) /\ DOMAIN that.cells = 1 .. Len(header)
      /\ p \in [1 .. Len(header) -> 1 .. Len(header)] /\ Len(that.cells) = Len(other)
      /\ \A x \in 1 .. Len(header) :
           p[p[x]] = x /\ other[x] = header[p[x]] /\ that.cells[x] = row.cells[p[x]]
  BY LenProperties, RowParts DEF Reordered
<1>2. I!Filler(header, row) => I!Filler(other, that)
  BY <1>1 DEF I!Filler
<1>3. ASSUME NEW n \in DOMAIN I!buildItem(header, row)
      PROVE  /\ n \in DOMAIN I!buildItem(other, that)
             /\ I!buildItem(other, that)[n] = I!buildItem(header, row)[n]
  <2> DEFINE item == I!buildItem(header, row)
             its  == I!buildItem(other, that)
  <2>1. \A m \in DOMAIN item : \E i \in DOMAIN row.cells :
           /\ header[i].name = m /\ row.cells[i] = item[m]
           /\ row.cells[i] # I!Blank /\ header[i].name # I!Blank
    BY ItemIsRow
  <2>2. \A i \in DOMAIN that.cells : that.cells[i] # I!Blank /\ other[i].name # I!Blank =>
           other[i].name \in DOMAIN its /\ its[other[i].name] = that.cells[i]
    BY <1>1, ItemIsRow
  <2> HIDE DEF item, its
  <2>3. PICK i \in DOMAIN row.cells :
           /\ header[i].name = n /\ row.cells[i] = item[n]
           /\ row.cells[i] # I!Blank /\ header[i].name # I!Blank
    BY <1>3, <2>1 DEF item
  <2>4. p[i] \in DOMAIN that.cells /\ other[p[i]] = header[i] /\ that.cells[p[i]] = row.cells[i]
    BY <1>1
  <2>5. n \in DOMAIN its /\ its[n] = item[n]
    BY <2>2, <2>3, <2>4
  <2>. QED BY <2>5 DEF item, its
<1>. QED BY <1>2, <1>3

LEMMA RowsAlike ==
  ASSUME NEW header \in Seq(HeaderCells), NEW other \in Seq(HeaderCells),
         NEW row \in TableRows, NEW that \in TableRows, NEW p,
         Reordered(p, header, other), Reordered(p, row.cells, that.cells),
         Len(row.cells) = Len(header), that.torn = row.torn,
         I!parseHeader(header), I!parseHeader(other)
  PROVE  /\ I!Filler(header, row) <=> I!Filler(other, that)
         /\ I!buildItem(header, row) = I!buildItem(other, that)
         /\ I!BadRow(header, row) <=> I!BadRow(other, that)
<1>1. Reordered(p, other, header) /\ Reordered(p, that.cells, row.cells) /\ Len(that.cells) = Len(other)
  <2>1. Len(that.cells) = Len(other)
    BY DEF Reordered
  <2>. QED BY <2>1, ReorderedBack
<1> DEFINE item == I!buildItem(header, row)
           its  == I!buildItem(other, that)
<1>2. /\ I!Filler(header, row) => I!Filler(other, that)
      /\ DOMAIN item \subseteq DOMAIN its /\ \A n \in DOMAIN item : its[n] = item[n]
  BY RowReordered
<1>3. /\ I!Filler(other, that) => I!Filler(header, row)
      /\ DOMAIN its \subseteq DOMAIN item /\ \A n \in DOMAIN its : item[n] = its[n]
  BY <1>1, RowReordered
<1>4. item = [n \in DOMAIN item |-> item[n]] /\ its = [n \in DOMAIN its |-> its[n]]
  BY DEF I!buildItem
<1> HIDE DEF item, its
<1>5. item = its
  <2>1. DOMAIN item = DOMAIN its
    BY <1>2, <1>3
  <2>2. \A n \in DOMAIN item : item[n] = its[n]
    BY <1>2
  <2>. QED BY <1>4, <2>1, <2>2
<1>6. I!Unsaid(header, row) <=> I!Unsaid(other, that)
  BY <1>5 DEF I!Unsaid, item, its
<1>7. I!Ragged(header, row) <=> I!Ragged(other, that)
  BY <1>1 DEF I!Ragged
<1>. QED BY <1>2, <1>3, <1>5, <1>6, <1>7 DEF I!BadRow, item, its

\* Two tables, the columns of one in another order, that of no ragged row.
SameTable(p, doc, other) ==
  /\ Reordered(p, doc.header, other.header) /\ Len(other.rows) = Len(doc.rows)
  /\ \A k \in 1 .. Len(doc.rows) :
       /\ other.rows[k].line = doc.rows[k].line /\ other.rows[k].torn = doc.rows[k].torn
       /\ Reordered(p, doc.rows[k].cells, other.rows[k].cells)
       /\ Len(doc.rows[k].cells) = Len(doc.header)

\* They are read alike, to the row at fault.
LEMMA SameReading ==
  ASSUME NEW doc \in I!Table, NEW other \in I!Table, NEW p, SameTable(p, doc, other),
         doc.header # <<>>, other.header # <<>>
  PROVE  I!ParseCSV(other) = I!ParseCSV(doc)
<1>1. /\ doc.header \in Seq(HeaderCells) /\ other.header \in Seq(HeaderCells)
      /\ doc.rows \in Seq(TableRows) /\ other.rows \in Seq(TableRows)
      /\ Len(doc.rows) \in Nat /\ Len(other.rows) = Len(doc.rows)
      /\ Reordered(p, doc.header, other.header)
  BY TableParts DEF SameTable
<1>2. I!parseHeader(doc.header) <=> I!parseHeader(other.header)
  <2>1. Reordered(p, other.header, doc.header)
    BY <1>1, ReorderedBack
  <2>. QED BY <1>1, <2>1, HeaderReordered
<1>3. CASE ~I!parseHeader(doc.header)
  <2>1. I!ParseCSV(doc) = [ok |-> FALSE, why |-> "bad_csv", row |-> 1]
    BY <1>3, ParseIs
  <2>2. I!ParseCSV(other) = [ok |-> FALSE, why |-> "bad_csv", row |-> 1]
    BY <1>2, <1>3, ParseIs
  <2>. QED BY <2>1, <2>2
<1>4. CASE I!parseHeader(doc.header)
  <2>1. ASSUME NEW k \in 1 .. Len(doc.rows)
        PROVE  /\ I!Filler(doc.header, doc.rows[k]) <=> I!Filler(other.header, other.rows[k])
               /\ I!buildItem(doc.header, doc.rows[k]) = I!buildItem(other.header, other.rows[k])
               /\ I!BadRow(doc.header, doc.rows[k]) <=> I!BadRow(other.header, other.rows[k])
    <3>1. doc.rows[k] \in TableRows /\ other.rows[k] \in TableRows
      BY <1>1, ElementOfSeq
    <3>2. /\ Reordered(p, doc.rows[k].cells, other.rows[k].cells)
          /\ Len(doc.rows[k].cells) = Len(doc.header) /\ other.rows[k].torn = doc.rows[k].torn
      BY DEF SameTable
    <3>. QED BY <1>1, <1>2, <1>4, <3>1, <3>2, RowsAlike
  <2> DEFINE a == I!FirstBad(doc.header, doc.rows)
             b == I!FirstBad(other.header, other.rows)
  <2>2. a = b
    <3>1. \/ a = 0 /\ \A i \in 1 .. Len(doc.rows) : ~I!BadRow(doc.header, doc.rows[i])
          \/ /\ a \in 1 .. Len(doc.rows) /\ I!BadRow(doc.header, doc.rows[a])
             /\ \A i \in 1 .. a - 1 : ~I!BadRow(doc.header, doc.rows[i])
      BY <1>1, FirstBadIs
    <3>2. \/ b = 0 /\ \A i \in 1 .. Len(doc.rows) : ~I!BadRow(other.header, other.rows[i])
          \/ /\ b \in 1 .. Len(doc.rows) /\ I!BadRow(other.header, other.rows[b])
             /\ \A i \in 1 .. b - 1 : ~I!BadRow(other.header, other.rows[i])
      BY <1>1, FirstBadIs
    <3> HIDE DEF a, b
    <3>. QED BY <1>1, <2>1, <3>1, <3>2
  <2>3. CASE a # 0
    <3>1. a \in 1 .. Len(doc.rows)
      BY <1>1, <2>3, FirstBadIs
    <3>2. other.rows[a].line = doc.rows[a].line
      BY <3>1 DEF SameTable
    <3>3. I!ParseCSV(doc) = [ok |-> FALSE, why |-> "bad_csv", row |-> doc.rows[a].line]
      BY <1>4, <2>3, ParseIs
    <3>4. I!ParseCSV(other) = [ok |-> FALSE, why |-> "bad_csv", row |-> other.rows[b].line]
      <4>1. b # 0
        BY <2>2, <2>3
      <4>. QED BY <1>2, <1>4, <4>1, ParseIs
    <3> HIDE DEF a, b
    <3>. QED BY <2>2, <3>2, <3>3, <3>4
  <2>4. CASE a = 0
    <3>1. I!ParseCSV(doc) = [ok |-> TRUE, items |-> ItemsOf(doc)]
      BY <1>4, <2>4, ParseIs
    <3>2. I!ParseCSV(other) = [ok |-> TRUE, items |-> ItemsOf(other)]
      <4>1. b = 0
        BY <2>2, <2>4
      <4>. QED BY <1>2, <1>4, <4>1, ParseIs
    <3> DEFINE S == {row \in I!Range(doc.rows) : ~I!Filler(doc.header, row)}
               R == {row \in I!Range(other.rows) : ~I!Filler(other.header, row)}
    <3>3. Alike(doc.rows, other.rows, S, R)
      <4>1. /\ DOMAIN doc.rows = 1 .. Len(doc.rows) /\ DOMAIN other.rows = 1 .. Len(doc.rows)
        BY <1>1, TableParts
      <4>2. \A k \in 1 .. Len(doc.rows) : doc.rows[k] \in I!Range(doc.rows) /\ other.rows[k] \in I!Range(other.rows)
        BY <4>1 DEF I!Range
      <4>. QED BY <1>1, <2>1, <4>2 DEF Alike
    <3>4. Said(doc) = I!Kept(doc.rows, S) /\ Said(other) = I!Kept(other.rows, R)
      BY SaidIs
    <3> HIDE DEF S, R
    <3>5. InStep(Said(doc), Said(other), doc.rows, other.rows)
      <4> DEFINE q == doc.rows
                 r == other.rows
      <4>1. q \in Seq(TableRows) /\ r \in Seq(TableRows) /\ Alike(q, r, S, R)
        BY <1>1, <3>3
      <4> HIDE DEF q, r
      <4>2. InStep(I!Kept(q, S), I!Kept(r, R), q, r)
        BY <4>1, KeptPairs
      <4>. QED BY <3>4, <4>2 DEF q, r
    <3>6. /\ DOMAIN Said(doc) = 1 .. Len(Said(doc)) /\ DOMAIN Said(other) = 1 .. Len(Said(doc))
      <4>1. Said(doc) \in Seq(TableRows) /\ Said(other) \in Seq(TableRows)
        BY SaidIs
      <4>. QED BY <3>5, <4>1, LenProperties DEF InStep
    <3>7. ASSUME NEW m \in DOMAIN Said(doc)
          PROVE  I!buildItem(doc.header, Said(doc)[m]) = I!buildItem(other.header, Said(other)[m])
      <4>1. PICK k \in 1 .. Len(doc.rows) : Said(doc)[m] = doc.rows[k] /\ Said(other)[m] = other.rows[k]
        BY <3>5, <3>6 DEF InStep
      <4>. QED BY <2>1, <4>1
    <3>8. ItemsOf(doc) = ItemsOf(other)
      <4>1. DOMAIN Said(doc) = DOMAIN Said(other)
        BY <3>6
      <4>. QED BY <3>7, <4>1 DEF ItemsOf
    <3>. QED BY <3>1, <3>2, <3>8
  <2>. QED BY <2>3, <2>4
<1>. QED BY <1>3, <1>4

\* The table of the property, two of its columns swapped.
Swapped(doc, i, j) ==
  [header |-> Exchange(doc.header, i, j),
   rows |-> [k \in DOMAIN doc.rows |-> [doc.rows[k] EXCEPT !.cells = Exchange(@, i, j)]]]

LEMMA SwappedIsSame ==
  ASSUME NEW doc \in I!Table, doc.header # <<>>, NEW i \in DOMAIN doc.header, NEW j \in DOMAIN doc.header,
         \A k \in DOMAIN doc.rows : ~I!Ragged(doc.header, doc.rows[k])
  PROVE  /\ Swapped(doc, i, j) \in I!Table /\ Swapped(doc, i, j).header # <<>>
         /\ \E p : SameTable(p, doc, Swapped(doc, i, j))
<1> DEFINE n == Len(doc.header)
           p == [x \in 1 .. n |-> IF x = i THEN j ELSE IF x = j THEN i ELSE x]
           header == Exchange(doc.header, i, j)
           Moved(row) == [row EXCEPT !.cells = Exchange(@, i, j)]
           rows == [k \in DOMAIN doc.rows |-> Moved(doc.rows[k])]
           other == Swapped(doc, i, j)
<1>1. /\ doc.header \in Seq(HeaderCells) /\ doc.rows \in Seq(TableRows) /\ n \in Nat
      /\ DOMAIN doc.header = 1 .. n /\ Len(doc.rows) \in Nat /\ DOMAIN doc.rows = 1 .. Len(doc.rows)
  BY TableParts
<1>2. i \in 1 .. n /\ j \in 1 .. n
  BY <1>1
<1>3. header \in Seq(HeaderCells) /\ Reordered(p, doc.header, header)
  <2> HIDE DEF header
  <2>. QED BY <1>1, <1>2, ExchangeReorders DEF header
<1>4. ASSUME NEW k \in 1 .. Len(doc.rows)
      PROVE  /\ Moved(doc.rows[k]) \in TableRows /\ Moved(doc.rows[k]).line = doc.rows[k].line
             /\ Reordered(p, doc.rows[k].cells, Moved(doc.rows[k]).cells)
             /\ Len(doc.rows[k].cells) = n /\ Moved(doc.rows[k]).torn = doc.rows[k].torn
  <2> DEFINE row == doc.rows[k]
             cells == Exchange(row.cells, i, j)
  <2>1. row \in TableRows /\ row.cells \in Seq(STRING)
    BY <1>1, ElementOfSeq, RowParts
  <2>2. Len(row.cells) = n
    BY <1>1 DEF I!Ragged
  <2>3. cells \in Seq(STRING) /\ Reordered(p, row.cells, cells)
    <3> HIDE DEF row, cells
    <3>. QED BY <1>2, <2>1, <2>2, ExchangeReorders DEF cells
  <2>4. /\ Moved(row) = [line |-> row.line, torn |-> row.torn, cells |-> cells]
        /\ row.line \in Nat /\ row.torn \in BOOLEAN
    <3> HIDE DEF row
    <3>. QED BY <2>1 DEF TableRows
  <2> HIDE DEF Moved, row, cells
  <2>5. /\ Moved(row) \in TableRows /\ Moved(row).line = row.line /\ Moved(row).cells = cells
        /\ Moved(row).torn = row.torn
    BY <2>3, <2>4 DEF TableRows
  <2>. QED BY <2>2, <2>3, <2>5 DEF row
<1>5. other.header = header /\ other.rows = rows /\ other = [header |-> header, rows |-> rows]
  BY DEF Swapped
<1> HIDE DEF Moved, header, other
<1>6. rows \in Seq(TableRows) /\ Len(rows) = Len(doc.rows) /\ \A k \in 1 .. Len(doc.rows) : rows[k] = Moved(doc.rows[k])
  <2>1. rows \in [1 .. Len(doc.rows) -> TableRows]
    BY <1>1, <1>4
  <2>2. \A k \in 1 .. Len(doc.rows) : rows[k] = Moved(doc.rows[k])
    BY <1>1
  <2> HIDE DEF rows
  <2>3. rows \in Seq(TableRows)
    BY <1>1, <2>1, IsASeq
  <2>4. Len(rows) = Len(doc.rows)
    BY <1>1, <2>1, <2>3, LenProperties
  <2>. QED BY <2>2, <2>3, <2>4
<1> HIDE DEF rows, p
<1>7. other \in I!Table
  BY <1>3, <1>5, <1>6 DEF I!Table, HeaderCells, TableRows
<1>8. header # <<>>
  <2>1. Len(header) = n /\ n # 0
    BY <1>1, <1>2, <1>3 DEF Reordered
  <2>2. Len(<<>>) = 0
    OBVIOUS
  <2>. QED BY <2>1, <2>2
<1>9. SameTable(p, doc, other)
  BY <1>3, <1>4, <1>5, <1>6 DEF SameTable
<1>. QED BY <1>5, <1>7, <1>8, <1>9 DEF other

LEMMA ColumnsDoCommute == Taking => ColumnsCommute
<1> SUFFICES ASSUME Taking, Sheeted,
                    \A k \in DOMAIN call.req.csv.rows : ~I!Ragged(call.req.csv.header, call.req.csv.rows[k]),
                    NEW i \in DOMAIN call.req.csv.header, NEW j \in DOMAIN call.req.csv.header
             PROVE  I!Run([call.req EXCEPT !.csv = Swapped(call.req.csv, i, j)], MaxItems) = call.r
  BY DEF ColumnsCommute, Swapped, Exchange
<1> DEFINE doc == call.req.csv
           other == Swapped(doc, i, j)
           req == [call.req EXCEPT !.csv = other]
<1>1. /\ call.req \in Batches /\ call.r = I!Run(call.req, MaxItems)
      /\ doc # I!NoDoc /\ call.req.items = <<>>
  BY DEF Taking, Sheeted
<1>2. doc \in I!Table /\ doc.header # <<>>
  BY <1>1, TableOf
<1>3. other \in I!Table /\ other.header # <<>> /\ \E p : SameTable(p, doc, other)
  <2>1. \A k \in DOMAIN doc.rows : ~I!Ragged(doc.header, doc.rows[k])
    OBVIOUS
  <2>2. i \in DOMAIN doc.header /\ j \in DOMAIN doc.header
    OBVIOUS
  <2> HIDE DEF doc
  <2>. QED BY <1>2, <2>1, <2>2, SwappedIsSame
<1>4. I!ParseCSV(other) = I!ParseCSV(doc)
  <2>1. PICK p : SameTable(p, doc, other)
    BY <1>3
  <2> HIDE DEF doc, other
  <2>. QED BY <1>2, <1>3, <2>1, SameReading
<1>5. other # I!NoDoc
  BY <1>3 DEF I!NoDoc
<1>6. req.csv = other /\ req.items = call.req.items /\ req.output = call.req.output
  <2>1. call.req = [output |-> call.req.output, items |-> call.req.items, csv |-> call.req.csv]
    BY <1>1, BatchesAssumption
  <2>2. PICK o, t, d : call.req = [output |-> o, items |-> t, csv |-> d]
    BY <2>1
  <2>3. \A x : /\ [call.req EXCEPT !.csv = x].csv = x /\ [call.req EXCEPT !.csv = x].items = t
               /\ [call.req EXCEPT !.csv = x].output = o
    BY <2>2
  <2>4. call.req.items = t /\ call.req.output = o
    BY <2>2
  <2> HIDE DEF other
  <2>. QED BY <2>3, <2>4
<1> HIDE DEF req, other
<1>7. I!resolveItems(req) = I!resolveItems(call.req)
  BY <1>1, <1>4, <1>5, <1>6 DEF I!resolveItems
<1>8. I!Run(req, MaxItems) = I!Run(call.req, MaxItems)
  BY <1>6, <1>7 DEF I!Run
<1>. QED BY <1>1, <1>8 DEF req, other

\* What is taken is answered as Run answers it.
LEMMA TakesAreAnswered == Spec => []Taking
<1>1. Init => Taking
  BY DEF Init, Idle, Taking
<1>2. Taking /\ [Next]_call => Taking'
  BY DEF Next, Taking, Draw, Ramp, Size, Caption, Ink, Build, Scan, Suggest, Encode, Locate, Take, Return, Idle
<1>. QED BY <1>1, <1>2, PTL DEF Spec

(* Every row of a batch's table that says anything becomes one item, in    *)
(* order, with every cell that has a name; what is refused names the first *)
(* row at fault; and the order of the columns means nothing, for every     *)
(* table and every limit (ParseCSV, resolveItems and Run of package batch).*)
THEOREM CellsReachTheirItems == Spec => []TablesKept
<1>1. Taking => TablesKept
  BY RowsAreKept, ColumnsDoCommute DEF TablesKept
<1>. QED BY <1>1, TakesAreAnswered, PTL

(***************************************************************************)
(* A drawing (modules Drawing and Writers).                                *)
(***************************************************************************)

\* The modules of a rectangle.
LEMMA InPoints ==
  ASSUME NEW r, r.x0 \in Int, r.y0 \in Int, r.x1 \in Int, r.y1 \in Int, NEW p
  PROVE  p \in Points(r) <=> /\ p \in Int \X Int
                             /\ r.x0 <= p[1] /\ p[1] < r.x1 /\ r.y0 <= p[2] /\ p[2] < r.y1
BY DEF Points

\* A record of a canvas, its dark modules replaced.
LEMMA WithDark ==
  ASSUME NEW a1, NEW a2, NEW a3, NEW a4, NEW a5, NEW a6, NEW a7, NEW a8, NEW a9, NEW a10, NEW a11, NEW a12,
         NEW d
  PROVE  LET p == [ok |-> TRUE, cols |-> a1, rows |-> a2, quiet |-> a3, pad |-> a4, band |-> a5, style |-> a6,
                   symbology |-> a7, kind |-> a8, hri |-> a9, dark |-> a10, eyes |-> a11, balls |-> a12]
             q == [p EXCEPT !.dark = d]
         IN  /\ q.ok = TRUE /\ q.cols = a1 /\ q.rows = a2 /\ q.quiet = a3 /\ q.pad = a4 /\ q.band = a5
             /\ q.style = a6 /\ q.symbology = a7 /\ q.kind = a8 /\ q.hri = a9 /\ q.dark = d
             /\ q.eyes = a11 /\ q.balls = a12
OBVIOUS

\* The sizes of a drawing.
Quiet(m, s)  == IF s.quiet < 0 THEN m.quiet ELSE s.quiet
Offset2(m, s) == Quiet(m, s) + pad(s.frame)
DarkOf(m, s) == {<<p[1] + Offset2(m, s), p[2] + Offset2(m, s)>> :
                   p \in {q \in (0 .. (m.cols - 1)) \X (0 .. (ExtrudedRows(m, s) - 1)) :
                            <<q[1], IF m.kind = "1d" THEN 0 ELSE q[2]>> \in m.dark}}
EyesOf(m, s) == UNION {Block(p[1], p[2], eyeSize) : p \in Corners(m, Offset2(m, s))}
BallsOf(m, s) == UNION {Block(p[1] + ballOffset, p[2] + ballOffset, ballSize) : p \in Corners(m, Offset2(m, s))}

\* What a drawing is made of.
Made(m, s, c) ==
  /\ ~(m.cols <= 0) /\ ~(m.rows <= 0) /\ ~BadStyle(s) /\ ~(Quiet(m, s) < 0)
  /\ c.cols = m.cols + 2 * Offset2(m, s)
  /\ c.rows = ExtrudedRows(m, s) + 2 * Offset2(m, s) + band(s)
  /\ c.quiet = Quiet(m, s) /\ c.pad = pad(s.frame) /\ c.band = band(s) /\ c.style = s
  /\ c.kind = m.kind /\ c.hri = IF s.hri THEN m.hri ELSE 0
  /\ c.eyes = IF hasFinderPatterns(m) THEN EyesOf(m, s) ELSE {}
  /\ c.balls = IF hasFinderPatterns(m) THEN BallsOf(m, s) ELSE {}
  /\ c.dark = IF s.logo.on /\ s.logo.excavate
              THEN DarkOf(m, s) \ (Points(excavateRect(c)) \ c.eyes) ELSE DarkOf(m, s)

\* A rectangle centred in a symbol.
Centred(sym, w, h) ==
  Sized(sym.x0 + (Wider(sym) - w) \div 2, sym.y0 + (Taller(sym) - h) \div 2, w, h)

\* LogoRect, with what it reads of the canvas as parameters.
LogoIn(logo, sym, scale) ==
  IF ~logo.on \/ Empty(sym) THEN Rect(0, 0, 0, 0)
  ELSE Centred(sym, Least(Largest(1, Rounded(Wider(sym) * scale, 100)), Wider(sym)),
               Least(Largest(1, Rounded(Largest(1, Rounded(Wider(sym) * scale, 100)) * logo.h, logo.w)),
                     Taller(sym)))

LEMMA LogoRectReads ==
  ASSUME NEW c
  PROVE  LogoRect(c) = LogoIn(c.style.logo, SymbolRect(c),
                              IF c.style.logo.scale <= 0 THEN DefaultLogoScale ELSE c.style.logo.scale)
BY Zenon DEF LogoRect, LogoIn, Centred

LEMMA RenderIs ==
  ASSUME NEW m, NEW s, Render(m, s).ok
  PROVE  Made(m, s, Render(m, s))
<1> DEFINE a1 == m.cols + 2 * Offset2(m, s)
           a2 == ExtrudedRows(m, s) + 2 * Offset2(m, s) + band(s)
           a3 == Quiet(m, s)
           a4 == pad(s.frame)
           a5 == band(s)
           a9 == IF s.hri THEN m.hri ELSE 0
           a10 == DarkOf(m, s)
           a11 == IF ~hasFinderPatterns(m) THEN {} ELSE EyesOf(m, s)
           a12 == IF ~hasFinderPatterns(m) THEN {} ELSE BallsOf(m, s)
           plain == [ok |-> TRUE, cols |-> a1, rows |-> a2, quiet |-> a3, pad |-> a4, band |-> a5, style |-> s,
                     symbology |-> m.symbology, kind |-> m.kind, hri |-> a9, dark |-> a10,
                     eyes |-> a11, balls |-> a12]
           c == Render(m, s)
           Bad == m.cols <= 0 \/ m.rows <= 0 \/ BadStyle(s) \/ Quiet(m, s) < 0
           Cut == [plain EXCEPT !.dark = excavate(plain)]
           Kept2 == s.logo.on /\ s.logo.excavate
<1>1. c = IF Bad THEN Refusal ELSE IF Kept2 THEN Cut ELSE plain
  BY Zenon DEF Render, Quiet, Offset2, DarkOf, EyesOf, BallsOf
<1>2. c.ok /\ ~Refusal.ok
  BY DEF Refusal
<1> HIDE DEF a1, a2, a3, a4, a5, a9, a10, a11, a12, c
<1>3. ~Bad
  <2> HIDE DEF Bad, Cut, plain, Kept2
  <2>. QED BY <1>1, <1>2
<1>4. c = IF Kept2 THEN Cut ELSE plain
  <2> HIDE DEF Bad, Cut, plain, Kept2
  <2>. QED BY <1>1, <1>3
<1>5. /\ c.cols = a1 /\ c.rows = a2 /\ c.quiet = a3 /\ c.pad = a4 /\ c.band = a5 /\ c.style = s
      /\ c.kind = m.kind /\ c.hri = a9 /\ c.eyes = a11 /\ c.balls = a12
      /\ c.dark = IF Kept2 THEN excavate(plain) ELSE a10
  <2>1. CASE ~Kept2
    <3>1. c = plain
      BY <1>4, <2>1
    <3>. QED BY <2>1, <3>1
  <2>2. CASE Kept2
    <3>1. c = Cut
      BY <1>4, <2>2
    <3> DEFINE d == excavate(plain)
    <3> HIDE DEF d, Kept2
    <3>2. c = [plain EXCEPT !.dark = d]
      BY <3>1 DEF d
    <3>. QED BY <2>2, <3>2, WithDark DEF d
  <2>. QED BY <2>1, <2>2
<1>6. excavate(plain) = a10 \ (Points(excavateRect(c)) \ a11)
  <2>1. excavateRect(plain) = excavateRect(c)
    <3>1. /\ plain.cols = c.cols /\ plain.rows = c.rows /\ plain.quiet = c.quiet /\ plain.pad = c.pad
          /\ plain.band = c.band /\ plain.style = c.style
      BY <1>5
    <3> HIDE DEF plain
    <3>2. SymbolRect(plain) = SymbolRect(c)
      BY <3>1, Zenon DEF SymbolRect
    <3>3. LogoRect(plain) = LogoRect(c)
      BY <3>1, <3>2, LogoRectReads, Zenon
    <3>. QED BY <3>1, <3>2, <3>3, Zenon DEF excavateRect
  <2>2. plain.dark = a10 /\ plain.eyes = a11
    OBVIOUS
  <2> HIDE DEF plain
  <2>. QED BY <2>1, <2>2 DEF excavate
<1>7. /\ a11 = IF hasFinderPatterns(m) THEN EyesOf(m, s) ELSE {}
      /\ a12 = IF hasFinderPatterns(m) THEN BallsOf(m, s) ELSE {}
  BY DEF a11, a12
<1> HIDE DEF plain, Bad, Kept2
<1>. QED BY <1>3, <1>5, <1>6, <1>7 DEF a1, a2, a3, a4, a5, a9, a10, c, Bad, Kept2, Made

\* The numbers of a drawing, and where they put the symbol.
Shape(m, s, c, o, r) ==
  /\ o \in Nat /\ r \in Nat /\ m.cols \in Nat /\ m.cols > 0 /\ r > 0 /\ (m.kind = "2d" => r = m.rows)
  /\ c.pad = pad(s.frame) /\ c.pad \in Nat /\ c.quiet \in Nat /\ o = c.quiet + c.pad
  /\ c.band = band(s) /\ c.band \in {0, 4, 6} /\ c.style = s
  /\ c.cols = m.cols + 2 * o /\ c.rows = r + 2 * o + c.band
  /\ SymbolRect(c) = Rect(o, o, o + m.cols, o + r)

LEMMA ShapeIs ==
  ASSUME NEW m \in Matrix, NEW s \in Style, Render(m, s).ok
  PROVE  Shape(m, s, Render(m, s), Offset2(m, s), ExtrudedRows(m, s))
<1> DEFINE c == Render(m, s)
           o == Offset2(m, s)
           r == ExtrudedRows(m, s)
<1>1. /\ ~(m.cols <= 0) /\ ~(m.rows <= 0) /\ ~BadStyle(s) /\ ~(Quiet(m, s) < 0)
      /\ c.cols = m.cols + 2 * o /\ c.rows = r + 2 * o + band(s)
      /\ c.quiet = Quiet(m, s) /\ c.pad = pad(s.frame) /\ c.band = band(s) /\ c.style = s
  <2>1. Made(m, s, c)
    BY RenderIs
  <2>. QED BY <2>1 DEF Made
<1>2. /\ m.cols \in Nat /\ m.rows \in Nat /\ m.quiet \in Nat /\ s.quiet \in Int /\ s.bar \in Int
      /\ s.frame.width \in Int /\ m.kind \in {"1d", "2d"} /\ s.frame.width \in 0 .. MaxFrameWidth
  BY <1>1 DEF Matrix, Style, Frame, BadStyle
<1>3. Quiet(m, s) \in Nat
  BY <1>1, <1>2 DEF Quiet
<1>4. pad(s.frame) \in Nat
  BY <1>2 DEF pad, DefaultFrameWidth
<1>5. band(s) \in {0, 4, 6}
  BY DEF band, CaptionBandModules, BubbleTailModules
<1>6. r \in Nat /\ r > 0 /\ (m.kind = "2d" => r = m.rows)
  <2>1. CASE m.kind = "2d"
    BY <1>1, <1>2, <2>1 DEF ExtrudedRows
  <2>2. CASE m.kind # "2d" /\ s.bar <= 0
    <3> DEFINE q == (m.cols * 15) \div 100
    <3>1. q \in Nat
      BY <1>2
    <3>2. r = Largest(q, 20)
      BY <2>2 DEF ExtrudedRows
    <3> HIDE DEF q
    <3>. QED BY <2>2, <3>1, <3>2 DEF Largest
  <2>3. CASE m.kind # "2d" /\ ~(s.bar <= 0)
    BY <1>2, <2>3 DEF ExtrudedRows
  <2>. QED BY <2>1, <2>2, <2>3
<1>7. o = c.quiet + c.pad /\ o \in Nat
  BY <1>1, <1>3, <1>4 DEF Offset2
<1>8. m.cols > 0
  BY <1>1, <1>2
<1> HIDE DEF c, o, r
<1>9. SymbolRect(c) = Rect(o, o, o + m.cols, o + r)
  <2>1. c.pad + c.quiet = o /\ c.cols - o = o + m.cols /\ c.rows - c.band - o = o + r
    <3>1. c.band \in {0, 4, 6} /\ m.cols \in Nat /\ r \in Nat /\ o \in Nat
      BY <1>1, <1>2, <1>5, <1>6, <1>7
    <3>2. c.pad + c.quiet = o
      BY <1>1, <1>3, <1>4, <1>7
    <3>3. c.cols = m.cols + 2 * o /\ c.rows = r + 2 * o + c.band
      BY <1>1
    <3>. QED BY <3>1, <3>2, <3>3
  <2>2. SymbolRect(c) = Rect(c.pad + c.quiet, c.pad + c.quiet, c.cols - (c.pad + c.quiet),
                             c.rows - c.band - (c.pad + c.quiet))
    BY DEF SymbolRect
  <2>. QED BY <2>1, <2>2
<1>. QED BY <1>1, <1>2, <1>3, <1>4, <1>5, <1>6, <1>7, <1>8, <1>9 DEF Shape, c, o, r

\* MarginsClear of one canvas.
Clear(c) ==
  LET symbol == Points(SymbolRect(c))
      margin == Points(Inset(SymbolRect(c), -c.quiet)) \ symbol
      decor  == resolveFrame(c) \cup Points(resolveCaption(c))
  IN  /\ c.dark \subseteq symbol
      /\ decor \cap (margin \cup symbol) = {}
      /\ decor \cup margin \subseteq Points(Rect(0, 0, c.cols, c.rows))
      /\ Points(resolveCaption(c)) # {} => Points(resolveCaption(c)) \cap
            (Points(FrameRect(c)) \ Points(Inset(FrameRect(c), c.pad))) = {}

\* Where the bar of a caption, its tail and the ring of a frame are.
LEMMA DecorPlaced ==
  ASSUME NEW m \in Matrix, NEW s \in Style, NEW c, NEW o, NEW r, Shape(m, s, c, o, r),
         m.cols >= 2 * BubbleTailModules
  PROVE  LET inside(p) == p \in Int \X Int /\ 0 <= p[1] /\ p[1] < c.cols /\ 0 <= p[2] /\ p[2] < c.rows
             low(p)    == p[2] >= c.rows - c.pad - c.band
         IN  /\ \A p \in Points(resolveCaption(c)) :
                   /\ inside(p) /\ low(p)
                   /\ c.pad <= p[1] /\ p[1] < c.cols - c.pad /\ p[2] < c.rows - c.pad /\ c.pad <= p[2]
             /\ \A p \in resolveFrame(c) :
                   /\ inside(p)
                   /\ low(p) \/ p[1] < c.pad \/ p[1] >= c.cols - c.pad \/ p[2] < c.pad \/ p[2] >= c.rows - c.pad
<1> DEFINE Wd == c.cols
           Ht == c.rows
           P1 == c.pad
           B1 == c.band
           inside(p) == p \in Int \X Int /\ 0 <= p[1] /\ p[1] < Wd /\ 0 <= p[2] /\ p[2] < Ht
           low(p)    == p[2] >= Ht - P1 - B1
<1>0. /\ P1 \in Nat /\ B1 \in {0, 4, 6} /\ Wd \in Nat /\ Ht \in Nat /\ P1 = pad(s.frame) /\ B1 = band(s)
      /\ c.style = s /\ Wd >= 2 * P1 + 4 /\ Ht >= 2 * P1 + B1 + 1
  BY DEF Shape, BubbleTailModules
<1>1. CaptionRect(c) = Rect(P1, Ht - P1 - B1, Wd - P1, Ht - P1)
  BY <1>0 DEF CaptionRect, Rect
<1>2. Bar(c) = Rect(P1, Ht - P1 - B1, Wd - P1, IF s.frame.kind = "bubble" THEN Ht - P1 - 2 ELSE Ht - P1)
  BY <1>0, <1>1 DEF Bar, Rect, BubbleTailModules
<1>3. ASSUME NEW p \in Points(Bar(c)), B1 > 0
      PROVE  /\ inside(p) /\ low(p)
             /\ P1 <= p[1] /\ p[1] < Wd - P1 /\ p[2] < Ht - P1 /\ P1 <= p[2]
  <2> DEFINE b == Bar(c)
  <2>1. b.x0 \in Int /\ b.y0 \in Int /\ b.x1 \in Int /\ b.y1 \in Int
    BY <1>0, <1>2 DEF Rect
  <2>2. b.x0 = P1 /\ b.y0 = Ht - P1 - B1 /\ b.x1 = Wd - P1 /\ b.y1 <= Ht - P1
    BY <1>0, <1>2 DEF Rect
  <2> HIDE DEF b
  <2>3. p \in Int \X Int /\ b.x0 <= p[1] /\ p[1] < b.x1 /\ b.y0 <= p[2] /\ p[2] < b.y1
    BY <1>3, <2>1, InPoints DEF b
  <2> HIDE DEF Wd, Ht, P1, B1
  <2>. QED BY <1>0, <2>1, <2>2, <2>3
<1>4. \A p \in Points(resolveCaption(c)) :
        /\ inside(p) /\ low(p)
        /\ P1 <= p[1] /\ p[1] < Wd - P1 /\ p[2] < Ht - P1 /\ P1 <= p[2]
  <2>1. CASE resolveCaption(c) = Rect(0, 0, 0, 0)
    <3>1. Points(Rect(0, 0, 0, 0)) = {}
      BY DEF Points, Rect
    <3>. QED BY <2>1, <3>1
  <2>2. CASE resolveCaption(c) = Bar(c) /\ ~(B1 <= 0)
    <3>1. B1 > 0
      BY <1>0, <2>2
    <3> HIDE DEF inside, low
    <3>. QED BY <1>3, <2>2, <3>1
  <2>3. resolveCaption(c) = Rect(0, 0, 0, 0) \/ (resolveCaption(c) = Bar(c) /\ ~(B1 <= 0))
    BY DEF resolveCaption
  <2>. QED BY <2>1, <2>2, <2>3
<1>5. CASE ~drawn(s.frame)
  <2>1. FrameRect(c) = Rect(0, 0, 0, 0) /\ Empty(Rect(0, 0, 0, 0))
    BY <1>0, <1>5 DEF FrameRect, Empty, Rect
  <2>2. resolveFrame(c) = {}
    BY <2>1 DEF resolveFrame
  <2>. QED BY <1>4, <2>2
<1>6. CASE drawn(s.frame)
  <2> DEFINE outer == Rect(0, 0, Wd, Ht)
             inner == Rect(P1, P1, Wd - P1, Ht - P1)
             tail  == bubbleTail(Bar(c))
             f == s.frame
             cx == P1 + (Wd - 2 * P1) \div 2
  <2>0. P1 > 0 /\ FrameWidth(f) = P1
    <3>1. s.frame.width \in Int
      BY DEF Style, Frame
    <3>. QED BY <1>0, <1>6, <3>1 DEF pad, FrameWidth, DefaultFrameWidth
  <2>1. FrameRect(c) = outer /\ Inset(outer, FrameWidth(f)) = inner
    BY <1>0, <1>6, <2>0 DEF FrameRect, Inset, Rect
  <2>2. ASSUME NEW p \in Points(outer) \ Points(inner)
        PROVE  inside(p) /\ (p[1] < P1 \/ p[1] >= Wd - P1 \/ p[2] < P1 \/ p[2] >= Ht - P1)
    <3>1. /\ outer.x0 = 0 /\ outer.y0 = 0 /\ outer.x1 = Wd /\ outer.y1 = Ht
          /\ inner.x0 = P1 /\ inner.y0 = P1 /\ inner.x1 = Wd - P1 /\ inner.y1 = Ht - P1
      BY DEF Rect
    <3> HIDE DEF outer, inner
    <3>2. p \in Int \X Int /\ 0 <= p[1] /\ p[1] < Wd /\ 0 <= p[2] /\ p[2] < Ht
      BY <1>0, <2>2, <3>1, InPoints
    <3>3. ~(P1 <= p[1] /\ p[1] < Wd - P1 /\ P1 <= p[2] /\ p[2] < Ht - P1)
      BY <1>0, <2>2, <3>1, <3>2, InPoints
    <3>. QED BY <1>0, <3>2, <3>3
  <2>3. ASSUME s.frame.kind = "bubble", B1 > 0, NEW p \in Points(tail)
        PROVE  inside(p) /\ low(p)
    <3>1. Bar(c) = Rect(P1, Ht - P1 - B1, Wd - P1, Ht - P1 - 2)
      BY <1>2, <2>3
    <3>2. tail = Rect(cx - 2, Ht - P1 - 2, cx + 2, Ht - P1)
      BY <1>0, <3>1 DEF bubbleTail, Wider, Rect, BubbleTailModules
    <3>3. cx \in Int /\ cx - 2 >= 0 /\ cx + 2 <= Wd
      <4>1. (Wd - 2 * P1) \div 2 \in Int /\ 2 * ((Wd - 2 * P1) \div 2) <= Wd - 2 * P1
            /\ (Wd - 2 * P1) \div 2 >= 2
        BY <1>0
      <4>. QED BY <1>0, <2>0, <4>1
    <3> HIDE DEF cx
    <3>4. tail.x0 = cx - 2 /\ tail.y0 = Ht - P1 - 2 /\ tail.x1 = cx + 2 /\ tail.y1 = Ht - P1
      BY <3>2 DEF Rect
    <3> HIDE DEF tail
    <3>5. p \in Int \X Int /\ cx - 2 <= p[1] /\ p[1] < cx + 2 /\ Ht - P1 - 2 <= p[2] /\ p[2] < Ht - P1
      BY <1>0, <2>3, <3>3, <3>4, InPoints
    <3>. QED BY <1>0, <2>3, <3>3, <3>5
  <2>4. ASSUME NEW p \in resolveFrame(c)
        PROVE  \/ p \in Points(outer) \ Points(inner)
               \/ B1 > 0 /\ p \in Points(Bar(c))
               \/ s.frame.kind = "bubble" /\ B1 > 0 /\ p \in Points(tail)
    <3> HIDE DEF outer, inner, tail
    <3>. QED BY <1>0, <2>1, <2>4 DEF resolveFrame, tail
  <2>5. ASSUME NEW p \in resolveFrame(c)
        PROVE  /\ inside(p)
               /\ low(p) \/ p[1] < P1 \/ p[1] >= Wd - P1 \/ p[2] < P1 \/ p[2] >= Ht - P1
    <3> HIDE DEF outer, inner, tail, inside, low
    <3>. QED BY <1>3, <2>2, <2>3, <2>4, <2>5
  <2>. QED BY <1>4, <2>5
<1>. QED BY <1>5, <1>6

LEMMA DrawnClear ==
  ASSUME NEW m \in Matrix, NEW s \in Style, Render(m, s).ok, m.cols >= 2 * BubbleTailModules
  PROVE  Clear(Render(m, s))
<1> DEFINE c == Render(m, s)
           o == Offset2(m, s)
           r == ExtrudedRows(m, s)
           symbol == SymbolRect(c)
           room == Inset(symbol, -c.quiet)
           all == Rect(0, 0, c.cols, c.rows)
           ring == Points(FrameRect(c)) \ Points(Inset(FrameRect(c), c.pad))
           inside(p) == p \in Int \X Int /\ 0 <= p[1] /\ p[1] < c.cols /\ 0 <= p[2] /\ p[2] < c.rows
           low(p)    == p[2] >= c.rows - c.pad - c.band
<1>1. Shape(m, s, c, o, r)
  BY ShapeIs
<1>2. c.dark \subseteq DarkOf(m, s)
  <2>1. Made(m, s, c)
    BY RenderIs
  <2>. QED BY <2>1 DEF Made
<1>3. /\ \A p \in Points(resolveCaption(c)) :
             /\ inside(p) /\ low(p)
             /\ c.pad <= p[1] /\ p[1] < c.cols - c.pad /\ p[2] < c.rows - c.pad /\ c.pad <= p[2]
      /\ \A p \in resolveFrame(c) :
             /\ inside(p)
             /\ low(p) \/ p[1] < c.pad \/ p[1] >= c.cols - c.pad \/ p[2] < c.pad \/ p[2] >= c.rows - c.pad
  <2> HIDE DEF c, o, r
  <2>. QED BY <1>1, DecorPlaced
<1>4. ASSUME NEW p \in DarkOf(m, s)
      PROVE  p \in Int \X Int /\ o <= p[1] /\ p[1] < o + m.cols /\ o <= p[2] /\ p[2] < o + r
  <2>1. PICK q \in (0 .. (m.cols - 1)) \X (0 .. (r - 1)) : p = <<q[1] + o, q[2] + o>>
    BY DEF DarkOf
  <2> HIDE DEF o, r, c
  <2>. QED BY <1>1, <2>1 DEF Shape
<1> HIDE DEF c, o, r
<1>5. /\ c.pad \in Nat /\ c.quiet \in Nat /\ c.band \in Nat /\ c.cols \in Nat /\ c.rows \in Nat
      /\ o \in Nat /\ r \in Nat /\ m.cols \in Nat /\ o = c.quiet + c.pad
      /\ c.cols = m.cols + 2 * o /\ c.rows = r + 2 * o + c.band
  BY <1>1 DEF Shape
<1>6. /\ symbol.x0 = o /\ symbol.y0 = o /\ symbol.x1 = o + m.cols /\ symbol.y1 = o + r
      /\ room.x0 = c.pad /\ room.y0 = c.pad /\ room.x1 = c.cols - c.pad /\ room.y1 = c.rows - c.band - c.pad
      /\ all.x0 = 0 /\ all.y0 = 0 /\ all.x1 = c.cols /\ all.y1 = c.rows
  BY <1>1, <1>5 DEF Shape, Rect, Inset
<1> HIDE DEF symbol, room, all
<1>7. \A p : p \in Points(symbol) <=>
           p \in Int \X Int /\ o <= p[1] /\ p[1] < o + m.cols /\ o <= p[2] /\ p[2] < o + r
  BY <1>5, <1>6, InPoints
<1>8. \A p : p \in Points(room) <=>
           p \in Int \X Int /\ c.pad <= p[1] /\ p[1] < c.cols - c.pad /\ c.pad <= p[2] /\ p[2] < c.rows - c.band - c.pad
  BY <1>5, <1>6, InPoints
<1>9. \A p : p \in Points(all) <=> inside(p)
  BY <1>5, <1>6, InPoints
<1>10. c.dark \subseteq Points(symbol)
  BY <1>2, <1>4, <1>7
<1>11. Points(symbol) \subseteq Points(room) /\ Points(room) \subseteq Points(all)
  <2>1. ASSUME NEW p \in Points(symbol) PROVE p \in Points(room)
    BY <1>5, <1>7, <1>8
  <2>2. ASSUME NEW p \in Points(room) PROVE p \in Points(all)
    BY <1>5, <1>8, <1>9
  <2>. QED BY <2>1, <2>2
<1>12. \A p \in resolveFrame(c) \cup Points(resolveCaption(c)) : p \notin Points(room) /\ p \in Points(all)
  BY <1>3, <1>5, <1>8, <1>9
<1>13. \A p \in Points(resolveCaption(c)) : p \notin ring
  <2>1. CASE ~drawn(s.frame)
    <3>1. FrameRect(c) = Rect(0, 0, 0, 0)
      BY <1>1, <2>1 DEF FrameRect, Shape
    <3>2. Points(FrameRect(c)) = {}
      BY <3>1 DEF Points, Rect
    <3>. QED BY <3>2
  <2>2. CASE drawn(s.frame)
    <3> DEFINE inner == Inset(FrameRect(c), c.pad)
    <3>1. inner.x0 = c.pad /\ inner.y0 = c.pad /\ inner.x1 = c.cols - c.pad /\ inner.y1 = c.rows - c.pad
      BY <1>1, <1>5, <2>2 DEF FrameRect, Shape, Inset, Rect
    <3> HIDE DEF inner
    <3>2. \A p \in Points(resolveCaption(c)) : p \in Points(inner)
      BY <1>3, <1>5, <3>1, InPoints
    <3>. QED BY <3>2 DEF inner
  <2>. QED BY <2>1, <2>2
<1>14. Clear(c)
  <2> HIDE DEF inside, low
  <2>. QED BY <1>10, <1>11, <1>12, <1>13 DEF Clear, symbol, room, all
<1>. QED BY <1>14 DEF c

\* SymbolWhole of one canvas.
Intact(m, c) ==
  LET hole == IF c.style.logo.on /\ c.style.logo.excavate THEN Points(excavateRect(c)) \ c.eyes ELSE {}
      Source(p) == <<p[1] - SymbolRect(c).x0, IF c.kind = "1d" THEN 0 ELSE p[2] - SymbolRect(c).y0>>
  IN  \A p \in Points(SymbolRect(c)) : At(c, p[1], p[2]) <=> (p \notin hole /\ Source(p) \in m.dark)

LEMMA DrawnIntact ==
  ASSUME NEW m \in Matrix, NEW s \in Style, Render(m, s).ok
  PROVE  Intact(m, Render(m, s))
<1> DEFINE c == Render(m, s)
           o == Offset2(m, s)
           r == ExtrudedRows(m, s)
           hole == IF s.logo.on /\ s.logo.excavate THEN Points(excavateRect(c)) \ c.eyes ELSE {}
           Source(p) == <<p[1] - o, IF m.kind = "1d" THEN 0 ELSE p[2] - o>>
           symbol == SymbolRect(c)
<1>1. Shape(m, s, c, o, r)
  BY ShapeIs
<1>2. c.kind = m.kind /\ c.dark = DarkOf(m, s) \ hole /\ c.style = s
  <2>1. Made(m, s, c)
    BY RenderIs
  <2> HIDE DEF c
  <2>. QED BY <2>1 DEF Made
<1>3. ASSUME NEW p \in Points(symbol)
      PROVE  p = <<p[1], p[2]>> /\ (p \in DarkOf(m, s) <=> Source(p) \in m.dark)
  <2> HIDE DEF c, o, r
  <2>1. symbol.x0 = o /\ symbol.y0 = o /\ symbol.x1 = o + m.cols /\ symbol.y1 = o + r
        /\ o \in Nat /\ r \in Nat /\ m.cols \in Nat
    BY <1>1 DEF Shape, Rect
  <2> HIDE DEF symbol
  <2>2. p \in Int \X Int /\ o <= p[1] /\ p[1] < o + m.cols /\ o <= p[2] /\ p[2] < o + r
    BY <1>3, <2>1, InPoints
  <2> DEFINE q == <<p[1] - o, p[2] - o>>
             Read(z) == <<z[1], IF m.kind = "1d" THEN 0 ELSE z[2]>>
             grid == (0 .. (m.cols - 1)) \X (0 .. (r - 1))
  <2>3. q \in grid /\ p = <<q[1] + o, q[2] + o>> /\ p = <<p[1], p[2]>>
    BY <2>1, <2>2
  <2>4. \A z \in grid : p = <<z[1] + o, z[2] + o>> => z = q
    BY <2>1, <2>2
  <2>5. DarkOf(m, s) = {<<z[1] + o, z[2] + o>> : z \in {y \in grid : Read(y) \in m.dark}}
    BY DEF DarkOf, o, r
  <2>6. p \in DarkOf(m, s) <=> Read(q) \in m.dark
    <3> HIDE DEF q, Read, grid
    <3>. QED BY <2>3, <2>4, <2>5
  <2>7. Read(q) = Source(p)
    OBVIOUS
  <2>. QED BY <2>3, <2>6, <2>7
<1>4. symbol.x0 = o /\ symbol.y0 = o
  <2> HIDE DEF c, o, r
  <2>. QED BY <1>1 DEF Shape, Rect
<1>5. Intact(m, c) <=> \A p \in Points(symbol) : <<p[1], p[2]>> \in c.dark <=> (p \notin hole /\ Source(p) \in m.dark)
  <2> HIDE DEF c, o, r
  <2>. QED BY <1>2, <1>4 DEF Intact, At
<1> HIDE DEF hole, Source, symbol, c
<1>6. \A p \in Points(symbol) : <<p[1], p[2]>> \in c.dark <=> (p \notin hole /\ Source(p) \in m.dark)
  BY <1>2, <1>3
<1>. QED BY <1>5, <1>6 DEF c

\* EyesAgree of one canvas.
EyesOn(m, c) == IF ~hasFinderPatterns(m) THEN {}
                ELSE {<<q[1] + SymbolRect(c).x0, q[2] + SymbolRect(c).y0>> :
                        q \in {<<0, 0>>, <<m.cols - eyeSize, 0>>, <<0, m.rows - eyeSize>>}}
Agreed(m, c) == findEyes(c) = svgEyeOrigins(c) /\ findEyes(c) = EyesOn(m, c)

\* Three squares of a side, the corners of whose frame are n apart.
Near(x, a, from, to) == a + from <= x /\ x < a + to
InSquares(x, y, o, d, from, to) ==
  \/ Near(x, o, from, to) /\ Near(y, o, from, to)
  \/ Near(x, o + d, from, to) /\ Near(y, o, from, to)
  \/ Near(x, o, from, to) /\ Near(y, o + d, from, to)

Framed(o, d, from, size) ==
  UNION {Block(q[1] + from, q[2] + from, size) : q \in {<<o, o>>, <<o + d, o>>, <<o, o + d>>}}

LEMMA Squares ==
  ASSUME NEW o \in Int, NEW d \in Int, NEW from \in Nat, NEW size \in Nat, NEW to,
         to = from + size, NEW p
  PROVE  p \in Framed(o, d, from, size)
           <=> p \in Int \X Int /\ InSquares(p[1], p[2], o, d, from, to)
<1> DEFINE Of(a, b) == Block(a + from, b + from, size)
<1>1. ASSUME NEW a \in Int, NEW b \in Int
      PROVE  p \in Of(a, b) <=> p \in Int \X Int /\ Near(p[1], a, from, to) /\ Near(p[2], b, from, to)
  <2> DEFINE rect == Rect(a + from, b + from, a + from + size, b + from + size)
  <2>1. rect.x0 = a + from /\ rect.y0 = b + from /\ rect.x1 = a + from + size /\ rect.y1 = b + from + size
    BY DEF Rect
  <2>2. Of(a, b) = Points(rect)
    BY DEF Block
  <2> HIDE DEF rect, Of
  <2>3. p \in Points(rect) <=> /\ p \in Int \X Int
                              /\ a + from <= p[1] /\ p[1] < a + from + size /\ b + from <= p[2] /\ p[2] < b + from + size
    BY <2>1, InPoints
  <2>. QED BY <2>2, <2>3 DEF Near
<1>2. p \in Framed(o, d, from, size)
        <=> p \in Of(o, o) \/ p \in Of(o + d, o) \/ p \in Of(o, o + d)
  <2>1. {Block(q[1] + from, q[2] + from, size) : q \in {<<o, o>>, <<o + d, o>>, <<o, o + d>>}}
          = {Of(o, o), Of(o + d, o), Of(o, o + d)}
    <3> DEFINE At2(q) == Block(q[1] + from, q[2] + from, size)
    <3>1. At2(<<o, o>>) = Of(o, o) /\ At2(<<o + d, o>>) = Of(o + d, o) /\ At2(<<o, o + d>>) = Of(o, o + d)
      OBVIOUS
    <3> HIDE DEF At2, Of
    <3>2. {At2(q) : q \in {<<o, o>>, <<o + d, o>>, <<o, o + d>>}} = {Of(o, o), Of(o + d, o), Of(o, o + d)}
      BY <3>1
    <3>. QED BY <3>2 DEF At2
  <2> HIDE DEF Of
  <2>. QED BY <2>1 DEF Framed
<1> HIDE DEF Of
<1>3. o + d \in Int
  OBVIOUS
<1>. QED BY <1>1, <1>2, <1>3 DEF InSquares

LEMMA DrawnAgreed ==
  ASSUME NEW m \in Matrix, NEW s \in Style, Render(m, s).ok, m.symbology = "qr" => m.kind = "2d"
  PROVE  Agreed(m, Render(m, s))
<1> DEFINE c == Render(m, s)
           o == Offset2(m, s)
           r == ExtrudedRows(m, s)
           sym == SymbolRect(c)
           at == {<<sym.x0, sym.y0>>, <<sym.x1 - eyeSize, sym.y0>>, <<sym.x0, sym.y1 - eyeSize>>}
<1> SUFFICES Agreed(m, c)
  OBVIOUS
<1>1. Shape(m, s, c, o, r)
  BY ShapeIs
<1>2. /\ c.eyes = IF hasFinderPatterns(m) THEN EyesOf(m, s) ELSE {}
      /\ c.balls = IF hasFinderPatterns(m) THEN BallsOf(m, s) ELSE {}
  <2>1. Made(m, s, c)
    BY RenderIs
  <2> HIDE DEF c
  <2>. QED BY <2>1 DEF Made
<1> HIDE DEF c, r
<1>3. sym.x0 = o /\ sym.y0 = o /\ sym.x1 = o + m.cols /\ sym.y1 = o + r
      /\ o \in Nat /\ r \in Nat /\ m.cols \in Nat
  <2> HIDE DEF o
  <2>. QED BY <1>1 DEF Shape, Rect
<1> HIDE DEF sym
<1>4. CASE ~hasFinderPatterns(m)
  <2>1. c.eyes = {} /\ c.balls = {}
    BY <1>2, <1>4
  <2>2. \A x, y : Role(c, x, y) = RoleData
    BY <2>1 DEF Role
  <2>3. RoleData # RoleEyeFrame
    BY DEF RoleData, RoleEyeFrame
  <2>4. findEyes(c) = {}
    BY <2>1 DEF findEyes
  <2>5. svgEyeOrigins(c) = {}
    BY <2>2, <2>3 DEF svgEyeOrigins
  <2>6. EyesOn(m, c) = {}
    BY <1>4 DEF EyesOn
  <2>. QED BY <2>4, <2>5, <2>6 DEF Agreed
<1>5. CASE hasFinderPatterns(m)
  <2> DEFINE n == m.cols
             d == n - 7
             three == {<<o, o>>, <<o + d, o>>, <<o, o + d>>}
             InEye(x, y) == InSquares(x, y, o, d, 0, 7)
             InBall(x, y) == InSquares(x, y, o, d, 2, 5)
  <2>1. n \in Nat /\ n >= 21 /\ m.rows = n /\ r = n /\ d \in Int /\ d >= 14
    BY <1>1, <1>5 DEF hasFinderPatterns, Shape
  <2>2. Corners(m, o) = three
    <3>1. o + m.cols - 7 = o + d /\ o + m.rows - 7 = o + d
      BY <1>3, <2>1
    <3>. QED BY <3>1 DEF Corners, eyeSize
  <2> HIDE DEF d
  <2>3. \A p : p \in c.eyes <=> p \in Int \X Int /\ InEye(p[1], p[2])
    <3>1. c.eyes = Framed(o, d, 0, 7)
      <4>1. c.eyes = UNION {Block(q[1], q[2], 7) : q \in three}
        BY <1>2, <1>5, <2>2 DEF EyesOf, eyeSize
      <4>2. \A q \in three : q[1] + 0 = q[1] /\ q[2] + 0 = q[2]
        BY <1>3, <2>1
      <4>. QED BY <4>1, <4>2 DEF Framed
    <3>2. 7 = 0 + 7 /\ o \in Int /\ 0 \in Nat /\ 7 \in Nat
      BY <1>3
    <3> HIDE DEF o
    <3>3. \A p : p \in Framed(o, d, 0, 7) <=> p \in Int \X Int /\ InSquares(p[1], p[2], o, d, 0, 7)
      BY <2>1, <3>2, Squares
    <3>. QED BY <3>1, <3>3
  <2>4. \A p : p \in c.balls <=> p \in Int \X Int /\ InBall(p[1], p[2])
    <3>1. c.balls = Framed(o, d, 2, 3)
      BY <1>2, <1>5, <2>2 DEF BallsOf, ballOffset, ballSize, Framed
    <3>2. 5 = 2 + 3 /\ o \in Int /\ 2 \in Nat /\ 3 \in Nat
      BY <1>3
    <3> HIDE DEF o
    <3>3. \A p : p \in Framed(o, d, 2, 3) <=> p \in Int \X Int /\ InSquares(p[1], p[2], o, d, 2, 5)
      BY <2>1, <3>2, Squares
    <3>. QED BY <3>1, <3>3
  <2> HIDE DEF o, n
  <2>5. /\ RoleData # RoleEyeFrame /\ RoleData # RoleEyeBall /\ RoleEyeBall # RoleEyeFrame
    BY DEF RoleData, RoleEyeFrame, RoleEyeBall
  <2>6. \A x, y \in Int : /\ ((Role(c, x, y) = RoleData) <=> (~InEye(x, y) /\ ~InBall(x, y)))
                         /\ ((Role(c, x, y) = RoleEyeFrame) <=> (InEye(x, y) /\ ~InBall(x, y)))
    <3>1. SUFFICES ASSUME NEW x \in Int, NEW y \in Int
                   PROVE  /\ ((Role(c, x, y) = RoleData) <=> (~InEye(x, y) /\ ~InBall(x, y)))
                          /\ ((Role(c, x, y) = RoleEyeFrame) <=> (InEye(x, y) /\ ~InBall(x, y)))
      OBVIOUS
    <3> HIDE DEF InEye, InBall
    <3>2. (<<x, y>> \in c.eyes <=> InEye(x, y)) /\ (<<x, y>> \in c.balls <=> InBall(x, y))
      BY <2>3, <2>4
    <3>. QED BY <2>5, <3>2 DEF Role
  <2>11. \A x, y \in Int : Role(c, x, y) = RoleData => ~InEye(x, y)
    <3> HIDE DEF InEye, InBall
    <3>. QED BY <2>6
  <2>12. \A x, y \in Int : ~InEye(x, y) /\ ~InBall(x, y) => Role(c, x, y) = RoleData
    <3> HIDE DEF InEye, InBall
    <3>. QED BY <2>6
  <2>7. findEyes(c) = three
    <3>1. ASSUME NEW p \in findEyes(c) PROVE p \in three
      <4> DEFINE x == p[1]
                 y == p[2]
                 left == x - 1
                 above == y - 1
      <4>1. /\ p \in c.eyes /\ Role(c, left, y) = RoleData /\ Role(c, x, above) = RoleData
        BY <3>1 DEF findEyes
      <4>5. p \in Int \X Int /\ InEye(x, y)
        <5> HIDE DEF InEye
        <5>. QED BY <2>3, <4>1
      <4>6. x \in Int /\ y \in Int /\ left \in Int /\ above \in Int
        BY <4>5
      <4>7. ~InEye(left, y) /\ ~InEye(x, above)
        <5> HIDE DEF InEye, InBall, left, above, x, y
        <5>1. ~InEye(left, y)
          BY <2>11, <4>1, <4>6
        <5>2. ~InEye(x, above)
          BY <2>11, <4>1, <4>6
        <5>. QED BY <5>1, <5>2
      <4>2. p \in Int \X Int /\ InEye(p[1], p[2]) /\ ~InEye(p[1] - 1, p[2]) /\ ~InEye(p[1], p[2] - 1)
        <5> HIDE DEF InEye
        <5>. QED BY <4>5, <4>7
      <4>3. (p[1] = o /\ p[2] = o) \/ (p[1] = o + d /\ p[2] = o) \/ (p[1] = o /\ p[2] = o + d)
        BY <1>3, <2>1, <4>2 DEF InSquares, Near
      <4>4. p = <<p[1], p[2]>>
        BY <4>2
      <4>. QED BY <4>3, <4>4
    <3>2. ASSUME NEW p \in three PROVE p \in findEyes(c)
      <4>1. /\ p \in Int \X Int /\ p[1] \in Int /\ p[2] \in Int /\ p[1] - 1 \in Int /\ p[2] - 1 \in Int
            /\ (p[1] = o /\ p[2] = o) \/ (p[1] = o + d /\ p[2] = o) \/ (p[1] = o /\ p[2] = o + d)
        BY <1>3, <2>1
      <4>2. /\ InEye(p[1], p[2]) /\ ~InBall(p[1], p[2])
            /\ ~InEye(p[1] - 1, p[2]) /\ ~InBall(p[1] - 1, p[2])
            /\ ~InEye(p[1], p[2] - 1) /\ ~InBall(p[1], p[2] - 1)
        BY <1>3, <2>1, <4>1 DEF InSquares, Near
      <4>5. p \in c.eyes /\ p \notin c.balls
        <5> HIDE DEF InEye, InBall
        <5>. QED BY <2>3, <2>4, <4>1, <4>2
      <4> DEFINE x == p[1]
                 y == p[2]
                 left == x - 1
                 above == y - 1
      <4>6. /\ x \in Int /\ y \in Int /\ left \in Int /\ above \in Int
            /\ ~InEye(left, y) /\ ~InBall(left, y) /\ ~InEye(x, above) /\ ~InBall(x, above)
        <5> HIDE DEF InEye, InBall
        <5>. QED BY <4>1, <4>2
      <4>4. Role(c, p[1] - 1, p[2]) = RoleData /\ Role(c, p[1], p[2] - 1) = RoleData
        <5> HIDE DEF InEye, InBall, left, above, x, y
        <5>1. Role(c, left, y) = RoleData /\ Role(c, x, above) = RoleData
          BY <2>12, <4>6
        <5>. QED BY <5>1 DEF left, above, x, y
      <4>. QED BY <4>5, <4>4 DEF findEyes
    <3> HIDE DEF three
    <3>. QED BY <3>1, <3>2
  <2>8. svgEyeOrigins(c) = three
    <3>1. /\ sym.x1 - eyeSize = o + d /\ sym.y1 - eyeSize = o + d
          /\ ~(Wider(sym) < eyeSize) /\ ~(Taller(sym) < eyeSize)
      BY <1>3, <2>1 DEF d, n, eyeSize, Wider, Taller
    <3>2. at = three
      BY <1>3, <3>1
    <3>3. \A p \in three : Role(c, p[1], p[2]) = RoleEyeFrame
      <4>1. SUFFICES ASSUME NEW p \in three PROVE Role(c, p[1], p[2]) = RoleEyeFrame
        OBVIOUS
      <4>2. /\ p[1] \in Int /\ p[2] \in Int
            /\ (p[1] = o /\ p[2] = o) \/ (p[1] = o + d /\ p[2] = o) \/ (p[1] = o /\ p[2] = o + d)
        BY <1>3, <2>1
      <4>3. InEye(p[1], p[2]) /\ ~InBall(p[1], p[2])
        BY <1>3, <2>1, <4>2 DEF InSquares, Near
      <4> HIDE DEF InEye, InBall, three
      <4>. QED BY <2>6, <4>2, <4>3
    <3>4. svgEyeOrigins(c) = IF \/ Wider(sym) < eyeSize \/ Taller(sym) < eyeSize
                               \/ \E p \in at : Role(c, p[1], p[2]) # RoleEyeFrame THEN {} ELSE at
      BY DEF svgEyeOrigins, sym
    <3> HIDE DEF at, three
    <3>. QED BY <3>1, <3>2, <3>3, <3>4
  <2>9. {<<q[1] + sym.x0, q[2] + sym.y0>> : q \in {<<0, 0>>, <<m.cols - eyeSize, 0>>, <<0, m.rows - eyeSize>>}} = three
    <3> DEFINE g(q) == <<q[1] + sym.x0, q[2] + sym.y0>>
    <3>1. m.cols - eyeSize = d /\ m.rows - eyeSize = d
      BY <2>1 DEF d, n, eyeSize
    <3>2. g(<<0, 0>>) = <<o, o>> /\ g(<<d, 0>>) = <<o + d, o>> /\ g(<<0, d>>) = <<o, o + d>>
      BY <1>3, <2>1
    <3> HIDE DEF g
    <3>3. {g(q) : q \in {<<0, 0>>, <<d, 0>>, <<0, d>>}} = three
      BY <3>2
    <3>. QED BY <3>1, <3>3 DEF g
  <2> HIDE DEF three
  <2>10. EyesOn(m, c) = three
    BY <1>5, <2>9 DEF sym, EyesOn
  <2>. QED BY <2>7, <2>8, <2>10 DEF Agreed
<1>. QED BY <1>4, <1>5

\* In every state a drawing in hand is the one Render makes, with what the report found.
Rendered ==
  call.op = "draw" => /\ \E d \in Drawings : call.m = d[1] /\ call.s = d[2] /\ call.c = Render(d[1], d[2])
                      /\ call.found = IF call.c.ok THEN Findings(call.c) ELSE <<>>

LEMMA SymbolIsKept == Rendered => SymbolKept
<1> SUFFICES ASSUME Rendered PROVE SymbolKept
  OBVIOUS
<1>1. CASE call.op # "draw"
  <2>1. ~Canvas.ok
    BY <1>1 DEF Canvas, Refusal
  <2>. QED BY <2>1 DEF SymbolKept, MarginsClear, SymbolWhole, EyesAgree
<1>2. CASE call.op = "draw" /\ ~Canvas.ok
  BY <1>2 DEF SymbolKept, MarginsClear, SymbolWhole, EyesAgree
<1>3. CASE call.op = "draw" /\ Canvas.ok
  <2>1. PICK d \in Drawings : call.m = d[1] /\ call.s = d[2] /\ call.c = Render(d[1], d[2])
    BY <1>3 DEF Rendered
  <2> DEFINE m == d[1]
             s == d[2]
             c == Canvas
  <2>2. c = Render(m, s) /\ Render(m, s).ok /\ call.m = m
    BY <1>3, <2>1 DEF Canvas
  <2>3. m \in Matrix /\ s \in Style /\ (m.symbology = "qr" => m.kind = "2d") /\ m.cols >= 2 * BubbleTailModules
    BY DrawingsAssumption
  <2> HIDE DEF m, s, c
  <2>4. Clear(c) /\ Intact(m, c) /\ Agreed(m, c)
    BY <2>2, <2>3, DrawnClear, DrawnIntact, DrawnAgreed
  <2>5. MarginsClear
    BY <2>4 DEF MarginsClear, Clear, c
  <2>6. SymbolWhole
    BY <2>2, <2>4 DEF SymbolWhole, Intact, c
  <2>7. EyesAgree
    BY <2>2, <2>4 DEF EyesAgree, Agreed, EyesOn, Shifted, c
  <2>. QED BY <2>5, <2>6, <2>7 DEF SymbolKept
<1>. QED BY <1>1, <1>2, <1>3

\* Every drawing in hand is the one Render makes.
LEMMA DrawingsAreRendered == Spec => []Rendered
<1>1. Init => Rendered
  BY DEF Init, Idle, Rendered
<1>2. Rendered /\ [Next]_call => Rendered'
  <2> SUFFICES ASSUME Rendered, [Next]_call PROVE Rendered'
    OBVIOUS
  <2>1. CASE Draw
    <3>1. PICK d \in Drawings : call' = [op |-> "draw", m |-> d[1], s |-> d[2], c |-> Render(d[1], d[2]),
                                         found |-> IF Render(d[1], d[2]).ok THEN Findings(Render(d[1], d[2]))
                                                   ELSE <<>>]
      BY <2>1 DEF Draw
    <3>. QED BY <3>1 DEF Rendered
  <2>2. CASE UNCHANGED call
    BY <2>2 DEF Rendered
  <2>3. CASE Ramp \/ Size \/ Caption \/ Ink \/ Build \/ Scan \/ Suggest \/ Encode \/ Locate \/ Take \/ Return
    BY <2>3 DEF Rendered, Ramp, Size, Caption, Ink, Build, Scan, Suggest, Encode, Locate, Take, Return, Idle
  <2>. QED BY <2>1, <2>2, <2>3 DEF Next
<1>. QED BY <1>1, <1>2, PTL DEF Spec

(* On every canvas, whatever the matrix and the style: the margin is clear *)
(* of the decorations, every module of the symbol is where the encoder put *)
(* it and dark exactly when it was (save where the logo is cut out, never  *)
(* in a finder pattern), and the writers find the three finder patterns    *)
(* where they were drawn (Render, frame.go, findEyes and svgEyeOrigins).   *)
THEOREM SymbolsAreKept == Spec => []SymbolKept
<1>. QED BY DrawingsAreRendered, SymbolIsKept, PTL

(***************************************************************************)
(* The report on a design (module Drawing).                                *)
(***************************************************************************)

Codes == {"LOW_CONTRAST", "MARGINAL_CONTRAST", "INVERTED", "TRANSPARENT_BACKGROUND", "QUIET_ZONE_TOO_SMALL",
          "LOW_EYE_CONTRAST", "GRADIENT_LOW_CONTRAST", "GRADIENT_FADES_OUT", "DEGENERATE_MATRIX",
          "LOGO_AT_LOWEST_ECC", "LOGO_TOO_LARGE", "LOGO_EXCEEDS_ECC", "LOGO_NEAR_ECC_BUDGET", "LOGO_LARGE"}
IssueType == [code : Codes, severity : {"error", "warn", "info"}, cost : Nat]

LEMMA IssuesOf ==
  ASSUME NEW s \in Seq(IssueType)
  PROVE  Len(s) \in Nat /\ \A k \in 1 .. Len(s) : s[k] \in IssueType /\ s[k].cost \in Nat
<1> DEFINE T == IssueType
<1>1. s \in Seq(T)
  OBVIOUS
<1> HIDE DEF T
<1>2. Len(s) \in Nat /\ \A k \in 1 .. Len(s) : s[k] \in T
  BY <1>1
<1>3. \A x \in T : x.cost \in Nat
  BY DEF T, IssueType
<1>. QED BY <1>2, <1>3 DEF T

\* What has been added up of the costs, issue by issue.
Adds(g, s) == /\ g \in [0 .. Len(s) -> Nat] /\ g[0] = 0
              /\ \A k \in 1 .. Len(s) : g[k] = g[k - 1] + s[k].cost

LEMMA CostRuns ==
  ASSUME NEW s \in Seq(IssueType)
  PROVE  \E g : Adds(g, s) /\ Cost(s) = g[Len(s)]
<1> DEFINE n == Len(s)
           H == Nat
           Next1(o, k) == o + s[k].cost
           Runs(g) == g = [k \in 0 .. n |-> IF k = 0 THEN 0 ELSE Next1(g[k - 1], k)]
           out == CHOOSE g : Runs(g)
           step == [k \in 1 .. n |-> [o \in H |-> Next1(o, k)]]
<1>0. n \in Nat /\ \A k \in 1 .. n : s[k] \in IssueType /\ s[k].cost \in Nat
  BY IssuesOf
<1>1. Cost(s) = out[n]
  BY DEF Cost
<1>2. 0 \in H /\ \A k \in 1 .. n : \A o \in H : Next1(o, k) \in H
  BY <1>0
<1> HIDE DEF H, Next1
<1>3. step \in StepsOn(n, H)
  BY <1>2 DEF StepsOn
<1>4. PICK g \in [0 .. n -> H] : g[0] = 0 /\ \A k \in 1 .. n : g[k] = step[k][g[k - 1]]
  <2> DEFINE e == 0
  <2>1. n \in Nat /\ e \in H
    BY <1>0, <1>2
  <2> HIDE DEF step, n, e
  <2>2. \E g : Computes(g, n, H, e, step)
    BY <1>3, <2>1, Recursion
  <2>. QED BY <2>2 DEF e, Computes
<1>5. Runs(g)
  <2>1. ASSUME NEW k \in 1 .. n PROVE g[k] = Next1(g[k - 1], k)
    <3>1. g[k - 1] \in H
      <4>1. k - 1 \in 0 .. n
        BY <1>0
      <4>. QED BY <1>4, <4>1
    <3>2. step[k] = [o \in H |-> Next1(o, k)]
      OBVIOUS
    <3> HIDE DEF step
    <3>. QED BY <1>4, <3>1, <3>2
  <2>2. \A k \in 0 .. n : k = 0 \/ k \in 1 .. n
    BY <1>0
  <2>. QED BY <1>4, <2>1, <2>2
<1>6. Runs(out)
  <2> HIDE DEF Runs
  <2>. QED BY <1>5
<1> HIDE DEF out, step
<1> DEFINE Good == {k \in 0 .. n : out[k] \in H}
<1>7. 0 \in Good
  BY <1>0, <1>2, <1>6
<1>8. ASSUME NEW k \in 1 .. n, k - 1 \in Good PROVE k \in Good
  <2>1. out[k] = Next1(out[k - 1], k)
    BY <1>0, <1>6
  <2>. QED BY <1>0, <1>2, <1>8, <2>1
<1>9. \A k \in 0 .. n : out[k] \in H
  <2> HIDE DEF Good
  <2>1. \A k \in 0 .. n : k \in Good
    BY <1>0, <1>7, <1>8, Induction
  <2>. QED BY <2>1 DEF Good
<1>10. out \in [0 .. n -> H] /\ out[0] = 0 /\ \A k \in 1 .. n : out[k] = Next1(out[k - 1], k)
  <2>1. out[0] = 0 /\ \A k \in 1 .. n : out[k] = Next1(out[k - 1], k)
    BY <1>0, <1>6
  <2> DEFINE term(k) == IF k = 0 THEN 0 ELSE Next1(out[k - 1], k)
  <2>2. out = [k \in 0 .. n |-> term(k)]
    BY <1>6
  <2> HIDE DEF term
  <2>3. out \in [0 .. n -> H]
    BY <1>9, <2>2
  <2>. QED BY <2>1, <2>3
<1>. QED BY <1>1, <1>10 DEF H, Next1, Adds

\* Costs add up along sequences, and none is more than all.
LEMMA CostSum ==
  ASSUME NEW s \in Seq(IssueType), NEW t \in Seq(IssueType)
  PROVE  Cost(s) \in Nat /\ Cost(t) \in Nat /\ Cost(s \o t) = Cost(s) + Cost(t)
<1> DEFINE n == Len(s)
           m == Len(t)
           r == s \o t
<1>1. /\ n \in Nat /\ m \in Nat /\ r \in Seq(IssueType) /\ Len(r) = n + m
      /\ \A k \in 1 .. n : r[k] = s[k]
      /\ \A k \in 1 .. m : r[n + k] = t[k]
  BY ConcatProperties, LenProperties
<1>2. PICK f : Adds(f, s) /\ Cost(s) = f[n]
  BY CostRuns
<1>3. PICK g : Adds(g, t) /\ Cost(t) = g[m]
  BY CostRuns
<1>4. PICK h : Adds(h, r) /\ Cost(r) = h[n + m]
  BY <1>1, CostRuns
<1> HIDE DEF n, m, r
<1>5. /\ f \in [0 .. n -> Nat] /\ f[0] = 0 /\ \A k \in 1 .. n : f[k] = f[k - 1] + s[k].cost
      /\ g \in [0 .. m -> Nat] /\ g[0] = 0 /\ \A k \in 1 .. m : g[k] = g[k - 1] + t[k].cost
      /\ h \in [0 .. n + m -> Nat] /\ h[0] = 0 /\ \A k \in 1 .. n + m : h[k] = h[k - 1] + r[k].cost
  BY <1>1, <1>2, <1>3, <1>4 DEF Adds, n, m
<1>6. h[n] = f[n]
  <2> DEFINE S == {k \in 0 .. n : h[k] = f[k]}
  <2>1. 0 \in S
    BY <1>1, <1>5
  <2>2. ASSUME NEW k \in 1 .. n, k - 1 \in S PROVE k \in S
    <3>1. k \in 1 .. n + m /\ k \in 0 .. n
      BY <1>1
    <3>. QED BY <1>1, <1>5, <2>2, <3>1, ZenonT(60)
  <2> HIDE DEF S
  <2>3. \A k \in 0 .. n : k \in S
    BY <1>1, <2>1, <2>2, Induction
  <2>4. n \in S
    BY <1>1, <2>3
  <2>. QED BY <2>4 DEF S
<1>7. h[n + m] = f[n] + g[m]
  <2> DEFINE S == {k \in 0 .. m : h[n + k] = f[n] + g[k]}
  <2>1. 0 \in S
    BY <1>1, <1>5, <1>6
  <2>2. ASSUME NEW k \in 1 .. m, k - 1 \in S PROVE k \in S
    <3>1. n + k \in 1 .. n + m /\ k \in 0 .. m /\ (n + k) - 1 = n + (k - 1) /\ k - 1 \in 0 .. m
      BY <1>1
    <3>2. h[n + k] = h[n + (k - 1)] + t[k].cost
      BY <1>1, <1>5, <3>1
    <3>3. g[k] = g[k - 1] + t[k].cost /\ h[n + (k - 1)] = f[n] + g[k - 1]
      BY <1>5, <2>2
    <3>4. t[k].cost \in Nat /\ f[n] \in Nat /\ g[k - 1] \in Nat
      <4>1. t[k].cost \in Nat
        BY IssuesOf DEF m
      <4>2. f[n] \in Nat
        BY <1>1, <1>5
      <4>. QED BY <1>1, <1>5, <3>1, <4>1, <4>2
    <3>. QED BY <3>1, <3>2, <3>3, <3>4
  <2> HIDE DEF S
  <2>3. \A k \in 0 .. m : k \in S
    BY <1>1, <2>1, <2>2, Induction
  <2>4. m \in S
    BY <1>1, <2>3
  <2>. QED BY <2>4 DEF S
<1>8. f[n] \in Nat /\ g[m] \in Nat
  BY <1>1, <1>5
<1>. QED BY <1>2, <1>3, <1>4, <1>7, <1>8 DEF r

LEMMA CostOfNone == Cost(<<>>) = 0
<1>1. <<>> \in Seq(IssueType) /\ Len(<<>>) = 0
  OBVIOUS
<1>2. PICK g : Adds(g, <<>>) /\ Cost(<<>>) = g[0]
  BY <1>1, CostRuns
<1>. QED BY <1>2 DEF Adds

LEMMA CostOfOne ==
  ASSUME NEW e \in IssueType
  PROVE  <<e>> \in Seq(IssueType) /\ Cost(<<e>>) = e.cost
<1> DEFINE s == <<e>>
<1>1. s \in Seq(IssueType) /\ Len(s) = 1 /\ s[1] = e
  OBVIOUS
<1>2. PICK g : Adds(g, s) /\ Cost(s) = g[1]
  BY <1>1, CostRuns
<1>3. g[0] = 0 /\ g[1] = g[1 - 1] + e.cost /\ e.cost \in Nat
  <2> HIDE DEF s
  <2>. QED BY <1>1, <1>2 DEF Adds, IssueType
<1>. QED BY <1>1, <1>2, <1>3

LEMMA CostOfEach ==
  ASSUME NEW s \in Seq(IssueType), NEW i \in 1 .. Len(s)
  PROVE  s[i].cost <= Cost(s)
<1>1. PICK g : Adds(g, s) /\ Cost(s) = g[Len(s)]
  BY CostRuns
<1> DEFINE n == Len(s)
           S == {k \in 0 .. n : \A j \in 1 .. n : j <= k => s[j].cost <= g[k]}
<1>2. n \in Nat /\ \A k \in 1 .. n : s[k].cost \in Nat
  BY IssuesOf
<1> HIDE DEF n
<1>3. g \in [0 .. n -> Nat] /\ \A k \in 1 .. n : g[k] = g[k - 1] + s[k].cost
  BY <1>1 DEF Adds, n
<1>4. 0 \in S
  BY <1>2
<1>5. ASSUME NEW k \in 1 .. n, k - 1 \in S PROVE k \in S
  <2>1. g[k] = g[k - 1] + s[k].cost /\ g[k - 1] \in Nat /\ s[k].cost \in Nat
    BY <1>2, <1>3
  <2>2. ASSUME NEW j \in 1 .. n, j <= k PROVE s[j].cost <= g[k]
    <3>1. CASE j = k
      BY <2>1, <3>1
    <3>2. CASE j # k
      <4>1. j <= k - 1 /\ s[j].cost \in Nat
        BY <1>2, <2>2, <3>2
      <4>. QED BY <1>5, <2>1, <4>1
    <3>. QED BY <3>1, <3>2
  <2>. QED BY <1>2, <2>2
<1> HIDE DEF S
<1>6. \A k \in 0 .. n : k \in S
  BY <1>2, <1>4, <1>5, Induction
<1>7. n \in S /\ i \in 1 .. n /\ i <= n
  BY <1>2, <1>6 DEF n
<1>. QED BY <1>1, <1>7 DEF S, n

\* Of two lists of issues, the second is no better.
Erring(s) == \E i \in DOMAIN s : s[i].severity = "error"
Worse(s, t) == (Erring(s) => Erring(t)) /\ (Erring(t) \/ Cost(s) <= Cost(t))

LEMMA ErringSum ==
  ASSUME NEW s \in Seq(IssueType), NEW t \in Seq(IssueType)
  PROVE  Erring(s \o t) <=> (Erring(s) \/ Erring(t))
<1> DEFINE n == Len(s)
           m == Len(t)
           r == s \o t
<1>1. /\ n \in Nat /\ m \in Nat /\ DOMAIN r = 1 .. n + m /\ DOMAIN s = 1 .. n /\ DOMAIN t = 1 .. m
      /\ \A k \in 1 .. n : r[k] = s[k]
      /\ \A k \in 1 .. m : r[n + k] = t[k]
  BY ConcatProperties, LenProperties
<1> HIDE DEF n, m, r
<1>2. ASSUME Erring(r) PROVE Erring(s) \/ Erring(t)
  <2>1. PICK i \in 1 .. n + m : r[i].severity = "error"
    BY <1>1, <1>2 DEF Erring
  <2>2. CASE i <= n
    BY <1>1, <2>1, <2>2 DEF Erring
  <2>3. CASE ~(i <= n)
    <3>1. i - n \in 1 .. m /\ n + (i - n) = i
      BY <1>1, <2>3
    <3>2. r[i] = t[i - n]
      BY <1>1, <3>1
    <3>. QED BY <1>1, <2>1, <3>1, <3>2 DEF Erring
  <2>. QED BY <2>2, <2>3
<1>3. ASSUME Erring(s) PROVE Erring(r)
  BY <1>1, <1>3 DEF Erring
<1>4. ASSUME Erring(t) PROVE Erring(r)
  <2>1. PICK i \in 1 .. m : t[i].severity = "error"
    BY <1>1, <1>4 DEF Erring
  <2>2. n + i \in 1 .. n + m /\ r[n + i] = t[i]
    BY <1>1
  <2>. QED BY <1>1, <2>1, <2>2 DEF Erring
<1>. QED BY <1>2, <1>3, <1>4 DEF r

LEMMA WorseVerdict ==
  ASSUME NEW f \in Seq(IssueType), NEW s \in Seq(IssueType), NEW t \in Seq(IssueType),
         NEW s2 \in Seq(IssueType), NEW t2 \in Seq(IssueType), Worse(s, s2), Worse(t, t2)
  PROVE  gradeFor((f \o s2) \o t2) <= gradeFor((f \o s) \o t)
<1> DEFINE a == (f \o s) \o t
           b == (f \o s2) \o t2
<1>1. /\ f \o s \in Seq(IssueType) /\ f \o s2 \in Seq(IssueType)
      /\ a \in Seq(IssueType) /\ b \in Seq(IssueType)
  BY ConcatProperties
<1>2. /\ Erring(a) <=> (Erring(f) \/ Erring(s) \/ Erring(t))
      /\ Erring(b) <=> (Erring(f) \/ Erring(s2) \/ Erring(t2))
  BY <1>1, ErringSum
<1>3. Cost(a) = Cost(f) + Cost(s) + Cost(t) /\ Cost(b) = Cost(f) + Cost(s2) + Cost(t2)
  <2>1. Cost(a) = Cost(f \o s) + Cost(t) /\ Cost(b) = Cost(f \o s2) + Cost(t2)
    BY <1>1, CostSum
  <2>2. Cost(f \o s) = Cost(f) + Cost(s) /\ Cost(f \o s2) = Cost(f) + Cost(s2)
    BY CostSum
  <2>. QED BY <2>1, <2>2
<1>4. /\ Cost(f) \in Nat /\ Cost(s) \in Nat /\ Cost(t) \in Nat /\ Cost(s2) \in Nat /\ Cost(t2) \in Nat
      /\ Cost(a) \in Nat /\ Cost(b) \in Nat
  BY <1>1, CostSum
<1> HIDE DEF a, b
<1>5. /\ gradeFor(a) = IF Erring(a) THEN 0 ELSE IF Score(a) >= 95 THEN 3 ELSE IF Score(a) >= 75 THEN 2 ELSE 1
      /\ gradeFor(b) = IF Erring(b) THEN 0 ELSE IF Score(b) >= 95 THEN 3 ELSE IF Score(b) >= 75 THEN 2 ELSE 1
  BY DEF gradeFor, Erring
<1>6. Erring(b) \/ (~Erring(a) /\ Score(b) <= Score(a))
  <2>1. Erring(b) \/ Cost(a) <= Cost(b)
    BY <1>2, <1>3, <1>4, SMTT(30) DEF Worse
  <2>2. Erring(a) => Erring(b)
    BY <1>2 DEF Worse
  <2>. QED BY <1>4, <2>1, <2>2 DEF Score, Largest
<1>7. Score(a) \in Int /\ Score(b) \in Int
  BY <1>4 DEF Score, Largest
<1>. QED BY <1>5, <1>6, <1>7 DEF a, b

\* The checks before the logo's, and the one after it.
Leading(c) ==
  LET s == c.style
      want == specQuietZone(c.symbology)
  IN  (IF BelowHard(s.fg, s.bg) THEN <<Issue("LOW_CONTRAST", "error", 70)>>
       ELSE When(BelowSoft(s.fg, s.bg), Issue("MARGINAL_CONTRAST", "warn", 25)))
      \o When(s.fg > s.bg, Issue("INVERTED", "warn", 20))
      \o When(s.alpha # "opaque",
              Issue("TRANSPARENT_BACKGROUND", "warn", IF s.alpha = "none" THEN 20 ELSE 15))
      \o When(c.quiet < want,
              IF c.quiet = 0 THEN Issue("QUIET_ZONE_TOO_SMALL", "error", 60)
              ELSE Issue("QUIET_ZONE_TOO_SMALL", "warn", 25))
      \o When(s.eye >= 0 /\ BelowHard(s.eye, s.bg), Issue("LOW_EYE_CONTRAST", "error", 60))
      \o checkGradient(c)
Thin(c)  == 20 * Cardinality(c.dark) < c.cols * c.rows
Thick(c) == 20 * Cardinality(c.dark) > 19 * (c.cols * c.rows)
Dense(c) == When(Thin(c) \/ Thick(c), Issue("DEGENERATE_MATRIX", "error", 90))

LEMMA FindingsAre ==
  ASSUME NEW c, c.cols \in Nat, c.rows \in Nat
  PROVE  Findings(c) = (Leading(c) \o checkLogo(c)) \o Dense(c)
<1> DEFINE n == Cardinality(c.dark)
           all == c.cols * c.rows
<1>1. 19 * all = 19 * (c.cols * c.rows)
  OBVIOUS
<1>2. Findings(c) = (Leading(c) \o checkLogo(c))
                    \o When(20 * n < all \/ 20 * n > 19 * all, Issue("DEGENERATE_MATRIX", "error", 90))
  BY Zenon DEF Findings, Leading
<1>. QED BY <1>2 DEF Dense, Thin, Thick

LEMMA WhenIs ==
  ASSUME NEW found, NEW e \in IssueType
  PROVE  When(found, e) \in Seq(IssueType)
BY DEF When

LEMMA FrontIs ==
  ASSUME NEW c
  PROVE  Leading(c) \in Seq(IssueType)
<1> DEFINE s == c.style
           p1 == IF BelowHard(s.fg, s.bg) THEN <<Issue("LOW_CONTRAST", "error", 70)>>
                 ELSE When(BelowSoft(s.fg, s.bg), Issue("MARGINAL_CONTRAST", "warn", 25))
           p2 == When(s.fg > s.bg, Issue("INVERTED", "warn", 20))
           p3 == When(s.alpha # "opaque",
                      Issue("TRANSPARENT_BACKGROUND", "warn", IF s.alpha = "none" THEN 20 ELSE 15))
           p4 == When(c.quiet < specQuietZone(c.symbology),
                      IF c.quiet = 0 THEN Issue("QUIET_ZONE_TOO_SMALL", "error", 60)
                      ELSE Issue("QUIET_ZONE_TOO_SMALL", "warn", 25))
           p5 == When(s.eye >= 0 /\ BelowHard(s.eye, s.bg), Issue("LOW_EYE_CONTRAST", "error", 60))
           p6 == checkGradient(c)
<1>1. /\ Issue("LOW_CONTRAST", "error", 70) \in IssueType
      /\ Issue("MARGINAL_CONTRAST", "warn", 25) \in IssueType
      /\ Issue("INVERTED", "warn", 20) \in IssueType
      /\ Issue("TRANSPARENT_BACKGROUND", "warn", IF s.alpha = "none" THEN 20 ELSE 15) \in IssueType
      /\ Issue("QUIET_ZONE_TOO_SMALL", "error", 60) \in IssueType
      /\ Issue("QUIET_ZONE_TOO_SMALL", "warn", 25) \in IssueType
      /\ Issue("LOW_EYE_CONTRAST", "error", 60) \in IssueType
      /\ Issue("GRADIENT_LOW_CONTRAST", "error", 70) \in IssueType
      /\ Issue("GRADIENT_FADES_OUT", "warn", 30) \in IssueType
  <2>1. Issue("LOW_CONTRAST", "error", 70) \in IssueType
    BY DEF Issue, IssueType, Codes
  <2>2. Issue("MARGINAL_CONTRAST", "warn", 25) \in IssueType
    BY DEF Issue, IssueType, Codes
  <2>3. Issue("INVERTED", "warn", 20) \in IssueType
    BY DEF Issue, IssueType, Codes
  <2>4. Issue("TRANSPARENT_BACKGROUND", "warn", IF s.alpha = "none" THEN 20 ELSE 15) \in IssueType
    BY DEF Issue, IssueType, Codes
  <2>5. Issue("QUIET_ZONE_TOO_SMALL", "error", 60) \in IssueType
    BY DEF Issue, IssueType, Codes
  <2>6. Issue("QUIET_ZONE_TOO_SMALL", "warn", 25) \in IssueType
    BY DEF Issue, IssueType, Codes
  <2>7. Issue("LOW_EYE_CONTRAST", "error", 60) \in IssueType
    BY DEF Issue, IssueType, Codes
  <2>8. Issue("GRADIENT_LOW_CONTRAST", "error", 70) \in IssueType
    BY DEF Issue, IssueType, Codes
  <2>9. Issue("GRADIENT_FADES_OUT", "warn", 30) \in IssueType
    BY DEF Issue, IssueType, Codes
  <2>. QED BY <2>1, <2>2, <2>3, <2>4, <2>5, <2>6, <2>7, <2>8, <2>9
<1>2. p1 \in Seq(IssueType)
  BY <1>1, WhenIs
<1>3. p2 \in Seq(IssueType)
  BY <1>1, WhenIs
<1>4. p3 \in Seq(IssueType)
  BY <1>1, WhenIs
<1>5. p4 \in Seq(IssueType)
  BY <1>1, WhenIs
<1>6. p5 \in Seq(IssueType)
  BY <1>1, WhenIs
<1>7. p6 \in Seq(IssueType)
  <2> DEFINE stops == Y!Range(c.style.stops)
             all == \A l \in stops : BelowHard(l, c.style.bg)
             some == \E l \in stops : BelowHard(l, c.style.bg)
             none == stops = {}
  <2>1. p6 = IF none THEN <<>> ELSE IF all THEN <<Issue("GRADIENT_LOW_CONTRAST", "error", 70)>>
             ELSE When(some, Issue("GRADIENT_FADES_OUT", "warn", 30))
    BY Zenon DEF checkGradient, Y!Range, Range
  <2> HIDE DEF all, some, none
  <2>. QED BY <1>1, <2>1, WhenIs
<1>8. Leading(c) = (((((p1 \o p2) \o p3) \o p4) \o p5) \o p6)
  BY Zenon DEF Leading
<1> HIDE DEF p1, p2, p3, p4, p5, p6
<1>. QED BY <1>2, <1>3, <1>4, <1>5, <1>6, <1>7, <1>8, ConcatProperties

\* What checkLogo says: nothing, an error, or a warning that costs 30, or a remark.
LEMMA LogoSays ==
  ASSUME NEW c, c.style.logo.on,
         Covers(c, 25) => Covers(c, 8), Covers(c, 8) => Covers(c, 4), Covers(c, 4) => Covers(c, 0)
  PROVE  /\ checkLogo(c) \in Seq(IssueType)
         /\ Erring(checkLogo(c)) <=> (Covers(c, 0) /\ (c.style.ecc = "L" \/ Covers(c, 25)))
         /\ ~Erring(checkLogo(c)) =>
               Cost(checkLogo(c)) = IF Covers(c, 8) /\ c.style.ecc # "H" THEN 30 ELSE 0
<1> DEFINE out == checkLogo(c)
           Says(e) == /\ out \in Seq(IssueType) /\ (Erring(out) <=> e.severity = "error")
                      /\ Cost(out) = e.cost
<1>1. ASSUME NEW e \in IssueType, out = <<e>> PROVE Says(e)
  <2>1. <<e>> \in Seq(IssueType) /\ Cost(<<e>>) = e.cost
    BY CostOfOne
  <2>2. Erring(<<e>>) <=> e.severity = "error"
    BY DEF Erring
  <2> HIDE DEF out
  <2>. QED BY <1>1, <2>1, <2>2
<1>2. ASSUME out = <<>> PROVE out \in Seq(IssueType) /\ ~Erring(out) /\ Cost(out) = 0
  <2>1. ~Erring(<<>>) /\ <<>> \in Seq(IssueType)
    BY DEF Erring
  <2> HIDE DEF out
  <2>. QED BY <1>2, <2>1, CostOfNone
<1> DEFINE lowest == Issue("LOGO_AT_LOWEST_ECC", "error", 80)
           huge == Issue("LOGO_TOO_LARGE", "error", 80)
           beyond == Issue("LOGO_EXCEEDS_ECC", "warn", 30)
           near == Issue("LOGO_NEAR_ECC_BUDGET", "info", 0)
           large == Issue("LOGO_LARGE", "info", 0)
<1>3. /\ lowest \in IssueType /\ lowest.severity = "error" /\ lowest.cost = 80
      /\ huge \in IssueType /\ huge.severity = "error" /\ huge.cost = 80
      /\ beyond \in IssueType /\ beyond.severity # "error" /\ beyond.cost = 30
      /\ near \in IssueType /\ near.severity # "error" /\ near.cost = 0
      /\ large \in IssueType /\ large.severity # "error" /\ large.cost = 0
  <2>1. lowest \in IssueType /\ lowest.severity = "error" /\ lowest.cost = 80
    BY DEF Issue, IssueType, Codes
  <2>2. huge \in IssueType /\ huge.severity = "error" /\ huge.cost = 80
    BY DEF Issue, IssueType, Codes
  <2>3. beyond \in IssueType /\ beyond.severity # "error" /\ beyond.cost = 30
    BY DEF Issue, IssueType, Codes
  <2>4. near \in IssueType /\ near.severity # "error" /\ near.cost = 0
    BY DEF Issue, IssueType, Codes
  <2>5. large \in IssueType /\ large.severity # "error" /\ large.cost = 0
    BY DEF Issue, IssueType, Codes
  <2> HIDE DEF lowest, huge, beyond, near, large
  <2>. QED BY <2>1, <2>2, <2>3, <2>4, <2>5
<1>4. out = IF ~Covers(c, 0) THEN <<>>
            ELSE IF c.style.ecc = "L" THEN <<lowest>>
            ELSE IF Covers(c, 25) THEN <<huge>>
            ELSE IF Covers(c, 8) /\ c.style.ecc # "H" THEN <<beyond>>
            ELSE IF Covers(c, 4) /\ c.style.ecc \in {"M", "Q"} THEN <<near>>
            ELSE IF Covers(c, 8) THEN <<large>> ELSE <<>>
  BY DEF checkLogo, When
<1> HIDE DEF lowest, huge, beyond, near, large, Says
<1> DEFINE Goal == /\ out \in Seq(IssueType)
                   /\ Erring(out) <=> (Covers(c, 0) /\ (c.style.ecc = "L" \/ Covers(c, 25)))
                   /\ ~Erring(out) => Cost(out) = IF Covers(c, 8) /\ c.style.ecc # "H" THEN 30 ELSE 0
<1> SUFFICES Goal
  OBVIOUS
<1>5. CASE out = <<lowest>> /\ Covers(c, 0) /\ c.style.ecc = "L"
  <2>1. Says(lowest)
    BY <1>1, <1>3, <1>5
  <2> HIDE DEF out
  <2>. QED BY <1>3, <1>5, <2>1 DEF Says
<1>6. CASE out = <<huge>> /\ Covers(c, 0) /\ Covers(c, 25)
  <2>1. Says(huge)
    BY <1>1, <1>3, <1>6
  <2> HIDE DEF out
  <2>. QED BY <1>3, <1>6, <2>1 DEF Says
<1>7. CASE out = <<beyond>> /\ ~(c.style.ecc = "L") /\ ~Covers(c, 25) /\ Covers(c, 8) /\ c.style.ecc # "H"
  <2>1. Says(beyond)
    BY <1>1, <1>3, <1>7
  <2> HIDE DEF out
  <2>. QED BY <1>3, <1>7, <2>1 DEF Says
<1>8. CASE /\ out = <<near>> \/ out = <<large>>
           /\ ~(c.style.ecc = "L") /\ ~Covers(c, 25) /\ ~(Covers(c, 8) /\ c.style.ecc # "H")
  <2>1. Says(near) \/ Says(large)
    BY <1>1, <1>3, <1>8
  <2> HIDE DEF out
  <2>. QED BY <1>3, <1>8, <2>1 DEF Says
<1>9. CASE /\ out = <<>>
           /\ ~Covers(c, 0) \/ (~(c.style.ecc = "L") /\ ~Covers(c, 25) /\ ~(Covers(c, 8) /\ c.style.ecc # "H"))
  <2>1. out \in Seq(IssueType) /\ ~Erring(out) /\ Cost(out) = 0
    BY <1>2, <1>9
  <2> HIDE DEF out
  <2>. QED BY <1>9, <2>1
<1> HIDE DEF out, Goal
<1>. QED
  BY <1>4, <1>5, <1>6, <1>7, <1>8, <1>9

\* A rectangle that is not inside out, and one inside another.
Upright(r) == r.x0 \in Int /\ r.x1 \in Int /\ r.y0 \in Int /\ r.y1 \in Int /\ r.x0 <= r.x1 /\ r.y0 <= r.y1
Within(r, s) == s.x0 <= r.x0 /\ s.y0 <= r.y0 /\ r.x1 <= s.x1 /\ r.y1 <= s.y1

LEMMA AreaGrows ==
  ASSUME NEW r, NEW s, Upright(r), Upright(s), Within(r, s)
  PROVE  Area(r) \in Nat /\ Area(s) \in Nat /\ Area(r) <= Area(s) /\ Points(r) \subseteq Points(s)
<1> DEFINE a == Wider(r)
           b == Taller(r)
           c == Wider(s)
           d == Taller(s)
<1>1. a \in Nat /\ b \in Nat /\ c \in Nat /\ d \in Nat /\ a <= c /\ b <= d
  BY DEF Wider, Taller, Upright, Within
<1> HIDE DEF a, b, c, d
<1>2. a * b \in Nat /\ c * d \in Nat /\ a * b <= c * d
  BY <1>1
<1>3. Points(r) \subseteq Points(s)
  BY DEF Points, Upright, Within
<1>. QED BY <1>2, <1>3 DEF Area, a, b, c, d

\* A logo's side before it is cut to the symbol's, and after.
LogoSide(side, scale) == Largest(1, Rounded(side * scale, 100))
LogoHeight(side, scale, w, h) == Largest(1, Rounded(LogoSide(side, scale) * h, w))

LEMMA RoundedGrows ==
  ASSUME NEW a \in Nat, NEW b \in Nat, a <= b, NEW n \in Nat \ {0}
  PROVE  Rounded(a, n) \in Nat /\ Rounded(b, n) \in Nat /\ Rounded(a, n) <= Rounded(b, n)
<1> DEFINE p == 2 * a + n
           q == 2 * b + n
           d == 2 * n
<1>1. p \in Nat /\ q \in Nat /\ d \in Nat \ {0} /\ p <= q
  OBVIOUS
<1> HIDE DEF p, q, d
<1>2. p \div d \in Nat /\ q \div d \in Nat /\ p \div d <= q \div d
  BY <1>1
<1>. QED BY <1>2 DEF Rounded, p, q, d

LEMMA LogoGrows ==
  ASSUME NEW side \in Nat, NEW j \in Nat, NEW k \in Nat, j <= k, NEW w \in Nat \ {0}, NEW h \in Nat
  PROVE  /\ LogoSide(side, j) \in Nat /\ LogoSide(side, k) \in Nat /\ 1 <= LogoSide(side, j)
         /\ LogoSide(side, j) <= LogoSide(side, k)
         /\ LogoHeight(side, j, w, h) \in Nat /\ LogoHeight(side, k, w, h) \in Nat
         /\ 1 <= LogoHeight(side, j, w, h)
         /\ LogoHeight(side, j, w, h) <= LogoHeight(side, k, w, h)
<1>1. side * j \in Nat /\ side * k \in Nat /\ side * j <= side * k
  <2>1. side * j \in Nat
    OBVIOUS
  <2>2. side * k \in Nat
    OBVIOUS
  <2>3. side * j <= side * k
    <3> DEFINE d == k - j
    <3>1. d \in Nat /\ k = j + d
      OBVIOUS
    <3> HIDE DEF d
    <3>2. side * k = side * j + side * d /\ side * d \in Nat
      BY <3>1
    <3>. QED BY <2>1, <3>2
  <2>. QED BY <2>1, <2>2, <2>3
<1>2. /\ Rounded(side * j, 100) \in Nat /\ Rounded(side * k, 100) \in Nat
      /\ Rounded(side * j, 100) <= Rounded(side * k, 100)
  <2> DEFINE p == side * j
             q == side * k
  <2>1. p \in Nat /\ q \in Nat /\ p <= q
    BY <1>1
  <2> HIDE DEF p, q
  <2>2. Rounded(p, 100) \in Nat /\ Rounded(q, 100) \in Nat /\ Rounded(p, 100) <= Rounded(q, 100)
    BY <2>1, RoundedGrows
  <2>. QED BY <2>2 DEF p, q
<1>3. /\ LogoSide(side, j) \in Nat /\ LogoSide(side, k) \in Nat /\ 1 <= LogoSide(side, j)
      /\ LogoSide(side, j) <= LogoSide(side, k)
  BY <1>2 DEF LogoSide, Largest
<1> DEFINE a == LogoSide(side, j) * h
           b == LogoSide(side, k) * h
<1>4. a \in Nat /\ b \in Nat /\ a <= b
  <2> DEFINE p == LogoSide(side, j)
             q == LogoSide(side, k)
  <2>1. p \in Nat /\ q \in Nat /\ p <= q
    BY <1>3
  <2> HIDE DEF p, q
  <2>2. p * h \in Nat /\ q * h \in Nat /\ p * h <= q * h
    BY <2>1
  <2>. QED BY <2>2 DEF p, q
<1> HIDE DEF a, b
<1>5. Rounded(a, w) \in Nat /\ Rounded(b, w) \in Nat /\ Rounded(a, w) <= Rounded(b, w)
  BY <1>4, RoundedGrows
<1>6. LogoHeight(side, j, w, h) = Largest(1, Rounded(a, w)) /\ LogoHeight(side, k, w, h) = Largest(1, Rounded(b, w))
  BY DEF LogoHeight, a, b
<1>. QED BY <1>3, <1>5, <1>6 DEF Largest

LEMMA CentredGrows ==
  ASSUME NEW sym, Upright(sym), NEW w \in Nat, NEW h \in Nat, NEW w2 \in Nat, NEW h2 \in Nat,
         w <= w2, h <= h2, w2 <= Wider(sym), h2 <= Taller(sym)
  PROVE  /\ Upright(Centred(sym, w, h)) /\ Upright(Centred(sym, w2, h2))
         /\ Within(Centred(sym, w, h), Centred(sym, w2, h2)) /\ Within(Centred(sym, w2, h2), sym)
<1> DEFINE x == sym.x0
           y == sym.y0
           a == Wider(sym)
           b == Taller(sym)
           l == (a - w) \div 2
           t == (b - h) \div 2
           l2 == (a - w2) \div 2
           t2 == (b - h2) \div 2
           r == Centred(sym, w, h)
           r2 == Centred(sym, w2, h2)
<1>1. x \in Int /\ y \in Int /\ a \in Nat /\ b \in Nat /\ sym.x1 = x + a /\ sym.y1 = y + b
  BY DEF Upright, Wider, Taller
<1>2. /\ r.x0 = x + l /\ r.y0 = y + t /\ r.x1 = (x + l) + w /\ r.y1 = (y + t) + h
      /\ r2.x0 = x + l2 /\ r2.y0 = y + t2 /\ r2.x1 = (x + l2) + w2 /\ r2.y1 = (y + t2) + h2
  BY DEF Centred, Sized, Rect
<1> HIDE DEF a, b, x, y, r, r2
<1>3. /\ l \in Nat /\ t \in Nat /\ l2 \in Nat /\ t2 \in Nat /\ l2 <= l /\ t2 <= t
      /\ l + w <= l2 + w2 /\ t + h <= t2 + h2 /\ l2 + w2 <= a /\ t2 + h2 <= b
  BY <1>1 DEF a, b
<1> HIDE DEF l, t, l2, t2
<1>4. Upright(r) /\ Upright(r2)
  BY <1>1, <1>2, <1>3 DEF Upright
<1>5. Within(r, r2)
  BY <1>1, <1>2, <1>3 DEF Within
<1>6. Within(r2, sym)
  BY <1>1, <1>2, <1>3 DEF Within, x, y
<1>. QED BY <1>4, <1>5, <1>6 DEF r, r2

\* A logo with its clear space, cut to the symbol.
Hole(sym, r, n) == Meet(Inset(r, -n), sym)

LEMMA HoleGrows ==
  ASSUME NEW sym, NEW r, NEW r2, NEW n \in Nat, Upright(sym), Upright(r), Upright(r2), Within(r, r2),
         Within(r2, sym)
  PROVE  /\ Upright(Hole(sym, r, n)) /\ Upright(Hole(sym, r2, n))
         /\ Within(Hole(sym, r, n), Hole(sym, r2, n)) /\ Within(Hole(sym, r2, n), sym)
<1> DEFINE u == Hole(sym, r, n)
           v == Hole(sym, r2, n)
<1>1. /\ u.x0 = Largest(r.x0 + (-n), sym.x0) /\ u.y0 = Largest(r.y0 + (-n), sym.y0)
      /\ u.x1 = Least(r.x1 - (-n), sym.x1) /\ u.y1 = Least(r.y1 - (-n), sym.y1)
      /\ v.x0 = Largest(r2.x0 + (-n), sym.x0) /\ v.y0 = Largest(r2.y0 + (-n), sym.y0)
      /\ v.x1 = Least(r2.x1 - (-n), sym.x1) /\ v.y1 = Least(r2.y1 - (-n), sym.y1)
  BY DEF Hole, Meet, Inset, Rect
<1> HIDE DEF u, v
<1>2. Upright(u) /\ Upright(v)
  BY <1>1 DEF Upright, Within, Largest, Least
<1>3. Within(u, v)
  BY <1>1 DEF Upright, Within, Largest, Least
<1>4. Within(v, sym)
  BY <1>1 DEF Upright, Within, Largest, Least
<1>. QED BY <1>2, <1>3, <1>4 DEF u, v

\* What LogoRect and excavateRect are, for a style that Render takes.
LEMMA HoleIs ==
  ASSUME NEW c, c.style.logo.on, c.style.logo.scale \in 1 .. 100, c.style.logo.pad \in Nat,
         c.style.logo.w \in Nat \ {0}, c.style.logo.h \in Nat,
         NEW sym, sym = SymbolRect(c), Upright(sym), Wider(sym) > 0, Taller(sym) > 0
  PROVE  excavateRect(c) =
           Hole(sym, Centred(sym, Least(LogoSide(Wider(sym), c.style.logo.scale), Wider(sym)),
                             Least(LogoHeight(Wider(sym), c.style.logo.scale, c.style.logo.w, c.style.logo.h),
                                   Taller(sym))),
                c.style.logo.pad)
<1> DEFINE logo == c.style.logo
           k == logo.scale
           wide == Largest(1, Rounded(Wider(sym) * k, 100))
           w == Least(wide, Wider(sym))
           h == Least(Largest(1, Rounded(wide * logo.h, logo.w)), Taller(sym))
<1>1. ~Empty(sym) /\ ~(k <= 0)
  BY DEF Empty, Upright, Wider, Taller
<1>2. LogoRect(c) = IF ~c.style.logo.on \/ Empty(sym) THEN Rect(0, 0, 0, 0) ELSE Centred(sym, w, h)
  <2>1. LogoRect(c) = LogoIn(logo, sym, k)
    BY <1>1, LogoRectReads
  <2>. QED BY <2>1, Zenon DEF LogoIn
<1>3. LogoRect(c) = Centred(sym, w, h)
  BY <1>1, <1>2
<1>4. excavateRect(c) = Meet(Inset(LogoRect(c), -logo.pad), sym)
  BY DEF excavateRect
<1>5. w = Least(LogoSide(Wider(sym), k), Wider(sym))
  BY DEF LogoSide
<1>6. h = Least(LogoHeight(Wider(sym), k, logo.w, logo.h), Taller(sym))
  BY DEF LogoSide, LogoHeight
<1> HIDE DEF w, h, wide
<1>. QED BY <1>3, <1>4, <1>5, <1>6, Zenon DEF Hole

\* Two canvases that differ at most in their logos: the second's is no smaller.
LogoNoSmaller(c, d) ==
  /\ SymbolRect(d) = SymbolRect(c)
  /\ c.style.logo.on /\ d.style.logo.on
  /\ c.style.logo.scale \in 1 .. 100 /\ d.style.logo.scale \in 1 .. 100
  /\ c.style.logo.scale <= d.style.logo.scale
  /\ d.style.logo.pad = c.style.logo.pad /\ c.style.logo.pad \in Nat
  /\ d.style.logo.w = c.style.logo.w /\ c.style.logo.w \in Nat \ {0}
  /\ d.style.logo.h = c.style.logo.h /\ c.style.logo.h \in Nat
  /\ Upright(SymbolRect(c)) /\ Wider(SymbolRect(c)) > 0 /\ Taller(SymbolRect(c)) > 0

LEMMA HolesNested ==
  ASSUME NEW c, NEW d, LogoNoSmaller(c, d)
  PROVE  /\ Upright(excavateRect(c)) /\ Upright(excavateRect(d))
         /\ Within(excavateRect(c), excavateRect(d)) /\ Within(excavateRect(d), SymbolRect(c))
<1> DEFINE sym == SymbolRect(c)
           W == Wider(sym)
           H == Taller(sym)
           j == c.style.logo.scale
           k == d.style.logo.scale
           n == c.style.logo.pad
           a == c.style.logo.w
           b == c.style.logo.h
           w == Least(LogoSide(W, j), W)
           h == Least(LogoHeight(W, j, a, b), H)
           w2 == Least(LogoSide(W, k), W)
           h2 == Least(LogoHeight(W, k, a, b), H)
<1>1. /\ SymbolRect(d) = sym /\ c.style.logo.on /\ d.style.logo.on
      /\ j \in 1 .. 100 /\ k \in 1 .. 100 /\ j <= k /\ d.style.logo.pad = n /\ n \in Nat
      /\ d.style.logo.w = a /\ a \in Nat \ {0} /\ d.style.logo.h = b /\ b \in Nat
      /\ Upright(sym) /\ W > 0 /\ H > 0
  BY DEF LogoNoSmaller
<1>2. W \in Nat /\ H \in Nat
  BY <1>1 DEF Wider, Taller, Upright
<1>3. excavateRect(c) = Hole(sym, Centred(sym, w, h), n)
  BY <1>1, HoleIs
<1>4. excavateRect(d) = Hole(sym, Centred(sym, w2, h2), n)
  <2>1. /\ d.style.logo.on /\ d.style.logo.scale \in 1 .. 100 /\ d.style.logo.pad \in Nat
        /\ d.style.logo.w \in Nat \ {0} /\ d.style.logo.h \in Nat /\ sym = SymbolRect(d)
    BY <1>1
  <2> DEFINE e == d.style.logo
  <2>2. excavateRect(d) = Hole(sym, Centred(sym, Least(LogoSide(W, e.scale), W),
                                            Least(LogoHeight(W, e.scale, e.w, e.h), H)), e.pad)
    <3> HIDE DEF sym
    <3>. QED BY <1>1, <2>1, HoleIs
  <2>. QED BY <1>1, <2>2
<1> HIDE DEF sym, W, H, j, k, n, a, b
<1>5. /\ LogoSide(W, j) \in Nat /\ LogoSide(W, k) \in Nat /\ LogoSide(W, j) <= LogoSide(W, k)
      /\ LogoHeight(W, j, a, b) \in Nat /\ LogoHeight(W, k, a, b) \in Nat
      /\ LogoHeight(W, j, a, b) <= LogoHeight(W, k, a, b)
  <2>1. j \in Nat /\ k \in Nat
    BY <1>1
  <2>. QED BY <1>1, <1>2, <2>1, LogoGrows
<1>6. w \in Nat /\ h \in Nat /\ w2 \in Nat /\ h2 \in Nat /\ w <= w2 /\ h <= h2 /\ w2 <= W /\ h2 <= H
  BY <1>2, <1>5 DEF Least
<1> HIDE DEF w, h, w2, h2
<1> DEFINE r == Centred(sym, w, h)
           r2 == Centred(sym, w2, h2)
<1>7. Upright(r) /\ Upright(r2) /\ Within(r, r2) /\ Within(r2, sym)
  BY <1>1, <1>6, CentredGrows DEF W, H
<1> HIDE DEF r, r2
<1>8. /\ Upright(Hole(sym, r, n)) /\ Upright(Hole(sym, r2, n))
      /\ Within(Hole(sym, r, n), Hole(sym, r2, n)) /\ Within(Hole(sym, r2, n), sym)
  BY <1>1, <1>7, HoleGrows
<1>. QED BY <1>3, <1>4, <1>8 DEF r, r2, sym

\* The larger logo covers what the smaller one does, and a share that is covered
\* is more than every smaller share.
LEMMA CoversGrow ==
  ASSUME NEW c, NEW d, LogoNoSmaller(c, d)
  PROVE  /\ \A n \in Nat : Covers(c, n) => Covers(d, n)
         /\ \A i, n \in Nat : i <= n /\ Covers(c, n) => Covers(c, i)
         /\ \A i, n \in Nat : i <= n /\ Covers(d, n) => Covers(d, i)
         /\ Points(excavateRect(c)) \subseteq Points(excavateRect(d))
<1> DEFINE e == Area(excavateRect(c))
           f == Area(excavateRect(d))
           s == Area(SymbolRect(c))
<1>1. /\ Upright(excavateRect(c)) /\ Upright(excavateRect(d))
      /\ Within(excavateRect(c), excavateRect(d)) /\ Within(excavateRect(d), SymbolRect(c))
      /\ Upright(SymbolRect(c)) /\ SymbolRect(d) = SymbolRect(c)
  BY HolesNested DEF LogoNoSmaller
<1>2. /\ e \in Nat /\ f \in Nat /\ s \in Nat /\ e <= f
      /\ Points(excavateRect(c)) \subseteq Points(excavateRect(d))
  BY <1>1, AreaGrows
<1>3. \A n : /\ Covers(c, n) <=> 100 * e > n * s
             /\ Covers(d, n) <=> 100 * f > n * s
  BY <1>1 DEF Covers
<1> HIDE DEF e, f, s
<1>4. \A n \in Nat : n * s \in Nat
  BY <1>2
<1>5. \A i, n \in Nat : i <= n => i * s <= n * s
  BY <1>2
<1>6. ASSUME NEW n \in Nat, Covers(c, n) PROVE Covers(d, n)
  BY <1>2, <1>3, <1>4, <1>6
<1>7. ASSUME NEW i \in Nat, NEW n \in Nat, i <= n
      PROVE  (Covers(c, n) => Covers(c, i)) /\ (Covers(d, n) => Covers(d, i))
  <2> DEFINE p == i * s
             q == n * s
  <2>1. p \in Nat /\ q \in Nat /\ p <= q
    BY <1>4, <1>5, <1>7
  <2>2. /\ Covers(c, i) <=> 100 * e > p
        /\ Covers(c, n) <=> 100 * e > q
        /\ Covers(d, i) <=> 100 * f > p
        /\ Covers(d, n) <=> 100 * f > q
    BY <1>3
  <2> HIDE DEF p, q
  <2>. QED BY <1>2, <2>1, <2>2
<1>. QED BY <1>2, <1>6, <1>7

\* A canvas has the fields of one.
HasFields(c) == {"cols", "rows", "quiet", "pad", "band", "style", "symbology", "dark"} \subseteq DOMAIN c

LEMMA CanvasIs ==
  ASSUME NEW m, NEW s, Render(m, s).ok
  PROVE  HasFields(Render(m, s)) /\ Render(m, s).symbology = m.symbology
<1> DEFINE a1 == m.cols + 2 * Offset2(m, s)
           a2 == ExtrudedRows(m, s) + 2 * Offset2(m, s) + band(s)
           a3 == Quiet(m, s)
           a4 == pad(s.frame)
           a5 == band(s)
           a9 == IF s.hri THEN m.hri ELSE 0
           a10 == DarkOf(m, s)
           a11 == IF ~hasFinderPatterns(m) THEN {} ELSE EyesOf(m, s)
           a12 == IF ~hasFinderPatterns(m) THEN {} ELSE BallsOf(m, s)
           Plain(d) == [ok |-> TRUE, cols |-> a1, rows |-> a2, quiet |-> a3, pad |-> a4, band |-> a5, style |-> s,
                        symbology |-> m.symbology, kind |-> m.kind, hri |-> a9, dark |-> d,
                        eyes |-> a11, balls |-> a12]
           c == Render(m, s)
           Bad == m.cols <= 0 \/ m.rows <= 0 \/ BadStyle(s) \/ Quiet(m, s) < 0
           Cut == [Plain(a10) EXCEPT !.dark = excavate(Plain(a10))]
           Kept2 == s.logo.on /\ s.logo.excavate
<1>1. c = IF Bad THEN Refusal ELSE IF Kept2 THEN Cut ELSE Plain(a10)
  BY Zenon DEF Render, Quiet, Offset2, DarkOf, EyesOf, BallsOf
<1>2. c.ok /\ ~Refusal.ok
  BY DEF Refusal
<1> HIDE DEF a1, a2, a3, a4, a5, a9, a10, a11, a12, c
<1>3. c = Cut \/ c = Plain(a10)
  <2> HIDE DEF Bad, Cut, Plain, Kept2
  <2>. QED BY <1>1, <1>2
<1>4. HasFields(c) /\ c.symbology = m.symbology
  <2> DEFINE d == excavate(Plain(a10))
  <2>1. c = [Plain(a10) EXCEPT !.dark = d] \/ c = Plain(a10)
    BY <1>3
  <2> HIDE DEF d, Cut
  <2>2. CASE c = Plain(a10)
    BY <2>2 DEF HasFields
  <2>3. CASE c = [Plain(a10) EXCEPT !.dark = d]
    BY <2>3 DEF HasFields
  <2>. QED BY <2>1, <2>2, <2>3
<1>. QED BY <1>4 DEF c

\* The logo and its clear space follow from the symbol and the style.
LEMMA SameHole ==
  ASSUME NEW c, NEW d, SymbolRect(c) = SymbolRect(d), c.style.logo = d.style.logo
  PROVE  excavateRect(c) = excavateRect(d) /\ \A n : Covers(c, n) <=> Covers(d, n)
<1>1. LogoRect(c) = LogoRect(d)
  BY LogoRectReads, Zenon
<1>2. excavateRect(c) = excavateRect(d)
  BY <1>1, Zenon DEF excavateRect
<1>. QED BY <1>2 DEF Covers

\* Two canvases that differ at most in what the logo's check and the last look at.
SameLook(c, d) ==
  /\ c.cols = d.cols /\ c.rows = d.rows /\ c.quiet = d.quiet /\ c.pad = d.pad /\ c.band = d.band
  /\ c.symbology = d.symbology
  /\ c.style.fg = d.style.fg /\ c.style.bg = d.style.bg /\ c.style.alpha = d.style.alpha
  /\ c.style.eye = d.style.eye /\ c.style.stops = d.style.stops

LEMMA SameLeading ==
  ASSUME NEW c, NEW d, SameLook(c, d)
  PROVE  Leading(c) = Leading(d) /\ SymbolRect(c) = SymbolRect(d)
<1>1. checkGradient(c) = checkGradient(d)
  BY Zenon DEF SameLook, checkGradient
<1>2. SymbolRect(c) = SymbolRect(d)
  BY Zenon DEF SameLook, SymbolRect
<1>3. Leading(c) = Leading(d)
  <2> DEFINE L(fg, bg, alpha, eye, want, quiet, ramp) ==
               (IF BelowHard(fg, bg) THEN <<Issue("LOW_CONTRAST", "error", 70)>>
                ELSE When(BelowSoft(fg, bg), Issue("MARGINAL_CONTRAST", "warn", 25)))
               \o When(fg > bg, Issue("INVERTED", "warn", 20))
               \o When(alpha # "opaque",
                       Issue("TRANSPARENT_BACKGROUND", "warn", IF alpha = "none" THEN 20 ELSE 15))
               \o When(quiet < want, IF quiet = 0 THEN Issue("QUIET_ZONE_TOO_SMALL", "error", 60)
                                     ELSE Issue("QUIET_ZONE_TOO_SMALL", "warn", 25))
               \o When(eye >= 0 /\ BelowHard(eye, bg), Issue("LOW_EYE_CONTRAST", "error", 60))
               \o ramp
  <2>1. \A x : Leading(x) = L(x.style.fg, x.style.bg, x.style.alpha, x.style.eye,
                              specQuietZone(x.symbology), x.quiet, checkGradient(x))
    BY Zenon DEF Leading
  <2> HIDE DEF L
  <2>. QED BY <1>1, <2>1, Zenon DEF SameLook
<1>. QED BY <1>2, <1>3

\* A picture that is not nearly all dark is no better for fewer dark modules.
LEMMA DenseIs ==
  ASSUME NEW c, NEW d, SameLook(c, d), c.cols \in Nat, c.rows \in Nat, IsFiniteSet(c.dark),
         d.dark \subseteq c.dark, ~Thick(c)
  PROVE  Dense(c) \in Seq(IssueType) /\ Dense(d) \in Seq(IssueType) /\ Worse(Dense(c), Dense(d))
<1> DEFINE e == Issue("DEGENERATE_MATRIX", "error", 90)
           i == Cardinality(c.dark)
           j == Cardinality(d.dark)
           all == c.cols * c.rows
<1>1. e \in IssueType /\ e.severity = "error"
  BY DEF Issue, IssueType, Codes
<1>2. i \in Nat /\ j \in Nat /\ j <= i
  BY FS_Subset, FS_CardinalityType
<1>3. all \in Nat /\ d.cols * d.rows = all
  BY DEF SameLook
<1>4. (Thin(c) <=> 20 * i < all) /\ (Thin(d) <=> 20 * j < all)
  BY <1>3 DEF Thin
<1> HIDE DEF e, i, j, all
<1>5. Thin(c) => Thin(d)
  BY <1>2, <1>3, <1>4
<1>6. Dense(c) = When(Thin(c), e) /\ Dense(d) = When(Thin(d) \/ Thick(d), e)
  BY DEF Dense, e, When
<1>7. Dense(c) \in Seq(IssueType) /\ Dense(d) \in Seq(IssueType)
  <2>1. \A found : When(found, e) \in Seq(IssueType)
    BY <1>1, WhenIs
  <2>. QED BY <1>6, <2>1
<1>8. CASE Thin(c)
  <2>1. Dense(c) = Dense(d) /\ Cost(Dense(c)) \in Nat
    BY <1>5, <1>6, <1>7, <1>8, CostSum DEF When
  <2>. QED BY <1>7, <2>1 DEF Worse
<1>9. CASE ~Thin(c)
  <2>1. Dense(c) = <<>>
    BY <1>6, <1>9 DEF When
  <2>2. ~Erring(<<>>)
    BY DEF Erring
  <2>3. Cost(Dense(c)) = 0 /\ Cost(Dense(d)) \in Nat
    BY <1>7, <2>1, CostOfNone, CostSum
  <2>. QED BY <1>7, <2>1, <2>2, <2>3 DEF Worse
<1>. QED BY <1>8, <1>9

\* The area cut out for a logo is a whole number, whatever the logo.
LEMMA HoleWhole ==
  ASSUME NEW c, c.style.logo \in Logo, Upright(SymbolRect(c))
  PROVE  Area(excavateRect(c)) \in Int
<1> DEFINE sym == SymbolRect(c)
           logo == c.style.logo
           W == Wider(sym)
           H == Taller(sym)
           k == IF logo.scale <= 0 THEN DefaultLogoScale ELSE logo.scale
           p == Rounded(W * k, 100)
           wide == Largest(1, p)
           q == Rounded(wide * logo.h, logo.w)
           w == Least(wide, W)
           h == Least(Largest(1, q), H)
           Ints(r) == r.x0 \in Int /\ r.y0 \in Int /\ r.x1 \in Int /\ r.y1 \in Int
           r == LogoRect(c)
<1>1. /\ Ints(sym) /\ W \in Int /\ H \in Int
  BY DEF Upright, Wider, Taller
<1>2. k \in Int /\ logo.pad \in Int /\ logo.w \in Nat \ {0} /\ logo.h \in Nat \ {0}
  BY DEF Logo, DefaultLogoScale
<1>3. r = IF ~logo.on \/ Empty(sym) THEN Rect(0, 0, 0, 0)
          ELSE Sized(sym.x0 + (W - w) \div 2, sym.y0 + (H - h) \div 2, w, h)
  BY Zenon DEF LogoRect
<1>4. \A num \in Int, den \in Nat \ {0} : Rounded(num, den) \in Int
  BY DEF Rounded
<1>5. excavateRect(c) = IF ~logo.on THEN Rect(0, 0, 0, 0) ELSE Meet(Inset(r, -logo.pad), sym)
  BY Zenon DEF excavateRect
<1> HIDE DEF sym, W, H, k, p, wide, q, w, h, logo, r
<1>6. p \in Int /\ wide \in Int
  <2>1. W * k \in Int
    BY <1>1, <1>2
  <2>2. p \in Int
    BY <1>4, <2>1 DEF p
  <2>. QED BY <2>2 DEF Largest, wide
<1>7. q \in Int /\ w \in Int /\ h \in Int
  <2>1. wide * logo.h \in Int
    BY <1>2, <1>6
  <2>2. q \in Int
    BY <1>2, <1>4, <2>1 DEF q
  <2>. QED BY <1>1, <1>6, <2>2 DEF Largest, Least, w, h
<1>8. Ints(r)
  BY <1>1, <1>3, <1>7 DEF Rect, Sized
<1>9. Ints(excavateRect(c))
  BY <1>1, <1>2, <1>5, <1>8 DEF Rect, Meet, Inset, Largest, Least
<1>. QED BY <1>9 DEF Area, Wider, Taller

\* A share that is covered is more than every smaller share.
LEMMA SharesChain ==
  ASSUME NEW c, c.style.logo \in Logo, Upright(SymbolRect(c))
  PROVE  /\ Covers(c, 25) => Covers(c, 8)
         /\ Covers(c, 8) => Covers(c, 4)
         /\ Covers(c, 4) => Covers(c, 0)
<1> DEFINE e == Area(excavateRect(c))
           a == Area(SymbolRect(c))
<1>1. e \in Int
  BY HoleWhole
<1>2. a \in Nat
  <2>1. Within(SymbolRect(c), SymbolRect(c))
    BY DEF Within, Upright
  <2>. QED BY <2>1, AreaGrows
<1>3. \A n : Covers(c, n) <=> 100 * e > n * a
  BY DEF Covers
<1> HIDE DEF e, a
<1>. QED BY <1>1, <1>2, <1>3

\* What a canvas is, for what the report looks at.
LEMMA CanvasParts ==
  ASSUME NEW m \in Matrix, NEW s \in Style, Render(m, s).ok, m.cols >= 2 * BubbleTailModules
  PROVE  LET c == Render(m, s)
         IN  /\ c.cols \in Nat /\ c.rows \in Nat /\ IsFiniteSet(c.dark) /\ HasFields(c)
             /\ c.style = s /\ c.style.logo \in Logo /\ c.symbology = m.symbology
             /\ Upright(SymbolRect(c)) /\ Wider(SymbolRect(c)) > 0 /\ Taller(SymbolRect(c)) > 0
<1> DEFINE c == Render(m, s)
           o == Offset2(m, s)
           r == ExtrudedRows(m, s)
<1>1. Shape(m, s, c, o, r)
  BY ShapeIs
<1>2. c.dark \subseteq Points(SymbolRect(c))
  <2>1. Clear(c)
    BY DrawnClear
  <2>. QED BY <2>1 DEF Clear
<1>3. HasFields(c) /\ c.symbology = m.symbology
  BY CanvasIs
<1>4. s.logo \in Logo
  BY DEF Style
<1> HIDE DEF c, o, r
<1>5. /\ o \in Nat /\ r \in Nat /\ m.cols \in Nat /\ m.cols > 0 /\ r > 0
      /\ c.band \in {0, 4, 6} /\ c.style = s
      /\ c.cols = m.cols + 2 * o /\ c.rows = r + 2 * o + c.band
      /\ SymbolRect(c) = Rect(o, o, o + m.cols, o + r)
  BY <1>1 DEF Shape
<1>6. c.cols \in Nat /\ c.rows \in Nat
  BY <1>5
<1>7. Upright(SymbolRect(c)) /\ Wider(SymbolRect(c)) > 0 /\ Taller(SymbolRect(c)) > 0
  BY <1>5 DEF Rect, Upright, Wider, Taller
<1>8. IsFiniteSet(c.dark)
  <2>1. Points(SymbolRect(c)) = (o .. (o + m.cols - 1)) \X (o .. (o + r - 1))
    BY <1>5 DEF Points, Rect
  <2>2. IsFiniteSet(o .. (o + m.cols - 1)) /\ IsFiniteSet(o .. (o + r - 1))
    <3>1. \A i, j \in Int : IsFiniteSet(i .. j)
      BY FS_Interval
    <3>2. o \in Int /\ o + m.cols - 1 \in Int /\ o + r - 1 \in Int
      BY <1>5
    <3>. QED BY <3>1, <3>2
  <2>3. IsFiniteSet(Points(SymbolRect(c)))
    <3> DEFINE S == o .. (o + m.cols - 1)
               T == o .. (o + r - 1)
    <3>1. IsFiniteSet(S) /\ IsFiniteSet(T) /\ Points(SymbolRect(c)) = S \X T
      BY <2>1, <2>2
    <3> HIDE DEF S, T
    <3>. QED BY <3>1, FS_Product
  <2>. QED BY <1>2, <2>3, FS_Subset
<1>. QED BY <1>3, <1>4, <1>5, <1>6, <1>7, <1>8 DEF c

\* A logo check that is no better, and no more dark modules, is a verdict that is
\* no better.
LEMMA VerdictFalls ==
  ASSUME NEW c, NEW d, SameLook(c, d), c.cols \in Nat, c.rows \in Nat, IsFiniteSet(c.dark),
         d.dark \subseteq c.dark, ~Thick(c), checkLogo(c) \in Seq(IssueType), checkLogo(d) \in Seq(IssueType),
         Worse(checkLogo(c), checkLogo(d))
  PROVE  gradeFor(Findings(d)) <= gradeFor(Findings(c))
<1>1. Leading(c) = Leading(d) /\ Leading(c) \in Seq(IssueType)
  BY SameLeading, FrontIs
<1>2. Dense(c) \in Seq(IssueType) /\ Dense(d) \in Seq(IssueType) /\ Worse(Dense(c), Dense(d))
  BY DenseIs
<1>3. Findings(c) = (Leading(c) \o checkLogo(c)) \o Dense(c)
  BY FindingsAre
<1>4. Findings(d) = (Leading(c) \o checkLogo(d)) \o Dense(d)
  <2>1. d.cols \in Nat /\ d.rows \in Nat
    BY DEF SameLook
  <2>. QED BY <1>1, <2>1, FindingsAre
<1>. QED BY <1>1, <1>2, <1>3, <1>4, WorseVerdict

\* What Render takes.
LEMMA RenderTakes ==
  ASSUME NEW m, NEW s, ~(m.cols <= 0), ~(m.rows <= 0), ~BadStyle(s), ~(Quiet(m, s) < 0)
  PROVE  Render(m, s).ok
<1> DEFINE a1 == m.cols + 2 * Offset2(m, s)
           a2 == ExtrudedRows(m, s) + 2 * Offset2(m, s) + band(s)
           a3 == Quiet(m, s)
           a4 == pad(s.frame)
           a5 == band(s)
           a9 == IF s.hri THEN m.hri ELSE 0
           a10 == DarkOf(m, s)
           a11 == IF ~hasFinderPatterns(m) THEN {} ELSE EyesOf(m, s)
           a12 == IF ~hasFinderPatterns(m) THEN {} ELSE BallsOf(m, s)
           plain == [ok |-> TRUE, cols |-> a1, rows |-> a2, quiet |-> a3, pad |-> a4, band |-> a5, style |-> s,
                     symbology |-> m.symbology, kind |-> m.kind, hri |-> a9, dark |-> a10,
                     eyes |-> a11, balls |-> a12]
           c == Render(m, s)
           Bad == m.cols <= 0 \/ m.rows <= 0 \/ BadStyle(s) \/ Quiet(m, s) < 0
           Cut == [plain EXCEPT !.dark = excavate(plain)]
           Kept2 == s.logo.on /\ s.logo.excavate
<1>1. c = IF Bad THEN Refusal ELSE IF Kept2 THEN Cut ELSE plain
  BY Zenon DEF Render, Quiet, Offset2, DarkOf, EyesOf, BallsOf
<1>2. ~Bad
  OBVIOUS
<1> HIDE DEF a1, a2, a3, a4, a5, a9, a10, a11, a12, c, Bad, Kept2
<1>3. plain.ok
  OBVIOUS
<1>4. Cut.ok
  <2> DEFINE d == excavate(plain)
  <2> HIDE DEF d
  <2>1. [plain EXCEPT !.dark = d].ok
    OBVIOUS
  <2>. QED BY <2>1 DEF d
<1> HIDE DEF plain, Cut
<1>. QED BY <1>1, <1>2, <1>3, <1>4 DEF c

\* Of two levels, the second is no stronger.
NoStronger(x, y) == (x = "L" => y = "L") /\ (x # "H" => y # "H")

\* The check of a logo that covers no less, or at a level that is no stronger, is
\* no better.
LEMMA LogoCheckFalls ==
  ASSUME NEW c, NEW d, c.style.logo.on, d.style.logo.on, c.style.logo \in Logo, d.style.logo \in Logo,
         Upright(SymbolRect(c)), Upright(SymbolRect(d)), NoStronger(c.style.ecc, d.style.ecc),
         \A n \in Nat : Covers(c, n) => Covers(d, n)
  PROVE  /\ checkLogo(c) \in Seq(IssueType) /\ checkLogo(d) \in Seq(IssueType)
         /\ Worse(checkLogo(c), checkLogo(d))
<1> DEFINE s == checkLogo(c)
           t == checkLogo(d)
<1>1. /\ s \in Seq(IssueType)
      /\ Erring(s) <=> (Covers(c, 0) /\ (c.style.ecc = "L" \/ Covers(c, 25)))
      /\ ~Erring(s) => Cost(s) = IF Covers(c, 8) /\ c.style.ecc # "H" THEN 30 ELSE 0
  <2>1. /\ Covers(c, 25) => Covers(c, 8)
        /\ Covers(c, 8) => Covers(c, 4)
        /\ Covers(c, 4) => Covers(c, 0)
    BY SharesChain
  <2>. QED BY <2>1, LogoSays
<1>2. /\ t \in Seq(IssueType)
      /\ Erring(t) <=> (Covers(d, 0) /\ (d.style.ecc = "L" \/ Covers(d, 25)))
      /\ ~Erring(t) => Cost(t) = IF Covers(d, 8) /\ d.style.ecc # "H" THEN 30 ELSE 0
  <2>1. /\ Covers(d, 25) => Covers(d, 8)
        /\ Covers(d, 8) => Covers(d, 4)
        /\ Covers(d, 4) => Covers(d, 0)
    BY SharesChain
  <2>. QED BY <2>1, LogoSays
<1>3. (Covers(c, 0) => Covers(d, 0)) /\ (Covers(c, 8) => Covers(d, 8)) /\ (Covers(c, 25) => Covers(d, 25))
  OBVIOUS
<1> HIDE DEF s, t
<1>4. Erring(s) => Erring(t)
  BY <1>1, <1>2, <1>3 DEF NoStronger
<1>5. Erring(t) \/ Cost(s) <= Cost(t)
  <2> SUFFICES ASSUME ~Erring(t) PROVE Cost(s) <= Cost(t)
    OBVIOUS
  <2>1. /\ Cost(s) = IF Covers(c, 8) /\ c.style.ecc # "H" THEN 30 ELSE 0
        /\ Cost(t) = IF Covers(d, 8) /\ d.style.ecc # "H" THEN 30 ELSE 0
    BY <1>1, <1>2, <1>4
  <2>. QED BY <1>3, <2>1 DEF NoStronger
<1>. QED BY <1>1, <1>2, <1>4, <1>5 DEF Worse, s, t

\* The same design at a weaker level.
LEMMA WeakerIsWorse ==
  ASSUME NEW m \in Matrix, NEW s \in Style, Render(m, s).ok, m.cols >= 2 * BubbleTailModules, s.logo.on,
         ~Thick(Render(m, s)), NEW ecc, NoStronger(s.ecc, ecc)
  PROVE  gradeFor(Findings([Render(m, s) EXCEPT !.style.ecc = ecc])) <= gradeFor(Findings(Render(m, s)))
<1> DEFINE c == Render(m, s)
           t == [c.style EXCEPT !.ecc = ecc]
           d == [c EXCEPT !.style = t]
           e == [c EXCEPT !.style.ecc = ecc]
<1>1. /\ c.cols \in Nat /\ c.rows \in Nat /\ IsFiniteSet(c.dark) /\ HasFields(c)
      /\ c.style = s /\ c.style.logo \in Logo
      /\ Upright(SymbolRect(c))
  BY CanvasParts
<1>2. e = d
  OBVIOUS
<1>3. ~Thick(c) /\ s.logo.on /\ NoStronger(s.ecc, ecc)
  OBVIOUS
<1> HIDE DEF c, e
<1>4. /\ t.ecc = ecc /\ t.logo = s.logo /\ t.fg = s.fg /\ t.bg = s.bg /\ t.alpha = s.alpha
      /\ t.eye = s.eye /\ t.stops = s.stops
  BY <1>1 DEF Style
<1> HIDE DEF t
<1>5. /\ d.cols = c.cols /\ d.rows = c.rows /\ d.quiet = c.quiet /\ d.pad = c.pad /\ d.band = c.band
      /\ d.symbology = c.symbology /\ d.style = t /\ d.dark = c.dark
  BY <1>1 DEF HasFields
<1> HIDE DEF d
<1>6. SameLook(c, d)
  BY <1>1, <1>4, <1>5 DEF SameLook
<1>7. SymbolRect(c) = SymbolRect(d)
  BY <1>6, SameLeading
<1>8. excavateRect(c) = excavateRect(d) /\ \A n : Covers(c, n) <=> Covers(d, n)
  <2>1. c.style.logo = d.style.logo
    BY <1>1, <1>4, <1>5
  <2>. QED BY <1>7, <2>1, SameHole
<1>9. /\ checkLogo(c) \in Seq(IssueType) /\ checkLogo(d) \in Seq(IssueType)
      /\ Worse(checkLogo(c), checkLogo(d))
  <2>1. /\ c.style.logo.on /\ d.style.logo.on /\ c.style.logo \in Logo /\ d.style.logo \in Logo
        /\ Upright(SymbolRect(c)) /\ Upright(SymbolRect(d)) /\ NoStronger(c.style.ecc, d.style.ecc)
        /\ \A n \in Nat : Covers(c, n) => Covers(d, n)
    BY <1>1, <1>3, <1>4, <1>5, <1>7, <1>8
  <2>. QED BY <2>1, LogoCheckFalls
<1>10. gradeFor(Findings(d)) <= gradeFor(Findings(c))
  <2>1. d.dark \subseteq c.dark
    BY <1>5
  <2>. QED BY <1>1, <1>3, <1>6, <1>9, <2>1, VerdictFalls
<1>. QED BY <1>2, <1>10 DEF c, e

\* The same design with a larger logo.
LEMMA LargerIsWorse ==
  ASSUME NEW m \in Matrix, NEW s \in Style, Render(m, s).ok, m.cols >= 2 * BubbleTailModules, s.logo.on,
         ~Thick(Render(m, s)), s.logo.scale # 0
  PROVE  LET t == [s EXCEPT !.logo.scale = Least(35, @ + 5)]
         IN  gradeFor(Findings(Render(m, t))) <= gradeFor(Findings(Render(m, s)))
<1> DEFINE k == Least(35, s.logo.scale + 5)
           l == [s.logo EXCEPT !.scale = k]
           u == [s EXCEPT !.logo = l]
           t == [s EXCEPT !.logo.scale = Least(35, @ + 5)]
           c == Render(m, s)
           d == Render(m, u)
<1>1. t = u
  OBVIOUS
<1>2. Made(m, s, c)
  BY RenderIs
<1>3. s.logo.scale \in 5 .. 35 /\ s.logo.pad \in 0 .. MaxLogoPadding /\ ~BadStyle(s)
  BY <1>2 DEF Made, BadStyle
<1>4. k \in 5 .. 35 /\ s.logo.scale <= k
  BY <1>3 DEF Least
<1> HIDE DEF t, k
<1>5. /\ s.logo \in Logo /\ l \in Logo /\ l.scale = k /\ l.on = s.logo.on /\ l.pad = s.logo.pad
      /\ l.w = s.logo.w /\ l.h = s.logo.h /\ l.excavate = s.logo.excavate
  <2>1. s.logo \in Logo
    BY DEF Style
  <2>2. l \in Logo
    <3> DEFINE o == s.logo
    <3>1. o \in Logo /\ l = [o EXCEPT !.scale = k] /\ k \in Int
      BY <1>4, <2>1
    <3> HIDE DEF o, l
    <3>. QED BY <3>1 DEF Logo
  <2>3. /\ l.scale = k /\ l.on = s.logo.on /\ l.pad = s.logo.pad
        /\ l.w = s.logo.w /\ l.h = s.logo.h /\ l.excavate = s.logo.excavate
    BY <2>1 DEF Logo
  <2>. QED BY <2>1, <2>2, <2>3
<1> HIDE DEF l
<1>6. u \in Style
  BY <1>5 DEF Style
<1>7. /\ u.logo = l /\ u.quiet = s.quiet /\ u.bar = s.bar /\ u.hri = s.hri /\ u.hriSize = s.hriSize
      /\ u.frame = s.frame /\ u.caption = s.caption /\ u.ecc = s.ecc /\ u.fg = s.fg /\ u.bg = s.bg
      /\ u.alpha = s.alpha /\ u.eye = s.eye /\ u.stops = s.stops
  BY DEF Style
<1> HIDE DEF u
<1>8. ~BadStyle(u)
  BY <1>3, <1>4, <1>5, <1>7 DEF BadStyle
<1>9. /\ Quiet(m, u) = Quiet(m, s) /\ Offset2(m, u) = Offset2(m, s)
      /\ ExtrudedRows(m, u) = ExtrudedRows(m, s) /\ band(u) = band(s)
  BY <1>7, Zenon DEF Quiet, Offset2, ExtrudedRows, band, HasCaption
<1>10. DarkOf(m, u) = DarkOf(m, s) /\ EyesOf(m, u) = EyesOf(m, s)
  BY <1>9, Zenon DEF DarkOf, EyesOf
<1>11. d.ok
  <2>1. ~(m.cols <= 0) /\ ~(m.rows <= 0) /\ ~(Quiet(m, s) < 0)
    BY <1>2 DEF Made
  <2>. QED BY <1>8, <1>9, <2>1, RenderTakes
<1>12. Made(m, u, d)
  BY <1>11, RenderIs
<1>13. /\ c.cols \in Nat /\ c.rows \in Nat /\ IsFiniteSet(c.dark) /\ c.style = s
       /\ c.symbology = m.symbology /\ Upright(SymbolRect(c)) /\ Wider(SymbolRect(c)) > 0
       /\ Taller(SymbolRect(c)) > 0
  BY CanvasParts
<1>14. d.style = u /\ d.symbology = m.symbology
  BY <1>6, <1>11, CanvasParts
<1>15. ~Thick(c) /\ s.logo.on
  OBVIOUS
<1> HIDE DEF c, d
<1>16. SameLook(c, d)
  <2>1. c.cols = d.cols /\ c.rows = d.rows /\ c.quiet = d.quiet /\ c.pad = d.pad /\ c.band = d.band
    BY <1>2, <1>7, <1>9, <1>12 DEF Made
  <2>. QED BY <1>7, <1>13, <1>14, <2>1 DEF SameLook
<1>17. SymbolRect(c) = SymbolRect(d)
  BY <1>16, SameLeading
<1>18. LogoNoSmaller(c, d)
  <2>1. c.style.logo.on /\ d.style.logo.on
    BY <1>5, <1>7, <1>13, <1>14, <1>15
  <2>2. /\ c.style.logo.scale \in 1 .. 100 /\ d.style.logo.scale \in 1 .. 100
        /\ c.style.logo.scale <= d.style.logo.scale
    BY <1>3, <1>4, <1>5, <1>7, <1>13, <1>14
  <2>3. /\ d.style.logo.pad = c.style.logo.pad /\ c.style.logo.pad \in Nat
        /\ d.style.logo.w = c.style.logo.w /\ c.style.logo.w \in Nat \ {0}
        /\ d.style.logo.h = c.style.logo.h /\ c.style.logo.h \in Nat
    BY <1>3, <1>5, <1>7, <1>13, <1>14 DEF Logo, MaxLogoPadding
  <2>. QED BY <1>13, <1>17, <2>1, <2>2, <2>3 DEF LogoNoSmaller
<1>19. /\ \A n \in Nat : Covers(c, n) => Covers(d, n)
       /\ Points(excavateRect(c)) \subseteq Points(excavateRect(d))
  BY <1>18, CoversGrow
<1>20. d.dark \subseteq c.dark
  <2>1. c.eyes = d.eyes
    BY <1>2, <1>10, <1>12 DEF Made
  <2>2. u.logo.on = s.logo.on /\ u.logo.excavate = s.logo.excavate
    BY <1>5, <1>7
  <2>3. c.dark = IF s.logo.on /\ s.logo.excavate
                 THEN DarkOf(m, s) \ (Points(excavateRect(c)) \ c.eyes) ELSE DarkOf(m, s)
    BY <1>2 DEF Made
  <2>4. d.dark = IF s.logo.on /\ s.logo.excavate
                 THEN DarkOf(m, s) \ (Points(excavateRect(d)) \ c.eyes) ELSE DarkOf(m, s)
    BY <1>10, <1>12, <2>1, <2>2 DEF Made
  <2>. QED BY <1>19, <2>3, <2>4
<1>21. /\ checkLogo(c) \in Seq(IssueType) /\ checkLogo(d) \in Seq(IssueType)
       /\ Worse(checkLogo(c), checkLogo(d))
  <2>1. c.style.logo.on /\ d.style.logo.on /\ c.style.logo \in Logo /\ d.style.logo \in Logo
    BY <1>5, <1>7, <1>13, <1>14, <1>15
  <2>2. NoStronger(c.style.ecc, d.style.ecc)
    BY <1>7, <1>13, <1>14 DEF NoStronger
  <2>3. Upright(SymbolRect(c)) /\ Upright(SymbolRect(d))
    BY <1>13, <1>17
  <2>. QED BY <1>19, <2>1, <2>2, <2>3, LogoCheckFalls
<1>22. gradeFor(Findings(d)) <= gradeFor(Findings(c))
  BY <1>13, <1>15, <1>16, <1>20, <1>21, VerdictFalls
<1>. QED BY <1>1, <1>22 DEF c, d, t

\* The two parts of a sequence.
LEMMA PartsOfConcat ==
  ASSUME NEW T, NEW p \in Seq(T), NEW q \in Seq(T)
  PROVE  /\ SubSeq(p \o q, 1, Len(p)) = p
         /\ SubSeq(p \o q, Len(p) + 1, Len(p \o q)) = q
<1> DEFINE n == Len(p)
           m == Len(q)
           r == p \o q
           a == SubSeq(r, 1, n)
           b == SubSeq(r, n + 1, Len(r))
<1>1. /\ n \in Nat /\ m \in Nat /\ r \in Seq(T) /\ Len(r) = n + m
      /\ \A i \in 1 .. n : r[i] = p[i] /\ r[i] \in T
      /\ \A i \in 1 .. m : r[n + i] = q[i]
      /\ \A i \in 1 .. n + m : r[i] \in T
  <2>1. n \in Nat /\ m \in Nat /\ r \in Seq(T) /\ Len(r) = n + m
    BY ConcatProperties, LenProperties
  <2>2. \A i \in 1 .. n + m : r[i] \in T
    BY <2>1, ElementOfSeq
  <2>3. \A i \in 1 .. n + m : r[i] = IF i <= n THEN p[i] ELSE q[i - n]
    BY ConcatProperties
  <2> HIDE DEF n, m, r
  <2>. QED BY <2>1, <2>2, <2>3
<1> HIDE DEF n, m, r
<1>2. a = p
  <2>1. /\ a \in Seq(T) /\ Len(a) = (IF 1 <= n THEN n - 1 + 1 ELSE 0)
        /\ \A i \in 1 .. n - 1 + 1 : a[i] = r[1 + i - 1]
    BY <1>1, SubSeqProperties
  <2>2. p \in Seq(T) /\ Len(p) = n
    BY DEF n
  <2> HIDE DEF a
  <2>3. Len(a) = n /\ \A i \in 1 .. n : a[i] = p[i]
    BY <1>1, <2>1
  <2>. QED BY <2>1, <2>2, <2>3, SeqEqual
<1>3. b = q
  <2>0. n + 1 \in Int /\ n + m \in Int /\ \A i \in n + 1 .. n + m : r[i] \in T
    BY <1>1
  <2>1. /\ b \in Seq(T) /\ Len(b) = (IF n + 1 <= n + m THEN ((n + m) - (n + 1)) + 1 ELSE 0)
        /\ \A i \in 1 .. ((n + m) - (n + 1)) + 1 : b[i] = r[n + 1 + i - 1]
    <3> DEFINE x == n + 1
               y == n + m
    <3>1. x \in Int /\ y \in Int /\ (\A i \in x .. y : r[i] \in T) /\ b = SubSeq(r, x, y)
      BY <1>1, <2>0
    <3> HIDE DEF b, x, y
    <3>2. /\ b \in Seq(T) /\ Len(b) = (IF x <= y THEN y - x + 1 ELSE 0)
          /\ \A i \in 1 .. y - x + 1 : b[i] = r[x + i - 1]
      BY <3>1, SubSeqProperties
    <3>. QED BY <3>2, Zenon DEF x, y
  <2>2. q \in Seq(T) /\ Len(q) = m
    BY DEF m
  <2> HIDE DEF b
  <2>3. Len(b) = m
    BY <1>1, <2>1
  <2>4. \A i \in 1 .. m : b[i] = q[i]
    <3>1. ASSUME NEW i \in 1 .. m PROVE b[i] = q[i]
      <4>1. i \in 1 .. ((n + m) - (n + 1)) + 1 /\ n + 1 + i - 1 = n + i
        BY <1>1
      <4>. QED BY <1>1, <2>1, <4>1
    <3>. QED BY <3>1
  <2>. QED BY <2>1, <2>2, <2>3, <2>4, SeqEqual
<1>. QED BY <1>2, <1>3 DEF a, b, n, r

\* An issue that goes between two parts of a list: after all that rank with it or
\* before it.
Ranked(p, q, e) ==
  /\ \A i \in 1 .. Len(p) : Rank(p[i]) <= Rank(e)
  /\ \A i \in 1 .. Len(q) : ~(Rank(q[i]) <= Rank(e))

LEMMA Inserted ==
  ASSUME NEW p \in Seq(IssueType), NEW q \in Seq(IssueType), NEW e \in IssueType, Ranked(p, q, e)
  PROVE  InsertIssue(p \o q, e) = Append(p, e) \o q
<1> DEFINE T == IssueType
           n == Len(p)
           m == Len(q)
           r == p \o q
           S == {i \in DOMAIN r : Rank(r[i]) <= Rank(e)}
<1>1. p \in Seq(T) /\ q \in Seq(T) /\ e \in T
  OBVIOUS
<1> HIDE DEF T
<1>2. /\ n \in Nat /\ m \in Nat /\ DOMAIN r = 1 .. n + m /\ Len(r) = n + m
      /\ \A i \in 1 .. n + m : r[i] = IF i <= n THEN p[i] ELSE q[i - n]
  <2>1. n \in Nat /\ m \in Nat /\ r \in Seq(T) /\ Len(r) = n + m
    BY <1>1, ConcatProperties, LenProperties
  <2>2. DOMAIN r = 1 .. n + m
    BY <2>1, LenProperties
  <2>3. \A i \in 1 .. n + m : r[i] = IF i <= n THEN p[i] ELSE q[i - n]
    BY <1>1, ConcatProperties
  <2>. QED BY <2>1, <2>2, <2>3
<1>3. SubSeq(r, 1, n) = p /\ SubSeq(r, n + 1, Len(r)) = q
  BY <1>1, PartsOfConcat
<1>4. S = 1 .. n
  <2> HIDE DEF n, m, r
  <2>1. /\ \A i \in 1 .. n : Rank(p[i]) <= Rank(e)
        /\ \A i \in 1 .. m : ~(Rank(q[i]) <= Rank(e))
    BY DEF Ranked, n, m
  <2>2. ASSUME NEW i \in 1 .. n PROVE i \in S
    BY <1>2, <2>1, <2>2
  <2>3. ASSUME NEW i \in S PROVE i \in 1 .. n
    <3>1. i \in 1 .. n + m /\ Rank(r[i]) <= Rank(e)
      BY <1>2
    <3>2. CASE i <= n
      BY <1>2, <3>1, <3>2
    <3>3. CASE ~(i <= n)
      <4>1. i - n \in 1 .. m /\ r[i] = q[i - n]
        BY <1>2, <3>1, <3>3
      <4>. QED BY <2>1, <3>1, <4>1
    <3>. QED BY <3>2, <3>3
  <2> HIDE DEF S
  <2>. QED BY <2>2, <2>3
<1>5. Cardinality(S) = n
  <2> HIDE DEF S, n
  <2>1. Cardinality(1 .. n) = n
    <3>1. n \in Nat /\ n \in Int /\ 1 \in Int
      BY <1>2
    <3>2. Cardinality(1 .. n) = IF 1 > n THEN 0 ELSE n - 1 + 1
      BY <3>1, FS_Interval
    <3>. QED BY <3>1, <3>2
  <2>. QED BY <1>4, <2>1
<1>6. InsertIssue(r, e) = SubSeq(r, 1, Cardinality(S)) \o <<e>> \o SubSeq(r, Cardinality(S) + 1, Len(r))
  BY Zenon DEF InsertIssue
<1>7. InsertIssue(r, e) = (p \o <<e>>) \o q
  <2> HIDE DEF S, r
  <2>. QED BY <1>3, <1>5, <1>6
<1>8. p \o <<e>> = Append(p, e)
  BY <1>1, AppendIsConcat
<1>. QED BY <1>7, <1>8 DEF r

\* What is kept of a list of issues by rank.
OfRank(s, k) == {i \in Y!Range(s) : Rank(i) = k}

\* The list after some issues: the errors, the warnings, the remarks.
Triage(g0, g1, g2, k) == (g0[k] \o g1[k]) \o g2[k]

LEMMA RankIs ==
  ASSUME NEW e \in IssueType
  PROVE  Rank(e) \in {0, 1, 2} /\ ((Rank(e) = 0) <=> (e.severity = "error"))
<1>1. e.severity \in {"error", "warn", "info"}
  BY DEF IssueType
<1>. QED BY <1>1 DEF Rank

\* A member of a concatenation is a member of one of the two.
LEMMA FromConcat ==
  ASSUME NEW T, NEW p \in Seq(T), NEW q \in Seq(T), NEW i \in 1 .. Len(p \o q)
  PROVE  \/ \E j \in 1 .. Len(p) : (p \o q)[i] = p[j]
         \/ \E j \in 1 .. Len(q) : (p \o q)[i] = q[j]
<1> DEFINE n == Len(p)
           m == Len(q)
           r == p \o q
<1>1. n \in Nat /\ m \in Nat /\ Len(r) = n + m
  BY ConcatProperties, LenProperties
<1>2. \A k \in 1 .. n + m : r[k] = IF k <= n THEN p[k] ELSE q[k - n]
  BY ConcatProperties
<1>3. i \in 1 .. Len(r)
  OBVIOUS
<1> HIDE DEF n, m, r
<1>4. CASE i <= n
  BY <1>1, <1>2, <1>3, <1>4 DEF n, r
<1>5. CASE ~(i <= n)
  <2>1. i - n \in 1 .. m /\ r[i] = q[i - n]
    BY <1>1, <1>2, <1>3, <1>5
  <2>. QED BY <2>1 DEF m, r
<1>. QED BY <1>4, <1>5

LEMMA RanksOfConcat ==
  ASSUME NEW T, NEW p \in Seq(T), NEW q \in Seq(T), NEW j, NEW k,
         \A i \in 1 .. Len(p) : Rank(p[i]) = j, \A i \in 1 .. Len(q) : Rank(q[i]) = k,
         NEW i \in 1 .. Len(p \o q)
  PROVE  Rank((p \o q)[i]) \in {j, k}
BY FromConcat

\* Appending reports is associative.
LEMMA Reassociated ==
  \A p, q, r \in Seq(IssueType) : (p \o q) \o r = p \o (q \o r)
<1> DEFINE T == IssueType
<1> HIDE DEF T
<1>1. \A p, q, r \in Seq(T) : (p \o q) \o r = p \o (q \o r)
  BY ConcatAssociative, SMTT(30)
<1>. QED BY <1>1 DEF T

\* The sorting of a list is its triage, issue by issue.
LEMMA SortRuns ==
  ASSUME NEW s \in Seq(IssueType)
  PROVE  \E g0, g1, g2 :
           /\ Keeps(g0, s, OfRank(s, 0), IssueType) /\ I!Kept(s, OfRank(s, 0)) = g0[Len(s)]
           /\ Keeps(g1, s, OfRank(s, 1), IssueType) /\ I!Kept(s, OfRank(s, 1)) = g1[Len(s)]
           /\ Keeps(g2, s, OfRank(s, 2), IssueType) /\ I!Kept(s, OfRank(s, 2)) = g2[Len(s)]
           /\ slicesSortIssues(s) = Triage(g0, g1, g2, Len(s))
<1> DEFINE n == Len(s)
           T == IssueType
           S0 == OfRank(s, 0)
           S1 == OfRank(s, 1)
           S2 == OfRank(s, 2)
           Runs(g) == g = [k \in 0 .. n |-> IF k = 0 THEN <<>> ELSE InsertIssue(g[k - 1], s[k])]
           out == CHOOSE g : Runs(g)
<1>0. s \in Seq(T)
  OBVIOUS
<1>1. n \in Nat /\ \A k \in 1 .. n : s[k] \in T
  BY IssuesOf
<1>2. slicesSortIssues(s) = out[n]
  BY DEF slicesSortIssues
<1>3. \A k \in 1 .. n : /\ Rank(s[k]) \in {0, 1, 2}
                        /\ s[k] \in S0 <=> Rank(s[k]) = 0
                        /\ s[k] \in S1 <=> Rank(s[k]) = 1
                        /\ s[k] \in S2 <=> Rank(s[k]) = 2
  <2>1. \A e \in T : Rank(e) \in {0, 1, 2}
    BY RankIs
  <2>2. DOMAIN s = 1 .. n
    BY LenProperties
  <2>. QED BY <1>1, <2>1, <2>2, Zenon DEF OfRank, Y!Range
<1>4. /\ \A e \in S0 : Rank(e) = 0
      /\ \A e \in S1 : Rank(e) = 1
      /\ \A e \in S2 : Rank(e) = 2
  BY DEF OfRank
<1> HIDE DEF T, S0, S1, S2, n
<1>5. PICK g0 : Keeps(g0, s, S0, T) /\ I!Kept(s, S0) = g0[Len(s)]
  BY <1>0, KeptRuns
<1>6. PICK g1 : Keeps(g1, s, S1, T) /\ I!Kept(s, S1) = g1[Len(s)]
  BY <1>0, KeptRuns
<1>7. PICK g2 : Keeps(g2, s, S2, T) /\ I!Kept(s, S2) = g2[Len(s)]
  BY <1>0, KeptRuns
<1> DEFINE w == [k \in 0 .. n |-> Triage(g0, g1, g2, k)]
<1>8. Runs(w)
  <2>0. /\ g0 \in [0 .. n -> Seq(T \cap S0)] /\ g0[0] = <<>>
        /\ g1 \in [0 .. n -> Seq(T \cap S1)] /\ g1[0] = <<>>
        /\ g2 \in [0 .. n -> Seq(T \cap S2)] /\ g2[0] = <<>>
        /\ \A k \in 1 .. n :
             /\ g0[k] = IF s[k] \in S0 THEN Append(g0[k - 1], s[k]) ELSE g0[k - 1]
             /\ g1[k] = IF s[k] \in S1 THEN Append(g1[k - 1], s[k]) ELSE g1[k - 1]
             /\ g2[k] = IF s[k] \in S2 THEN Append(g2[k - 1], s[k]) ELSE g2[k - 1]
    BY <1>5, <1>6, <1>7 DEF Keeps, n
  <2>1. w[0] = <<>>
    <3>1. 0 \in 0 .. n
      BY <1>1
    <3>2. w[0] = (<<>> \o <<>>) \o <<>>
      BY <2>0, <3>1 DEF Triage
    <3>3. <<>> \in Seq(T)
      OBVIOUS
    <3>. QED BY <3>2, <3>3, ConcatEmptySeq
  <2>2. ASSUME NEW k \in 1 .. n PROVE w[k] = InsertIssue(w[k - 1], s[k])
    <3> DEFINE a == g0[k - 1]
               b == g1[k - 1]
               c == g2[k - 1]
               e == s[k]
    <3>0. k - 1 \in 0 .. n /\ k \in 0 .. n
      BY <1>1
    <3>1. a \in Seq(T \cap S0) /\ b \in Seq(T \cap S1) /\ c \in Seq(T \cap S2)
      BY <2>0, <3>0
    <3>2. /\ g0[k] = IF e \in S0 THEN Append(a, e) ELSE a
          /\ g1[k] = IF e \in S1 THEN Append(b, e) ELSE b
          /\ g2[k] = IF e \in S2 THEN Append(c, e) ELSE c
      BY <2>0
    <3>3. w[k - 1] = (a \o b) \o c /\ w[k] = (g0[k] \o g1[k]) \o g2[k]
      BY <3>0 DEF Triage
    <3>4. e \in T /\ Rank(e) \in {0, 1, 2}
          /\ (e \in S0 <=> Rank(e) = 0) /\ (e \in S1 <=> Rank(e) = 1) /\ (e \in S2 <=> Rank(e) = 2)
      BY <1>1, <1>3
    <3> HIDE DEF a, b, c, e, w
    <3>5. /\ a \in Seq(T) /\ b \in Seq(T) /\ c \in Seq(T)
          /\ \A i \in 1 .. Len(a) : Rank(a[i]) = 0
          /\ \A i \in 1 .. Len(b) : Rank(b[i]) = 1
          /\ \A i \in 1 .. Len(c) : Rank(c[i]) = 2
      <4>1. a \in Seq(T) /\ b \in Seq(T) /\ c \in Seq(T)
        BY <3>1
      <4>2. ASSUME NEW i \in 1 .. Len(a) PROVE Rank(a[i]) = 0
        <5>1. a[i] \in T \cap S0
          BY <3>1, ElementOfSeq
        <5>. QED BY <1>4, <5>1
      <4>3. ASSUME NEW i \in 1 .. Len(b) PROVE Rank(b[i]) = 1
        <5>1. b[i] \in T \cap S1
          BY <3>1, ElementOfSeq
        <5>. QED BY <1>4, <5>1
      <4>4. ASSUME NEW i \in 1 .. Len(c) PROVE Rank(c[i]) = 2
        <5>1. c[i] \in T \cap S2
          BY <3>1, ElementOfSeq
        <5>. QED BY <1>4, <5>1
      <4>. QED BY <4>1, <4>2, <4>3, <4>4
    <3>6. ASSUME NEW p \in Seq(T), NEW q \in Seq(T), Ranked(p, q, e)
          PROVE  InsertIssue(p \o q, e) = Append(p, e) \o q
      BY <3>4, <3>6, Inserted DEF T
    <3>10. \A p, q, r \in Seq(T) : (p \o q) \o r = p \o (q \o r)
      BY Reassociated DEF T
    <3>11. a \in Seq(T) /\ b \in Seq(T) /\ c \in Seq(T)
      BY <3>5
    <3>7. CASE Rank(e) = 0
      <4>1. b \o c \in Seq(T) /\ (a \o b) \o c = a \o (b \o c)
        <5>1. b \o c \in Seq(T)
          BY <3>5, ConcatProperties
        <5>2. (a \o b) \o c = a \o (b \o c)
          BY <3>10, <3>11, Zenon
        <5>. QED BY <5>1, <5>2, Zenon
      <4>2. Ranked(a, b \o c, e)
        <5>1. \A i \in 1 .. Len(a) : Rank(a[i]) <= Rank(e)
          BY <3>5, <3>7
        <5>2. ASSUME NEW i \in 1 .. Len(b \o c) PROVE ~(Rank((b \o c)[i]) <= Rank(e))
          <6>1. Rank((b \o c)[i]) \in {1, 2}
            BY <3>5, RanksOfConcat DEF T
          <6>. QED BY <3>7, <6>1
        <5>. QED BY <5>1, <5>2 DEF Ranked
      <4>3. InsertIssue((a \o b) \o c, e) = Append(a, e) \o (b \o c)
        <5> DEFINE q == b \o c
        <5>1. a \in Seq(T)
          BY <3>5
        <5>2. q \in Seq(T) /\ Ranked(a, q, e)
          BY <4>1, <4>2
        <5> HIDE DEF q, T
        <5>3. InsertIssue(a \o q, e) = Append(a, e) \o q
          BY <3>6, <5>1, <5>2, Zenon
        <5>. QED BY <4>1, <5>3, Zenon DEF q
      <4>4. Append(a, e) \in Seq(T)
        BY <3>4, <3>5, AppendProperties
      <4>5. Append(a, e) \o (b \o c) = (Append(a, e) \o b) \o c
        BY <3>10, <3>11, <4>4, Zenon
      <4>6. g0[k] = Append(a, e) /\ g1[k] = b /\ g2[k] = c
        BY <3>2, <3>4, <3>7
      <4>. QED BY <3>3, <4>3, <4>5, <4>6 DEF e
    <3>8. CASE Rank(e) = 1
      <4>1. a \o b \in Seq(T)
        BY <3>5, ConcatProperties
      <4>2. Ranked(a \o b, c, e)
        <5>1. ASSUME NEW i \in 1 .. Len(a \o b) PROVE Rank((a \o b)[i]) <= Rank(e)
          <6>1. Rank((a \o b)[i]) \in {0, 1}
            BY <3>5, RanksOfConcat DEF T
          <6>. QED BY <3>8, <6>1
        <5>2. \A i \in 1 .. Len(c) : ~(Rank(c[i]) <= Rank(e))
          BY <3>5, <3>8
        <5>. QED BY <5>1, <5>2 DEF Ranked
      <4>3. InsertIssue((a \o b) \o c, e) = Append(a \o b, e) \o c
        <5> DEFINE p == a \o b
        <5>1. c \in Seq(T)
          BY <3>5
        <5>2. p \in Seq(T) /\ Ranked(p, c, e)
          BY <4>1, <4>2
        <5> HIDE DEF p, T
        <5>3. InsertIssue(p \o c, e) = Append(p, e) \o c
          BY <3>6, <5>1, <5>2, Zenon
        <5>. QED BY <5>3, Zenon DEF p
      <4>4. Append(a \o b, e) = a \o Append(b, e)
        <5> DEFINE q == <<e>>
        <5>1. Append(a \o b, e) = (a \o b) \o q /\ Append(b, e) = b \o q /\ q \in Seq(T)
          <6>1. \A p \in Seq(T) : Append(p, e) = p \o q
            BY <3>4, AppendIsConcat
          <6>2. q \in Seq(T)
            BY <3>4
          <6>. QED BY <3>11, <4>1, <6>1, <6>2, Zenon
        <5> HIDE DEF q
        <5>2. a \in Seq(T) /\ b \in Seq(T) /\ q \in Seq(T)
          BY <3>5, <5>1
        <5>3. (a \o b) \o q = a \o (b \o q)
          BY <3>10, <5>2, Zenon
        <5>. QED BY <5>1, <5>3
      <4>6. g0[k] = a /\ g1[k] = Append(b, e) /\ g2[k] = c
        BY <3>2, <3>4, <3>8
      <4>. QED BY <3>3, <4>3, <4>4, <4>6 DEF e
    <3>9. CASE Rank(e) = 2
      <4>1. a \o b \in Seq(T) /\ (a \o b) \o c \in Seq(T)
        BY <3>5, ConcatProperties
      <4>2. Ranked((a \o b) \o c, <<>>, e)
        <5>1. ASSUME NEW i \in 1 .. Len((a \o b) \o c) PROVE Rank(((a \o b) \o c)[i]) <= Rank(e)
          <6>1. \A j \in 1 .. Len(a \o b) : Rank((a \o b)[j]) \in {0, 1}
            BY <3>5, RanksOfConcat DEF T
          <6>2. Rank(((a \o b) \o c)[i]) \in {0, 1} \/ Rank(((a \o b) \o c)[i]) = 2
            <7> DEFINE p == a \o b
            <7>1. p \in Seq(T) /\ c \in Seq(T) /\ i \in 1 .. Len(p \o c)
              BY <3>5, <4>1
            <7> HIDE DEF p
            <7>2. \/ \E j \in 1 .. Len(p) : (p \o c)[i] = p[j]
                  \/ \E j \in 1 .. Len(c) : (p \o c)[i] = c[j]
              BY <7>1, FromConcat
            <7>. QED BY <3>5, <6>1, <7>2 DEF p
          <6>. QED BY <3>9, <6>2
        <5>2. \A i \in 1 .. Len(<<>>) : ~(Rank(<<>>[i]) <= Rank(e))
          <6>1. Len(<<>>) = 0
            OBVIOUS
          <6>. QED BY <6>1
        <5>. QED BY <5>1, <5>2 DEF Ranked
      <4>3. InsertIssue(((a \o b) \o c) \o <<>>, e) = Append((a \o b) \o c, e) \o <<>>
        <5>1. <<>> \in Seq(T)
          OBVIOUS
        <5> DEFINE p == (a \o b) \o c
        <5>2. p \in Seq(T) /\ Ranked(p, <<>>, e)
          BY <4>1, <4>2
        <5> HIDE DEF p, T
        <5>3. InsertIssue(p \o <<>>, e) = Append(p, e) \o <<>>
          BY <3>6, <5>1, <5>2, Zenon
        <5>. QED BY <5>3, Zenon DEF p
      <4>4. ((a \o b) \o c) \o <<>> = (a \o b) \o c
        BY <4>1, ConcatEmptySeq
      <4>5. Append((a \o b) \o c, e) \o <<>> = Append((a \o b) \o c, e)
        <5>1. Append((a \o b) \o c, e) \in Seq(T)
          BY <3>4, <4>1, AppendProperties
        <5>. QED BY <5>1, ConcatEmptySeq
      <4>6. Append((a \o b) \o c, e) = (a \o b) \o Append(c, e)
        <5>1. /\ Append((a \o b) \o c, e) = ((a \o b) \o c) \o <<e>> /\ Append(c, e) = c \o <<e>>
              /\ <<e>> \in Seq(T)
          <6>1. \A p \in Seq(T) : Append(p, e) = p \o <<e>>
            BY <3>4, AppendIsConcat
          <6>2. <<e>> \in Seq(T)
            BY <3>4
          <6>. QED BY <3>11, <4>1, <6>1, <6>2, Zenon
        <5> DEFINE p == a \o b
                   q == <<e>>
        <5>2. p \in Seq(T) /\ q \in Seq(T) /\ c \in Seq(T)
          BY <3>5, <4>1, <5>1
        <5> HIDE DEF p, q
        <5>3. (p \o c) \o q = p \o (c \o q)
          BY <3>10, <5>2, Zenon
        <5>. QED BY <5>1, <5>3 DEF p, q
      <4>7. g0[k] = a /\ g1[k] = b /\ g2[k] = Append(c, e)
        BY <3>2, <3>4, <3>9
      <4>. QED BY <3>3, <4>3, <4>4, <4>5, <4>6, <4>7 DEF e
    <3>. QED BY <3>4, <3>7, <3>8, <3>9 DEF e
  <2>3. \A k \in 0 .. n : k = 0 \/ k \in 1 .. n
    BY <1>1
  <2>4. DOMAIN w = 0 .. n /\ w = [k \in 0 .. n |-> w[k]]
    OBVIOUS
  <2> HIDE DEF w
  <2>5. \A k \in 0 .. n : w[k] = IF k = 0 THEN <<>> ELSE InsertIssue(w[k - 1], s[k])
    BY <2>1, <2>2, <2>3
  <2>6. w = [k \in 0 .. n |-> IF k = 0 THEN <<>> ELSE InsertIssue(w[k - 1], s[k])]
    <3> DEFINE f(k) == IF k = 0 THEN <<>> ELSE InsertIssue(w[k - 1], s[k])
    <3>1. \A k \in 0 .. n : w[k] = f(k)
      BY <2>5
    <3> HIDE DEF f
    <3>2. w = [k \in 0 .. n |-> f(k)]
      BY <2>4, <3>1
    <3>. QED BY <3>2 DEF f
  <2>. QED BY <2>6
<1>9. Runs(out)
  <2> HIDE DEF Runs, w
  <2>. QED BY <1>8
<1> HIDE DEF out
<1>10. \A k \in 0 .. n : out[k] = w[k]
  <2>0. /\ \A k \in 0 .. n : out[k] = IF k = 0 THEN <<>> ELSE InsertIssue(out[k - 1], s[k])
        /\ \A k \in 0 .. n : w[k] = IF k = 0 THEN <<>> ELSE InsertIssue(w[k - 1], s[k])
    <3> HIDE DEF w
    <3>. QED BY <1>8, <1>9
  <2> HIDE DEF w, Runs
  <2> DEFINE Good == {k \in 0 .. n : out[k] = w[k]}
  <2>1. 0 \in Good
    BY <1>1, <2>0
  <2>2. ASSUME NEW k \in 1 .. n, k - 1 \in Good PROVE k \in Good
    <3>1. k \in 0 .. n /\ k # 0 /\ out[k - 1] = w[k - 1]
      BY <1>1, <2>2
    <3>. QED BY <2>0, <3>1
  <2> HIDE DEF Good
  <2>3. \A k \in 0 .. n : k \in Good
    BY <1>1, <2>1, <2>2, Induction
  <2>. QED BY <2>3 DEF Good
<1>11. slicesSortIssues(s) = Triage(g0, g1, g2, n)
  <2>1. n \in 0 .. n
    BY <1>1
  <2>. QED BY <1>2, <1>10, <2>1
<1>. QED BY <1>5, <1>6, <1>7, <1>11 DEF T, S0, S1, S2, n

\* Nothing is kept exactly when nothing is to be kept.
LEMMA KeptNone ==
  ASSUME NEW T, NEW s \in Seq(T), NEW S, NEW g, Keeps(g, s, S, T)
  PROVE  (g[Len(s)] = <<>>) <=> (\A j \in 1 .. Len(s) : s[j] \notin S)
<1> DEFINE n == Len(s)
           Good == {k \in 0 .. n : (g[k] = <<>>) <=> (\A j \in 1 .. k : s[j] \notin S)}
<1>1. n \in Nat /\ \A k \in 1 .. n : s[k] \in T
  BY LenProperties, ElementOfSeq
<1>2. /\ g \in [0 .. n -> Seq(T \cap S)] /\ g[0] = <<>>
      /\ \A k \in 1 .. n : g[k] = IF s[k] \in S THEN Append(g[k - 1], s[k]) ELSE g[k - 1]
  BY DEF Keeps
<1> HIDE DEF n
<1>3. 0 \in Good
  BY <1>1, <1>2
<1>4. ASSUME NEW k \in 1 .. n, k - 1 \in Good PROVE k \in Good
  <2>1. /\ k - 1 \in 0 .. n /\ k \in 0 .. n /\ k \in 1 .. k
        /\ \A j \in 1 .. k : j = k \/ j \in 1 .. k - 1
        /\ \A j \in 1 .. k - 1 : j \in 1 .. k
    BY <1>1
  <2>2. CASE s[k] \in S
    <3>1. g[k] # <<>>
      <4>1. g[k - 1] \in Seq(T \cap S) /\ s[k] \in T \cap S
        BY <1>1, <1>2, <2>1, <2>2
      <4> DEFINE q == g[k - 1]
                 H == T \cap S
      <4>2. q \in Seq(H) /\ s[k] \in H /\ g[k] = Append(q, s[k])
        BY <1>2, <2>2, <4>1
      <4> HIDE DEF q, H
      <4>. QED BY <4>2, AppendProperties
    <3>. QED BY <2>1, <2>2, <3>1
  <2>3. CASE s[k] \notin S
    <3>1. g[k] = g[k - 1]
      BY <1>2, <2>3
    <3>2. (g[k - 1] = <<>>) <=> (\A j \in 1 .. k - 1 : s[j] \notin S)
      BY <1>4
    <3>3. (\A j \in 1 .. k : s[j] \notin S) <=> (\A j \in 1 .. k - 1 : s[j] \notin S)
      BY <2>1, <2>3
    <3>. QED BY <2>1, <3>1, <3>2, <3>3
  <2>. QED BY <2>2, <2>3
<1> HIDE DEF Good
<1>5. \A k \in 0 .. n : k \in Good
  BY <1>1, <1>3, <1>4, Induction
<1>6. n \in Good
  BY <1>1, <1>5
<1>. QED BY <1>6 DEF Good, n

\* The first of a list whose first part is not empty.
LEMMA FirstOfConcat ==
  ASSUME NEW T, NEW p \in Seq(T), NEW q \in Seq(T), p # <<>>
  PROVE  /\ (p \o q)[1] = p[1] /\ p \o q # <<>> /\ 1 \in 1 .. Len(p)
<1>1. Len(p) \in Nat \ {0} /\ Len(q) \in Nat
  BY EmptySeq, LenProperties
<1>2. Len(p \o q) = Len(p) + Len(q) /\ (p \o q)[1] = p[1]
  <2>1. \A i \in 1 .. Len(p) + Len(q) : (p \o q)[i] = IF i <= Len(p) THEN p[i] ELSE q[i - Len(p)]
    BY ConcatProperties
  <2>2. 1 \in 1 .. Len(p) + Len(q) /\ 1 <= Len(p)
    BY <1>1
  <2>3. Len(p \o q) = Len(p) + Len(q)
    BY ConcatProperties
  <2>. QED BY <2>1, <2>2, <2>3
<1>3. p \o q # <<>>
  BY ConcatEqualIffEmpty
<1>. QED BY <1>1, <1>2, <1>3

\* IssuesSorted of one list of findings.
Sorted(s) ==
  LET report == Report(s)
  IN  /\ report.issues = I!Kept(s, OfRank(s, 0)) \o I!Kept(s, OfRank(s, 1)) \o I!Kept(s, OfRank(s, 2))
      /\ (report.grade = 0) <=> (s # <<>> /\ report.issues[1].severity = "error")
      /\ report.grade = 3 => \A i \in DOMAIN s : s[i].cost <= 5

LEMMA FindingsSorted ==
  ASSUME NEW s \in Seq(IssueType)
  PROVE  Sorted(s)
<1> DEFINE n == Len(s)
           T == IssueType
           S0 == OfRank(s, 0)
           S1 == OfRank(s, 1)
           S2 == OfRank(s, 2)
<1>1. PICK g0, g1, g2 :
        /\ Keeps(g0, s, S0, T) /\ I!Kept(s, S0) = g0[n]
        /\ Keeps(g1, s, S1, T) /\ I!Kept(s, S1) = g1[n]
        /\ Keeps(g2, s, S2, T) /\ I!Kept(s, S2) = g2[n]
        /\ slicesSortIssues(s) = Triage(g0, g1, g2, n)
  BY SortRuns
<1> DEFINE a == g0[n]
           b == g1[n]
           c == g2[n]
           grade == gradeFor(s)
           issues == slicesSortIssues(s)
<1>2. /\ n \in Nat /\ DOMAIN s = 1 .. n
      /\ \A k \in 1 .. n : s[k] \in T /\ Rank(s[k]) \in {0, 1, 2} /\ (Rank(s[k]) = 0 <=> s[k].severity = "error")
      /\ s # <<>> => n > 0
  <2>1. n \in Nat /\ DOMAIN s = 1 .. n
    BY LenProperties
  <2>2. \A k \in 1 .. n : s[k] \in T
    BY IssuesOf
  <2>3. \A e \in T : Rank(e) \in {0, 1, 2} /\ (Rank(e) = 0 <=> e.severity = "error")
    BY RankIs
  <2>4. s # <<>> => n > 0
    <3>1. s \in Seq(T)
      OBVIOUS
    <3> HIDE DEF T
    <3>. QED BY <3>1, <2>1, EmptySeq
  <2> HIDE DEF T, n
  <2>. QED BY <2>1, <2>2, <2>3, <2>4
<1>3. a \in Seq(T \cap S0) /\ b \in Seq(T \cap S1) /\ c \in Seq(T \cap S2)
  <2> HIDE DEF T, S0, S1, S2
  <2>1. n \in 0 .. n
    BY <1>2
  <2>. QED BY <1>1, <2>1 DEF Keeps
<1>4. \A k \in 1 .. n : /\ s[k] \in S0 <=> Rank(s[k]) = 0
                        /\ s[k] \in S1 <=> Rank(s[k]) = 1
                        /\ s[k] \in S2 <=> Rank(s[k]) = 2
  <2> HIDE DEF T, n
  <2>. QED BY <1>2, Zenon DEF OfRank, Y!Range
<1>5. /\ \A e \in S0 : Rank(e) = 0
      /\ \A e \in S1 : Rank(e) = 1
      /\ \A e \in S2 : Rank(e) = 2
  BY DEF OfRank
<1>6. s \in Seq(T) /\ \A e \in T : Rank(e) = 0 <=> e.severity = "error"
  BY RankIs
<1>7. Erring(s) <=> \E k \in 1 .. n : Rank(s[k]) = 0
  <2> HIDE DEF T, n, S0, S1, S2
  <2>. QED BY <1>2 DEF Erring
<1>8. grade = IF Erring(s) THEN 0 ELSE IF Score(s) >= 95 THEN 3 ELSE IF Score(s) >= 75 THEN 2 ELSE 1
  BY DEF gradeFor, Erring
<1>9. grade = 3 => \A i \in 1 .. n : s[i].cost <= 5
  <2>1. Cost(s) \in Nat
    BY CostSum
  <2>2. \A i \in 1 .. n : s[i].cost \in Nat /\ s[i].cost <= Cost(s)
    BY IssuesOf, CostOfEach
  <2> HIDE DEF n, T, grade
  <2>3. grade = 3 => Score(s) >= 95
    BY <1>8
  <2>4. Score(s) >= 95 => Cost(s) <= 5
    BY <2>1 DEF Score, Largest
  <2>. QED BY <2>1, <2>2, <2>3, <2>4
<1>10. (grade = 0) <=> Erring(s)
  BY <1>8
<1> HIDE DEF T, n, S0, S1, S2, grade, issues
<1>11. /\ (a = <<>>) <=> \A j \in 1 .. n : s[j] \notin S0
       /\ (b = <<>>) <=> \A j \in 1 .. n : s[j] \notin S1
       /\ (c = <<>>) <=> \A j \in 1 .. n : s[j] \notin S2
  BY <1>1, <1>6, KeptNone DEF n
<1>12. issues = (a \o b) \o c
  BY <1>1 DEF Triage, issues
<1> HIDE DEF a, b, c
<1>13. /\ a \in Seq(T) /\ b \in Seq(T) /\ c \in Seq(T)
       /\ \A i \in 1 .. Len(a) : Rank(a[i]) = 0
       /\ \A i \in 1 .. Len(b) : Rank(b[i]) = 1
       /\ \A i \in 1 .. Len(c) : Rank(c[i]) = 2
  <2>1. a \in Seq(T) /\ b \in Seq(T) /\ c \in Seq(T)
    BY <1>3
  <2>2. ASSUME NEW i \in 1 .. Len(a) PROVE Rank(a[i]) = 0
    <3>1. a[i] \in T \cap S0
      BY <1>3, ElementOfSeq
    <3>. QED BY <1>5, <3>1
  <2>3. ASSUME NEW i \in 1 .. Len(b) PROVE Rank(b[i]) = 1
    <3>1. b[i] \in T \cap S1
      BY <1>3, ElementOfSeq
    <3>. QED BY <1>5, <3>1
  <2>4. ASSUME NEW i \in 1 .. Len(c) PROVE Rank(c[i]) = 2
    <3>1. c[i] \in T \cap S2
      BY <1>3, ElementOfSeq
    <3>. QED BY <1>5, <3>1
  <2>. QED BY <2>1, <2>2, <2>3, <2>4
<1> DEFINE Heads == (grade = 0) <=> (s # <<>> /\ issues[1].severity = "error")
<1>14. ASSUME a # <<>> PROVE Heads
  <2>1. PICK j \in 1 .. n : s[j] \in S0
    BY <1>11, <1>14
  <2>2. Erring(s) /\ s # <<>>
    <3>1. s # <<>>
      <4>1. n > 0
        BY <1>2, <2>1
      <4>2. Len(<<>>) = 0
        OBVIOUS
      <4>. QED BY <4>1, <4>2 DEF n
    <3>. QED BY <1>4, <1>7, <2>1, <3>1
  <2>3. (a \o b)[1] = a[1] /\ a \o b # <<>> /\ 1 \in 1 .. Len(a) /\ a \o b \in Seq(T)
    <3>1. (a \o b)[1] = a[1] /\ a \o b # <<>> /\ 1 \in 1 .. Len(a)
      BY <1>13, <1>14, FirstOfConcat
    <3>2. a \o b \in Seq(T)
      BY <1>13, ConcatProperties
    <3>. QED BY <3>1, <3>2
  <2>4. issues[1] = (a \o b)[1]
    <3> DEFINE p == a \o b
    <3>1. p \in Seq(T) /\ p # <<>>
      BY <2>3
    <3> HIDE DEF p
    <3>2. (p \o c)[1] = p[1]
      BY <1>13, <3>1, FirstOfConcat
    <3>. QED BY <1>12, <3>2 DEF p
  <2>5. Rank(issues[1]) = 0 /\ issues[1] \in T
    <3>1. issues[1] = a[1] /\ 1 \in 1 .. Len(a)
      BY <2>3, <2>4
    <3>2. a[1] \in T
      BY <1>13, <3>1, ElementOfSeq
    <3>. QED BY <1>13, <3>1, <3>2
  <2>. QED BY <1>6, <1>10, <2>2, <2>5
<1>15. ASSUME a = <<>> PROVE Heads
  <2>1. ~Erring(s)
    BY <1>4, <1>7, <1>11, <1>15
  <2>2. ASSUME s # <<>> PROVE issues[1].severity # "error"
    <3>1. 1 \in 1 .. n
      BY <1>2, <2>2
    <3>2. s[1] \in S1 \/ s[1] \in S2
      <4>1. s[1] \notin S0
        BY <1>11, <1>15, <3>1
      <4>. QED BY <1>2, <1>4, <3>1, <4>1
    <3>3. b # <<>> \/ c # <<>>
      BY <1>11, <3>1, <3>2
    <3>4. issues = b \o c
      <4>1. <<>> \o b = b
        BY <1>13, ConcatEmptySeq
      <4>. QED BY <1>12, <1>15, <4>1
    <3>5. 1 \in 1 .. Len(b \o c) /\ b \o c \in Seq(T)
      <4>1. b \o c \in Seq(T)
        BY <1>13, ConcatProperties
      <4>2. b \o c # <<>>
        BY <1>13, <3>3, ConcatEqualIffEmpty
      <4>3. Len(b \o c) \in Nat \ {0}
        BY <4>1, <4>2, EmptySeq
      <4>. QED BY <4>1, <4>3
    <3>6. Rank(issues[1]) \in {1, 2}
      BY <1>13, <3>4, <3>5, RanksOfConcat
    <3>7. issues[1] \in T
      BY <3>4, <3>5, ElementOfSeq
    <3>. QED BY <1>6, <3>6, <3>7
  <2>. QED BY <1>10, <2>1, <2>2
<1>16. Heads
  BY <1>14, <1>15
<1>17. issues = I!Kept(s, S0) \o I!Kept(s, S1) \o I!Kept(s, S2)
  BY <1>1, <1>12 DEF a, b, c
<1>18. Report(s) = [grade |-> grade, issues |-> issues]
  BY DEF Report, grade, issues
<1>19. DOMAIN s = 1 .. n
  BY <1>2
<1> HIDE DEF Heads
<1>20. Report(s).grade = grade /\ Report(s).issues = issues
  BY <1>18
<1>. QED BY <1>9, <1>16, <1>17, <1>19, <1>20, Zenon DEF Heads, Sorted, S0, S1, S2

LEMMA FindingsTyped ==
  ASSUME NEW m \in Matrix, NEW s \in Style, Render(m, s).ok, m.cols >= 2 * BubbleTailModules
  PROVE  Findings(Render(m, s)) \in Seq(IssueType)
<1> DEFINE c == Render(m, s)
<1>1. c.cols \in Nat /\ c.rows \in Nat /\ c.style.logo \in Logo /\ Upright(SymbolRect(c))
  BY CanvasParts
<1> HIDE DEF c
<1>2. Leading(c) \in Seq(IssueType)
  BY FrontIs
<1>3. Dense(c) \in Seq(IssueType)
  <2>1. Issue("DEGENERATE_MATRIX", "error", 90) \in IssueType
    BY DEF Issue, IssueType, Codes
  <2>. QED BY <2>1, WhenIs DEF Dense
<1>4. checkLogo(c) \in Seq(IssueType)
  <2>1. CASE c.style.logo.on
    <3>1. /\ Covers(c, 25) => Covers(c, 8)
          /\ Covers(c, 8) => Covers(c, 4)
          /\ Covers(c, 4) => Covers(c, 0)
      BY <1>1, SharesChain
    <3>. QED BY <2>1, <3>1, LogoSays
  <2>2. CASE ~c.style.logo.on
    <3>1. checkLogo(c) = <<>>
      BY <2>2 DEF checkLogo
    <3>2. <<>> \in Seq(IssueType)
      OBVIOUS
    <3>. QED BY <3>1, <3>2
  <2>. QED BY <2>1, <2>2
<1>5. Findings(c) = (Leading(c) \o checkLogo(c)) \o Dense(c)
  BY <1>1, FindingsAre
<1>. QED BY <1>2, <1>3, <1>4, <1>5, ConcatProperties DEF c

LEMMA ReportIsHonest == Rendered => ReportHonest
<1> SUFFICES ASSUME Rendered PROVE ReportHonest
  OBVIOUS
<1>1. CASE ~Canvas.ok
  BY <1>1 DEF ReportHonest, MonotoneVerdict, IssuesSorted
<1>2. CASE Canvas.ok
  <2>1. call.op = "draw" /\ Canvas = call.c
    BY <1>2 DEF Canvas, Refusal
  <2>2. PICK d \in Drawings : call.m = d[1] /\ call.s = d[2] /\ call.c = Render(d[1], d[2])
    BY <2>1 DEF Rendered
  <2> DEFINE m == call.m
             s == call.s
             c == Canvas
  <2>3. m \in Matrix /\ s \in Style /\ m.cols >= 2 * BubbleTailModules
    BY <2>2, DrawingsAssumption
  <2>4. c = Render(m, s) /\ Render(m, s).ok /\ call.found = Findings(Render(m, s)) /\ c.ok
    BY <1>2, <2>1, <2>2 DEF Rendered
  <2>5. c.style = s
    BY <2>3, <2>4, CanvasParts
  <2> HIDE DEF m, s, c
  <2>6. MonotoneVerdict
    <3> SUFFICES ASSUME c.style.logo.on, ~NearlyAllDark(c) PROVE MonotoneVerdict
      BY DEF MonotoneVerdict, c
    <3> DEFINE weaker == CASE c.style.ecc = "H" -> "Q" [] c.style.ecc = "Q" -> "M"
                           [] c.style.ecc = "M" -> "L" [] OTHER -> c.style.ecc
               larger == Render(m, [s EXCEPT !.logo.scale = Least(35, @ + 5)])
    <3>1. ~Thick(Render(m, s)) /\ s.logo.on
      BY <2>4, <2>5 DEF NearlyAllDark, Thick
    <3>2. NoStronger(s.ecc, weaker)
      BY <2>5 DEF NoStronger
    <3> HIDE DEF weaker
    <3>3. gradeFor(Findings([c EXCEPT !.style.ecc = weaker])) <= gradeFor(call.found)
      BY <2>3, <2>4, <3>1, <3>2, WeakerIsWorse
    <3>4. s.logo.scale # 0 => gradeFor(Findings(larger)) <= gradeFor(call.found)
      BY <2>3, <2>4, <3>1, LargerIsWorse
    <3>5. \A x : Scannability(x).grade = gradeFor(Findings(x))
      BY DEF Scannability, Report
    <3> HIDE DEF larger
    <3>6. /\ Scannability([c EXCEPT !.style.ecc = weaker]).grade <= gradeFor(call.found)
          /\ s.logo.scale # 0 => Scannability(larger).grade <= gradeFor(call.found)
      BY <3>3, <3>4, <3>5
    <3>. QED BY <3>6, Zenon DEF MonotoneVerdict, weaker, larger, c, m, s
  <2>7. IssuesSorted
    <3>1. call.found \in Seq(IssueType)
      BY <2>3, <2>4, FindingsTyped
    <3>2. Sorted(call.found)
      BY <3>1, FindingsSorted
    <3>. QED BY <3>2, Zenon DEF IssuesSorted, Sorted, OfRank
  <2>. QED BY <2>6, <2>7 DEF ReportHonest
<1>. QED BY <1>1, <1>2

(* For every design that is drawn, the report names the gravest issue      *)
(* first and the others in the order of the checks, says "unscannable"     *)
(* exactly when the first is an error, and never grades a larger logo or a *)
(* weaker correction level better (scannability.go).                       *)
THEOREM ReportsAreHonest == Spec => []ReportHonest
<1>. QED BY DrawingsAreRendered, ReportIsHonest, PTL

(***************************************************************************)
(* What the writers make of a canvas, of a colour and of a ramp (module    *)
(* Writers).                                                               *)
(***************************************************************************)

\* A product grows with its factor.
LEMMA ProductGrows ==
  ASSUME NEW i \in Nat, NEW j \in Nat, NEW k \in Nat, i <= j
  PROVE  i * k <= j * k
<1> DEFINE d == j - i
<1>1. d \in Nat /\ j = i + d
  OBVIOUS
<1> HIDE DEF d
<1>2. j * k = i * k + d * k
  BY <1>1
<1>3. i * k \in Int /\ d * k \in Nat
  BY <1>1
<1>. QED BY <1>2, <1>3

\* A quotient lies between two numbers whose products the dividend lies between.
LEMMA QuotientBetween ==
  ASSUME NEW n \in Nat, NEW d \in Nat \ {0}, NEW lo \in Nat, NEW hi \in Nat,
         lo * d <= n, n < hi * d + d
  PROVE  lo <= n \div d /\ n \div d <= hi /\ n \div d \in Nat
<1> DEFINE q == n \div d
<1>1. q \in Nat /\ q * d <= n /\ n < q * d + d
  OBVIOUS
<1> HIDE DEF q
<1>2. ASSUME q < lo PROVE FALSE
  <2>1. (q + 1) * d <= lo * d
    BY <1>1, <1>2, ProductGrows
  <2>2. (q + 1) * d = q * d + d
    BY <1>1
  <2>. QED BY <1>1, <2>1, <2>2
<1>3. ASSUME hi < q PROVE FALSE
  <2>1. (hi + 1) * d <= q * d
    BY <1>1, <1>3, ProductGrows
  <2>2. (hi + 1) * d = hi * d + d
    OBVIOUS
  <2>. QED BY <1>1, <2>1, <2>2
<1>. QED BY <1>1, <1>2, <1>3 DEF q

\* A weighted sum of two numbers lies between them.
LEMMA MeanBetween ==
  ASSUME NEW x \in Nat, NEW y \in Nat, NEW k \in Nat, NEW l \in Nat
  PROVE  LET lo == Least(x, y)
             hi == Largest(x, y)
             n  == x * k + y * l
         IN  n \in Nat /\ lo * (k + l) <= n /\ n <= hi * (k + l)
<1> DEFINE lo == Least(x, y)
           hi == Largest(x, y)
<1>1. lo \in Nat /\ hi \in Nat /\ lo <= x /\ lo <= y /\ x <= hi /\ y <= hi
  BY DEF Least, Largest
<1> HIDE DEF lo, hi
<1>2. lo * k <= x * k /\ lo * l <= y * l /\ x * k <= hi * k /\ y * l <= hi * l
  BY <1>1, ProductGrows
<1>3. lo * (k + l) = lo * k + lo * l /\ hi * (k + l) = hi * k + hi * l
  BY <1>1
<1>4. x * k \in Nat /\ y * l \in Nat /\ lo * k \in Int /\ lo * l \in Int /\ hi * k \in Int /\ hi * l \in Int
  BY <1>1
<1>. QED BY <1>2, <1>3, <1>4 DEF lo, hi

-----------------------------------------------------------------------------
(* Blending.                                                               *)
Byte == 0 .. 255

\* The mean of two bytes over 255, rounded in the two ways of the writers.
MeanSaid(x, y, k) ==
  LET n == x * k + y * (255 - k)
      q == (n + 127) \div 255
  IN  /\ n \in Nat /\ q \in Byte /\ Least(x, y) <= q /\ q <= Largest(x, y)
      /\ Rounded(n, 255) - q \in {-1, 0, 1}

LEMMA MeanOfBytes ==
  ASSUME NEW x \in Byte, NEW y \in Byte, NEW k \in Byte
  PROVE  MeanSaid(x, y, k)
<1> DEFINE n == x * k + y * (255 - k)
           q == (n + 127) \div 255
           lo == Least(x, y)
           hi == Largest(x, y)
<1>1. 255 - k \in Nat /\ k + (255 - k) = 255 /\ x \in Nat /\ y \in Nat /\ k \in Nat
  BY DEF Byte
<1>2. n \in Nat /\ lo * 255 <= n /\ n <= hi * 255
  <2> DEFINE l == 255 - k
  <2>1. l \in Nat /\ k + l = 255
    BY <1>1
  <2> HIDE DEF l
  <2>2. x * k + y * l \in Nat /\ lo * (k + l) <= x * k + y * l /\ x * k + y * l <= hi * (k + l)
    BY <1>1, <2>1, MeanBetween, ZenonT(40)
  <2>. QED BY <2>1, <2>2 DEF l
<1>3. lo \in Byte /\ hi \in Byte
  BY DEF lo, hi, Least, Largest
<1> HIDE DEF n, lo, hi
<1>4. lo <= q /\ q <= hi /\ q \in Nat
  <2>1. n + 127 \in Nat /\ lo * 255 <= n + 127 /\ n + 127 < hi * 255 + 255 /\ lo \in Nat /\ hi \in Nat
    BY <1>2, <1>3 DEF Byte
  <2>. QED BY <2>1, QuotientBetween
<1>5. Rounded(n, 255) - q \in {-1, 0, 1}
  <2> DEFINE u == (2 * n + 255) \div 510
  <2>1. u \in Int /\ 510 * u <= 2 * n + 255 /\ 2 * n + 255 < 510 * u + 510
    BY <1>2
  <2>2. q \in Int /\ 255 * q <= n + 127 /\ n + 127 < 255 * q + 255
    BY <1>2
  <2>3. Rounded(n, 255) = u
    BY <1>2 DEF Rounded
  <2> HIDE DEF u, q
  <2>4. u - q <= 1 /\ q - u <= 1
    BY <1>2, <2>1, <2>2
  <2>. QED BY <2>1, <2>2, <2>3, <2>4
<1> HIDE DEF q
<1>6. q \in Byte
  BY <1>3, <1>4 DEF Byte
<1>. QED BY <1>2, <1>4, <1>5, <1>6 DEF n, q, lo, hi, MeanSaid

\* What a colour painted over another is bounded by.
Painted(p, bg, r) ==
  /\ r.v \in Byte /\ r.a \in Byte /\ r.a >= p.a /\ r.a >= bg.a
  /\ (bg.a > 0 /\ p.a > 0) => Least(p.v, bg.v) <= r.v /\ r.v <= Largest(p.v, bg.v)

\* Two layers neither of which is opaque.
LayersSaid(x, y, k, b) ==
  LET inv == 255 - k
      out == k * 255 + b * inv
      v   == (x * k * 255 + y * b * inv) \div out
      a   == (out + 127) \div 255
  IN  /\ v \in Byte /\ a \in Byte /\ a >= k /\ a >= b
      /\ Least(x, y) <= v /\ v <= Largest(x, y)

LEMMA Translucent ==
  ASSUME NEW x \in Byte, NEW y \in Byte, NEW k \in 1 .. 254, NEW b \in 1 .. 254
  PROVE  LayersSaid(x, y, k, b)
<1> DEFINE inv == 255 - k
           K   == k * 255
           L   == b * inv
           out == K + L
           N   == x * K + y * L
           a   == (out + 127) \div 255
           lo  == Least(x, y)
           hi  == Largest(x, y)
<1>1. inv \in 1 .. 254 /\ x \in Nat /\ y \in Nat /\ k \in Nat /\ b \in Nat
  BY DEF Byte
<1>2. lo \in Byte /\ hi \in Byte
  BY DEF lo, hi, Least, Largest
<1>3. K \in Nat /\ L \in Nat /\ out \in Nat \ {0}
  <2>1. L \in Nat
    BY <1>1
  <2>. QED BY <2>1
<1>4. x * k * 255 = x * K /\ y * b * inv = y * L
  BY <1>1
<1>5. K >= k * 255 /\ out >= k * 255 /\ out >= b * 255 /\ out <= 255 * 255
  <2>1. L <= 255 * inv
    BY <1>1, ProductGrows
  <2>2. b * k <= 255 * k
    BY <1>1, ProductGrows
  <2>3. L = b * 255 - b * k
    BY <1>1
  <2>4. L \in Nat /\ b * k \in Nat
    BY <1>1
  <2> HIDE DEF L
  <2>. QED BY <1>1, <2>1, <2>2, <2>3, <2>4
<1> HIDE DEF K, L
<1>6. N \in Nat /\ lo * out <= N /\ N <= hi * out
  BY <1>1, <1>3, MeanBetween DEF lo, hi
<1> HIDE DEF N, out, lo, hi
<1>7. lo <= N \div out /\ N \div out <= hi /\ N \div out \in Nat
  <2>1. N < hi * out + out /\ lo \in Nat /\ hi \in Nat
    <3>1. hi * out \in Int
      BY <1>2, <1>3 DEF Byte
    <3>. QED BY <1>2, <1>3, <1>6, <3>1 DEF Byte
  <2>. QED BY <1>3, <1>6, <2>1, QuotientBetween
<1>8. a \in Nat /\ a >= k /\ a >= b /\ a <= 255
  BY <1>1, <1>3, <1>5
<1>9. (x * k * 255 + y * b * inv) \div (k * 255 + b * inv) = N \div out
  BY <1>4 DEF N, out, K, L
<1>10. a = ((k * 255 + b * inv) + 127) \div 255
  BY DEF a, out, K, L
<1> DEFINE v == N \div out
<1> HIDE DEF a, v
<1>11. v \in Byte /\ a \in Byte /\ a >= k /\ a >= b /\ lo <= v /\ v <= hi
  BY <1>2, <1>7, <1>8 DEF Byte, v
<1>. QED BY <1>9, <1>10, <1>11 DEF v, lo, hi, inv, LayersSaid

Blends(p, bg) ==
  LET r == Composite(p, bg)
  IN  /\ Painted(p, bg, r)
      /\ bg.a = 255 => vecOver(p, bg) - r.v \in {-1, 0, 1}
      /\ bg = White => overWhite(p) - r.v \in {-1, 0, 1}
      /\ backdrop(bg).a = 255

LEMMA InksBlend ==
  ASSUME NEW p, NEW bg, p.v \in Byte, p.a \in Byte, bg.v \in Byte, bg.a \in Byte
  PROVE  Blends(p, bg)
<1> DEFINE r == Composite(p, bg)
           inv == 255 - p.a
           n == p.v * p.a + bg.v * inv
<1>1. backdrop(bg).a = 255
  BY DEF backdrop, White
<1>2. bg = White => bg.v = 255 /\ bg.a = 255
  BY DEF White
<1>3. bg.a = 255 => vecOver(p, bg) = IF p.a = 255 THEN p.v ELSE Rounded(n, 255)
  BY DEF vecOver
<1>4. overWhite(p) = IF p.a = 255 THEN p.v ELSE (p.v * p.a + 255 * inv + 127) \div 255
  BY DEF overWhite
<1>5. /\ n \in Nat /\ (n + 127) \div 255 \in Byte
      /\ Least(p.v, bg.v) <= (n + 127) \div 255 /\ (n + 127) \div 255 <= Largest(p.v, bg.v)
      /\ Rounded(n, 255) - ((n + 127) \div 255) \in {-1, 0, 1}
  <2>1. MeanSaid(p.v, bg.v, p.a)
    BY MeanOfBytes
  <2>. QED BY <2>1 DEF MeanSaid
<1>6. Least(p.v, bg.v) <= p.v /\ p.v <= Largest(p.v, bg.v) /\ Least(p.v, bg.v) <= bg.v /\ bg.v <= Largest(p.v, bg.v)
  <2>1. \A x, y \in Int : Least(x, y) <= x /\ x <= Largest(x, y) /\ Least(x, y) <= y /\ y <= Largest(x, y)
    BY DEF Least, Largest
  <2>2. p.v \in Int /\ bg.v \in Int
    BY DEF Byte
  <2>. QED BY <2>1, <2>2
<1>7. CASE bg.a = 0 \/ p.a = 255
  <2>1. r = p
    BY <1>7 DEF Composite
  <2>2. Painted(p, bg, p)
    BY <1>6, <1>7 DEF Painted, Byte
  <2>3. bg.a = 255 => vecOver(p, bg) - p.v \in {-1, 0, 1}
    BY <1>3, <1>7 DEF Byte
  <2>4. bg = White => overWhite(p) - p.v \in {-1, 0, 1}
    BY <1>2, <1>4, <1>7 DEF Byte
  <2>. QED BY <1>1, <2>1, <2>2, <2>3, <2>4 DEF Blends
<1>8. CASE ~(bg.a = 0 \/ p.a = 255) /\ p.a = 0
  <2>1. r = bg
    BY <1>8 DEF Composite
  <2>2. Painted(p, bg, bg)
    BY <1>6, <1>8 DEF Painted, Byte
  <2>3. bg.a = 255 => vecOver(p, bg) - bg.v \in {-1, 0, 1}
    <3>1. n = bg.v * 255
      BY <1>8 DEF Byte
    <3>2. Rounded(bg.v * 255, 255) = bg.v
      BY DEF Rounded, Byte
    <3>. QED BY <1>3, <1>8, <3>1, <3>2 DEF Byte
  <2>4. bg = White => overWhite(p) - bg.v \in {-1, 0, 1}
    <3>1. (p.v * p.a + 255 * inv + 127) \div 255 = 255
      BY <1>8 DEF Byte
    <3>. QED BY <1>2, <1>4, <1>8, <3>1
  <2>. QED BY <1>1, <2>1, <2>2, <2>3, <2>4 DEF Blends
<1>9. CASE ~(bg.a = 0 \/ p.a = 255) /\ p.a # 0 /\ bg.a = 255
  <2>1. r.v = (n + 127) \div 255 /\ r.a = 255
    BY <1>9 DEF Composite
  <2> HIDE DEF r, n
  <2>2. Painted(p, bg, r)
    BY <1>5, <2>1 DEF Painted, Byte
  <2>3. vecOver(p, bg) - r.v \in {-1, 0, 1}
    BY <1>3, <1>5, <1>9, <2>1
  <2>4. bg = White => overWhite(p) - r.v \in {-1, 0, 1}
    <3>1. bg = White => overWhite(p) = (n + 127) \div 255
      BY <1>2, <1>4, <1>9 DEF n
    <3>. QED BY <1>5, <2>1, <3>1 DEF Byte
  <2>. QED BY <1>1, <2>2, <2>3, <2>4 DEF Blends, r
<1>10. CASE ~(bg.a = 0 \/ p.a = 255) /\ p.a # 0 /\ bg.a # 255
  <2> DEFINE out == p.a * 255 + bg.a * inv
  <2>1. r.v = (p.v * p.a * 255 + bg.v * bg.a * inv) \div out /\ r.a = (out + 127) \div 255
    BY <1>10 DEF Composite
  <2>2. p.a \in 1 .. 254 /\ bg.a \in 1 .. 254
    BY <1>10 DEF Byte
  <2>3. /\ r.v \in Byte /\ r.a \in Byte /\ r.a >= p.a /\ r.a >= bg.a
        /\ Least(p.v, bg.v) <= r.v /\ r.v <= Largest(p.v, bg.v)
    <3>1. LayersSaid(p.v, bg.v, p.a, bg.a)
      BY <2>2, Translucent
    <3>. QED BY <2>1, <3>1 DEF LayersSaid
  <2> HIDE DEF r
  <2>4. Painted(p, bg, r)
    BY <2>3 DEF Painted
  <2>. QED BY <1>1, <1>2, <1>10, <2>4 DEF Blends, r
<1>. QED BY <1>7, <1>8, <1>9, <1>10

-----------------------------------------------------------------------------
(* The objects of a PDF.                                                   *)
Marks == {"%", "obj", "body", "xref"}
Files == [bytes : Seq(Marks), offsets : Seq(Nat)]

\* Of k objects each begins where the table says, behind the one before.
Placed(bytes, at, k) ==
  /\ Len(at) = k
  /\ \A i \in 1 .. k : /\ at[i] \in Nat /\ at[i] < Len(bytes) /\ bytes[at[i] + 1] = "obj"
                       /\ \A j \in 1 .. (i - 1) : at[j] < at[i]
Written(file, k) == file \in Files /\ Placed(file.bytes, file.offsets, k)

\* A sequence is kept as another is put behind it.
Behind(s, t, u) ==
  /\ u \in Seq(Marks) /\ Len(u) = Len(s) + Len(t)
  /\ \A i \in 1 .. Len(s) : u[i] = s[i]
  /\ \A i \in 1 .. Len(t) : u[Len(s) + i] = t[i]

LEMMA BytesKept ==
  ASSUME NEW s \in Seq(Marks), NEW t \in Seq(Marks)
  PROVE  Behind(s, t, s \o t)
<1>1. s \o t \in Seq(Marks) /\ Len(s \o t) = Len(s) + Len(t)
  OBVIOUS
<1>2. \A i \in 1 .. Len(s) : (s \o t)[i] = s[i]
  OBVIOUS
<1>3. \A i \in 1 .. Len(t) : (s \o t)[Len(s) + i] = t[i]
  OBVIOUS
<1>. QED BY <1>1, <1>2, <1>3 DEF Behind

LEMMA ObjectWritten ==
  ASSUME NEW file, NEW k \in Nat, NEW n \in Nat, Written(file, k)
  PROVE  Written(PdfAppend(file, n), k + 1)
<1> DEFINE b == file.bytes
           at == file.offsets
           obj == <<"obj">>
           body == [i \in 1 .. n |-> "body"]
           head == b \o obj
           all == head \o body
           more == Append(at, Len(b))
           H == Seq(Marks)
<1>1. b \in H /\ at \in Seq(Nat) /\ Len(b) \in Nat
  BY DEF Written, Files
<1>2. obj \in H /\ Len(obj) = 1 /\ obj[1] = "obj" /\ body \in H /\ Len(body) = n
  BY DEF Marks
<1>3. PdfAppend(file, n) = [bytes |-> all, offsets |-> more]
  BY DEF PdfAppend
<1> HIDE DEF b, at, obj, body, head, all, more, H
<1>4. /\ head \in H /\ Len(head) = Len(b) + 1 /\ head[Len(b) + 1] = "obj"
      /\ \A i \in 1 .. Len(b) : head[i] = b[i]
  <2>1. Behind(b, obj, head)
    BY <1>1, <1>2, BytesKept DEF head, H
  <2>2. 1 \in 1 .. Len(obj)
    BY <1>2
  <2>. QED BY <1>1, <1>2, <2>1, <2>2 DEF Behind, H
<1>5. /\ all \in H /\ Len(all) = Len(b) + 1 + n /\ \A i \in 1 .. Len(head) : all[i] = head[i]
  <2>1. Behind(head, body, all)
    BY <1>2, <1>4, BytesKept DEF all, H
  <2>. QED BY <1>1, <1>2, <1>4, <2>1 DEF Behind, H
<1>6. all[Len(b) + 1] = "obj" /\ \A i \in 1 .. Len(b) : all[i] = b[i]
  BY <1>1, <1>4, <1>5
<1>7. /\ Len(at) = k
      /\ \A i \in 1 .. k : /\ at[i] \in Nat /\ at[i] < Len(b) /\ b[at[i] + 1] = "obj"
                           /\ \A j \in 1 .. (i - 1) : at[j] < at[i]
  BY DEF Written, Placed, b, at
<1>8. more \in Seq(Nat) /\ Len(more) = k + 1 /\ more[k + 1] = Len(b) /\ \A i \in 1 .. k : more[i] = at[i]
  BY <1>1, <1>7 DEF more
<1>9. Placed(all, more, k + 1)
  <2>1. ASSUME NEW i \in 1 .. k + 1
        PROVE  /\ more[i] \in Nat /\ more[i] < Len(all) /\ all[more[i] + 1] = "obj"
               /\ \A j \in 1 .. (i - 1) : more[j] < more[i]
    <3>1. CASE i = k + 1
      <4>1. more[i] = Len(b) /\ Len(b) < Len(all)
        BY <1>1, <1>5, <1>8, <3>1
      <4>2. \A j \in 1 .. (i - 1) : more[j] < more[i]
        BY <1>7, <1>8, <3>1, <4>1
      <4>. QED BY <1>1, <1>6, <4>1, <4>2
    <3>2. CASE i # k + 1
      <4>1. i \in 1 .. k /\ \A j \in 1 .. (i - 1) : j \in 1 .. k
        BY <3>2
      <4>2. more[i] = at[i] /\ at[i] \in Nat /\ at[i] < Len(b) /\ b[at[i] + 1] = "obj"
        BY <1>7, <1>8, <4>1
      <4>3. at[i] + 1 \in 1 .. Len(b) /\ at[i] < Len(all)
        BY <1>1, <1>5, <4>2
      <4>4. \A j \in 1 .. (i - 1) : more[j] < more[i]
        BY <1>7, <1>8, <4>1, <4>2
      <4>. QED BY <1>6, <4>2, <4>3, <4>4
    <3>. QED BY <3>1, <3>2
  <2>. QED BY <1>8, <2>1 DEF Placed
<1> DEFINE f == [bytes |-> all, offsets |-> more]
<1>10. f \in Files /\ f.bytes = all /\ f.offsets = more
  BY <1>5, <1>8 DEF Files, H
<1> HIDE DEF f
<1>11. Written(f, k + 1)
  BY <1>9, <1>10 DEF Written
<1>. QED BY <1>3, <1>11 DEF f

LEMMA FileWritten ==
  ASSUME NEW lens \in Seq(Nat)
  PROVE  \E file : /\ Written(file, Len(lens))
                   /\ pdfSerialise(lens) = [bytes |-> file.bytes \o <<"xref">>, offsets |-> file.offsets,
                                            startxref |-> Len(file.bytes)]
<1> DEFINE n == Len(lens)
           first == [bytes |-> PdfHeader, offsets |-> <<>>]
           H == Files
           Next1(o, k) == PdfAppend(o, lens[k])
           Runs(g) == g = [k \in 0 .. n |-> IF k = 0 THEN first ELSE Next1(g[k - 1], k)]
           made == CHOOSE g : Runs(g)
           step == [k \in 1 .. n |-> [o \in H |-> Next1(o, k)]]
<1>0. n \in Nat /\ \A k \in 1 .. n : lens[k] \in Nat
  OBVIOUS
<1>1. pdfSerialise(lens) = [bytes |-> made[n].bytes \o <<"xref">>, offsets |-> made[n].offsets,
                            startxref |-> Len(made[n].bytes)]
  BY DEF pdfSerialise
<1>2. first \in H /\ Written(first, 0)
  <2>1. PdfHeader \in Seq(Marks)
    BY DEF PdfHeader, Marks
  <2>2. first \in H /\ first.offsets = <<>>
    BY <2>1 DEF Files
  <2> HIDE DEF first
  <2>. QED BY <2>2 DEF Written, Placed
<1>3. \A k \in 1 .. n : \A o \in H : Next1(o, k) \in H
  <2> TAKE k \in 1 .. n
  <2> TAKE o \in H
  <2> DEFINE b == o.bytes \o <<"obj">>
             t == [i \in 1 .. lens[k] |-> "body"]
             more == Append(o.offsets, Len(o.bytes))
  <2>1. o.bytes \in Seq(Marks) /\ o.offsets \in Seq(Nat)
    BY DEF Files
  <2>2. <<"obj">> \in Seq(Marks) /\ t \in Seq(Marks)
    BY <1>0 DEF Marks
  <2>3. b \o t \in Seq(Marks)
    <3>1. b \in Seq(Marks)
      BY <2>1, <2>2
    <3> HIDE DEF b, t
    <3>. QED BY <2>2, <3>1
  <2>4. more \in Seq(Nat)
    BY <2>1
  <2>5. Next1(o, k) = [bytes |-> b \o t, offsets |-> more]
    BY DEF PdfAppend
  <2> HIDE DEF b, t, more, Next1
  <2>. QED BY <2>3, <2>4, <2>5 DEF Files
<1> HIDE DEF H, Next1, first
<1>4. step \in StepsOn(n, H)
  BY <1>3 DEF StepsOn
<1>5. PICK g \in [0 .. n -> H] : g[0] = first /\ \A k \in 1 .. n : g[k] = step[k][g[k - 1]]
  <2> HIDE DEF step, n
  <2>1. \E g : Computes(g, n, H, first, step)
    BY <1>0, <1>2, <1>4, Recursion
  <2>. QED BY <2>1 DEF Computes
<1>6. Runs(g)
  <2>1. ASSUME NEW k \in 1 .. n PROVE g[k] = Next1(g[k - 1], k)
    <3>1. g[k - 1] \in H
      <4>1. k - 1 \in 0 .. n
        BY <1>0
      <4>. QED BY <1>5, <4>1
    <3>2. step[k] = [o \in H |-> Next1(o, k)]
      OBVIOUS
    <3> HIDE DEF step
    <3>. QED BY <1>5, <3>1, <3>2
  <2>2. \A k \in 0 .. n : k = 0 \/ k \in 1 .. n
    BY <1>0
  <2>. QED BY <1>5, <2>1, <2>2
<1>7. Runs(made)
  <2> HIDE DEF Runs
  <2>. QED BY <1>6
<1> HIDE DEF made, step
<1> DEFINE Good == {k \in 0 .. n : Written(made[k], k)}
<1>8. 0 \in Good
  BY <1>0, <1>2, <1>7
<1>9. ASSUME NEW k \in 1 .. n, k - 1 \in Good PROVE k \in Good
  <2>1. made[k] = PdfAppend(made[k - 1], lens[k])
    BY <1>0, <1>7, SMTT(30) DEF Next1
  <2>2. Written(made[k - 1], k - 1) /\ k - 1 \in Nat /\ lens[k] \in Nat /\ k - 1 + 1 = k
    BY <1>0, <1>9
  <2>3. Written(PdfAppend(made[k - 1], lens[k]), k - 1 + 1)
    BY <2>2, ObjectWritten
  <2>. QED BY <2>1, <2>2, <2>3
<1>10. Written(made[n], n)
  <2> HIDE DEF Good
  <2>1. \A k \in 0 .. n : k \in Good
    BY <1>0, <1>8, <1>9, Induction
  <2>. QED BY <1>0, <2>1 DEF Good
<1>. QED BY <1>1, <1>10

\* What a PDF's table says of its objects.
Resolved(c) ==
  LET file == pdfSerialise([i \in 1 .. PdfObjects(c) |-> (i * i) % 4])
  IN  /\ \A i \in PdfRefs(c) : /\ i \in DOMAIN file.offsets
                               /\ file.bytes[file.offsets[i] + 1] = "obj"
                               /\ \A k \in 1 .. (i - 1) : file.offsets[k] < file.offsets[i]
      /\ file.bytes[file.startxref + 1] = "xref"

LEMMA ObjectsResolve ==
  ASSUME NEW c, c.hri \in Nat
  PROVE  Resolved(c)
<1> DEFINE n == PdfObjects(c)
           lens == [i \in 1 .. n |-> (i * i) % 4]
           out == pdfSerialise(lens)
<1>1. n \in Nat /\ PdfRefs(c) \subseteq 1 .. n
  BY DEF PdfObjects, PdfRefs
<1>2. lens \in Seq(Nat) /\ Len(lens) = n
  <2> HIDE DEF n
  <2>1. \A i \in 1 .. n : (i * i) % 4 \in Nat
    <3>1. \A i \in Nat : i * i \in Nat
      OBVIOUS
    <3>. QED BY <1>1, <3>1
  <2> DEFINE f(i) == (i * i) % 4
  <2> HIDE DEF f
  <2>2. [i \in 1 .. n |-> f(i)] \in Seq(Nat) /\ Len([i \in 1 .. n |-> f(i)]) = n
    BY <1>1, <2>1 DEF f
  <2>. QED BY <2>2 DEF f
<1>3. PICK file : /\ Written(file, n)
                  /\ out = [bytes |-> file.bytes \o <<"xref">>, offsets |-> file.offsets,
                            startxref |-> Len(file.bytes)]
  <2> HIDE DEF lens, n
  <2>. QED BY <1>2, FileWritten
<1> DEFINE b == file.bytes
           at == file.offsets
           tail == <<"xref">>
           all == b \o tail
<1>4. out.bytes = all /\ out.offsets = at /\ out.startxref = Len(b)
  <2> DEFINE l == Len(b)
  <2>1. out = [bytes |-> all, offsets |-> at, startxref |-> l]
    BY <1>3
  <2> HIDE DEF out, all, at, l
  <2>2. out.bytes = all /\ out.offsets = at /\ out.startxref = l
    BY <2>1
  <2>. QED BY <2>2 DEF l
<1>5. b \in Seq(Marks) /\ at \in Seq(Nat) /\ tail \in Seq(Marks) /\ Len(tail) = 1 /\ tail[1] = "xref"
  BY <1>3 DEF Written, Files, Marks
<1>6. /\ Len(at) = n
      /\ \A i \in 1 .. n : /\ at[i] \in Nat /\ at[i] < Len(b) /\ b[at[i] + 1] = "obj"
                           /\ \A j \in 1 .. (i - 1) : at[j] < at[i]
  BY <1>3 DEF Written, Placed
<1> HIDE DEF out, b, at, tail, all, n
<1>7. all[Len(b) + 1] = "xref" /\ \A i \in 1 .. Len(b) : all[i] = b[i]
  <2>1. Behind(b, tail, all)
    BY <1>5, BytesKept DEF all
  <2>2. 1 \in 1 .. Len(tail)
    BY <1>5
  <2>. QED BY <1>5, <2>1, <2>2 DEF Behind
<1>8. ASSUME NEW i \in PdfRefs(c)
      PROVE  /\ i \in DOMAIN at /\ all[at[i] + 1] = "obj" /\ \A k \in 1 .. (i - 1) : at[k] < at[i]
  <2>1. i \in 1 .. n
    BY <1>1
  <2>2. at[i] + 1 \in 1 .. Len(b)
    BY <1>5, <1>6, <2>1
  <2>3. DOMAIN at = 1 .. n
    BY <1>5, <1>6
  <2>. QED BY <1>6, <1>7, <2>1, <2>2, <2>3
<1>9. Resolved(c) <=> /\ \A i \in PdfRefs(c) : /\ i \in DOMAIN out.offsets
                                               /\ out.bytes[out.offsets[i] + 1] = "obj"
                                               /\ \A k \in 1 .. (i - 1) : out.offsets[k] < out.offsets[i]
                      /\ out.bytes[out.startxref + 1] = "xref"
  BY DEF Resolved, out, n
<1>. QED BY <1>4, <1>7, <1>8, <1>9

-----------------------------------------------------------------------------
(* Ramps.                                                                  *)
Between(x, y, v) == Least(x, y) <= v /\ v <= Largest(x, y)

\* What is sampled between two stops lies between their colours.
LEMMA LerpBetween ==
  ASSUME NEW x \in Nat, NEW y \in Nat, NEW num \in Nat, NEW den \in Nat \ {0}, num <= den
  PROVE  Between(x, y, lerpColor(x, y, num, den))
<1> DEFINE rest == den - num
           n  == x * rest + y * num
           lo == Least(x, y)
           hi == Largest(x, y)
           d  == 2 * den
           N  == 2 * n + den
<1>1. rest \in Nat /\ rest + num = den /\ d \in Nat \ {0}
  OBVIOUS
<1>2. lo \in Nat /\ hi \in Nat
  BY DEF Least, Largest
<1>3. lerpColor(x, y, num, den) = N \div d
  <2>1. 2 * x * den + 2 * (y - x) * num + den = N
    OBVIOUS
  <2> HIDE DEF N
  <2>. QED BY <2>1 DEF lerpColor
<1> HIDE DEF rest
<1>4. n \in Nat /\ lo * (rest + num) <= n /\ n <= hi * (rest + num)
  BY <1>1, MeanBetween
<1> HIDE DEF n, lo, hi
<1>5. lo * d = 2 * (lo * den) /\ hi * d = 2 * (hi * den) /\ lo * den \in Nat /\ hi * den \in Nat
  BY <1>2
<1> DEFINE l == lo * den
           h == hi * den
<1>6. l \in Nat /\ h \in Nat /\ l <= n /\ n <= h /\ lo * d = 2 * l /\ hi * d = 2 * h
  BY <1>1, <1>4, <1>5
<1> HIDE DEF l, h
<1>7. N \in Nat /\ lo * d <= N /\ N < hi * d + d
  BY <1>4, <1>6
<1> HIDE DEF N, d
<1>8. lo <= N \div d /\ N \div d <= hi
  BY <1>1, <1>2, <1>7, QuotientBetween
<1>. QED BY <1>3, <1>8 DEF Between, lo, hi

\* A list of stops in order.
Stops(stops, n) ==
  /\ n \in Nat /\ n >= 2 /\ DOMAIN stops = 1 .. n /\ Len(stops) = n
  /\ \A i \in 1 .. n : stops[i].color \in Nat /\ stops[i].at \in 0 .. Full
  /\ \A i \in 2 .. n : stops[i - 1].at <= stops[i].at

LEMMA StopsParsed ==
  ASSUME NEW args \in Seq([color : 0 .. 255, at : Int]), ParseGradient(args).ok
  PROVE  Stops(ParseGradient(args).stops, Len(args))
<1> DEFINE n == Len(args)
           stops == [i \in DOMAIN args |-> [color |-> args[i].color, at |-> Offset(args, i)]]
           ok == /\ Len(args) \in 2 .. maxGradientStops
                 /\ \A i \in DOMAIN args : args[i].at # Unset => args[i].at \in 0 .. Full
                 /\ \A i \in 2 .. Len(args) : stops[i].at >= stops[i - 1].at
<1>1. ParseGradient(args).ok <=> ok
  BY DEF ParseGradient
<1>2. ParseGradient(args).stops = stops
  BY <1>1 DEF ParseGradient
<1>3. n \in Nat /\ n >= 2 /\ DOMAIN args = 1 .. n /\ \A i \in 1 .. n : args[i] \in [color : 0 .. 255, at : Int]
  <2>1. n \in 2 .. 16
    BY <1>1 DEF maxGradientStops
  <2>2. DOMAIN args = 1 .. n /\ \A i \in 1 .. n : args[i] \in [color : 0 .. 255, at : Int]
    <3> DEFINE T == [color : 0 .. 255, at : Int]
    <3>1. args \in Seq(T)
      OBVIOUS
    <3> HIDE DEF T
    <3>2. DOMAIN args = 1 .. n
      BY <3>1
    <3>3. \A i \in 1 .. n : args[i] \in T
      BY <3>1
    <3>. QED BY <3>2, <3>3 DEF T
  <2> HIDE DEF n
  <2>. QED BY <2>1, <2>2
<1>4. \A i \in 1 .. n : stops[i].color = args[i].color /\ stops[i].at = Offset(args, i)
  BY <1>3
<1>5. DOMAIN stops = 1 .. n /\ Len(stops) = n
  BY <1>3
<1>6. \A i \in 2 .. n : stops[i - 1].at <= stops[i].at
  <2> TAKE i \in 2 .. n
  <2>1. stops[i].at >= stops[i - 1].at
    BY <1>1
  <2>2. i \in 1 .. n /\ i - 1 \in 1 .. n
    BY <1>3
  <2>. QED BY <2>1
<1>7. ASSUME NEW i \in 1 .. n PROVE Offset(args, i) \in 0 .. Full
  <2>1. CASE args[i].at # Unset
    BY <1>1, <1>3, <2>1 DEF Offset
  <2>2. CASE args[i].at = Unset
    <3> DEFINE k == (i - 1) * Full
               d == n - 1
    <3>1. k \in Nat /\ d \in Nat \ {0} /\ 0 * d <= k /\ k < Full * d + d /\ Full \in Nat
      BY <1>3 DEF Full
    <3>2. Offset(args, i) = k \div d
      BY <2>2 DEF Offset
    <3> HIDE DEF k, d
    <3>3. 0 <= k \div d /\ k \div d <= Full /\ k \div d \in Nat
      BY <3>1, QuotientBetween
    <3>. QED BY <3>1, <3>2, <3>3
  <2>. QED BY <2>1, <2>2
<1> HIDE DEF stops, n
<1>8. \A i \in 1 .. n : stops[i].color \in Nat /\ stops[i].at \in 0 .. Full
  <2> TAKE i \in 1 .. n
  <2>1. args[i] \in [color : 0 .. 255, at : Int] /\ Offset(args, i) \in 0 .. Full
    BY <1>3, <1>7
  <2>2. args[i].color \in 0 .. 255
    BY <2>1
  <2>3. \A v \in 0 .. 255 : v \in Nat
    OBVIOUS
  <2>. QED BY <1>4, <2>1, <2>2, <2>3
<1>9. Stops(stops, n)
  BY <1>3, <1>5, <1>6, <1>8 DEF Stops
<1>. QED BY <1>2, <1>9 DEF n

\* A place of the sweep, between a stop and the next.
Sampled(stops, n, t, i) ==
  LET here == stops[i]
      next == stops[Least(i + 1, n)]
      c    == sample(stops, t)
  IN  /\ t >= here.at \/ i = 1
      /\ t <= next.at \/ i = n
      /\ Least(here.color, next.color) <= c /\ c <= Largest(here.color, next.color)

LEMMA SampleBetween ==
  ASSUME NEW stops, NEW n, Stops(stops, n), NEW t \in 0 .. Full
  PROVE  \E i \in 1 .. n : Sampled(stops, n, t, i)
<1>0. /\ n \in Nat /\ n >= 2 /\ Len(stops) = n /\ t \in Int
      /\ \A i \in 1 .. n : stops[i].color \in Nat /\ stops[i].at \in Int
      /\ \A i \in 2 .. n : stops[i - 1].at <= stops[i].at
  <2>1. \A v \in 0 .. Full : v \in Int
    BY DEF Full
  <2>2. \A i \in 1 .. n : stops[i].color \in Nat /\ stops[i].at \in 0 .. Full
    BY DEF Stops
  <2>3. n \in Nat /\ n >= 2 /\ Len(stops) = n /\ \A i \in 2 .. n : stops[i - 1].at <= stops[i].at
    BY DEF Stops
  <2>. QED BY <2>1, <2>2, <2>3
<1>1. \A x, y \in Nat : Least(x, y) <= x /\ x <= Largest(x, y) /\ Least(x, y) <= y /\ y <= Largest(x, y)
  BY DEF Least, Largest
<1>2. CASE t <= stops[1].at
  <2>1. sample(stops, t) = stops[1].color
    BY <1>2 DEF sample
  <2>2. Least(2, n) = 2 /\ 1 \in 1 .. n /\ 2 \in 1 .. n /\ stops[2 - 1].at <= stops[2].at
    BY <1>0 DEF Least
  <2>3. stops[1].at <= stops[2].at
    BY <2>2
  <2>4. t <= stops[2].at
    BY <1>0, <1>2, <2>2, <2>3
  <2>5. Sampled(stops, n, t, 1)
    BY <1>0, <1>1, <2>1, <2>2, <2>4 DEF Sampled
  <2>. QED BY <2>2, <2>5
<1>3. CASE ~(t <= stops[1].at) /\ t >= stops[n].at
  <2>1. sample(stops, t) = stops[n].color
    BY <1>0, <1>3 DEF sample
  <2>2. Least(n + 1, n) = n /\ n \in 1 .. n
    BY <1>0 DEF Least
  <2>3. Sampled(stops, n, t, n)
    BY <1>0, <1>1, <1>3, <2>1, <2>2 DEF Sampled
  <2>. QED BY <2>2, <2>3
<1>4. CASE ~(t <= stops[1].at) /\ ~(t >= stops[n].at)
  <2> DEFINE First(i) == t <= stops[i].at /\ \A j \in 2 .. (i - 1) : t > stops[j].at
             k == Segment(stops, t)
             S == {i \in 2 .. n : t <= stops[i].at}
             a == stops[k - 1]
             b == stops[k]
  <2>1. \E i \in 2 .. n : First(i)
    <3>1. S \in SUBSET Nat /\ n \in S
      BY <1>0, <1>4
    <3>2. PICK i \in S : \A j \in S : i <= j
      <4> HIDE DEF S
      <4>. QED BY <3>1, LeastNumber
    <3>3. ASSUME NEW j \in 2 .. (i - 1) PROVE t > stops[j].at
      <4>1. j \in 2 .. n /\ j \in 1 .. n /\ ~(i <= j)
        BY <1>0, <3>2
      <4>2. j \notin S
        BY <3>2, <4>1
      <4>. QED BY <1>0, <4>1, <4>2
    <3>. QED BY <3>2, <3>3
  <2>2. k \in 2 .. n /\ First(k)
    <3>1. k = CHOOSE i \in 2 .. n : First(i)
      BY <1>0 DEF Segment
    <3> HIDE DEF First, k
    <3>. QED BY <2>1, <3>1
  <2> HIDE DEF k, S
  <2>3. k \in 1 .. n /\ k - 1 \in 1 .. n /\ k - 1 + 1 = k /\ Least(k, n) = k
    BY <1>0, <2>2 DEF Least
  <2>4. a.at < t /\ t <= b.at
    <3>1. CASE k = 2
      BY <1>0, <1>4, <2>2, <2>3, <3>1
    <3>2. CASE k # 2
      <4>1. k - 1 \in 2 .. (k - 1)
        BY <2>2, <3>2
      <4>. QED BY <1>0, <2>2, <2>3, <4>1
    <3>. QED BY <3>1, <3>2
  <2>5. a.at \in Int /\ b.at \in Int /\ a.color \in Nat /\ b.color \in Nat
    BY <1>0, <2>3
  <2>6. sample(stops, t) = lerpColor(a.color, b.color, t - a.at, b.at - a.at)
    <3>1. b.at # a.at
      BY <1>0, <2>4, <2>5
    <3>. QED BY <1>0, <1>4, <3>1 DEF sample, k
  <2>7. Between(a.color, b.color, sample(stops, t))
    <3> DEFINE num == t - a.at
               den == b.at - a.at
    <3>1. num \in Nat /\ den \in Nat \ {0} /\ num <= den
      <4>1. \A u, v, w \in Int : u < w /\ w <= v => /\ w - u \in Nat /\ v - u \in Nat \ {0}
                                                   /\ w - u <= v - u
        OBVIOUS
      <4>. QED BY <1>0, <2>4, <2>5, <4>1
    <3> HIDE DEF num, den, a, b
    <3>2. Between(a.color, b.color, lerpColor(a.color, b.color, num, den))
      BY <2>5, <3>1, LerpBetween
    <3>. QED BY <2>6, <3>2 DEF num, den
  <2>8. Sampled(stops, n, t, k - 1)
    BY <1>0, <2>3, <2>4, <2>5, <2>7 DEF Sampled, Between
  <2>. QED BY <2>3, <2>8
<1>. QED BY <1>2, <1>3, <1>4

-----------------------------------------------------------------------------
(* Runs of modules.                                                        *)

\* The dark modules of a canvas are on it.
Drawable(c) ==
  /\ c.cols \in Nat /\ c.rows \in Nat \ {0} /\ c.dark \subseteq (0 .. (c.cols - 1)) \X (0 .. (c.rows - 1))
  /\ c.hri \in Nat /\ c.style.hriSize \in Int

LEMMA DarkIsOn ==
  ASSUME NEW c, Drawable(c), NEW x, NEW y, At(c, x, y)
  PROVE  x \in 0 .. (c.cols - 1) /\ y \in 0 .. (c.rows - 1)
<1>1. <<x, y>> \in (0 .. (c.cols - 1)) \X (0 .. (c.rows - 1))
  BY DEF Drawable, At
<1>. QED BY <1>1

\* From its start a run goes on to the first module that is not of it.
RunOf(c, x, y, n) ==
  /\ n \in 1 .. c.cols /\ ~Joined(c, x, x + n, y) /\ \A i \in x .. (x + n - 1) : Joined(c, x, i, y)

LEMMA RunLengthIs ==
  ASSUME NEW c, Drawable(c), NEW y, NEW x \in RunStarts(c, y)
  PROVE  RunOf(c, x, y, RunLength(c, x, y))
<1> DEFINE S == {n \in 1 .. c.cols : ~Joined(c, x, x + n, y)}
           Good(n) == ~Joined(c, x, x + n, y) /\ \A i \in x .. (x + n - 1) : Joined(c, x, i, y)
<1>1. x \in 0 .. (c.cols - 1) /\ c.cols \in Nat /\ At(c, x, y)
  BY DEF RunStarts, Drawable
<1>2. S \in SUBSET Nat /\ S # {}
  <2>1. c.cols - x \in 1 .. c.cols /\ x + (c.cols - x) = c.cols
    BY <1>1
  <2>2. ~Joined(c, x, c.cols, y)
    <3>1. ~At(c, c.cols, y)
      BY <1>1, DarkIsOn
    <3>. QED BY <3>1 DEF Joined
  <2>3. c.cols - x \in S
    BY <2>1, <2>2
  <2>. QED BY <2>3
<1>3. PICK n \in S : \A j \in S : n <= j
  <2> HIDE DEF S
  <2>. QED BY <1>2, LeastNumber
<1>4. ASSUME NEW i \in x .. (x + n - 1) PROVE Joined(c, x, i, y)
  <2>1. CASE i = x
    BY <1>1, <2>1 DEF Joined
  <2>2. CASE i # x
    <3> DEFINE j == i - x
    <3>1. j \in 1 .. c.cols /\ ~(n <= j) /\ x + j = i
      BY <1>1, <1>3, <2>2
    <3> HIDE DEF j
    <3>2. j \notin S
      BY <1>3, <3>1
    <3>. QED BY <3>1, <3>2
  <2>. QED BY <2>1, <2>2
<1>5. \E k \in 1 .. c.cols : Good(k)
  BY <1>3, <1>4
<1>6. RunLength(c, x, y) = CHOOSE k \in 1 .. c.cols : Good(k)
  BY DEF RunLength
<1> HIDE DEF Good
<1>7. RunLength(c, x, y) \in 1 .. c.cols /\ Good(RunLength(c, x, y))
  BY <1>5, <1>6
<1>. QED BY <1>7 DEF Good, RunOf

\* A run lies through every dark module.
LEMMA RunThrough ==
  ASSUME NEW c, Drawable(c), NEW x, NEW y, At(c, x, y)
  PROVE  \E a \in RunStarts(c, y) : a <= x /\ x < a + RunLength(c, a, y)
<1> DEFINE Like(i) == At(c, i, y) /\ ColorAt(c, i, y) = ColorAt(c, x, y)
           T == {a \in 0 .. x : \A i \in a .. x : Like(i)}
<1>1. x \in 0 .. (c.cols - 1) /\ c.cols \in Nat
  BY DarkIsOn DEF Drawable
<1>2. T \in SUBSET Nat /\ x \in T
  BY <1>1
<1>3. PICK a \in T : \A b \in T : a <= b
  <2> HIDE DEF T
  <2>. QED BY <1>2, LeastNumber
<1>4. a \in 0 .. x /\ Like(a) /\ \A i \in a .. x : Like(i)
  BY <1>1, <1>3
<1>5. ~Joined(c, a, a - 1, y)
  <2> SUFFICES ASSUME Joined(c, a, a - 1, y) PROVE FALSE
    OBVIOUS
  <2>1. Like(a - 1)
    BY <1>4 DEF Joined
  <2>2. a - 1 \in 0 .. x
    <3>1. a - 1 \in 0 .. (c.cols - 1)
      BY <2>1, DarkIsOn
    <3>. QED BY <1>1, <1>4, <3>1
  <2>3. \A i \in (a - 1) .. x : i = a - 1 \/ i \in a .. x
    BY <1>4
  <2> HIDE DEF Like
  <2>4. a - 1 \in T
    BY <1>4, <2>1, <2>2, <2>3
  <2>. QED BY <1>3, <1>4, <2>4
<1>6. a \in RunStarts(c, y)
  BY <1>1, <1>4, <1>5 DEF RunStarts
<1> DEFINE n == RunLength(c, a, y)
<1>7. n \in Nat /\ ~Joined(c, a, a + n, y)
  <2>1. RunOf(c, a, y, n)
    BY <1>6, RunLengthIs
  <2>. QED BY <1>1, <2>1 DEF RunOf
<1> HIDE DEF n
<1>8. ~(a + n <= x)
  <2> SUFFICES ASSUME a + n <= x PROVE FALSE
    OBVIOUS
  <2>1. a + n \in a .. x
    BY <1>1, <1>4, <1>7
  <2>2. Like(a + n) /\ Like(a)
    BY <1>4, <2>1
  <2>. QED BY <1>7, <2>2 DEF Joined
<1>. QED BY <1>1, <1>4, <1>6, <1>7, <1>8 DEF n

\* What a run of a canvas is.
Spans(c, r) ==
  /\ r.y \in 0 .. (c.rows - 1) /\ r.x \in RunStarts(c, r.y) /\ r.n = RunLength(c, r.x, r.y)
  /\ r = [x |-> r.x, y |-> r.y, n |-> r.n, color |-> ColorAt(c, r.x, r.y)]

LEMMA RunsAre ==
  ASSUME NEW c, NEW r
  PROVE  r \in vecRuns(c) <=> Spans(c, r)
<1> DEFINE Run(x, y) == [x |-> x, y |-> y, n |-> RunLength(c, x, y), color |-> ColorAt(c, x, y)]
<1>1. r \in vecRuns(c) <=> \E y \in 0 .. (c.rows - 1) : \E x \in RunStarts(c, y) : r = Run(x, y)
  BY DEF vecRuns
<1>2. ASSUME NEW y \in 0 .. (c.rows - 1), NEW x \in RunStarts(c, y), r = Run(x, y) PROVE Spans(c, r)
  <2>1. r.x = x /\ r.y = y /\ r.n = RunLength(c, x, y)
    BY <1>2
  <2>. QED BY <1>2, <2>1 DEF Spans
<1>3. ASSUME Spans(c, r) PROVE \E y \in 0 .. (c.rows - 1) : \E x \in RunStarts(c, y) : r = Run(x, y)
  <2>1. r = Run(r.x, r.y)
    BY <1>3 DEF Spans
  <2> HIDE DEF Run
  <2>. QED BY <1>3, <2>1 DEF Spans
<1>. QED BY <1>1, <1>2, <1>3

\* No two runs of a row overlap.
LEMMA RunsApart ==
  ASSUME NEW c, Drawable(c), NEW r \in vecRuns(c), NEW q \in vecRuns(c), r # q, r.y = q.y
  PROVE  r.x + r.n <= q.x \/ q.x + q.n <= r.x
<1>1. ASSUME NEW a \in vecRuns(c)
      PROVE  a.x \in Nat /\ a.n \in Nat /\ RunOf(c, a.x, a.y, a.n) /\ ~Joined(c, a.x, a.x - 1, a.y) /\ Spans(c, a)
  <2>1. Spans(c, a)
    BY RunsAre
  <2>2. RunOf(c, a.x, a.y, a.n)
    BY <2>1, RunLengthIs DEF Spans
  <2>3. a.x \in 0 .. (c.cols - 1) /\ ~Joined(c, a.x, a.x - 1, a.y)
    BY <2>1 DEF Spans, RunStarts
  <2>4. a.n \in 1 .. c.cols
    BY <2>2 DEF RunOf
  <2>. QED BY <2>1, <2>2, <2>3, <2>4
<1>2. r.x # q.x
  <2> SUFFICES ASSUME r.x = q.x PROVE r = q
    OBVIOUS
  <2>. QED BY <1>1 DEF Spans
<1>3. ASSUME NEW a \in vecRuns(c), NEW b \in vecRuns(c), a.y = b.y, a.x < b.x, b.x < a.x + a.n PROVE FALSE
  <2>1. b.x \in a.x .. (a.x + a.n - 1) /\ b.x - 1 \in a.x .. (a.x + a.n - 1)
    BY <1>1, <1>3
  <2>2. Joined(c, a.x, b.x, a.y) /\ Joined(c, a.x, b.x - 1, a.y)
    BY <1>1, <2>1 DEF RunOf
  <2>3. Joined(c, b.x, b.x - 1, b.y)
    BY <1>3, <2>2 DEF Joined
  <2>. QED BY <1>1, <2>3
<1>4. r.x \in Int /\ q.x \in Int /\ r.n \in Int /\ q.n \in Int
  BY <1>1
<1>5. CASE r.x < q.x
  BY <1>3, <1>4, <1>5
<1>6. CASE q.x < r.x
  BY <1>3, <1>4, <1>6
<1>. QED BY <1>2, <1>4, <1>5, <1>6

LEMMA PageIs ==
  ASSUME NEW c, Drawable(c)
  PROVE  PageRows(c) \in Int /\ hriFontModules(c) \in Nat \ {0}
         /\ (c.hri > 0 => PageRows(c) = c.rows + hriFontModules(c) + 1)
<1>1. hriFontModules(c) \in Nat \ {0}
  BY DEF Drawable, hriFontModules
<1> DEFINE f == hriFontModules(c)
<1> HIDE DEF f
<1>2. PageRows(c) = c.rows + (IF c.hri > 0 THEN f + 1 ELSE 0)
  BY DEF PageRows, hriBandPad, f
<1>3. c.rows \in Nat /\ f \in Nat
  BY <1>1 DEF Drawable, f
<1>. QED BY <1>1, <1>2, <1>3 DEF f

\* The modules a run covers, on its page.
LEMMA RunOnPage ==
  ASSUME NEW c, Drawable(c), NEW r \in vecRuns(c), NEW p
  PROVE  p \in Points(PageRect(c, r))
           <=> p \in Int \X Int /\ r.x <= p[1] /\ p[1] < r.x + r.n /\ p[2] = PageRows(c) - (r.y + 1)
<1> DEFINE H == PageRows(c)
           k == PageRect(c, r)
<1>1. Spans(c, r)
  BY RunsAre
<1>2. r.y \in Nat /\ r.x \in Nat /\ r.n \in Nat /\ H \in Int
  <2>1. RunOf(c, r.x, r.y, r.n)
    BY <1>1, RunLengthIs DEF Spans
  <2>2. r.x \in Nat /\ r.y \in Nat
    BY <1>1 DEF Spans, RunStarts, Drawable
  <2>. QED BY <2>1, <2>2, PageIs DEF RunOf
<1>3. k.x0 = r.x /\ k.y0 = H - (r.y + 1) /\ k.x1 = r.x + r.n /\ k.y1 = H - r.y
  BY DEF PageRect, Rect
<1> HIDE DEF H, k
<1>4. p \in Points(k) <=> /\ p \in Int \X Int
                          /\ r.x <= p[1] /\ p[1] < r.x + r.n /\ H - (r.y + 1) <= p[2] /\ p[2] < H - r.y
  BY <1>2, <1>3, InPoints
<1>5. ASSUME p \in Int \X Int PROVE (H - (r.y + 1) <= p[2] /\ p[2] < H - r.y) <=> (p[2] = H - (r.y + 1))
  BY <1>2, <1>5
<1>. QED BY <1>4, <1>5 DEF H, k

LEMMA RunsDrawn ==
  ASSUME NEW c, Drawable(c)
  PROVE  Inked("pdf", c) = c.dark
<1> DEFINE H == PageRows(c)
           All == UNION {Points(PageRect(c, r)) : r \in vecRuns(c)}
           Turned(p) == <<p[1], H - 1 - p[2]>>
           ink == {Turned(p) : p \in All}
<1>1. Inked("pdf", c) = ink
  BY DEF Inked
<1>2. H \in Int
  BY PageIs
<1> HIDE DEF H
<1>3. ASSUME NEW q \in ink PROVE q \in c.dark
  <2>0. PICK r \in vecRuns(c) : \E p \in Points(PageRect(c, r)) : q = Turned(p)
    OBVIOUS
  <2>1. PICK p \in Points(PageRect(c, r)) : q = Turned(p)
    BY <2>0
  <2>2. p \in Int \X Int /\ r.x <= p[1] /\ p[1] < r.x + r.n /\ p[2] = H - (r.y + 1)
    BY RunOnPage DEF H
  <2>3. Spans(c, r)
    BY RunsAre
  <2>4. RunOf(c, r.x, r.y, r.n) /\ r.x \in Nat /\ r.y \in Nat
    BY <2>3, RunLengthIs DEF Spans, RunStarts, Drawable
  <2>5. r.n \in Nat
    BY <2>4 DEF RunOf
  <2>6. H - 1 - p[2] = r.y
    BY <1>2, <2>2, <2>4
  <2>7. p[1] \in r.x .. (r.x + r.n - 1)
    BY <2>2, <2>4, <2>5
  <2>8. At(c, p[1], r.y)
    BY <2>4, <2>7 DEF RunOf, Joined
  <2>. QED BY <2>1, <2>6, <2>8 DEF At
<1>4. ASSUME NEW q \in c.dark PROVE q \in ink
  <2> DEFINE x == q[1]
             y == q[2]
  <2>1. q = <<x, y>> /\ x \in Nat /\ y \in 0 .. (c.rows - 1) /\ y \in Nat
    BY DEF Drawable
  <2> HIDE DEF x, y
  <2>2. At(c, x, y)
    BY <2>1 DEF At
  <2>3. PICK a \in RunStarts(c, y) : a <= x /\ x < a + RunLength(c, a, y)
    BY <2>2, RunThrough
  <2> DEFINE r == [x |-> a, y |-> y, n |-> RunLength(c, a, y), color |-> ColorAt(c, a, y)]
             p == <<x, H - (y + 1)>>
  <2>4. r.x = a /\ r.y = y /\ r.n = RunLength(c, a, y)
    OBVIOUS
  <2>5. Spans(c, r)
    BY <2>1, <2>4 DEF Spans
  <2> HIDE DEF r
  <2>6. r \in vecRuns(c)
    BY <2>5, RunsAre
  <2>7. p \in Int \X Int /\ p[1] = x /\ p[2] = H - (y + 1)
    BY <1>2, <2>1
  <2> HIDE DEF p
  <2>8. p \in Points(PageRect(c, r))
    BY <2>3, <2>4, <2>6, <2>7, RunOnPage DEF H
  <2>9. Turned(p) = q
    <3>1. H - 1 - (H - (y + 1)) = y
      BY <1>2, <2>1
    <3>. QED BY <2>1, <2>7, <3>1
  <2>10. p \in All
    BY <2>6, <2>8
  <2> HIDE DEF All
  <2>. QED BY <2>9, <2>10
<1>. QED BY <1>1, <1>3, <1>4

\* The text of a linear code is under its runs.
LEMMA RunsAboveText ==
  ASSUME NEW c, Drawable(c), NEW r \in vecRuns(c), c.hri > 0
  PROVE  PageRect(c, r).y0 > baseline(c)
<1> DEFINE f == hriFontModules(c)
           H == PageRows(c)
<1>1. f \in Nat \ {0} /\ H = c.rows + f + 1 /\ H \in Int
  BY PageIs
<1>2. PageRect(c, r).y0 = H - (r.y + 1) /\ baseline(c) = H - (c.rows + f)
  BY DEF PageRect, Rect, baseline
<1>3. r.y \in 0 .. (c.rows - 1) /\ c.rows \in Nat
  BY RunsAre DEF Spans, Drawable
<1> HIDE DEF f, H
<1>. QED BY <1>1, <1>2, <1>3

-----------------------------------------------------------------------------
(* Pairs of rows.                                                          *)
LEMMA CellsDrawn ==
  ASSUME NEW c, Drawable(c)
  PROVE  Inked("unicode", c) = c.dark
<1> DEFINE Upper(y) == {<<x, y>> : x \in {i \in 0 .. (c.cols - 1) : Glyph(c, i, y) \in {"full", "upper"}}}
           Lower(y) == {<<x, y + 1>> : x \in {i \in 0 .. (c.cols - 1) : Glyph(c, i, y) \in {"full", "lower"}}}
           ink == UNION {Upper(y) \cup Lower(y) : y \in CellRows(c)}
<1>1. Inked("unicode", c) = ink
  BY DEF Inked
<1>2. ASSUME NEW x, NEW y
      PROVE  /\ (Glyph(c, x, y) \in {"full", "upper"}) <=> At(c, x, y)
             /\ (Glyph(c, x, y) \in {"full", "lower"}) <=> At(c, x, y + 1)
  BY DEF Glyph
<1>3. ASSUME NEW y
      PROVE  /\ Upper(y) = {<<x, y>> : x \in {i \in 0 .. (c.cols - 1) : At(c, i, y)}}
             /\ Lower(y) = {<<x, y + 1>> : x \in {i \in 0 .. (c.cols - 1) : At(c, i, y + 1)}}
  BY <1>2
<1>4. ASSUME NEW q \in ink PROVE q \in c.dark
  <2>1. PICK y \in CellRows(c) : q \in Upper(y) \/ q \in Lower(y)
    OBVIOUS
  <2> HIDE DEF Upper, Lower
  <2>2. CASE q \in Upper(y)
    <3>1. q \in {<<x, y>> : x \in {i \in 0 .. (c.cols - 1) : At(c, i, y)}}
      BY <1>3, <2>2
    <3>. QED BY <3>1 DEF At
  <2>3. CASE q \in Lower(y)
    <3>1. q \in {<<x, y + 1>> : x \in {i \in 0 .. (c.cols - 1) : At(c, i, y + 1)}}
      BY <1>3, <2>3
    <3>. QED BY <3>1 DEF At
  <2>. QED BY <2>1, <2>2, <2>3
<1>5. ASSUME NEW q \in c.dark PROVE q \in ink
  <2> DEFINE x == q[1]
             y == q[2]
             k == y \div 2
  <2>1. q = <<x, y>> /\ x \in 0 .. (c.cols - 1) /\ y \in 0 .. (c.rows - 1) /\ c.rows \in Nat
    BY DEF Drawable
  <2> HIDE DEF x, y
  <2>2. k \in 0 .. ((c.rows - 1) \div 2) /\ (y = 2 * k \/ y = 2 * k + 1)
    BY <2>1
  <2> HIDE DEF k
  <2>3. 2 * k \in CellRows(c)
    BY <2>2 DEF CellRows
  <2>4. At(c, x, y)
    BY <2>1 DEF At
  <2> HIDE DEF Upper, Lower
  <2>5. q \in Upper(2 * k) \/ q \in Lower(2 * k)
    BY <1>3, <2>1, <2>2, <2>4
  <2>. QED BY <2>3, <2>5
<1>. QED BY <1>1, <1>4, <1>5

-----------------------------------------------------------------------------
(* Patterns painted whole.                                                 *)

\* A pattern at a corner: a ring of one module, and a ball in its middle.
InRing(x, y, a, b) ==
  \/ Near(x, a, 0, 7) /\ Near(y, b, 0, 7) /\ ~(Near(x, a, 1, 6) /\ Near(y, b, 1, 6))
  \/ Near(x, a, 2, 5) /\ Near(y, b, 2, 5)
Ring(q) == (Block(q[1], q[2], eyeSize) \ Block(q[1] + 1, q[2] + 1, eyeSize - 2))
           \cup Block(q[1] + ballOffset, q[2] + ballOffset, ballSize)
Square(q) == Block(q[1], q[2], eyeSize)
Ball(q)   == Block(q[1] + ballOffset, q[2] + ballOffset, ballSize)

LEMMA BlockIs ==
  ASSUME NEW a \in Int, NEW b \in Int, NEW size \in Nat, NEW p
  PROVE  p \in Block(a, b, size)
           <=> p \in Int \X Int /\ a <= p[1] /\ p[1] < a + size /\ b <= p[2] /\ p[2] < b + size
<1> DEFINE r == Rect(a, b, a + size, b + size)
<1>1. r.x0 = a /\ r.y0 = b /\ r.x1 = a + size /\ r.y1 = b + size
  BY DEF Rect
<1>2. Block(a, b, size) = Points(r)
  BY DEF Block
<1> HIDE DEF r
<1>. QED BY <1>1, <1>2, InPoints

LEMMA RingIs ==
  ASSUME NEW q \in Int \X Int, NEW p
  PROVE  /\ p \in Ring(q) <=> p \in Int \X Int /\ InRing(p[1], p[2], q[1], q[2])
         /\ p \in Square(q) <=> p \in Int \X Int /\ Near(p[1], q[1], 0, 7) /\ Near(p[2], q[2], 0, 7)
         /\ p \in Ball(q) => p \in Square(q)
<1> DEFINE a == q[1]
           b == q[2]
           In(from, to) == p \in Int \X Int /\ Near(p[1], a, from, to) /\ Near(p[2], b, from, to)
<1>1. a \in Int /\ b \in Int
  OBVIOUS
<1> HIDE DEF a, b
<1>2. ASSUME NEW from \in Nat, NEW size \in Nat
      PROVE  p \in Block(a + from, b + from, size) <=> In(from, from + size)
  <2>1. a + from \in Int /\ b + from \in Int /\ a + (from + size) = (a + from) + size
        /\ b + (from + size) = (b + from) + size
    BY <1>1
  <2>. QED BY <2>1, BlockIs DEF Near
<1>3. p \in Block(a, b, 7) <=> In(0, 7)
  <2>1. a + 0 = a /\ b + 0 = b /\ 0 + 7 = 7
    BY <1>1
  <2>2. p \in Block(a + 0, b + 0, 7) <=> In(0, 0 + 7)
    BY <1>2
  <2> HIDE DEF In
  <2>. QED BY <2>1, <2>2
<1>4. p \in Block(a + 1, b + 1, 5) <=> In(1, 6)
  BY <1>2
<1>5. p \in Block(a + 2, b + 2, 3) <=> In(2, 5)
  BY <1>2
<1>6. In(2, 5) => In(0, 7)
  BY <1>1 DEF Near
<1>7. (p \in Square(q)) <=> p \in Block(a, b, 7)
  BY DEF Square, eyeSize, a, b
<1>8. (p \in Ball(q)) <=> p \in Block(a + 2, b + 2, 3)
  BY DEF Ball, ballOffset, ballSize, a, b
<1>9. (p \in Ring(q)) <=> (p \in Block(a, b, 7) /\ p \notin Block(a + 1, b + 1, 5)) \/ p \in Block(a + 2, b + 2, 3)
  BY DEF Ring, eyeSize, ballOffset, ballSize, a, b
<1>10. (p \in Ring(q)) <=> (In(0, 7) /\ ~In(1, 6)) \/ In(2, 5)
  BY <1>3, <1>4, <1>5, <1>9
<1>11. (p \in Ring(q)) <=> p \in Int \X Int /\ InRing(p[1], p[2], a, b)
  BY <1>10 DEF InRing
<1>12. (p \in Square(q)) <=> p \in Int \X Int /\ Near(p[1], a, 0, 7) /\ Near(p[2], b, 0, 7)
  BY <1>3, <1>7
<1>13. p \in Ball(q) => p \in Square(q)
  BY <1>3, <1>5, <1>6, <1>7, <1>8
<1>. QED BY <1>11, <1>12, <1>13 DEF a, b

\* A drawing moves the patterns of its matrix with the rest.
Moved(p, n) == <<p[1] - n, p[2] - n>>
LEMMA RingMoved ==
  ASSUME NEW n \in Int, NEW q \in Int \X Int, NEW w \in Int \X Int, w[1] = q[1] + n, w[2] = q[2] + n,
         NEW p \in Int \X Int
  PROVE  /\ (p \in Ring(w)) <=> Moved(p, n) \in Ring(q)
         /\ (p \in Square(w)) <=> Moved(p, n) \in Square(q)
<1> DEFINE z == Moved(p, n)
<1>1. z \in Int \X Int /\ z[1] = p[1] - n /\ z[2] = p[2] - n
  BY DEF Moved
<1> HIDE DEF z
<1>2. /\ (p \in Ring(w)) <=> InRing(p[1], p[2], w[1], w[2])
      /\ (p \in Square(w)) <=> Near(p[1], w[1], 0, 7) /\ Near(p[2], w[2], 0, 7)
  BY RingIs
<1>3. /\ (z \in Ring(q)) <=> InRing(z[1], z[2], q[1], q[2])
      /\ (z \in Square(q)) <=> Near(z[1], q[1], 0, 7) /\ Near(z[2], q[2], 0, 7)
  BY <1>1, RingIs
<1>4. \A x, a, from, to \in Int : Near(x, a + n, from, to) <=> Near(x - n, a, from, to)
  BY DEF Near
<1>5. \A k, l \in 0 .. 7 : /\ Near(p[1], w[1], k, l) <=> Near(z[1], q[1], k, l)
                           /\ Near(p[2], w[2], k, l) <=> Near(z[2], q[2], k, l)
  <2> TAKE k, l \in 0 .. 7
  <2>1. /\ p[1] \in Int /\ p[2] \in Int /\ q[1] \in Int /\ q[2] \in Int /\ k \in Int /\ l \in Int
    OBVIOUS
  <2>2. Near(p[1], q[1] + n, k, l) <=> Near(p[1] - n, q[1], k, l)
    BY <1>4, <2>1
  <2>3. Near(p[2], q[2] + n, k, l) <=> Near(p[2] - n, q[2], k, l)
    BY <1>4, <2>1
  <2>. QED BY <1>1, <2>2, <2>3
<1>. QED BY <1>2, <1>3, <1>5 DEF InRing, z

\* The corners of a matrix, and of the drawing of it.
Cornered(m, n) ==
  /\ Corners(m, 0) = {<<0, 0>>, <<m.cols - eyeSize, 0>>, <<0, m.rows - eyeSize>>}
  /\ Corners(m, n) = {<<q[1] + n, q[2] + n>> : q \in Corners(m, 0)}
  /\ \A q \in Corners(m, 0) : q \in Int \X Int

LEMMA CornersAre ==
  ASSUME NEW m, m.cols \in Nat, m.rows \in Nat, NEW n \in Int
  PROVE  Cornered(m, n)
<1> DEFINE w == m.cols - eyeSize
           h == m.rows - eyeSize
           Go(q) == <<q[1] + n, q[2] + n>>
<1>1. w \in Int /\ h \in Int
  BY DEF eyeSize
<1>2. 0 + w = w /\ 0 + h = h
  BY <1>1
<1>3. n + w = w + n /\ n + h = h + n /\ 0 + n = n
  BY <1>1
<1>4. Corners(m, 0) = {<<0, 0>>, <<0 + w, 0>>, <<0, 0 + h>>} /\ Corners(m, n) = {<<n, n>>, <<n + w, n>>, <<n, n + h>>}
  BY DEF Corners
<1>5. Go(<<0, 0>>) = <<n, n>> /\ Go(<<w, 0>>) = <<n + w, n>> /\ Go(<<0, h>>) = <<n, n + h>>
  BY <1>3
<1> HIDE DEF w, h, Go
<1>6. Corners(m, 0) = {<<0, 0>>, <<w, 0>>, <<0, h>>}
  BY <1>2, <1>4
<1>7. Corners(m, n) = {Go(q) : q \in Corners(m, 0)}
  BY <1>4, <1>5, <1>6
<1>8. \A q \in Corners(m, 0) : q \in Int \X Int
  BY <1>1, <1>6
<1>. QED BY <1>6, <1>7, <1>8 DEF w, h, Go, Cornered

\* The finder patterns of a canvas, painted whole, are its dark modules there.
LEMMA PatternsDrawn ==
  ASSUME NEW m \in Matrix, NEW s \in Style, Render(m, s).ok, hasFinderPatterns(m), m.kind = "2d",
         EyeInk(Corners(m, 0)) = m.dark \cap UNION {Block(p[1], p[2], eyeSize) : p \in Corners(m, 0)}
  PROVE  LET c == Render(m, s) IN EyeInk(Corners(m, Offset2(m, s))) = c.dark \cap c.eyes
<1> DEFINE c == Render(m, s)
           n == Offset2(m, s)
           first == Corners(m, 0)
           at == Corners(m, n)
           Go(q) == <<q[1] + n, q[2] + n>>
<1>1. Shape(m, s, c, n, ExtrudedRows(m, s)) /\ Made(m, s, c)
  BY ShapeIs, RenderIs
<1>2. /\ n \in Nat /\ m.cols \in Nat /\ m.rows \in Nat /\ ExtrudedRows(m, s) = m.rows
      /\ m.cols >= 21 /\ m.rows >= 21
  <2>1. m.rows \in Nat
    BY DEF Matrix
  <2>. QED BY <1>1, <2>1 DEF Shape, hasFinderPatterns
<1>3. first = {<<0, 0>>, <<m.cols - eyeSize, 0>>, <<0, m.rows - eyeSize>>} /\ at = {Go(q) : q \in first}
      /\ \A q \in first : q \in Int \X Int
  <2>1. Cornered(m, n)
    BY <1>2, CornersAre
  <2>. QED BY <2>1 DEF Cornered
<1>4. \A S : EyeInk(S) = UNION {Ring(q) : q \in S}
  BY DEF EyeInk, Ring
<1>5. c.eyes = UNION {Square(q) : q \in at}
  BY <1>1 DEF Made, EyesOf, Square
<1>6. EyeInk(first) = m.dark \cap UNION {Square(q) : q \in first}
  BY DEF Square
<1>7. \A p : p \in c.dark \cap c.eyes <=> p \in DarkOf(m, s) /\ p \in c.eyes
  BY <1>1 DEF Made
<1> DEFINE Here(z) == z \in m.dark /\ z[1] \in 0 .. (m.cols - 1) /\ z[2] \in 0 .. (m.rows - 1)
<1> DEFINE D == {z \in (0 .. (m.cols - 1)) \X (0 .. (m.rows - 1)) : z \in m.dark}
<1>7a. DarkOf(m, s) = {Go(z) : z \in D}
  <2> DEFINE R == (0 .. (m.cols - 1)) \X (0 .. (m.rows - 1))
             Lay(z) == <<z[1], IF m.kind = "1d" THEN 0 ELSE z[2]>>
  <2>1. \A z \in R : Lay(z) = z
    OBVIOUS
  <2>2. DarkOf(m, s) = {Go(z) : z \in {q \in R : Lay(q) \in m.dark}}
    BY <1>2 DEF DarkOf
  <2> HIDE DEF R, Lay, Go
  <2>3. {q \in R : Lay(q) \in m.dark} = {q \in R : q \in m.dark}
    BY <2>1
  <2>4. DarkOf(m, s) = {Go(z) : z \in {q \in R : q \in m.dark}}
    BY <2>2, <2>3
  <2>. QED BY <2>4 DEF R
<1>8. ASSUME NEW p \in Int \X Int
      PROVE  p \in DarkOf(m, s) <=> Here(Moved(p, n))
  <2>2. DarkOf(m, s) = {Go(z) : z \in D}
    BY <1>7a
  <2>3. Moved(p, n) \in Int \X Int /\ Moved(p, n)[1] = p[1] - n /\ Moved(p, n)[2] = p[2] - n
        /\ Go(Moved(p, n)) = p
    BY <1>2 DEF Moved
  <2>4. ASSUME NEW z \in D, p = Go(z) PROVE Moved(p, n) = z
    BY <1>2, <2>4 DEF Moved
  <2>5. (Moved(p, n) \in D) <=> Here(Moved(p, n))
    BY <2>3
  <2> HIDE DEF D, Go, Here
  <2>6. (p \in DarkOf(m, s)) <=> \E z \in D : p = Go(z)
    BY <2>2
  <2>7. (p \in DarkOf(m, s)) <=> Moved(p, n) \in D
    BY <2>3, <2>4, <2>6
  <2>. QED BY <2>5, <2>7
<1>9. \A p \in DarkOf(m, s) : p \in Int \X Int
  <2>1. \A z \in D : Go(z) \in Int \X Int
    BY <1>2
  <2> HIDE DEF D, Go
  <2>. QED BY <1>7a, <2>1
<1>10. ASSUME NEW q \in first
       PROVE  Go(q) \in Int \X Int /\ Go(q)[1] = q[1] + n /\ Go(q)[2] = q[2] + n
  BY <1>2, <1>3
<1>11. ASSUME NEW p \in Int \X Int
       PROVE  /\ (p \in EyeInk(at)) <=> Moved(p, n) \in EyeInk(first)
              /\ (p \in c.eyes) <=> Moved(p, n) \in UNION {Square(q) : q \in first}
  <2>1. \A q \in first : /\ (p \in Ring(Go(q))) <=> Moved(p, n) \in Ring(q)
                         /\ (p \in Square(Go(q))) <=> Moved(p, n) \in Square(q)
    <3> TAKE q \in first
    <3>1. q \in Int \X Int /\ n \in Int
      BY <1>2, <1>3
    <3>. QED BY <1>10, <3>1, RingMoved
  <2> HIDE DEF Go, at, first
  <2>2. (p \in EyeInk(at)) <=> \E q \in first : p \in Ring(Go(q))
    BY <1>3, <1>4
  <2>3. (p \in c.eyes) <=> \E q \in first : p \in Square(Go(q))
    BY <1>3, <1>5
  <2>4. (Moved(p, n) \in EyeInk(first)) <=> \E q \in first : Moved(p, n) \in Ring(q)
    BY <1>4
  <2>. QED BY <2>1, <2>2, <2>3, <2>4
<1>12. ASSUME NEW z \in UNION {Square(q) : q \in first}
       PROVE  z \in Int \X Int /\ z[1] \in 0 .. (m.cols - 1) /\ z[2] \in 0 .. (m.rows - 1)
  <2>1. PICK q \in first : z \in Square(q)
    OBVIOUS
  <2>2. z \in Int \X Int /\ Near(z[1], q[1], 0, 7) /\ Near(z[2], q[2], 0, 7) /\ q \in Int \X Int
    BY <1>3, <2>1, RingIs
  <2>3. q[1] >= 0 /\ q[2] >= 0 /\ q[1] + 7 <= m.cols /\ q[2] + 7 <= m.rows
    <3>1. q = <<0, 0>> \/ q = <<m.cols - eyeSize, 0>> \/ q = <<0, m.rows - eyeSize>>
      BY <1>3
    <3>. QED BY <1>2, <3>1 DEF eyeSize
  <2>. QED BY <1>2, <2>2, <2>3 DEF Near
<1>13. \A p \in EyeInk(at) : p \in Int \X Int
  <2> TAKE p \in EyeInk(at)
  <2>1. PICK w \in at : p \in Ring(w)
    BY <1>4
  <2>2. w \in Int \X Int
    BY <1>3, <1>10
  <2>. QED BY <2>1, <2>2, RingIs
<1>14. ASSUME NEW p \in Int \X Int PROVE (p \in EyeInk(at)) <=> p \in c.dark \cap c.eyes
  <2> HIDE DEF at, first, c, n
  <2> DEFINE z == Moved(p, n)
             E == UNION {Square(q) : q \in first}
  <2>1. (p \in EyeInk(at)) <=> z \in m.dark /\ z \in E
    BY <1>6, <1>11
  <2>2. (p \in c.dark \cap c.eyes) <=> Here(z) /\ z \in E
    BY <1>7, <1>8, <1>11
  <2>3. z \in E => z[1] \in 0 .. (m.cols - 1) /\ z[2] \in 0 .. (m.rows - 1)
    BY <1>12
  <2> HIDE DEF z, E
  <2>. QED BY <2>1, <2>2, <2>3
<1>15. \A p \in c.dark \cap c.eyes : p \in Int \X Int
  BY <1>7, <1>9
<1> HIDE DEF at, c
<1>16. EyeInk(at) = c.dark \cap c.eyes
  BY <1>13, <1>14, <1>15
<1>. QED BY <1>16 DEF at, c

\* What the encoder draws where a symbol has finder patterns.
FindersDrawn(m) ==
  hasFinderPatterns(m) => /\ m.kind = "2d"
                          /\ EyeInk(Corners(m, 0)) =
                               m.dark \cap UNION {Block(p[1], p[2], eyeSize) : p \in Corners(m, 0)}

LEMMA PaintedWhole ==
  ASSUME NEW m \in Matrix, NEW s \in Style, Render(m, s).ok, m.symbology = "qr" => m.kind = "2d", FindersDrawn(m),
         Drawable(Render(m, s))
  PROVE  LET c == Render(m, s) IN Inked("svg", c) = c.dark /\ Inked("png", c) = c.dark
<1> DEFINE c == Render(m, s)
           n == Offset2(m, s)
           at == EyesOn(m, c)
<1>1. Shape(m, s, c, n, ExtrudedRows(m, s)) /\ Made(m, s, c) /\ Agreed(m, c)
  BY ShapeIs, RenderIs, DrawnAgreed
<1>2. findEyes(c) = at /\ svgEyeOrigins(c) = at
  BY <1>1 DEF Agreed
<1>3. /\ Inked("svg", c) = IF at = {} THEN c.dark ELSE DataInk(c) \cup EyeInk(at)
      /\ Inked("png", c) = DataInk(c) \cup EyeInk(at)
  BY <1>2 DEF Inked
<1>4. DataInk(c) = c.dark \ (c.eyes \cup c.balls)
  <2>1. \A p \in c.dark : <<p[1], p[2]>> = p
    BY DEF Drawable
  <2> HIDE DEF c
  <2>2. \A p \in c.dark : Role(c, p[1], p[2]) = RoleData <=> p \notin c.eyes \cup c.balls
    BY <2>1 DEF Role, RoleData, RoleEyeFrame, RoleEyeBall
  <2>. QED BY <2>2 DEF DataInk
<1>5. CASE ~hasFinderPatterns(m)
  <2>1. at = {} /\ c.eyes = {} /\ c.balls = {}
    BY <1>1, <1>5 DEF EyesOn, Made
  <2>2. EyeInk({}) = {}
    BY DEF EyeInk
  <2> HIDE DEF at, c
  <2>3. DataInk(c) = c.dark /\ EyeInk(at) = {}
    BY <1>4, <2>1, <2>2
  <2>. QED BY <1>3, <2>1, <2>3 DEF c
<1>6. CASE hasFinderPatterns(m)
  <2>1. n \in Nat /\ m.cols \in Nat /\ m.rows \in Nat /\ SymbolRect(c).x0 = n /\ SymbolRect(c).y0 = n
    BY <1>1 DEF Shape, Matrix, Rect
  <2>2. Cornered(m, n)
    BY <2>1, CornersAre
  <2>3. at = Corners(m, n)
    BY <1>6, <2>1, <2>2 DEF EyesOn, Cornered
  <2>4. EyeInk(at) = c.dark \cap c.eyes
    BY <1>6, <2>3, PatternsDrawn DEF FindersDrawn
  <2>5. at # {}
    <3> HIDE DEF at, c, n
    <3>1. <<0, 0>> \in Corners(m, 0)
      BY <2>2 DEF Cornered
    <3>. QED BY <2>2, <2>3, <3>1 DEF Cornered
  <2>6. c.balls \subseteq c.eyes
    <3>1. c.eyes = UNION {Square(q) : q \in Corners(m, n)} /\ c.balls = UNION {Ball(q) : q \in Corners(m, n)}
      BY <1>1, <1>6 DEF Made, EyesOf, BallsOf, Square, Ball
    <3>2. \A q \in Corners(m, n) : q \in Int \X Int
      <4> DEFINE Go(q) == <<q[1] + n, q[2] + n>>
      <4>1. Corners(m, n) = {Go(q) : q \in Corners(m, 0)} /\ \A q \in Corners(m, 0) : q \in Int \X Int
        BY <2>2 DEF Cornered
      <4>2. \A q \in Corners(m, 0) : Go(q) \in Int \X Int
        BY <2>1, <4>1
      <4> HIDE DEF Go, n
      <4>. QED BY <4>1, <4>2
    <3>3. \A q \in Corners(m, n) : Ball(q) \subseteq Square(q)
      BY <3>2, RingIs
    <3> HIDE DEF c, n
    <3>. QED BY <3>1, <3>3
  <2> HIDE DEF at, c
  <2>7. DataInk(c) \cup EyeInk(at) = c.dark
    BY <1>4, <2>4, <2>6
  <2>. QED BY <1>3, <2>5, <2>7 DEF c
<1>. QED BY <1>5, <1>6

\* What a canvas comes out as, in whatever format.
Drawn(c) ==
  /\ \A format \in {"pdf", "unicode", "svg", "png"} : Inked(format, c) = c.dark
  /\ \A r, q \in vecRuns(c) : (r # q /\ r.y = q.y) => r.x + r.n <= q.x \/ q.x + q.n <= r.x
  /\ \A r \in vecRuns(c) : c.hri > 0 => PageRect(c, r).y0 > baseline(c)

LEMMA CanvasDrawable ==
  ASSUME NEW m \in Matrix, NEW s \in Style, Render(m, s).ok, m.cols >= 2 * BubbleTailModules
  PROVE  Drawable(Render(m, s))
<1> DEFINE c == Render(m, s)
           n == Offset2(m, s)
           r == ExtrudedRows(m, s)
<1>1. Shape(m, s, c, n, r) /\ Clear(c)
  BY ShapeIs, DrawnClear
<1>2. /\ n \in Nat /\ r \in Nat /\ r > 0 /\ m.cols \in Nat /\ c.cols = m.cols + 2 * n
      /\ c.rows = r + 2 * n + c.band /\ c.band \in {0, 4, 6} /\ c.style = s
      /\ SymbolRect(c) = Rect(n, n, n + m.cols, n + r) /\ c.dark \subseteq Points(SymbolRect(c))
  BY <1>1 DEF Shape, Clear
<1>3. c.hri = IF s.hri THEN m.hri ELSE 0
  <2>1. Made(m, s, c)
    BY RenderIs
  <2>. QED BY <2>1 DEF Made
<1>4. c.hri \in Nat /\ c.style.hriSize \in Int
  BY <1>2, <1>3 DEF Matrix, Style
<1> HIDE DEF c, n, r
<1>5. c.cols \in Nat /\ c.rows \in Nat \ {0}
  BY <1>2
<1>6. ASSUME NEW p \in c.dark PROVE p \in (0 .. (c.cols - 1)) \X (0 .. (c.rows - 1))
  <2> DEFINE k == Rect(n, n, n + m.cols, n + r)
  <2>1. k.x0 = n /\ k.y0 = n /\ k.x1 = n + m.cols /\ k.y1 = n + r
    BY DEF Rect
  <2>2. p \in Points(k)
    BY <1>2
  <2> HIDE DEF k
  <2>3. p \in Int \X Int /\ n <= p[1] /\ p[1] < n + m.cols /\ n <= p[2] /\ p[2] < n + r
    BY <1>2, <2>1, <2>2, InPoints
  <2>4. p[1] \in 0 .. (c.cols - 1) /\ p[2] \in 0 .. (c.rows - 1)
    BY <1>2, <2>3
  <2>. QED BY <2>3, <2>4
<1>. QED BY <1>4, <1>5, <1>6 DEF Drawable, c

LEMMA DrawnAlike ==
  ASSUME NEW m \in Matrix, NEW s \in Style, Render(m, s).ok, m.symbology = "qr" => m.kind = "2d", FindersDrawn(m),
         m.cols >= 2 * BubbleTailModules
  PROVE  Drawn(Render(m, s)) /\ Resolved(Render(m, s))
<1> DEFINE c == Render(m, s)
<1>1. Drawable(c)
  BY CanvasDrawable
<1>2. Inked("svg", c) = c.dark /\ Inked("png", c) = c.dark
  BY <1>1, PaintedWhole
<1> HIDE DEF c
<1>3. Inked("pdf", c) = c.dark /\ Inked("unicode", c) = c.dark
  BY <1>1, RunsDrawn, CellsDrawn
<1>4. \A r, q \in vecRuns(c) : (r # q /\ r.y = q.y) => r.x + r.n <= q.x \/ q.x + q.n <= r.x
  BY <1>1, RunsApart
<1>5. \A r \in vecRuns(c) : c.hri > 0 => PageRect(c, r).y0 > baseline(c)
  BY <1>1, RunsAboveText
<1>6. Resolved(c)
  BY <1>1, ObjectsResolve DEF Drawable
<1>. QED BY <1>2, <1>3, <1>4, <1>5, <1>6 DEF Drawn, c

\* A call on a ramp or on two inks is one of those it may be.
Sampling == /\ call.op = "ramp" => call.args \in RampArgs /\ call.r = ParseGradient(call.args)
            /\ call.op = "ink" => call.p \in Inks /\ call.bg \in Inks

LEMMA WritersDoAgree == Rendered /\ Sampling => WritersAgree
<1> SUFFICES ASSUME Rendered, Sampling PROVE WritersAgree
  OBVIOUS
<1>1. EveryModuleDrawn /\ PdfResolves
  <2>1. CASE call.op # "draw"
    <3>1. ~Canvas.ok
      BY <2>1 DEF Canvas, Refusal
    <3>. QED BY <3>1 DEF EveryModuleDrawn, PdfResolves
  <2>2. CASE call.op = "draw" /\ ~Canvas.ok
    BY <2>2 DEF EveryModuleDrawn, PdfResolves
  <2>3. CASE call.op = "draw" /\ Canvas.ok
    <3>1. PICK d \in Drawings : call.m = d[1] /\ call.s = d[2] /\ call.c = Render(d[1], d[2])
      BY <2>3 DEF Rendered
    <3> DEFINE m == d[1]
               s == d[2]
               c == Canvas
    <3>2. c = Render(m, s) /\ Render(m, s).ok
      BY <2>3, <3>1 DEF Canvas
    <3>3. /\ m \in Matrix /\ s \in Style /\ (m.symbology = "qr" => m.kind = "2d") /\ m.cols >= 2 * BubbleTailModules
          /\ hasFinderPatterns(m) => EyeInk(Corners(m, 0)) =
                                       m.dark \cap UNION {Block(p[1], p[2], eyeSize) : p \in Corners(m, 0)}
      BY DrawingsAssumption
    <3> HIDE DEF m, s, c
    <3>4. FindersDrawn(m)
      BY <3>3 DEF FindersDrawn, hasFinderPatterns
    <3>5. Drawn(c) /\ Resolved(c)
      BY <3>2, <3>3, <3>4, DrawnAlike
    <3>6. EveryModuleDrawn
      BY <3>5, Zenon DEF Drawn, EveryModuleDrawn, c
    <3>7. PdfResolves
      BY <3>5, Zenon DEF Resolved, PdfResolves, c
    <3>. QED BY <3>6, <3>7
  <2>. QED BY <2>1, <2>2, <2>3
<1>2. InksAgree
  <2>1. CASE call.op # "ink"
    BY <2>1 DEF InksAgree
  <2>2. CASE call.op = "ink"
    <3> DEFINE p == call.p
               bg == call.bg
    <3>1. p \in [v : 0 .. 255, a : 0 .. 255] /\ bg \in [v : 0 .. 255, a : 0 .. 255]
      BY <2>2, InksAssumption DEF Sampling
    <3>2. p.v \in Byte /\ p.a \in Byte /\ bg.v \in Byte /\ bg.a \in Byte
      BY <3>1 DEF Byte
    <3> HIDE DEF p, bg
    <3>3. Blends(p, bg)
      BY <3>2, InksBlend
    <3>. QED BY <3>3, Zenon DEF Blends, Painted, InksAgree, p, bg, Byte
  <2>. QED BY <2>1, <2>2
<1>3. RampBounded
  <2>1. CASE ~(call.op = "ramp" /\ call.r.ok)
    BY <2>1 DEF RampBounded
  <2>2. CASE call.op = "ramp" /\ call.r.ok
    <3> DEFINE args == call.args
               stops == call.r.stops
               n == Len(args)
    <3>1. args \in Seq([color : 0 .. 255, at : Int]) /\ call.r = ParseGradient(args)
      BY <2>2, RampsAssumption DEF Sampling
    <3> HIDE DEF args
    <3>2. Stops(stops, n)
      BY <2>2, <3>1, StopsParsed
    <3> HIDE DEF n, stops
    <3>3. n \in Nat /\ n >= 2 /\ Len(stops) = n /\ DOMAIN stops = 1 .. n
          /\ stops[1].at >= 0 /\ stops[n].at <= Full
      <4>1. n \in Nat /\ n >= 2 /\ Len(stops) = n /\ DOMAIN stops = 1 .. n
            /\ \A i \in 1 .. n : stops[i].at \in 0 .. Full
        BY <3>2 DEF Stops
      <4>2. 1 \in 1 .. n /\ n \in 1 .. n
        BY <4>1
      <4>3. stops[1].at \in 0 .. Full /\ stops[n].at \in 0 .. Full
        BY <4>1, <4>2
      <4>4. \A v \in 0 .. Full : v >= 0 /\ v <= Full
        BY DEF Full
      <4>. QED BY <4>1, <4>3, <4>4
    <3>4. \A t \in 0 .. Full : \E i \in 1 .. n : Sampled(stops, n, t, i)
      BY <3>2, SampleBetween
    <3>. QED BY <3>3, <3>4, Zenon DEF Sampled, RampBounded, stops
  <2>. QED BY <2>1, <2>2
<1>. QED BY <1>1, <1>2, <1>3 DEF WritersAgree

LEMMA SamplingKept == Spec => []Sampling
<1>1. Init => Sampling
  BY DEF Init, Idle, Sampling
<1>2. Sampling /\ [Next]_call => Sampling'
  <2> SUFFICES ASSUME Sampling, [Next]_call PROVE Sampling'
    OBVIOUS
  <2>1. CASE Ramp
    BY <2>1 DEF Ramp, Sampling
  <2>2. CASE Ink
    BY <2>2 DEF Ink, Sampling
  <2>3. CASE UNCHANGED call
    BY <2>3 DEF Sampling
  <2>4. CASE Return
    BY <2>4 DEF Return, Idle, Sampling
  <2>5. CASE Draw \/ Size \/ Caption \/ Build \/ Scan \/ Suggest \/ Encode \/ Locate \/ Take
    <3>1. CASE Draw
      BY <3>1 DEF Draw, Sampling
    <3>2. CASE Size \/ Caption \/ Suggest \/ Encode
      BY <3>2 DEF Size, Caption, Suggest, Encode, Sampling
    <3>3. CASE Build \/ Scan \/ Locate \/ Take
      BY <3>3 DEF Build, Scan, Locate, Take, Sampling
    <3>. QED BY <2>5, <3>1, <3>2, <3>3
  <2>. QED BY <2>1, <2>2, <2>3, <2>4, <2>5 DEF Next
<1>. QED BY <1>1, <1>2, PTL DEF Spec

(* What the formats share comes out the same, whatever the drawing, the    *)
(* stops of a ramp and the inks: the modules every writer inks are the     *)
(* dark ones, no run overlaps another of its row, a blend lies between its *)
(* colours, a ramp between its neighbouring stops, and a PDF's table finds *)
(* every object (package writer).                                          *)
THEOREM DesignsComeOutAlike == Spec => []WritersAgree
<1>. QED BY WritersDoAgree, DrawingsAreRendered, SamplingKept, PTL

(***************************************************************************)
(* What an encoder takes (module Symbols), and the distance of two keys    *)
(* (module Texts).                                                         *)
(***************************************************************************)

-----------------------------------------------------------------------------
(* Check digits.                                                           *)

\* A digit has a value, and the value its digit.
LEMMA DigitValues ==
  /\ Y!Digits = {"0", "1", "2", "3", "4", "5", "6", "7", "8", "9"}
  /\ Y!ValueOf \in [Y!Digits -> 0 .. 9]
  /\ \A c \in Y!Digits : Y!DigitOf[Y!ValueOf[c] + 1] = c
  /\ Y!ValueOf["0"] = 0
  /\ \A v \in 0 .. 9 : Y!DigitOf[v + 1] \in Y!Digits /\ Y!ValueOf[Y!DigitOf[v + 1]] = v
<1>1. /\ Y!DigitOf[1] = "0" /\ Y!DigitOf[2] = "1" /\ Y!DigitOf[3] = "2" /\ Y!DigitOf[4] = "3"
      /\ Y!DigitOf[5] = "4" /\ Y!DigitOf[6] = "5" /\ Y!DigitOf[7] = "6" /\ Y!DigitOf[8] = "7"
      /\ Y!DigitOf[9] = "8" /\ Y!DigitOf[10] = "9" /\ DOMAIN Y!DigitOf = 1 .. 10
  BY DEF Y!DigitOf
<1>2. Y!Digits = {Y!DigitOf[i] : i \in 1 .. 10}
  BY <1>1 DEF Y!Digits, Y!Range
<1>3. \A i \in 1 .. 10 : i = 1 \/ i = 2 \/ i = 3 \/ i = 4 \/ i = 5 \/ i = 6 \/ i = 7 \/ i = 8 \/ i = 9 \/ i = 10
  OBVIOUS
<1>4. Y!Digits = {"0", "1", "2", "3", "4", "5", "6", "7", "8", "9"}
  BY <1>1, <1>2, <1>3
<1>5. \A v, w \in 0 .. 9 : Y!DigitOf[v + 1] = Y!DigitOf[w + 1] => v = w
  <2>1. \A i, j \in 1 .. 10 : Y!DigitOf[i] = Y!DigitOf[j] => i = j
    BY <1>1, <1>3
  <2>2. \A v \in 0 .. 9 : v + 1 \in 1 .. 10
    OBVIOUS
  <2>. QED BY <2>1, <2>2
<1>6. ASSUME NEW c \in Y!Digits PROVE Y!ValueOf[c] \in 0 .. 9 /\ Y!DigitOf[Y!ValueOf[c] + 1] = c
  <2>1. PICK i \in 1 .. 10 : c = Y!DigitOf[i]
    BY <1>2
  <2>2. i - 1 \in 0 .. 9 /\ Y!DigitOf[(i - 1) + 1] = c
    BY <2>1
  <2>3. Y!ValueOf[c] = CHOOSE v \in 0 .. 9 : Y!DigitOf[v + 1] = c
    BY DEF Y!ValueOf
  <2>. QED BY <2>2, <2>3
<1>7. DOMAIN Y!ValueOf = Y!Digits /\ Y!ValueOf \in [Y!Digits -> 0 .. 9]
  <2>1. Y!ValueOf = [c \in Y!Digits |-> CHOOSE v \in 0 .. 9 : Y!DigitOf[v + 1] = c]
    BY DEF Y!ValueOf
  <2>2. Y!ValueOf = [c \in Y!Digits |-> Y!ValueOf[c]]
    BY <2>1
  <2>. QED BY <1>6, <2>2
<1>8. ASSUME NEW v \in 0 .. 9 PROVE Y!DigitOf[v + 1] \in Y!Digits /\ Y!ValueOf[Y!DigitOf[v + 1]] = v
  <2>1. v + 1 \in 1 .. 10
    OBVIOUS
  <2>2. Y!DigitOf[v + 1] \in Y!Digits
    BY <1>2, <2>1
  <2>. QED BY <1>5, <1>6, <2>2
<1>9. Y!ValueOf["0"] = 0
  <2>1. Y!DigitOf[0 + 1] = "0" /\ 0 \in 0 .. 9
    BY <1>1
  <2>. QED BY <1>8, <2>1
<1>. QED BY <1>4, <1>6, <1>7, <1>8, <1>9

\* A sum is closed by a digit, sums that differ in their last by different ones.
LEMMA ClosingDigits ==
  ASSUME NEW a \in Nat, NEW b \in Nat
  PROVE  Y!Closing(a) \in Y!Digits /\ (a % 10 # b % 10 => Y!Closing(a) # Y!Closing(b))
<1> DEFINE v == (10 - (a % 10)) % 10
           w == (10 - (b % 10)) % 10
<1>1. v \in 0 .. 9 /\ w \in 0 .. 9 /\ (a % 10 # b % 10 => v # w)
  OBVIOUS
<1>2. Y!Closing(a) = Y!DigitOf[v + 1] /\ Y!Closing(b) = Y!DigitOf[w + 1]
  BY DEF Y!Closing
<1> HIDE DEF v, w
<1>. QED BY <1>1, <1>2, DigitValues

\* The terms of a weighted sum.
Terms(s, three) == [i \in 1 .. Len(s) |-> Y!ValueOf[s[i]] * (IF three[i] THEN 3 ELSE 1)]

LEMMA TermsAre ==
  ASSUME NEW s \in Seq(Y!Digits), NEW three
  PROVE  /\ Terms(s, three) \in [1 .. Len(s) -> Nat]
         /\ \A i \in 1 .. Len(s) : /\ s[i] \in Y!Digits /\ Y!ValueOf[s[i]] \in 0 .. 9
                                   /\ Terms(s, three)[i] = Y!ValueOf[s[i]] * (IF three[i] THEN 3 ELSE 1)
<1>1. ASSUME NEW i \in 1 .. Len(s)
      PROVE  /\ s[i] \in Y!Digits /\ Y!ValueOf[s[i]] \in 0 .. 9
             /\ Y!ValueOf[s[i]] * (IF three[i] THEN 3 ELSE 1) \in Nat
  <2>1. s[i] \in Y!Digits
    OBVIOUS
  <2>2. Y!ValueOf[s[i]] \in 0 .. 9
    BY <2>1, DigitValues
  <2>3. (IF three[i] THEN 3 ELSE 1) \in {1, 3}
    OBVIOUS
  <2>. QED BY <2>1, <2>2, <2>3
<1>. QED BY <1>1 DEF Terms

\* Weighted adds them up.
LEMMA WeightedAddsUp ==
  ASSUME NEW s \in Seq(Y!Digits), NEW three
  PROVE  AddsUp(Y!Weighted(s, three), Terms(s, three), Len(s))
<1> DEFINE n == Len(s)
           v == Terms(s, three)
           F(sum) == [i \in 0 .. n |-> IF i = 0 THEN 0
                                       ELSE sum[i - 1] + Y!ValueOf[s[i]] * (IF three[i] THEN 3 ELSE 1)]
           Runs(sum) == sum = F(sum)
           total == CHOOSE sum : Runs(sum)
<1>1. n \in Nat /\ v \in [1 .. n -> Nat]
  BY TermsAre
<1>2. PICK f : RunningSum(f, v, n)
  BY <1>1, SumExists
<1>3. f = F(f)
  <2>1. f \in [0 .. n -> Nat] /\ f[0] = 0 /\ \A i \in 1 .. n : f[i] = f[i - 1] + v[i]
    BY <1>2 DEF RunningSum
  <2>2. \A i \in 1 .. n : v[i] = Y!ValueOf[s[i]] * (IF three[i] THEN 3 ELSE 1)
    BY TermsAre
  <2> HIDE DEF v, n
  <2>3. ASSUME NEW i \in 0 .. n
        PROVE  f[i] = IF i = 0 THEN 0 ELSE f[i - 1] + Y!ValueOf[s[i]] * (IF three[i] THEN 3 ELSE 1)
    <3>1. CASE i = 0
      BY <2>1, <3>1
    <3>2. CASE i # 0
      <4>1. i \in 1 .. n
        BY <1>1, <3>2
      <4>. QED BY <2>1, <2>2, <3>2, <4>1
    <3>. QED BY <3>1, <3>2
  <2>. QED BY <2>1, <2>3
<1>4. Runs(total)
  <2>1. Runs(f)
    BY <1>3
  <2> HIDE DEF Runs
  <2>. QED BY <2>1
<1>5. RunningSum(total, v, n)
  <2>1. DOMAIN total = 0 .. n /\ total[0] = 0
    <3> HIDE DEF total
    <3>. QED BY <1>1, <1>4
  <2>2. ASSUME NEW i \in 1 .. n PROVE total[i] = total[i - 1] + v[i]
    <3>1. i \in 0 .. n /\ i # 0
      BY <1>1
    <3>2. v[i] = Y!ValueOf[s[i]] * (IF three[i] THEN 3 ELSE 1)
      BY TermsAre
    <3> HIDE DEF total, v
    <3>3. total[i] = F(total)[i]
      BY <1>4
    <3>. QED BY <3>1, <3>2, <3>3
  <2> DEFINE D == {i \in 0 .. n : total[i] \in Nat}
  <2>3. 0 \in D
    BY <1>1, <2>1
  <2>4. ASSUME NEW i \in 1 .. n, i - 1 \in D PROVE i \in D
    <3>1. i \in 0 .. n /\ v[i] \in Nat
      BY <1>1
    <3> HIDE DEF total, v
    <3>2. total[i - 1] \in Nat /\ total[i] = total[i - 1] + v[i]
      BY <2>2, <2>4
    <3>. QED BY <3>1, <3>2
  <2>5. \A i \in 0 .. n : i \in D
    <3>1. \A i \in 1 .. n : i - 1 \in D => i \in D
      BY <2>4
    <3> HIDE DEF D, n
    <3>. QED BY <1>1, <2>3, <3>1, Induction
  <2>6. \A i \in 0 .. n : total[i] \in Nat
    BY <2>5
  <2>7. total = [i \in 0 .. n |-> total[i]]
    <3> HIDE DEF n
    <3>. QED BY <1>4
  <2> HIDE DEF total, v, n
  <2>. QED BY <2>1, <2>2, <2>6, <2>7 DEF RunningSum
<1>6. Y!Weighted(s, three) = total[n]
  BY DEF Y!Weighted
<1>7. Y!Weighted(s, three) = total[n] /\ n = Len(s) /\ v = Terms(s, three)
  BY <1>6
<1> HIDE DEF total, v, F, n
<1>. QED BY <1>5, <1>7 DEF AddsUp

\* The digit a number is closed with, the sum it closes, and the weights of the sum.
Threes(n)  == [i \in 1 .. n |-> (n - i) % 2 = 0]
Summed(s)  == Y!Weighted(s, Threes(Len(s)))

LEMMA CheckDigitIs ==
  ASSUME NEW s \in Seq(Y!Digits)
  PROVE  /\ Summed(s) \in Nat
         /\ AddsUp(Summed(s), Terms(s, Threes(Len(s))), Len(s))
         /\ Y!gs1CheckDigit(s) = Y!Closing(Summed(s))
         /\ Y!gs1CheckDigit(s) \in Y!Digits
<1>1. AddsUp(Summed(s), Terms(s, Threes(Len(s))), Len(s))
  BY WeightedAddsUp DEF Summed
<1>2. Summed(s) \in Nat
  <2>1. Len(s) \in Nat /\ Terms(s, Threes(Len(s))) \in [1 .. Len(s) -> Nat]
    BY TermsAre
  <2> DEFINE n == Len(s)
             v == Terms(s, Threes(Len(s)))
             a == Summed(s)
  <2>2. n \in Nat /\ v \in [1 .. n -> Nat] /\ AddsUp(a, v, n)
    BY <1>1, <2>1
  <2> HIDE DEF n, v, a
  <2>3. a \in Nat
    BY <2>2, OneSum
  <2>. QED BY <2>3 DEF a
<1>3. Y!gs1CheckDigit(s) = Y!Closing(Summed(s))
  <2>1. DOMAIN s = 1 .. Len(s)
    OBVIOUS
  <2>2. Threes(Len(s)) = [i \in DOMAIN s |-> (Len(s) - i) % 2 = 0]
    BY <2>1 DEF Threes
  <2>. QED BY <2>2 DEF Y!gs1CheckDigit, Summed
<1>. QED BY <1>1, <1>2, <1>3, ClosingDigits

\* Two numbers that differ in one digit have different check digits.
LEMMA MistypeShows ==
  ASSUME NEW s \in Seq(Y!Digits), NEW t \in Seq(Y!Digits), Len(t) = Len(s), NEW k \in 1 .. Len(s),
         t[k] # s[k], \A i \in 1 .. Len(s) : i = k \/ t[i] = s[i]
  PROVE  Y!gs1CheckDigit(t) # Y!gs1CheckDigit(s)
<1> DEFINE n == Len(s)
           w == Threes(n)
           v == Terms(s, w)
           u == Terms(t, w)
           a == Summed(s)
           b == Summed(t)
           x == Y!ValueOf[s[k]]
           y == Y!ValueOf[t[k]]
           three == IF w[k] THEN 3 ELSE 1
<1>1. /\ n \in Nat /\ v \in [1 .. n -> Nat] /\ u \in [1 .. n -> Nat] /\ k \in 1 .. n
      /\ AddsUp(a, v, n) /\ AddsUp(b, u, n) /\ a \in Nat /\ b \in Nat
  BY CheckDigitIs, TermsAre
<1>2. SameBut(u, v, n, k)
  <2>1. \A i \in 1 .. n : /\ v[i] = Y!ValueOf[s[i]] * (IF w[i] THEN 3 ELSE 1)
                          /\ u[i] = Y!ValueOf[t[i]] * (IF w[i] THEN 3 ELSE 1)
    BY TermsAre
  <2> HIDE DEF v, u, w
  <2>. QED BY <2>1 DEF SameBut
<1>3. v[k] = x * three /\ u[k] = y * three /\ x \in 0 .. 9 /\ y \in 0 .. 9 /\ x # y /\ three \in {1, 3}
  <2>1. /\ v[k] = x * three /\ u[k] = y * three /\ x \in 0 .. 9 /\ y \in 0 .. 9
        /\ s[k] \in Y!Digits /\ t[k] \in Y!Digits
    BY TermsAre, ZenonT(40)
  <2>2. Y!DigitOf[x + 1] = s[k] /\ Y!DigitOf[y + 1] = t[k]
    BY <2>1, DigitValues
  <2> HIDE DEF x, y, v, u, w
  <2>. QED BY <2>1, <2>2
<1> HIDE DEF n, w, v, u, a, b, x, y, three
<1>4. Differ(b, u, a, v, k)
  BY <1>1, <1>2, OneTermChanged
<1>5. b + (x * three) = a + (y * three)
  BY <1>3, <1>4 DEF Differ
<1>6. a % 10 # b % 10
  BY <1>1, <1>3, <1>5, RemaindersDiffer
<1>7. Y!Closing(a) # Y!Closing(b)
  BY <1>1, <1>6, ClosingDigits
<1>. QED BY <1>7, CheckDigitIs DEF a, b

\* Zeroes in front do not change a check digit.
LEMMA PaddedSame ==
  ASSUME NEW s \in Seq(Y!Digits), NEW m \in Nat
  PROVE  /\ Y!Zeroes(m) \o s \in Seq(Y!Digits) /\ Len(Y!Zeroes(m) \o s) = m + Len(s)
         /\ Y!gs1CheckDigit(Y!Zeroes(m) \o s) = Y!gs1CheckDigit(s)
<1> DEFINE n == Len(s)
           t == Y!Zeroes(m) \o s
           v == Terms(s, Threes(n))
           u == Terms(t, Threes(m + n))
<1>0. Y!Zeroes(m) \in Seq(Y!Digits) /\ Len(Y!Zeroes(m)) = m /\ \A i \in 1 .. m : Y!Zeroes(m)[i] = "0"
  <2>1. "0" \in Y!Digits
    BY DigitValues
  <2>. QED BY <2>1 DEF Y!Zeroes
<1>1. /\ t \in Seq(Y!Digits) /\ Len(t) = m + n /\ n \in Nat
      /\ \A i \in 1 .. m : t[i] = "0"
      /\ \A i \in 1 .. n : t[m + i] = s[i]
  BY <1>0
<1> HIDE DEF t
<1>2. u \in [1 .. m + n -> Nat] /\ v \in [1 .. n -> Nat]
  BY <1>1, TermsAre
<1>3. ASSUME NEW i \in 1 .. m PROVE u[i] = 0
  <2>1. i \in 1 .. m + n /\ t[i] = "0"
    BY <1>1
  <2>2. u[i] = Y!ValueOf[t[i]] * (IF Threes(m + n)[i] THEN 3 ELSE 1)
    BY <1>1, <2>1, TermsAre
  <2>. QED BY <2>1, <2>2, DigitValues
<1>4. ASSUME NEW i \in 1 .. n PROVE u[m + i] = v[i]
  <2>1. m + i \in 1 .. m + n /\ t[m + i] = s[i] /\ (m + n) - (m + i) = n - i
    BY <1>1
  <2>2. (IF Threes(m + n)[m + i] THEN 3 ELSE 1) = (IF Threes(n)[i] THEN 3 ELSE 1)
    BY <2>1 DEF Threes
  <2>3. /\ u[m + i] = Y!ValueOf[t[m + i]] * (IF Threes(m + n)[m + i] THEN 3 ELSE 1)
        /\ v[i] = Y!ValueOf[s[i]] * (IF Threes(n)[i] THEN 3 ELSE 1)
    BY <1>1, <2>1, TermsAre
  <2> HIDE DEF u, v
  <2>. QED BY <2>1, <2>2, <2>3
<1>5. AddsUp(Summed(s), v, n) /\ AddsUp(Summed(t), u, m + n)
  BY <1>1, CheckDigitIs
<1>6. Summed(s) = Summed(t)
  <2> HIDE DEF u, v, n
  <2>. QED BY <1>1, <1>2, <1>3, <1>4, <1>5, ZeroesInFront
<1>7. Y!gs1CheckDigit(t) = Y!gs1CheckDigit(s)
  BY <1>1, <1>6, CheckDigitIs
<1>. QED BY <1>1, <1>7 DEF t

-----------------------------------------------------------------------------
(* Numbers: a payload and the digit that closes it.                        *)

LEMMA NumberedAre ==
  /\ Y!Numbered = {"ean13", "ean8", "upca", "itf14", "upce"}
  /\ Y!Caps["ean13"].max = 13 /\ Y!Caps["ean8"].max = 8 /\ Y!Caps["upca"].max = 12
  /\ Y!Caps["itf14"].max = 14 /\ Y!Caps["upce"].max = 8
  /\ \A sym \in Y!Numbered : /\ Y!Caps[sym].max \in {8, 12, 13, 14}
                             /\ Y!Caps[sym].lengths = {Y!Caps[sym].max - 1, Y!Caps[sym].max}
                             /\ Y!Caps[sym].alphabet = Y!Digits
                             /\ sym \notin Y!Grids /\ sym \in DOMAIN Y!Caps
<1>1. Y!Numbered = {"ean13", "ean8", "upca", "itf14", "upce"}
  BY DEF Y!Numbered
<1>2. /\ Y!Caps["ean13"] = Y!Fixed(12) /\ Y!Caps["ean8"] = Y!Fixed(7) /\ Y!Caps["upca"] = Y!Fixed(11)
      /\ Y!Caps["itf14"] = Y!Fixed(13) /\ Y!Caps["upce"] = Y!Fixed(7)
      /\ Y!Numbered \subseteq DOMAIN Y!Caps
  BY <1>1 DEF Y!Caps
<1>3. \A n \in Nat : /\ Y!Fixed(n).max = n + 1 /\ Y!Fixed(n).lengths = {n, n + 1}
                     /\ Y!Fixed(n).alphabet = Y!Digits
  BY DEF Y!Fixed
<1>4. 12 + 1 = 13 /\ 7 + 1 = 8 /\ 11 + 1 = 12 /\ 13 + 1 = 14
  OBVIOUS
<1>5. Y!Grids \cap Y!Numbered = {}
  BY DEF Y!Grids, Y!Numbered
<1>6. ASSUME NEW sym \in Y!Numbered
      PROVE  /\ Y!Caps[sym].max \in {8, 12, 13, 14}
             /\ Y!Caps[sym].lengths = {Y!Caps[sym].max - 1, Y!Caps[sym].max}
             /\ Y!Caps[sym].alphabet = Y!Digits
  <2>1. \E n \in {12, 7, 11, 13} : Y!Caps[sym] = Y!Fixed(n)
    BY <1>1, <1>2
  <2>2. PICK n \in {12, 7, 11, 13} : Y!Caps[sym] = Y!Fixed(n)
    BY <2>1
  <2>3. n \in Nat /\ n + 1 \in {8, 12, 13, 14} /\ (n + 1) - 1 = n
    OBVIOUS
  <2>. QED BY <1>3, <2>2, <2>3
<1>. QED BY <1>1, <1>2, <1>3, <1>4, <1>5, <1>6

\* No option is the option of a level of correction left to the symbology.
LEMMA PlainlyTaken ==
  ASSUME NEW sym
  PROVE  Y!Options(sym, Plainly)
<1>1. Plainly.auto = TRUE
  BY DEF Plainly
<1>2. Plainly.ecc \in Y!Caps[sym].levels \cup {""}
  BY Zenon DEF Plainly
<1>. QED BY <1>1, <1>2, Zenon DEF Y!Options

\* The parts of a sequence, and the whole of three.
IsPart(e, s, m, n, S) == /\ e \in Seq(S) /\ Len(e) = (n - m) + 1
                         /\ \A k \in 1 .. (n - m) + 1 : e[k] = s[(m + k) - 1]

LEMMA PartOf ==
  ASSUME NEW S, NEW s \in Seq(S), NEW m \in 1 .. Len(s), NEW n \in m .. Len(s)
  PROVE  IsPart(SubSeq(s, m, n), s, m, n, S)
<1>1. \A i \in m .. n : s[i] \in S
  OBVIOUS
<1>2. m \in Int /\ n \in Int /\ m <= n
  OBVIOUS
<1> DEFINE e == SubSeq(s, m, n)
<1>3. /\ e \in Seq(S) /\ Len(e) = (IF m <= n THEN (n - m) + 1 ELSE 0)
      /\ \A k \in 1 .. (n - m) + 1 : e[k] = s[(m + k) - 1]
  BY <1>1, <1>2, SubSeqProperties
<1> HIDE DEF e
<1>4. IsPart(e, s, m, n, S)
  BY <1>2, <1>3 DEF IsPart
<1>. QED BY <1>4 DEF e

Joins(e, a, b, c, S) ==
  /\ e \in Seq(S) /\ Len(e) = Len(a) + Len(b) + Len(c)
  /\ \A k \in 1 .. Len(e) : e[k] = IF k <= Len(a) THEN a[k]
                                   ELSE IF k <= Len(a) + Len(b) THEN b[k - Len(a)]
                                   ELSE c[k - (Len(a) + Len(b))]

LEMMA ThreeJoined ==
  ASSUME NEW S, NEW a \in Seq(S), NEW b \in Seq(S), NEW c \in Seq(S)
  PROVE  Joins(a \o b \o c, a, b, c, S)
<1> DEFINE d == a \o b
           e == d \o c
           T == Seq(S)
<1>1. /\ d \in T /\ Len(d) = Len(a) + Len(b)
      /\ \A k \in 1 .. Len(d) : d[k] = IF k <= Len(a) THEN a[k] ELSE b[k - Len(a)]
  BY ConcatProperties
<1>2. /\ e \in T /\ Len(e) = Len(d) + Len(c)
      /\ \A k \in 1 .. Len(e) : e[k] = IF k <= Len(d) THEN d[k] ELSE c[k - Len(d)]
  <2>1. d \in Seq(S)
    BY <1>1
  <2> HIDE DEF d
  <2>. QED BY <2>1, ConcatProperties
<1>3. Len(a) \in Nat /\ Len(b) \in Nat /\ Len(c) \in Nat
  OBVIOUS
<1> HIDE DEF d
<1>4. ASSUME NEW k \in 1 .. Len(e)
      PROVE  e[k] = IF k <= Len(a) THEN a[k] ELSE IF k <= Len(a) + Len(b) THEN b[k - Len(a)]
                    ELSE c[k - (Len(a) + Len(b))]
  <2> HIDE DEF e
  <2>1. CASE k <= Len(a) + Len(b)
    <3>1. k \in 1 .. Len(d)
      BY <1>1, <1>3, <2>1
    <3>2. e[k] = d[k]
      BY <1>1, <1>2, <1>3, <2>1
    <3>. QED BY <1>1, <1>3, <2>1, <3>1, <3>2
  <2>2. CASE ~(k <= Len(a) + Len(b))
    <3>1. ~(k <= Len(a))
      BY <1>3, <2>2
    <3>. QED BY <1>1, <1>2, <2>2, <3>1
  <2>. QED BY <2>1, <2>2
<1> HIDE DEF e
<1>5. Joins(e, a, b, c, S)
  BY <1>1, <1>2, <1>4 DEF Joins
<1>. QED BY <1>5 DEF d, e

\* The eleven digits, each where it comes from.
Spelt(seven, k) ==
  CASE seven[7] \in {"0", "1", "2"} -> IF k <= 3 THEN seven[k] ELSE IF k = 4 THEN seven[7]
                                       ELSE IF k <= 8 THEN "0" ELSE seven[k - 5]
    [] seven[7] = "3" -> IF k <= 4 THEN seven[k] ELSE IF k <= 9 THEN "0" ELSE seven[k - 5]
    [] seven[7] = "4" -> IF k <= 5 THEN seven[k] ELSE IF k <= 10 THEN "0" ELSE seven[k - 5]
    [] OTHER -> IF k <= 6 THEN seven[k] ELSE IF k <= 10 THEN "0" ELSE seven[7]

LEMMA UpceExpands ==
  ASSUME NEW s \in Seq(Y!Digits), Len(s) = 7
  PROVE  LET e == Y!upceExpand(s)
         IN  e \in Seq(Y!Digits) /\ Len(e) = 11 /\ \A k \in 1 .. 11 : e[k] = Spelt(s, k)
<1> DEFINE T == Seq(Y!Digits)
           e == Y!upceExpand(s)
<1>1. ASSUME NEW n \in 1 .. 6
      PROVE  /\ SubSeq(s, 1, n) \in T /\ Len(SubSeq(s, 1, n)) = n
             /\ \A k \in 1 .. n : SubSeq(s, 1, n)[k] = s[k]
  <2>1. 1 \in 1 .. Len(s) /\ n \in 1 .. Len(s) /\ (n - 1) + 1 = n
    OBVIOUS
  <2>2. \A k \in 1 .. n : (1 + k) - 1 = k
    OBVIOUS
  <2> DEFINE e1 == SubSeq(s, 1, n)
  <2>3. IsPart(e1, s, 1, n, Y!Digits)
    BY <2>1, PartOf
  <2> HIDE DEF e1
  <2>4. e1 \in T /\ Len(e1) = n /\ \A k \in 1 .. n : e1[k] = s[k]
    BY <2>1, <2>2, <2>3 DEF IsPart
  <2>. QED BY <2>4 DEF e1
<1>2. ASSUME NEW n \in 4 .. 6
      PROVE  /\ SubSeq(s, n, 6) \in T /\ Len(SubSeq(s, n, 6)) = 7 - n
             /\ \A k \in 1 .. 7 - n : SubSeq(s, n, 6)[k] = s[(n + k) - 1]
  <2>1. n \in 1 .. Len(s) /\ 6 \in n .. Len(s) /\ (6 - n) + 1 = 7 - n
    OBVIOUS
  <2> DEFINE e1 == SubSeq(s, n, 6)
  <2>3. IsPart(e1, s, n, 6, Y!Digits)
    BY <2>1, PartOf
  <2> HIDE DEF e1
  <2>4. e1 \in T /\ Len(e1) = 7 - n /\ \A k \in 1 .. 7 - n : e1[k] = s[(n + k) - 1]
    BY <2>1, <2>3 DEF IsPart
  <2>. QED BY <2>4 DEF e1
<1>3. \A n \in 4 .. 5 : Y!Zeroes(n) \in T /\ Len(Y!Zeroes(n)) = n /\ \A k \in 1 .. n : Y!Zeroes(n)[k] = "0"
  <2>1. "0" \in Y!Digits
    BY DigitValues
  <2>. QED BY <2>1 DEF Y!Zeroes
<1> HIDE DEF T, e
<1>4. <<s[7]>> \in T /\ Len(<<s[7]>>) = 1 /\ <<s[7]>>[1] = s[7]
  <2>1. ASSUME NEW i \in 1 .. Len(s) PROVE s[i] \in Y!Digits
    BY ElementOfSeq
  <2>2. 7 \in 1 .. Len(s)
    OBVIOUS
  <2>3. s[7] \in Y!Digits
    BY <2>1, <2>2
  <2>. QED BY <2>3 DEF T
<1>5. CASE s[7] \in {"0", "1", "2"}
  <2> DEFINE a == SubSeq(s, 1, 3) \o <<s[7]>>
             b == Y!Zeroes(4)
             c == SubSeq(s, 4, 6)
  <2>1. e = a \o b \o c
    BY <1>5 DEF e, Y!upceExpand
  <2>2. /\ a \in T /\ b \in T /\ c \in T
        /\ Len(a) = 4 /\ Len(b) = 4 /\ Len(c) = 3
        /\ \A k \in 1 .. 3 : a[k] = s[k] /\ c[k] = s[(4 + k) - 1]
        /\ \A k \in 1 .. 4 : b[k] = "0"
        /\ a[4] = s[7]
    <3> DEFINE f == SubSeq(s, 1, 3)
               g == <<s[7]>>
    <3>1. f \in T /\ Len(f) = 3 /\ \A k \in 1 .. 3 : f[k] = s[k]
      BY <1>1
    <3>2. g \in T /\ Len(g) = 1 /\ g[1] = s[7]
      BY <1>4
    <3>3. a \in T /\ Len(a) = 4 /\ a[4] = s[7] /\ \A k \in 1 .. 3 : a[k] = s[k]
      <4>1. a = f \o g
        OBVIOUS
      <4> HIDE DEF a, f, g
      <4>2. /\ a \in T /\ Len(a) = 3 + 1
            /\ \A k \in 1 .. 3 + 1 : a[k] = IF k <= 3 THEN f[k] ELSE g[k - 3]
        <5>1. f \in Seq(Y!Digits) /\ g \in Seq(Y!Digits) /\ Len(f) = 3 /\ Len(g) = 1
          BY <3>1, <3>2 DEF T
        <5>2. /\ a \in Seq(Y!Digits) /\ Len(a) = Len(f) + Len(g)
              /\ \A k \in 1 .. Len(f) + Len(g) : a[k] = IF k <= Len(f) THEN f[k] ELSE g[k - Len(f)]
          BY <4>1, <5>1, ConcatProperties
        <5>. QED BY <5>1, <5>2 DEF T
      <4>3. \A k \in 1 .. 3 : k \in 1 .. 3 + 1 /\ k <= 3
        OBVIOUS
      <4>4. 4 \in 1 .. 3 + 1 /\ ~(4 <= 3) /\ 4 - 3 = 1 /\ 3 + 1 = 4
        OBVIOUS
      <4>. QED BY <3>1, <3>2, <4>2, <4>3, <4>4
    <3>4. b \in T /\ Len(b) = 4 /\ \A k \in 1 .. 4 : b[k] = "0"
      BY <1>3
    <3>5. c \in T /\ Len(c) = 3 /\ \A k \in 1 .. 3 : c[k] = s[(4 + k) - 1]
      BY <1>2
    <3>. QED BY <3>3, <3>4, <3>5
  <2> HIDE DEF a, b, c
  <2>3. Joins(e, a, b, c, Y!Digits) /\ e \in T /\ Len(e) = 11
    <3>1. Joins(e, a, b, c, Y!Digits)
      BY <2>1, <2>2, ThreeJoined DEF T
    <3>2. e \in T /\ Len(e) = 11
      BY <2>2, <3>1 DEF Joins, T
    <3>. QED BY <3>1, <3>2
  <2>4. ASSUME NEW k \in 1 .. 11
        PROVE  e[k] = IF k <= 4 THEN a[k] ELSE IF k <= 8 THEN b[k - 4] ELSE c[k - 8]
    BY <2>2, <2>3 DEF Joins
  <2>5. ASSUME NEW k \in 1 .. 11
        PROVE  e[k] = IF k <= 3 THEN s[k] ELSE IF k = 4 THEN s[7] ELSE IF k <= 8 THEN "0" ELSE s[k - 5]
    <3>1. /\ k <= 3 => k \in 1 .. 3 /\ k <= 4
          /\ (~(k <= 3) /\ k # 4) => ~(k <= 4)
          /\ (~(k <= 3) /\ k # 4 /\ k <= 8) => k - 4 \in 1 .. 4
          /\ (~(k <= 3) /\ k # 4 /\ ~(k <= 8)) => k - 8 \in 1 .. 3 /\ (4 + (k - 8)) - 1 = k - 5
      OBVIOUS
    <3>. QED BY <2>2, <2>4, <3>1
  <2>. QED BY <1>5, <2>3, <2>5 DEF T, e, Spelt
<1>6. CASE s[7] = "3"
  <2> DEFINE a == SubSeq(s, 1, 4)
             b == Y!Zeroes(5)
             c == SubSeq(s, 5, 6)
  <2>1. e = a \o b \o c
    BY <1>6 DEF e, Y!upceExpand
  <2>2. /\ a \in T /\ b \in T /\ c \in T
        /\ Len(a) = 4 /\ Len(b) = 5 /\ Len(c) = 2
        /\ \A k \in 1 .. 4 : a[k] = s[k]
        /\ \A k \in 1 .. 5 : b[k] = "0"
        /\ \A k \in 1 .. 2 : c[k] = s[(5 + k) - 1]
    BY <1>1, <1>2, <1>3
  <2> HIDE DEF a, b, c
  <2>3. Joins(e, a, b, c, Y!Digits) /\ e \in T /\ Len(e) = 11
    <3>1. Joins(e, a, b, c, Y!Digits)
      BY <2>1, <2>2, ThreeJoined DEF T
    <3>2. e \in T /\ Len(e) = 11
      BY <2>2, <3>1 DEF Joins, T
    <3>. QED BY <3>1, <3>2
  <2>4. ASSUME NEW k \in 1 .. 11
        PROVE  e[k] = IF k <= 4 THEN a[k] ELSE IF k <= 9 THEN b[k - 4] ELSE c[k - 9]
    BY <2>2, <2>3 DEF Joins
  <2>5. ASSUME NEW k \in 1 .. 11
        PROVE  e[k] = IF k <= 4 THEN s[k] ELSE IF k <= 9 THEN "0" ELSE s[k - 5]
    <3>1. /\ k <= 4 => k \in 1 .. 4
          /\ (~(k <= 4) /\ k <= 9) => k - 4 \in 1 .. 5
          /\ (~(k <= 4) /\ ~(k <= 9)) => k - 9 \in 1 .. 2 /\ (5 + (k - 9)) - 1 = k - 5
      OBVIOUS
    <3>. QED BY <2>2, <2>4, <3>1
  <2>. QED BY <1>6, <2>3, <2>5 DEF T, e, Spelt
<1>7. CASE s[7] = "4"
  <2> DEFINE a == SubSeq(s, 1, 5)
             b == Y!Zeroes(5)
             c == SubSeq(s, 6, 6)
  <2>1. e = a \o b \o c
    BY <1>7 DEF e, Y!upceExpand
  <2>2. /\ a \in T /\ b \in T /\ c \in T
        /\ Len(a) = 5 /\ Len(b) = 5 /\ Len(c) = 1
        /\ \A k \in 1 .. 5 : a[k] = s[k] /\ b[k] = "0"
        /\ \A k \in 1 .. 1 : c[k] = s[(6 + k) - 1]
    BY <1>1, <1>2, <1>3
  <2> HIDE DEF a, b, c
  <2>3. Joins(e, a, b, c, Y!Digits) /\ e \in T /\ Len(e) = 11
    <3>1. Joins(e, a, b, c, Y!Digits)
      BY <2>1, <2>2, ThreeJoined DEF T
    <3>2. e \in T /\ Len(e) = 11
      BY <2>2, <3>1 DEF Joins, T
    <3>. QED BY <3>1, <3>2
  <2>4. ASSUME NEW k \in 1 .. 11
        PROVE  e[k] = IF k <= 5 THEN a[k] ELSE IF k <= 10 THEN b[k - 5] ELSE c[k - 10]
    BY <2>2, <2>3 DEF Joins
  <2>5. ASSUME NEW k \in 1 .. 11
        PROVE  e[k] = IF k <= 5 THEN s[k] ELSE IF k <= 10 THEN "0" ELSE s[k - 5]
    <3>1. /\ k <= 5 => k \in 1 .. 5
          /\ (~(k <= 5) /\ k <= 10) => k - 5 \in 1 .. 5
          /\ (~(k <= 5) /\ ~(k <= 10)) => k - 10 \in 1 .. 1 /\ (6 + (k - 10)) - 1 = k - 5
      OBVIOUS
    <3>. QED BY <2>2, <2>4, <3>1
  <2>. QED BY <1>7, <2>3, <2>5 DEF T, e, Spelt
<1>8. CASE s[7] \notin {"0", "1", "2"} /\ s[7] # "3" /\ s[7] # "4"
  <2> DEFINE a == SubSeq(s, 1, 6)
             b == Y!Zeroes(4)
             c == <<s[7]>>
  <2>1. e = a \o b \o c
    BY <1>8 DEF e, Y!upceExpand
  <2>2. /\ a \in T /\ b \in T /\ c \in T
        /\ Len(a) = 6 /\ Len(b) = 4 /\ Len(c) = 1
        /\ \A k \in 1 .. 6 : a[k] = s[k]
        /\ \A k \in 1 .. 4 : b[k] = "0"
        /\ c[1] = s[7]
    BY <1>1, <1>3, <1>4
  <2> HIDE DEF a, b, c
  <2>3. Joins(e, a, b, c, Y!Digits) /\ e \in T /\ Len(e) = 11
    <3>1. Joins(e, a, b, c, Y!Digits)
      BY <2>1, <2>2, ThreeJoined DEF T
    <3>2. e \in T /\ Len(e) = 11
      BY <2>2, <3>1 DEF Joins, T
    <3>. QED BY <3>1, <3>2
  <2>4. ASSUME NEW k \in 1 .. 11
        PROVE  e[k] = IF k <= 6 THEN a[k] ELSE IF k <= 10 THEN b[k - 6] ELSE c[k - 10]
    BY <2>2, <2>3 DEF Joins
  <2>5. ASSUME NEW k \in 1 .. 11
        PROVE  e[k] = IF k <= 6 THEN s[k] ELSE IF k <= 10 THEN "0" ELSE s[7]
    <3>1. /\ k <= 6 => k \in 1 .. 6
          /\ (~(k <= 6) /\ k <= 10) => k - 6 \in 1 .. 4
          /\ (~(k <= 6) /\ ~(k <= 10)) => k - 10 = 1
      OBVIOUS
    <3>. QED BY <2>2, <2>4, <3>1
  <2>. QED BY <1>8, <2>3, <2>5 DEF T, e, Spelt
<1>. QED BY <1>5, <1>6, <1>7, <1>8 DEF T, e

\* The digits before the check digit of a number, or what they stand for; a number as it is
\* printed, whole.
Body(sym, text) == IF sym = "upce" THEN Y!upceExpand(SubSeq(text, 1, 7))
                   ELSE SubSeq(text, 1, Y!Caps[sym].max - 1)
Closes(sym, text) ==
  /\ text \in Seq(Y!Digits) /\ Len(text) = Y!Caps[sym].max
  /\ text[Y!Caps[sym].max] = Y!gs1CheckDigit(Body(sym, text))
  /\ sym = "upce" => text[1] \in {"0", "1"}

LEMMA BodyIs ==
  ASSUME NEW sym \in Y!Numbered, NEW text \in Seq(Y!Digits), Len(text) >= Y!Caps[sym].max - 1
  PROVE  /\ Body(sym, text) \in Seq(Y!Digits) /\ Y!gs1CheckDigit(Body(sym, text)) \in Y!Digits
         /\ sym = "upce"  => /\ Len(Body(sym, text)) = 11
                             /\ \A k \in 1 .. 11 : Body(sym, text)[k] = Spelt(SubSeq(text, 1, 7), k)
         /\ sym # "upce"  => /\ Len(Body(sym, text)) = Y!Caps[sym].max - 1
                             /\ \A k \in 1 .. Y!Caps[sym].max - 1 : Body(sym, text)[k] = text[k]
<1> DEFINE n == Y!Caps[sym].max - 1
           e == SubSeq(text, 1, n)
<1>1. n \in {7, 11, 12, 13} /\ (sym = "upce" => n = 7) /\ n \in 1 .. Len(text) /\ 1 \in 1 .. Len(text)
  BY NumberedAre
<1>2. IsPart(e, text, 1, n, Y!Digits)
  BY <1>1, PartOf
<1>3. e \in Seq(Y!Digits) /\ Len(e) = n /\ \A k \in 1 .. n : e[k] = text[k]
  <2>1. (n - 1) + 1 = n /\ \A k \in 1 .. n : (1 + k) - 1 = k
    BY <1>1
  <2> HIDE DEF e, n
  <2>. QED BY <1>2, <2>1 DEF IsPart
<1>4. Body(sym, text) \in Seq(Y!Digits)
  <2>1. CASE sym = "upce"
    <3>1. Body(sym, text) = Y!upceExpand(e) /\ Len(e) = 7
      BY <1>1, <1>3, <2>1 DEF Body
    <3> HIDE DEF e
    <3>. QED BY <1>3, <3>1, UpceExpands
  <2>2. CASE sym # "upce"
    BY <1>3, <2>2 DEF Body
  <2>. QED BY <2>1, <2>2
<1>5. CASE sym = "upce"
  <2>1. Body(sym, text) = Y!upceExpand(e) /\ Len(e) = 7 /\ e = SubSeq(text, 1, 7)
    BY <1>1, <1>3, <1>5 DEF Body
  <2> HIDE DEF e
  <2>2. Len(Body(sym, text)) = 11 /\ \A k \in 1 .. 11 : Body(sym, text)[k] = Spelt(e, k)
    <3>1. e \in Seq(Y!Digits) /\ Len(e) = 7
      BY <1>3, <2>1
    <3>2. Len(Y!upceExpand(e)) = 11 /\ \A k \in 1 .. 11 : Y!upceExpand(e)[k] = Spelt(e, k)
      BY <3>1, UpceExpands
    <3>. QED BY <2>1, <3>2
  <2>. QED BY <1>4, <1>5, <2>1, <2>2, CheckDigitIs
<1>6. CASE sym # "upce"
  <2>1. Body(sym, text) = e
    BY <1>6 DEF Body
  <2>. QED BY <1>3, <1>4, <1>6, <2>1, CheckDigitIs
<1>. QED BY <1>5, <1>6

\* What is read as a number closes, and is what was given when that was whole.
Reads(sym, data, r) ==
  /\ Y!requireDigits(data) /\ Len(data) \in {Y!Caps[sym].max - 1, Y!Caps[sym].max}
  /\ Closes(sym, r.text)
  /\ Len(data) = Y!Caps[sym].max => r.text = data

LEMMA NumberPayload ==
  ASSUME NEW sym \in Y!Numbered, NEW data \in Seq(Y!Utf8)
  PROVE  LET r == Y!Payload(sym, data)
         IN  /\ (r.ok = TRUE /\ r = Y!Accept(r.text) /\ Reads(sym, data, r))
                \/ r = Y!Refuse("invalid")
<1> DEFINE m == Y!Caps[sym].max
           n == m - 1
           r == Y!Payload(sym, data)
           Goal == (r.ok = TRUE /\ r = Y!Accept(r.text) /\ Reads(sym, data, r)) \/ r = Y!Refuse("invalid")
<1>1. n \in {7, 11, 12, 13} /\ m = n + 1 /\ (sym = "upce" => n = 7) /\ n \in Nat
  BY NumberedAre
<1>2. sym \in {"ean13", "ean8", "upca", "itf14", "upce"}
  BY NumberedAre
<1>3. r = IF sym = "upce" THEN Y!upceNormalise(data) ELSE Y!withCheckDigit(data, n)
  BY <1>2 DEF Y!Payload, Y!Numbered
<1>4. ASSUME Y!requireDigits(data), Len(data) \in {n, n + 1}, sym = "upce" => data[1] \in {"0", "1"},
             r = Y!Checked(data, n, Body(sym, data))
      PROVE  Goal
  <2> DEFINE digit == Y!gs1CheckDigit(Body(sym, data))
  <2>1. data \in Seq(Y!Digits)
    <3>1. \A i \in 1 .. Len(data) : data[i] \in Y!Digits
      BY <1>4 DEF Y!requireDigits, Y!Range
    <3>. QED BY <3>1
  <2>2. /\ Body(sym, data) \in Seq(Y!Digits) /\ digit \in Y!Digits
    BY <1>1, <1>4, <2>1, BodyIs
  <2>3. CASE Len(data) = n
    <3> DEFINE text == Append(data, digit)
    <3>1. r = Y!Accept(text)
      BY <1>4, <2>3 DEF Y!Checked
    <3>2. r.text = text /\ r.ok = TRUE
      BY <3>1 DEF Y!Accept
    <3>3. /\ text \in Seq(Y!Digits) /\ Len(text) = m /\ text[m] = digit /\ \A k \in 1 .. n : text[k] = data[k]
      BY <1>1, <2>1, <2>2, <2>3
    <3>4. Body(sym, text) = Body(sym, data)
      <4>1. SubSeq(text, 1, n) = SubSeq(data, 1, n)
        <5>1. 1 \in 1 .. Len(text) /\ n \in 1 .. Len(text) /\ 1 \in 1 .. Len(data) /\ n \in 1 .. Len(data)
          BY <1>1, <2>3, <3>3
        <5> DEFINE a == SubSeq(text, 1, n)
                   b == SubSeq(data, 1, n)
        <5>2. IsPart(a, text, 1, n, Y!Digits) /\ IsPart(b, data, 1, n, Y!Digits)
          BY <2>1, <3>3, <5>1, PartOf
        <5>3. \A k \in 1 .. (n - 1) + 1 : (1 + k) - 1 \in 1 .. n
          BY <1>1
        <5> HIDE DEF a, b, text, n
        <5>4. a \in Seq(Y!Digits) /\ b \in Seq(Y!Digits) /\ Len(a) = Len(b) /\ Len(a) = (n - 1) + 1
          BY <5>2 DEF IsPart
        <5>5. \A k \in 1 .. Len(a) : a[k] = b[k]
          BY <3>3, <5>2, <5>3, <5>4 DEF IsPart
        <5>. QED BY <5>4, <5>5 DEF a, b
      <4>. QED BY <1>1, <4>1 DEF Body
    <3>5. sym = "upce" => text[1] \in {"0", "1"}
      BY <1>1, <1>4, <3>3
    <3>6. Closes(sym, text)
      <4> HIDE DEF text
      <4>. QED BY <3>3, <3>4, <3>5 DEF Closes
    <3> HIDE DEF text
    <3>7. Reads(sym, data, r)
      BY <1>1, <1>4, <2>3, <3>2, <3>6 DEF Reads
    <3>. QED BY <3>1, <3>2, <3>7
  <2>4. CASE Len(data) = n + 1 /\ data[n + 1] = digit
    <3>1. r = Y!Accept(data)
      BY <1>1, <1>4, <2>4 DEF Y!Checked
    <3>2. r.text = data /\ r.ok = TRUE
      BY <3>1 DEF Y!Accept
    <3>3. Closes(sym, data)
      BY <1>1, <1>4, <2>1, <2>4 DEF Closes
    <3>4. Reads(sym, data, r)
      BY <1>1, <1>4, <2>4, <3>2, <3>3 DEF Reads
    <3>. QED BY <3>1, <3>2, <3>4
  <2>5. CASE Len(data) = n + 1 /\ data[n + 1] # digit
    BY <1>1, <1>4, <2>5 DEF Y!Checked
  <2>. QED BY <1>4, <2>3, <2>4, <2>5
<1>5. CASE sym = "upce"
  <2>1. r = Y!upceNormalise(data) /\ n = 7
    BY <1>1, <1>3, <1>5
  <2>2. CASE ~Y!requireDigits(data) \/ Len(data) \notin {7, 8} \/ data[1] \notin {"0", "1"}
    <3>1. r = Y!Refuse("invalid")
      BY <2>1, <2>2 DEF Y!upceNormalise
    <3>. QED BY <3>1
  <2>3. CASE Y!requireDigits(data) /\ Len(data) \in {7, 8} /\ data[1] \in {"0", "1"}
    <3>1. r = Y!Checked(data, 7, Y!upceExpand(SubSeq(data, 1, 7)))
      BY <2>1, <2>3 DEF Y!upceNormalise
    <3>2. Body(sym, data) = Y!upceExpand(SubSeq(data, 1, 7))
      BY <1>5 DEF Body
    <3>3. Len(data) \in {n, n + 1} /\ r = Y!Checked(data, n, Body(sym, data))
      <4> HIDE DEF n, r
      <4>. QED BY <2>1, <2>3, <3>1, <3>2
    <3>4. Goal
      <4> HIDE DEF Goal, n, r
      <4>. QED BY <1>4, <2>3, <3>3
    <3>. QED BY <3>4
  <2>. QED BY <2>2, <2>3
<1>6. CASE sym # "upce"
  <2>1. r = Y!withCheckDigit(data, n)
    BY <1>3, <1>6
  <2>2. CASE ~Y!requireDigits(data) \/ Len(data) \notin {n, n + 1}
    <3>1. r = Y!Refuse("invalid")
      BY <2>1, <2>2 DEF Y!withCheckDigit
    <3>. QED BY <3>1
  <2>3. CASE Y!requireDigits(data) /\ Len(data) \in {n, n + 1}
    <3>1. r = Y!Checked(data, n, SubSeq(data, 1, n))
      BY <2>1, <2>3 DEF Y!withCheckDigit
    <3>2. Body(sym, data) = SubSeq(data, 1, n)
      BY <1>6 DEF Body
    <3>3. Goal
      <4> HIDE DEF Goal
      <4>. QED BY <1>4, <1>6, <2>3, <3>1, <3>2
    <3>. QED BY <3>3
  <2>. QED BY <2>2, <2>3
<1>. QED BY <1>5, <1>6

\* A number that closes is taken as it stands.
LEMMA ClosedTaken ==
  ASSUME NEW sym \in Y!Numbered, NEW text, Closes(sym, text)
  PROVE  Taken(sym, text)
<1> DEFINE m == Y!Caps[sym].max
           n == m - 1
<1>1. n \in {7, 11, 12, 13} /\ m = n + 1 /\ (sym = "upce" => n = 7) /\ n \in Nat
  BY NumberedAre
<1>2. sym \in {"ean13", "ean8", "upca", "itf14", "upce"}
  BY NumberedAre
<1>3. /\ text \in Seq(Y!Digits) /\ Len(text) = n + 1 /\ text[n + 1] = Y!gs1CheckDigit(Body(sym, text))
      /\ sym = "upce" => text[1] \in {"0", "1"}
  BY <1>1 DEF Closes
<1>4. Y!requireDigits(text)
  <2>1. ASSUME NEW i \in 1 .. Len(text) PROVE text[i] \in Y!Digits
    BY <1>3, ElementOfSeq
  <2>2. DOMAIN text = 1 .. Len(text)
    BY <1>3
  <2>. QED BY <2>1, <2>2 DEF Y!requireDigits, Y!Range
<1>5. Y!Checked(text, n, Body(sym, text)) = Y!Accept(text)
  BY <1>1, <1>3 DEF Y!Checked
<1>6. Y!Payload(sym, text) = Y!Accept(text)
  <2>1. CASE sym = "upce"
    <3>1. Y!Payload(sym, text) = Y!upceNormalise(text) /\ Body(sym, text) = Y!upceExpand(SubSeq(text, 1, 7))
      BY <2>1 DEF Y!Payload, Body
    <3>2. n = 7 /\ Len(text) \in {7, 8} /\ text[1] \in {"0", "1"}
      BY <1>1, <1>3, <2>1
    <3>3. Y!upceNormalise(text) = Y!Checked(text, 7, Y!upceExpand(SubSeq(text, 1, 7)))
      BY <1>4, <3>2 DEF Y!upceNormalise
    <3>. QED BY <1>5, <3>1, <3>2, <3>3
  <2>2. CASE sym # "upce"
    <3>1. Y!Payload(sym, text) = Y!withCheckDigit(text, n) /\ Body(sym, text) = SubSeq(text, 1, n)
      BY <1>2, <2>2 DEF Y!Payload, Y!Numbered, Body
    <3>2. Y!withCheckDigit(text, n) = Y!Checked(text, n, SubSeq(text, 1, n))
      BY <1>3, <1>4 DEF Y!withCheckDigit
    <3>. QED BY <1>5, <3>1, <3>2
  <2>. QED BY <2>1, <2>2
<1>7. Y!Admit(sym, text, Plainly) = Y!Accept(text)
  BY <1>6, PlainlyTaken DEF Y!Admit
<1>. QED BY <1>7 DEF Taken

\* What an encoder of numbers answers.
Answers(sym, data, o, r) ==
  IF r.ok THEN Y!Options(sym, o) /\ Reads(sym, data, r)
  ELSE r = Y!Refuse("invalid") \/ (r = Y!Refuse("option") /\ ~Y!Options(sym, o))

LEMMA NumberEncoded ==
  ASSUME NEW sym \in Y!Numbered, NEW data \in Seq(Y!Utf8), NEW o
  PROVE  Answers(sym, data, o, Y!Admit(sym, data, o))
<1> DEFINE read == Y!Payload(sym, data)
           r == Y!Admit(sym, data, o)
<1>1. \/ read.ok = TRUE /\ Reads(sym, data, read)
      \/ read = Y!Refuse("invalid")
  BY NumberPayload
<1>2. /\ Y!Options(sym, o) => r = read
      /\ ~Y!Options(sym, o) => r = Y!Refuse("option")
  BY DEF Y!Admit
<1>3. Y!Refuse("invalid").ok = FALSE /\ Y!Refuse("option").ok = FALSE
  BY DEF Y!Refuse
<1> HIDE DEF read, r
<1>4. Answers(sym, data, o, r)
  BY <1>1, <1>2, <1>3 DEF Answers
<1>. QED BY <1>4 DEF r

\* One digit mistyped changes one digit of what the number stands for.
LEMMA BodyChanges ==
  ASSUME NEW sym \in Y!Numbered, NEW s \in Seq(Y!Digits), NEW t \in Seq(Y!Digits),
         Len(s) = Y!Caps[sym].max, Len(t) = Y!Caps[sym].max, NEW i \in 1 .. Y!Caps[sym].max - 1,
         ~(sym = "upce" /\ i = 7), t[i] # s[i], \A j \in 1 .. Len(s) : j = i \/ t[j] = s[j]
  PROVE  Y!gs1CheckDigit(Body(sym, t)) # Y!gs1CheckDigit(Body(sym, s))
<1> DEFINE n == Y!Caps[sym].max - 1
           a == Body(sym, s)
           b == Body(sym, t)
<1>1. n \in {7, 11, 12, 13} /\ (sym = "upce" => n = 7) /\ Len(s) = n + 1 /\ Len(t) = n + 1
  BY NumberedAre
<1>2. Len(s) >= n /\ Len(t) >= n
  BY <1>1
<1>3. /\ a \in Seq(Y!Digits) /\ b \in Seq(Y!Digits)
      /\ sym = "upce" => Len(a) = 11 /\ \A k \in 1 .. 11 : a[k] = Spelt(SubSeq(s, 1, 7), k)
      /\ sym = "upce" => Len(b) = 11 /\ \A k \in 1 .. 11 : b[k] = Spelt(SubSeq(t, 1, 7), k)
      /\ sym # "upce" => Len(a) = n /\ \A k \in 1 .. n : a[k] = s[k]
      /\ sym # "upce" => Len(b) = n /\ \A k \in 1 .. n : b[k] = t[k]
  BY <1>2, BodyIs
<1>4. CASE sym # "upce"
  <2>1. Len(a) = n /\ Len(b) = n /\ i \in 1 .. n
    BY <1>3, <1>4
  <2>2. b[i] # a[i] /\ \A j \in 1 .. Len(a) : j = i \/ b[j] = a[j]
    <3>1. \A j \in 1 .. n : j \in 1 .. Len(s) /\ a[j] = s[j] /\ b[j] = t[j]
      BY <1>1, <1>3, <1>4
    <3>. QED BY <2>1, <3>1
  <2>3. Len(b) = Len(a) /\ i \in 1 .. Len(a)
    BY <2>1
  <2> HIDE DEF a, b, n
  <2>. QED BY <1>3, <2>2, <2>3, MistypeShows DEF a, b
<1>5. CASE sym = "upce"
  <2> DEFINE p == SubSeq(s, 1, 7)
             q == SubSeq(t, 1, 7)
  <2>1. /\ p \in Seq(Y!Digits) /\ Len(p) = 7 /\ \A k \in 1 .. 7 : p[k] = s[k]
        /\ q \in Seq(Y!Digits) /\ Len(q) = 7 /\ \A k \in 1 .. 7 : q[k] = t[k]
    <3>1. 1 \in 1 .. Len(s) /\ 7 \in 1 .. Len(s) /\ 1 \in 1 .. Len(t) /\ 7 \in 1 .. Len(t)
      BY <1>1, <1>5
    <3>2. IsPart(p, s, 1, 7, Y!Digits) /\ IsPart(q, t, 1, 7, Y!Digits)
      BY <3>1, PartOf
    <3>3. (7 - 1) + 1 = 7 /\ \A k \in 1 .. 7 : (1 + k) - 1 = k
      OBVIOUS
    <3> HIDE DEF p, q
    <3>. QED BY <3>2, <3>3 DEF IsPart
  <2>2. /\ Len(a) = 11 /\ Len(b) = 11
        /\ \A k \in 1 .. 11 : a[k] = Spelt(p, k) /\ b[k] = Spelt(q, k)
    BY <1>3, <1>5
  <2> HIDE DEF p, q
  <2>3. i \in 1 .. 6 /\ q[i] # p[i] /\ \A j \in 1 .. 7 : j = i \/ q[j] = p[j]
    <3>1. i \in 1 .. 6
      BY <1>1, <1>5
    <3>2. \A j \in 1 .. 7 : j \in 1 .. Len(s)
      BY <1>1, <1>5
    <3>3. i \in 1 .. 7
      BY <3>1
    <3>. QED BY <2>1, <3>1, <3>2, <3>3
  <2>4. q[7] = p[7]
    BY <2>3
  <2> DEFINE Moves(k) == k \in 1 .. 11 /\ Spelt(p, k) = p[i] /\ Spelt(q, k) = q[i]
                         /\ \A j \in 1 .. 11 : j = k \/ Spelt(q, j) = Spelt(p, j)
  <2>5. \E k : Moves(k)
    <3>1. CASE p[7] \in {"0", "1", "2"}
      <4>1. CASE i <= 3
        <5>1. Moves(i)
          BY <2>3, <2>4, <3>1, <4>1 DEF Spelt
        <5>. QED BY <5>1
      <4>2. CASE ~(i <= 3)
        <5>1. Moves(i + 5)
          BY <2>3, <2>4, <3>1, <4>2 DEF Spelt
        <5>. QED BY <5>1
      <4>. QED BY <4>1, <4>2
    <3>2. CASE p[7] = "3"
      <4>1. CASE i <= 4
        <5>1. Moves(i)
          BY <2>3, <2>4, <3>2, <4>1, SMTT(30) DEF Spelt
        <5>. QED BY <5>1
      <4>2. CASE ~(i <= 4)
        <5>1. Moves(i + 5)
          BY <2>3, <2>4, <3>2, <4>2, SMTT(30) DEF Spelt
        <5>. QED BY <5>1
      <4>. QED BY <4>1, <4>2
    <3>3. CASE p[7] = "4"
      <4>1. CASE i <= 5
        <5>1. Moves(i)
          BY <2>3, <2>4, <3>3, <4>1 DEF Spelt
        <5>. QED BY <5>1
      <4>2. CASE ~(i <= 5)
        <5>1. Moves(i + 5)
          BY <2>3, <2>4, <3>3, <4>2 DEF Spelt
        <5>. QED BY <5>1
      <4>. QED BY <4>1, <4>2
    <3>4. CASE p[7] \notin {"0", "1", "2"} /\ p[7] # "3" /\ p[7] # "4"
      <4>1. Moves(i)
        BY <2>3, <2>4, <3>4 DEF Spelt
      <4>. QED BY <4>1
    <3>. QED BY <3>1, <3>2, <3>3, <3>4
  <2>6. PICK k : Moves(k)
    BY <2>5
  <2>7. k \in 1 .. Len(a) /\ b[k] # a[k] /\ \A j \in 1 .. Len(a) : j = k \/ b[j] = a[j]
    BY <2>2, <2>3, <2>6, SMTT(30)
  <2> HIDE DEF a, b
  <2>8. Len(b) = Len(a)
    BY <2>2
  <2>. QED BY <1>3, <2>7, <2>8, MistypeShows DEF a, b
<1>. QED BY <1>4, <1>5

\* A number with one digit mistyped is refused.
LEMMA MistypeCaught ==
  ASSUME NEW sym \in Y!Numbered, NEW text, Closes(sym, text), NEW i \in DOMAIN text,
         NEW d \in Y!Digits \ {text[i]}, ~(sym = "upce" /\ i = 7)
  PROVE  ~Y!Admit(sym, [text EXCEPT ![i] = d], Plainly).ok
<1> DEFINE m == Y!Caps[sym].max
           t == [text EXCEPT ![i] = d]
           r == Y!Admit(sym, t, Plainly)
<1>1. m \in {8, 12, 13, 14} /\ (sym = "upce" => m = 8)
  BY NumberedAre
<1>2. text \in Seq(Y!Digits) /\ Len(text) = m /\ text[m] = Y!gs1CheckDigit(Body(sym, text)) /\ i \in 1 .. m
  BY DEF Closes
<1>3. /\ t \in Seq(Y!Digits) /\ Len(t) = m /\ t[i] # text[i]
      /\ \A j \in 1 .. m : j = i \/ t[j] = text[j]
  BY <1>2
<1> HIDE DEF t
<1>4. SUFFICES ASSUME r.ok PROVE FALSE
  BY DEF t
<1>5. t \in Seq(Y!Utf8)
  <2>1. Y!Digits \subseteq Y!Utf8
    BY DEF Y!Utf8, Y!Ascii, Y!Code39Set
  <2>2. ASSUME NEW j \in 1 .. Len(t) PROVE t[j] \in Y!Utf8
    BY <1>3, <2>1, ElementOfSeq
  <2>. QED BY <1>3, <2>2
<1>6. Closes(sym, t)
  <2>1. Answers(sym, t, Plainly, r)
    BY <1>5, NumberEncoded
  <2> HIDE DEF r
  <2>2. Reads(sym, t, r)
    BY <1>4, <2>1 DEF Answers
  <2>. QED BY <1>3, <2>2 DEF Reads
<1>7. t[m] = Y!gs1CheckDigit(Body(sym, t))
  BY <1>6 DEF Closes
<1>8. CASE i = m
  <2>1. Body(sym, t) = Body(sym, text)
    <3> DEFINE n == IF sym = "upce" THEN 7 ELSE m - 1
               p == SubSeq(text, 1, n)
               q == SubSeq(t, 1, n)
    <3>1. n \in 1 .. m /\ n < m /\ 1 \in 1 .. m /\ n \in 1 .. Len(t) /\ n \in 1 .. Len(text) /\ n \in Nat
      BY <1>1, <1>2, <1>3
    <3>2. IsPart(p, text, 1, n, Y!Digits) /\ IsPart(q, t, 1, n, Y!Digits)
      BY <1>2, <1>3, <3>1, PartOf
    <3>3. \A k \in 1 .. (n - 1) + 1 : (1 + k) - 1 \in 1 .. m /\ (1 + k) - 1 # i
      BY <1>1, <1>8, <3>1
    <3>4. p = q
      <4> HIDE DEF p, q, n, m
      <4>1. p \in Seq(Y!Digits) /\ q \in Seq(Y!Digits) /\ Len(p) = Len(q) /\ Len(p) = (n - 1) + 1
        BY <3>2 DEF IsPart
      <4>2. \A k \in 1 .. Len(p) : p[k] = q[k]
        BY <1>3, <3>2, <3>3, <4>1 DEF IsPart
      <4>. QED BY <4>1, <4>2, SeqEqual
    <3>5. Body(sym, t) = (IF sym = "upce" THEN Y!upceExpand(q) ELSE q)
      BY DEF Body
    <3>6. Body(sym, text) = (IF sym = "upce" THEN Y!upceExpand(p) ELSE p)
      BY DEF Body
    <3> HIDE DEF p, q
    <3>. QED BY <3>4, <3>5, <3>6
  <2>. QED BY <1>2, <1>3, <1>7, <1>8, <2>1
<1>9. CASE i # m
  <2>1. i \in 1 .. m - 1
    BY <1>1, <1>2, <1>9
  <2>2. t[m] = text[m]
    <3>1. m \in 1 .. m /\ m # i
      BY <1>1, <1>9
    <3>. QED BY <1>3, <3>1
  <2>3. Y!gs1CheckDigit(Body(sym, t)) # Y!gs1CheckDigit(Body(sym, text))
    BY <1>2, <1>3, <2>1, BodyChanges
  <2>. QED BY <1>2, <1>7, <2>2, <2>3
<1>. QED BY <1>8, <1>9

\* All but the last of a sequence, and of one put after another.
LEMMA AllButLast ==
  ASSUME NEW S, NEW text \in Seq(S), NEW m \in Nat, m >= 2, Len(text) = m
  PROVE  LET s == SubSeq(text, 1, m - 1)
         IN  s \in Seq(S) /\ Len(s) = m - 1 /\ \A k \in 1 .. m - 1 : s[k] = text[k]
<1> DEFINE s == SubSeq(text, 1, m - 1)
<1>1. m - 1 \in 1 .. Len(text) /\ 1 \in 1 .. Len(text)
  OBVIOUS
<1>2. IsPart(s, text, 1, m - 1, S)
  BY <1>1, PartOf
<1>3. ((m - 1) - 1) + 1 = m - 1 /\ \A k \in 1 .. m - 1 : (1 + k) - 1 = k
  OBVIOUS
<1> HIDE DEF s
<1>4. s \in Seq(S) /\ Len(s) = m - 1 /\ \A k \in 1 .. m - 1 : s[k] = text[k]
  BY <1>2, <1>3 DEF IsPart
<1>. QED BY <1>4 DEF s

Fronted(t, w, front, text, m, S) ==
  /\ t \in Seq(S) /\ Len(t) = w /\ t[w] = text[m]
  /\ SubSeq(t, 1, w - 1) = front \o SubSeq(text, 1, m - 1)

LEMMA PaddedParts ==
  ASSUME NEW S, NEW text \in Seq(S), NEW m \in Nat, m >= 2, Len(text) = m,
         NEW z \in Nat, NEW front \in Seq(S), Len(front) = z, NEW w \in Nat, w = z + m
  PROVE  Fronted(front \o text, w, front, text, m, S)
<1> DEFINE t == front \o text
           s == SubSeq(text, 1, m - 1)
           p == SubSeq(t, 1, w - 1)
           q == front \o s
<1>1. s \in Seq(S) /\ Len(s) = m - 1 /\ \A k \in 1 .. m - 1 : s[k] = text[k]
  BY AllButLast
<1>2. /\ t \in Seq(S) /\ Len(t) = Len(front) + Len(text)
      /\ \A k \in 1 .. Len(front) + Len(text) : t[k] = IF k <= Len(front) THEN front[k] ELSE text[k - Len(front)]
  BY ConcatProperties
<1> HIDE DEF s, t
<1>3. /\ q \in Seq(S) /\ Len(q) = Len(front) + Len(s)
      /\ \A k \in 1 .. Len(front) + Len(s) : q[k] = IF k <= Len(front) THEN front[k] ELSE s[k - Len(front)]
  BY <1>1, ConcatProperties
<1> HIDE DEF q
<1>4. Len(t) = w /\ w >= 2
  BY <1>2
<1>5. p \in Seq(S) /\ Len(p) = w - 1 /\ \A k \in 1 .. w - 1 : p[k] = t[k]
  BY <1>2, <1>4, AllButLast
<1> HIDE DEF p
<1>6. Len(p) = Len(q)
  BY <1>1, <1>3, <1>5
<1>7. ASSUME NEW k \in 1 .. Len(p) PROVE p[k] = q[k]
  <2>1. k \in 1 .. w - 1 /\ k \in 1 .. z + (m - 1) /\ k \in 1 .. z + m /\ (~(k <= z) => k - z \in 1 .. m - 1)
    BY <1>5
  <2>2. p[k] = IF k <= z THEN front[k] ELSE text[k - z]
    BY <1>2, <1>5, <2>1
  <2>3. q[k] = IF k <= z THEN front[k] ELSE s[k - z]
    BY <1>1, <1>3, <2>1
  <2>. QED BY <1>1, <2>1, <2>2, <2>3
<1>8. p = q
  BY <1>3, <1>5, <1>6, <1>7, SeqEqual
<1>9. t[w] = text[m]
  <2>1. w \in 1 .. z + m /\ ~(w <= z) /\ w - z = m
    OBVIOUS
  <2>. QED BY <1>2, <2>1
<1>10. Fronted(t, w, front, text, m, S)
  BY <1>2, <1>4, <1>8, <1>9 DEF s, p, q, Fronted
<1>. QED BY <1>10 DEF t

\* A number, padded with zeroes, closes as a longer one.
LEMMA PaddedCloses ==
  ASSUME NEW sym \in Y!Numbered \ {"upce"}, NEW wide \in Y!Numbered \ {"upce"}, NEW text,
         Closes(sym, text), Y!Caps[sym].max <= Y!Caps[wide].max
  PROVE  Closes(wide, Y!Zeroes(Y!Caps[wide].max - Len(text)) \o text)
<1> DEFINE m == Y!Caps[sym].max
           w == Y!Caps[wide].max
           z == w - m
           s == SubSeq(text, 1, m - 1)
           front == Y!Zeroes(z)
           t == front \o text
<1>1. m \in {8, 12, 13, 14} /\ w \in {8, 12, 13, 14} /\ z \in Nat
  BY NumberedAre
<1>2. text \in Seq(Y!Digits) /\ Len(text) = m /\ text[m] = Y!gs1CheckDigit(s)
  BY DEF Closes, Body
<1>3. m \in Nat /\ m >= 2 /\ w \in Nat /\ w = z + m
  BY <1>1
<1>4. front \in Seq(Y!Digits) /\ Len(front) = z
  <2>1. "0" \in Y!Digits
    BY DigitValues
  <2>. QED BY <1>1, <2>1 DEF Y!Zeroes
<1>5. Body(wide, t) = SubSeq(t, 1, w - 1)
  BY DEF Body
<1>6. Closes(wide, t) <=> /\ t \in Seq(Y!Digits) /\ Len(t) = w
                          /\ t[w] = Y!gs1CheckDigit(Body(wide, t))
  BY DEF Closes
<1>7. t = Y!Zeroes(Y!Caps[wide].max - Len(text)) \o text
  BY <1>2
<1>8. s \in Seq(Y!Digits) /\ Y!gs1CheckDigit(front \o s) = Y!gs1CheckDigit(s)
  <2>1. s \in Seq(Y!Digits)
    <3> HIDE DEF m, w, z
    <3>. QED BY <1>2, <1>3, AllButLast
  <2> HIDE DEF s
  <2>. QED BY <1>1, <2>1, PaddedSame
<1> HIDE DEF front, m, w, z
<1>9. t \in Seq(Y!Digits) /\ Len(t) = w /\ t[w] = text[m] /\ SubSeq(t, 1, w - 1) = front \o s
  <2>1. Fronted(t, w, front, text, m, Y!Digits)
    BY <1>1, <1>2, <1>3, <1>4, PaddedParts
  <2> HIDE DEF t
  <2>. QED BY <2>1 DEF Fronted
<1> HIDE DEF t
<1>10. Closes(wide, t)
  BY <1>2, <1>5, <1>6, <1>8, <1>9
<1>. QED BY <1>7, <1>10

\* A sequence with one more.
Longer(t, e, c, S) == /\ t \in Seq(S) /\ Len(t) = Len(e) + 1 /\ t[Len(e) + 1] = c
                      /\ \A k \in 1 .. Len(e) : t[k] = e[k]

LEMMA OneAppended ==
  ASSUME NEW S, NEW e \in Seq(S), NEW c \in S
  PROVE  Longer(Append(e, c), e, c, S)
BY AppendProperties DEF Longer

\* A UPC-E, expanded, closes as the UPC-A it stands for.
LEMMA ExpandedCloses ==
  ASSUME NEW text, Closes("upce", text)
  PROVE  Closes("upca", Append(Y!upceExpand(SubSeq(text, 1, 7)), text[8]))
<1> DEFINE e == Y!upceExpand(SubSeq(text, 1, 7))
           c == text[8]
           t == Append(e, c)
           p == SubSeq(t, 1, 11)
<1>0. Y!Caps["upce"].max = 8 /\ Y!Caps["upca"].max = 12 /\ "upce" \in Y!Numbered /\ 12 - 1 = 11
  BY NumberedAre
<1>1. text \in Seq(Y!Digits) /\ Len(text) = 8 /\ c = Y!gs1CheckDigit(e)
  BY <1>0 DEF Closes, Body
<1>2. e \in Seq(Y!Digits) /\ Len(e) = 11 /\ c \in Y!Digits
  <2>1. Len(text) >= Y!Caps["upce"].max - 1
    BY <1>0, <1>1
  <2>2. Body("upce", text) = e
    BY DEF Body
  <2> HIDE DEF e, c
  <2>. QED BY <1>0, <1>1, <2>1, <2>2, BodyIs
<1> HIDE DEF e, c
<1>3. t \in Seq(Y!Digits) /\ Len(t) = 12 /\ t[12] = c /\ \A k \in 1 .. 11 : t[k] = e[k]
  <2>1. Longer(t, e, c, Y!Digits)
    BY <1>2, OneAppended
  <2> HIDE DEF t
  <2>2. t \in Seq(Y!Digits) /\ Len(t) = Len(e) + 1 /\ t[Len(e) + 1] = c /\ \A k \in 1 .. Len(e) : t[k] = e[k]
    BY <2>1 DEF Longer
  <2>3. Len(e) = 11 /\ Len(e) + 1 = 12
    BY <1>2
  <2>. QED BY <2>2, <2>3
<1> HIDE DEF t
<1>4. p = e
  <2>1. 1 \in 1 .. Len(t) /\ 11 \in 1 .. Len(t) /\ (11 - 1) + 1 = 11 /\ \A k \in 1 .. 11 : (1 + k) - 1 = k
    BY <1>3
  <2>2. IsPart(p, t, 1, 11, Y!Digits)
    BY <1>3, <2>1, PartOf
  <2> HIDE DEF p
  <2>3. p \in Seq(Y!Digits) /\ Len(p) = 11 /\ \A k \in 1 .. 11 : p[k] = t[k]
    BY <2>1, <2>2 DEF IsPart
  <2>4. Len(p) = Len(e) /\ \A k \in 1 .. Len(p) : p[k] = e[k]
    BY <1>2, <1>3, <2>3
  <2>. QED BY <1>2, <2>3, <2>4, SeqEqual
<1>5. Body("upca", t) = p
  BY <1>0 DEF Body
<1>6. Closes("upca", t)
  BY <1>0, <1>1, <1>3, <1>4, <1>5 DEF Closes
<1>. QED BY <1>6 DEF t, e, c

-----------------------------------------------------------------------------
(* The libraries.                                                          *)

\* A library that weighs the digits from the left expects the check digit that is reckoned
\* from the right.
LEMMA EanClosing ==
  ASSUME NEW t \in Seq(Y!Digits), NEW sym \in {"ean13", "ean8"}, Closes(sym, t)
  PROVE  Y!EanCloses(t)
<1> DEFINE n == Len(t) - 1
           p == SubSeq(t, 1, n)
           v == [i \in 1 .. n |-> (i % 2 = 0) = (n = 12)]
<1>1. n \in {7, 12} /\ n \in Nat /\ Y!Caps[sym].max = n + 1 /\ Len(t) = n + 1 /\ sym \in Y!Numbered
      /\ sym # "upce"
  BY NumberedAre DEF Closes
<1>2. t[n + 1] = Y!gs1CheckDigit(p)
  BY <1>1 DEF Closes, Body
<1>3. p \in Seq(Y!Digits) /\ Len(p) = n
  <2>1. 1 \in 1 .. Len(t) /\ n \in 1 .. Len(t) /\ (n - 1) + 1 = n
    BY <1>1
  <2>2. IsPart(p, t, 1, n, Y!Digits)
    BY <2>1, PartOf
  <2> HIDE DEF p, n
  <2>. QED BY <2>1, <2>2 DEF IsPart
<1> HIDE DEF p
<1>4. ASSUME NEW i \in 1 .. n PROVE (IF v[i] THEN 3 ELSE 1) = (IF Threes(n)[i] THEN 3 ELSE 1)
  <2>1. v[i] <=> ((i % 2 = 0) <=> (n = 12))
    OBVIOUS
  <2>2. Threes(n)[i] <=> ((n - i) % 2 = 0)
    BY DEF Threes
  <2>3. ((i % 2 = 0) <=> (n = 12)) <=> ((n - i) % 2 = 0)
    <3> DEFINE l == n
    <3>1. l \in {7, 12} /\ i \in Nat
      BY <1>1
    <3> HIDE DEF l
    <3>2. ((i % 2 = 0) <=> (l = 12)) <=> ((l - i) % 2 = 0)
      <4>1. CASE l = 7
        <5>1. (i % 2 = 0) <=> ~((7 - i) % 2 = 0)
          BY <3>1
        <5>. QED BY <4>1, <5>1
      <4>2. CASE l = 12
        <5>1. (i % 2 = 0) <=> ((12 - i) % 2 = 0)
          BY <3>1
        <5>. QED BY <4>2, <5>1
      <4>. QED BY <3>1, <4>1, <4>2
    <3>. QED BY <3>2 DEF l
  <2>. QED BY <2>1, <2>2, <2>3
<1>5. Terms(p, v) = Terms(p, Threes(n))
  <2> DEFINE a == Terms(p, v)
             b == Terms(p, Threes(n))
  <2>1. a \in [1 .. n -> Nat] /\ b \in [1 .. n -> Nat]
    BY <1>3, TermsAre
  <2>2. \A i \in 1 .. n : a[i] = b[i]
    <3>1. \A i \in 1 .. n : /\ a[i] = Y!ValueOf[p[i]] * (IF v[i] THEN 3 ELSE 1)
                            /\ b[i] = Y!ValueOf[p[i]] * (IF Threes(n)[i] THEN 3 ELSE 1)
      <4> HIDE DEF v, n
      <4>. QED BY <1>3, TermsAre
    <3> HIDE DEF a, b, v
    <3>. QED BY <1>4, <3>1
  <2> HIDE DEF a, b
  <2>3. a = b
    BY <2>1, <2>2
  <2>. QED BY <2>3 DEF a, b
<1>6. Y!Weighted(p, v) = Summed(p)
  <2> DEFINE a == Y!Weighted(p, v)
             b == Summed(p)
             u == Terms(p, v)
  <2>1. u \in [1 .. n -> Nat] /\ AddsUp(a, u, n) /\ AddsUp(b, u, n)
    BY <1>3, <1>5, TermsAre, WeightedAddsUp, CheckDigitIs
  <2> HIDE DEF a, b, u, n
  <2>2. a = b
    BY <1>1, <2>1, OneSum
  <2>. QED BY <2>2 DEF a, b
<1>7. t[n + 1] = Y!Closing(Y!Weighted(p, v))
  BY <1>2, <1>3, <1>6, CheckDigitIs
<1>. QED BY <1>7 DEF Y!EanCloses, p

LEMMA NumbersDrawn ==
  ASSUME NEW sym \in Y!Numbered, NEW text, Closes(sym, text)
  PROVE  Y!LibraryTakes(sym, text)
<1>1. /\ Y!Caps["ean13"].max = 13 /\ Y!Caps["ean8"].max = 8 /\ Y!Caps["upca"].max = 12
      /\ Y!Caps["itf14"].max = 14 /\ Y!Caps["upce"].max = 8
      /\ sym \in {"ean13", "ean8", "upca", "itf14", "upce"}
      /\ Y!Numbered = {"ean13", "ean8", "upca", "itf14", "upce"}
  BY NumberedAre
<1>2. text \in Seq(Y!Digits) /\ Len(text) = Y!Caps[sym].max
  BY DEF Closes
<1>3. Y!Zeroes(1) = <<"0">>
  BY DEF Y!Zeroes
<1>4. ASSUME NEW t, Closes("upca", t) PROVE Y!EanCloses(<<"0">> \o t)
  <2>1. Len(t) = 12 /\ 13 - 12 = 1
    BY <1>1, <1>4 DEF Closes
  <2>2. Closes("ean13", Y!Zeroes(Y!Caps["ean13"].max - Len(t)) \o t)
    BY <1>1, <1>4, PaddedCloses
  <2>3. Closes("ean13", <<"0">> \o t)
    BY <1>1, <1>3, <2>1, <2>2
  <2>4. <<"0">> \o t \in Seq(Y!Digits)
    BY <2>3 DEF Closes
  <2>. QED BY <2>3, <2>4, EanClosing
<1>5. CASE sym \in {"ean13", "ean8"}
  BY <1>1, <1>2, <1>5, EanClosing DEF Y!LibraryTakes
<1>6. CASE sym = "upca"
  BY <1>1, <1>2, <1>4, <1>6 DEF Y!LibraryTakes
<1>7. CASE sym = "upce"
  <2> DEFINE e == Y!upceExpand(SubSeq(text, 1, 7))
             c == text[8]
  <2>1. Closes("upca", Append(e, c))
    BY <1>7, ExpandedCloses
  <2>2. Y!EanCloses(<<"0">> \o Append(e, c))
    BY <1>4, <2>1
  <2>3. <<"0">> \o Append(e, c) = <<"0">> \o e \o <<c>>
    <3>1. c \in Y!Digits /\ e \in Seq(Y!Digits) /\ "0" \in Y!Digits
      <4>1. Body(sym, text) = e /\ Len(text) >= Y!Caps[sym].max - 1 /\ 8 \in 1 .. Len(text)
        BY <1>1, <1>2, <1>7 DEF Body
      <4> HIDE DEF e
      <4>. QED BY <1>2, <4>1, BodyIs, DigitValues, ElementOfSeq
    <3> HIDE DEF e, c
    <3>2. Append(e, c) = e \o <<c>>
      BY <3>1
    <3>3. <<"0">> \in Seq(Y!Digits) /\ <<c>> \in Seq(Y!Digits)
      BY <3>1
    <3>4. (<<"0">> \o e) \o <<c>> = <<"0">> \o (e \o <<c>>)
      BY <3>1, <3>3, ConcatAssociative
    <3>. QED BY <3>2, <3>4
  <2> HIDE DEF e, c
  <2>4. Y!EanCloses(<<"0">> \o e \o <<c>>)
    BY <2>2, <2>3
  <2>. QED BY <1>1, <1>2, <1>7, <2>4 DEF Y!LibraryTakes, e, c
<1>8. CASE sym = "itf14"
  <2>1. ASSUME NEW i \in 1 .. Len(text) PROVE text[i] \in Y!Digits
    BY <1>2, ElementOfSeq
  <2>2. Y!requireDigits(text) /\ Len(text) % 2 = 0
    BY <1>1, <1>2, <1>8, <2>1 DEF Y!requireDigits, Y!Range
  <2>. QED BY <1>8, <2>2 DEF Y!LibraryTakes
<1>. QED BY <1>1, <1>5, <1>6, <1>7, <1>8

-----------------------------------------------------------------------------
(* The other symbologies.                                                  *)

Others == DOMAIN Y!Caps \ Y!Numbered

LEMMA OthersAre ==
  /\ Others = {"itf", "twooffive", "codabar", "code39", "code93", "code128", "qr", "aztec", "datamatrix", "pdf417"}
  /\ \A sym \in Others : Y!Caps[sym].lengths = {} /\ Y!Caps[sym].max \in Nat
  /\ Y!Caps["itf"].alphabet = Y!Digits
  /\ Y!Caps["codabar"].alphabet = Y!Digits \cup {"-", "$", ":", "/", ".", "+", "A", "B", "C", "D"}
  /\ Y!Caps["code39"].alphabet = Y!Code39Set /\ Y!Caps["code93"].alphabet = Y!Code39Set
  /\ Y!Caps["code128"].alphabet = Y!Ascii /\ Y!Caps["code128"].max = 80
<1>1. Others = {"itf", "twooffive", "codabar", "code39", "code93", "code128", "qr", "aztec", "datamatrix", "pdf417"}
  BY NumberedAre DEF Others, Y!Caps
<1>2. /\ Y!Caps["itf"] = Y!Linear(128, Y!Digits) /\ Y!Caps["twooffive"] = Y!Linear(128, Y!Digits)
      /\ Y!Caps["codabar"] = Y!Linear(128, Y!Digits \cup {"-", "$", ":", "/", ".", "+", "A", "B", "C", "D"})
      /\ Y!Caps["code39"] = Y!Linear(128, Y!Code39Set) /\ Y!Caps["code93"] = Y!Linear(128, Y!Code39Set)
      /\ Y!Caps["code128"] = Y!Linear(80, Y!Ascii)
      /\ Y!Caps["qr"] = Y!Grid(2953, Y!Four) /\ Y!Caps["aztec"] = Y!Grid(1914, Y!Four)
      /\ Y!Caps["datamatrix"] = Y!Grid(1556, {})
      /\ Y!Caps["pdf417"] = Y!Grid(1108, {Y!DigitOf[i] : i \in 1 .. 9})
  BY DEF Y!Caps
<1>3. \A max, alphabet : /\ Y!Linear(max, alphabet).lengths = {} /\ Y!Linear(max, alphabet).max = max
                         /\ Y!Linear(max, alphabet).alphabet = alphabet
  BY DEF Y!Linear
<1>4. \A max, levels : Y!Grid(max, levels).lengths = {} /\ Y!Grid(max, levels).max = max
  BY DEF Y!Grid
<1>5. ASSUME NEW sym \in Others PROVE Y!Caps[sym].lengths = {} /\ Y!Caps[sym].max \in Nat
  <2>1. \/ \E max \in {128, 80} : \E alphabet : Y!Caps[sym] = Y!Linear(max, alphabet)
        \/ \E max \in {2953, 1914, 1556, 1108} : \E levels : Y!Caps[sym] = Y!Grid(max, levels)
    BY <1>1, <1>2
  <2>2. 128 \in Nat /\ 80 \in Nat /\ 2953 \in Nat /\ 1914 \in Nat /\ 1556 \in Nat /\ 1108 \in Nat
    OBVIOUS
  <2>. QED BY <1>3, <1>4, <2>1, <2>2
<1>. QED BY <1>1, <1>2, <1>3, <1>5

\* A payload that is not empty has a size.
LEMMA SizeOf ==
  ASSUME NEW sym, NEW data \in Seq(Y!Utf8)
  PROVE  Y!Size(sym, data) \in Nat /\ (data # <<>> => Y!Size(sym, data) >= 1)
<1> DEFINE E == {i \in DOMAIN data : data[i] = "e-acute"}
<1>1. IsFiniteSet(E)
  <2>1. E \subseteq 1 .. Len(data) /\ IsFiniteSet(1 .. Len(data))
    BY FS_Interval
  <2>. QED BY <2>1, FS_Subset
<1>2. Cardinality(E) \in Nat
  BY <1>1, FS_CardinalityType
<1>3. Y!Bytes(data) = Len(data) + Cardinality(E)
  <2>1. \A T : Y!Cardinality(T) = Cardinality(T)
    BY Zenon DEF Y!Cardinality, Cardinality
  <2>. QED BY <2>1 DEF Y!Bytes
<1>4. Len(data) \in Nat /\ (data # <<>> => Len(data) >= 1)
  OBVIOUS
<1> HIDE DEF E
<1>. QED BY <1>2, <1>3, <1>4 DEF Y!Size

\* What an encoder of other payloads takes: what it was given, of its length and alphabet.
Admits(sym, data) ==
  /\ Y!requireLength(sym, data) /\ Y!Range(data) \subseteq Y!Caps[sym].alphabet
  /\ sym = "itf" => Len(data) % 2 = 0
  /\ sym = "codabar" => Y!codabarStructure(data)

LEMMA OtherEncoded ==
  ASSUME NEW sym \in Others, NEW data, NEW o
  PROVE  LET r == Y!Admit(sym, data, o)
         IN  \/ r = Y!Accept(data) /\ Admits(sym, data) /\ Y!Options(sym, o)
             \/ r = Y!Refuse("invalid")
             \/ r = Y!Refuse("option") /\ ~Y!Options(sym, o)
             \/ r = Y!Refuse("too_long") /\ data # <<>> /\ ~Y!requireLength(sym, data)
<1>1. sym \notin Y!Numbered /\ sym # "upce"
  BY NumberedAre DEF Others
<1> DEFINE read == Y!Payload(sym, data)
           r == Y!Admit(sym, data, o)
<1>2. /\ ~Y!requireLength(sym, data) => read = Y!Refuse(IF data = <<>> THEN "invalid" ELSE "too_long")
      /\ Y!requireLength(sym, data) =>
           read = IF Admits(sym, data) THEN Y!Accept(data) ELSE Y!Refuse("invalid")
  BY <1>1, Zenon DEF Y!Payload, Admits
<1>3. r = IF ~Y!Options(sym, o) /\ read.ok THEN Y!Refuse("option") ELSE read
  BY <1>1 DEF Y!Admit
<1>4. Admits(sym, data) => Y!requireLength(sym, data)
  BY DEF Admits
<1>5. (\A why : ~Y!Refuse(why).ok) /\ Y!Accept(data).ok
  BY DEF Y!Refuse, Y!Accept
<1> HIDE DEF read, r
<1>6. \/ r = Y!Accept(data) /\ Admits(sym, data) /\ Y!Options(sym, o)
      \/ r = Y!Refuse("invalid")
      \/ r = Y!Refuse("option") /\ ~Y!Options(sym, o)
      \/ r = Y!Refuse("too_long") /\ data # <<>> /\ ~Y!requireLength(sym, data)
  BY <1>2, <1>3, <1>4, <1>5
<1>. QED BY <1>6 DEF r

\* The capabilities of a symbology are those of its encoder.
Fits(sym, data) == /\ Y!Size(sym, data) \in 1 .. Y!Caps[sym].max
                   /\ Y!Caps[sym].lengths # {} => Len(data) \in Y!Caps[sym].lengths
Honest(sym, data, o, r) ==
  IF r.ok THEN Fits(sym, data) /\ Y!Options(sym, o) /\ Y!Range(data) \subseteq Y!Caps[sym].alphabet
  ELSE /\ r.why = "too_long" =>
              ~Fits(sym, data) \/ (sym \in Y!Grids /\ Y!Size(sym, data) > Y!SurelyHeld)
       /\ r.why = "option" => ~Y!Options(sym, o)

LEMMA CapsAreHonest ==
  ASSUME NEW sym \in DOMAIN Y!Caps, NEW data \in Seq(Y!Utf8), NEW o
  PROVE  Honest(sym, data, o, Y!Admit(sym, data, o))
<1> DEFINE r == Y!Admit(sym, data, o)
           size == Y!Size(sym, data)
           max == Y!Caps[sym].max
<1>0. \A why : Y!Refuse(why).ok = FALSE /\ Y!Refuse(why).why = why
  BY DEF Y!Refuse
<1>1. CASE sym \in Y!Numbered
  <2>1. Answers(sym, data, o, r)
    BY <1>1, NumberEncoded
  <2>2. /\ size = Len(data) /\ max \in Nat /\ max >= 2 /\ Y!Caps[sym].lengths = {max - 1, max}
        /\ Y!Caps[sym].alphabet = Y!Digits
    BY <1>1, NumberedAre DEF Y!Size
  <2> HIDE DEF r
  <2>3. CASE r.ok
    <3>1. Y!Options(sym, o) /\ Y!requireDigits(data) /\ Len(data) \in {max - 1, max}
      BY <2>1, <2>3 DEF Answers, Reads
    <3>2. size \in 1 .. max /\ Len(data) \in Y!Caps[sym].lengths
      <4> HIDE DEF size, max
      <4>. QED BY <2>2, <3>1
    <3>. QED BY <2>2, <2>3, <3>1, <3>2 DEF Honest, Fits, Y!requireDigits, r
  <2>4. CASE ~r.ok
    <3>1. r = Y!Refuse("invalid") \/ (r = Y!Refuse("option") /\ ~Y!Options(sym, o))
      BY <2>1, <2>4 DEF Answers
    <3>. QED BY <1>0, <2>4, <3>1 DEF Honest, r
  <2>. QED BY <2>3, <2>4
<1>2. CASE sym \notin Y!Numbered
  <2>1. sym \in Others
    BY <1>2 DEF Others
  <2>2. \/ r = Y!Accept(data) /\ Admits(sym, data) /\ Y!Options(sym, o)
        \/ r = Y!Refuse("invalid")
        \/ r = Y!Refuse("option") /\ ~Y!Options(sym, o)
        \/ r = Y!Refuse("too_long") /\ data # <<>> /\ ~Y!requireLength(sym, data)
    BY <2>1, OtherEncoded
  <2>3. Y!Caps[sym].lengths = {} /\ max \in Nat /\ size \in Nat /\ (data # <<>> => size >= 1)
    BY <2>1, OthersAre, SizeOf
  <2>4. Y!requireLength(sym, data) <=> data # <<>> /\ size <= max
    BY DEF Y!requireLength
  <2>5. Y!Accept(data).ok = TRUE
    BY DEF Y!Accept
  <2>6. data # <<>> => (Fits(sym, data) <=> Y!requireLength(sym, data))
    <3>1. Fits(sym, data) <=> size \in 1 .. max
      BY <2>3 DEF Fits
    <3> HIDE DEF size, max
    <3>. QED BY <2>3, <2>4, <3>1
  <2>7. Admits(sym, data) => Fits(sym, data) /\ Y!Range(data) \subseteq Y!Caps[sym].alphabet
    BY <2>4, <2>6 DEF Admits
  <2> HIDE DEF r
  <2>8. Honest(sym, data, o, r)
    BY <1>0, <2>2, <2>5, <2>6, <2>7 DEF Honest
  <2>. QED BY <2>8 DEF r
<1>. QED BY <1>1, <1>2

\* A library draws what the other encoders take.
LEMMA OthersDrawn ==
  ASSUME NEW sym \in Others, NEW data \in Seq(Y!Utf8), Admits(sym, data)
  PROVE  Y!LibraryTakes(sym, data)
<1>0. Y!Range(data) \subseteq Y!Caps[sym].alphabet
  BY DEF Admits
<1>1. CASE sym = "itf"
  BY <1>1, OthersAre DEF Admits, Y!LibraryTakes, Y!requireDigits
<1>2. CASE sym \in {"code39", "code93"}
  <2>1. "*" \notin Y!Code39Set
    BY DigitValues DEF Y!Code39Set, Y!Letters
  <2>. QED BY <1>0, <1>2, <2>1, OthersAre DEF Y!LibraryTakes
<1>3. CASE sym = "code128"
  <2>1. "e-acute" \notin Y!Ascii
    BY DigitValues DEF Y!Ascii, Y!Code39Set, Y!Letters
  <2>2. sym \notin Y!Grids
    BY <1>3 DEF Y!Grids
  <2>3. Len(data) <= 80
    BY <1>3, <2>2, OthersAre DEF Admits, Y!requireLength, Y!Size
  <2>. QED BY <1>0, <1>3, <2>1, <2>3, OthersAre DEF Y!LibraryTakes
<1>4. CASE sym = "codabar"
  <2> DEFINE n == Len(data)
             t == SubSeq(data, 2, n - 1)
  <2>1. n >= 3 /\ (\A i \in 1 .. n : data[i] \in {"A", "B", "C", "D"} <=> i \in {1, n}) /\ n \in Nat
    BY <1>4 DEF Admits, Y!codabarStructure, Y!StartStop
  <2>2. data[1] \in {"A", "B", "C", "D"} /\ data[n] \in {"A", "B", "C", "D"}
    <3>1. 1 \in 1 .. n /\ n \in 1 .. n
      BY <2>1
    <3>. QED BY <2>1, <3>1
  <2>3. ASSUME NEW k \in 1 .. (n - 1 - 2) + 1 PROVE t[k] \notin Y!Letters
    <3>1. 2 \in 1 .. Len(data) /\ n - 1 \in 1 .. Len(data)
      BY <2>1
    <3> DEFINE l == n - 1
    <3>2. l \in 2 .. Len(data) /\ t = SubSeq(data, 2, l)
      BY <2>1, <3>1
    <3>3. k \in 1 .. (l - 2) + 1
      OBVIOUS
    <3> HIDE DEF l, t
    <3>4. IsPart(t, data, 2, l, Y!Utf8)
      BY <3>1, <3>2, PartOf
    <3>5. t[k] = data[(2 + k) - 1]
      BY <3>3, <3>4 DEF IsPart
    <3> DEFINE i == (2 + k) - 1
    <3>6. i \in 1 .. n /\ i # 1 /\ i # n
      BY <2>1 DEF l
    <3> HIDE DEF i, n
    <3>7. data[i] \notin {"A", "B", "C", "D"} /\ data[i] \in Y!Range(data)
      <4>1. DOMAIN data = 1 .. n
        BY DEF n
      <4>. QED BY <2>1, <3>6, <4>1 DEF Y!Range
    <3>8. "E" \notin Y!Caps["codabar"].alphabet
      BY OthersAre, DigitValues
    <3>9. data[i] # "E"
      BY <1>0, <1>4, <3>7, <3>8
    <3>. QED BY <3>5, <3>7, <3>9 DEF Y!Letters, i
  <2>4. Y!Range(t) \cap Y!Letters = {}
    <3>1. 2 \in 1 .. Len(data) /\ n - 1 \in 1 .. Len(data)
      BY <2>1
    <3> DEFINE l == n - 1
    <3>2. l \in 2 .. Len(data) /\ t = SubSeq(data, 2, l)
      BY <2>1, <3>1
    <3>3. \A k \in 1 .. (l - 2) + 1 : t[k] \notin Y!Letters
      BY <2>3
    <3> HIDE DEF l, t
    <3>4. IsPart(t, data, 2, l, Y!Utf8)
      BY <3>1, <3>2, PartOf
    <3>5. DOMAIN t = 1 .. (l - 2) + 1
      BY <3>4 DEF IsPart
    <3>. QED BY <3>3, <3>5 DEF Y!Range
  <2>. QED BY <1>4, <2>1, <2>2, <2>4 DEF Y!LibraryTakes
<1>5. CASE sym \in {"twooffive", "qr", "aztec", "datamatrix", "pdf417"}
  BY <1>5, Zenon DEF Y!LibraryTakes
<1>. QED BY <1>1, <1>2, <1>3, <1>4, <1>5, OthersAre

-----------------------------------------------------------------------------
(* A call on an encoder.                                                   *)

Encoding == call.op = "encode" =>
              \E q \in Barcodes : \E holds \in Y!Holding(q[1], q[2]) :
                                  /\ call.sym = q[1] /\ call.data = q[2] /\ call.o = q[3]
                                  /\ call.r = Y!Encode(q[1], q[2], q[3], holds)

\* What the library holds is what was admitted.
LEMMA HeldAsAdmitted ==
  ASSUME NEW sym, NEW data, NEW o, NEW holds, Y!Encode(sym, data, o, holds).ok
  PROVE  Y!Encode(sym, data, o, holds) = Y!Admit(sym, data, o)
<1> DEFINE read == Y!Admit(sym, data, o)
<1>1. ~Y!Refuse("too_long").ok
  BY DEF Y!Refuse
<1>2. Y!Encode(sym, data, o, holds) = IF read.ok /\ ~holds THEN Y!Refuse("too_long") ELSE read
  BY DEF Y!Encode
<1> HIDE DEF read
<1>3. Y!Encode(sym, data, o, holds) = read
  BY <1>1, <1>2
<1>. QED BY <1>3 DEF read

\* The library refuses only what may be too long for it.
LEMMA HeldIsHonest ==
  ASSUME NEW sym \in DOMAIN Y!Caps, NEW data \in Seq(Y!Utf8), NEW o,
         NEW holds \in Y!Holding(sym, data)
  PROVE  Honest(sym, data, o, Y!Encode(sym, data, o, holds))
<1> DEFINE read == Y!Admit(sym, data, o)
           size == Y!Size(sym, data)
<1>1. Honest(sym, data, o, read)
  BY CapsAreHonest
<1>2. Y!Encode(sym, data, o, holds) = IF read.ok /\ ~holds THEN Y!Refuse("too_long") ELSE read
  BY DEF Y!Encode
<1>3. ~holds => sym \in Y!Grids /\ size > Y!SurelyHeld
  BY DEF Y!Holding, Y!Size
<1>4. Y!Refuse("too_long").ok = FALSE /\ Y!Refuse("too_long").why = "too_long"
  BY DEF Y!Refuse
<1> HIDE DEF read
<1>5. ASSUME ~holds PROVE Honest(sym, data, o, Y!Refuse("too_long"))
  BY <1>3, <1>4, <1>5 DEF Honest
<1>. QED BY <1>1, <1>2, <1>5 DEF read

\* What is encoded as a number closes.
LEMMA EncodedCloses == Encoding /\ Encoded /\ call.sym \in Y!Numbered => Closes(call.sym, call.r.text)
<1> SUFFICES ASSUME Encoding, Encoded, call.sym \in Y!Numbered PROVE Closes(call.sym, call.r.text)
  OBVIOUS
<1>1. PICK q \in Barcodes : \E holds \in Y!Holding(q[1], q[2]) :
                            /\ call.sym = q[1] /\ call.data = q[2] /\ call.o = q[3]
                            /\ call.r = Y!Encode(q[1], q[2], q[3], holds)
  BY DEF Encoding, Encoded
<1> DEFINE sym == q[1]
           data == q[2]
           o == q[3]
<1>2. data \in Seq(Y!Utf8) /\ sym \in Y!Numbered
  BY <1>1, BarcodesAssumption
<1>3. call.sym = sym /\ call.r = Y!Admit(sym, data, o)
  <2>1. call.r.ok
    BY DEF Encoded
  <2>. QED BY <1>1, <2>1, HeldAsAdmitted
<1> HIDE DEF sym, data, o
<1>4. Answers(sym, data, o, call.r)
  BY <1>2, <1>3, NumberEncoded
<1>. QED BY <1>3, <1>4 DEF Answers, Encoded, Reads

LEMMA NumbersKept == Encoding => MistypeRefused /\ SameNumber
<1> SUFFICES ASSUME Encoding PROVE MistypeRefused /\ SameNumber
  OBVIOUS
<1>1. CASE ~(Encoded /\ call.sym \in Y!Numbered)
  BY <1>1 DEF MistypeRefused, SameNumber
<1>2. CASE Encoded /\ call.sym \in Y!Numbered
  <2> DEFINE sym == call.sym
             text == call.r.text
  <2>1. sym \in Y!Numbered /\ Closes(sym, text)
    BY <1>2, EncodedCloses
  <2> HIDE DEF sym, text
  <2>2. ASSUME NEW i \in DOMAIN text, NEW d \in Y!Digits \ {text[i]}
        PROVE  (sym = "upce" /\ i = 7) \/ ~Y!Admit(sym, [text EXCEPT ![i] = d], Plainly).ok
    BY <2>1, MistypeCaught
  <2>3. MistypeRefused
    BY <2>2, Zenon DEF MistypeRefused, sym, text
  <2>4. Taken(sym, text)
    BY <2>1, ClosedTaken
  <2>5. sym = "upce" => Taken("upca", Append(Y!upceExpand(SubSeq(text, 1, 7)), text[8]))
    <3> SUFFICES ASSUME sym = "upce" PROVE Taken("upca", Append(Y!upceExpand(SubSeq(text, 1, 7)), text[8]))
      OBVIOUS
    <3>1. Closes("upca", Append(Y!upceExpand(SubSeq(text, 1, 7)), text[8]))
      BY <2>1, ExpandedCloses
    <3>2. "upca" \in Y!Numbered
      BY NumberedAre
    <3>. QED BY <3>1, <3>2, ClosedTaken
  <2>6. ASSUME NEW wide \in Y!Numbered \ {"upce"}, sym # "upce", Y!Caps[sym].max <= Y!Caps[wide].max
        PROVE  Taken(wide, Y!Zeroes(Y!Caps[wide].max - Len(text)) \o text)
    <3>1. Closes(wide, Y!Zeroes(Y!Caps[wide].max - Len(text)) \o text)
      BY <2>1, <2>6, PaddedCloses
    <3>. QED BY <3>1, ClosedTaken
  <2>7. sym = "upca" => Taken("ean13", Y!Zeroes(Y!Caps["ean13"].max - Len(text)) \o text)
    BY <2>6, NumberedAre
  <2>8. sym \in {"ean8", "upca", "ean13"} => Taken("itf14", Y!Zeroes(Y!Caps["itf14"].max - Len(text)) \o text)
    BY <2>6, NumberedAre
  <2>9. SameNumber
    BY <2>4, <2>5, <2>7, <2>8, Zenon DEF SameNumber, sym, text
  <2>. QED BY <2>3, <2>9
<1>. QED BY <1>1, <1>2

LEMMA EncodersKeep == Encoding => LibraryAgrees /\ CapsHonest
<1> SUFFICES ASSUME Encoding PROVE LibraryAgrees /\ CapsHonest
  OBVIOUS
<1>1. CASE call.op # "encode"
  BY <1>1 DEF LibraryAgrees, CapsHonest, Encoded
<1>2. CASE call.op = "encode"
  <2>1. PICK q \in Barcodes : \E holds \in Y!Holding(q[1], q[2]) :
                              /\ call.sym = q[1] /\ call.data = q[2] /\ call.o = q[3]
                              /\ call.r = Y!Encode(q[1], q[2], q[3], holds)
    BY <1>2 DEF Encoding
  <2> DEFINE sym == call.sym
             data == call.data
             o == call.o
             r == call.r
  <2>2. /\ sym \in DOMAIN Y!Caps /\ data \in Seq(Y!Utf8)
        /\ \E holds \in Y!Holding(sym, data) : r = Y!Encode(sym, data, o, holds)
    BY <2>1, BarcodesAssumption
  <2> HIDE DEF sym, data, o, r
  <2>3. Honest(sym, data, o, r)
    BY <2>2, HeldIsHonest
  <2>6. r.ok => r = Y!Admit(sym, data, o)
    BY <2>2, HeldAsAdmitted
  <2>4. CapsHonest
    BY <2>3, Zenon DEF CapsHonest, Honest, Fits, Y!Options, sym, data, o, r
  <2>5. LibraryAgrees
    <3>1. CASE ~Encoded
      BY <3>1 DEF LibraryAgrees
    <3>2. CASE Encoded /\ sym \in Y!Numbered
      <4>1. Closes(sym, r.text)
        BY <3>2, EncodedCloses DEF sym, r
      <4>2. Y!LibraryTakes(sym, r.text)
        BY <3>2, <4>1, NumbersDrawn
      <4>. QED BY <4>2 DEF LibraryAgrees, sym, r
    <3>3. CASE Encoded /\ sym \notin Y!Numbered
      <4>1. sym \in Others
        BY <2>2, <3>3 DEF Others
      <4>2. r.ok = TRUE
        BY <3>3, <2>2, <2>6, <4>1, OtherEncoded, Zenon DEF Encoded, r, Y!Accept, Y!Refuse
      <4>3. \A why : Y!Refuse(why).ok = FALSE
        BY DEF Y!Refuse
      <4>4. r = Y!Accept(data) /\ Admits(sym, data)
        BY <2>6, <4>1, <4>2, <4>3, OtherEncoded
      <4>5. r.text = data
        BY <4>4 DEF Y!Accept
      <4>6. Y!LibraryTakes(sym, r.text)
        BY <2>2, <4>1, <4>4, <4>5, OthersDrawn
      <4>. QED BY <4>6 DEF LibraryAgrees, sym, r
    <3>. QED BY <3>1, <3>2, <3>3
  <2>. QED BY <2>4, <2>5
<1>. QED BY <1>1, <1>2

-----------------------------------------------------------------------------
(* The distance of two words.                                              *)

\* The pairs of equal letters.
Equals(a, b) == {q \in (1 .. Len(a)) \X (1 .. Len(b)) : a[q[1]] = b[q[2]]}

\* The row that is computed from prev is the one RowAfter tells.
RowOf(a, b, prev, j) ==
  CHOOSE curr : curr = [i \in 0 .. Len(a) |->
    IF i = 0 THEN j
    ELSE B!Fewest(B!Fewest(curr[i - 1], prev[i]) + 1, prev[i - 1] + (IF a[i] = b[j] THEN 0 ELSE 1))]

LEMMA RowIs ==
  ASSUME NEW S, NEW a \in Seq(S), NEW b \in Seq(S), NEW j \in 1 .. Len(b), NEW prev \in [0 .. Len(a) -> Nat]
  PROVE  RowAfter(RowOf(a, b, prev, j), prev, Equals(a, b), Len(a), j)
<1> DEFINE n == Len(a)
           E == Equals(a, b)
           F(curr) == [i \in 0 .. Len(a) |->
                        IF i = 0 THEN j
                        ELSE B!Fewest(B!Fewest(curr[i - 1], prev[i]) + 1,
                                      prev[i - 1] + (IF a[i] = b[j] THEN 0 ELSE 1))]
           Runs(curr) == curr = F(curr)
           out == CHOOSE curr : Runs(curr)
<1>0. n \in Nat /\ j \in Nat
  OBVIOUS
<1>1. ASSUME NEW curr, NEW i \in 1 .. n
      PROVE  F(curr)[i] = Cell(curr[i - 1], prev, E, i, j)
  <2>1. i \in 0 .. Len(a) /\ i # 0 /\ (<<i, j>> \in E <=> a[i] = b[j])
    BY DEF Equals
  <2> HIDE DEF E
  <2>2. F(curr)[i] = B!Fewest(B!Fewest(curr[i - 1], prev[i]) + 1,
                              prev[i - 1] + (IF a[i] = b[j] THEN 0 ELSE 1))
    BY <2>1
  <2>3. (IF a[i] = b[j] THEN 0 ELSE 1) = Stretch(E, i, j)
    BY <2>1 DEF Stretch
  <2>. QED BY <2>2, <2>3 DEF Cell, Smaller, B!Fewest
<1>2. \A curr : DOMAIN F(curr) = 0 .. n /\ F(curr)[0] = j
  OBVIOUS
<1>3. PICK r : RowAfter(r, prev, E, n, j)
  <2> HIDE DEF n, E
  <2>. QED BY <1>0, NextRow DEF n
<1>4. Runs(r)
  <2>1. DOMAIN r = 0 .. n /\ r[0] = j /\ (\A i \in 1 .. n : r[i] = Cell(r[i - 1], prev, E, i, j))
        /\ r \in [0 .. n -> Nat]
    BY <1>3 DEF RowAfter
  <2>2. ASSUME NEW i \in 0 .. n PROVE r[i] = F(r)[i]
    <3>1. i = 0 \/ i \in 1 .. n
      OBVIOUS
    <3> HIDE DEF F
    <3>. QED BY <1>1, <1>2, <2>1, <3>1
  <2>3. r = [i \in 0 .. n |-> r[i]] /\ F(r) = [i \in 0 .. n |-> F(r)[i]]
    BY <2>1
  <2> HIDE DEF F
  <2>. QED BY <2>2, <2>3
<1>5. out = F(out)
  <2> HIDE DEF Runs
  <2>1. Runs(out)
    BY <1>4
  <2>. QED BY <2>1 DEF Runs
<1> HIDE DEF out
<1>6. DOMAIN out = 0 .. n /\ out[0] = j /\ \A i \in 1 .. n : out[i] = Cell(out[i - 1], prev, E, i, j)
  <2> HIDE DEF F
  <2>. QED BY <1>1, <1>2, <1>5
<1>7. out = r
  <2> DEFINE Q == {i \in 0 .. n : out[i] = r[i]}
  <2>1. r \in [0 .. n -> Nat] /\ r[0] = j /\ \A i \in 1 .. n : r[i] = Cell(r[i - 1], prev, E, i, j)
    BY <1>3 DEF RowAfter
  <2>2. 0 \in Q
    BY <1>0, <1>6, <2>1
  <2>3. ASSUME NEW i \in 1 .. n, i - 1 \in Q PROVE i \in Q
    <3>1. out[i] = Cell(out[i - 1], prev, E, i, j) /\ r[i] = Cell(r[i - 1], prev, E, i, j) /\ i \in 0 .. n
      BY <1>6, <2>1
    <3>. QED BY <2>3, <3>1
  <2>4. \A i \in 0 .. n : i \in Q
    <3>1. \A i \in 1 .. n : i - 1 \in Q => i \in Q
      BY <2>3
    <3> HIDE DEF Q, n
    <3>. QED BY <1>0, <2>2, <3>1, Induction
  <2>5. out = F(out) /\ r = [i \in 0 .. n |-> r[i]]
    BY <1>5, <2>1
  <2>6. out = [i \in 0 .. n |-> out[i]]
    BY <2>5
  <2>. QED BY <2>4, <2>5, <2>6
<1>8. RowAfter(out, prev, E, n, j)
  BY <1>3, <1>7
<1>. QED BY <1>8 DEF out, RowOf

LEMMA RowsAre ==
  ASSUME NEW S, NEW a \in Seq(S), NEW b \in Seq(S), a # <<>>
  PROVE  \E g : RowsFrom(g, Equals(a, b), Len(a), Len(b)) /\ B!levenshtein(a, b) = g[Len(b)][Len(a)]
<1> DEFINE n == Len(a)
           m == Len(b)
           E == Equals(a, b)
           Row(prev, j) == RowOf(a, b, prev, j)
           F(rows) == [j \in 0 .. Len(b) |-> IF j = 0 THEN [i \in 0 .. Len(a) |-> i] ELSE Row(rows[j - 1], j)]
           Runs(rows) == rows = F(rows)
           out == CHOOSE rows : Runs(rows)
<1>0. n \in Nat /\ m \in Nat
  OBVIOUS
<1>1. B!levenshtein(a, b) = out[m][n]
  BY Zenon DEF B!levenshtein, RowOf
<1>2. ASSUME NEW prev \in [0 .. n -> Nat], NEW j \in 1 .. m PROVE RowAfter(Row(prev, j), prev, E, n, j)
  BY RowIs
<1> HIDE DEF Row
<1>3. PICK g : RowsFrom(g, E, n, m)
  <2> HIDE DEF n, m, E
  <2>. QED BY <1>0, RowsExist
<1>4. /\ g \in [0 .. m -> [0 .. n -> Nat]] /\ g[0] = FirstRow(n)
      /\ \A j \in 1 .. m : RowAfter(g[j], g[j - 1], E, n, j)
  BY <1>3 DEF RowsFrom
<1>5. \A rows : /\ DOMAIN F(rows) = 0 .. m /\ F(rows)[0] = FirstRow(n)
                /\ \A j \in 1 .. m : F(rows)[j] = Row(rows[j - 1], j)
  BY DEF FirstRow
<1>6. ASSUME NEW j \in 1 .. m PROVE g[j] = Row(g[j - 1], j)
  <2> DEFINE prev == g[j - 1]
             r == Row(prev, j)
             s == g[j]
  <2>1. prev \in [0 .. n -> Nat] /\ RowAfter(s, prev, E, n, j) /\ j \in Nat
    BY <1>4
  <2> HIDE DEF prev, s
  <2>2. RowAfter(r, prev, E, n, j)
    BY <1>2, <2>1
  <2> HIDE DEF r, n, E
  <2>3. r = s
    BY <1>0, <2>1, <2>2, OneRow
  <2>. QED BY <2>3 DEF r, s, prev
<1>7. Runs(g)
  <2>1. ASSUME NEW j \in 0 .. m PROVE g[j] = F(g)[j]
    <3>1. j = 0 \/ j \in 1 .. m
      OBVIOUS
    <3> HIDE DEF F
    <3>. QED BY <1>4, <1>5, <1>6, <3>1
  <2>2. g = [j \in 0 .. m |-> g[j]] /\ F(g) = [j \in 0 .. m |-> F(g)[j]]
    BY <1>4
  <2> HIDE DEF F
  <2>. QED BY <2>1, <2>2
<1>8. out = F(out)
  <2> HIDE DEF Runs
  <2>1. Runs(out)
    BY <1>7
  <2>. QED BY <2>1 DEF Runs
<1> HIDE DEF out
<1>9. out[m] = g[m]
  <2> DEFINE Q == {j \in 0 .. m : out[j] = g[j]}
  <2>1. DOMAIN out = 0 .. m /\ out[0] = FirstRow(n) /\ \A j \in 1 .. m : out[j] = Row(out[j - 1], j)
    <3> HIDE DEF F
    <3>. QED BY <1>5, <1>8
  <2>2. 0 \in Q
    BY <1>0, <1>4, <2>1
  <2>3. ASSUME NEW j \in 1 .. m, j - 1 \in Q PROVE j \in Q
    BY <1>6, <2>1, <2>3
  <2>4. \A j \in 0 .. m : j \in Q
    <3>1. \A j \in 1 .. m : j - 1 \in Q => j \in Q
      BY <2>3
    <3> HIDE DEF Q, m
    <3>. QED BY <1>0, <2>2, <3>1, Induction
  <2>. QED BY <1>0, <2>4
<1>. QED BY <1>1, <1>3, <1>9

LEMMA DistanceIs ==
  ASSUME NEW S, NEW a \in Seq(S), NEW b \in Seq(S), NEW d, Distances(d, Equals(a, b), Len(a), Len(b))
  PROVE  B!levenshtein(a, b) = d[<<Len(a), Len(b)>>]
<1> DEFINE n == Len(a)
           m == Len(b)
           E == Equals(a, b)
<1>0. n \in Nat /\ m \in Nat
  OBVIOUS
<1>1. CASE a = <<>>
  <2>1. n = 0 /\ <<n, m>> \in Grid2(n, m)
    BY <1>1 DEF Grid2
  <2>2. d[<<n, m>>] = Closest(d, E, n, m)
    BY <2>1 DEF Distances
  <2>3. Closest(d, E, 0, m) = m
    BY <1>0 DEF Closest
  <2>4. B!levenshtein(a, b) = m
    BY <1>1, Zenon DEF B!levenshtein
  <2>. QED BY <2>1, <2>2, <2>3, <2>4
<1>2. CASE a # <<>>
  <2>1. PICK g : RowsFrom(g, E, n, m) /\ B!levenshtein(a, b) = g[m][n]
    BY <1>2, RowsAre
  <2> DEFINE e == [p \in Grid2(n, m) |-> g[p[2]][p[1]]]
  <2> HIDE DEF n, m, E
  <2>2. Distances(e, E, n, m)
    BY <1>0, <2>1, RowsAreDistances
  <2>3. e[<<n, m>>] = g[m][n]
    BY <1>0 DEF Grid2
  <2>4. Distances(d, E, n, m) /\ n \in 0 .. n /\ m \in 0 .. m
    BY <1>0 DEF n, m, E
  <2> HIDE DEF e
  <2>5. d[<<n, m>>] = e[<<n, m>>]
    BY <1>0, <2>2, <2>4, OneTable
  <2>. QED BY <2>1, <2>3, <2>5 DEF n, m
<1>. QED BY <1>1, <1>2

\* A call that compares two keys.
Suggesting == call.op = "suggest" => call.a \in Keys /\ call.b \in Keys

LEMMA DistancesExact == Suggesting => DistanceExact
<1> SUFFICES ASSUME Suggesting PROVE DistanceExact
  OBVIOUS
<1>1. CASE call.op # "suggest"
  BY <1>1 DEF DistanceExact
<1>2. CASE call.op = "suggest"
  <2> DEFINE a == call.a
             b == call.b
             n == Len(a)
             m == Len(b)
             E == Equals(a, b)
             F(d) == [p \in (0 .. Len(a)) \X (0 .. Len(b)) |->
                       IF p[1] = 0 \/ p[2] = 0 THEN p[1] + p[2]
                       ELSE IF a[p[1]] = b[p[2]] THEN d[<<p[1] - 1, p[2] - 1>>]
                       ELSE 1 + Least(d[<<p[1] - 1, p[2] - 1>>],
                                      Least(d[<<p[1] - 1, p[2]>>], d[<<p[1], p[2] - 1>>]))]
             Runs(d) == d = F(d)
             out == CHOOSE d : Runs(d)
  <2>1. a \in Seq(STRING) /\ b \in Seq(STRING)
    BY <1>2, KeysAssumption DEF Suggesting
  <2>2. DistanceExact <=> B!levenshtein(a, b) = out[<<n, m>>]
    BY <1>2, Zenon DEF DistanceExact
  <2> HIDE DEF a, b
  <2>3. n \in Nat /\ m \in Nat
    BY <2>1
  <2>4. ASSUME NEW d PROVE F(d) = [p \in Grid2(n, m) |-> Closest(d, E, p[1], p[2])]
    <3>1. ASSUME NEW p \in Grid2(n, m)
          PROVE  F(d)[p] = Closest(d, E, p[1], p[2])
      <4>1. p[1] \in 0 .. n /\ p[2] \in 0 .. m /\ p \in (0 .. Len(a)) \X (0 .. Len(b))
        BY DEF Grid2
      <4>2. (p[1] # 0 /\ p[2] # 0) => (<<p[1], p[2]>> \in E <=> a[p[1]] = b[p[2]])
        <5>1. (p[1] # 0 /\ p[2] # 0) => p[1] \in 1 .. Len(a) /\ p[2] \in 1 .. Len(b)
          BY <2>3, <4>1
        <5>. QED BY <5>1 DEF Equals
      <4> HIDE DEF E, n, m
      <4>. QED BY <4>1, <4>2 DEF Closest, Least, Lesser
    <3>2. DOMAIN F(d) = Grid2(n, m) /\ F(d) = [p \in Grid2(n, m) |-> F(d)[p]]
      BY DEF Grid2
    <3> HIDE DEF F, n, m, E
    <3>. QED BY <3>1, <3>2
  <2>5. \A d : Runs(d) <=> Distances(d, E, n, m)
    <3> HIDE DEF F, n, m, E
    <3>. QED BY <2>4 DEF Distances
  <2> HIDE DEF Runs, n, m, E
  <2>6. \E d : Runs(d)
    <3>1. PICK g : RowsFrom(g, E, n, m)
      BY <2>3, RowsExist
    <3>2. Distances([p \in Grid2(n, m) |-> g[p[2]][p[1]]], E, n, m)
      BY <2>3, <3>1, RowsAreDistances
    <3>. QED BY <2>5, <3>2
  <2>7. Runs(out)
    BY <2>6
  <2> HIDE DEF out
  <2>8. B!levenshtein(a, b) = out[<<n, m>>]
    BY <2>1, <2>5, <2>7, DistanceIs DEF n, m, E
  <2>. QED BY <2>2, <2>8 DEF out, n, m, Runs
<1>. QED BY <1>1, <1>2

-----------------------------------------------------------------------------
(* What was mistyped is caught.                                            *)

Typed == Encoding /\ Suggesting

LEMMA TypedKept == Spec => []Typed
<1>1. Init => Typed
  BY DEF Init, Idle, Typed, Encoding, Suggesting
<1>2. Typed /\ [Next]_call => Typed'
  <2> SUFFICES ASSUME Typed, [Next]_call PROVE Typed'
    OBVIOUS
  <2>1. CASE Encode
    <3>1. PICK q \in Barcodes : \E holds \in Y!Holding(q[1], q[2]) :
                                  call' = [op |-> "encode", sym |-> q[1], data |-> q[2], o |-> q[3],
                                         r |-> Y!Encode(q[1], q[2], q[3], holds)]
      BY <2>1 DEF Encode
    <3>. QED BY <3>1 DEF Typed, Encoding, Suggesting
  <2>2. CASE Suggest
    BY <2>2 DEF Suggest, Typed, Encoding, Suggesting
  <2>3. CASE UNCHANGED call
    BY <2>3 DEF Typed, Encoding, Suggesting
  <2>4. CASE Return
    BY <2>4 DEF Return, Idle, Typed, Encoding, Suggesting
  <2>5. CASE Draw \/ Ramp \/ Ink
    BY <2>5 DEF Draw, Ramp, Ink, Typed, Encoding, Suggesting
  <2>6. CASE Size \/ Caption
    BY <2>6 DEF Size, Caption, Typed, Encoding, Suggesting
  <2>7. CASE Build \/ Scan
    BY <2>7 DEF Build, Scan, Typed, Encoding, Suggesting
  <2>8. CASE Locate \/ Take
    BY <2>8 DEF Locate, Take, Typed, Encoding, Suggesting
  <2>. QED BY <2>1, <2>2, <2>3, <2>4, <2>5, <2>6, <2>7, <2>8 DEF Next
<1>. QED BY <1>1, <1>2, PTL DEF Spec

(* What is mistyped is caught, whatever the payload, its options and the   *)
(* keys compared: a library draws what its encoder let through, one wrong  *)
(* digit in a number is refused, a number is the same in every code that   *)
(* takes it, an encoder refuses nothing that its capabilities admit for    *)
(* its length or options but what the library of a two-dimensional code    *)
(* finds too long, past the bytes each surely holds, and the distance      *)
(* behind a suggestion is the fewest changes (packages encoder, httpapi).  *)
THEOREM MistakesAreCaught == Spec => []MistakesCaught
<1>1. Typed => MistakesCaught
  BY NumbersKept, EncodersKeep, DistancesExact DEF Typed, MistakesCaught
<1>. QED BY <1>1, TypedKept, PTL
=============================================================================
