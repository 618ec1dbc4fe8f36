--------------------------- MODULE PackagingProofs ---------------------------
(***************************************************************************)
(* What a batch's results become, for every number of items, every id and  *)
(* every grid: the names of an archive's entries (FileNames), the sheet    *)
(* they are printed on (Sheet), and the two together (Packaging).          *)
(***************************************************************************)
EXTENDS Packaging, DataInduction, SequenceTheorems, TLAPS

-----------------------------------------------------------------------------
(* Names, token by token (module FileNames).                               *)

\* No two dots in a row.
NoDots(f) == \A k \in 1 .. (Len(f) - 1) : ~(f[k] = "." /\ f[k + 1] = ".")
Harmless(f) == f \in Seq(Safe) /\ NoDots(f)

\* A name that opens as no dotfile does.
Opens(f) == f # <<>> /\ f[1] \notin Edge

LEMMA Tokens ==
  /\ "." \in Safe /\ "-" \in Safe /\ "item" \in Safe /\ "." # "-"
  /\ Edge \subseteq Safe /\ "item" \notin Edge /\ "bin" \in Plain
  /\ Plain \subseteq Safe /\ \A t \in Plain : t \notin Edge
  /\ \A i \in 1 .. 10 : Digits[i] \in Plain
<1>1. \A i \in 1 .. 10 : Digits[i] \in Range(Digits)
  BY DEF Digits, Range
<1>2. "." \notin Plain /\ "-" \notin Plain /\ "item" \in Plain /\ "bin" \in Plain
  BY PlainAssumption
<1>3. \A i \in 1 .. 10 : Digits[i] \in Plain
  <2>1. Range(Digits) \subseteq Plain
    BY PlainAssumption
  <2>. QED BY <1>1, <2>1
<1>4. /\ "." \in Safe /\ "-" \in Safe /\ "item" \in Safe
      /\ Edge \subseteq Safe /\ Plain \subseteq Safe
  BY <1>2 DEF Safe, Edge
<1>5. "." # "-" /\ "item" \notin Edge /\ \A t \in Plain : t \notin Edge
  BY <1>2 DEF Edge
<1>. QED BY <1>2, <1>3, <1>4, <1>5

LEMMA OneToken ==
  ASSUME NEW S, NEW t \in S
  PROVE  <<t>> \in Seq(S) /\ Len(<<t>>) = 1 /\ <<t>>[1] = t /\ <<t>> # <<>>
<1>1. <<t>> \in [1 .. 1 -> S]
  OBVIOUS
<1>. QED BY <1>1, SeqDef

\* A part of a harmless name is one.
LEMMA PartHarmless ==
  ASSUME NEW f, Harmless(f), NEW a \in 1 .. Len(f) + 1, NEW b \in 0 .. Len(f)
  PROVE  /\ Harmless(SubSeq(f, a, b))
         /\ Len(SubSeq(f, a, b)) = IF a <= b THEN b - a + 1 ELSE 0
         /\ \A i \in 1 .. b - a + 1 : SubSeq(f, a, b)[i] = f[a + i - 1]
<1>1. f \in Seq(Safe) /\ Len(f) \in Nat /\ a \in Int /\ b \in Int
  BY LenProperties DEF Harmless
<1>2. \A i \in a .. b : f[i] \in Safe
  BY <1>1, ElementOfSeq
<1>3. /\ SubSeq(f, a, b) \in Seq(Safe)
      /\ Len(SubSeq(f, a, b)) = IF a <= b THEN b - a + 1 ELSE 0
      /\ \A i \in 1 .. b - a + 1 : SubSeq(f, a, b)[i] = f[a + i - 1]
  BY <1>1, <1>2, SubSeqProperties
<1> DEFINE s == SubSeq(f, a, b)
<1> HIDE DEF s
<1>4. ASSUME NEW k \in 1 .. (Len(s) - 1) PROVE ~(s[k] = "." /\ s[k + 1] = ".")
  <2>1. a <= b /\ k \in 1 .. b - a + 1 /\ k + 1 \in 1 .. b - a + 1 /\ a + k - 1 \in 1 .. Len(f) - 1
    BY <1>1, <1>3 DEF s
  <2>2. s[k] = f[a + k - 1] /\ s[k + 1] = f[a + (k + 1) - 1]
    BY <1>3, <2>1 DEF s
  <2>3. a + (k + 1) - 1 = (a + k - 1) + 1
    BY <1>1, <2>1
  <2>. QED BY <2>1, <2>2, <2>3 DEF Harmless, NoDots
<1>. QED BY <1>3, <1>4 DEF s, Harmless, NoDots

\* Two harmless parts make one, unless a dot meets a dot.
LEMMA JoinHarmless ==
  ASSUME NEW f, Harmless(f), NEW g, Harmless(g),
         f = <<>> \/ g = <<>> \/ f[Len(f)] # "." \/ g[1] # "."
  PROVE  /\ Harmless(f \o g) /\ Len(f \o g) = Len(f) + Len(g)
         /\ f # <<>> => (f \o g)[1] = f[1]
         /\ g # <<>> => (f \o g)[Len(f \o g)] = g[Len(g)]
         /\ f # <<>> \/ g # <<>> => f \o g # <<>>
<1> DEFINE s == f \o g
<1>1. f \in Seq(Safe) /\ g \in Seq(Safe) /\ Len(f) \in Nat /\ Len(g) \in Nat
  BY LenProperties DEF Harmless
<1>2. /\ s \in Seq(Safe) /\ Len(s) = Len(f) + Len(g)
      /\ \A i \in 1 .. Len(f) + Len(g) : s[i] = IF i <= Len(f) THEN f[i] ELSE g[i - Len(f)]
  BY <1>1, ConcatProperties
<1>3. /\ f # <<>> <=> Len(f) > 0
      /\ g # <<>> <=> Len(g) > 0
      /\ s # <<>> <=> Len(s) > 0
  BY <1>1, <1>2, EmptySeq
<1> HIDE DEF s
<1>4. ASSUME NEW k \in 1 .. (Len(s) - 1) PROVE ~(s[k] = "." /\ s[k + 1] = ".")
  <2>0. k \in 1 .. Len(f) + Len(g) /\ k + 1 \in 1 .. Len(f) + Len(g)
    BY <1>1, <1>2
  <2>1. CASE k + 1 <= Len(f)
    <3>1. s[k] = f[k] /\ s[k + 1] = f[k + 1] /\ k \in 1 .. Len(f) - 1
      BY <1>1, <1>2, <2>0, <2>1
    <3>. QED BY <3>1 DEF Harmless, NoDots
  <2>2. CASE k = Len(f)
    <3>1. s[k] = f[Len(f)] /\ s[k + 1] = g[1]
      BY <1>1, <1>2, <2>0, <2>2
    <3>. QED BY <1>1, <1>2, <1>3, <2>2, <3>1
  <2>3. CASE k > Len(f)
    <3>1. s[k] = g[k - Len(f)] /\ s[k + 1] = g[(k + 1) - Len(f)]
      BY <1>1, <1>2, <2>0, <2>3
    <3>2. k - Len(f) \in 1 .. Len(g) - 1 /\ (k + 1) - Len(f) = (k - Len(f)) + 1
      BY <1>1, <1>2, <2>0, <2>3
    <3>. QED BY <3>1, <3>2 DEF Harmless, NoDots
  <2>. QED BY <1>1, <2>0, <2>1, <2>2, <2>3
<1>5. /\ f # <<>> => s[1] = f[1]
      /\ g # <<>> => s[Len(s)] = g[Len(g)]
      /\ f # <<>> \/ g # <<>> => s # <<>>
  BY <1>1, <1>2, <1>3
<1>. QED BY <1>2, <1>4, <1>5 DEF s, Harmless, NoDots

LEMMA TokenHarmless ==
  ASSUME NEW t \in Safe PROVE Harmless(<<t>>) /\ Len(<<t>>) = 1 /\ <<t>>[1] = t /\ <<t>> # <<>>
BY OneToken DEF Harmless, NoDots

\* A token is added as no second dot and no second hyphen.
LEMMA AddRuneKeeps ==
  ASSUME NEW out, Harmless(out), NEW r PROVE Harmless(AddRune(out, r))
<1> DEFINE c == IF r \notin Safe \/ (r = "." /\ out # <<>> /\ Last(out) = ".") THEN "-" ELSE r
<1>1. AddRune(out, r) = out \/ AddRune(out, r) = Append(out, c)
  BY DEF AddRune
<1>2. c \in Safe /\ (c = "." => out = <<>> \/ out[Len(out)] # ".")
  BY Tokens DEF Last
<1> HIDE DEF c
<1>3. Append(out, c) = out \o <<c>>
  BY <1>2, OneToken DEF Harmless
<1>4. Harmless(out \o <<c>>)
  BY <1>2, TokenHarmless, JoinHarmless
<1>. QED BY <1>1, <1>3, <1>4

\* The loop of safeStem lets no second dot and no second hyphen through.
LEMMA CleanedHarmless ==
  ASSUME NEW id, Len(id) \in Nat PROVE Harmless(Cleaned(id))
<1> DEFINE n == Len(id)
           H == {f \in Seq(Safe) : NoDots(f)}
           Runs(g) == g = [k \in 0 .. n |-> IF k = 0 THEN <<>> ELSE AddRune(g[k - 1], id[k])]
           out == CHOOSE g : Runs(g)
           step == [k \in 1 .. n |-> [o \in H |-> AddRune(o, id[k])]]
<1>1. Cleaned(id) = out[n]
  BY DEF Cleaned
<1>2. <<>> \in H /\ \A o \in H : \A r : AddRune(o, r) \in H
  BY AddRuneKeeps DEF Harmless, NoDots
<1> HIDE DEF H
<1>3. step \in StepsOn(n, H)
  BY <1>2 DEF StepsOn
<1>4. PICK g \in [0 .. n -> H] : g[0] = <<>> /\ \A k \in 1 .. n : g[k] = step[k][g[k - 1]]
  <2> DEFINE e == <<>>
  <2>1. n \in Nat
    BY <1>2
  <2>3. e \in H
    BY <1>2
  <2> HIDE DEF step, n, e
  <2>2. \E g : Computes(g, n, H, e, step)
    BY <1>3, <2>1, <2>3, Recursion
  <2>. QED BY <2>2 DEF e, Computes
<1>5. Runs(g)
  <2>1. ASSUME NEW k \in 1 .. n PROVE g[k] = AddRune(g[k - 1], id[k])
    <3>1. g[k - 1] \in H
      <4>1. k - 1 \in 0 .. n
        OBVIOUS
      <4>. QED BY <1>4, <4>1
    <3>2. step[k] = [o \in H |-> AddRune(o, id[k])]
      OBVIOUS
    <3> HIDE DEF step
    <3>. QED BY <1>4, <3>1, <3>2
  <2>2. \A k \in 0 .. n : k = 0 \/ k \in 1 .. n
    OBVIOUS
  <2>. QED BY <1>4, <2>1, <2>2
<1>6. Runs(out)
  <2> HIDE DEF Runs
  <2>. QED BY <1>5
<1> HIDE DEF out, step
<1> DEFINE P == {k \in 0 .. n : out[k] \in H}
<1>7. 0 \in P
  BY <1>2, <1>6
<1>8. ASSUME NEW k \in 1 .. n, k - 1 \in P PROVE k \in P
  <2>1. out[k] = AddRune(out[k - 1], id[k])
    BY <1>6
  <2>. QED BY <1>2, <1>8, <2>1
<1>9. out[n] \in H
  <2> HIDE DEF P
  <2>1. \A k \in 0 .. n : k \in P
    BY <1>7, <1>8, Induction
  <2>. QED BY <2>1 DEF P
<1>. QED BY <1>1, <1>9 DEF H, Harmless

\* What is kept of a sequence, prefix by prefix.
Keeps(g, s, S, T) ==
  /\ g \in [0 .. Len(s) -> Seq(T \cap S)]
  /\ g[0] = <<>>
  /\ \A k \in 1 .. Len(s) : g[k] = IF s[k] \in S THEN Append(g[k - 1], s[k]) ELSE g[k - 1]

LEMMA KeptRuns ==
  ASSUME NEW T, NEW s \in Seq(T), NEW S
  PROVE  \E g : Keeps(g, s, S, T) /\ Kept(s, S) = g[Len(s)]
<1> DEFINE n == Len(s)
           H == Seq(T \cap S)
           Next1(o, k) == IF s[k] \in S THEN Append(o, s[k]) ELSE o
           Runs(g) == g = [k \in 0 .. n |-> IF k = 0 THEN <<>> ELSE Next1(g[k - 1], k)]
           out == CHOOSE g : Runs(g)
           step == [k \in 1 .. n |-> [o \in H |-> Next1(o, k)]]
<1>0. n \in Nat /\ \A k \in 1 .. n : s[k] \in T
  BY LenProperties, ElementOfSeq
<1>1. Kept(s, S) = out[n]
  BY DEF Kept
<1>2. <<>> \in H /\ \A k \in 1 .. n : \A o \in H : Next1(o, k) \in H
  BY <1>0
<1> HIDE DEF H, Next1
<1>3. step \in StepsOn(n, H)
  BY <1>2 DEF StepsOn
<1>4. PICK g \in [0 .. n -> H] : g[0] = <<>> /\ \A k \in 1 .. n : g[k] = step[k][g[k - 1]]
  <2> DEFINE e == <<>>
  <2>1. n \in Nat
    BY <1>0, <1>2
  <2>3. e \in H
    BY <1>0, <1>2
  <2> HIDE DEF step, n, e
  <2>2. \E g : Computes(g, n, H, e, step)
    BY <1>3, <2>1, <2>3, Recursion
  <2>. QED BY <2>2 DEF e, Computes
<1>5. Runs(g)
  <2>1. ASSUME NEW k \in 1 .. n PROVE g[k] = Next1(g[k - 1], k)
    <3>1. g[k - 1] \in H
      <4>1. k - 1 \in 0 .. n
        BY <1>0
      <4>. QED BY <1>4, <4>1
    <3>2. step[k] = [o \in H |-> Next1(o, k)]
      OBVIOUS
    <3> HIDE DEF step
    <3>. QED BY <1>4, <3>1, <3>2
  <2>2. \A k \in 0 .. n : k = 0 \/ k \in 1 .. n
    BY <1>0
  <2>. QED BY <1>4, <2>1, <2>2
<1>6. Runs(out)
  <2> HIDE DEF Runs
  <2>. QED BY <1>5
<1> HIDE DEF out, step
<1> DEFINE P == {k \in 0 .. n : out[k] \in H}
<1>7. 0 \in P
  BY <1>0, <1>2, <1>6
<1>8. ASSUME NEW k \in 1 .. n, k - 1 \in P PROVE k \in P
  <2>1. out[k] = Next1(out[k - 1], k)
    BY <1>0, <1>6
  <2>. QED BY <1>0, <1>2, <1>8, <2>1
<1>9. \A k \in 0 .. n : out[k] \in H
  <2> HIDE DEF P
  <2>1. \A k \in 0 .. n : k \in P
    BY <1>0, <1>7, <1>8, Induction
  <2>. QED BY <2>1 DEF P
<1>10. out \in [0 .. n -> H] /\ out[0] = <<>> /\ \A k \in 1 .. n : out[k] = Next1(out[k - 1], k)
  BY <1>0, <1>6, <1>9
<1>. QED BY <1>1, <1>10 DEF H, Next1, Keeps

\* A trimmed sequence is a part that does not end, or begin, with what is cut.
LEMMA TrimRightIs ==
  ASSUME NEW T, NEW s \in Seq(T), NEW cut
  PROVE  \E m \in 0 .. Len(s) : /\ TrimRight(s, cut) = SubSeq(s, 1, m)
                                /\ m > 0 => s[m] \notin cut
<1> DEFINE kept == {i \in DOMAIN s : s[i] \notin cut}
<1>1. Len(s) \in Nat /\ DOMAIN s = 1 .. Len(s)
  BY LenProperties
<1>2. CASE kept = {}
  BY <1>1, <1>2, SubSeqEmpty DEF TrimRight
<1>3. CASE kept # {}
  <2>1. kept \in SUBSET (0 .. Len(s)) /\ \A i \in kept : i \in 1 .. Len(s)
    BY <1>1
  <2>2. \E m \in kept : \A i \in kept : i <= m
    <3> HIDE DEF kept
    <3>. QED BY <1>1, <1>3, <2>1, GreatestNumber
  <2>3. Max(kept) \in kept
    <3>1. \E m \in kept : \A i \in kept : m >= i
      BY <2>1, <2>2
    <3> HIDE DEF kept
    <3>. QED BY <3>1 DEF Max
  <2>4. TrimRight(s, cut) = SubSeq(s, 1, Max(kept))
    BY <1>3 DEF TrimRight
  <2>. QED BY <1>1, <2>1, <2>3, <2>4
<1>. QED BY <1>2, <1>3

LEMMA TrimLeftIs ==
  ASSUME NEW T, NEW s \in Seq(T), NEW cut
  PROVE  \E m \in 1 .. Len(s) + 1 : /\ TrimLeft(s, cut) = SubSeq(s, m, Len(s))
                                    /\ m <= Len(s) => s[m] \notin cut
<1> DEFINE kept == {i \in DOMAIN s : s[i] \notin cut}
<1>1. Len(s) \in Nat /\ DOMAIN s = 1 .. Len(s)
  BY LenProperties
<1>2. CASE kept = {}
  <2>1. SubSeq(s, Len(s) + 1, Len(s)) = <<>>
    BY <1>1, SubSeqEmpty
  <2>. QED BY <1>1, <1>2, <2>1 DEF TrimLeft
<1>3. CASE kept # {}
  <2>1. kept \in SUBSET Nat /\ \A i \in kept : i \in 1 .. Len(s)
    BY <1>1
  <2>2. \E m \in kept : \A i \in kept : m <= i
    <3> HIDE DEF kept
    <3>. QED BY <1>3, <2>1, LeastNumber
  <2>3. Min(kept) \in kept
    <3> HIDE DEF kept
    <3>. QED BY <2>2 DEF Min
  <2>4. TrimLeft(s, cut) = SubSeq(s, Min(kept), Len(s))
    BY <1>3 DEF TrimLeft
  <2>5. Min(kept) \in 1 .. Len(s) + 1
    <3>1. \A i \in 1 .. Len(s) : i \in 1 .. Len(s) + 1
      BY <1>1
    <3> HIDE DEF kept
    <3>2. Min(kept) \in 1 .. Len(s)
      BY <2>1, <2>3, Zenon
    <3>. QED BY <3>1, <3>2
  <2>6. s[Min(kept)] \notin cut
    BY <2>3
  <2>. QED BY <2>4, <2>5, <2>6
<1>. QED BY <1>2, <1>3

LEMMA TrimsAreSeqs ==
  ASSUME NEW T, NEW s \in Seq(T), NEW cut
  PROVE  TrimLeft(s, cut) \in Seq(T) /\ TrimRight(s, cut) \in Seq(T)
<1>0. Len(s) \in Nat /\ \A i \in 1 .. Len(s) : s[i] \in T
  BY LenProperties, ElementOfSeq
<1>1. TrimRight(s, cut) \in Seq(T)
  <2>1. PICK m \in 0 .. Len(s) : TrimRight(s, cut) = SubSeq(s, 1, m)
    BY TrimRightIs
  <2>2. \A i \in 1 .. m : s[i] \in T
    BY <1>0
  <2>3. SubSeq(s, 1, m) \in Seq(T)
    BY <1>0, <2>2, SubSeqProperties
  <2>. QED BY <2>1, <2>3
<1>2. TrimLeft(s, cut) \in Seq(T)
  <2>1. PICK m \in 1 .. Len(s) + 1 : TrimLeft(s, cut) = SubSeq(s, m, Len(s))
    BY TrimLeftIs
  <2>2. \A i \in m .. Len(s) : s[i] \in T
    BY <1>0
  <2>3. SubSeq(s, m, Len(s)) \in Seq(T)
    BY <1>0, <2>2, SubSeqProperties
  <2>. QED BY <2>1, <2>3
<1>. QED BY <1>1, <1>2

-----------------------------------------------------------------------------
(* Decimal numbers.  Itoa is a recursive function on all of Nat: it exists *)
(* because its finite parts do, and agree.                                 *)

Written(g, n) == IF n < 10 THEN <<Digits[n + 1]>>
                 ELSE Append(g[n \div 10], Digits[(n % 10) + 1])

WrittenUpTo(g, n) == /\ g \in [0 .. n -> Seq(Plain)]
                     /\ \A i \in 0 .. n : g[i] = Written(g, i)

LEMMA TenParts ==
  ASSUME NEW n \in Nat
  PROVE  /\ n % 10 \in 0 .. 9 /\ (n % 10) + 1 \in 1 .. 10 /\ n \div 10 \in Nat
         /\ n = 10 * (n \div 10) + (n % 10)
         /\ n >= 10 => n \div 10 \in 0 .. n - 1
OBVIOUS

LEMMA WrittenIsSeq ==
  ASSUME NEW g, NEW n \in Nat, n >= 10 => g[n \div 10] \in Seq(Plain)
  PROVE  Written(g, n) \in Seq(Plain)
<1>1. \A i \in 1 .. 10 : Digits[i] \in Plain
  BY Tokens
<1>2. CASE n < 10
  <2>1. Digits[n + 1] \in Plain
    BY <1>1, <1>2
  <2>2. <<Digits[n + 1]>> \in Seq(Plain)
    BY <2>1, OneToken
  <2>. QED BY <1>2, <2>2 DEF Written
<1>3. CASE n >= 10
  <2>1. Digits[(n % 10) + 1] \in Plain
    BY <1>1, TenParts
  <2>2. Append(g[n \div 10], Digits[(n % 10) + 1]) \in Seq(Plain)
    BY <1>3, <2>1, AppendProperties
  <2>. QED BY <1>3, <2>2 DEF Written
<1>. QED BY <1>2, <1>3

LEMMA WrittenExists ==
  ASSUME NEW n \in Nat PROVE \E g : WrittenUpTo(g, n)
<1> DEFINE P == {m \in 0 .. n : \E g : WrittenUpTo(g, m)}
<1>1. 0 \in P
  <2> DEFINE g == [i \in 0 .. 0 |-> Written(<<>>, 0)]
  <2>1. Written(<<>>, 0) \in Seq(Plain)
    BY WrittenIsSeq
  <2>2. Written(g, 0) = Written(<<>>, 0)
    BY DEF Written
  <2>3. WrittenUpTo(g, 0)
    BY <2>1, <2>2 DEF WrittenUpTo
  <2>. QED BY <2>3
<1>2. ASSUME NEW m \in 1 .. n, m - 1 \in P PROVE m \in P
  <2>1. PICK g : WrittenUpTo(g, m - 1)
    BY <1>2
  <2> DEFINE v == Written(g, m)
             h == [i \in 0 .. m |-> IF i = m THEN v ELSE g[i]]
  <2>2. v \in Seq(Plain)
    <3>1. m >= 10 => m \div 10 \in 0 .. m - 1
      BY TenParts
    <3>2. m >= 10 => g[m \div 10] \in Seq(Plain)
      BY <2>1, <3>1 DEF WrittenUpTo
    <3>. QED BY <3>2, WrittenIsSeq
  <2> HIDE DEF v
  <2>3. h \in [0 .. m -> Seq(Plain)] /\ h[m] = v /\ \A i \in 0 .. m - 1 : h[i] = g[i]
    <3>1. \A i \in 0 .. m : i = m \/ i \in 0 .. m - 1
      OBVIOUS
    <3>. QED BY <2>1, <2>2, <3>1 DEF WrittenUpTo
  <2> HIDE DEF h
  <2>4. ASSUME NEW i \in 0 .. m PROVE Written(h, i) = Written(g, i)
    <3>1. i >= 10 => i \div 10 \in 0 .. m - 1
      BY TenParts
    <3>2. i >= 10 => h[i \div 10] = g[i \div 10]
      BY <2>3, <3>1
    <3>. QED BY <3>2 DEF Written
  <2>5. ASSUME NEW i \in 0 .. m PROVE h[i] = Written(h, i)
    <3>1. CASE i = m
      BY <2>3, <2>4, <3>1 DEF v
    <3>2. CASE i # m
      <4>1. i \in 0 .. m - 1
        BY <3>2
      <4>2. h[i] = g[i] /\ g[i] = Written(g, i)
        BY <2>1, <2>3, <4>1 DEF WrittenUpTo
      <4>. QED BY <2>4, <4>2
    <3>. QED BY <3>1, <3>2
  <2>6. WrittenUpTo(h, m)
    BY <2>3, <2>5 DEF WrittenUpTo
  <2>. QED BY <2>6
<1>3. \A m \in 0 .. n : m \in P
  <2>1. \A m \in 1 .. n : m - 1 \in P => m \in P
    BY <1>2
  <2> HIDE DEF P
  <2>. QED BY <1>1, <2>1, Induction
<1>. QED BY <1>3

LEMMA WrittenAgrees ==
  ASSUME NEW m \in Nat, NEW n \in Nat, m <= n,
         NEW g, WrittenUpTo(g, m), NEW h, WrittenUpTo(h, n)
  PROVE  \A i \in 0 .. m : g[i] = h[i]
<1> DEFINE T == {i \in 0 .. m : g[i] # h[i]}
<1>1. SUFFICES ASSUME T # {} PROVE FALSE
  OBVIOUS
<1>2. PICK i \in T : \A j \in T : i <= j
  <2>1. T \in SUBSET Nat
    OBVIOUS
  <2> HIDE DEF T
  <2>. QED BY <1>1, <2>1, LeastNumber
<1>3. i \in Nat /\ i \in 0 .. m /\ i \in 0 .. n /\ g[i] # h[i]
  BY <1>2
<1>4. i >= 10 => i \div 10 \in 0 .. m /\ i \div 10 \notin T
  <2>1. i >= 10 => i \div 10 \in 0 .. i - 1
    BY <1>3, TenParts
  <2>. QED BY <1>2, <1>3, <2>1
<1>5. i >= 10 => g[i \div 10] = h[i \div 10]
  BY <1>4
<1>6. Written(g, i) = Written(h, i)
  BY <1>3, <1>5 DEF Written
<1>. QED BY <1>3, <1>6 DEF WrittenUpTo

\* A number is written in digits, one more than a tenth of it is.
LEMMA ItoaIs ==
  /\ \A n \in Nat : Itoa[n] \in Seq(Plain)
  /\ \A n \in Nat : Itoa[n] = Written(Itoa, n)
<1> DEFINE Part(n) == CHOOSE g : WrittenUpTo(g, n)
           F == [n \in Nat |-> Part(n)[n]]
           Runs(f) == f = [n \in Nat |-> Written(f, n)]
<1>1. ASSUME NEW n \in Nat PROVE WrittenUpTo(Part(n), n)
  BY WrittenExists
<1> HIDE DEF Part
<1>2. ASSUME NEW n \in Nat PROVE F[n] = Written(F, n)
  <2>1. n \in 0 .. n
    OBVIOUS
  <2>2. F[n] = Written(Part(n), n)
    BY <1>1, <2>1 DEF WrittenUpTo
  <2>3. n >= 10 => Part(n)[n \div 10] = F[n \div 10]
    <3>1. SUFFICES ASSUME n >= 10 PROVE Part(n)[n \div 10] = F[n \div 10]
      OBVIOUS
    <3> DEFINE t == n \div 10
    <3>2. t \in Nat /\ t <= n /\ t \in 0 .. t
      BY <3>1, TenParts
    <3> HIDE DEF t
    <3>3. Part(t)[t] = Part(n)[t]
      <4>1. WrittenUpTo(Part(t), t) /\ WrittenUpTo(Part(n), n)
        BY <1>1, <3>2
      <4>. QED BY <3>2, <4>1, WrittenAgrees
    <3>4. F[t] = Part(t)[t]
      BY <3>2
    <3>. QED BY <3>3, <3>4 DEF t
  <2> HIDE DEF F
  <2>. QED BY <2>2, <2>3 DEF Written
<1>3. Runs(F)
  <2>1. \A n \in Nat : F[n] = Written(F, n)
    BY <1>2
  <2>. QED BY <2>1
<1>4. Runs(Itoa)
  <2>1. Itoa = CHOOSE f : Runs(f)
    BY DEF Itoa, Written
  <2> HIDE DEF Runs, F
  <2>. QED BY <1>3, <2>1
<1>5. ASSUME NEW n \in Nat PROVE Itoa[n] = Written(Itoa, n)
  BY <1>4
<1> DEFINE T == {n \in Nat : Itoa[n] \notin Seq(Plain)}
<1>6. T = {}
  <2>1. SUFFICES ASSUME T # {} PROVE FALSE
    OBVIOUS
  <2>2. PICK n \in T : \A m \in T : n <= m
    <3>1. T \in SUBSET Nat
      OBVIOUS
    <3> HIDE DEF T
    <3>. QED BY <2>1, <3>1, LeastNumber
  <2>3. n >= 10 => Itoa[n \div 10] \in Seq(Plain)
    <3>1. n \in Nat /\ (n >= 10 => n \div 10 \in 0 .. n - 1)
      BY <2>2, TenParts
    <3>. QED BY <2>2, <3>1
  <2>4. n \in Nat /\ Itoa[n] \notin Seq(Plain)
    BY <2>2
  <2>5. Itoa[n] = Written(Itoa, n)
    BY <1>5, <2>4
  <2>. QED BY <2>3, <2>4, <2>5, WrittenIsSeq
<1>. QED BY <1>5, <1>6

\* Two different numbers are written differently.
LEMMA ItoaInjective ==
  ASSUME NEW m \in Nat, NEW n \in Nat, Itoa[m] = Itoa[n]
  PROVE  m = n
<1> DEFINE T == {a \in Nat : \E b \in Nat : a # b /\ Itoa[a] = Itoa[b]}
<1>1. SUFFICES ASSUME T # {} PROVE FALSE
  OBVIOUS
<1>2. PICK a \in T : \A c \in T : a <= c
  <2>1. T \in SUBSET Nat
    OBVIOUS
  <2> HIDE DEF T
  <2>. QED BY <1>1, <2>1, LeastNumber
<1>3. PICK b \in Nat : a # b /\ Itoa[a] = Itoa[b]
  BY <1>2
<1>4. a \in Nat /\ b \in T
  BY <1>2, <1>3
<1>5. a < b
  <2>1. a <= b
    BY <1>2, <1>4
  <2>. QED BY <1>3, <1>4, <2>1
<1>6. ASSUME NEW i \in Nat, i < 10 PROVE Len(Itoa[i]) = 1 /\ Itoa[i][1] = Digits[i + 1]
  <2>1. Itoa[i] = <<Digits[i + 1]>>
    BY <1>6, ItoaIs DEF Written
  <2>. QED BY <2>1
<1>7. ASSUME NEW i \in Nat, i >= 10
      PROVE  /\ Itoa[i] = Append(Itoa[i \div 10], Digits[(i % 10) + 1])
             /\ Itoa[i \div 10] \in Seq(Plain) /\ Digits[(i % 10) + 1] \in Plain
             /\ Len(Itoa[i]) >= 2
  <2>1. Itoa[i] = Append(Itoa[i \div 10], Digits[(i % 10) + 1])
    <3>1. Itoa[i] = Written(Itoa, i)
      BY ItoaIs
    <3>. QED BY <1>7, <3>1 DEF Written
  <2>2. Itoa[i \div 10] \in Seq(Plain)
    BY TenParts, ItoaIs
  <2>3. Digits[(i % 10) + 1] \in Plain
    BY TenParts, Tokens
  <2>4. Len(Itoa[i]) = Len(Itoa[i \div 10]) + 1
    BY <2>1, <2>2, <2>3, AppendProperties
  <2>5. Len(Itoa[i \div 10]) > 0
    <3> DEFINE t == i \div 10
    <3>1. t \in Nat
      BY TenParts
    <3>2. Itoa[t] \in Seq(Plain) /\ Itoa[t] = Written(Itoa, t)
      BY <3>1, ItoaIs
    <3>3. CASE t < 10
      <4>1. Len(Itoa[t]) = 1
        BY <1>6, <3>1, <3>3
      <4>. QED BY <4>1
    <3>4. CASE t >= 10
      <4>1. Itoa[t] = Append(Itoa[t \div 10], Digits[(t % 10) + 1])
        BY <3>1, <3>2, <3>4 DEF Written
      <4>2. Itoa[t \div 10] \in Seq(Plain) /\ Digits[(t % 10) + 1] \in Plain
        BY <3>1, TenParts, Tokens, ItoaIs
      <4>3. Len(Itoa[t]) = Len(Itoa[t \div 10]) + 1 /\ Len(Itoa[t \div 10]) \in Nat
        BY <4>1, <4>2, AppendProperties, LenProperties
      <4>. QED BY <4>3
    <3>. QED BY <3>1, <3>3, <3>4
  <2>6. Len(Itoa[i \div 10]) \in Nat
    BY <2>2, LenProperties
  <2>. QED BY <2>1, <2>2, <2>3, <2>4, <2>5, <2>6
<1>8. CASE b < 10
  <2>1. Digits[a + 1] = Digits[b + 1] /\ a \in 0 .. 9 /\ b \in 0 .. 9
    BY <1>3, <1>4, <1>5, <1>6, <1>8
  <2>. QED BY <1>5, <2>1 DEF Digits
<1>9. CASE a < 10 /\ b >= 10
  <2>1. Len(Itoa[a]) = 1
    BY <1>4, <1>6, <1>9
  <2>2. Len(Itoa[b]) >= 2
    BY <1>7, <1>9
  <2>. QED BY <1>3, <2>1, <2>2
<1>10. CASE a >= 10
  <2>1. b >= 10
    BY <1>4, <1>5, <1>10
  <2> DEFINE x == Itoa[a \div 10]
             y == Itoa[b \div 10]
             d == Digits[(a % 10) + 1]
             e == Digits[(b % 10) + 1]
  <2>2. /\ Append(x, d) = Append(y, e)
        /\ x \in Seq(Plain) /\ y \in Seq(Plain) /\ d \in Plain /\ e \in Plain
    BY <1>3, <1>4, <1>7, <1>10, <2>1
  <2>3. x = y /\ d = e
    <3> HIDE DEF x, y, d, e
    <3>. QED BY <2>2, AppendInjective
  <2>4. /\ a \div 10 \in Nat /\ b \div 10 \in Nat /\ a % 10 \in 0 .. 9 /\ b % 10 \in 0 .. 9
        /\ a = 10 * (a \div 10) + (a % 10) /\ b = 10 * (b \div 10) + (b % 10)
        /\ a \div 10 < a
    BY <1>4, <1>10, TenParts
  <2>5. a % 10 = b % 10
    BY <2>3, <2>4 DEF Digits
  <2>6. a \div 10 = b \div 10
    <3>1. a \div 10 \notin T
      BY <1>2, <1>4, <2>4
    <3>. QED BY <2>3, <2>4, <3>1
  <2>. QED BY <1>5, <2>4, <2>5, <2>6
<1>. QED BY <1>4, <1>5, <1>8, <1>9, <1>10

-----------------------------------------------------------------------------
(* The name a slot wants, and the one it gets.                             *)

\* A harmless name no end of which is a dot or a hyphen, or nothing at all.
Clean(f) == /\ Harmless(f)
            /\ f # <<>> => f[1] \notin Edge /\ f[Len(f)] \notin Edge

\* Plain tokens are harmless wherever they stand.
LEMMA PlainIsHarmless ==
  ASSUME NEW f \in Seq(Plain)
  PROVE  Harmless(f) /\ (f # <<>> => f[1] # "." /\ f[Len(f)] # "." /\ f[1] \notin Edge)
<1>1. Len(f) \in Nat /\ \A i \in 1 .. Len(f) : f[i] \in Plain
  BY LenProperties, ElementOfSeq
<1>2. \A t \in Plain : t # "." /\ t \notin Edge
  BY Tokens DEF Edge
<1>3. f \in Seq(Safe)
  BY Tokens, SeqMonotonic
<1>4. f # <<>> => Len(f) > 0
  BY <1>1, EmptySeq
<1>5. NoDots(f)
  BY <1>1, <1>2 DEF NoDots
<1>. QED BY <1>1, <1>2, <1>3, <1>4, <1>5 DEF Harmless

LEMMA TrimRightClean ==
  ASSUME NEW f, Harmless(f)
  PROVE  LET r == TrimRight(f, Edge)
         IN  /\ Harmless(r)
             /\ r # <<>> => r[1] = f[1] /\ r[Len(r)] \notin Edge
<1>0. f \in Seq(Safe) /\ Len(f) \in Nat
  BY LenProperties DEF Harmless
<1>1. PICK m \in 0 .. Len(f) : TrimRight(f, Edge) = SubSeq(f, 1, m) /\ (m > 0 => f[m] \notin Edge)
  BY <1>0, TrimRightIs
<1> DEFINE r == SubSeq(f, 1, m)
<1>2. /\ Harmless(r) /\ Len(r) = (IF 1 <= m THEN m - 1 + 1 ELSE 0)
      /\ \A i \in 1 .. m - 1 + 1 : r[i] = f[1 + i - 1]
  <2>1. 1 \in 1 .. Len(f) + 1
    BY <1>0
  <2>. QED BY <2>1, PartHarmless
<1> HIDE DEF r
<1>3. ASSUME r # <<>> PROVE m > 0
  <2>1. r \in Seq(Safe)
    BY <1>2 DEF Harmless
  <2>2. Len(r) > 0
    BY <1>3, <2>1, EmptySeq
  <2>. QED BY <1>2, <2>2
<1>4. ASSUME r # <<>> PROVE r[1] = f[1] /\ r[Len(r)] \notin Edge
  <2>1. m > 0 /\ m \in Nat
    BY <1>3, <1>4, <1>0
  <2>2. Len(r) = m /\ r[1] = f[1] /\ r[m] = f[m]
    BY <1>2, <2>1
  <2>. QED BY <1>1, <2>1, <2>2
<1>. QED BY <1>1, <1>2, <1>4 DEF r

LEMMA TrimLeftClean ==
  ASSUME NEW f, Harmless(f)
  PROVE  LET r == TrimLeft(f, Edge)
         IN  /\ Harmless(r)
             /\ r # <<>> => f # <<>> /\ r[Len(r)] = f[Len(f)] /\ r[1] \notin Edge
<1>0. f \in Seq(Safe) /\ Len(f) \in Nat
  BY LenProperties DEF Harmless
<1>1. PICK m \in 1 .. Len(f) + 1 : /\ TrimLeft(f, Edge) = SubSeq(f, m, Len(f))
                                   /\ m <= Len(f) => f[m] \notin Edge
  BY <1>0, TrimLeftIs
<1> DEFINE r == SubSeq(f, m, Len(f))
<1>2. /\ Harmless(r) /\ Len(r) = (IF m <= Len(f) THEN Len(f) - m + 1 ELSE 0)
      /\ \A i \in 1 .. Len(f) - m + 1 : r[i] = f[m + i - 1]
  <2>1. Len(f) \in 0 .. Len(f)
    BY <1>0
  <2>. QED BY <2>1, PartHarmless
<1> HIDE DEF r
<1>3. ASSUME r # <<>> PROVE f # <<>> /\ r[Len(r)] = f[Len(f)] /\ r[1] \notin Edge
  <2>1. r \in Seq(Safe)
    BY <1>2 DEF Harmless
  <2>2. Len(r) > 0
    BY <1>3, <2>1, EmptySeq
  <2>3. m <= Len(f) /\ Len(r) = Len(f) - m + 1
    BY <1>2, <2>2
  <2>4. 1 \in 1 .. Len(f) - m + 1 /\ Len(f) - m + 1 \in 1 .. Len(f) - m + 1
    BY <1>0, <2>3
  <2>5. r[1] = f[m + 1 - 1] /\ r[Len(r)] = f[m + (Len(f) - m + 1) - 1]
    BY <1>2, <2>3, <2>4
  <2>6. r[1] = f[m] /\ r[Len(r)] = f[Len(f)]
    BY <1>0, <2>5
  <2>7. f # <<>>
    BY <1>0, <2>3, EmptySeq
  <2>. QED BY <1>1, <2>3, <2>6, <2>7
<1>. QED BY <1>1, <1>2, <1>3 DEF r

\* What safeStem is asked to clean is a sequence.
LEMMA ItemIDIsSeq ==
  ASSUME NEW id \in Ids, NEW i \in Nat PROVE Len(itemID(id, i)) \in Nat
<1> DEFINE trimmed == TrimLeft(TrimRight(id, {" "}), {" "})
           T == Range(id)
<1>1. id \in Seq(T)
  BY NamesAssumption
<1> HIDE DEF T
<1>2. trimmed \in Seq(T)
  BY <1>1, TrimsAreSeqs
<1>3. itemID(id, i) = Itoa[i] \/ itemID(id, i) = trimmed
  BY DEF itemID
<1>4. Itoa[i] \in Seq(Plain)
  BY ItoaIs
<1> HIDE DEF trimmed
<1>. QED BY <1>2, <1>3, <1>4, LenProperties

\* The stem of a name is clean and is never empty.
LEMMA StemIsClean ==
  ASSUME NEW id, Len(id) \in Nat, NEW i \in Nat
  PROVE  LET s == safeStem(id, i) IN Harmless(s) /\ Opens(s) /\ s[Len(s)] # "."
<1> DEFINE right == TrimRight(Cleaned(id), Edge)
           clean == TrimLeft(right, Edge)
           short == Prefix(clean, MaxStem)
           cut == TrimRight(short, Edge)
           out == IF Len(clean) > MaxStem THEN cut ELSE clean
           number == <<"item", "-">> \o Itoa[i]
<1>1. Harmless(right) /\ (right # <<>> => right[Len(right)] \notin Edge)
  <2>1. Harmless(Cleaned(id))
    BY CleanedHarmless
  <2>. QED BY <2>1, TrimRightClean
<1> HIDE DEF right
<1>2. Clean(clean)
  <2>1. /\ Harmless(clean)
        /\ clean # <<>> => right # <<>> /\ clean[Len(clean)] = right[Len(right)] /\ clean[1] \notin Edge
    BY <1>1, TrimLeftClean
  <2> HIDE DEF clean
  <2>. QED BY <1>1, <2>1 DEF Clean
<1> HIDE DEF clean
<1>3. Clean(out)
  <2>0. clean \in Seq(Safe) /\ Len(clean) \in Nat /\ MaxStem \in Nat
    BY <1>2, NamesAssumption, LenProperties DEF Clean, Harmless
  <2>1. CASE Len(clean) > MaxStem
    <3>1. short = SubSeq(clean, 1, MaxStem)
      BY <2>1 DEF Prefix
    <3>2. 1 \in 1 .. Len(clean) + 1 /\ MaxStem \in 0 .. Len(clean)
      BY <2>0, <2>1
    <3>3. /\ Harmless(short) /\ Len(short) = (IF 1 <= MaxStem THEN MaxStem - 1 + 1 ELSE 0)
          /\ \A k \in 1 .. MaxStem - 1 + 1 : short[k] = clean[1 + k - 1]
      <4>1. Harmless(clean)
        BY <1>2 DEF Clean
      <4>. QED BY <3>1, <3>2, <4>1, PartHarmless
    <3> HIDE DEF short
    <3>4. Harmless(cut) /\ (cut # <<>> => cut[1] = short[1] /\ cut[Len(cut)] \notin Edge)
      BY <3>3, TrimRightClean
    <3>5. ASSUME cut # <<>> PROVE cut[1] \notin Edge
      <4>1. MaxStem # 0
        <5>1. SUFFICES ASSUME MaxStem = 0 PROVE FALSE
          OBVIOUS
        <5>2. Len(short) = 0 /\ short \in Seq(Safe)
          BY <3>3, <5>1 DEF Harmless
        <5>3. short = <<>>
          BY <5>2, EmptySeq
        <5>4. PICK m \in 0 .. Len(short) : cut = SubSeq(short, 1, m) /\ (m > 0 => short[m] \notin Edge)
          BY <5>2, TrimRightIs
        <5>5. cut = <<>>
          BY <5>2, <5>4, SubSeqEmpty
        <5>. QED BY <3>5, <5>5
      <4>2. short[1] = clean[1]
        BY <2>0, <3>3, <4>1
      <4>3. clean # <<>>
        BY <2>0, <2>1, EmptySeq
      <4>. QED BY <1>2, <3>4, <3>5, <4>2, <4>3 DEF Clean
    <3> HIDE DEF cut
    <3>. QED BY <2>1, <3>4, <3>5 DEF Clean
  <2>2. CASE ~(Len(clean) > MaxStem)
    <3> HIDE DEF cut
    <3>. QED BY <1>2, <2>2
  <2>. QED BY <2>1, <2>2
<1>4. Harmless(number) /\ Opens(number) /\ number[Len(number)] # "."
  <2> DEFINE a == <<"item", "-">>
             b == Itoa[i]
  <2>1. b \in Seq(Plain) /\ b # <<>>
    <3>1. b \in Seq(Plain) /\ b = Written(Itoa, i)
      BY ItoaIs
    <3>2. CASE i < 10
      BY <3>1, <3>2 DEF Written
    <3>3. CASE i >= 10
      <4>1. Itoa[i \div 10] \in Seq(Plain) /\ Digits[(i % 10) + 1] \in Plain
        BY TenParts, Tokens, ItoaIs
      <4>. QED BY <3>1, <3>3, <4>1, AppendProperties DEF Written
    <3>. QED BY <3>1, <3>2, <3>3
  <2>2. a = <<"item">> \o <<"-">>
    OBVIOUS
  <2>3. Harmless(a) /\ a # <<>> /\ a[1] = "item" /\ a[Len(a)] = "-"
    <3>1. Harmless(<<"item">>) /\ Harmless(<<"-">>)
      BY Tokens, TokenHarmless
    <3>2. Harmless(<<"item">> \o <<"-">>)
      BY <3>1, Tokens, JoinHarmless
    <3>. QED BY <2>2, <3>2
  <2>4. Harmless(b) /\ b[1] # "." /\ b[Len(b)] # "."
    BY <2>1, PlainIsHarmless
  <2> HIDE DEF a, b
  <2>5. Harmless(a \o b) /\ (a \o b)[1] = "item" /\ (a \o b)[Len(a \o b)] = b[Len(b)] /\ a \o b # <<>>
    BY <2>1, <2>3, <2>4, JoinHarmless
  <2>. QED BY <2>4, <2>5, Tokens DEF a, b, Opens
<1> HIDE DEF out, number
<1>5. safeStem(id, i) = IF out = <<>> THEN number ELSE out
  BY DEF safeStem, out, clean, right, cut, short, number
<1>6. out # <<>> => Harmless(out) /\ Opens(out) /\ out[Len(out)] # "."
  BY <1>3 DEF Clean, Opens, Edge
<1>. QED BY <1>4, <1>5, <1>6

\* An extension is made of plain tokens.
LEMMA ExtIsPlain ==
  ASSUME NEW ext \in Exts PROVE safeExt(ext) \in Seq(Plain)
<1> DEFINE t == TrimLeft(ext, {"."})
           low == [k \in DOMAIN t |-> Lower(t[k])]
           S == Plain \ {"_"}
           out == Kept(low, S)
           T == {low[k] : k \in DOMAIN low}
<1>1. ext \in Seq(Range(ext))
  BY NamesAssumption
<1>2. PICK U : t \in Seq(U)
  BY <1>1, TrimsAreSeqs
<1>3. Len(t) \in Nat /\ DOMAIN t = 1 .. Len(t)
  BY <1>2, LenProperties
<1> HIDE DEF t
<1>4. low \in [1 .. Len(t) -> T]
  BY <1>3
<1>5. low \in Seq(T)
  <2> HIDE DEF low, T
  <2>. QED BY <1>3, <1>4, SeqDef
<1> HIDE DEF low, T
<1>6. out \in Seq(Plain)
  <2>0. T \cap S \subseteq Plain
    OBVIOUS
  <2> HIDE DEF S
  <2>1. PICK g : Keeps(g, low, S, T) /\ out = g[Len(low)]
    BY <1>5, KeptRuns
  <2>2. Len(low) \in Nat
    BY <1>5, LenProperties
  <2>3. out \in Seq(T \cap S)
    <3> HIDE DEF out
    <3>1. Len(low) \in 0 .. Len(low)
      BY <2>2
    <3>. QED BY <2>1, <3>1 DEF Keeps
  <2>. QED BY <2>0, <2>3, SeqMonotonic
<1>7. safeExt(ext) = IF out = <<>> THEN <<"bin">> ELSE Prefix(out, MaxExt)
  BY DEF safeExt, out, low, t, S
<1> HIDE DEF out
<1>8. <<"bin">> \in Seq(Plain)
  BY Tokens, OneToken
<1>9. Prefix(out, MaxExt) \in Seq(Plain)
  <2>1. Len(out) \in Nat /\ MaxExt \in Nat /\ \A i \in 1 .. Len(out) : out[i] \in Plain
    BY <1>6, NamesAssumption, LenProperties, ElementOfSeq
  <2>2. CASE Len(out) > MaxExt
    <3>1. \A i \in 1 .. MaxExt : out[i] \in Plain
      BY <2>1, <2>2
    <3>2. SubSeq(out, 1, MaxExt) \in Seq(Plain)
      BY <2>1, <3>1, SubSeqProperties
    <3>. QED BY <2>2, <3>2 DEF Prefix
  <2>3. CASE ~(Len(out) > MaxExt)
    BY <1>6, <2>3 DEF Prefix
  <2>. QED BY <2>2, <2>3
<1>. QED BY <1>7, <1>8, <1>9

\* A slot of the batch, and the name it asks for.
SlotsOK == slots \in [1 .. N -> [id: Ids, ok: BOOLEAN, ext: Exts]]

Good(f) == Harmless(f) /\ Opens(f)

LEMMA WantedIsGood ==
  ASSUME SlotsOK, NEW i \in 1 .. N PROVE Good(Wanted(i))
<1> DEFINE stem == safeStem(itemID(slots[i].id, i), i)
           ext  == safeExt(slots[i].ext)
           dot  == <<".">>
<1>0. slots[i].id \in Ids /\ slots[i].ext \in Exts /\ i \in Nat
  BY NAssumption DEF SlotsOK
<1>1. Harmless(stem) /\ Opens(stem) /\ stem[Len(stem)] # "."
  <2>1. Len(itemID(slots[i].id, i)) \in Nat
    BY <1>0, ItemIDIsSeq
  <2>. QED BY <1>0, <2>1, StemIsClean
<1>2. Harmless(ext) /\ (ext # <<>> => ext[1] # ".")
  <2>1. ext \in Seq(Plain)
    BY <1>0, ExtIsPlain
  <2> HIDE DEF ext
  <2>. QED BY <2>1, PlainIsHarmless
<1>3. Harmless(dot) /\ dot # <<>> /\ dot[1] = "." /\ Len(dot) = 1
  BY Tokens, TokenHarmless
<1>4. Wanted(i) = (stem \o dot) \o ext
  BY Zenon DEF Wanted, stem, dot, ext
<1> HIDE DEF stem, ext, dot
<1>5. Harmless(stem \o dot) /\ (stem \o dot)[1] = stem[1] /\ stem \o dot # <<>>
  BY <1>1, <1>3, JoinHarmless DEF Opens
<1> DEFINE front == stem \o dot
<1>6. Harmless(front) /\ front # <<>> /\ front[1] = stem[1]
  BY <1>5
<1> HIDE DEF front
<1>7. Harmless(front \o ext) /\ (front \o ext)[1] = front[1] /\ front \o ext # <<>>
  BY <1>2, <1>6, JoinHarmless
<1>. QED BY <1>1, <1>4, <1>6, <1>7 DEF Good, Opens, front

\* A numbered name is a front, a hyphen, the number and a back.
FrontPart(name) == LET dots == {k \in DOMAIN name : name[k] = "."}
               IN  SubSeq(name, 1, IF dots = {} THEN Len(name) ELSE Max(dots) - 1)
BackPart(name)  == LET dots == {k \in DOMAIN name : name[k] = "."}
                   cut  == IF dots = {} THEN Len(name) ELSE Max(dots) - 1
               IN  SubSeq(name, cut + 1, Len(name))

LEMMA NumberedIs ==
  ASSUME NEW name, Good(name)
  PROVE  /\ Harmless(FrontPart(name)) /\ FrontPart(name) # <<>> /\ FrontPart(name)[1] = name[1]
         /\ Harmless(BackPart(name))
         /\ \A n : Numbered(name, n) = ((FrontPart(name) \o <<"-">>) \o Itoa[n]) \o BackPart(name)
<1> DEFINE dots == {k \in DOMAIN name : name[k] = "."}
           cut  == IF dots = {} THEN Len(name) ELSE Max(dots) - 1
<1>0. /\ name \in Seq(Safe) /\ Len(name) \in Nat /\ Len(name) > 0
      /\ DOMAIN name = 1 .. Len(name) /\ name[1] # "."
  BY LenProperties, EmptySeq DEF Good, Harmless, Opens, Edge
<1>1. cut \in 1 .. Len(name)
  <2>1. CASE dots = {}
    BY <1>0, <2>1
  <2>2. CASE dots # {}
    <3>1. dots \in SUBSET (0 .. Len(name)) /\ \A k \in dots : k \in 2 .. Len(name)
      BY <1>0
    <3>2. \E m \in dots : \A k \in dots : k <= m
      <4> HIDE DEF dots
      <4>. QED BY <1>0, <2>2, <3>1, GreatestNumber
    <3>3. Max(dots) \in dots
      <4>1. \E m \in dots : \A k \in dots : m >= k
        BY <3>1, <3>2
      <4> HIDE DEF dots
      <4>. QED BY <4>1 DEF Max
    <3>4. cut = Max(dots) - 1
      BY <2>2
    <3>5. Max(dots) \in 2 .. Len(name)
      <4> HIDE DEF dots
      <4>. QED BY <3>1, <3>3, Zenon
    <3> DEFINE m == Max(dots)
    <3> HIDE DEF m
    <3>. QED BY <1>0, <3>4, <3>5 DEF m
  <2>. QED BY <2>1, <2>2
<1>2. FrontPart(name) = SubSeq(name, 1, cut) /\ BackPart(name) = SubSeq(name, cut + 1, Len(name))
  BY DEF FrontPart, BackPart
<1>3. \A n : Numbered(name, n) = ((FrontPart(name) \o <<"-">>) \o Itoa[n]) \o BackPart(name)
  BY <1>2, Zenon DEF Numbered
<1> HIDE DEF cut
<1>4. /\ Harmless(SubSeq(name, 1, cut))
      /\ Len(SubSeq(name, 1, cut)) = IF 1 <= cut THEN cut - 1 + 1 ELSE 0
      /\ \A i \in 1 .. cut - 1 + 1 : SubSeq(name, 1, cut)[i] = name[1 + i - 1]
  <2>1. 1 \in 1 .. Len(name) + 1 /\ cut \in 0 .. Len(name)
    BY <1>0, <1>1
  <2>. QED BY <2>1, PartHarmless DEF Good
<1>5. Harmless(SubSeq(name, cut + 1, Len(name)))
  <2> DEFINE c == cut + 1
  <2>1. c \in 1 .. Len(name) + 1 /\ Len(name) \in 0 .. Len(name)
    BY <1>0, <1>1
  <2> HIDE DEF c
  <2>2. Harmless(SubSeq(name, c, Len(name)))
    BY <2>1, PartHarmless DEF Good
  <2>. QED BY <2>2 DEF c
<1>6. Len(SubSeq(name, 1, cut)) > 0 /\ SubSeq(name, 1, cut)[1] = name[1]
  BY <1>1, <1>4
<1>7. SubSeq(name, 1, cut) # <<>>
  <2> DEFINE s == SubSeq(name, 1, cut)
  <2>1. Len(s) > 0
    BY <1>6
  <2>2. Len(<<>>) = 0
    OBVIOUS
  <2> HIDE DEF s
  <2>3. s # <<>>
    BY <2>1, <2>2
  <2>. QED BY <2>3 DEF s
<1>. QED BY <1>2, <1>3, <1>4, <1>5, <1>6, <1>7

\* A number put in a good name leaves it good.
LEMMA NumberedIsGood ==
  ASSUME NEW name, Good(name), NEW n \in Nat PROVE Good(Numbered(name, n))
<1> DEFINE f == FrontPart(name)
           b == BackPart(name)
           h == <<"-">>
           d == Itoa[n]
<1>1. Harmless(f) /\ f # <<>> /\ f[1] = name[1] /\ Harmless(b)
  BY NumberedIs
<1>2. Harmless(h) /\ h[1] = "-" /\ h # <<>> /\ h[Len(h)] = "-"
  BY Tokens, TokenHarmless
<1>3. d \in Seq(Plain) /\ Harmless(d) /\ (d # <<>> => d[1] # "." /\ d[Len(d)] # ".")
  BY ItoaIs, PlainIsHarmless
<1>4. d # <<>>
  <2>1. d = Written(Itoa, n)
    BY ItoaIs
  <2>2. CASE n < 10
    BY <2>1, <2>2 DEF Written
  <2>3. CASE n >= 10
    <3>1. Itoa[n \div 10] \in Seq(Plain) /\ Digits[(n % 10) + 1] \in Plain
      BY TenParts, Tokens, ItoaIs
    <3>. QED BY <2>1, <2>3, <3>1, AppendProperties DEF Written
  <2>. QED BY <2>2, <2>3
<1>5. Numbered(name, n) = ((f \o h) \o d) \o b
  BY NumberedIs
<1> HIDE DEF f, b, h, d
<1> DEFINE p == f \o h
           q == p \o d
<1>6. Harmless(p) /\ p # <<>> /\ p[1] = f[1]
  BY <1>1, <1>2, Tokens, JoinHarmless
<1> HIDE DEF p
<1>7. Harmless(q) /\ q # <<>> /\ q[1] = p[1] /\ q[Len(q)] # "."
  BY <1>3, <1>4, <1>6, JoinHarmless
<1> HIDE DEF q
<1>8. Harmless(q \o b) /\ q \o b # <<>> /\ (q \o b)[1] = q[1]
  BY <1>1, <1>7, JoinHarmless
<1>. QED BY <1>1, <1>5, <1>6, <1>7, <1>8 DEF p, q, Good, Opens

\* Two different numbers give two different names.
LEMMA NumberedInjective ==
  ASSUME NEW name, Good(name), NEW m \in Nat, NEW n \in Nat,
         Numbered(name, m) = Numbered(name, n)
  PROVE  m = n
<1> DEFINE A == FrontPart(name) \o <<"-">>
           B == BackPart(name)
<1>1. (A \o Itoa[m]) \o B = (A \o Itoa[n]) \o B
  BY NumberedIs
<1>2. A \in Seq(Safe) /\ B \in Seq(Safe)
  <2>1. FrontPart(name) \in Seq(Safe) /\ BackPart(name) \in Seq(Safe) /\ <<"-">> \in Seq(Safe)
    BY NumberedIs, Tokens, OneToken DEF Harmless
  <2>. QED BY <2>1, ConcatProperties
<1>3. Itoa[m] \in Seq(Safe) /\ Itoa[n] \in Seq(Safe)
  BY ItoaIs, PlainIsHarmless DEF Harmless
<1> HIDE DEF A, B
<1>4. A \o Itoa[m] = A \o Itoa[n]
  <2>1. A \o Itoa[m] \in Seq(Safe) /\ A \o Itoa[n] \in Seq(Safe)
    BY <1>2, <1>3, ConcatProperties
  <2>. QED BY <1>1, <1>2, <2>1, ConcatSimplifications
<1>5. Itoa[m] = Itoa[n]
  BY <1>2, <1>3, <1>4, ConcatSimplifications
<1>. QED BY <1>5, ItoaInjective

\* The loop of unique ends, and what it returns is free, and good.
LEMMA UniqueIsFree ==
  ASSUME NEW name, Good(name), NEW T, IsFiniteSet(T), Cardinality(T) <= N
  PROVE  unique(name, T) \notin T /\ Good(unique(name, T))
<1> DEFINE S == 2 .. MaxSuffix
           Free == {n \in S : Numbered(name, n) \notin T}
<1>1. MaxSuffix \in Nat /\ MaxSuffix >= N + 2 /\ N \in Nat
  BY SuffixAssumption, NAssumption
<1>2. Free # {}
  <2>1. SUFFICES ASSUME Free = {} PROVE FALSE
    OBVIOUS
  <2> DEFINE f == [n \in S |-> Numbered(name, n)]
  <2>2. f \in [S -> T]
    BY <2>1
  <2>3. IsFiniteSet(S) /\ Cardinality(S) = MaxSuffix - 1
    BY <1>1, FS_Interval
  <2>4. Cardinality(T) \in Nat
    BY FS_CardinalityType
  <2>5. Cardinality(T) < Cardinality(S)
    BY <1>1, <2>3, <2>4
  <2>6. PICK x, y \in S : x # y /\ f[x] = f[y]
    <3> HIDE DEF f, S
    <3>. QED BY <2>2, <2>3, <2>5, FS_PigeonHole
  <2>7. x \in Nat /\ y \in Nat
    BY <1>1
  <2>8. Numbered(name, x) = Numbered(name, y)
    BY <2>6
  <2>. QED BY <2>6, <2>7, <2>8, NumberedInjective
<1>3. PICK least \in Free : \A n \in Free : least <= n
  <2>1. Free \in SUBSET Nat
    BY <1>1
  <2> HIDE DEF Free
  <2>. QED BY <1>2, <2>1, LeastNumber
<1> DEFINE P(n) == /\ Numbered(name, n) \notin T
                   /\ \A m \in 2 .. (n - 1) : Numbered(name, m) \in T
           found == CHOOSE n \in S : P(n)
<1>4. least \in S /\ P(least)
  BY <1>1, <1>3
<1>5. found \in S /\ P(found)
  <2> HIDE DEF P, S
  <2>. QED BY <1>4
<1>6. unique(name, T) = IF name \notin T THEN name ELSE Numbered(name, found)
  BY DEF unique
<1> HIDE DEF found
<1>7. found \in Nat /\ Numbered(name, found) \notin T
  BY <1>1, <1>5
<1>8. Good(Numbered(name, found))
  BY <1>7, NumberedIsGood
<1>. QED BY <1>6, <1>7, <1>8

-----------------------------------------------------------------------------
(* The state of assignFilenames and zipOutput.                             *)

(* A slot assignFilenames has not reached has no name yet.                 *)
Ahead == \A i \in 1 .. N : i >= next => filename[i] = <<>>

(* A slot it has passed has a name exactly when it rendered.               *)
Behind == \A i \in 1 .. N : i < next => (filename[i] # <<>> <=> slots[i].ok)

(* At most one name is taken per slot passed, beside the manifest's.       *)
FewTaken == IsFiniteSet(taken) /\ Cardinality(taken) <= next

GoodNames == \A i \in 1 .. N : filename[i] # <<>> => Good(filename[i])

PackedLast == entries # <<>> => next = N + 1

NamesInv == /\ SlotsOK /\ NamesTypeOK /\ Ahead /\ Behind /\ FewTaken
            /\ DistinctEntries /\ GoodNames /\ PackedLast /\ ManifestAccounts

LEMMA NamesInvInit == NamesInit => NamesInv
<1> SUFFICES ASSUME NamesInit PROVE NamesInv
  OBVIOUS
<1>1. N \in Nat /\ N > 0
  BY NAssumption
<1>2. FewTaken
  <2>1. IsFiniteSet({manifestName}) /\ Cardinality({manifestName}) = 1
    BY FS_Singleton, Zenon
  <2>. QED BY <2>1 DEF NamesInit, FewTaken
<1>3. manifestName # <<>>
  BY DEF manifestName
<1>4. NamesTypeOK /\ Ahead /\ Behind /\ SlotsOK /\ GoodNames
  BY <1>1 DEF NamesInit, NamesTypeOK, Ahead, Behind, SlotsOK, GoodNames
<1>5. DistinctEntries
  BY <1>3 DEF NamesInit, DistinctEntries
<1>6. PackedLast /\ ManifestAccounts
  BY DEF NamesInit, PackedLast, ManifestAccounts
<1>. QED BY <1>2, <1>4, <1>5, <1>6 DEF NamesInv

LEMMA NameSlotKeeps == NamesInv /\ NameSlot => NamesInv'
<1> SUFFICES ASSUME NamesInv, NameSlot PROVE NamesInv'
  OBVIOUS
<1> DEFINE name == unique(Wanted(next), taken)
<1>1. N \in Nat /\ next \in 1 .. N
  BY NAssumption DEF NameSlot
<1>2. /\ taken' = taken \cup {name}
      /\ filename' = [filename EXCEPT ![next] = name]
      /\ next' = next + 1
      /\ slots' = slots /\ entries' = entries /\ slots[next].ok
  BY DEF NameSlot
<1>3. IsFiniteSet(taken) /\ Cardinality(taken) \in Nat /\ Cardinality(taken) <= next
  BY FS_CardinalityType DEF NamesInv, FewTaken
<1>4. name \notin taken /\ Good(name)
  <2>1. Good(Wanted(next))
    BY <1>1, WantedIsGood DEF NamesInv
  <2>2. Cardinality(taken) <= N
    BY <1>1, <1>3
  <2>. QED BY <1>3, <2>1, <2>2, UniqueIsFree
<1> HIDE DEF name
<1>5. \A i \in 1 .. N : filename'[i] = IF i = next THEN name ELSE filename[i]
  BY <1>2 DEF NamesInv, NamesTypeOK
<1>6. SlotsOK'
  BY <1>2 DEF NamesInv, SlotsOK
<1>7. NamesTypeOK'
  BY <1>1, <1>2, <1>5 DEF NamesInv, NamesTypeOK
<1>8. Ahead'
  BY <1>1, <1>2, <1>5 DEF NamesInv, Ahead
<1>9. FewTaken'
  BY <1>1, <1>2, <1>3, FS_AddElement, SMTT(30) DEF FewTaken
<1>10. DistinctEntries'
  BY <1>4, <1>5 DEF NamesInv, NamesTypeOK, DistinctEntries
<1>11. name # <<>>
  BY <1>4 DEF Good, Opens
<1>12. Behind'
  <2> SUFFICES ASSUME NEW i \in 1 .. N, i < next'
               PROVE  filename'[i] # <<>> <=> slots'[i].ok
    BY DEF Behind
  <2>1. CASE i = next
    BY <1>2, <1>5, <1>11, <2>1
  <2>2. CASE i # next
    <3>1. i < next
      BY <1>1, <1>2, <2>2
    <3>. QED BY <1>2, <1>5, <2>2, <3>1 DEF NamesInv, Behind
  <2>. QED BY <2>1, <2>2
<1>13. GoodNames'
  BY <1>4, <1>5 DEF NamesInv, GoodNames
<1>14. entries = <<>>
  BY <1>1 DEF NamesInv, PackedLast
<1>15. PackedLast' /\ ManifestAccounts'
  BY <1>2, <1>14 DEF PackedLast, ManifestAccounts
<1>. QED BY <1>6, <1>7, <1>8, <1>9, <1>10, <1>12, <1>13, <1>15 DEF NamesInv

\* The files zipOutput keeps: those of the slots that rendered, in input order.
LEMMA FilesKept ==
  LET ok   == {i \in 1 .. N : slots[i].ok}
      good == Kept([i \in 1 .. N |-> i], ok)
  IN  /\ good \in Seq(1 .. N)
      /\ \A j \in 1 .. Len(good) : good[j] \in ok
      /\ \A j \in 1 .. Len(good) : \A l \in 1 .. (j - 1) : good[l] < good[j]
      /\ \A i \in ok : \E j \in 1 .. Len(good) : good[j] = i
<1> DEFINE ok == {i \in 1 .. N : slots[i].ok}
           s == [i \in 1 .. N |-> i]
           good == Kept(s, ok)
           Upto(q, k) == /\ \A j \in 1 .. Len(q) : q[j] \in ok /\ q[j] <= k
                         /\ \A j \in 1 .. Len(q) : \A l \in 1 .. (j - 1) : q[l] < q[j]
                         /\ \A i \in ok : i <= k => \E j \in 1 .. Len(q) : q[j] = i
<1>0. N \in Nat
  BY NAssumption
<1>1. s \in Seq(1 .. N) /\ Len(s) = N /\ \A i \in 1 .. N : s[i] = i
  <2>1. s \in [1 .. N -> 1 .. N]
    OBVIOUS
  <2>. QED BY <1>0, <2>1, SeqDef
<1>2. \A i \in ok : i \in 1 .. N
  OBVIOUS
<1> HIDE DEF s, ok
<1>3. PICK g : Keeps(g, s, ok, 1 .. N) /\ good = g[Len(s)]
  BY <1>1, KeptRuns
<1>4. /\ g \in [0 .. N -> Seq((1 .. N) \cap ok)] /\ g[0] = <<>>
      /\ \A k \in 1 .. N : g[k] = IF k \in ok THEN Append(g[k - 1], k) ELSE g[k - 1]
  BY <1>1, <1>3 DEF Keeps
<1>5. ASSUME NEW k \in 0 .. N
      PROVE  g[k] \in Seq(ok) /\ g[k] \in Seq(1 .. N) /\ Len(g[k]) \in Nat
  <2>1. g[k] \in Seq((1 .. N) \cap ok)
    BY <1>4
  <2> DEFINE Z == (1 .. N) \cap ok
             Y == 1 .. N
  <2>2. Z \subseteq ok /\ Z \subseteq Y
    OBVIOUS
  <2> HIDE DEF Z, Y
  <2>3. g[k] \in Seq(Z)
    BY <2>1 DEF Z
  <2>4. g[k] \in Seq(ok) /\ g[k] \in Seq(Y)
    BY <2>2, <2>3, SeqMonotonic
  <2>5. Len(g[k]) \in Nat
    BY <2>3, LenProperties
  <2>. QED BY <2>4, <2>5 DEF Y
<1> DEFINE P == {k \in 0 .. N : Upto(g[k], k)}
<1>6. 0 \in P
  <2>1. 0 \in 0 .. N /\ Len(g[0]) = 0
    BY <1>0, <1>4
  <2>2. \A i \in ok : ~(i <= 0)
    BY <1>2
  <2>. QED BY <2>1, <2>2
<1>7. ASSUME NEW k \in 1 .. N, k - 1 \in P PROVE k \in P
  <2> DEFINE q == g[k - 1]
             n == Len(q)
  <2>0. k - 1 \in 0 .. N /\ k \in 0 .. N /\ k \in Nat
    BY <1>0
  <2>1. q \in Seq(ok) /\ n \in Nat
    BY <1>5, <2>0
  <2>2. Upto(q, k - 1)
    BY <1>7
  <2>3. CASE k \notin ok
    <3>1. g[k] = q
      BY <1>4, <2>3
    <3>2. \A i \in ok : i <= k => i <= k - 1
      BY <1>2, <2>3
    <3>3. \A j \in 1 .. n : q[j] \in ok /\ q[j] <= k - 1
      BY <2>2
    <3> HIDE DEF q
    <3>4. \A j \in 1 .. n : q[j] <= k
      BY <1>2, <2>0, <3>3
    <3>5. Upto(q, k)
      BY <2>2, <3>2, <3>3, <3>4
    <3>. QED BY <2>0, <3>1, <3>5
  <2>4. CASE k \in ok
    <3> DEFINE t == g[k]
    <3>1. t = Append(q, k)
      BY <1>4, <2>4
    <3> HIDE DEF q
    <3>2. /\ Len(t) = n + 1 /\ t[n + 1] = k
          /\ \A j \in 1 .. n : t[j] = q[j]
      BY <2>1, <2>4, <3>1, AppendProperties
    <3> HIDE DEF t
    <3>3. \A j \in 1 .. n : q[j] \in ok /\ q[j] \in 1 .. N /\ q[j] <= k - 1
      BY <1>2, <2>2
    <3>4. \A j \in 1 .. Len(t) : j = n + 1 \/ j \in 1 .. n
      BY <2>1, <3>2
    <3>5. \A j \in 1 .. Len(t) : t[j] \in ok /\ t[j] <= k
      BY <2>0, <2>4, <3>2, <3>3, <3>4
    <3>6. ASSUME NEW j \in 1 .. Len(t), NEW l \in 1 .. (j - 1) PROVE t[l] < t[j]
      <4>1. l \in 1 .. n
        BY <2>1, <3>2
      <4>2. CASE j = n + 1
        <5>1. t[j] = k /\ t[l] = q[l] /\ q[l] \in 1 .. N /\ q[l] <= k - 1
          BY <3>2, <3>3, <4>1, <4>2
        <5>. QED BY <2>0, <5>1
      <4>3. CASE j \in 1 .. n
        <5>1. t[j] = q[j] /\ t[l] = q[l]
          BY <3>2, <4>1, <4>3
        <5>. QED BY <2>2, <4>3, <5>1
      <4>. QED BY <3>4, <4>2, <4>3
    <3>7. ASSUME NEW i \in ok, i <= k PROVE \E j \in 1 .. Len(t) : t[j] = i
      <4>1. n + 1 \in 1 .. Len(t) /\ \A j \in 1 .. n : j \in 1 .. Len(t)
        BY <2>1, <3>2
      <4>2. CASE i = k
        BY <3>2, <4>1, <4>2
      <4>3. CASE i # k
        <5>1. i <= k - 1
          BY <1>2, <2>0, <3>7, <4>3
        <5>2. PICK j \in 1 .. n : q[j] = i
          BY <2>2, <5>1
        <5>. QED BY <3>2, <4>1, <5>2
      <4>. QED BY <4>2, <4>3
    <3>8. Upto(t, k)
      BY <3>5, <3>6, <3>7
    <3>. QED BY <2>0, <3>8 DEF t
  <2>. QED BY <2>3, <2>4
<1>8. Upto(good, N)
  <2>1. \A k \in 1 .. N : k - 1 \in P => k \in P
    BY <1>7
  <2>2. \A k \in 0 .. N : k \in P
    <3> HIDE DEF P
    <3>. QED BY <1>0, <1>6, <2>1, Induction
  <2>3. N \in 0 .. N
    BY <1>0
  <2>4. Upto(g[N], N)
    BY <2>2, <2>3
  <2>5. good = g[N]
    BY <1>1, <1>3
  <2>. QED BY <2>4, <2>5
<1>9. good \in Seq(1 .. N)
  <2>1. N \in 0 .. N /\ good = g[N]
    BY <1>0, <1>1, <1>3
  <2> HIDE DEF good
  <2>. QED BY <1>5, <2>1
<1>10. \A i \in ok : i <= N
  BY <1>0, <1>2
<1> HIDE DEF good
<1>11. /\ \A j \in 1 .. Len(good) : good[j] \in ok
       /\ \A j \in 1 .. Len(good) : \A l \in 1 .. (j - 1) : good[l] < good[j]
       /\ \A i \in ok : \E j \in 1 .. Len(good) : good[j] = i
  BY <1>8, <1>10
<1>. QED BY <1>9, <1>11 DEF good, s, ok

LEMMA PackKeeps == NamesInv /\ Pack => NamesInv'
<1> SUFFICES ASSUME NamesInv, Pack PROVE NamesInv'
  OBVIOUS
<1> DEFINE ok == {i \in 1 .. N : slots[i].ok}
           good == Kept([i \in 1 .. N |-> i], ok)
           files == [k \in DOMAIN good |-> [name |-> filename[good[k]], item |-> good[k]]]
           last == [name |-> manifestName, item |-> 0]
           n == Len(good)
<1>1. next = N + 1 /\ N \in Nat /\ UNCHANGED <<slots, next, taken, filename>>
  BY NAssumption DEF Pack
<1>2. entries' = Append(files, last)
  BY DEF Pack
<1>3. /\ good \in Seq(1 .. N)
      /\ \A j \in 1 .. n : good[j] \in ok
      /\ \A j \in 1 .. n : \A l \in 1 .. (j - 1) : good[l] < good[j]
      /\ \A i \in ok : \E j \in 1 .. n : good[j] = i
  BY FilesKept
<1>4. \A i \in 1 .. N : i \in ok <=> filename[i] # <<>>
  BY <1>1 DEF NamesInv, Behind
<1> HIDE DEF ok, good
<1>5. n \in Nat /\ DOMAIN good = 1 .. n /\ \A j \in 1 .. n : good[j] \in 1 .. N
  BY <1>3, LenProperties, ElementOfSeq
<1> DEFINE T == {files[k] : k \in 1 .. n} \cup {last}
<1>6. /\ files \in Seq(T) /\ Len(files) = n
      /\ \A k \in 1 .. n : files[k].name = filename[good[k]] /\ files[k].item = good[k]
  <2>1. files \in [1 .. n -> T]
    BY <1>5
  <2>2. \A k \in 1 .. n : files[k].name = filename[good[k]] /\ files[k].item = good[k]
    BY <1>5
  <2> HIDE DEF files, T
  <2>. QED BY <1>5, <2>1, <2>2, SeqDef
<1>7. last \in T /\ last.item = 0
  OBVIOUS
<1> HIDE DEF files, T, last
<1>8. /\ Len(entries') = n + 1 /\ DOMAIN entries' = 1 .. n + 1 /\ entries' # <<>>
      /\ entries'[n + 1] = last
      /\ \A k \in 1 .. n : entries'[k] = files[k]
  <2>1. Append(files, last) \in Seq(T)
    BY <1>6, <1>7, AppendProperties
  <2>. QED BY <1>2, <1>6, <1>7, <2>1, AppendProperties, LenProperties
<1>9. ManifestAccounts'
  <2>1. entries'[Len(entries')] = [name |-> manifestName, item |-> 0]
    BY <1>8 DEF last
  <2>2. ASSUME NEW k \in 1 .. (Len(entries') - 1)
        PROVE  /\ entries'[k].name = filename'[entries'[k].item]
               /\ \A l \in 1 .. (k - 1) : entries'[l].item < entries'[k].item
    <3>1. k \in 1 .. n /\ \A l \in 1 .. (k - 1) : l \in 1 .. n
      BY <1>5, <1>8
    <3>2. entries'[k].name = filename[good[k]] /\ entries'[k].item = good[k]
      BY <1>6, <1>8, <3>1
    <3>3. \A l \in 1 .. (k - 1) : entries'[l].item = good[l]
      BY <1>6, <1>8, <3>1
    <3>. QED BY <1>1, <1>3, <3>1, <3>2, <3>3
  <2>3. ASSUME NEW i \in 1 .. N
        PROVE  filename'[i] # <<>> <=> \E k \in DOMAIN entries' : entries'[k].item = i
    <3>1. ASSUME filename'[i] # <<>> PROVE \E k \in DOMAIN entries' : entries'[k].item = i
      <4>1. i \in ok
        BY <1>1, <1>4, <3>1
      <4>2. PICK j \in 1 .. n : good[j] = i
        BY <1>3, <4>1
      <4>3. j \in DOMAIN entries' /\ entries'[j].item = i
        BY <1>5, <1>6, <1>8, <4>2
      <4>. QED BY <4>3
    <3>2. ASSUME NEW k \in DOMAIN entries', entries'[k].item = i PROVE filename'[i] # <<>>
      <4>1. k # n + 1
        BY <1>7, <1>8, <3>2
      <4>2. k \in 1 .. n
        BY <1>5, <1>8, <4>1
      <4>3. good[k] = i /\ good[k] \in ok
        BY <1>3, <1>6, <1>8, <3>2, <4>2
      <4>. QED BY <1>1, <1>4, <4>3
    <3>. QED BY <3>1, <3>2
  <2>. QED BY <2>1, <2>2, <2>3 DEF ManifestAccounts
<1>10. PackedLast'
  BY <1>1 DEF PackedLast
<1>11. /\ SlotsOK' /\ NamesTypeOK' /\ Ahead' /\ Behind' /\ FewTaken'
       /\ DistinctEntries' /\ GoodNames'
  BY <1>1 DEF NamesInv, SlotsOK, NamesTypeOK, Ahead, Behind, FewTaken, DistinctEntries, GoodNames
<1>. QED BY <1>9, <1>10, <1>11 DEF NamesInv

LEMMA NamesInvStep == NamesInv /\ [NamesNext]_namesVars => NamesInv'
<1> SUFFICES ASSUME NamesInv, [NamesNext]_namesVars PROVE NamesInv'
  OBVIOUS
<1>1. CASE NameSlot
  BY <1>1, NameSlotKeeps
<1>2. CASE SkipSlot
  <2>1. N \in Nat /\ next \in 1 .. N /\ ~slots[next].ok
    BY <1>2, NAssumption DEF SkipSlot
  <2>2. next' = next + 1 /\ UNCHANGED <<slots, taken, filename, entries>>
    BY <1>2 DEF SkipSlot
  <2>3. NamesTypeOK' /\ Ahead' /\ SlotsOK' /\ DistinctEntries' /\ GoodNames'
    BY <2>1, <2>2, SMTT(30) DEF NamesInv, NamesTypeOK, Ahead, SlotsOK, DistinctEntries, GoodNames
  <2>4. FewTaken'
    BY <2>1, <2>2, FS_CardinalityType DEF NamesInv, FewTaken
  <2>5. Behind'
    <3>1. filename[next] = <<>>
      BY <2>1 DEF NamesInv, Ahead
    <3>2. \A i \in 1 .. N : i < next + 1 => i < next \/ i = next
      BY <2>1
    <3>. QED BY <2>1, <2>2, <3>1, <3>2 DEF NamesInv, Behind
  <2>6. entries = <<>>
    BY <2>1 DEF NamesInv, PackedLast
  <2>7. PackedLast' /\ ManifestAccounts'
    BY <2>2, <2>6 DEF PackedLast, ManifestAccounts
  <2>. QED BY <2>3, <2>4, <2>5, <2>7 DEF NamesInv
<1>3. CASE Pack
  BY <1>3, PackKeeps
<1>4. CASE Packed \/ UNCHANGED namesVars
  <2>1. UNCHANGED <<slots, next, taken, filename, entries>>
    BY <1>4 DEF Packed, namesVars
  <2>. QED BY <2>1 DEF NamesInv, NamesTypeOK, Ahead, Behind, FewTaken, SlotsOK, DistinctEntries,
                       GoodNames, PackedLast, ManifestAccounts
<1>. QED BY <1>1, <1>2, <1>3, <1>4 DEF NamesNext

\* A good name is what SafeNames asks for.
LEMMA GoodIsSafe == NamesInv => EntriesHonest
<1> SUFFICES ASSUME NamesInv PROVE EntriesHonest
  OBVIOUS
<1>1. ASSUME NEW i \in 1 .. N, filename[i] # <<>>
      PROVE  LET f == filename[i] IN
             /\ \A k \in DOMAIN f : f[k] \in Safe
             /\ f[1] \notin Edge
             /\ \A k \in 1 .. (Len(f) - 1) : <<f[k], f[k + 1]>> # <<".", ".">>
  <2> DEFINE f == filename[i]
  <2>1. f \in Seq(Safe) /\ NoDots(f) /\ f[1] \notin Edge
    BY <1>1 DEF NamesInv, GoodNames, Good, Harmless, Opens
  <2> HIDE DEF f
  <2>2. \A k \in DOMAIN f : f[k] \in Safe
    BY <2>1, LenProperties, ElementOfSeq
  <2>3. \A k \in 1 .. (Len(f) - 1) : <<f[k], f[k + 1]>> # <<".", ".">>
    BY <2>1 DEF NoDots
  <2>. QED BY <2>1, <2>2, <2>3 DEF f
<1>2. SafeNames
  BY <1>1 DEF SafeNames
<1>. QED BY <1>2 DEF NamesInv, EntriesHonest

\* The names and the archive stay as the invariant says (assignFilenames,
\* zipOutput).
THEOREM NamesInvariant == NamesSpec => []NamesInv
BY NamesInvInit, NamesInvStep, PTL DEF NamesSpec

\* The archive never holds two entries of one name, nor a second manifest: for
\* any ids, however they collide after cleaning.
THEOREM NamesAreDistinct == NamesSpec => [](NamesTypeOK /\ DistinctEntries)
<1>1. NamesInv => NamesTypeOK /\ DistinctEntries
  BY DEF NamesInv
<1>. QED BY <1>1, NamesInvariant, PTL

\* No id, however hostile, makes a name that leaves its directory or hides, and
\* the manifest lists exactly the archive's entries, in input order.
THEOREM ArchiveIsHonest == NamesSpec => []EntriesHonest
BY GoodIsSafe, NamesInvariant, PTL

-----------------------------------------------------------------------------
(* The sheet: its geometry is arithmetic on whole lengths (module Layout). *)

LEMMA MulMono ==
  ASSUME NEW a \in Int, NEW b \in Int, a <= b, NEW c \in Nat
  PROVE  a * c <= b * c
<1>1. (b - a) * c >= 0
  OBVIOUS
<1>2. (b - a) * c = b * c - a * c
  OBVIOUS
<1>. QED BY <1>1, <1>2

LEMMA Division ==
  ASSUME NEW i \in Nat, NEW m \in Nat \ {0}
  PROVE  /\ i = (i \div m) * m + (i % m)
         /\ i % m \in 0 .. (m - 1)
         /\ i \div m \in Nat
OBVIOUS

LEMMA WrapIsBelow ==
  ASSUME NEW x \in Nat, MaxInt \in Nat
  PROVE  Wrap(x) \in Int /\ Wrap(x) <= x
<1> DEFINE m == 2 * MaxInt + 2
           y == x + MaxInt + 1
<1>1. m \in Nat \ {0} /\ y \in Nat
  OBVIOUS
<1>2. y = (y \div m) * m + (y % m) /\ y % m \in Nat /\ y \div m \in Nat
  <2> HIDE DEF m, y
  <2>. QED BY <1>1, Division
<1>3. y % m <= y
  <2> HIDE DEF m, y
  <2>1. (y \div m) * m \in Nat
    BY <1>1, <1>2
  <2>. QED BY <1>1, <1>2, <2>1
<1>. QED BY <1>2, <1>3 DEF Wrap

(* The position of a cell is within the grid, row and column.              *)
LEMMA CellOfGrid ==
  ASSUME NEW l \in Grid, Validate(l), NEW i \in Int, OnPage(l, i)
  PROVE  /\ Col(l, i) \in 0 .. (l.cols - 1)
         /\ Row(l, i) \in 0 .. (l.rows - 1)
         /\ i = Row(l, i) * l.cols + Col(l, i)
<1>1. l.cols \in Nat \ {0} /\ l.rows \in Nat \ {0}
  BY DEF Grid, Validate
<1>2. l.cols * l.rows \in Nat
  BY <1>1
<1>3. i \in Nat /\ i < l.cols * l.rows
  <2> DEFINE p == l.cols * l.rows
  <2>1. PerPage(l) = Wrap(p)
    BY <1>1 DEF PerPage
  <2>2. Wrap(p) \in Int /\ Wrap(p) <= p
    <3> HIDE DEF p
    <3>. QED BY <1>2, WrapIsBelow, LayoutAssumption DEF p
  <2>. QED BY <1>2, <2>1, <2>2 DEF OnPage
<1>4. /\ i = Row(l, i) * l.cols + Col(l, i)
      /\ Col(l, i) \in 0 .. (l.cols - 1) /\ Row(l, i) \in Nat
  BY <1>1, <1>3, Division DEF Row, Col
<1>5. Row(l, i) <= l.rows - 1
  <2>1. SUFFICES ASSUME l.rows <= Row(l, i) PROVE FALSE
    BY <1>1, <1>4
  <2>2. l.rows * l.cols <= Row(l, i) * l.cols
    BY <1>1, <1>4, <2>1, MulMono
  <2>. QED BY <1>1, <1>3, <1>4, <2>2
<1>. QED BY <1>4, <1>5
(* fits is about the last cell of an axis; every other one ends before it.  *)
LEMMA FitsForEach ==
  ASSUME NEW n \in Nat \ {0}, NEW k \in 0 .. (n - 1), NEW margin \in Nat, NEW size \in Nat,
         NEW gap \in Nat, NEW paper \in Int, fits(n, margin, size, gap, paper)
  PROVE  margin + k * (size + gap) + size <= paper + fitTolerance
<1>1. k * (size + gap) <= (n - 1) * (size + gap)
  BY MulMono
<1>2. (n - 1) * (size + gap) = n * size - size + (n - 1) * gap
  OBVIOUS
<1>3. margin + n * size + (n - 1) * gap <= paper + fitTolerance
  BY DEF fits
<1> DEFINE a == k * (size + gap)
           b == (n - 1) * (size + gap)
           c == n * size
           d == (n - 1) * gap
<1>4. a \in Int /\ b \in Int /\ c \in Int /\ d \in Int
  OBVIOUS
<1>5. a <= b /\ b = c - size + d /\ margin + c + d <= paper + fitTolerance
  BY <1>1, <1>2, <1>3
<1>6. margin + a + size <= paper + fitTolerance
  <2> HIDE DEF a, b, c, d
  <2>. QED BY <1>4, <1>5 DEF fitTolerance
<1>. QED BY <1>6

(* Validate's promise: no cell of a grid it accepts runs off the page,     *)
(* however many cells there are and even where their count wrapped.        *)
THEOREM CellsInsidePage ==
  ASSUME NEW l \in Grid, Validate(l), NEW i \in Int, OnPage(l, i)
  PROVE  InsidePage(l, i)
<1> DEFINE c == Col(l, i)
           r == Row(l, i)
<1>1. c \in 0 .. (l.cols - 1) /\ r \in 0 .. (l.rows - 1)
  BY CellOfGrid
<1>2. /\ l.cols \in Nat \ {0} /\ l.rows \in Nat \ {0}
      /\ l.margin.left \in Nat /\ l.margin.top \in Nat
      /\ l.cell.w \in Nat /\ l.cell.h \in Nat /\ l.gutter.x \in Nat /\ l.gutter.y \in Nat
      /\ l.page.w \in Int /\ l.page.h \in Int
      /\ fits(l.cols, l.margin.left, l.cell.w, l.gutter.x, l.page.w)
      /\ fits(l.rows, l.margin.top, l.cell.h, l.gutter.y, l.page.h)
  BY DEF Grid, Validate
<1>3. /\ CellRectMM(l, i).x = l.margin.left + c * (l.cell.w + l.gutter.x)
      /\ CellRectMM(l, i).y = l.margin.top + r * (l.cell.h + l.gutter.y)
      /\ CellRectMM(l, i).w = l.cell.w /\ CellRectMM(l, i).h = l.cell.h
  BY DEF CellRectMM
<1> HIDE DEF c, r
<1>4. ASSUME NEW n \in Nat \ {0}, NEW k \in 0 .. (n - 1), NEW margin \in Nat, NEW size \in Nat,
             NEW gap \in Nat, NEW paper \in Int, fits(n, margin, size, gap, paper)
      PROVE  /\ margin + k * (size + gap) >= 0
             /\ (margin + k * (size + gap)) + size <= paper + fitTolerance
  <2>1. k * (size + gap) \in Nat
    OBVIOUS
  <2>2. margin + k * (size + gap) + size <= paper + fitTolerance
    BY <1>4, FitsForEach, Zenon
  <2>3. margin + k * (size + gap) >= 0
    BY <2>1
  <2>. QED BY <2>2, <2>3
<1>5. CellRectMM(l, i).x >= 0 /\ CellRectMM(l, i).x + l.cell.w <= l.page.w + fitTolerance
  <2> DEFINE n == l.cols m == l.margin.left size == l.cell.w gap == l.gutter.x paper == l.page.w
  <2>1. n \in Nat \ {0} /\ c \in 0 .. (n - 1) /\ m \in Nat /\ size \in Nat /\ gap \in Nat
        /\ paper \in Int /\ fits(n, m, size, gap, paper)
    BY <1>1, <1>2
  <2>2. CellRectMM(l, i).x = m + c * (size + gap)
    BY <1>3
  <2> HIDE DEF n, m, size, gap, paper
  <2>3. m + c * (size + gap) >= 0 /\ (m + c * (size + gap)) + size <= paper + fitTolerance
    BY <1>4, <2>1
  <2>. QED BY <2>2, <2>3 DEF n, m, size, gap, paper
<1>6. CellRectMM(l, i).y >= 0 /\ CellRectMM(l, i).y + l.cell.h <= l.page.h + fitTolerance
  <2> DEFINE n == l.rows m == l.margin.top size == l.cell.h gap == l.gutter.y paper == l.page.h
  <2>1. n \in Nat \ {0} /\ r \in 0 .. (n - 1) /\ m \in Nat /\ size \in Nat /\ gap \in Nat
        /\ paper \in Int /\ fits(n, m, size, gap, paper)
    BY <1>1, <1>2
  <2>2. CellRectMM(l, i).y = m + r * (size + gap)
    BY <1>3
  <2> HIDE DEF n, m, size, gap, paper
  <2>3. m + r * (size + gap) >= 0 /\ (m + r * (size + gap)) + size <= paper + fitTolerance
    BY <1>4, <2>1
  <2>. QED BY <2>2, <2>3 DEF n, m, size, gap, paper
<1>. QED BY <1>3, <1>5, <1>6 DEF InsidePage

(* Two positions of an accepted grid never overlap.                        *)
THEOREM CellsApart ==
  ASSUME NEW l \in Grid, Validate(l), NEW i \in Int, OnPage(l, i),
         NEW j \in Int, OnPage(l, j), i # j
  PROVE  Apart(l, i, j)
<1> DEFINE stepX == l.cell.w + l.gutter.x
           stepY == l.cell.h + l.gutter.y
<1>1. /\ stepX \in Nat /\ stepY \in Nat /\ stepX >= l.cell.w /\ stepY >= l.cell.h
      /\ l.margin.left \in Nat /\ l.margin.top \in Nat
      /\ l.cell.w \in Nat /\ l.cell.h \in Nat
  BY DEF Grid, Validate
<1>2. \A k \in Int : OnPage(l, k) => Col(l, k) \in Nat /\ Row(l, k) \in Nat
  BY CellOfGrid
<1>3. Col(l, i) # Col(l, j) \/ Row(l, i) # Row(l, j)
  BY CellOfGrid
<1>4. ASSUME NEW a \in Nat, NEW b \in Nat, a < b, NEW step \in Nat, NEW size \in Nat,
             NEW margin \in Nat, step >= size
      PROVE  margin + a * step + size <= margin + b * step
  <2>1. (a + 1) * step <= b * step
    BY <1>4, MulMono
  <2>2. (a + 1) * step = a * step + step /\ a * step \in Int /\ b * step \in Int
    OBVIOUS
  <2>. QED BY <1>4, <2>1, <2>2
<1> HIDE DEF stepX, stepY
<1>5. \A k \in Int : /\ CellRectMM(l, k).x = l.margin.left + Col(l, k) * stepX
                     /\ CellRectMM(l, k).y = l.margin.top + Row(l, k) * stepY
                     /\ CellRectMM(l, k).w = l.cell.w /\ CellRectMM(l, k).h = l.cell.h
  BY DEF CellRectMM, stepX, stepY
<1>6. CASE Col(l, i) # Col(l, j)
  <2>1. Col(l, i) < Col(l, j) \/ Col(l, j) < Col(l, i)
    BY <1>2, <1>6
  <2>. QED BY <1>1, <1>2, <1>4, <1>5, <2>1, SMTT(30) DEF Apart
<1>7. CASE Row(l, i) # Row(l, j)
  <2>1. Row(l, i) < Row(l, j) \/ Row(l, j) < Row(l, i)
    BY <1>2, <1>7
  <2>. QED BY <1>1, <1>2, <1>4, <1>5, <2>1, SMTT(30) DEF Apart
<1>. QED BY <1>3, <1>6, <1>7
-----------------------------------------------------------------------------
PdfObject == [kind  : {"catalog", "pages", "font", "image", "content", "page"},
              kids  : Seq(Int), body : Bodies \cup {Blank},
              draws : SUBSET [at: Int, im: Int],
              uses  : SUBSET [im: Int, obj: Int], contents : Int]

Shapes == /\ Len(items) <= MaxItems
          /\ refs \in Seq(Int) /\ (pc \in {"check", "run"} => refs = <<>>)
          /\ objs \in Seq(PdfObject)
          /\ pc = "pages" => Len(refs) = Len(cells) /\ PerPage(layout) # 0

(* Past the checks, and on a printed sheet, the checks have held.          *)
Admitted == pc # "check" /\ answer \in {"none", "sheet"} => Validate(layout) /\ SkipInRange

DrawnOnPage == \A n \in DOMAIN objs : \A d \in objs[n].draws : OnPage(layout, d.at)

SheetInv == TypeOK /\ Shapes /\ Admitted /\ DrawnOnPage /\ EachImageOnce /\ SkipIsBounded

LEMMA WrapIsIdentity ==
  ASSUME NEW x \in 0 .. MaxInt, MaxInt \in Nat
  PROVE  Wrap(x) = x
<1> DEFINE m == 2 * MaxInt + 2
           y == x + MaxInt + 1
<1>1. m \in Nat \ {0} /\ y \in 0 .. (m - 1)
  OBVIOUS
<1>2. y % m = y
  <2> HIDE DEF m, y
  <2>. QED BY <1>1
<1>. QED BY <1>2 DEF Wrap

LEMMA PerPageIsInt ==
  ASSUME NEW l \in Layouts
  PROVE  l \in Grid /\ PerPage(l) \in Int
<1>1. l \in Grid
  BY SheetAssumption
<1>2. CASE l.cols <= 0 \/ l.rows <= 0
  BY <1>1, <1>2 DEF PerPage
<1>3. CASE ~(l.cols <= 0 \/ l.rows <= 0)
  <2> DEFINE p == l.cols * l.rows
  <2>1. p \in Nat
    BY <1>1, <1>3 DEF Grid
  <2>2. PerPage(l) = Wrap(p)
    BY <1>3 DEF PerPage
  <2>3. Wrap(p) \in Int
    <3> HIDE DEF p
    <3>. QED BY <2>1, WrapIsBelow, LayoutAssumption
  <2>. QED BY <1>1, <2>2, <2>3
<1>. QED BY <1>2, <1>3

LEMMA SheetInvInit == Init => SheetInv
<1> SUFFICES ASSUME Init PROVE SheetInv
  OBVIOUS
<1>1. items \in Seq(Bodies \cup {Fails}) /\ Len(items) <= MaxItems
  BY SheetAssumption DEF Init
<1>2. TypeOK
  BY <1>1 DEF Init, TypeOK
<1>3. Shapes
  BY <1>1 DEF Init, Shapes
<1>. QED BY <1>2, <1>3 DEF Init, SheetInv, Admitted, DrawnOnPage, EachImageOnce, SkipIsBounded

(* Answering leaves everything else as it is.                              *)
LEMMA AnswerKeeps ==
  ASSUME SheetInv, NEW with, Answer(with), with # "none", with # "panic in make",
         with = "sheet" => pc # "check" /\ answer = "none"
  PROVE  SheetInv'
<1>1. TypeOK'
  BY DEF SheetInv, TypeOK, Answer, ObjectsOf
<1>2. Shapes' /\ DrawnOnPage' /\ EachImageOnce' /\ SkipIsBounded'
  BY DEF SheetInv, Shapes, DrawnOnPage, EachImageOnce, SkipIsBounded, Answer
<1>3. Admitted'
  BY DEF SheetInv, Admitted, Answer, SkipInRange
<1>. QED BY <1>1, <1>2, <1>3 DEF SheetInv

LEMMA RunDoneKeeps ==
  ASSUME SheetInv, RunDone
  PROVE  SheetInv'
<1>1. Validate(layout) /\ SkipInRange /\ answer = "none"
  BY DEF SheetInv, Admitted, TypeOK, RunDone
<1>2. Len(items) \in Nat /\ skip \in Nat /\ Len(items) + skip \in 0 .. MaxInt
  BY <1>1, SheetAssumption, LayoutAssumption DEF SheetInv, TypeOK, Shapes, SkipInRange
<1>3. Sum \in Nat
  <2> DEFINE x == Len(items) + skip
  <2>1. x \in 0 .. MaxInt /\ Sum = Wrap(x)
    BY <1>2 DEF Sum
  <2> HIDE DEF x
  <2>2. Wrap(x) = x
    BY <2>1, WrapIsIdentity, LayoutAssumption
  <2>. QED BY <2>1, <2>2
<1>4. /\ cells' = CellsOf(items) /\ pc' = "compose"
      /\ UNCHANGED <<request, answer, images, refs, total, objs, page>>
  <2>1. ~(Sum < 0)
    BY <1>3
  <2>. QED BY <2>1 DEF RunDone
<1>5. cells' \in Seq(Bodies \cup {Blank})
  <2> DEFINE front == [i \in 1 .. skip |-> Blank]
             back  == [i \in 1 .. Len(items) |-> IF items[i] = Fails THEN Blank ELSE items[i]]
  <2>1. front \in Seq(Bodies \cup {Blank})
    <3>1. front \in [1 .. skip -> Bodies \cup {Blank}]
      OBVIOUS
    <3> HIDE DEF front
    <3>. QED BY <1>2, <3>1, SeqDef
  <2>2. back \in Seq(Bodies \cup {Blank})
    <3>1. back \in [1 .. Len(items) -> Bodies \cup {Blank}]
      BY DEF SheetInv, TypeOK
    <3> HIDE DEF back
    <3>. QED BY <1>2, <3>1, SeqDef
  <2>3. cells' = front \o back
    BY <1>4 DEF CellsOf
  <2> HIDE DEF front, back
  <2>. QED BY <2>1, <2>2, <2>3
<1>6. TypeOK'
  <2>1. refs = <<>> /\ refs' = refs /\ Len(cells') \in Nat
    <3>1. refs = <<>> /\ refs' = refs
      BY <1>4 DEF SheetInv, Shapes, RunDone
    <3>. QED BY <1>5, <3>1
  <2>2. Len(refs') <= Len(cells')
    <3>1. Len(refs') = 0
      BY <2>1
    <3>. QED BY <2>1, <3>1
  <2>. QED BY <1>1, <1>4, <1>5, <2>2 DEF SheetInv, TypeOK, RunDone, request
<1>7. Shapes' /\ Admitted' /\ DrawnOnPage' /\ EachImageOnce' /\ SkipIsBounded'
  BY <1>1, <1>4 DEF SheetInv, Shapes, Admitted, DrawnOnPage, EachImageOnce, SkipIsBounded, RunDone,
                    request, SkipInRange
<1>. QED BY <1>6, <1>7 DEF SheetInv

(* Cells are decoded one by one; a new image differs from those before.    *)
LEMMA DecodeKeeps ==
  ASSUME SheetInv, DecodeBlank \/ DecodeSeen \/ DecodeNew
  PROVE  SheetInv'
<1>1. /\ pc = "decode" /\ Len(refs) < Len(cells) /\ refs \in Seq(Int) /\ images \in Seq(Pngs)
      /\ cells \in Seq(Bodies \cup {Blank}) /\ total \in Nat
  BY DEF SheetInv, TypeOK, Shapes, DecodeBlank, DecodeSeen, DecodeNew
<1>2. /\ pc' = pc /\ UNCHANGED <<request, answer, cells, objs, page>>
  BY DEF DecodeBlank, DecodeSeen, DecodeNew
<1>3. PICK r \in Int : /\ refs' = Append(refs, r) /\ r \in -1 .. (Len(images') - 1)
                      /\ images' \in Seq(Pngs) /\ Len(images) <= Len(images')
                      /\ EachImageOnce' /\ total' \in Nat
  <2>1. CASE DecodeBlank
    <3>1. refs' = Append(refs, -1) /\ images' = images /\ total' = total
      BY <2>1 DEF DecodeBlank
    <3>2. EachImageOnce'
      BY <3>1 DEF SheetInv, EachImageOnce
    <3>3. Len(images) \in Nat
      BY <1>1
    <3>. QED BY <1>1, <3>1, <3>2, <3>3
  <2>2. CASE DecodeSeen
    <3>1. PICK k \in Seen : refs' = Append(refs, k - 1)
      BY <2>2 DEF DecodeSeen
    <3>2. images' = images /\ total' = total /\ k \in 1 .. Len(images)
      BY <1>1, <2>2 DEF DecodeSeen, Seen
    <3>3. EachImageOnce'
      BY <3>2 DEF SheetInv, EachImageOnce
    <3>4. k - 1 \in Int /\ k - 1 \in -1 .. (Len(images) - 1) /\ Len(images) \in Nat
      BY <1>1, <3>2
    <3>. QED BY <1>1, <3>1, <3>2, <3>3, <3>4
  <2>3. CASE DecodeNew
    <3>1. /\ refs' = Append(refs, Len(images)) /\ images' = Append(images, Here)
          /\ Here \in Pngs /\ Seen = {} /\ total' = total + Pixels(Here)
      BY <2>3 DEF DecodeNew, Decodable, Printable
    <3>2. Pixels(Here) \in Nat
      BY <3>1, SheetAssumption
    <3>3. /\ images' \in Seq(Pngs) /\ Len(images') = Len(images) + 1
          /\ images'[Len(images) + 1] = Here
          /\ \A k \in 1 .. Len(images) : images'[k] = images[k]
      BY <1>1, <3>1
    <3>4. \A k \in 1 .. Len(images) : images[k] # Here
      BY <1>1, <3>1 DEF Seen
    <3>5. EachImageOnce'
      <4>1. DOMAIN images = 1 .. Len(images) /\ DOMAIN images' = 1 .. (Len(images) + 1)
            /\ Len(images) \in Nat
        BY <1>1, <3>3
      <4>2. \A j, k \in 1 .. Len(images) : images[j] = images[k] => j = k
        BY <4>1 DEF SheetInv, EachImageOnce
      <4>3. ASSUME NEW j \in 1 .. (Len(images) + 1), NEW k \in 1 .. (Len(images) + 1),
                   images'[j] = images'[k]
            PROVE  j = k
        <5>1. j \in 1 .. Len(images) \/ j = Len(images) + 1
          BY <4>1
        <5>2. k \in 1 .. Len(images) \/ k = Len(images) + 1
          BY <4>1
        <5>. QED BY <3>3, <3>4, <4>2, <4>3, <5>1, <5>2
      <4>. QED BY <4>1, <4>3 DEF EachImageOnce
    <3>6. total' \in Nat
      BY <1>1, <3>1, <3>2
    <3>7. Len(images) \in Nat /\ Len(images) \in Int /\ Len(images) \in -1 .. (Len(images') - 1)
      BY <1>1, <3>3
    <3>. QED BY <1>1, <3>1, <3>3, <3>5, <3>6, <3>7
  <2>. QED BY <2>1, <2>2, <2>3
<1>4. /\ refs' \in Seq(Int) /\ Len(refs') = Len(refs) + 1
      /\ \A i \in DOMAIN refs' : refs'[i] \in -1 .. (Len(images') - 1)
  <2>1. /\ refs' \in Seq(Int) /\ Len(refs') = Len(refs) + 1 /\ refs'[Len(refs) + 1] = r
        /\ \A i \in 1 .. Len(refs) : refs'[i] = refs[i]
    BY <1>1, <1>3
  <2>2. \A i \in 1 .. Len(refs) : refs[i] \in -1 .. (Len(images) - 1)
    BY <1>1 DEF SheetInv, TypeOK
  <2>3. Len(images) \in Nat /\ Len(images') \in Nat /\ Len(refs) \in Nat
    BY <1>1, <1>3
  <2>. QED BY <1>3, <2>1, <2>2, <2>3, SMTT(30)
<1>5. TypeOK'
  BY <1>1, <1>2, <1>3, <1>4 DEF SheetInv, TypeOK, request, ObjectsOf
<1>6. Shapes' /\ Admitted' /\ DrawnOnPage' /\ SkipIsBounded'
  BY <1>1, <1>2, <1>4 DEF SheetInv, Shapes, Admitted, DrawnOnPage, SkipIsBounded, request, SkipInRange
<1>. QED BY <1>3, <1>5, <1>6 DEF SheetInv

LEMMA PassKeeps ==
  ASSUME SheetInv, Admit \/ Compose \/ Rest
  PROVE  SheetInv'
<1>1. TypeOK'
  BY DEF SheetInv, TypeOK, Admit, Compose, Rest, request, vars, ObjectsOf
<1>2. Shapes' /\ DrawnOnPage' /\ EachImageOnce' /\ SkipIsBounded'
  BY DEF SheetInv, Shapes, DrawnOnPage, EachImageOnce, SkipIsBounded, Admit, Compose, Rest, request,
         vars
<1>3. Admitted'
  BY DEF SheetInv, Admitted, Admit, Compose, Rest, request, vars, SkipInRange
<1>. QED BY <1>1, <1>2, <1>3 DEF SheetInv

\* Go's division, by what is not zero.
LEMMA QuotientIsInt ==
  ASSUME NEW a \in Int, NEW b \in Int, b # 0
  PROVE  /\ Quotient(a, b) \in Int
         /\ a >= 0 /\ b > 0 => Quotient(a, b) = a \div b /\ Quotient(a, b) \in Nat
<1> DEFINE m == Magnitude(a)
           k == Magnitude(b)
<1>1. m \in Nat /\ k \in Nat \ {0} /\ (a >= 0 => m = a) /\ (b > 0 => k = b)
  BY DEF Magnitude
<1>2. m \div k \in Nat
  <2> HIDE DEF m, k
  <2>. QED BY <1>1, Division
<1>3. Quotient(a, b) = IF (a < 0) = (b < 0) THEN m \div k ELSE -(m \div k)
  BY DEF Quotient
<1> HIDE DEF m, k
<1>4. a >= 0 /\ b > 0 => Quotient(a, b) = a \div b
  BY <1>1, <1>3
<1>. QED BY <1>1, <1>2, <1>3, <1>4

LEMMA PagesAreCounted ==
  ASSUME SheetInv, PerPage(layout) # 0
  PROVE  /\ PageCount \in Int
         /\ PerPage(layout) > 0 => /\ PageCount = (Len(cells) + PerPage(layout) - 1)
                                                      \div PerPage(layout)
                                   /\ PageCount \in Nat
<1> DEFINE p == PerPage(layout)
           c == Len(cells) + p - 1
<1>1. p \in Int /\ c \in Int /\ (p > 0 => c >= 0)
  <2>1. p \in Int /\ Len(cells) \in Nat
    BY PerPageIsInt DEF SheetInv, TypeOK
  <2> HIDE DEF p
  <2>. QED BY <2>1
<1>2. PageCount = Quotient(c, p)
  BY DEF PageCount
<1> HIDE DEF p, c
<1>3. p # 0
  BY DEF p
<1>4. PageCount \in Int /\ (p > 0 => PageCount = c \div p /\ PageCount \in Nat)
  BY <1>1, <1>2, <1>3, QuotientIsInt
<1>. QED BY <1>4 DEF p, c

LEMMA BeginPdfKeeps ==
  ASSUME SheetInv, BeginPdf
  PROVE  SheetInv'
<1> DEFINE tree  == [Object("pages") EXCEPT
                        !.kids = [p \in 1 .. PageCount |-> firstPageObj + 2 * (p - 1) + 1]]
           front == <<Object("catalog"), tree, Object("font")>>
           imgs  == [k \in DOMAIN images |-> [Object("image") EXCEPT !.body = images[k]]]
           Bare  == {o \in PdfObject : o.draws = {}}
<1>1. /\ pc' = "pages" /\ pc = "decode" /\ objs' = front \o imgs
      /\ UNCHANGED <<request, answer, cells, images, refs, total, page>>
  BY DEF BeginPdf
<1>2. PageCount \in Nat
  <2>1. PerPage(layout) # 0 /\ PageCount >= 0
    BY DEF BeginPdf
  <2>. QED BY <2>1, PagesAreCounted
<1>3. Len(images) \in Nat /\ images \in Seq(Bodies) /\ DOMAIN images = 1 .. Len(images)
  BY SheetAssumption DEF SheetInv, TypeOK
<1>4. \A kind \in {"catalog", "font", "image"} : Object(kind) \in Bare
  BY DEF Object, PdfObject
<1>5. tree \in Bare
  <2> DEFINE kids == [p \in 1 .. PageCount |-> firstPageObj + 2 * (p - 1) + 1]
  <2>1. kids \in Seq(Int)
    <3>1. kids \in [1 .. PageCount -> Int]
      BY <1>2, <1>3 DEF firstPageObj, firstImageObj
    <3> HIDE DEF kids
    <3>. QED BY <1>2, <3>1, SeqDef
  <2>2. tree = [Object("pages") EXCEPT !.kids = kids]
    OBVIOUS
  <2> HIDE DEF kids, tree
  <2>3. tree = [kind |-> "pages", kids |-> kids, body |-> Blank, draws |-> {}, uses |-> {},
                contents |-> 0]
    BY <2>2 DEF Object
  <2>. QED BY <2>1, <2>3 DEF PdfObject
<1>6. front \in Seq(Bare)
  <2>1. Object("catalog") \in Bare /\ Object("font") \in Bare
    BY <1>4
  <2> HIDE DEF tree, Bare
  <2>. QED BY <1>5, <2>1
<1>7. imgs \in Seq(Bare)
  <2> DEFINE ImageOf(b) == [Object("image") EXCEPT !.body = b]
  <2>1. ASSUME NEW b \in Bodies PROVE ImageOf(b) \in Bare
    <3>1. ImageOf(b) = [kind |-> "image", kids |-> <<>>, body |-> b, draws |-> {}, uses |-> {},
                        contents |-> 0]
      <4> DEFINE o == Object("image")
      <4>1. o = [kind |-> "image", kids |-> <<>>, body |-> Blank, draws |-> {}, uses |-> {},
                 contents |-> 0]
        BY DEF Object
      <4>2. ImageOf(b) = [o EXCEPT !.body = b]
        OBVIOUS
      <4> HIDE DEF o, ImageOf, tree, front, imgs, Bare
      <4>. QED BY <4>1, <4>2
    <3> HIDE DEF ImageOf
    <3>. QED BY <3>1 DEF PdfObject
  <2>2. \A k \in 1 .. Len(images) : images[k] \in Bodies
    BY <1>3
  <2>3. imgs = [k \in 1 .. Len(images) |-> ImageOf(images[k])]
    BY <1>3
  <2> HIDE DEF Bare, ImageOf, imgs
  <2>4. imgs \in [1 .. Len(images) -> Bare]
    BY <2>1, <2>2, <2>3
  <2>. QED BY <1>3, <2>4, SeqDef
<1>8. objs' \in Seq(PdfObject) /\ \A n \in DOMAIN objs' : objs'[n].draws = {}
  <2>1. objs' \in Seq(Bare)
    <3> HIDE DEF front, imgs, Bare
    <3>. QED BY <1>1, <1>6, <1>7
  <2>2. \A n \in DOMAIN objs' : objs'[n] \in Bare
    <3> HIDE DEF Bare
    <3>. QED BY <2>1
  <2>3. objs' \in Seq(PdfObject)
    BY <2>1, <2>2
  <2>. QED BY <2>2, <2>3
<1>9. \A n \in DOMAIN objs' : objs'[n] \in PdfObject
  BY <1>8
<1>10. TypeOK'
  BY <1>1, <1>9 DEF SheetInv, TypeOK, request, ObjectsOf, PdfObject
<1>11. Shapes' /\ Admitted' /\ DrawnOnPage' /\ EachImageOnce' /\ SkipIsBounded'
  BY <1>1, <1>8 DEF SheetInv, Shapes, Admitted, DrawnOnPage, EachImageOnce, SkipIsBounded, request,
                    SkipInRange, BeginPdf
<1>. QED BY <1>10, <1>11 DEF SheetInv

(* The two objects of a page: the cells it draws are the page's own.       *)
LEMMA WritePageKeeps ==
  ASSUME SheetInv, WritePage
  PROVE  SheetInv'
<1> DEFINE p     == PerPage(layout)
           from  == page * p
           to    == SmallerOf(from + p, Len(cells))
           draws == {[at |-> i - from, im |-> refs[i + 1]] :
                        i \in {j \in Drawn(from, to) : Room(layout) > 0}}
           uses  == {[im |-> refs[i + 1], obj |-> firstImageObj + refs[i + 1]] :
                        i \in Drawn(from, to)}
           first == [Object("content") EXCEPT !.draws = draws]
           last  == [Object("page") EXCEPT !.uses = uses, !.contents = ContentObj(page)]
<1>1. /\ pc' = pc /\ pc = "pages" /\ objs' = objs \o <<first, last>> /\ page' = page + 1
      /\ UNCHANGED <<request, answer, cells, images, refs, total>>
  BY DEF WritePage
<1>2. /\ p \in Nat \ {0} /\ page \in Nat /\ Len(cells) \in Nat /\ Len(refs) = Len(cells)
      /\ refs \in Seq(Int)
  <2>1. layout \in Layouts /\ page \in Nat /\ cells \in Seq(Bodies \cup {Blank})
    BY DEF SheetInv, TypeOK
  <2>2. Len(refs) = Len(cells) /\ PerPage(layout) > 0 /\ refs \in Seq(Int)
    BY <1>1 DEF SheetInv, Shapes, WritePage
  <2>3. p \in Int
    BY <2>1, PerPageIsInt
  <2>. QED BY <2>1, <2>2, <2>3
<1>3. from \in Nat /\ to \in Int /\ to <= from + p /\ to <= Len(cells)
  <2>1. from \in Nat
    BY <1>2
  <2> HIDE DEF p, from
  <2>. QED BY <1>2, <2>1 DEF SmallerOf
<1>4. ASSUME NEW i \in Drawn(from, to)
      PROVE  i - from \in 0 .. (p - 1) /\ refs[i + 1] \in Int
  <2> HIDE DEF p, from, to
  <2>1. i \in from .. (to - 1)
    BY <1>4 DEF Drawn
  <2>2. i \in Nat /\ i - from \in 0 .. (p - 1) /\ i + 1 \in 1 .. Len(refs)
    BY <1>2, <1>3, <2>1
  <2>. QED BY <1>2, <2>2
<1>5. /\ draws \in SUBSET [at: Int, im: Int] /\ uses \in SUBSET [im: Int, obj: Int]
      /\ \A d \in draws : d.at \in 0 .. (p - 1)
  <2> HIDE DEF from, to, p
  <2>. QED BY <1>2, <1>3, <1>4 DEF firstImageObj
<1>6. ContentObj(page) \in Int
  BY <1>2 DEF ContentObj, firstPageObj, firstImageObj, SheetInv, TypeOK
<1>7. /\ first = [kind |-> "content", kids |-> <<>>, body |-> Blank, draws |-> draws, uses |-> {},
                  contents |-> 0]
      /\ last = [kind |-> "page", kids |-> <<>>, body |-> Blank, draws |-> {}, uses |-> uses,
                 contents |-> ContentObj(page)]
  <2> DEFINE oc == Object("content")
             op == Object("page")
  <2>1. /\ oc = [kind |-> "content", kids |-> <<>>, body |-> Blank, draws |-> {}, uses |-> {},
                 contents |-> 0]
        /\ op = [kind |-> "page", kids |-> <<>>, body |-> Blank, draws |-> {}, uses |-> {},
                 contents |-> 0]
    BY DEF Object
  <2>2. /\ first = [oc EXCEPT !.draws = draws]
        /\ last = [op EXCEPT !.uses = uses, !.contents = ContentObj(page)]
    OBVIOUS
  <2> HIDE DEF draws, uses, oc, op, first, last
  <2>. QED BY <2>1, <2>2
<1> DEFINE Fit == {o \in PdfObject : \A d \in o.draws : OnPage(layout, d.at)}
<1>8. first \in Fit /\ last \in Fit
  <2> HIDE DEF draws, uses, first, last
  <2>1. first \in PdfObject /\ last \in PdfObject
    BY <1>5, <1>6, <1>7 DEF PdfObject
  <2>2. \A d \in draws : OnPage(layout, d.at)
    BY <1>2, <1>5 DEF OnPage
  <2>. QED BY <1>7, <2>1, <2>2
<1>9. objs' \in Seq(Fit)
  <2>1. objs \in Seq(PdfObject) /\ \A n \in DOMAIN objs : objs[n] \in Fit
    BY DEF SheetInv, Shapes, DrawnOnPage
  <2> HIDE DEF Fit, first, last
  <2>2. objs \in Seq(Fit)
    BY <2>1
  <2>3. <<first, last>> \in Seq(Fit)
    BY <1>8
  <2>. QED BY <1>1, <2>2, <2>3
<1>10. objs' \in Seq(PdfObject) /\ \A n \in DOMAIN objs' : objs'[n] \in Fit
  <2>1. \A n \in DOMAIN objs' : objs'[n] \in Fit
    <3> HIDE DEF Fit
    <3>. QED BY <1>9
  <2>. QED BY <1>9, <2>1
<1> HIDE DEF first, last
<1>11. TypeOK'
  <2>1. \A n \in DOMAIN objs' : objs'[n] \in PdfObject
    BY <1>10
  <2>. QED BY <1>1, <1>2, <2>1, SMTT(30) DEF SheetInv, TypeOK, request, ObjectsOf, PdfObject
<1>12. DrawnOnPage'
  BY <1>1, <1>10 DEF DrawnOnPage, request
<1>13. Shapes' /\ Admitted' /\ EachImageOnce' /\ SkipIsBounded'
  BY <1>1, <1>10 DEF SheetInv, Shapes, Admitted, EachImageOnce, SkipIsBounded, request, SkipInRange
<1>. QED BY <1>11, <1>12, <1>13 DEF SheetInv

\* A panic takes the document with it.
LEMMA SliceKeeps ==
  ASSUME SheetInv, SliceBackwards
  PROVE  SheetInv'
<1>1. /\ pc = "pages" /\ pc' = "answered" /\ answer' = "panic slicing" /\ objs' = <<>>
      /\ UNCHANGED <<request, cells, images, refs, total, page>>
  BY DEF SliceBackwards
<1>2. objs' \in Seq(PdfObject) /\ DOMAIN objs' = {}
  <2>1. DOMAIN << >> = {} /\ << >> \in Seq(PdfObject)
    <3> DEFINE T == PdfObject
    <3> HIDE DEF T
    <3>1. << >> \in Seq(T) /\ Len(<< >>) = 0
      BY EmptySeq
    <3>2. DOMAIN << >> = 1 .. 0
      BY <3>1
    <3>. QED BY <3>1, <3>2 DEF T
  <2>. QED BY <1>1, <2>1
<1>3. TypeOK'
  BY <1>1, <1>2 DEF SheetInv, TypeOK, request
<1>4. Shapes' /\ DrawnOnPage'
  BY <1>1, <1>2 DEF SheetInv, Shapes, DrawnOnPage, request
<1>5. Admitted' /\ EachImageOnce' /\ SkipIsBounded'
  BY <1>1 DEF SheetInv, Admitted, EachImageOnce, SkipIsBounded, request
<1>. QED BY <1>3, <1>4, <1>5 DEF SheetInv

LEMMA SheetInvStep == SheetInv /\ [Next]_vars => SheetInv'
<1> SUFFICES ASSUME SheetInv, [Next]_vars PROVE SheetInv'
  OBVIOUS
<1>1. CASE RefuseLayout \/ RefuseEmpty \/ RefuseSkip \/ RefuseTotal
  BY <1>1, AnswerKeeps DEF RefuseLayout, RefuseEmpty, RefuseSkip, RefuseTotal
<1>2. CASE RunCancelled \/ RefuseCells \/ DecodeBad
  BY <1>2, AnswerKeeps DEF RunCancelled, RefuseCells, DecodeBad
<1>7. CASE DivideByZero \/ TooFewPages
  BY <1>7, AnswerKeeps DEF DivideByZero, TooFewPages
<1>8. CASE SliceBackwards
  BY <1>8, SliceKeeps
<1>3. CASE PrintSheet
  <2>1. pc # "check" /\ answer = "none"
    BY <1>3 DEF PrintSheet, SheetInv, TypeOK
  <2>. QED BY <1>3, <2>1, AnswerKeeps DEF PrintSheet
<1>4. CASE Admit \/ Compose \/ Rest
  BY <1>4, PassKeeps
<1>5. CASE DecodeBlank \/ DecodeSeen \/ DecodeNew
  BY <1>5, DecodeKeeps
<1>6. CASE UNCHANGED vars
  BY <1>6, PassKeeps DEF SheetInv, TypeOK, Shapes, Admitted, DrawnOnPage, EachImageOnce, SkipIsBounded,
     vars, ObjectsOf, SkipInRange
<1>. QED BY <1>1, <1>2, <1>3, <1>4, <1>5, <1>6, <1>7, <1>8, RunDoneKeeps, BeginPdfKeeps, WritePageKeeps DEF Next

(* The invariant: types, the checks a request has passed, and where the    *)
(* content streams draw.                                                   *)
THEOREM SheetInvariant == Spec => []SheetInv
<1>. QED BY SheetInvInit, SheetInvStep, PTL DEF Spec

(* An image is stored once, for every document.                            *)
THEOREM ImagesStoredOnce == Spec => []EachImageOnce
<1>1. SheetInv => EachImageOnce
  BY DEF SheetInv
<1>. QED BY <1>1, SheetInvariant, PTL

(* The count of labels never wraps, whatever int a caller sends as skip.   *)
THEOREM SkipNeverWraps == Spec => []SkipIsBounded
<1>1. SheetInv => SkipIsBounded
  BY DEF SheetInv
<1>. QED BY <1>1, SheetInvariant, PTL

LEMMA LabelsAreOnPaper == SheetInv => LabelsOnPaper
<1> SUFFICES ASSUME SheetInv, Printed, NEW n \in ObjectsOf("content"), NEW d \in objs[n].draws
             PROVE  /\ OnPage(layout, d.at) /\ InsidePage(layout, d.at)
                    /\ \A e \in objs[n].draws : d.at # e.at => Apart(layout, d.at, e.at)
  BY DEF LabelsOnPaper
<1>1. layout \in Grid /\ Validate(layout)
  BY PerPageIsInt DEF SheetInv, TypeOK, Admitted, Printed
<1>2. \A e \in objs[n].draws : e.at \in Int /\ OnPage(layout, e.at)
  <2>1. n \in DOMAIN objs /\ objs[n] \in PdfObject
    BY DEF ObjectsOf, SheetInv, Shapes
  <2>. QED BY <2>1 DEF SheetInv, DrawnOnPage, PdfObject
<1>. QED BY <1>1, <1>2, CellsInsidePage, CellsApart

LEMMA OnPaperSound == SheetInv => SheetSound
BY LabelsAreOnPaper DEF SheetInv, SheetSound

(* On a printed sheet every label is inside the paper and apart from the   *)
(* others, for every grid that Validate accepts.                           *)
THEOREM LabelsLandOnPaper == Spec => []LabelsOnPaper
BY LabelsAreOnPaper, SheetInvariant, PTL

(* The types of a sheet, for every request and every limit.                *)
THEOREM SheetTypes == Spec => []TypeOK
<1>1. SheetInv => TypeOK
  BY DEF SheetInv
<1>. QED BY <1>1, SheetInvariant, PTL

(* A sheet is sound, for every request, grid and limit.                     *)
THEOREM SheetIsSound == Spec => []SheetSound
BY OnPaperSound, SheetInvariant, PTL

-----------------------------------------------------------------------------
(* The pixels of the images: the sum of a sequence, image by image.        *)

Held(s) == LET held[k \in 0 .. Len(s)] ==
                   IF k = 0 THEN 0 ELSE held[k - 1] + Pixels(s[k])
           IN  held[Len(s)]

Holds(g, s) == /\ g \in [0 .. Len(s) -> Int]
               /\ g[0] = 0
               /\ \A k \in 1 .. Len(s) : g[k] = g[k - 1] + Pixels(s[k])

LEMMA HeldRuns ==
  ASSUME NEW s \in Seq(Bodies)
  PROVE  \E g : Holds(g, s) /\ Held(s) = g[Len(s)]
<1> DEFINE n == Len(s)
           Runs(g) == g = [k \in 0 .. n |-> IF k = 0 THEN 0 ELSE g[k - 1] + Pixels(s[k])]
           out == CHOOSE g : Runs(g)
           step == [k \in 1 .. n |-> [o \in Int |-> o + Pixels(s[k])]]
<1>0. n \in Nat /\ \A k \in 1 .. n : Pixels(s[k]) \in Int
  <2>1. n \in Nat /\ \A k \in 1 .. n : s[k] \in Bodies
    BY LenProperties, ElementOfSeq
  <2>. QED BY <2>1, SheetAssumption
<1>1. Held(s) = out[n]
  BY DEF Held
<1>2. step \in StepsOn(n, Int)
  BY <1>0 DEF StepsOn
<1>3. PICK g : Computes(g, n, Int, 0, step)
  <2> DEFINE D == Int
             e == 0
  <2>1. n \in Nat /\ e \in D /\ step \in StepsOn(n, D)
    BY <1>0, <1>2
  <2> HIDE DEF step, n, D, e
  <2>2. \E g : Computes(g, n, D, e, step)
    BY <2>1, Recursion
  <2>. QED BY <2>2 DEF D, e
<1>4. Runs(g)
  <2>1. ASSUME NEW k \in 1 .. n PROVE g[k] = g[k - 1] + Pixels(s[k])
    <3>1. g[k - 1] \in Int
      <4>1. k - 1 \in 0 .. n
        BY <1>0
      <4>. QED BY <1>3, <4>1 DEF Computes
    <3>2. step[k] = [o \in Int |-> o + Pixels(s[k])]
      OBVIOUS
    <3> HIDE DEF step
    <3>. QED BY <1>3, <3>1, <3>2 DEF Computes
  <2>2. \A k \in 0 .. n : k = 0 \/ k \in 1 .. n
    BY <1>0
  <2>3. g \in [0 .. n -> Int] /\ g[0] = 0
    BY <1>3 DEF Computes
  <2>. QED BY <2>1, <2>2, <2>3
<1>5. Runs(out)
  <2> HIDE DEF Runs
  <2>. QED BY <1>4
<1> HIDE DEF out, step
<1> DEFINE P == {k \in 0 .. n : out[k] \in Int}
<1>6. 0 \in P
  BY <1>0, <1>5
<1>7. ASSUME NEW k \in 1 .. n, k - 1 \in P PROVE k \in P
  <2>1. out[k] = out[k - 1] + Pixels(s[k])
    BY <1>0, <1>5
  <2>. QED BY <1>0, <1>7, <2>1
<1>8. \A k \in 0 .. n : out[k] \in Int
  <2>1. \A k \in 1 .. n : k - 1 \in P => k \in P
    BY <1>7
  <2>2. \A k \in 0 .. n : k \in P
    <3> HIDE DEF P
    <3>. QED BY <1>0, <1>6, <2>1, Induction
  <2>. QED BY <2>2
<1>9. out \in [0 .. n -> Int] /\ out[0] = 0 /\ \A k \in 1 .. n : out[k] = out[k - 1] + Pixels(s[k])
  <2>1. out[0] = 0 /\ \A k \in 1 .. n : out[k] = out[k - 1] + Pixels(s[k])
    BY <1>0, <1>5
  <2>2. out = [k \in 0 .. n |-> out[k]]
    BY <1>5
  <2>. QED BY <1>8, <2>1, <2>2
<1>. QED BY <1>1, <1>9 DEF Holds

LEMMA HeldNothing == Held(<<>>) = 0
<1>1. PICK g : Holds(g, <<>>) /\ Held(<<>>) = g[Len(<<>>)]
  <2>1. <<>> \in Seq(Bodies)
    OBVIOUS
  <2>. QED BY <2>1, HeldRuns
<1>. QED BY <1>1 DEF Holds

LEMMA HeldAppend ==
  ASSUME NEW s \in Seq(Bodies), NEW b \in Bodies
  PROVE  Held(Append(s, b)) = Held(s) + Pixels(b)
<1> DEFINE t == Append(s, b)
           n == Len(s)
<1>1. /\ t \in Seq(Bodies) /\ Len(t) = n + 1 /\ n \in Nat /\ t[n + 1] = b
      /\ \A k \in 1 .. n : t[k] = s[k]
  BY AppendProperties, LenProperties
<1> HIDE DEF t
<1>2. PICK g : Holds(g, s) /\ Held(s) = g[n]
  BY HeldRuns
<1>3. PICK h : Holds(h, t) /\ Held(t) = h[n + 1]
  BY <1>1, HeldRuns
<1> DEFINE P == {k \in 0 .. n : h[k] = g[k]}
<1>4. 0 \in P
  BY <1>1, <1>2, <1>3 DEF Holds
<1>5. ASSUME NEW k \in 1 .. n, k - 1 \in P PROVE k \in P
  <2>1. g[k] = g[k - 1] + Pixels(s[k])
    BY <1>2 DEF Holds
  <2>2. k \in 1 .. Len(t) /\ k \in 0 .. n
    BY <1>1
  <2>3. h[k] = h[k - 1] + Pixels(t[k])
    BY <1>3, <2>2 DEF Holds
  <2>. QED BY <1>1, <1>5, <2>1, <2>2, <2>3
<1>6. h[n] = g[n]
  <2>1. \A k \in 1 .. n : k - 1 \in P => k \in P
    BY <1>5
  <2>2. \A k \in 0 .. n : k \in P
    <3> HIDE DEF P
    <3>. QED BY <1>1, <1>4, <2>1, Induction
  <2>3. n \in 0 .. n
    BY <1>1
  <2>. QED BY <2>2, <2>3
<1>7. h[n + 1] = h[n + 1 - 1] + Pixels(t[n + 1])
  <2>1. n + 1 \in 1 .. Len(t)
    BY <1>1
  <2>. QED BY <1>3, <2>1 DEF Holds
<1>8. n + 1 - 1 = n
  BY <1>1
<1>. QED BY <1>1, <1>2, <1>3, <1>6, <1>7, <1>8 DEF t

-----------------------------------------------------------------------------
(* The document: what its objects are, and what is drawn where.            *)

\* The cells and the objects of page p, counted from 0.
From(p) == p * PerPage(layout)
Till(p) == SmallerOf(From(p) + PerPage(layout), Len(cells))

DrawsOf(p) == {[at |-> i - From(p), im |-> refs[i + 1]] :
                  i \in {j \in Drawn(From(p), Till(p)) : Room(layout) > 0}}
UsesOf(p)  == {[im |-> refs[i + 1], obj |-> firstImageObj + refs[i + 1]] :
                  i \in Drawn(From(p), Till(p))}

Tree == [p \in 1 .. PageCount |-> firstPageObj + 2 * (p - 1) + 1]

\* The objects written so far: the catalog, the page tree, the font, the
\* images, and two objects for every page.
Document ==
  /\ Len(objs) = 3 + Len(images) + 2 * page
  /\ objs[2].kids = Tree
  /\ \A k \in 1 .. 3 : objs[k].kind \in {"catalog", "pages", "font"}
  /\ \A k \in 1 .. Len(images) : objs[3 + k].kind = "image" /\ objs[3 + k].body = images[k]
  /\ \A p \in 0 .. page - 1 :
        /\ objs[firstPageObj + 2 * p].kind = "content"
        /\ objs[firstPageObj + 2 * p].draws = DrawsOf(p)
        /\ objs[firstPageObj + 2 * p + 1].kind = "page"
        /\ objs[firstPageObj + 2 * p + 1].uses = UsesOf(p)
        /\ objs[firstPageObj + 2 * p + 1].contents = ContentObj(p)

\* Every reference is to the image of its cell.
RefsMean ==
  \A i \in 1 .. Len(refs) : /\ refs[i] >= 0 <=> cells[i] # Blank
                            /\ refs[i] >= 0 => images[refs[i] + 1] = cells[i]

\* The cells are those of the request, once there are any.
CellsAre == pc \in {"compose", "decode", "pages"} \/ Printed => cells = CellsOf(items)

\* There are objects only while pages are written, and on a printed sheet.
PagesAre ==
  /\ pc = "pages" \/ Printed => /\ Len(refs) = Len(cells) /\ PerPage(layout) # 0
                                /\ page <= PageCount /\ Document
                                /\ PerPage(layout) < 0 => page = 0
  /\ pc # "pages" /\ ~Printed => objs = <<>> /\ page = 0
  /\ Printed => page = PageCount

PixelsAre == total = PixelsHeld /\ total <= maxTotalPixels

DrawInv == CellsAre /\ RefsMean /\ PagesAre /\ PixelsAre

LEMMA DocumentSame ==
  ASSUME UNCHANGED <<layout, cells, images, refs, objs, page>>
  PROVE  /\ Document' <=> Document
         /\ PageCount' = PageCount /\ PerPage(layout)' = PerPage(layout)
         /\ RefsMean' <=> RefsMean
BY DEF Document, RefsMean, Tree, PageCount, DrawsOf, UsesOf, Drawn, From, Till, firstPageObj,
       firstImageObj, ContentObj

LEMMA PixelsSame ==
  ASSUME UNCHANGED <<images, total>> PROVE PixelsAre' <=> PixelsAre
BY DEF PixelsAre, PixelsHeld

LEMMA DrawInvInit == Init => DrawInv
<1> SUFFICES ASSUME Init PROVE DrawInv
  OBVIOUS
<1>1. PixelsHeld = 0
  <2>1. PixelsHeld = Held(images)
    BY DEF PixelsHeld, Held
  <2>2. images = <<>>
    BY DEF Init
  <2>. QED BY <2>1, <2>2, HeldNothing
<1>2. maxTotalPixels \in Nat
  BY SheetAssumption
<1>3. PixelsAre
  BY <1>1, <1>2 DEF Init, PixelsAre
<1>4. CellsAre /\ PagesAre /\ RefsMean
  BY DEF Init, CellsAre, PagesAre, RefsMean, Printed
<1>. QED BY <1>3, <1>4 DEF DrawInv

\* A panic before the first page is written takes the document with it.
LEMMA SliceDraws ==
  ASSUME SheetInv, DrawInv, SliceBackwards
  PROVE  DrawInv'
<1>1. /\ pc = "pages" /\ pc' = "answered" /\ answer' = "panic slicing" /\ objs' = <<>>
      /\ PerPage(layout) < 0
      /\ UNCHANGED <<layout, cells, images, refs, total, page>>
  BY DEF SliceBackwards, request
<1>2. page = 0 /\ ~Printed'
  BY <1>1 DEF DrawInv, PagesAre, Printed
<1>3. RefsMean' /\ PixelsAre'
  BY <1>1, PixelsSame DEF DrawInv, RefsMean
<1>4. CellsAre' /\ PagesAre'
  BY <1>1, <1>2 DEF CellsAre, PagesAre
<1>. QED BY <1>3, <1>4 DEF DrawInv

\* An answer leaves the document as it is.
LEMMA AnswerDraws ==
  ASSUME SheetInv, DrawInv, pc # "answered", NEW with, Answer(with),
         with = "sheet" <=> pc = "pages", with = "sheet" => page = PageCount
  PROVE  DrawInv'
<1>1. /\ pc' = "answered" /\ answer' = with
      /\ UNCHANGED <<layout, cells, images, refs, objs, page>> /\ UNCHANGED <<images, total>>
      /\ UNCHANGED <<items, skip>>
  BY DEF Answer
<1>2. ~Printed
  BY DEF SheetInv, TypeOK, Printed
<1>3. RefsMean' /\ PixelsAre'
  BY <1>1, DocumentSame, PixelsSame DEF DrawInv
<1>4. Printed' <=> pc = "pages"
  BY <1>1 DEF Printed
<1>5. CellsAre'
  <2>1. CellsOf(items)' = CellsOf(items)
    BY <1>1 DEF CellsOf
  <2>. QED BY <1>1, <1>4, <2>1 DEF DrawInv, CellsAre
<1>6. PagesAre'
  BY <1>1, <1>2, <1>4, DocumentSame DEF DrawInv, PagesAre
<1>. QED BY <1>3, <1>5, <1>6 DEF DrawInv

\* A step that leaves the document, its pages and its answer as they are.
LEMMA PassDraws ==
  ASSUME SheetInv, DrawInv, Admit \/ Compose \/ Rest \/ UNCHANGED vars
  PROVE  DrawInv'
<1>1. /\ UNCHANGED <<layout, cells, images, refs, objs, page>> /\ UNCHANGED <<images, total>>
      /\ UNCHANGED <<items, skip, answer>>
      /\ pc' = pc \/ (pc = "check" /\ pc' = "run") \/ (pc = "compose" /\ pc' = "decode")
  BY DEF Admit, Compose, Rest, vars, request
<1>2. RefsMean' /\ PixelsAre' /\ (Printed' <=> Printed)
  BY <1>1, DocumentSame, PixelsSame DEF DrawInv, Printed
<1>3. CellsOf(items)' = CellsOf(items)
  BY <1>1 DEF CellsOf
<1>4. CellsAre' /\ PagesAre'
  BY <1>1, <1>2, <1>3, DocumentSame DEF DrawInv, CellsAre, PagesAre
<1>. QED BY <1>2, <1>4 DEF DrawInv

LEMMA RunDoneDraws ==
  ASSUME SheetInv, DrawInv, RunDone
  PROVE  DrawInv'
<1>1. CASE Sum < 0
  <2>1. Answer("panic in make") /\ pc = "run"
    BY <1>1 DEF RunDone
  <2>. QED BY <2>1, AnswerDraws
<1>2. CASE ~(Sum < 0)
  <2>1. /\ cells' = CellsOf(items) /\ pc = "run" /\ pc' = "compose"
        /\ UNCHANGED <<items, skip, answer, images, refs, total, objs, page>>
    BY <1>2 DEF RunDone, request
  <2>2. ~Printed /\ ~Printed' /\ refs = <<>>
    BY <2>1 DEF SheetInv, TypeOK, Shapes, Printed
  <2>3. CellsOf(items)' = CellsOf(items)
    BY <2>1 DEF CellsOf
  <2>4. CellsAre' /\ PagesAre'
    BY <2>1, <2>2, <2>3 DEF DrawInv, CellsAre, PagesAre
  <2>5. RefsMean'
    BY <2>1, <2>2 DEF RefsMean
  <2>6. PixelsAre'
    BY <2>1, PixelsSame DEF DrawInv
  <2>. QED BY <2>4, <2>5, <2>6 DEF DrawInv
<1>. QED BY <1>1, <1>2

\* A cell is decoded: its reference is to its image, old or new.
LEMMA DecodeDraws ==
  ASSUME SheetInv, DrawInv, DecodeBlank \/ DecodeSeen \/ DecodeNew
  PROVE  DrawInv'
<1> DEFINE n == Len(refs)
<1>1. /\ pc = "decode" /\ pc' = pc /\ n < Len(cells)
      /\ UNCHANGED <<items, skip, answer, cells, objs, page>>
  BY DEF DecodeBlank, DecodeSeen, DecodeNew, request
<1>2. /\ refs \in Seq(Int) /\ n \in Nat /\ images \in Seq(Pngs) /\ Len(images) \in Nat
      /\ DOMAIN images = 1 .. Len(images)
      /\ \A i \in 1 .. n : refs[i] \in -1 .. (Len(images) - 1)
  <2>1. refs \in Seq(Int) /\ images \in Seq(Pngs)
    BY DEF SheetInv, TypeOK, Shapes
  <2>2. \A i \in DOMAIN refs : refs[i] \in -1 .. (Len(images) - 1)
    BY DEF SheetInv, TypeOK
  <2>. QED BY <2>1, <2>2, LenProperties
<1>3. ~Printed /\ ~Printed' /\ CellsAre' /\ PagesAre'
  <2>1. ~Printed /\ ~Printed'
    BY <1>1 DEF SheetInv, TypeOK, Printed
  <2>2. CellsOf(items)' = CellsOf(items)
    BY <1>1 DEF CellsOf
  <2>. QED BY <1>1, <2>1, <2>2 DEF DrawInv, CellsAre, PagesAre
<1>4. PICK r \in Int :
        /\ refs' = Append(refs, r)
        /\ r >= 0 <=> Here # Blank
        /\ r >= 0 => images'[r + 1] = Here
        /\ \A k \in 1 .. Len(images) : images'[k] = images[k]
  <2>1. CASE DecodeBlank
    BY <2>1 DEF DecodeBlank
  <2>2. CASE DecodeSeen
    <3>1. PICK k \in Seen : refs' = Append(refs, k - 1)
      BY <2>2 DEF DecodeSeen
    <3>2. k \in 1 .. Len(images) /\ images[k] = Here /\ Here # Blank /\ images' = images
      BY <1>2, <2>2 DEF DecodeSeen, Seen
    <3>3. k - 1 \in Int /\ k - 1 >= 0 /\ (k - 1) + 1 = k
      BY <1>2, <3>2
    <3>. QED BY <3>1, <3>2, <3>3
  <2>3. CASE DecodeNew
    <3>1. /\ refs' = Append(refs, Len(images)) /\ images' = Append(images, Here)
          /\ Here \in Pngs /\ Here # Blank
      BY <2>3 DEF DecodeNew, Decodable, Printable
    <3>2. images'[Len(images) + 1] = Here /\ \A k \in 1 .. Len(images) : images'[k] = images[k]
      BY <1>2, <3>1, AppendProperties
    <3> DEFINE r == Len(images)
    <3>3. r \in Int /\ r >= 0
      BY <1>2
    <3> HIDE DEF r
    <3>4. refs' = Append(refs, r) /\ images'[r + 1] = Here
      BY <3>1, <3>2 DEF r
    <3>. QED BY <3>1, <3>2, <3>3, <3>4
  <2>. QED BY <2>1, <2>2, <2>3
<1>5. RefsMean'
  <2>1. /\ Len(refs') = n + 1 /\ refs'[n + 1] = r
        /\ \A i \in 1 .. n : refs'[i] = refs[i]
    BY <1>2, <1>4, AppendProperties
  <2>2. ASSUME NEW i \in 1 .. n + 1
        PROVE  /\ refs'[i] >= 0 <=> cells[i] # Blank
               /\ refs'[i] >= 0 => images'[refs'[i] + 1] = cells[i]
    <3>1. CASE i = n + 1
      BY <1>4, <2>1, <3>1 DEF Here
    <3>2. CASE i # n + 1
      <4>1. i \in 1 .. n /\ refs'[i] = refs[i] /\ refs[i] \in -1 .. (Len(images) - 1)
        BY <1>2, <2>1, <3>2
      <4>2. /\ refs[i] >= 0 <=> cells[i] # Blank
            /\ refs[i] >= 0 => images[refs[i] + 1] = cells[i]
        BY <4>1 DEF DrawInv, RefsMean
      <4>3. refs[i] >= 0 => refs[i] + 1 \in 1 .. Len(images)
        BY <1>2, <4>1
      <4>. QED BY <1>4, <4>1, <4>2, <4>3
    <3>. QED BY <3>1, <3>2
  <2>. QED BY <1>1, <2>1, <2>2 DEF RefsMean
<1>6. PixelsAre'
  <2>1. CASE DecodeBlank \/ DecodeSeen
    <3>1. UNCHANGED <<images, total>>
      BY <2>1 DEF DecodeBlank, DecodeSeen
    <3>. QED BY <3>1, PixelsSame DEF DrawInv
  <2>2. CASE DecodeNew
    <3>1. /\ images' = Append(images, Here) /\ Here \in Pngs
          /\ total' = total + Pixels(Here) /\ total + Pixels(Here) <= maxTotalPixels
      BY <2>2 DEF DecodeNew, Decodable, Printable
    <3>2. images \in Seq(Bodies) /\ Here \in Bodies
      BY <1>2, <3>1, SheetAssumption, SeqMonotonic
    <3>3. PixelsHeld = Held(images) /\ PixelsHeld' = Held(images')
      BY DEF PixelsHeld, Held
    <3>4. Held(images') = Held(images) + Pixels(Here)
      BY <3>1, <3>2, HeldAppend
    <3>. QED BY <3>1, <3>3, <3>4 DEF DrawInv, PixelsAre
  <2>. QED BY <2>1, <2>2
<1>. QED BY <1>3, <1>5, <1>6 DEF DrawInv

\* The catalog, the page tree, the font and the images, in their places.
LEMMA BeginPdfDraws ==
  ASSUME SheetInv, DrawInv, BeginPdf
  PROVE  DrawInv'
<1> DEFINE tree  == [Object("pages") EXCEPT !.kids = Tree]
           front == <<Object("catalog"), tree, Object("font")>>
           imgs  == [k \in DOMAIN images |-> [Object("image") EXCEPT !.body = images[k]]]
           n == Len(images)
<1>1. /\ pc = "decode" /\ pc' = "pages" /\ objs' = front \o imgs
      /\ Len(refs) = Len(cells) /\ PerPage(layout) # 0 /\ PageCount >= 0
      /\ UNCHANGED <<layout, items, skip, answer, cells, images, refs, total, page>>
  BY DEF BeginPdf, request, Tree
<1>2. n \in Nat /\ DOMAIN images = 1 .. n /\ PageCount \in Nat
  <2>1. images \in Seq(Pngs)
    BY DEF SheetInv, TypeOK
  <2>. QED BY <1>1, <2>1, LenProperties, PagesAreCounted
<1>3. page = 0 /\ ~Printed /\ ~Printed'
  BY <1>1 DEF SheetInv, TypeOK, DrawInv, PagesAre, Printed
<1>4. /\ Object("catalog").kind = "catalog" /\ Object("font").kind = "font"
      /\ tree.kind = "pages" /\ tree.kids = Tree
  <2> DEFINE o == Object("pages")
  <2>1. /\ o = [kind |-> "pages", kids |-> <<>>, body |-> Blank, draws |-> {}, uses |-> {},
                contents |-> 0]
        /\ tree = [o EXCEPT !.kids = Tree]
    BY DEF Object
  <2>2. Object("catalog").kind = "catalog" /\ Object("font").kind = "font"
    BY DEF Object
  <2> HIDE DEF o, tree
  <2>. QED BY <2>1, <2>2
<1> HIDE DEF tree
<1> DEFINE T == {front[1], front[2], front[3]} \cup {imgs[k] : k \in 1 .. n}
<1>5. /\ front \in Seq(T) /\ Len(front) = 3
      /\ front[1] = Object("catalog") /\ front[2] = tree /\ front[3] = Object("font")
  <2>1. Len(front) = 3 /\ front \in [1 .. 3 -> T]
    OBVIOUS
  <2>2. front[1] = Object("catalog") /\ front[2] = tree /\ front[3] = Object("font")
    OBVIOUS
  <2> HIDE DEF front, T
  <2>. QED BY <2>1, <2>2, SeqDef
<1>6. ASSUME NEW k \in 1 .. n PROVE imgs[k].kind = "image" /\ imgs[k].body = images[k]
  <2> DEFINE o == Object("image")
  <2>1. /\ o = [kind |-> "image", kids |-> <<>>, body |-> Blank, draws |-> {}, uses |-> {},
                contents |-> 0]
        /\ imgs[k] = [o EXCEPT !.body = images[k]]
    BY <1>2 DEF Object
  <2> HIDE DEF o, imgs
  <2>. QED BY <2>1
<1>7. imgs \in Seq(T) /\ Len(imgs) = n
  <2>1. imgs \in [1 .. n -> T]
    BY <1>2
  <2> HIDE DEF imgs, T
  <2>. QED BY <1>2, <2>1, SeqDef
<1> HIDE DEF front, imgs, T
<1>8. /\ Len(objs') = 3 + n
      /\ \A i \in 1 .. 3 : objs'[i] = front[i]
      /\ \A k \in 1 .. n : objs'[3 + k] = imgs[k]
  <2>1. /\ Len(front \o imgs) = Len(front) + Len(imgs)
        /\ \A i \in 1 .. Len(front) + Len(imgs) :
              (front \o imgs)[i] = IF i <= Len(front) THEN front[i] ELSE imgs[i - Len(front)]
    BY <1>5, <1>7, ConcatProperties
  <2>2. \A i \in 1 .. 3 : objs'[i] = front[i]
    BY <1>1, <1>2, <1>5, <1>7, <2>1
  <2>3. ASSUME NEW k \in 1 .. n PROVE objs'[3 + k] = imgs[k]
    <3>1. 3 + k \in 1 .. Len(front) + Len(imgs) /\ ~(3 + k <= 3) /\ (3 + k) - 3 = k
      BY <1>2, <1>5, <1>7
    <3>. QED BY <1>1, <1>5, <2>1, <3>1
  <2>. QED BY <1>1, <1>5, <1>7, <2>1, <2>2, <2>3
<1>9. UNCHANGED <<Tree, PageCount, firstPageObj, PerPage(layout)>>
  BY <1>1 DEF Tree, PageCount, firstPageObj, firstImageObj
<1>10. Document'
  <2>1. Len(objs') = 3 + Len(images') + 2 * page'
    BY <1>1, <1>2, <1>3, <1>8
  <2>2. objs'[2].kids = Tree'
    BY <1>4, <1>5, <1>8, <1>9
  <2>3. \A k \in 1 .. 3 : objs'[k].kind \in {"catalog", "pages", "font"}
    <3>1. \A k \in 1 .. 3 : k = 1 \/ k = 2 \/ k = 3
      OBVIOUS
    <3>. QED BY <1>4, <1>5, <1>8, <3>1
  <2>4. \A k \in 1 .. Len(images') : objs'[3 + k].kind = "image" /\ objs'[3 + k].body = images'[k]
    BY <1>1, <1>6, <1>8
  <2>5. \A p : p \notin 0 .. page' - 1
    BY <1>1, <1>3
  <2>. QED BY <2>1, <2>2, <2>3, <2>4, <2>5 DEF Document
<1>11. PagesAre'
  BY <1>1, <1>2, <1>3, <1>9, <1>10 DEF PagesAre
<1>12. CellsOf(items)' = CellsOf(items)
  BY <1>1 DEF CellsOf
<1>13. CellsAre' /\ RefsMean' /\ PixelsAre'
  BY <1>1, <1>3, <1>12, PixelsSame DEF DrawInv, CellsAre, RefsMean
<1>. QED BY <1>11, <1>13 DEF DrawInv

\* A page's two objects go where its numbers say.
LEMMA WritePageDraws ==
  ASSUME SheetInv, DrawInv, WritePage
  PROVE  DrawInv'
<1> DEFINE first == [Object("content") EXCEPT !.draws = DrawsOf(page)]
           last  == [Object("page") EXCEPT !.uses = UsesOf(page), !.contents = ContentObj(page)]
           two   == <<first, last>>
           n == Len(objs)
<1>1. /\ pc = "pages" /\ pc' = "pages" /\ page < PageCount /\ page' = page + 1
      /\ objs' = objs \o two
      /\ UNCHANGED <<layout, items, skip, answer, cells, images, refs, total>>
  BY DEF WritePage, request, DrawsOf, UsesOf, From, Till
<1>2. Document /\ Len(refs) = Len(cells) /\ PerPage(layout) \in Int /\ PerPage(layout) > 0
  BY <1>1, PerPageIsInt DEF DrawInv, PagesAre, WritePage, SheetInv, TypeOK
<1>3. /\ objs \in Seq(PdfObject) /\ n \in Nat /\ Len(images) \in Nat /\ page \in Nat
      /\ PageCount \in Nat
  <2>1. objs \in Seq(PdfObject) /\ images \in Seq(Pngs) /\ page \in Nat
    BY DEF SheetInv, TypeOK, Shapes
  <2>. QED BY <1>2, <2>1, LenProperties, PagesAreCounted
<1>4. /\ first.kind = "content" /\ first.draws = DrawsOf(page)
      /\ last.kind = "page" /\ last.uses = UsesOf(page) /\ last.contents = ContentObj(page)
  <2> DEFINE oc == Object("content")
             op == Object("page")
  <2>1. /\ oc = [kind |-> "content", kids |-> <<>>, body |-> Blank, draws |-> {}, uses |-> {},
                 contents |-> 0]
        /\ op = [kind |-> "page", kids |-> <<>>, body |-> Blank, draws |-> {}, uses |-> {},
                 contents |-> 0]
    BY DEF Object
  <2>2. /\ first = [oc EXCEPT !.draws = DrawsOf(page)]
        /\ last = [op EXCEPT !.uses = UsesOf(page), !.contents = ContentObj(page)]
    OBVIOUS
  <2> HIDE DEF oc, op, first, last
  <2>. QED BY <2>1, <2>2
<1> HIDE DEF first, last
<1> DEFINE T == PdfObject \cup {first, last}
<1>5. /\ Len(objs') = n + 2
      /\ \A i \in 1 .. n : objs'[i] = objs[i]
      /\ objs'[n + 1] = first /\ objs'[n + 2] = last
  <2>1. objs \in Seq(T)
    <3>1. PdfObject \subseteq T
      OBVIOUS
    <3> HIDE DEF T
    <3>. QED BY <1>3, <3>1, SeqMonotonic
  <2>2. two \in Seq(T) /\ Len(two) = 2 /\ two[1] = first /\ two[2] = last
    <3>1. two \in [1 .. 2 -> T]
      OBVIOUS
    <3>2. Len(two) = 2 /\ two[1] = first /\ two[2] = last
      OBVIOUS
    <3> HIDE DEF T, two
    <3>. QED BY <3>1, <3>2, SeqDef
  <2> HIDE DEF T, two
  <2>3. /\ Len(objs \o two) = n + 2
        /\ \A i \in 1 .. n + 2 : (objs \o two)[i] = IF i <= n THEN objs[i] ELSE two[i - n]
    <3>1. /\ Len(objs \o two) = n + Len(two)
          /\ \A i \in 1 .. n + Len(two) : (objs \o two)[i] = IF i <= n THEN objs[i] ELSE two[i - n]
      BY <2>1, <2>2, ConcatProperties
    <3>2. n + Len(two) = n + 2
      BY <2>2
    <3>. QED BY <3>1, <3>2
  <2>4. \A i \in 1 .. n : i \in 1 .. n + 2 /\ i <= n
    BY <1>3
  <2>5. n + 1 \in 1 .. n + 2 /\ n + 2 \in 1 .. n + 2 /\ ~(n + 1 <= n) /\ ~(n + 2 <= n)
        /\ (n + 1) - n = 1 /\ (n + 2) - n = 2
    BY <1>3
  <2>. QED BY <1>1, <2>2, <2>3, <2>4, <2>5
<1>6. /\ UNCHANGED <<Tree, PageCount, firstPageObj, PerPage(layout)>>
      /\ \A p : DrawsOf(p)' = DrawsOf(p) /\ UsesOf(p)' = UsesOf(p) /\ ContentObj(p)' = ContentObj(p)
  <2>1. UNCHANGED <<Tree, PageCount, firstPageObj, PerPage(layout)>>
    BY <1>1 DEF Tree, PageCount, firstPageObj, firstImageObj
  <2>2. ASSUME NEW p PROVE DrawsOf(p)' = DrawsOf(p) /\ UsesOf(p)' = UsesOf(p)
    BY <1>1 DEF DrawsOf, UsesOf, Drawn, From, Till, firstImageObj
  <2>3. ASSUME NEW p PROVE ContentObj(p)' = ContentObj(p)
    BY <1>1 DEF ContentObj, firstPageObj, firstImageObj
  <2>. QED BY <2>1, <2>2, <2>3
<1>7. n = 3 + Len(images) + 2 * page /\ firstPageObj = 4 + Len(images)
  BY <1>2 DEF Document, firstPageObj, firstImageObj
<1>8. Document'
  <2>1. Len(objs') = 3 + Len(images') + 2 * page'
    BY <1>1, <1>3, <1>5, <1>7
  <2>2. 2 \in 1 .. n /\ \A k \in 1 .. 3 : k \in 1 .. n
    BY <1>3, <1>7
  <2>3. objs'[2].kids = Tree'
    BY <1>2, <1>5, <1>6, <2>2 DEF Document
  <2>4. \A k \in 1 .. 3 : objs'[k].kind \in {"catalog", "pages", "font"}
    BY <1>2, <1>5, <2>2 DEF Document
  <2>5. ASSUME NEW k \in 1 .. Len(images')
        PROVE  objs'[3 + k].kind = "image" /\ objs'[3 + k].body = images'[k]
    <3>1. k \in 1 .. Len(images) /\ 3 + k \in 1 .. n
      BY <1>1, <1>3, <1>7
    <3>2. objs[3 + k].kind = "image" /\ objs[3 + k].body = images[k]
      BY <1>2, <3>1 DEF Document
    <3>3. objs'[3 + k] = objs[3 + k]
      BY <1>5, <3>1
    <3>. QED BY <1>1, <3>2, <3>3
  <2>6. ASSUME NEW p \in 0 .. page' - 1
        PROVE  /\ objs'[firstPageObj + 2 * p].kind = "content"
               /\ objs'[firstPageObj + 2 * p].draws = DrawsOf(p)
               /\ objs'[firstPageObj + 2 * p + 1].kind = "page"
               /\ objs'[firstPageObj + 2 * p + 1].uses = UsesOf(p)
               /\ objs'[firstPageObj + 2 * p + 1].contents = ContentObj(p)
    <3>1. CASE p = page
      <4>1. firstPageObj + 2 * p = n + 1 /\ firstPageObj + 2 * p + 1 = n + 2
        BY <1>3, <1>7, <3>1
      <4>. QED BY <1>4, <1>5, <3>1, <4>1
    <3>2. CASE p # page
      <4>1. p \in 0 .. page - 1
        BY <1>1, <1>3, <3>2
      <4>2. firstPageObj + 2 * p \in 1 .. n /\ firstPageObj + 2 * p + 1 \in 1 .. n
        BY <1>3, <1>7, <4>1
      <4>3. /\ objs'[firstPageObj + 2 * p] = objs[firstPageObj + 2 * p]
            /\ objs'[firstPageObj + 2 * p + 1] = objs[firstPageObj + 2 * p + 1]
        BY <1>5, <4>2
      <4>. QED BY <1>2, <4>1, <4>3 DEF Document
    <3>. QED BY <3>1, <3>2
  <2>7. \A p \in 0 .. page' - 1 :
               /\ objs'[firstPageObj' + 2 * p].kind = "content"
               /\ objs'[firstPageObj' + 2 * p].draws = DrawsOf(p)'
               /\ objs'[firstPageObj' + 2 * p + 1].kind = "page"
               /\ objs'[firstPageObj' + 2 * p + 1].uses = UsesOf(p)'
               /\ objs'[firstPageObj' + 2 * p + 1].contents = ContentObj(p)'
    BY <1>6, <2>6
  <2>. QED BY <2>1, <2>3, <2>4, <2>5, <2>7 DEF Document
<1>9. ~Printed /\ ~Printed'
  BY <1>1 DEF SheetInv, TypeOK, Printed
<1>10. PagesAre'
  <2>1. page' <= PageCount'
    BY <1>1, <1>3, <1>6
  <2>. QED BY <1>1, <1>2, <1>6, <1>8, <1>9, <2>1 DEF PagesAre
<1>11. CellsOf(items)' = CellsOf(items)
  BY <1>1 DEF CellsOf
<1>12. CellsAre' /\ RefsMean' /\ PixelsAre'
  BY <1>1, <1>9, <1>11, PixelsSame DEF DrawInv, CellsAre, RefsMean
<1>. QED BY <1>10, <1>12 DEF DrawInv

LEMMA DrawInvStep == SheetInv /\ DrawInv /\ [Next]_vars => DrawInv'
<1> SUFFICES ASSUME SheetInv, DrawInv, [Next]_vars PROVE DrawInv'
  OBVIOUS
<1>1. CASE RefuseLayout \/ RefuseEmpty \/ RefuseSkip \/ RefuseTotal
  BY <1>1, AnswerDraws DEF RefuseLayout, RefuseEmpty, RefuseSkip, RefuseTotal
<1>2. CASE RunCancelled \/ RefuseCells \/ DecodeBad
  BY <1>2, AnswerDraws DEF RunCancelled, RefuseCells, DecodeBad
<1>6. CASE DivideByZero \/ TooFewPages
  BY <1>6, AnswerDraws DEF DivideByZero, TooFewPages
<1>7. CASE SliceBackwards
  BY <1>7, SliceDraws
<1>3. CASE PrintSheet
  BY <1>3, AnswerDraws DEF PrintSheet
<1>4. CASE Admit \/ Compose \/ Rest \/ UNCHANGED vars
  BY <1>4, PassDraws
<1>5. CASE DecodeBlank \/ DecodeSeen \/ DecodeNew
  BY <1>5, DecodeDraws
<1>. QED BY <1>1, <1>2, <1>3, <1>4, <1>5, <1>6, <1>7, RunDoneDraws, BeginPdfDraws, WritePageDraws DEF Next

\* Where an object's number puts it in a document.
LEMMA ObjectPlaces ==
  ASSUME SheetInv, Document, NEW n \in DOMAIN objs
  PROVE  \/ n \in 1 .. 3
         \/ \E k \in 1 .. Len(images) : n = 3 + k
         \/ \E p \in 0 .. page - 1 : n = firstPageObj + 2 * p \/ n = firstPageObj + 2 * p + 1
<1> DEFINE m == Len(images)
           f == firstPageObj
<1>1. m \in Nat /\ page \in Nat /\ f = 4 + m /\ n \in 1 .. 3 + m + 2 * page
  <2>1. objs \in Seq(PdfObject) /\ images \in Seq(Pngs) /\ page \in Nat
    BY DEF SheetInv, TypeOK, Shapes
  <2>2. DOMAIN objs = 1 .. Len(objs) /\ Len(objs) = 3 + m + 2 * page
    BY <2>1, LenProperties DEF Document
  <2>. QED BY <2>1, <2>2, LenProperties DEF firstPageObj, firstImageObj
<1> HIDE DEF m, f
<1>2. CASE n <= 3
  BY <1>1, <1>2
<1>3. CASE n > 3 /\ n <= 3 + m
  <2>1. n - 3 \in 1 .. m /\ n = 3 + (n - 3)
    BY <1>1, <1>3
  <2>. QED BY <2>1 DEF m
<1>4. CASE n > 3 + m
  <2> DEFINE q == n - f
             p == q \div 2
  <2>1. q \in 0 .. 2 * page - 1 /\ n = f + q
    BY <1>1, <1>4
  <2> HIDE DEF q
  <2>2. q = p * 2 + (q % 2) /\ q % 2 \in 0 .. 1 /\ p \in Nat
    BY <2>1, Division
  <2> HIDE DEF p
  <2>3. p \in 0 .. page - 1 /\ (q = 2 * p \/ q = 2 * p + 1)
    BY <1>1, <2>1, <2>2
  <2>4. n = f + 2 * p \/ n = f + 2 * p + 1
    BY <1>1, <2>1, <2>2, <2>3
  <2>. QED BY <2>3, <2>4 DEF f
<1>. QED BY <1>1, <1>2, <1>3, <1>4

LEMMA PagesFound ==
  ASSUME SheetInv, Document
  PROVE  /\ ObjectsOf("page") = {firstPageObj + 2 * p + 1 : p \in 0 .. page - 1}
         /\ \A k \in 1 .. Len(images) : 3 + k \in ObjectsOf("image")
<1>1. /\ Len(images) \in Nat /\ page \in Nat /\ firstPageObj = 4 + Len(images)
      /\ DOMAIN objs = 1 .. 3 + Len(images) + 2 * page
  <2>1. objs \in Seq(PdfObject) /\ images \in Seq(Pngs) /\ page \in Nat
    BY DEF SheetInv, TypeOK, Shapes
  <2>2. DOMAIN objs = 1 .. Len(objs) /\ Len(objs) = 3 + Len(images) + 2 * page
    BY <2>1, LenProperties DEF Document
  <2>. QED BY <2>1, <2>2, LenProperties DEF firstPageObj, firstImageObj
<1>2. ASSUME NEW n \in ObjectsOf("page")
      PROVE  \E p \in 0 .. page - 1 : n = firstPageObj + 2 * p + 1
  <2>1. n \in DOMAIN objs /\ objs[n].kind = "page"
    BY DEF ObjectsOf
  <2>2. n \notin 1 .. 3
    BY <2>1 DEF Document
  <2>3. \A k \in 1 .. Len(images) : n # 3 + k
    BY <2>1 DEF Document
  <2>4. \A p \in 0 .. page - 1 : n # firstPageObj + 2 * p
    BY <2>1 DEF Document
  <2>. QED BY <2>1, <2>2, <2>3, <2>4, ObjectPlaces
<1>3. ASSUME NEW p \in 0 .. page - 1 PROVE firstPageObj + 2 * p + 1 \in ObjectsOf("page")
  <2>1. objs[firstPageObj + 2 * p + 1].kind = "page"
    BY DEF Document
  <2>2. firstPageObj + 2 * p + 1 \in DOMAIN objs
    BY <1>1
  <2>. QED BY <2>1, <2>2 DEF ObjectsOf
<1>4. ASSUME NEW k \in 1 .. Len(images) PROVE 3 + k \in ObjectsOf("image")
  <2>1. objs[3 + k].kind = "image"
    BY DEF Document
  <2>2. 3 + k \in DOMAIN objs
    BY <1>1
  <2>. QED BY <2>1, <2>2 DEF ObjectsOf
<1>. QED BY <1>2, <1>3, <1>4

\* What a page refers to is what it has: an image of the document.
LEMMA RefsAreResolved == SheetInv /\ DrawInv => RefsResolve
<1> SUFFICES ASSUME SheetInv, DrawInv PROVE RefsResolve
  OBVIOUS
<1>1. CASE ~(pc = "pages" \/ Printed)
  <2>1. objs = <<>> /\ ~Printed
    BY <1>1 DEF DrawInv, PagesAre
  <2>2. \A n : n \notin ObjectsOf("page")
    BY <2>1 DEF ObjectsOf
  <2>. QED BY <2>1, <2>2 DEF RefsResolve
<1>2. CASE pc = "pages" \/ Printed
  <2>1. /\ Document /\ Len(refs) = Len(cells) /\ PerPage(layout) # 0 /\ page <= PageCount
        /\ PerPage(layout) < 0 => page = 0
    BY <1>2 DEF DrawInv, PagesAre
  <2>2. /\ refs \in Seq(Int) /\ Len(images) \in Nat /\ page \in Nat
        /\ PerPage(layout) \in Int /\ Len(cells) \in Nat
        /\ \A i \in 1 .. Len(refs) : refs[i] \in -1 .. (Len(images) - 1)
    <3>1. refs \in Seq(Int) /\ images \in Seq(Pngs) /\ page \in Nat /\ layout \in Layouts
          /\ cells \in Seq(Bodies \cup {Blank})
      BY DEF SheetInv, TypeOK, Shapes
    <3>2. \A i \in DOMAIN refs : refs[i] \in -1 .. (Len(images) - 1)
      BY DEF SheetInv, TypeOK
    <3>. QED BY <2>1, <3>1, <3>2, LenProperties, PerPageIsInt
  <2>3. firstPageObj = 4 + Len(images) /\ firstImageObj = 4
    BY DEF firstPageObj, firstImageObj
  <2>4. ASSUME NEW p \in 0 .. page - 1, NEW i \in Drawn(From(p), Till(p))
        PROVE  /\ 4 + refs[i + 1] \in ObjectsOf("image")
               /\ objs[4 + refs[i + 1]].body = images[refs[i + 1] + 1]
    <3>1. i \in From(p) .. (Till(p) - 1) /\ refs[i + 1] >= 0
      BY DEF Drawn
    <3>2. From(p) \in Nat
      <4>1. PerPage(layout) \in Nat /\ p \in Nat
        BY <2>1, <2>2
      <4>. QED BY <4>1 DEF From
    <3>3. Till(p) \in Int /\ Till(p) <= Len(cells)
      BY <2>2, <3>2 DEF Till, SmallerOf
    <3>4. i + 1 \in 1 .. Len(refs)
      BY <2>1, <2>2, <3>1, <3>2, <3>3
    <3> DEFINE k == refs[i + 1] + 1
    <3>5. k \in 1 .. Len(images) /\ 3 + k = 4 + refs[i + 1]
      <4> DEFINE v == refs[i + 1]
      <4>1. v \in -1 .. (Len(images) - 1) /\ v >= 0
        BY <2>2, <3>1, <3>4
      <4> HIDE DEF v
      <4>2. v + 1 \in 1 .. Len(images) /\ 3 + (v + 1) = 4 + v
        BY <2>2, <4>1
      <4>. QED BY <4>2 DEF v
    <3> HIDE DEF k
    <3>6. 3 + k \in ObjectsOf("image") /\ objs[3 + k].body = images[k]
      BY <2>1, <3>5, PagesFound DEF Document
    <3>. QED BY <3>5, <3>6 DEF k
  <2>5. ASSUME NEW n \in ObjectsOf("page")
        PROVE  /\ objs[n].contents = n - 1 /\ objs[n - 1].kind = "content"
               /\ \A d \in objs[n - 1].draws : \E u \in objs[n].uses : u.im = d.im
               /\ \A u \in objs[n].uses :
                     u.obj \in ObjectsOf("image") /\ objs[u.obj].body = images[u.im + 1]
               /\ \A u, v \in objs[n].uses : u.im = v.im => u = v
    <3>1. PICK p \in 0 .. page - 1 : n = firstPageObj + 2 * p + 1
      BY <2>1, PagesFound
    <3>2. n - 1 = firstPageObj + 2 * p
      BY <2>2, <2>3, <3>1
    <3>3. /\ objs[n - 1].kind = "content" /\ objs[n - 1].draws = DrawsOf(p)
          /\ objs[n].uses = UsesOf(p) /\ objs[n].contents = ContentObj(p)
      BY <2>1, <3>1, <3>2 DEF Document
    <3>4. objs[n].contents = n - 1
      BY <3>2, <3>3 DEF ContentObj
    <3>5. ASSUME NEW d \in DrawsOf(p) PROVE \E u \in UsesOf(p) : u.im = d.im
      <4>1. PICK i \in Drawn(From(p), Till(p)) : d.im = refs[i + 1]
        BY DEF DrawsOf
      <4>2. [im |-> refs[i + 1], obj |-> firstImageObj + refs[i + 1]] \in UsesOf(p)
        BY DEF UsesOf
      <4>. QED BY <4>1, <4>2
    <3>6. ASSUME NEW u \in UsesOf(p)
          PROVE  u.obj \in ObjectsOf("image") /\ objs[u.obj].body = images[u.im + 1]
      <4>1. PICK i \in Drawn(From(p), Till(p)) :
               u = [im |-> refs[i + 1], obj |-> firstImageObj + refs[i + 1]]
        BY DEF UsesOf
      <4>2. u.im = refs[i + 1] /\ u.obj = 4 + refs[i + 1]
        BY <2>3, <4>1
      <4>. QED BY <2>4, <4>2
    <3>7. ASSUME NEW u \in UsesOf(p), NEW v \in UsesOf(p), u.im = v.im PROVE u = v
      <4>1. PICK i \in Drawn(From(p), Till(p)) :
               u = [im |-> refs[i + 1], obj |-> firstImageObj + refs[i + 1]]
        BY DEF UsesOf
      <4>2. PICK j \in Drawn(From(p), Till(p)) :
               v = [im |-> refs[j + 1], obj |-> firstImageObj + refs[j + 1]]
        BY DEF UsesOf
      <4>3. refs[i + 1] = refs[j + 1]
        BY <3>7, <4>1, <4>2
      <4>. QED BY <4>1, <4>2, <4>3
    <3>. QED BY <3>3, <3>4, <3>5, <3>6, <3>7
  <2>6. ASSUME Printed PROVE {objs[2].kids[p] : p \in DOMAIN objs[2].kids} = ObjectsOf("page")
    <3>1. page = PageCount /\ objs[2].kids = Tree
      BY <2>1, <2>6 DEF DrawInv, PagesAre, Document
    <3>2. ObjectsOf("page") = {firstPageObj + 2 * p + 1 : p \in 0 .. page - 1}
      BY <2>1, PagesFound
    <3>3. DOMAIN Tree = 1 .. page /\ \A p \in 1 .. page : Tree[p] = firstPageObj + 2 * (p - 1) + 1
      BY <3>1 DEF Tree
    <3>4. ASSUME NEW p \in 1 .. page PROVE Tree[p] \in ObjectsOf("page")
      <4>1. p - 1 \in 0 .. page - 1
        BY <2>2
      <4>. QED BY <3>2, <3>3, <4>1
    <3>5. ASSUME NEW n \in ObjectsOf("page") PROVE \E p \in 1 .. page : n = Tree[p]
      <4>1. PICK p \in 0 .. page - 1 : n = firstPageObj + 2 * p + 1
        BY <3>2
      <4>2. p + 1 \in 1 .. page /\ (p + 1) - 1 = p
        BY <2>2
      <4>3. Tree[p + 1] = firstPageObj + 2 * ((p + 1) - 1) + 1
        BY <3>3, <4>2
      <4>4. n = Tree[p + 1]
        BY <4>1, <4>2, <4>3
      <4>. QED BY <4>2, <4>4
    <3>. QED BY <3>1, <3>3, <3>4, <3>5
  <2>. QED BY <2>5, <2>6 DEF RefsResolve
<1>. QED BY <1>1, <1>2

\* The cells of a request: the skipped ones, then one for each item.
LEMMA CellsOfIs ==
  ASSUME NEW its \in Seq(Bodies \cup {Fails}), skip \in Nat
  PROVE  /\ Len(CellsOf(its)) = skip + Len(its)
         /\ \A i \in 1 .. skip : CellsOf(its)[i] = Blank
         /\ \A j \in 1 .. Len(its) :
               CellsOf(its)[skip + j] = IF its[j] = Fails THEN Blank ELSE its[j]
<1> DEFINE S == Bodies \cup {Fails, Blank}
           front == [i \in 1 .. skip |-> Blank]
           back  == [i \in 1 .. Len(its) |-> IF its[i] = Fails THEN Blank ELSE its[i]]
           n == Len(its)
<1>1. n \in Nat /\ \A j \in 1 .. n : its[j] \in S
  BY LenProperties, ElementOfSeq
<1>2. front \in Seq(S) /\ Len(front) = skip /\ \A i \in 1 .. skip : front[i] = Blank
  <2>1. front \in [1 .. skip -> S] /\ \A i \in 1 .. skip : front[i] = Blank
    OBVIOUS
  <2> HIDE DEF front, S
  <2>. QED BY <2>1, SeqDef
<1>3. /\ back \in Seq(S) /\ Len(back) = n
      /\ \A j \in 1 .. n : back[j] = IF its[j] = Fails THEN Blank ELSE its[j]
  <2>1. /\ back \in [1 .. n -> S]
        /\ \A j \in 1 .. n : back[j] = IF its[j] = Fails THEN Blank ELSE its[j]
    BY <1>1
  <2> HIDE DEF back, S
  <2>. QED BY <1>1, <2>1, SeqDef
<1>4. CellsOf(its) = front \o back
  BY DEF CellsOf
<1> HIDE DEF front, back, S
<1>5. /\ Len(front \o back) = skip + n
      /\ \A i \in 1 .. skip + n : (front \o back)[i] = IF i <= skip THEN front[i] ELSE back[i - skip]
  <2>1. /\ Len(front \o back) = Len(front) + Len(back)
        /\ \A i \in 1 .. Len(front) + Len(back) :
              (front \o back)[i] = IF i <= Len(front) THEN front[i] ELSE back[i - Len(front)]
    <3>1. front \in Seq(S) /\ back \in Seq(S)
      BY <1>2, <1>3
    <3>. QED BY <3>1, ConcatProperties
  <2>. QED BY <1>2, <1>3, <2>1
<1>6. ASSUME NEW i \in 1 .. skip PROVE CellsOf(its)[i] = Blank
  <2>1. i \in 1 .. skip + n /\ i <= skip
    BY <1>1
  <2>. QED BY <1>2, <1>4, <1>5, <2>1
<1>7. ASSUME NEW j \in 1 .. n
      PROVE  CellsOf(its)[skip + j] = IF its[j] = Fails THEN Blank ELSE its[j]
  <2>1. skip + j \in 1 .. skip + n /\ ~(skip + j <= skip) /\ (skip + j) - skip = j
    BY <1>1
  <2>. QED BY <1>3, <1>4, <1>5, <2>1
<1>. QED BY <1>4, <1>5, <1>6, <1>7

\* What is drawn on a printed sheet: the image of every cell that has one.
LEMMA CellsAreDrawn ==
  ASSUME SheetInv, DrawInv, Printed, Countable
  PROVE  \A o : o \in OnSheet <=>
            \E i \in 1 .. Len(cells) : /\ cells[i] # Blank /\ Room(layout) > 0
                                       /\ o = [pos |-> i - 1, body |-> cells[i]]
<1> DEFINE m == PerPage(layout)
           n == Len(cells)
<1>1. /\ Document /\ Len(refs) = n /\ m > 0 /\ page = PageCount /\ objs[2].kids = Tree
  BY DEF DrawInv, PagesAre, Document, Countable
<1>2. /\ refs \in Seq(Int) /\ Len(images) \in Nat /\ page \in Nat /\ m \in Nat \ {0} /\ n \in Nat
  <2>1. refs \in Seq(Int) /\ images \in Seq(Pngs) /\ page \in Nat /\ layout \in Layouts
        /\ cells \in Seq(Bodies \cup {Blank})
    BY DEF SheetInv, TypeOK, Shapes
  <2>. QED BY <1>1, <2>1, LenProperties, PerPageIsInt
<1>3. \A i \in 1 .. n : /\ refs[i] \in Int
                        /\ refs[i] >= 0 <=> cells[i] # Blank
                        /\ refs[i] >= 0 => images[refs[i] + 1] = cells[i]
  BY <1>1, <1>2, ElementOfSeq DEF DrawInv, RefsMean
<1>4. ASSUME NEW p \in 1 .. page
      PROVE  /\ p \in DOMAIN objs[2].kids
             /\ objs[objs[objs[2].kids[p]].contents].draws = DrawsOf(p - 1)
  <2>1. p \in DOMAIN Tree /\ Tree[p] = firstPageObj + 2 * (p - 1) + 1
    BY <1>1 DEF Tree
  <2>2. p - 1 \in 0 .. page - 1
    BY <1>2
  <2>3. objs[firstPageObj + 2 * (p - 1) + 1].contents = firstPageObj + 2 * (p - 1)
    BY <1>1, <2>2 DEF Document, ContentObj
  <2>4. objs[firstPageObj + 2 * (p - 1)].draws = DrawsOf(p - 1)
    BY <1>1, <2>2 DEF Document
  <2>. QED BY <1>1, <2>1, <2>3, <2>4
<1>5. DOMAIN objs[2].kids = 1 .. page
  BY <1>1 DEF Tree
<1>6. ASSUME NEW p \in Nat
      PROVE  From(p) \in Nat /\ From(p) = p * m /\ Till(p) \in Int /\ Till(p) <= n
             /\ Till(p) <= From(p) + m /\ (Till(p) = From(p) + m \/ Till(p) = n)
  <2>1. p * m \in Nat
    BY <1>2
  <2>2. From(p) = p * m
    BY DEF From
  <2> HIDE DEF m
  <2>3. Till(p) = SmallerOf(From(p) + m, n)
    BY DEF Till, m
  <2> HIDE DEF n
  <2>. QED BY <1>2, <2>1, <2>2, <2>3 DEF SmallerOf
<1>7. ASSUME NEW o, o \in OnSheet
      PROVE  \E i \in 1 .. n : /\ cells[i] # Blank /\ Room(layout) > 0
                               /\ o = [pos |-> i - 1, body |-> cells[i]]
  <2>1. PICK p \in 1 .. page : \E d \in DrawsOf(p - 1) :
               o = [pos |-> (p - 1) * m + d.at, body |-> images[d.im + 1]]
    BY <1>4, <1>5, <1>7 DEF OnSheet
  <2>2. PICK d \in DrawsOf(p - 1) :
               o = [pos |-> (p - 1) * m + d.at, body |-> images[d.im + 1]]
    BY <2>1
  <2>3. PICK i \in {j \in Drawn(From(p - 1), Till(p - 1)) : Room(layout) > 0} :
               d = [at |-> i - From(p - 1), im |-> refs[i + 1]]
    BY DEF DrawsOf
  <2>4. i \in From(p - 1) .. (Till(p - 1) - 1) /\ refs[i + 1] >= 0 /\ Room(layout) > 0
    BY DEF Drawn
  <2>5. p - 1 \in Nat
    BY <1>2
  <2>6. From(p - 1) \in Nat /\ From(p - 1) = (p - 1) * m /\ Till(p - 1) \in Int /\ Till(p - 1) <= n
    BY <1>6, <2>5
  <2>7. i \in Nat /\ i + 1 \in 1 .. n
    BY <1>2, <2>4, <2>6
  <2>8. cells[i + 1] # Blank /\ images[refs[i + 1] + 1] = cells[i + 1]
    BY <1>3, <2>4, <2>7
  <2>9. d.at = i - From(p - 1) /\ d.im = refs[i + 1]
    BY <2>3
  <2>10. (p - 1) * m + d.at = i /\ (i + 1) - 1 = i
    BY <2>6, <2>7, <2>9
  <2>11. o = [pos |-> (i + 1) - 1, body |-> cells[i + 1]]
    BY <2>2, <2>8, <2>9, <2>10
  <2>. QED BY <2>4, <2>7, <2>8, <2>11
<1>8. ASSUME NEW i \in 1 .. n, cells[i] # Blank, Room(layout) > 0
      PROVE  [pos |-> i - 1, body |-> cells[i]] \in OnSheet
  <2> DEFINE q == (i - 1) \div m
             j == i - 1
  <2>1. j \in Nat /\ j < n /\ j + 1 = i
    BY <1>2
  <2>2. j = q * m + (j % m) /\ j % m \in 0 .. (m - 1) /\ q \in Nat
    <3> HIDE DEF m
    <3>. QED BY <1>2, <2>1, Division
  <2> HIDE DEF q
  <2>3. From(q) = q * m /\ From(q) <= j /\ j < From(q) + m
    <3>1. q * m \in Nat /\ From(q) = q * m
      BY <1>2, <1>6, <2>2
    <3> DEFINE r == q * m
    <3> HIDE DEF m, j, r
    <3>2. r \in Nat /\ From(q) = r /\ j = r + (j % m)
      BY <2>2, <3>1 DEF r
    <3>3. From(q) <= j /\ j < From(q) + m
      BY <1>2, <2>1, <2>2, <3>2
    <3>. QED BY <3>1, <3>3
  <2>4. j \in Drawn(From(q), Till(q))
    <3>1. refs[j + 1] >= 0
      BY <1>3, <1>8, <2>1
    <3>2. j \in From(q) .. (Till(q) - 1)
      <4> HIDE DEF m, n
      <4>1. From(q) \in Nat /\ Till(q) \in Int /\ (Till(q) = From(q) + m \/ Till(q) = n)
        BY <1>6, <2>2
      <4>. QED BY <1>2, <2>1, <2>3, <4>1
    <3>. QED BY <3>1, <3>2 DEF Drawn
  <2>5. q + 1 \in 1 .. page
    <3>1. page = (n + m - 1) \div m
      BY <1>1, PagesAreCounted
    <3> DEFINE c == n + m - 1
    <3>2. c \in Nat
      BY <1>2
    <3> HIDE DEF m, n, c
    <3>3. c = page * m + (c % m) /\ c % m \in 0 .. (m - 1)
      BY <1>2, <3>1, <3>2, Division DEF c
    <3>4. q * m <= n - 1
      BY <1>2, <2>1, <2>2, <2>3, <1>6
    <3>5. SUFFICES ASSUME page <= q PROVE FALSE
      BY <1>2, <2>2
    <3>6. page * m <= q * m
      BY <1>2, <2>2, <3>5, MulMono
    <3>7. page * m \in Int /\ q * m \in Int
      BY <1>2, <2>2
    <3>. QED BY <1>2, <3>3, <3>4, <3>6, <3>7 DEF c
  <2>6. (q + 1) - 1 = q
    BY <2>2
  <2> DEFINE d == [at |-> j - From(q), im |-> refs[j + 1]]
  <2>7. d \in DrawsOf(q)
    BY <1>8, <2>4 DEF DrawsOf
  <2>8. objs[objs[objs[2].kids[q + 1]].contents].draws = DrawsOf(q) /\ q + 1 \in DOMAIN objs[2].kids
    BY <1>4, <2>5, <2>6
  <2>9. d.at = j - From(q) /\ d.im = refs[j + 1]
    OBVIOUS
  <2> HIDE DEF d
  <2>10. [pos |-> ((q + 1) - 1) * m + d.at, body |-> images[d.im + 1]] \in OnSheet
    BY <2>7, <2>8 DEF OnSheet
  <2>11. ((q + 1) - 1) * m + d.at = j
    <3>1. q * m \in Int
      BY <1>2, <2>2
    <3>2. q * m + d.at = j
      BY <2>1, <2>3, <2>9, <3>1
    <3>. QED BY <2>6, <3>2
  <2>12. images[d.im + 1] = cells[i]
    BY <1>3, <1>8, <2>1, <2>9
  <2>. QED BY <2>10, <2>11, <2>12
<1>. QED BY <1>7, <1>8

\* Every label is at its own position, and nothing else is.
LEMMA LabelsArePlaced == SheetInv /\ DrawInv => LabelsInPlace
<1> SUFFICES ASSUME SheetInv, DrawInv, Printed, Countable
             PROVE  OnSheet = {[pos |-> skip + i - 1, body |-> items[i]] :
                                  i \in {j \in DOMAIN items : items[j] # Fails /\ Room(layout) > 0}}
  BY DEF LabelsInPlace
<1> DEFINE n == Len(items)
           its == items
<1>1. /\ items \in Seq(Bodies \cup {Fails}) /\ skip \in Nat /\ n \in Nat /\ DOMAIN items = 1 .. n
      /\ \A j \in 1 .. n : items[j] \in Bodies \cup {Fails}
  <2>1. items \in Seq(Bodies \cup {Fails}) /\ skip \in Skips /\ SkipInRange
    BY DEF SheetInv, TypeOK, Admitted, Printed
  <2>. QED BY <2>1, SheetAssumption, LenProperties, ElementOfSeq DEF SkipInRange
<1>2. /\ cells = CellsOf(items) /\ Len(cells) = skip + n
      /\ \A i \in 1 .. skip : cells[i] = Blank
      /\ \A j \in 1 .. n : cells[skip + j] = IF items[j] = Fails THEN Blank ELSE items[j]
  <2>1. cells = CellsOf(items)
    BY DEF DrawInv, CellsAre
  <2>. QED BY <1>1, <2>1, CellsOfIs
<1>3. \A j \in 1 .. n : cells[skip + j] # Blank <=> items[j] # Fails
  BY <1>1, <1>2, SheetAssumption
<1>4. ASSUME NEW o, o \in OnSheet
      PROVE  \E j \in 1 .. n : /\ items[j] # Fails /\ Room(layout) > 0
                               /\ o = [pos |-> skip + j - 1, body |-> items[j]]
  <2>1. PICK i \in 1 .. Len(cells) : /\ cells[i] # Blank /\ Room(layout) > 0
                                     /\ o = [pos |-> i - 1, body |-> cells[i]]
    BY <1>4, CellsAreDrawn
  <2>2. i \notin 1 .. skip /\ i \in 1 .. skip + n
    BY <1>2, <2>1
  <2> DEFINE j == i - skip
  <2>3. j \in 1 .. n /\ skip + j = i
    BY <1>1, <2>2
  <2> HIDE DEF j
  <2>4. cells[i] = items[j] /\ items[j] # Fails
    BY <1>2, <1>3, <2>1, <2>3
  <2>5. i - 1 = skip + j - 1
    BY <1>1, <2>3
  <2>6. o = [pos |-> skip + j - 1, body |-> items[j]]
    BY <2>1, <2>4, <2>5
  <2>. QED BY <2>1, <2>3, <2>4, <2>6
<1>5. ASSUME NEW j \in 1 .. n, items[j] # Fails, Room(layout) > 0
      PROVE  [pos |-> skip + j - 1, body |-> items[j]] \in OnSheet
  <2> DEFINE i == skip + j
             o == [pos |-> i - 1, body |-> cells[i]]
  <2>1. i \in 1 .. Len(cells) /\ cells[i] = items[j] /\ cells[i] # Blank
    BY <1>1, <1>2, <1>3, <1>5
  <2>2. o = [pos |-> skip + j - 1, body |-> items[j]]
    <3>1. i - 1 = skip + j - 1
      BY <1>1
    <3>. QED BY <2>1, <3>1
  <2> HIDE DEF i
  <2>3. o \in OnSheet
    BY <1>5, <2>1, CellsAreDrawn
  <2>. QED BY <2>2, <2>3 DEF i
<1>6. ASSUME NEW o
      PROVE  o \in OnSheet <=> o \in {[pos |-> skip + i - 1, body |-> items[i]] :
                  i \in {j \in DOMAIN items : items[j] # Fails /\ Room(layout) > 0}}
  BY <1>1, <1>4, <1>5
<1>. QED BY <1>6

LEMMA DrawnAsAsked == SheetInv /\ DrawInv => SheetDrawn
<1>1. PixelsAre => BoundedPixels
  BY DEF PixelsAre, BoundedPixels
<1>. QED BY <1>1, RefsAreResolved, LabelsArePlaced DEF DrawInv, SheetDrawn

\* The types; the objects written so far are the catalog, the page tree, the font,
\* the images and two objects for every page written, each at the number that was
\* computed for it; every cell refers to its own image; the pixels are counted.
THEOREM DrawingInvariant == Spec => [](SheetInv /\ DrawInv)
BY SheetInvInit, SheetInvStep, DrawInvInit, DrawInvStep, PTL DEF Spec

\* Every label of a printed sheet is on the sticker that is its own, on every grid
\* whose cells can be counted, in a document whose references resolve, and the
\* images held stay within the pixel limit.
THEOREM SheetIsDrawn == Spec => []SheetDrawn
BY DrawnAsAsked, DrawingInvariant, PTL

-----------------------------------------------------------------------------
(* The two ways of a batch's results (module Packaging).                   *)

\* What the endpoint that is not asked holds.
NoSheet == pc = "answered" /\ answer = "not asked" /\ images = <<>> /\ objs = <<>>
NoNames == entries = <<>> /\ filename = [i \in 1 .. N |-> <<>>]

PackagingInv == \/ way = "zip" /\ NamesInv /\ NoSheet
                \/ way = "sheet" /\ SheetInv /\ DrawInv /\ NoNames

LEMMA PackagingInvStep == PackagingInv /\ [PackagingNext]_packagingVars => PackagingInv'
<1> SUFFICES ASSUME PackagingInv, [PackagingNext]_packagingVars PROVE PackagingInv'
  OBVIOUS
<1>1. CASE way = "zip"
  <2>1. NamesInv /\ NoSheet
    BY <1>1 DEF PackagingInv
  <2>2. way' = way /\ [NamesNext]_namesVars /\ UNCHANGED vars
    BY <1>1 DEF PackagingNext, packagingVars
  <2>3. NamesInv'
    BY <2>1, <2>2, NamesInvStep
  <2>4. NoSheet'
    BY <2>1, <2>2 DEF NoSheet, vars
  <2>. QED BY <1>1, <2>2, <2>3, <2>4 DEF PackagingInv
<1>2. CASE way = "sheet"
  <2>1. SheetInv /\ DrawInv /\ NoNames
    BY <1>2 DEF PackagingInv
  <2>2. way' = way /\ [Next]_vars /\ UNCHANGED namesVars
    BY <1>2 DEF PackagingNext, packagingVars
  <2>3. SheetInv' /\ DrawInv'
    BY <2>1, <2>2, SheetInvStep, DrawInvStep
  <2>4. NoNames'
    BY <2>1, <2>2 DEF NoNames, namesVars
  <2>. QED BY <1>2, <2>2, <2>3, <2>4 DEF PackagingInv
<1>. QED BY <1>1, <1>2 DEF PackagingInv

\* One invariant for both ways of a batch's results.
THEOREM PackagingInvariant == PackagingSpec => []PackagingInv
<1>1. PackagingInit => PackagingInv
  <2>1. ZipInit => PackagingInv
    BY NamesInvInit DEF ZipInit, PackagingInv, NoSheet
  <2>2. SheetInit => PackagingInv
    BY SheetInvInit, DrawInvInit DEF SheetInit, PackagingInv, NoNames
  <2>. QED BY <2>1, <2>2 DEF PackagingInit
<1>. QED BY <1>1, PackagingInvStep, PTL DEF PackagingSpec

LEMMA NoNamesHonest == NoNames => DistinctEntries /\ EntriesHonest
<1> SUFFICES ASSUME NoNames PROVE DistinctEntries /\ EntriesHonest
  OBVIOUS
<1>1. \A i \in 1 .. N : filename[i] = <<>>
  BY DEF NoNames
<1>2. manifestName # <<>>
  BY DEF manifestName
<1>3. DistinctEntries
  BY <1>1, <1>2 DEF DistinctEntries
<1>4. SafeNames
  BY <1>1 DEF SafeNames
<1>5. ManifestAccounts
  BY DEF NoNames, ManifestAccounts
<1>. QED BY <1>3, <1>4, <1>5 DEF EntriesHonest

LEMMA NoSheetSound == NoSheet => SheetSound /\ SheetDrawn
<1> SUFFICES ASSUME NoSheet PROVE SheetSound /\ SheetDrawn
  OBVIOUS
<1>1. ~Printed /\ images = <<>> /\ objs = <<>>
  BY DEF NoSheet, Printed
<1>2. SheetSound
  <2>1. LabelsOnPaper
    BY <1>1 DEF LabelsOnPaper
  <2>2. DOMAIN images = {}
    BY <1>1
  <2>3. EachImageOnce
    BY <2>2 DEF EachImageOnce
  <2>4. SkipIsBounded
    BY DEF SkipIsBounded, NoSheet
  <2>. QED BY <2>1, <2>3, <2>4 DEF SheetSound
<1>3. RefsResolve
  <2>1. \A n : n \notin ObjectsOf("page")
    BY <1>1 DEF ObjectsOf
  <2>. QED BY <1>1, <2>1 DEF RefsResolve
<1>4. BoundedPixels
  <2>1. PixelsHeld = Held(images)
    BY DEF PixelsHeld, Held
  <2>. QED BY <1>1, <2>1, HeldNothing, SheetAssumption DEF BoundedPixels
<1>. QED BY <1>1, <1>2, <1>3, <1>4 DEF SheetDrawn, LabelsInPlace

\* An archive's entries never share a name, whatever the ids.
THEOREM EntriesAreDistinct == PackagingSpec => []DistinctEntries
<1>1. PackagingInv => DistinctEntries
  BY NoNamesHonest DEF PackagingInv, NamesInv
<1>. QED BY <1>1, PackagingInvariant, PTL

\* Every entry is a harmless name, and the manifest lists exactly the entries.
THEOREM EntriesAreHonest == PackagingSpec => []EntriesHonest
<1>1. PackagingInv => EntriesHonest
  BY NoNamesHonest, GoodIsSafe DEF PackagingInv
<1>. QED BY <1>1, PackagingInvariant, PTL

\* A printed sheet is on its paper, an image is stored once, no skip wraps.
THEOREM SheetsAreSound == PackagingSpec => []SheetSound
<1>1. SheetInv => SheetSound
  BY OnPaperSound
<1>2. PackagingInv => SheetSound
  BY <1>1, NoSheetSound DEF PackagingInv
<1>. QED BY <1>2, PackagingInvariant, PTL

\* Every label of a printed sheet is on its own sticker, on every grid whose count
\* of cells does not wrap to zero or below, in a document whose references resolve.
THEOREM SheetsAreDrawn == PackagingSpec => []SheetDrawn
<1>1. PackagingInv => SheetDrawn
  BY NoSheetSound, DrawnAsAsked DEF PackagingInv
<1>. QED BY <1>1, PackagingInvariant, PTL
=============================================================================
