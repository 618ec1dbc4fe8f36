----------------------------- MODULE FileNames -----------------------------
(***************************************************************************)
(* The names of the entries of a zip batch: assignFilenames, safeStem,     *)
(* safeExt, unique and zipOutput of internal/batch/output.go, on the slots *)
(* renderAll hands over.                                                   *)
(*                                                                         *)
(* A name is a sequence of tokens.  A token is one character, or a word    *)
(* that stands for a run of letters no rule below looks into ("item").     *)
(***************************************************************************)
EXTENDS Integers, Sequences, SequencesExt

CONSTANTS N,          \* number of items
          Ids, Exts,  \* the ids and the extensions slots are made of
          Plain,      \* tokens of [A-Za-z0-9_], words included
          MaxStem,    \* maxStemChars
          MaxExt,     \* maxExtChars
          MaxSuffix,  \* bound: the suffixes the loop of unique is followed to
          Lower(_)    \* strings.ToLower on one token

Digits == <<"0", "1", "2", "3", "4", "5", "6", "7", "8", "9">>

\* strconv.Itoa of a natural number.
Itoa[n \in Nat] == IF n < 10 THEN <<Digits[n + 1]>>
                   ELSE Append(Itoa[n \div 10], Digits[(n % 10) + 1])

Safe == Plain \cup {".", "_", "-"} \* the runes safeStem's allowlist keeps

manifestName == <<"results", ".", "json">>

ASSUME NAssumption      == N \in Nat \ {0}
ASSUME PlainAssumption  == /\ Range(Digits) \cup {"item", "bin"} \subseteq Plain
                           /\ {".", "-", "/", " "} \cap Plain = {}
ASSUME SuffixAssumption == MaxSuffix \in Nat /\ MaxSuffix >= N + 2
ASSUME NamesAssumption  == /\ MaxStem \in Nat /\ MaxExt \in Nat
                           /\ \A s \in Ids \cup Exts : s \in Seq(Range(s))

TrimLeft(s, cut)  == LET kept == {i \in DOMAIN s : s[i] \notin cut}
                     IN  IF kept = {} THEN <<>> ELSE SubSeq(s, Min(kept), Len(s))
TrimRight(s, cut) == LET kept == {i \in DOMAIN s : s[i] \notin cut}
                     IN  IF kept = {} THEN <<>> ELSE SubSeq(s, 1, Max(kept))
Prefix(s, n)      == IF Len(s) > n THEN SubSeq(s, 1, n) ELSE s

\* The members of s that are in S, in their order.
Kept(s, S) == LET kept[k \in 0 .. Len(s)] ==
                      IF k = 0 THEN <<>>
                      ELSE IF s[k] \in S THEN Append(kept[k - 1], s[k]) ELSE kept[k - 1]
              IN  kept[Len(s)]

\* The identity of an item: its own id, or its 1-based position.
itemID(id, i) == LET trimmed == TrimLeft(TrimRight(id, {" "}), {" "})
                 IN  IF trimmed = <<>> THEN Itoa[i] ELSE trimmed

\* Mutant: runs of dots are let through.
BugAddRune(out, r) ==
    LET c == IF r \notin Safe THEN "-" ELSE r
    IN  IF c = "-" /\ out # <<>> /\ Last(out) = "-" THEN out ELSE Append(out, c)

\* One turn of safeStem's loop: what is not plain becomes a hyphen, a second
\* dot becomes a hyphen, and a second hyphen is dropped.
AddRune(out, r) ==
    LET After(c) == out # <<>> /\ Last(out) = c
        c        == IF r \notin Safe \/ (r = "." /\ After(".")) THEN "-" ELSE r
    IN  IF c = "-" /\ After("-") THEN out ELSE Append(out, c)

Cleaned(id) == LET out[k \in 0 .. Len(id)] ==
                       IF k = 0 THEN <<>> ELSE AddRune(out[k - 1], id[k])
               IN  out[Len(id)]

Edge == {"-", "."}

safeStem(id, i) ==
    LET clean == TrimLeft(TrimRight(Cleaned(id), Edge), Edge)
        out   == IF Len(clean) > MaxStem THEN TrimRight(Prefix(clean, MaxStem), Edge)
                 ELSE clean
    IN  IF out = <<>> THEN <<"item", "-">> \o Itoa[i] ELSE out

safeExt(ext) ==
    LET low == [k \in DOMAIN TrimLeft(ext, {"."}) |-> Lower(TrimLeft(ext, {"."})[k])]
        out == Kept(low, Plain \ {"_"})
    IN  IF out = <<>> THEN <<"bin">> ELSE Prefix(out, MaxExt)

\* A name split at its last dot, with a number put before the extension.
Numbered(name, n) ==
    LET dots == {k \in DOMAIN name : name[k] = "."}
        cut  == IF dots = {} THEN Len(name) ELSE Max(dots) - 1
    IN  SubSeq(name, 1, cut) \o <<"-">> \o Itoa[n] \o SubSeq(name, cut + 1, Len(name))

\* Mutant: the suffix is taken for free without looking.
BugUnique(name, taken) == IF name \notin taken THEN name ELSE Numbered(name, 2)

\* The first free name, counting from 2 when the plain one is taken.
unique(name, taken) ==
    IF name \notin taken THEN name
    ELSE Numbered(name, CHOOSE n \in 2 .. MaxSuffix :
                            /\ Numbered(name, n) \notin taken
                            /\ \A m \in 2 .. (n - 1) : Numbered(name, m) \in taken)

-----------------------------------------------------------------------------
VARIABLES slots,    \* the rendered slots, in input order
          next,     \* the slot assignFilenames looks at, N+1 when it is done
          taken,    \* the names given out, the manifest's first
          filename, \* the result's Filename, <<>> while it has none
          entries   \* the archive: [name, item], item 0 for the manifest

namesVars == <<slots, next, taken, filename, entries>>

NamesInit ==
    /\ slots \in [1 .. N -> [id: Ids, ok: BOOLEAN, ext: Exts]]
    /\ next = 1
    /\ taken = {manifestName}
    /\ filename = [i \in 1 .. N |-> <<>>]
    /\ entries = <<>>

Wanted(i) == safeStem(itemID(slots[i].id, i), i) \o <<".">> \o safeExt(slots[i].ext)

\* A slot that rendered gets the first free form of the name it wants.
NameSlot ==
    /\ next \in 1 .. N
    /\ slots[next].ok
    /\ LET name == unique(Wanted(next), taken)
       IN  /\ taken' = taken \cup {name}
           /\ filename' = [filename EXCEPT ![next] = name]
    /\ next' = next + 1
    /\ UNCHANGED <<slots, entries>>

\* A slot that failed has no file to name.
SkipSlot ==
    /\ next \in 1 .. N
    /\ ~slots[next].ok
    /\ next' = next + 1
    /\ UNCHANGED <<slots, taken, filename, entries>>

\* zipOutput: the files in input order, then the manifest.
Pack ==
    /\ next = N + 1
    /\ entries = <<>>
    /\ LET good == Kept([i \in 1 .. N |-> i], {i \in 1 .. N : slots[i].ok})
       IN  entries' = Append([k \in DOMAIN good |-> [name |-> filename[good[k]], item |-> good[k]]],
                             [name |-> manifestName, item |-> 0])
    /\ UNCHANGED <<slots, next, taken, filename>>

Packed == entries # <<>> /\ UNCHANGED namesVars

NamesNext == NameSlot \/ SkipSlot \/ Pack \/ Packed

NamesSpec == NamesInit /\ [][NamesNext]_namesVars

-----------------------------------------------------------------------------
\* The types; a name that was given out is in the set unique looks at.
NamesTypeOK ==
    /\ next \in 1 .. (N + 1)
    /\ DOMAIN filename = 1 .. N
    /\ manifestName \in taken
    /\ \A i \in 1 .. N : filename[i] # <<>> => filename[i] \in taken

\* No two files of an archive share a name, and none takes the manifest's: an
\* entry never overwrites another one when the archive is unpacked, not even
\* when a numbered name is another item's own id.
DistinctEntries ==
    \A i, j \in 1 .. N :
        /\ filename[i] # manifestName
        /\ (i # j /\ filename[i] = filename[j]) => filename[i] = <<>>

\* Every entry is one path component that is no dotfile and holds no "..": it
\* is made of the safe tokens, with no dot or hyphen at its front.
SafeNames ==
    \A i \in 1 .. N : LET f == filename[i] IN f # <<>> =>
        /\ \A k \in DOMAIN f : f[k] \in Safe
        /\ f[1] \notin Edge
        /\ \A k \in 1 .. (Len(f) - 1) : <<f[k], f[k + 1]>> # <<".", ".">>

\* The archive holds exactly the files the manifest names, each with the bytes
\* of the item it is named for, in input order, and the manifest last.
ManifestAccounts ==
    entries # <<>> =>
        /\ entries[Len(entries)] = [name |-> manifestName, item |-> 0]
        /\ \A k \in 1 .. (Len(entries) - 1) :
               /\ entries[k].name = filename[entries[k].item]
               /\ \A l \in 1 .. (k - 1) : entries[l].item < entries[k].item
        /\ \A i \in 1 .. N : filename[i] # <<>> <=>
               \E k \in DOMAIN entries : entries[k].item = i

\* An archive can be unpacked and believed: every entry is a harmless name, and
\* the manifest lists exactly the entries (safeStem, zipOutput).
EntriesHonest == SafeNames /\ ManifestAccounts
=============================================================================
