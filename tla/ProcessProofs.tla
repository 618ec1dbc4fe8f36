---------------------------- MODULE ProcessProofs ----------------------------
(***************************************************************************)
(* Proofs about Process and the three modules it is made of: the server's  *)
(* life, for any number of connections; the loading of presets, for every  *)
(* directory, however often it is changed while it is read; the            *)
(* configuration, for every environment; and one run of the binary, which  *)
(* takes the steps of the first two and rests on the third.                *)
(***************************************************************************)
EXTENDS Process, DataInduction, SequenceTheorems, TLAPS

-----------------------------------------------------------------------------
(* The server's life (module Lifecycle).                                   *)

(* Where Serve is tells what it has done to the server.                    *)
Phases ==
  /\ ready => main = "serving"
  /\ main \in {"bind", "serving", "drain"} => ~ shut
  /\ main \in {"shutdown", "close", "await"} => shut
  /\ main = "close" => graceOver
  /\ accept = "ended" => outcome # "none"

(* A nil outcome needs a shutdown, and a nil result needs a nil outcome.   *)
NilMeansShut == outcome = "nil" \/ serveErr = "nil" \/ ret = "nil" => shut

(* Connections exist only behind a listener that accepted them, and once   *)
(* the drain is over, accepting is over too.                               *)
ConnsSettled ==
  /\ main \in {"close", "await"} \/ (main = "returned" /\ shut) => accept # "accepting"
  /\ main = "await" \/ (main = "returned" /\ shut)
       => \A c \in Conns : conn[c] \in {"none", "closed", "cut"}

(* What came about has its cause: a shutdown the signal, an error the      *)
(* listener's or the port that was never bound.                            *)
Causes ==
  /\ shut \/ main \in {"drain", "shutdown", "close", "await"} => ctxDone
  /\ serveErr = "error" => outcome = "error"
  /\ ret = "error" => outcome = "error" \/ listener = "none"
  /\ accept \in {"none", "starting", "accepting"} => outcome = "none"
  /\ listener = "none" => accept = "none"
  /\ main = "bind" => listener = "none"

ServerInv == TypeOK /\ Phases /\ NilMeansShut /\ ConnsSettled /\ RetreatsInOrder /\ Causes

LEMMA ServerInit == Init => ServerInv
BY DEF Init, ServerInv, TypeOK, Results, Phases, NilMeansShut, ConnsSettled, RetreatsInOrder, Causes

LEMMA ServerStep == ServerInv /\ [Next]_vars => ServerInv'
<1> SUFFICES ASSUME ServerInv, [Next]_vars PROVE ServerInv'
  OBVIOUS
<1> USE DEF ServerInv, TypeOK, Results, Phases, NilMeansShut, ConnsSettled, RetreatsInOrder, Causes
<1>1. CASE Signal
  BY <1>1 DEF Signal
<1>2. CASE Bind
  <2>1. TypeOK'
    BY <1>2 DEF Bind
  <2>2. Phases' /\ NilMeansShut' /\ ConnsSettled' /\ RetreatsInOrder' /\ Causes'
    BY <1>2 DEF Bind
  <2>. QED BY <2>1, <2>2
<1>3. CASE BindFails
  BY <1>3 DEF BindFails
<1>4. CASE ServeStopped
  BY <1>4 DEF ServeStopped
<1>5. CASE ContextDone
  BY <1>5 DEF ContextDone
<1>6. CASE BeginShutdown
  BY <1>6 DEF BeginShutdown
<1>7. CASE ShutdownTimesOut \/ ShutdownDrained
  BY <1>7 DEF ShutdownTimesOut, ShutdownDrained
<1>8. CASE Close
  BY <1>8 DEF Close
<1>9. CASE Return
  BY <1>9 DEF Return
<1>10. CASE GraceOver
  BY <1>10 DEF GraceOver
<1>11. CASE SweeperStops
  BY <1>11 DEF SweeperStops
<1>12. CASE AcceptLoop
  <2>1. TypeOK'
    BY <1>12 DEF AcceptLoop
  <2>2. Phases' /\ NilMeansShut' /\ Causes'
    BY <1>12 DEF AcceptLoop
  <2>3. ConnsSettled' /\ RetreatsInOrder'
    BY <1>12 DEF AcceptLoop
  <2>. QED BY <2>1, <2>2, <2>3
<1>13. CASE AcceptFails
  BY <1>13 DEF AcceptFails
<1>14. CASE Send
  BY <1>14 DEF Send
<1>15. ASSUME NEW c \in Conns, Connect(c) \/ Request(c) \/ Finish(c) \/ Hangup(c)
       PROVE  ServerInv'
  BY <1>15 DEF Connect, Request, Finish, Hangup, Others
<1>16. CASE UNCHANGED vars
  BY <1>16 DEF vars
<1>. QED BY <1>1, <1>2, <1>3, <1>4, <1>5, <1>6, <1>7, <1>8, <1>9, <1>10, <1>11, <1>12,
            <1>13, <1>14, <1>15, <1>16 DEF Next, Main, Http

(* The invariant holds of every behaviour of the server's life.            *)
THEOREM LifecycleInvariant == Spec => []ServerInv
BY ServerInit, ServerStep, PTL DEF Spec


(* Readiness is withdrawn before the port is closed, and no request is cut *)
(* off before its grace is over.                                           *)
THEOREM OrderlyRetreat == Spec => []RetreatsInOrder
<1>1. ServerInv => RetreatsInOrder
  BY DEF ServerInv
<1>. QED BY <1>1, LifecycleInvariant, PTL

(* A shutdown that returns nil leaves no connection behind.                *)
THEOREM NilLeavesNobody == Spec => []NilMeansDrained
<1>1. ServerInv => NilMeansDrained
  BY DEF ServerInv, TypeOK, NilMeansShut, ConnsSettled, NilMeansDrained
<1>. QED BY <1>1, LifecycleInvariant, PTL

(* The types of the server's life, the one place of its channel among them.*)
THEOREM LifecycleTypes == Spec => []TypeOK
<1>1. ServerInv => TypeOK
  BY DEF ServerInv
<1>. QED BY <1>1, LifecycleInvariant, PTL

(* The whole retreat, for every number of connections.                      *)
THEOREM EndsInOrder == Spec => []OrderlyEnd
<1>1. RetreatsInOrder /\ NilMeansDrained => OrderlyEnd
  BY DEF OrderlyEnd
<1>. QED BY <1>1, OrderlyRetreat, NilLeavesNobody, PTL

-----------------------------------------------------------------------------
(* The loading of the presets (module PresetLoad).                         *)

(* What the guards on the directory entry have established when the file   *)
(* is opened.                                                              *)
Opened == pc = "read" => /\ listing[next].ext # "other"
                         /\ listing[next].type = "regular"
                         /\ listing[next].stem \notin BadStems

(* A file whose contents were accepted was good when they were.            *)
GoodWhenTaken == \A i \in 1 .. Len(listing) : taken[i] \in {"no", "good", "linked"}

Shape == /\ listing \in Seq(Files)
         /\ DOMAIN cond = 1 .. Len(listing)
         /\ DOMAIN taken = 1 .. Len(listing)
         /\ IsFiniteSet(Names)

LoadInv == /\ Shape /\ PresetTypeOK /\ Opened /\ GoodWhenTaken
           /\ CappedAndWhole /\ OnlyVetted /\ FullIsFull /\ (full => pc = "loaded")
-----------------------------------------------------------------------------
LEMMA LoadInit == PresetInit => LoadInv
<1> SUFFICES ASSUME PresetInit PROVE LoadInv
  OBVIOUS
<1>1. PICK n \in Nat : listing \in [1 .. n -> Files] /\ DOMAIN cond = 1 .. n
  <2>1. PICK n \in IF dir = "ok" THEN 0 .. MaxFiles ELSE {0} :
           /\ listing \in [1 .. n -> Files]
           /\ cond \in [1 .. n -> Conditions \ {"gone", "linked"}]
    BY DEF PresetInit
  <2>2. n \in Nat
    BY <2>1, MaxFilesAssumption
  <2>. QED BY <2>1, <2>2
<1>2. listing \in Seq(Files) /\ Len(listing) = n /\ DOMAIN listing = 1 .. n
  BY <1>1, SeqDef
<1>3. Names = Builtins /\ \A b \in Builtins : source[b] = Builtin
  BY DEF PresetInit, Names
<1>4. Shape
  BY <1>1, <1>2, <1>3, PresetAssumption DEF PresetInit, Shape
<1>5. CappedAndWhole /\ OnlyVetted
  BY <1>3, PresetAssumption DEF CappedAndWhole, OnlyVetted
<1>6. PresetTypeOK
  <2>1. pc = "boot" /\ next = 1 /\ ignored = {} /\ dir \in {"none", "broken", "ok"}
    BY DEF PresetInit
  <2>2. next \in 1 .. (Len(listing) + 1)
    BY <1>2, <2>1
  <2>. QED BY <1>3, <2>1, <2>2, PresetAssumption DEF PresetTypeOK, Builtin
<1>7. Opened /\ GoodWhenTaken /\ FullIsFull /\ (full => pc = "loaded")
  BY <1>2 DEF PresetInit, Opened, GoodWhenTaken, FullIsFull
<1>. QED BY <1>4, <1>5, <1>6, <1>7 DEF LoadInv

(* Steps that leave the set of presets and the accepted contents alone.    *)
LEMMA SetUnchanged ==
  ASSUME LoadInv, UNCHANGED <<listing, source, taken>>, PresetTypeOK', DOMAIN cond' = DOMAIN cond,
         Opened', FullIsFull', full' => pc' = "loaded"
  PROVE  LoadInv'
<1>1. UNCHANGED Names
  BY DEF Names
<1>. QED BY <1>1 DEF LoadInv, Shape, GoodWhenTaken, CappedAndWhole, OnlyVetted

LEMMA LoadStep == LoadInv /\ [PresetNext]_presetVars => LoadInv'
<1> SUFFICES ASSUME LoadInv, [PresetNext]_presetVars PROVE LoadInv'
  OBVIOUS
<1>0. Len(listing) \in Nat /\ next \in Nat
  BY LenProperties DEF LoadInv, Shape, PresetTypeOK
<1>1. CASE OpenDir \/ FinishListing
  <2>1. /\ UNCHANGED <<dir, cond, listing, source, taken, next, ignored, full>>
        /\ pc \in {"boot", "entry"} /\ pc' \in {"loaded", "failed", "entry"}
    BY <1>1 DEF OpenDir, FinishListing, LoadInv, PresetTypeOK
  <2>2. ~full
    BY <2>1 DEF LoadInv
  <2>3. PresetTypeOK' /\ Opened' /\ FullIsFull'
    BY <2>1, <2>2 DEF LoadInv, PresetTypeOK, Opened, FullIsFull, Names
  <2>. QED BY <2>1, <2>2, <2>3, SetUnchanged
<1>2. CASE SkipEntry \/ RefuseEntry \/ ReadBad
  <2>1. /\ UNCHANGED <<dir, cond, listing, source, taken, full>>
        /\ next <= Len(listing) /\ next' = next + 1
        /\ pc \in {"entry", "read"} /\ pc' = "entry"
        /\ ignored' \in {ignored, ignored \cup {next}}
    BY <1>2 DEF SkipEntry, RefuseEntry, ReadBad, LoadInv, PresetTypeOK
  <2>2. ~full
    BY <2>1 DEF LoadInv
  <2>3. PresetTypeOK' /\ Opened' /\ FullIsFull'
    BY <1>0, <2>1, <2>2 DEF LoadInv, PresetTypeOK, Opened, FullIsFull, Names
  <2>. QED BY <2>1, <2>2, <2>3, SetUnchanged
<1>3. CASE AcceptEntry
  <2>1. /\ UNCHANGED <<dir, cond, listing, source, taken, next, ignored, full>>
        /\ next <= Len(listing) /\ pc = "entry" /\ pc' = "read"
        /\ listing[next].ext # "other" /\ ~Refused(next)
    BY <1>3 DEF AcceptEntry
  <2>2. ~full
    BY <2>1 DEF LoadInv
  <2>3. PresetTypeOK' /\ Opened' /\ FullIsFull'
    BY <1>0, <2>1, <2>2 DEF LoadInv, PresetTypeOK, Opened, FullIsFull, Names, Refused
  <2>. QED BY <2>1, <2>2, <2>3, SetUnchanged
<1>4. CASE ReadGood
  <2> DEFINE name == listing[next].stem
  <2>1. /\ UNCHANGED <<dir, cond, listing, ignored, full>>
        /\ pc = "read" /\ pc' = "entry" /\ next' = next + 1
        /\ HasRoom(name) /\ cond[next] \in {"good", "linked"}
        /\ source' = [n \in Names \cup {name} |-> IF n = name THEN next ELSE source[n]]
        /\ taken' = [taken EXCEPT ![next] = cond[next]]
    BY <1>4 DEF ReadGood, Readable
  <2>2. ~full /\ next \in 1 .. Len(listing)
    BY <1>0, <2>1 DEF LoadInv, PresetTypeOK
  <2>3. name \in Stems /\ name \notin BadStems
    <3>1. listing[next] \in Files
      BY <2>2, ElementOfSeq DEF LoadInv, Shape
    <3>. QED BY <2>1, <3>1, FilesAssumption DEF LoadInv, Opened
  <2>4. Names' = Names \cup {name} /\ \A n \in Names' : source'[n] = IF n = name THEN next ELSE source[n]
    BY <2>1 DEF Names
  <2>5. \A i \in 1 .. Len(listing) : taken'[i] = IF i = next THEN cond[next] ELSE taken[i]
    BY <2>1, <2>2 DEF LoadInv, Shape
  <2>6. Shape'
    <3>1. IsFiniteSet(Names')
      BY <2>4, FS_AddElement DEF LoadInv, Shape
    <3>2. DOMAIN taken' = 1 .. Len(listing)
      BY <2>1 DEF LoadInv, Shape
    <3>. QED BY <2>1, <3>1, <3>2 DEF LoadInv, Shape
  <2>7. PresetTypeOK'
    <3> HIDE DEF name
    <3>1. /\ pc' \in {"boot", "entry", "read", "loaded", "failed"}
          /\ dir' \in {"none", "broken", "ok"}
          /\ next' \in 1 .. (Len(listing') + 1)
          /\ pc' # "read" /\ ignored' \subseteq 1 .. Len(listing')
      BY <1>0, <2>1, <2>2 DEF LoadInv, PresetTypeOK
    <3>2. Names' \subseteq Stems
      BY <2>3, <2>4 DEF LoadInv, PresetTypeOK
    <3>3. \A n \in Names' : source'[n] \in 0 .. Len(listing')
      BY <1>0, <2>1, <2>2, <2>4 DEF LoadInv, PresetTypeOK
    <3>. QED BY <3>1, <3>2, <3>3 DEF PresetTypeOK
  <2>8. CappedAndWhole'
    <3>1. IsFiniteSet(Names) /\ Cardinality(Names) \in Nat
      BY FS_CardinalityType DEF LoadInv, Shape
    <3>2. CASE name \in Names
      BY <2>4, <3>2 DEF LoadInv, CappedAndWhole
    <3>3. CASE name \notin Names
      <4>1. Cardinality(Names) < MaxPresets
        BY <2>1, <3>3 DEF HasRoom
      <4>2. Cardinality(Names') = Cardinality(Names) + 1
        <5> HIDE DEF name
        <5>. QED BY <2>4, <3>1, <3>3, FS_AddElement
      <4>. QED BY <2>4, <3>1, <4>1, <4>2, PresetAssumption DEF LoadInv, CappedAndWhole
    <3>. QED BY <3>2, <3>3
  <2>9. OnlyVetted'
    <3>1. SUFFICES ASSUME NEW n \in Names', source'[n] # Builtin
                   PROVE  LET i == source'[n] IN /\ listing[i].stem = n
                                                 /\ n \notin BadStems
                                                 /\ listing[i].ext # "other"
                                                 /\ listing[i].type = "regular"
                                                 /\ taken'[i] \in {"good", "linked"}
      BY <2>1 DEF OnlyVetted
    <3>2. CASE n = name
      BY <2>1, <2>2, <2>3, <2>4, <2>5, <3>2 DEF LoadInv, Opened
    <3>3. CASE n # name
      <4>1. n \in Names /\ source'[n] = source[n]
        BY <2>4, <3>3
      <4>2. source[n] \in 1 .. Len(listing)
        BY <1>0, <3>1, <4>1 DEF LoadInv, PresetTypeOK, Builtin
      <4>3. /\ listing[source[n]].stem = n /\ n \notin BadStems
            /\ listing[source[n]].ext # "other" /\ listing[source[n]].type = "regular"
            /\ taken[source[n]] \in {"good", "linked"}
        BY <3>1, <4>1 DEF LoadInv, OnlyVetted
      <4>4. taken'[source[n]] \in {"good", "linked"}
        BY <2>1, <2>5, <4>2, <4>3
      <4>. QED BY <4>1, <4>3, <4>4
    <3>. QED BY <3>2, <3>3
  <2>10. Opened' /\ FullIsFull' /\ (full' => pc' = "loaded")
    BY <2>1, <2>2 DEF Opened, FullIsFull
  <2>11. GoodWhenTaken'
    BY <2>1, <2>5 DEF LoadInv, GoodWhenTaken
  <2>. QED BY <2>6, <2>7, <2>8, <2>9, <2>10, <2>11 DEF LoadInv
<1>5. CASE ReadFull
  <2>1. /\ UNCHANGED <<dir, cond, listing, source, taken, next>>
        /\ pc = "read" /\ pc' = "loaded" /\ full' = TRUE
        /\ ignored' = ignored \cup {next} /\ ~HasRoom(listing[next].stem)
    BY <1>5 DEF ReadFull
  <2>2. PresetTypeOK' /\ Opened'
    BY <1>0, <2>1 DEF LoadInv, PresetTypeOK, Opened, Names
  <2>3. FullIsFull'
    <3>1. IsFiniteSet(Names) /\ Cardinality(Names) \in Nat
      BY FS_CardinalityType DEF LoadInv, Shape
    <3>2. Cardinality(Names) = MaxPresets /\ listing[next].stem \notin Names
      BY <2>1, <3>1, PresetAssumption DEF LoadInv, CappedAndWhole, HasRoom
    <3>. QED BY <2>1, <3>2 DEF FullIsFull, Names
  <2>. QED BY <2>1, <2>2, <2>3, SetUnchanged
<1>6. CASE Change \/ UNCHANGED presetVars
  <2>1. /\ UNCHANGED <<dir, listing, source, taken, pc, next, ignored, full>>
        /\ DOMAIN cond' = DOMAIN cond
    BY <1>6 DEF Change, presetVars
  <2>2. PresetTypeOK' /\ Opened' /\ FullIsFull' /\ (full' => pc' = "loaded")
    BY <2>1 DEF LoadInv, PresetTypeOK, Opened, FullIsFull, Names
  <2>. QED BY <2>1, <2>2, SetUnchanged
<1>. QED BY <1>1, <1>2, <1>3, <1>4, <1>5, <1>6 DEF PresetNext, Load

THEOREM PresetInvariant == PresetSpec => []LoadInv
BY LoadInit, LoadStep, PTL DEF PresetSpec

(* The set of presets stays within its cap and keeps every built-in name,  *)
(* for every directory and every sequence of changes to it during boot.    *)
THEOREM SetStaysCapped == PresetSpec => []CappedAndWhole
<1>1. LoadInv => CappedAndWhole
  BY DEF LoadInv
<1>. QED BY <1>1, PresetInvariant, PTL

(* Nothing is served from a file that was not vetted when it was read.     *)
THEOREM ServedWasVetted == PresetSpec => []OnlyVetted
<1>1. LoadInv => OnlyVetted
  BY DEF LoadInv
<1>. QED BY <1>1, PresetInvariant, PTL

(* The cap ends the loop only at a name that is new to a full set.         *)
THEOREM FullMeansFull == PresetSpec => []FullIsFull
<1>1. LoadInv => FullIsFull
  BY DEF LoadInv
<1>. QED BY <1>1, PresetInvariant, PTL

(* The types of loading, its place in the listing among them.              *)
THEOREM PresetTypes == PresetSpec => []PresetTypeOK
<1>1. LoadInv => PresetTypeOK
  BY DEF LoadInv
<1>. QED BY <1>1, PresetInvariant, PTL

(* What each file of the listing has come to: nothing yet from the one at  *)
(* hand onwards, but for a warning on the one that found the set full.     *)
FilesSettled ==
  /\ DOMAIN taken = 1 .. Len(listing) /\ Len(listing) \in Nat /\ next \in 1 .. (Len(listing) + 1)
  /\ \A i \in 1 .. Len(listing) :
       /\ i < next /\ listing[i].ext # "other" => ((taken[i] # "no") # (i \in ignored))
       /\ i >= next => taken[i] = "no"
       /\ i >= next /\ i \in ignored => full /\ i = next
  /\ full => pc = "loaded" /\ next \in ignored /\ next <= Len(listing)
  /\ pc = "boot" /\ dir # "ok" => listing = <<>>
  /\ pc = "loaded" => full \/ next > Len(listing)
  /\ pc = "read" => next <= Len(listing)

LEMMA FilesInit == PresetInit => FilesSettled
<1> SUFFICES ASSUME PresetInit PROVE FilesSettled
  OBVIOUS
<1>1. PICK n \in Nat : /\ listing \in [1 .. n -> Files]
                       /\ dir # "ok" => n = 0
  BY MaxFilesAssumption DEF PresetInit
<1>2. listing \in Seq(Files) /\ Len(listing) = n /\ DOMAIN listing = 1 .. n
  BY <1>1, SeqDef
<1>3. dir # "ok" => listing = <<>>
  BY <1>1, <1>2, EmptySeq
<1>4. /\ pc = "boot" /\ next = 1 /\ ignored = {} /\ full = FALSE
      /\ taken = [i \in DOMAIN listing |-> "no"]
  BY DEF PresetInit
<1>. QED BY <1>1, <1>2, <1>3, <1>4 DEF FilesSettled

LEMMA FilesStep == LoadInv /\ FilesSettled /\ [PresetNext]_presetVars => FilesSettled'
<1> SUFFICES ASSUME LoadInv, FilesSettled, [PresetNext]_presetVars PROVE FilesSettled'
  OBVIOUS
<1> USE DEF FilesSettled
<1>1. CASE OpenDir
  <2>1. dir # "ok" => Len(listing) = 0
    BY <1>1 DEF OpenDir
  <2>. QED BY <1>1, <2>1 DEF OpenDir, LoadInv, PresetTypeOK
<1>2. CASE FinishListing
  BY <1>2 DEF FinishListing
<1>3. CASE SkipEntry \/ RefuseEntry \/ ReadBad
  BY <1>3 DEF SkipEntry, RefuseEntry, ReadBad
<1>4. CASE AcceptEntry
  BY <1>4 DEF AcceptEntry
<1>5. CASE ReadGood
  <2>1. /\ UNCHANGED <<dir, listing, ignored, full>> /\ pc = "read" /\ pc' = "entry"
        /\ next' = next + 1 /\ taken' = [taken EXCEPT ![next] = cond[next]]
        /\ cond[next] # "no"
    BY <1>5 DEF ReadGood, Readable
  <2>2. /\ DOMAIN taken' = DOMAIN taken
        /\ \A i \in 1 .. Len(listing) : taken'[i] = IF i = next THEN cond[next] ELSE taken[i]
    BY <2>1
  <2>. QED BY <2>1, <2>2
<1>6. CASE ReadFull
  BY <1>6 DEF ReadFull
<1>7. CASE Change \/ UNCHANGED presetVars
  BY <1>7 DEF Change, presetVars
<1>. QED BY <1>1, <1>2, <1>3, <1>4, <1>5, <1>6, <1>7 DEF PresetNext, Load

LEMMA FilesAccounted == LoadInv /\ FilesSettled => Accounted
<1> SUFFICES ASSUME LoadInv, FilesSettled PROVE Accounted
  OBVIOUS
<1>1. DOMAIN listing = 1 .. Len(listing)
  BY LenProperties DEF LoadInv, Shape
<1>. QED BY <1>1 DEF FilesSettled, Accounted

(* Each .json file the loop passed gave its preset or was warned about,    *)
(* never both, and a listing that ends early ends at a file that found the *)
(* set full and is warned about; those after it are neither.               *)
THEOREM FilesAreAccounted == PresetSpec => []Accounted
BY FilesInit, FilesStep, FilesAccounted, PresetInvariant, PTL DEF PresetSpec

(* Loading is sound, for every directory and every way it changes.          *)
THEOREM LoadingIsSound == PresetSpec => []PresetsSound
<1>1. CappedAndWhole /\ OnlyVetted /\ Accounted /\ FullIsFull => PresetsSound
  BY DEF PresetsSound
<1>. QED BY <1>1, SetStaysCapped, ServedWasVetted, FilesAreAccounted, FullMeansFull, PTL

-----------------------------------------------------------------------------
(* The configuration (module Config).                                      *)

Words == Seq(Tokens)

Ink(w) == {i \in DOMAIN w : w[i] # Blank}

LEMMA InkPlaces ==
  ASSUME NEW w \in Words
  PROVE  /\ Len(w) \in Nat /\ DOMAIN w = 1 .. Len(w)
         /\ \A i \in Ink(w) : i \in Nat /\ i \in 1 .. Len(w) /\ w[i] # Blank
<1>1. Len(w) \in Nat /\ DOMAIN w = 1 .. Len(w)
  BY LenProperties DEF Words
<1>2. ASSUME NEW i \in Ink(w) PROVE i \in Nat /\ i \in 1 .. Len(w) /\ w[i] # Blank
  <2>1. i \in DOMAIN w /\ w[i] # Blank
    BY DEF Ink
  <2>2. i \in 1 .. Len(w)
    BY <1>1, <2>1
  <2>3. i \in Nat
    BY <1>1, <2>2
  <2>. QED BY <2>1, <2>2, <2>3, Zenon
<1>. QED BY <1>1, <1>2

(* Trimming keeps a word from its first ink to its last.                   *)
LEMMA TrimKeeps ==
  ASSUME NEW w \in Words
  PROVE  /\ Ink(w) = {} => TrimSpace(w) = <<>>
         /\ Ink(w) # {} => \E a, b \in Ink(w) : /\ \A i \in Ink(w) : a <= i /\ i <= b
                                                /\ TrimSpace(w) = SubSeq(w, a, b)
<1>0. DOMAIN w = 1 .. Len(w) /\ Len(w) \in Nat
  BY InkPlaces
<1>1. Ink(w) = {} => TrimSpace(w) = <<>>
  BY DEF TrimSpace, Ink
<1>2. ASSUME Ink(w) # {}
      PROVE  \E a, b \in Ink(w) : /\ \A i \in Ink(w) : a <= i /\ i <= b
                                  /\ TrimSpace(w) = SubSeq(w, a, b)
  <2> DEFINE first == CHOOSE i \in Ink(w) : \A j \in Ink(w) : i <= j
             last  == CHOOSE i \in Ink(w) : \A j \in Ink(w) : i >= j
  <2>1. Ink(w) \in SUBSET Nat /\ Ink(w) \in SUBSET (0 .. Len(w))
    <3>1. \A i \in Ink(w) : i \in Nat /\ i \in 1 .. Len(w)
      BY InkPlaces
    <3>2. \A i \in 1 .. Len(w) : i \in 0 .. Len(w)
      BY <1>0
    <3>. QED BY <3>1, <3>2
  <2>2. first \in Ink(w) /\ \A j \in Ink(w) : first <= j
    BY <1>2, <2>1, LeastNumber
  <2>3. last \in Ink(w) /\ \A j \in Ink(w) : last >= j
    <3>1. \E i \in Ink(w) : \A j \in Ink(w) : j <= i
      BY <1>0, <1>2, <2>1, GreatestNumber
    <3>2. \E i \in Ink(w) : \A j \in Ink(w) : i >= j
      BY <2>1, <3>1
    <3>. QED BY <3>2
  <2>4. TrimSpace(w) = SubSeq(w, first, last)
    BY <1>2 DEF TrimSpace, Ink
  <2>5. \A i \in Ink(w) : first <= i /\ i <= last
    BY <2>1, <2>2, <2>3
  <2> HIDE DEF first, last
  <2>. QED BY <2>2, <2>3, <2>4, <2>5
<1>. QED BY <1>1, <1>2

(* Nothing trims to nothing.                                               *)
LEMMA Nothing == <<>> \in Words /\ Len(<<>>) = 0 /\ Ink(<<>>) = {} /\ TrimSpace(<<>>) = <<>>
<1>1. <<>> \in Words /\ Len(<<>>) = 0 /\ DOMAIN <<>> = {}
  BY DEF Words
<1>2. Ink(<<>>) = {}
  BY <1>1 DEF Ink
<1>. QED BY <1>1, <1>2, TrimKeeps

(* What is between two places of a word, element by element.               *)
LEMMA CutOf ==
  ASSUME NEW w \in Words, NEW a \in 1 .. Len(w), NEW b \in 1 .. Len(w), a <= b
  PROVE  /\ SubSeq(w, a, b) \in Words /\ Len(SubSeq(w, a, b)) = b - a + 1
         /\ DOMAIN SubSeq(w, a, b) = 1 .. (b - a + 1)
         /\ \A i \in 1 .. (b - a + 1) : SubSeq(w, a, b)[i] = w[a + i - 1]
<1>1. Len(w) \in Nat
  BY InkPlaces
<1>2. a .. b \subseteq 1 .. Len(w) /\ a \in 1 .. Len(w) + 1
  BY <1>1
<1>3. SubSeq(w, a, b) \in Words /\ Len(SubSeq(w, a, b)) = b - a + 1
      /\ \A i \in 1 .. (b - a + 1) : SubSeq(w, a, b)[i] = w[a + i - 1]
  BY <1>1, <1>2, SubSeqProperties DEF Words
<1>. QED BY <1>3, InkPlaces

(* A word that trims to one token has no other ink.                        *)
LEMMA TrimToOne ==
  ASSUME NEW w \in Words, Len(TrimSpace(w)) = 1
  PROVE  \E i \in Ink(w) : Ink(w) = {i} /\ TrimSpace(w)[1] = w[i]
<1>1. Ink(w) # {}
  BY TrimKeeps
<1>2. PICK a, b \in Ink(w) : /\ \A i \in Ink(w) : a <= i /\ i <= b
                             /\ TrimSpace(w) = SubSeq(w, a, b)
  BY <1>1, TrimKeeps
<1>3. a \in 1 .. Len(w) /\ b \in 1 .. Len(w) /\ a <= b
  BY <1>2, InkPlaces
<1>4. b - a + 1 = 1 /\ TrimSpace(w)[1] = w[a]
  BY <1>2, <1>3, CutOf
<1>5. Ink(w) = {a}
  <2>1. Ink(w) \in SUBSET Nat
    BY InkPlaces
  <2>2. \A i \in Ink(w) : i = a
    BY <1>2, <1>3, <1>4, <2>1
  <2>. QED BY <1>2, <2>2
<1>. QED BY <1>2, <1>4, <1>5

LEMMA TrimIsWord ==
  ASSUME NEW w \in Words
  PROVE  TrimSpace(w) \in Words
<1>1. CASE Ink(w) = {}
  BY <1>1, TrimKeeps, Nothing
<1>2. CASE Ink(w) # {}
  <2>1. PICK a, b \in Ink(w) : /\ \A i \in Ink(w) : a <= i /\ i <= b
                               /\ TrimSpace(w) = SubSeq(w, a, b)
    BY <1>2, TrimKeeps
  <2>2. a \in 1 .. Len(w) /\ b \in 1 .. Len(w) /\ a <= b
    BY <2>1, InkPlaces
  <2>. QED BY <2>1, <2>2, CutOf
<1>. QED BY <1>1, <1>2

LEMMA ProductFits ==
  ASSUME NEW n \in Nat, NEW m \in Nat \ {0}, NEW s \in Nat, n <= s \div m
  PROVE  n * m <= s
<1>1. (s \div m) * m <= s /\ s \div m \in Nat
  OBVIOUS
<1>. QED BY <1>1

LEMMA WrapsNothing ==
  ASSUME NEW x \in 0 .. MaxInt
  PROVE  Wrap64(x) = x
BY NumbersAssumption DEF Wrap64

(* A size that is accepted is one number and at most one unit, and its     *)
(* value is their product: nothing is lost to the width of the word.       *)
LEMMA SizeIsExact ==
  ASSUME NEW w \in Words, NEW lo, Bytes(w, lo).ok
  PROVE  \E i, j \in Ink(w) :
           /\ i <= j /\ Ink(w) = {i, j}
           /\ Bytes(w, lo).value = NumberOf[w[i]] * (IF i = j THEN 1 ELSE Units[w[j]])
<1> DEFINE v    == TrimSpace(w)
           unit == v # <<>> /\ Last(v) \in DOMAIN Units
           mult == IF unit THEN Units[Last(v)] ELSE 1
           n    == TrimSpace(IF unit THEN Front(v) ELSE v)
<1>1. /\ IsNumber(n) /\ InInt64(NumberOf[n[1]])
      /\ ~(NumberOf[n[1]] < 0 \/ NumberOf[n[1]] > MaxSize \div mult)
      /\ Bytes(w, lo).value = Wrap64(NumberOf[n[1]] * mult)
  BY DEF Bytes, Bad, Good
<1>2. Len(n) = 1 /\ n[1] \in DOMAIN NumberOf
  BY <1>1 DEF IsNumber
<1>3. v \in Words
  BY TrimIsWord
<1>4. Ink(w) # {}
  <2>1. SUFFICES ASSUME Ink(w) = {} PROVE FALSE
    OBVIOUS
  <2>2. v = <<>>
    BY <2>1, TrimKeeps
  <2>3. n = TrimSpace(<<>>)
    BY <2>2
  <2>. QED BY <1>2, <2>3, Nothing
<1>5. PICK a, b \in Ink(w) : /\ \A i \in Ink(w) : a <= i /\ i <= b
                             /\ v = SubSeq(w, a, b)
  BY <1>4, TrimKeeps
<1>6. a \in 1 .. Len(w) /\ b \in 1 .. Len(w) /\ a <= b /\ Len(w) \in Nat
  BY <1>5, InkPlaces
<1>7. /\ Len(v) = b - a + 1 /\ DOMAIN v = 1 .. Len(v)
      /\ \A i \in 1 .. Len(v) : v[i] = w[a + i - 1]
  BY <1>5, <1>6, CutOf
<1>8. mult \in Nat \ {0}
  BY NumbersAssumption
<1>9. Bytes(w, lo).value = NumberOf[n[1]] * mult
  <2>1. NumberOf[n[1]] \in Nat /\ MaxSize \in Nat /\ MaxSize <= MaxInt
    <3>1. NumberOf[n[1]] \in Int
      BY <1>2, NumbersAssumption
    <3>. QED BY <1>1, <3>1, NumbersAssumption DEF MaxSize
  <2>2. NumberOf[n[1]] <= MaxSize \div mult
    <3>1. MaxSize \div mult \in Int
      BY <1>8, <2>1
    <3>. QED BY <1>1, <2>1, <3>1
  <2> HIDE DEF n, mult
  <2>3. NumberOf[n[1]] * mult <= MaxSize /\ NumberOf[n[1]] * mult \in Nat
    BY <1>8, <2>1, <2>2, ProductFits
  <2>4. NumberOf[n[1]] * mult \in 0 .. MaxInt
    BY <2>1, <2>3, NumbersAssumption
  <2>. QED BY <1>1, <2>4, WrapsNothing
<1>10. CASE ~unit
  <2>1. n = TrimSpace(v) /\ mult = 1
    BY <1>10
  <2>2. PICK p \in Ink(v) : Ink(v) = {p} /\ n[1] = v[p]
    BY <1>2, <1>3, <2>1, TrimToOne
  <2>3. p \in 1 .. Len(v)
    BY <1>3, InkPlaces
  <2>4. ASSUME NEW k \in Ink(w) PROVE k = a + p - 1
    <3>1. k \in Nat /\ k >= a /\ k <= b /\ w[k] # Blank
      BY <1>5, InkPlaces
    <3>2. k - a + 1 \in 1 .. Len(v) /\ a + (k - a + 1) - 1 = k
      BY <1>6, <1>7, <3>1
    <3>3. k - a + 1 \in Ink(v)
      BY <1>7, <3>1, <3>2 DEF Ink
    <3>4. k - a + 1 = p
      BY <2>2, <3>3
    <3>5. a \in Nat
      BY <1>6
    <3>. QED BY <3>1, <3>4, <3>5
  <2>5. a = a + p - 1 /\ b = a + p - 1 /\ w[a] = n[1]
    BY <1>6, <1>7, <2>2, <2>3, <2>4
  <2>6. Ink(w) = {a}
    BY <2>4, <2>5
  <2>7. Bytes(w, lo).value = NumberOf[w[a]]
    <3>1. NumberOf[n[1]] \in Int
      BY <1>2, NumbersAssumption
    <3>. QED BY <1>9, <2>1, <2>5, <3>1
  <2>8. NumberOf[w[a]] = NumberOf[w[a]] * 1
    BY <1>2, <2>5, NumbersAssumption
  <2>. QED BY <1>6, <2>6, <2>7, <2>8
<1>11. CASE unit
  <2> DEFINE f == SubSeq(v, 1, Len(v) - 1)
  <2>1. n = TrimSpace(f) /\ mult = Units[v[Len(v)]]
    BY <1>11 DEF Front, Last
  <2>2. Len(v) > 1
    <3>1. SUFFICES ASSUME Len(v) = 1 PROVE FALSE
      BY <1>6, <1>7
    <3>2. f = <<>>
      BY <1>3, <3>1, SubSeqEmpty
    <3>3. TrimSpace(f) = <<>>
      BY <3>2, Nothing
    <3> HIDE DEF n, f
    <3>. QED BY <1>2, <2>1, <3>3, Nothing
  <2>3. /\ f \in Words /\ DOMAIN f = 1 .. (Len(v) - 1)
        /\ \A i \in 1 .. (Len(v) - 1) : f[i] = v[i]
    <3>1. 1 \in 1 .. Len(v) /\ Len(v) - 1 \in 1 .. Len(v) /\ 1 <= Len(v) - 1 /\ (Len(v) - 1) - 1 + 1 = Len(v) - 1
      BY <1>6, <1>7, <2>2
    <3>2. \A i \in 1 .. (Len(v) - 1) : 1 + i - 1 = i
      OBVIOUS
    <3>. QED BY <1>3, <3>1, <3>2, CutOf
  <2>4. PICK p \in Ink(f) : Ink(f) = {p} /\ n[1] = f[p]
    BY <1>2, <2>1, <2>3, TrimToOne, ZenonT(40)
  <2>5. p \in 1 .. (Len(v) - 1)
    BY <2>3, InkPlaces DEF Ink
  <2>6. ASSUME NEW k \in Ink(w), k # b PROVE k = a + p - 1
    <3>1. k \in Nat /\ k >= a /\ k <= b /\ w[k] # Blank
      BY <1>5, InkPlaces
    <3>2. k < b
      BY <1>6, <2>6, <3>1
    <3>3. /\ k - a + 1 \in 1 .. (Len(v) - 1) /\ k - a + 1 \in 1 .. Len(v)
          /\ a + (k - a + 1) - 1 = k
      BY <1>6, <1>7, <3>1, <3>2
    <3>4. f[k - a + 1] = w[k]
      BY <1>7, <2>3, <3>3
    <3>5. k - a + 1 \in Ink(f)
      BY <2>3, <3>1, <3>3, <3>4 DEF Ink
    <3>6. k - a + 1 = p
      BY <2>4, <3>5
    <3>7. a \in Nat
      BY <1>6
    <3>. QED BY <3>1, <3>6, <3>7
  <2>7. a # b /\ a = a + p - 1 /\ w[a] = n[1] /\ w[b] = v[Len(v)]
    BY <1>6, <1>7, <2>2, <2>3, <2>4, <2>5, <2>6
  <2>8. Ink(w) = {a, b}
    BY <2>6, <2>7
  <2>. QED BY <1>6, <1>9, <2>1, <2>7, <2>8
<1>. QED BY <1>10, <1>11

LEMMA KnownKeys ==
  /\ {"BIND", "AUTH_MODE", "API_KEYS", "I_UNDERSTAND_OPEN_BIND", "MAX_BODY", "FETCH_MAX_BYTES"}
       \subseteq Known
  /\ "keyless" \notin Known /\ "open" \notin Known
BY DEF Known, Kinds

(* The last of a repeated variable counts, and it is a word.               *)
LEMMA EffectiveIsLast ==
  ASSUME NEW e \in Environs, NEW k \in Known
  PROVE  /\ Effective(e, k) \in Words
         /\ Sets(e, k) = {} => Effective(e, k) = Default(k)
         /\ Sets(e, k) # {} =>
              \E i \in Sets(e, k) : /\ \A j \in Sets(e, k) : j <= i
                                    /\ Effective(e, k) = e[i].value
<1>1. /\ e \in Seq([key : STRING, value : Words])
      /\ Len(e) \in Nat /\ DOMAIN e = 1 .. Len(e)
  BY EnvironsAssumption, LenProperties DEF Words
<1>2. CASE Sets(e, k) = {}
  BY <1>2, DefaultsAssumption DEF Effective, Words
<1>3. CASE Sets(e, k) # {}
  <2> DEFINE last == CHOOSE i \in Sets(e, k) : \A j \in Sets(e, k) : j <= i
  <2>1. Sets(e, k) \in SUBSET (0 .. Len(e))
    BY <1>1 DEF Sets
  <2>2. last \in Sets(e, k) /\ \A j \in Sets(e, k) : j <= last
    <3>1. \E i \in Sets(e, k) : \A j \in Sets(e, k) : j <= i
      BY <1>1, <1>3, <2>1, GreatestNumber
    <3>. QED BY <3>1
  <2>3. last \in DOMAIN e
    BY <2>2 DEF Sets
  <2>4. e[last].value \in Words
    <3>1. e[last] \in [key : STRING, value : Words]
      BY <1>1, <2>3, ElementOfSeq
    <3>. QED BY <3>1
  <2>5. Effective(e, k) = e[last].value
    BY <1>3 DEF Effective
  <2>. QED BY <1>3, <2>2, <2>4, <2>5
<1>. QED BY <1>2, <1>3

LEMMA SameWordSameValue ==
  ASSUME NEW e, NEW f, NEW k, Effective(e, k) = Effective(f, k)
  PROVE  Value(e, k) = Value(f, k)
BY DEF Value

(* What a variable is parsed to depends on no other variable.              *)
LEMMA AloneIsTheSame ==
  ASSUME NEW e \in Environs, NEW k \in Known
  PROVE  Value(Restrict(e, Sets(e, k)), k) = Value(e, k)
<1> DEFINE r == Restrict(e, Sets(e, k))
<1>1. DOMAIN r = Sets(e, k) /\ \A i \in Sets(e, k) : r[i] = e[i] /\ e[i].key = k
  BY DEF Restrict, Sets
<1>2. Sets(r, k) = Sets(e, k)
  <2> HIDE DEF r
  <2>. QED BY <1>1 DEF Sets
<1>3. Effective(r, k) = Effective(e, k)
  <2>1. CASE Sets(e, k) = {}
    BY <1>2, <2>1 DEF Effective
  <2>2. CASE Sets(e, k) # {}
    <3> DEFINE last == CHOOSE i \in Sets(e, k) : \A j \in Sets(e, k) : j <= i
    <3>1. last \in Sets(e, k)
      BY <2>2, EffectiveIsLast
    <3>2. Effective(r, k) = r[last].value /\ Effective(e, k) = e[last].value
      <4> HIDE DEF r
      <4>. QED BY <1>2, <2>2 DEF Effective
    <3> HIDE DEF r, last
    <3>. QED BY <1>1, <3>1, <3>2
  <2>. QED BY <2>1, <2>2
<1>. QED BY <1>3, SameWordSameValue

LEMMA UnsetIsGood ==
  ASSUME NEW e \in Environs, NEW k \in Known, Sets(e, k) = {}
  PROVE  Value(e, k).ok
<1>1. Sets(<<>>, k) = {}
  BY DEF Sets
<1>2. Effective(e, k) = Effective(<<>>, k)
  BY <1>1 DEF Effective
<1>. QED BY <1>2, SameWordSameValue, DefaultsAssumption

LEMMA RefusedAre ==
  ASSUME NEW e \in Environs
  PROVE  BadKeys(e) = {k \in Known : ~Value(Restrict(e, Sets(e, k)), k).ok}
BY AloneIsTheSame, UnsetIsGood DEF BadKeys

LEMMA AcceptedAreGood ==
  ASSUME NEW e \in Environs, Errors(e) = {}
  PROVE  /\ BadKeys(e) = {} /\ Insecure(e) = {}
         /\ \A k \in Known : Value(e, k).ok
<1>1. BadKeys(e) = {} /\ Insecure(e) = {}
  BY DEF Errors
<1>. QED BY <1>1, UnsetIsGood DEF BadKeys

LEMMA ParsedBy ==
  ASSUME NEW e
  PROVE  /\ Value(e, "BIND").value = TrimSpace(Effective(e, "BIND"))
         /\ Value(e, "API_KEYS") = Good(List(Effective(e, "API_KEYS")))
         /\ Value(e, "AUTH_MODE") = Enum(Effective(e, "AUTH_MODE"), {<<"required">>, <<"open">>})
         /\ Value(e, "I_UNDERSTAND_OPEN_BIND") = Boolean(Effective(e, "I_UNDERSTAND_OPEN_BIND"))
         /\ \A k \in Kinds.bytes : k \in Known /\ Value(e, k) = Bytes(Effective(e, k), 1)
<1>1. /\ "BIND" \in Kinds.str /\ "API_KEYS" \in Kinds.list
      /\ "I_UNDERSTAND_OPEN_BIND" \in Kinds.boolean /\ Kinds.bytes = {"MAX_BODY", "FETCH_MAX_BYTES"}
  BY DEF Kinds
<1>2. Value(e, "BIND").value = TrimSpace(Effective(e, "BIND"))
  <2>1. Value(e, "BIND") = Good(TrimSpace(Effective(e, "BIND")))
    BY DEF Value, Kinds
  <2>. QED BY <2>1 DEF Good
<1>3. Value(e, "API_KEYS") = Good(List(Effective(e, "API_KEYS")))
  BY DEF Value, Kinds
<1>4. Value(e, "AUTH_MODE") = Enum(Effective(e, "AUTH_MODE"), {<<"required">>, <<"open">>})
  BY DEF Value, Kinds, Allowed
<1>5. Value(e, "I_UNDERSTAND_OPEN_BIND") = Boolean(Effective(e, "I_UNDERSTAND_OPEN_BIND"))
  BY DEF Value, Kinds
<1>6. \A k \in Kinds.bytes : k \in Known /\ Value(e, k) = Bytes(Effective(e, k), 1)
  BY <1>1, KnownKeys DEF Value, Kinds
<1>. QED BY <1>2, <1>3, <1>4, <1>5, <1>6

(* A list that is not empty holds something but commas and blanks.         *)
LEMMA ListHoldsInk ==
  ASSUME NEW w \in Words, List(w) # {}
  PROVE  \E i \in DOMAIN w : w[i] \notin {Blank, Comma}
<1> DEFINE cut  == {0, Len(w) + 1} \cup {i \in DOMAIN w : w[i] = Comma}
           gaps == {p \in cut \X cut : p[1] < p[2] /\ \A k \in cut : ~(p[1] < k /\ k < p[2])}
           Gap(p) == SubSeq(w, p[1] + 1, p[2] - 1)
<1>1. PICK p \in gaps : TrimSpace(Gap(p)) # <<>>
  BY DEF List, Pieces
<1>2. Len(w) \in Nat /\ DOMAIN w = 1 .. Len(w)
  BY InkPlaces
<1>3. /\ p[1] \in 0 .. Len(w) + 1 /\ p[2] \in 0 .. Len(w) + 1 /\ p[1] < p[2]
      /\ \A k \in cut : ~(p[1] < k /\ k < p[2])
  BY <1>2
<1>4. p[1] + 1 <= p[2] - 1
  <2>1. SUFFICES ASSUME p[2] - 1 < p[1] + 1 PROVE FALSE
    BY <1>2, <1>3
  <2>2. SubSeq(w, p[1] + 1, p[2] - 1) = <<>>
    BY <1>2, <1>3, <2>1, SubSeqEmpty DEF Words
  <2>. QED BY <1>1, <2>2, Nothing
<1>5. p[1] + 1 \in 1 .. Len(w) /\ p[2] - 1 \in 1 .. Len(w)
  BY <1>2, <1>3, <1>4
<1>6. /\ Gap(p) \in Words /\ DOMAIN Gap(p) = 1 .. ((p[2] - 1) - (p[1] + 1) + 1)
      /\ \A i \in 1 .. ((p[2] - 1) - (p[1] + 1) + 1) : Gap(p)[i] = w[p[1] + 1 + i - 1]
  BY <1>4, <1>5, CutOf
<1>7. PICK j \in Ink(Gap(p)) : TRUE
  BY <1>1, <1>6, TrimKeeps
<1>8. j \in DOMAIN Gap(p) /\ Gap(p)[j] # Blank
  BY <1>7 DEF Ink
<1>9. /\ p[1] + 1 + j - 1 \in 1 .. Len(w)
      /\ p[1] < p[1] + 1 + j - 1 /\ p[1] + 1 + j - 1 < p[2]
      /\ w[p[1] + 1 + j - 1] # Blank
  <2>1. j \in 1 .. ((p[2] - 1) - (p[1] + 1) + 1)
    BY <1>6, <1>8
  <2>2. Gap(p)[j] = w[p[1] + 1 + j - 1]
    BY <1>6, <2>1
  <2> HIDE DEF gaps, cut
  <2>3. p[1] + 1 + j - 1 \in 1 .. Len(w) /\ p[1] < p[1] + 1 + j - 1 /\ p[1] + 1 + j - 1 < p[2]
    <3>1. p[1] \in Nat /\ p[2] \in Nat /\ p[2] <= Len(w) + 1
      BY <1>2, <1>3
    <3>2. j \in Nat /\ j >= 1 /\ j <= p[2] - p[1] - 1
      BY <2>1, <3>1
    <3>. QED BY <1>2, <3>1, <3>2, SMTT(30)
  <2>. QED BY <1>8, <2>2, <2>3
<1>10. w[p[1] + 1 + j - 1] # Comma
  BY <1>2, <1>3, <1>9
<1>. QED BY <1>2, <1>9, <1>10

(* An accepted configuration is one that DenyByDefault allows to be bound. *)
LEMMA AcceptedIsSafe ==
  ASSUME NEW e \in Environs, Errors(e) = {}
  PROVE  \/ TrimSpace(Effective(e, "BIND")) \in LoopbackHosts
         \/ /\ TrimSpace(Effective(e, "AUTH_MODE")) = <<"required">>
            /\ \E i \in DOMAIN Effective(e, "API_KEYS") :
                  Effective(e, "API_KEYS")[i] \notin {Blank, Comma}
         \/ TrimSpace(Effective(e, "I_UNDERSTAND_OPEN_BIND")) \in {<<"true">>, <<"1">>}
<1> DEFINE mode == TrimSpace(Effective(e, "AUTH_MODE"))
           ack  == Effective(e, "I_UNDERSTAND_OPEN_BIND")
<1>1. Insecure(e) = {} /\ \A k \in Known : Value(e, k).ok
  BY AcceptedAreGood
<1>2. SUFFICES ASSUME ~IsLoopback(Value(e, "BIND").value)
               PROVE  \/ /\ mode = <<"required">>
                         /\ \E i \in DOMAIN Effective(e, "API_KEYS") :
                               Effective(e, "API_KEYS")[i] \notin {Blank, Comma}
                      \/ TrimSpace(ack) \in {<<"true">>, <<"1">>}
  BY ParsedBy DEF IsLoopback
<1>3. /\ ~(Value(e, "AUTH_MODE").value = <<"required">> /\ Value(e, "API_KEYS").value = {})
      /\ ~(Value(e, "AUTH_MODE").value = <<"open">> /\ Value(e, "I_UNDERSTAND_OPEN_BIND").value = FALSE)
  BY <1>1, <1>2 DEF Insecure
<1>4. Value(e, "AUTH_MODE").ok /\ Value(e, "I_UNDERSTAND_OPEN_BIND").ok
  BY <1>1, KnownKeys
<1>5. mode \in {<<"required">>, <<"open">>} /\ Value(e, "AUTH_MODE").value = mode
  <2>1. Value(e, "AUTH_MODE") = Enum(Effective(e, "AUTH_MODE"), {<<"required">>, <<"open">>})
    BY ParsedBy
  <2>. QED BY <1>4, <2>1 DEF Enum, Good, Bad
<1>6. CASE mode = <<"required">>
  <2>1. List(Effective(e, "API_KEYS")) # {}
    BY <1>3, <1>5, <1>6, ParsedBy DEF Good
  <2>2. Effective(e, "API_KEYS") \in Words
    BY KnownKeys, EffectiveIsLast
  <2>. QED BY <1>6, <2>1, <2>2, ListHoldsInk
<1>7. CASE mode = <<"open">>
  <2>1. Value(e, "I_UNDERSTAND_OPEN_BIND") = Boolean(ack)
    BY ParsedBy
  <2>2. Boolean(ack).ok /\ Boolean(ack).value # FALSE
    BY <1>3, <1>4, <1>5, <1>7, <2>1
  <2>3. TrimSpace(ack) \in {<<"true">>, <<"1">>}
    BY <2>2 DEF Boolean, Good, Bad
  <2>. QED BY <2>3
<1>. QED BY <1>5, <1>6, <1>7

-----------------------------------------------------------------------------
(* One run of the binary (module Process).                                 *)

(* Nothing is bound, and no preset loaded, under a configuration that was  *)
(* refused; what was shown and what was refused is the environment's; and  *)
(* a server that came to an end left its verdict as the exit status.       *)
OwnInv ==
  /\ ProcessTypeOK /\ environ \in Environs
  /\ proc \in {"presets", "serve"} \/ main # "bind" => Errors(environ) = {}
  /\ errs \in {{}, Errors(environ)}
  /\ shown \in {{}, Quoted(environ, Errors(environ)), Redacted(environ)}
  /\ proc = "exited" /\ main = "returned"
       => code = IF ret = "error" THEN exitFailure ELSE exitOK

ProcessInv == ServerInv /\ LoadInv /\ FilesSettled /\ OwnInv

(* A step of the process is a step of its parts, or leaves them alone.     *)
LEMMA StepOfParts ==
  ASSUME [ProcessNext]_<<processVars, vars>>
  PROVE  [PresetNext]_presetVars /\ [Next]_vars
<1>1. CASE Command \/ Configure \/ Ready \/ Exit \/ Kill \/ UNCHANGED <<processVars, vars>>
  BY <1>1 DEF Command, Configure, Ready, Exit, Kill, processVars
<1>2. CASE LoadPresets
  BY <1>2 DEF LoadPresets, PresetNext
<1>3. CASE Serve
  BY <1>3 DEF Serve, Next, processVars
<1>4. CASE World
  BY <1>4 DEF World, Next, PresetNext, processVars
<1>. QED BY <1>1, <1>2, <1>3, <1>4 DEF ProcessNext

LEMMA OwnInit == ProcessInit => OwnInv
BY DEF ProcessInit, OwnInv, ProcessTypeOK, Init, PresetInit, Running, exitOK, exitFailure,
       exitUsage, Killed

LEMMA OwnStep == ProcessInv /\ [ProcessNext]_<<processVars, vars>> => OwnInv'
<1> SUFFICES ASSUME ProcessInv, [ProcessNext]_<<processVars, vars>> PROVE OwnInv'
  OBVIOUS
<1> USE DEF OwnInv, ProcessTypeOK, Running, exitOK, exitFailure, exitUsage, Killed
<1>0. OwnInv
  BY DEF ProcessInv
<1>1. CASE Command
  BY <1>0, <1>1 DEF Command, Leave, vars, presetVars
<1>2. CASE Configure
  BY <1>0, <1>2 DEF Configure, Leave, vars, presetVars
<1>3. CASE LoadPresets
  BY <1>0, <1>3 DEF LoadPresets, ownVars, vars
<1>4. CASE Ready
  BY <1>0, <1>4 DEF Ready, vars
<1>5. CASE Serve
  BY <1>0, <1>5 DEF Serve, processVars, ownVars
<1>6. CASE Exit
  BY <1>0, <1>6 DEF Exit, Leave, vars
<1>7. CASE Kill
  BY <1>0, <1>7 DEF Kill, Leave, vars
<1>8. CASE World
  <2>1. CASE proc \in {"presets", "serve"} /\ Signal /\ UNCHANGED processVars
    BY <1>0, <2>1 DEF Signal, processVars, ownVars, presetVars
  <2>2. CASE proc = "presets" /\ Change /\ UNCHANGED <<ownVars, vars>>
    BY <1>0, <2>2 DEF ownVars, vars
  <2>3. CASE proc = "serve" /\ UNCHANGED processVars
    BY <1>0, <2>3 DEF processVars, ownVars
  <2>. QED BY <1>8, <2>1, <2>2, <2>3 DEF World
<1>9. CASE UNCHANGED <<processVars, vars>>
  BY <1>0, <1>9 DEF processVars, ownVars, presetVars, vars
<1>. QED BY <1>1, <1>2, <1>3, <1>4, <1>5, <1>6, <1>7, <1>8, <1>9 DEF ProcessNext

(* The invariant of the whole process, from those of its parts.            *)
THEOREM ProcessInvariant == ProcessSpec => []ProcessInv
<1>1. ProcessInit => ProcessInv
  BY ServerInit, LoadInit, FilesInit, OwnInit DEF ProcessInit, ProcessInv
<1>2. ProcessInv /\ [ProcessNext]_<<processVars, vars>> => ProcessInv'
  <2> SUFFICES ASSUME ProcessInv, [ProcessNext]_<<processVars, vars>> PROVE ProcessInv'
    OBVIOUS
  <2>1. [PresetNext]_presetVars /\ [Next]_vars
    BY StepOfParts
  <2>2. OwnInv'
    BY OwnStep
  <2>. QED BY <2>1, <2>2, ServerStep, LoadStep, FilesStep DEF ProcessInv
<1>. QED BY <1>1, <1>2, PTL DEF ProcessSpec

(* The types of the process and of the two parts it runs, for every        *)
(* command line, environment, directory and set of connections.            *)
THEOREM ProcessTypes == ProcessSpec => []TypesOK
<1>1. ProcessInv => TypesOK
  BY DEF ProcessInv, ServerInv, LoadInv, OwnInv, TypesOK
<1>. QED BY <1>1, ProcessInvariant, PTL

(* The server of a process leaves in order, whatever came before it.       *)
THEOREM ProcessEndsInOrder == ProcessSpec => []OrderlyEnd
<1>1. ProcessInv => OrderlyEnd
  BY DEF ProcessInv, ServerInv, TypeOK, NilMeansShut, ConnsSettled, NilMeansDrained, OrderlyEnd
<1>. QED BY <1>1, ProcessInvariant, PTL

(* The presets a process boots with are sound.                             *)
THEOREM ProcessPresetsSound == ProcessSpec => []PresetsSound
<1>1. ProcessInv => PresetsSound
  BY FilesAccounted DEF ProcessInv, LoadInv, PresetsSound
<1>. QED BY <1>1, ProcessInvariant, PTL

(* No port that others can reach opens but behind keys or behind the       *)
(* operator's acknowledgement, whatever the environment says, in any order *)
(* and with any blanks (checkSecurity).                                    *)
THEOREM DeniesByDefault == ProcessSpec => []DenyByDefault
<1>1. ProcessInv => DenyByDefault
  <2> SUFFICES ASSUME ProcessInv, listener = "open" PROVE DenyByDefault
    BY DEF DenyByDefault
  <2>1. main # "bind"
    BY DEF ProcessInv, ServerInv, Causes
  <2>2. environ \in Environs /\ Errors(environ) = {}
    BY <2>1 DEF ProcessInv, OwnInv
  <2>. QED BY <2>2, AcceptedIsSafe DEF DenyByDefault, Says
<1>. QED BY <1>1, ProcessInvariant, PTL

(* The exit status tells what happened to the server.                      *)
THEOREM StatusTells == ProcessSpec => []ExitTells
<1>1. ProcessInv => ExitTells
  <2> SUFFICES ASSUME ProcessInv, proc = "exited", main = "returned" PROVE ExitTells
    BY DEF ExitTells
  <2>1. ret \in {"nil", "error"}
    BY DEF ProcessInv, ServerInv, TypeOK, Results
  <2>2. code = IF ret = "error" THEN exitFailure ELSE exitOK
    BY DEF ProcessInv, OwnInv
  <2>3. CASE ret = "nil"
    <3>1. shut /\ ctxDone /\ \A c \in Conns : conn[c] \in {"none", "closed", "cut"}
      BY <2>3 DEF ProcessInv, ServerInv, NilMeansShut, Causes, ConnsSettled
    <3>. QED BY <2>2, <2>3, <3>1 DEF ExitTells, exitOK, exitFailure
  <2>4. CASE ret = "error"
    <3>1. outcome = "error" \/ listener = "none"
      BY <2>4 DEF ProcessInv, ServerInv, Causes
    <3>. QED BY <2>2, <2>4, <3>1 DEF ExitTells, exitOK, exitFailure
  <2>. QED BY <2>1, <2>3, <2>4
<1>. QED BY <1>1, ProcessInvariant, PTL

(* A refusal names all that is wrong and nothing else; an accepted size is *)
(* the one that was written; and no secret is shown (Load, Redacted).      *)
THEOREM TellsTheTruth == ProcessSpec => []SettingsTold
<1>1. ProcessInv => WholeListReported
  <2> SUFFICES ASSUME ProcessInv, NEW k \in Known, k \in errs PROVE WholeListReported
    BY DEF WholeListReported
  <2>1. environ \in Environs /\ errs = Errors(environ)
    BY DEF ProcessInv, OwnInv
  <2>2. k \notin Insecure(environ)
    BY KnownKeys DEF Insecure
  <2>3. errs = BadKeys(environ)
    BY <2>1, <2>2 DEF Errors
  <2>. QED BY <2>1, <2>3, RefusedAre DEF WholeListReported
<1>2. ProcessInv => ExactSizes
  <2> SUFFICES ASSUME ProcessInv, proc = "serve", NEW k \in Kinds.bytes
               PROVE  \E i, j \in Ink(Says(k)) :
                        /\ i <= j /\ Ink(Says(k)) = {i, j}
                        /\ Value(environ, k).value
                             = NumberOf[Says(k)[i]] * (IF i = j THEN 1 ELSE Units[Says(k)[j]])
    BY DEF ExactSizes, Ink
  <2>1. environ \in Environs /\ Errors(environ) = {}
    BY DEF ProcessInv, OwnInv
  <2>2. k \in Known /\ Value(environ, k) = Bytes(Says(k), 1)
    BY ParsedBy DEF Says
  <2>3. Says(k) \in Words
    BY <2>1, <2>2, EffectiveIsLast DEF Says
  <2>4. Bytes(Says(k), 1).ok
    BY <2>1, <2>2, AcceptedAreGood
  <2>. QED BY <2>2, <2>3, <2>4, SizeIsExact
<1>3. ProcessInv => SecretsKept
  <2> SUFFICES ASSUME ProcessInv, NEW p \in shown, p[1] \in Secret PROVE p[2] = <<"redacted">>
    BY DEF SecretsKept
  <2>1. environ \in Environs /\ p[1] = "API_KEYS"
    BY DEF ProcessInv, OwnInv, Secret
  <2>2. CASE p \in Redacted(environ)
    BY <2>1, <2>2 DEF Redacted, Hidden, Secret
  <2>3. p \notin Quoted(environ, Errors(environ))
    <3>1. Value(environ, "API_KEYS").ok
      BY ParsedBy DEF Good
    <3>2. "API_KEYS" \notin BadKeys(environ)
      BY <3>1 DEF BadKeys
    <3>3. "API_KEYS" \notin Insecure(environ)
      BY DEF Insecure
    <3>. QED BY <2>1, <3>2, <3>3 DEF Quoted, Errors
  <2>. QED BY <2>2, <2>3 DEF ProcessInv, OwnInv
<1>4. WholeListReported /\ ExactSizes /\ SecretsKept => SettingsTold
  BY DEF SettingsTold
<1>. QED BY <1>1, <1>2, <1>3, <1>4, ProcessInvariant, PTL
=============================================================================
