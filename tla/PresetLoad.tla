----------------------------- MODULE PresetLoad -----------------------------
(***************************************************************************)
(* Load of internal/preset/load.go: at boot the built-in presets are       *)
(* overlaid with the JSON files of a mounted directory, file by file, in   *)
(* the order ReadDir lists them.  A file is looked at twice, in the        *)
(* listing and when it is opened, and whoever owns the directory may       *)
(* change it in between.                                                   *)
(*                                                                         *)
(* What is in a file is abstracted to the test of readPreset it fails.     *)
(***************************************************************************)
EXTENDS Naturals, Sequences, FiniteSets

CONSTANTS Stems,       \* file name stems
          Files,       \* what may lie in the directory
          BadStems,    \* the stems that are no slug
          Builtins,    \* names compiled into the binary
          MaxPresets,  \* the cap on the set
          MaxFiles,    \* bound: files in the directory
          MaxChanges   \* bound: times the directory is changed under Load

ASSUME PresetAssumption == /\ Builtins \subseteq Stems \ BadStems
                           /\ IsFiniteSet(Builtins)
                           /\ MaxPresets \in Nat
                           /\ Cardinality(Builtins) <= MaxPresets
ASSUME MaxFilesAssumption == MaxFiles \in Nat

\* strings.EqualFold takes both spellings of .json; "special" is a symlink, a
\* directory or a device.
ASSUME FilesAssumption ==
    Files \subseteq [stem: Stems, ext: {"json", "JSON", "other"}, type: {"regular", "special"}]

\* How a file stands when it is looked at: a document readPreset accepts, one
\* it refuses, one past MaxFileBytes, no file any more, or, put in the file's
\* place since the listing, a link to a document inside the directory, which the
\* root follows.  (One that leads out of it, or a directory, is "malformed".)
Conditions == {"good", "malformed", "large", "gone", "linked"}

Builtin == 0 \* the source of a preset no file has overridden

VARIABLES dir,      \* the configured path: "none", "broken" or "ok"
          listing,  \* what ReadDir returned
          cond,     \* how each listed file stands now
          pc,       \* "boot", "entry", "read", "loaded" or "failed"
          next,     \* index in the listing
          source,   \* the set: which file each preset comes from
          ignored,   \* indices of the files a warning was given for
          full,     \* the loop was left because the set was full
          taken,    \* how each file stood when its contents were accepted
          changes   \* changes made to the directory

presetVars == <<dir, listing, cond, pc, next, source, ignored, full, taken, changes>>

Names == DOMAIN source

\* The names are abstract, so the listing's order is any order.
PresetInit ==
    /\ dir \in {"none", "broken", "ok"}
    /\ \E n \in IF dir = "ok" THEN 0 .. MaxFiles ELSE {0} :
          /\ listing \in [1 .. n -> Files]
          /\ \A i, j \in 1 .. n : i # j => 
                <<listing[i].stem, listing[i].ext>> # <<listing[j].stem, listing[j].ext>>
          /\ cond \in [1 .. n -> Conditions \ {"gone", "linked"}]
    /\ pc = "boot"
    /\ next = 1
    /\ source = [b \in Builtins |-> Builtin]
    /\ ignored = {}
    /\ full = FALSE
    /\ taken = [i \in DOMAIN listing |-> "no"]
    /\ changes = 0

\* The owner of the directory rewrites, grows, removes or replaces a file at any
\* time.  (Not by a named pipe: its open would wait for whoever writes to it.)
Change ==
    /\ changes < MaxChanges
    /\ pc \in {"entry", "read"}
    /\ \E i \in DOMAIN cond, c \in Conditions :
          /\ cond[i] # c
          /\ cond' = [cond EXCEPT ![i] = c]
    /\ changes' = changes + 1
    /\ UNCHANGED <<dir, listing, pc, next, source, ignored, full, taken>>

\* No path is the default; one that cannot be used is the operator's to see.
OpenDir ==
    /\ pc = "boot"
    /\ pc' = CASE dir = "none" -> "loaded" [] dir = "broken" -> "failed" [] dir = "ok" -> "entry"
    /\ UNCHANGED <<dir, listing, cond, next, source, ignored, full, taken, changes>>

FinishListing ==
    /\ pc = "entry"
    /\ next > Len(listing)
    /\ pc' = "loaded"
    /\ UNCHANGED <<dir, listing, cond, next, source, ignored, full, taken, changes>>

\* The guards on the directory entry: file type, slug, size as Info tells it.
\* Info fails on a file that is gone, and that is left for the open to report.
Refused(i) == \/ listing[i].type # "regular"
              \/ listing[i].stem \in BadStems
              \/ cond[i] = "large"

\* Files that are not .json are passed over in silence.
SkipEntry ==
    /\ pc = "entry" /\ next <= Len(listing)
    /\ listing[next].ext = "other"
    /\ next' = next + 1
    /\ UNCHANGED <<dir, listing, cond, pc, source, ignored, full, taken, changes>>

RefuseEntry ==
    /\ pc = "entry" /\ next <= Len(listing)
    /\ listing[next].ext # "other"
    /\ Refused(next)
    /\ ignored' = ignored \cup {next}
    /\ next' = next + 1
    /\ UNCHANGED <<dir, listing, cond, pc, source, full, taken, changes>>

AcceptEntry ==
    /\ pc = "entry" /\ next <= Len(listing)
    /\ listing[next].ext # "other"
    /\ ~Refused(next)
    /\ pc' = "read"
    /\ UNCHANGED <<dir, listing, cond, next, source, ignored, full, taken, changes>>

\* Mutant: the size is only checked in the listing.
BugReadable(i) == cond[i] \in {"good", "linked", "large"}

\* readPreset: opened inside the root, read to one byte past the limit, decoded
\* strictly, named after its stem, validated.
Readable(i) == cond[i] \in {"good", "linked"}

ReadBad ==
    /\ pc = "read"
    /\ ~Readable(next)
    /\ ignored' = ignored \cup {next}
    /\ next' = next + 1
    /\ pc' = "entry"
    /\ UNCHANGED <<dir, listing, cond, source, full, taken, changes>>

\* Set.add refuses a new name when the set is at its limit.
HasRoom(name) == name \in Names \/ Cardinality(Names) < MaxPresets

ReadGood ==
    /\ pc = "read"
    /\ Readable(next)
    /\ HasRoom(listing[next].stem)
    /\ source' = [n \in Names \cup {listing[next].stem} |->
                     IF n = listing[next].stem THEN next ELSE source[n]]
    /\ taken' = [taken EXCEPT ![next] = cond[next]]
    /\ next' = next + 1
    /\ pc' = "entry"
    /\ UNCHANGED <<dir, listing, cond, ignored, full, changes>>

\* The first preset without room ends the loop.
ReadFull ==
    /\ pc = "read"
    /\ Readable(next)
    /\ ~HasRoom(listing[next].stem)
    /\ ignored' = ignored \cup {next}
    /\ full' = TRUE
    /\ pc' = "loaded"
    /\ UNCHANGED <<dir, listing, cond, next, source, taken, changes>>

Load == OpenDir \/ FinishListing \/ SkipEntry \/ RefuseEntry \/ AcceptEntry
            \/ ReadBad \/ ReadGood \/ ReadFull

PresetNext == Load \/ Change

\* The loop runs on; the directory's owner does what he likes.
PresetSpec == PresetInit /\ [][PresetNext]_presetVars /\ WF_presetVars(Load)

-----------------------------------------------------------------------------
\* The types; only a file of the listing is ever read, ignored about or served.
PresetTypeOK ==
    /\ dir \in {"none", "broken", "ok"}
    /\ pc \in {"boot", "entry", "read", "loaded", "failed"}
    /\ next \in 1 .. (Len(listing) + 1)
    /\ pc = "read" => next <= Len(listing)
    /\ Names \subseteq Stems
    /\ \A n \in Names : source[n] \in 0 .. Len(listing)
    /\ ignored \subseteq 1 .. Len(listing)

\* The set never outgrows its cap and never loses a built-in name, whatever
\* the directory holds and however it changes.
CappedAndWhole == Cardinality(Names) <= MaxPresets /\ Builtins \subseteq Names

\* Only contents that passed every guard are served: of a .json file named by a
\* slug that was a regular file in the listing, and that was, when it was read,
\* a document readPreset accepts, not one that grew since.
OnlyVetted ==
    \A n \in Names : source[n] # Builtin =>
        LET i == source[n] IN /\ listing[i].stem = n
                              /\ n \notin BadStems
                              /\ listing[i].ext # "other"
                              /\ listing[i].type = "regular"
                              /\ taken[i] \in {"good", "linked"}

\* Each .json file the loop passed either gave its preset or was warned about,
\* never both and never neither: a bad file does not hide the others.  The loop
\* ends before the listing does only at a file that finds the set full; that one
\* is warned about, and the files after it are neither read nor warned about.
Accounted ==
    /\ \A i \in DOMAIN listing :
          /\ i < next /\ listing[i].ext # "other" => ((taken[i] # "no") # (i \in ignored))
          /\ i > next => taken[i] = "no" /\ i \notin ignored
    /\ pc = "loaded" => full \/ next > Len(listing)
    /\ full => next \in ignored /\ taken[next] = "no"

\* A set of presets that fits is loaded to its end: the limit is only ever hit
\* by a name that is really new.
FullIsFull == full => /\ Cardinality(Names) = MaxPresets
                      /\ listing[next].stem \notin Names

\* A listing is gone through to its end, however the directory is changed
\* under it: no file can keep the server from booting.
Boots == (pc = "entry") ~> (pc \in {"loaded", "failed"})

\* What is loaded is sound whatever the directory does: within the cap, the
\* built-in names kept, only vetted contents, each file accounted for until the
\* set is full, and the limit reported only where a new name would pass it (Load).
PresetsSound == CappedAndWhole /\ OnlyVetted /\ Accounted /\ FullIsFull
=============================================================================
