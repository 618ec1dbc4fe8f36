----------------------------- MODULE Packaging -----------------------------
(***************************************************************************)
(* What becomes of the results of a batch: handleBatch packs them in an    *)
(* archive (FileNames), handleSheet prints them on paper (Sheet).  One     *)
(* request takes one of the two ways.                                      *)
(***************************************************************************)
EXTENDS FileNames, Sheet

VARIABLE way \* the endpoint: "zip" or "sheet"

packagingVars == <<way, namesVars, vars>>

\* The handler of the other endpoint holds one arbitrary state of its own.
ZipInit   == /\ way = "zip"
             /\ NamesInit
             /\ layout = CHOOSE l \in Layouts : TRUE
             /\ items = <<>> /\ skip = CHOOSE s \in Skips : TRUE
             /\ pc = "answered" /\ answer = "not asked"
             /\ cells = <<>> /\ images = <<>> /\ refs = <<>> /\ objs = <<>>
             /\ total = 0 /\ page = 0

SheetInit == /\ way = "sheet"
             /\ Init
             /\ slots = <<>> /\ next = 1 /\ taken = {manifestName}
             /\ filename = [i \in 1 .. N |-> <<>>] /\ entries = <<>>

PackagingInit == ZipInit \/ SheetInit

PackagingNext == \/ way = "zip" /\ NamesNext /\ UNCHANGED <<way, vars>>
                 \/ way = "sheet" /\ Next /\ UNCHANGED <<way, namesVars>>

PackagingSpec == PackagingInit /\ [][PackagingNext]_packagingVars
=============================================================================
