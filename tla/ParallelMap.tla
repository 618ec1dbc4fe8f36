---------------------------- MODULE ParallelMap ----------------------------
(***************************************************************************)
(* What batch.Run promises its caller, without tickets, goroutines or wait *)
(* groups: each item gets at most one verdict, at most Width items are in  *)
(* flight, and the one answer comes when nothing is in flight any more.    *)
(* It is the full set of verdicts, or, if the caller went away, a refusal: *)
(* never a set with verdicts that only say the caller went away.           *)
(***************************************************************************)
EXTENDS Naturals, FiniteSets

CONSTANTS Items, Width

VARIABLES gone,    \* the caller's context is done
          busy,    \* items whose render is running
          verdict, \* of each item
          answer   \* what the caller was given

vars == <<gone, busy, verdict, answer>>

Own == {"ok", "failed"}          \* verdicts about the item itself
Cut == {"skipped", "interrupted"} \* verdicts about the caller's deadline

Init == /\ gone = FALSE
        /\ busy = {}
        /\ verdict = [i \in Items |-> "none"]
        /\ answer = "none"

Leave == /\ gone' = TRUE
         /\ UNCHANGED <<busy, verdict, answer>>

Begin(i) == /\ answer = "none" /\ ~ gone
            /\ verdict[i] = "none" /\ i \notin busy
            /\ Cardinality(busy) < Width
            /\ busy' = busy \cup {i}
            /\ UNCHANGED <<gone, verdict, answer>>

End(i) == /\ i \in busy
          /\ busy' = busy \ {i}
          /\ \E v \in Own \cup {"interrupted"} :
               /\ v = "interrupted" => gone
               /\ verdict' = [verdict EXCEPT ![i] = v]
          /\ UNCHANGED <<gone, answer>>

Skip(i) == /\ answer = "none" /\ gone
           /\ verdict[i] = "none" /\ i \notin busy
           /\ verdict' = [verdict EXCEPT ![i] = "skipped"]
           /\ UNCHANGED <<gone, busy, answer>>

Answer == /\ answer = "none" /\ busy = {}
          /\ \/ gone /\ answer' = "cancelled"
             \/ (\A i \in Items : verdict[i] \in Own) /\ answer' = "results"
          /\ UNCHANGED <<gone, busy, verdict>>

Next == Leave \/ Answer \/ \E i \in Items : Begin(i) \/ End(i) \/ Skip(i)

Spec == Init /\ [][Next]_vars
=============================================================================
