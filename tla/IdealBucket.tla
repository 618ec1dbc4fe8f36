---------------------------- MODULE IdealBucket ----------------------------
(***************************************************************************)
(* What a rate limiter promises: every key has an allowance that starts    *)
(* full, is credited on every tick whether or not anyone asks, and is      *)
(* never forgotten.  There is no lazy refill, no map that grows, and no    *)
(* sweeper.  Limiter is shown to be indistinguishable from it.             *)
(***************************************************************************)
EXTENDS Naturals

CONSTANTS Keys, Count, Per

VARIABLES level,  \* units each key holds
          answer  \* the last question asked and the answer given

vars == <<level, answer>>

Full == Count * Per
Free == Count = 0

Init == /\ level = [k \in Keys |-> Full]
        /\ answer = [op |-> "none"]

Allow(k) ==
  LET ok == Free \/ level[k] >= Per
  IN  /\ answer' = [op |-> "allow", key |-> k, ok |-> ok]
      /\ level' = [level EXCEPT ![k] = IF ok /\ ~ Free THEN @ - Per ELSE @]

Blocked(k) ==
  /\ answer' = [op |-> "blocked", key |-> k, ok |-> ~ Free /\ level[k] < Per]
  /\ UNCHANGED level

Tick ==
  /\ level' = [k \in Keys |-> IF level[k] + Count <= Full THEN level[k] + Count ELSE Full]
  /\ UNCHANGED answer

Next == Tick \/ \E k \in Keys : Allow(k) \/ Blocked(k)

Spec == Init /\ [][Next]_vars
=============================================================================
