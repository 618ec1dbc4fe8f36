------------------------------ MODULE Limiter ------------------------------
(***************************************************************************)
(* `limiter` of internal/httpapi/middleware.go: token buckets behind one   *)
(* mutex, refilled lazily when they are asked, and swept by a goroutine of *)
(* Server.Serve.  Each method holds the mutex from its first read of the   *)
(* map to its last write and reads the clock inside, so each is one step.  *)
(***************************************************************************)
EXTENDS TokenBucket

CONSTANT Keys \* the API key ids or client addresses that have buckets

VARIABLES buckets, \* the map, from the keys that have a bucket
          answer   \* the last call that returned a result, and the result

vars == <<buckets, answer>>

Init == /\ buckets = [k \in {} |-> {}]
        /\ answer = [op |-> "none"]

Allow(k) ==
  /\ answer' = [op |-> "allow", key |-> k, ok |-> Allowed(buckets, k)]
  /\ buckets' = AfterAllow(buckets, k)

Blocked(k) ==
  /\ answer' = [op |-> "blocked", key |-> k, ok |-> Empty(buckets, k)]
  /\ buckets' = AfterPeek(buckets, k)

Sweep ==
  /\ buckets' = Swept(buckets)
  /\ UNCHANGED answer

Tick ==
  /\ buckets' = Aged(buckets)
  /\ UNCHANGED answer

Next == \/ Sweep
        \/ Tick
        \/ \E k \in Keys : Allow(k) \/ Blocked(k)

(* The ticker fires every minute for as long as the server runs, and time  *)
(* passes; nothing makes a client call.                                    *)
Fairness == WF_vars(Sweep) /\ WF_vars(Tick)

Spec == Init /\ [][Next]_vars /\ Fairness
-----------------------------------------------------------------------------
(* Type invariant: only known keys have buckets, no bucket overflows.      *)
TypeOK ==
  /\ DOMAIN buckets \subseteq Keys
  /\ \A k \in DOMAIN buckets : buckets[k] \in Bucket
  /\ answer \in [op : {"none"}] \cup [op : {"allow", "blocked"}, key : Keys, ok : BOOLEAN]

(* The limiter answers every call as the ideal one does: refilling only    *)
(* when asked, peeking (which moves `last`), starting a bucket one token   *)
(* short and deleting buckets the sweeper finds idle never change what a   *)
(* caller is told.                                                         *)
Ideal == INSTANCE IdealBucket WITH level <- [k \in Keys |-> Level(buckets, k)]
ImplementsIdeal == Ideal!Init /\ [][Ideal!Next]_Ideal!vars

(* The map does not keep the buckets of callers who went away: one that    *)
(* stays for ever belongs to a caller who keeps calling (the reason given  *)
(* for `sweep`).                                                           *)
KeptOnlyIfCalled ==
  \A k \in Keys : <>[](k \in DOMAIN buckets) => []<><<Allow(k) \/ Blocked(k)>>_vars
=============================================================================
