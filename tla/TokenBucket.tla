---------------------------- MODULE TokenBucket ----------------------------
(***************************************************************************)
(* The arithmetic of one token bucket of internal/httpapi/middleware.go,   *)
(* as operators on a map of buckets, so that both limiters of the server   *)
(* (the per-key rate limit and the failed-attempt limit) can use it.       *)
(*                                                                         *)
(* Time is counted in ticks of any fixed length.  A bucket gains           *)
(* Count tokens every Per ticks; to stay in the integers a token is Per    *)
(* units and a tick adds Count units.  The code keeps `last`, and reads    *)
(* only now - last: that is `age` here, which stops counting at Stale      *)
(* because beyond it nothing the code computes changes.                    *)
(***************************************************************************)
EXTENDS Naturals

CONSTANTS Count, \* config.Rate.Count: events allowed per window; 0 is unlimited
          Per    \* config.Rate.Per: length of the window, in ticks

ASSUME RateAssumption == /\ Count \in Nat
                         /\ Per \in Nat \ {0}

Lesser(a, b) == IF a <= b THEN a ELSE b

Unlimited == Count <= 0
Token     == Per
Capacity  == Count * Token
Stale     == 2 * Per + 1

Bucket == [tokens : 0 .. Capacity, age : 0 .. Stale]

(* What a bucket holds once the time since it was last touched is credited. *)
Refilled(b) == Lesser(Capacity, b.tokens + b.age * Count)

(* What a caller finds: an address or key with no bucket has a full one.    *)
Level(bs, k) == IF k \in DOMAIN bs THEN Refilled(bs[k]) ELSE Capacity

Touched(bs, k, n) ==
  [x \in DOMAIN bs \cup {k} |-> IF x = k THEN [tokens |-> n, age |-> 0] ELSE bs[x]]

(* allow: does the caller get a token, and what becomes of the buckets; a   *)
(* first request always gets one, and leaves a bucket one token short.      *)
Allowed(bs, k) == Unlimited \/ k \notin DOMAIN bs \/ Refilled(bs[k]) >= Token

AfterAllow(bs, k) ==
  IF Unlimited THEN bs
  ELSE Touched(bs, k, IF Allowed(bs, k) THEN Level(bs, k) - Token ELSE Level(bs, k))

(* blocked: is the bucket empty; it is refilled, and nothing is taken.      *)
Empty(bs, k) == ~ Unlimited /\ k \in DOMAIN bs /\ Refilled(bs[k]) < Token

(* Mutant: the peek moves `last` without crediting the time it skips.      *)
BugAfterPeek(bs, k) ==
  IF Unlimited \/ k \notin DOMAIN bs THEN bs ELSE Touched(bs, k, bs[k].tokens)

AfterPeek(bs, k) ==
  IF Unlimited \/ k \notin DOMAIN bs THEN bs ELSE Touched(bs, k, Refilled(bs[k]))

(* Mutants: the cutoff compared the wrong way round, and no cutoff at all. *)
BugSweptFresh(bs) == [x \in {y \in DOMAIN bs : bs[y].age > 2 * Per} |-> bs[x]]
BugSweptEager(bs) == [x \in {y \in DOMAIN bs : bs[y].age = 0} |-> bs[x]]

(* sweep: forget the buckets last touched more than two windows ago.        *)
Swept(bs) == [x \in {y \in DOMAIN bs : bs[y].age <= 2 * Per} |-> bs[x]]

(* One tick of the clock.                                                   *)
Aged(bs) == [x \in DOMAIN bs |-> [bs[x] EXCEPT !.age = Lesser(Stale, @ + 1)]]
=============================================================================
