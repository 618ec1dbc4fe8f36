--------------------------- MODULE LimitsProofs ---------------------------
(***************************************************************************)
(* The limits of the server, for every setting of them.  First Limiter and *)
(* LimiterWindow, for every rate, every set of keys and every length of    *)
(* run: the lemmas say what each TokenBucket operator does to the level of *)
(* a key, which is all a caller can see; the theorems follow from them     *)
(* action by action.  Then RenderBudget, for any number of requests and of *)
(* slots and for batches of any length.                                    *)
(***************************************************************************)
EXTENDS LimiterWindow, RenderBudget, FiniteSetTheorems, TLAPS

(* A map of well-formed buckets of known keys: TypeOK without the answer.  *)
WellFormed(bs) == /\ DOMAIN bs \subseteq Keys
                  /\ \A k \in DOMAIN bs : bs[k] \in Bucket

(* The two products the arithmetic below is about.                         *)
LEMMA Products ==
  /\ Capacity \in Nat /\ Token \in Nat /\ Token > 0 /\ Stale \in Nat
  /\ Unlimited <=> Count = 0
  /\ ~ Unlimited => Capacity >= Token
  /\ Count = 0 => Capacity = 0
  /\ \A n \in Nat : /\ n * Count \in Nat
                    /\ (n + 1) * Count = n * Count + Count
                    /\ (n + 1) * Token = n * Token + Token
                    /\ n * Token \in Nat
                    /\ n > 2 * Per => n * Count >= Capacity
<1>1. Count \in Nat /\ Per \in Nat /\ Per > 0
  BY RateAssumption
<1>2. Capacity \in Nat /\ Token \in Nat /\ Token > 0 /\ Stale \in Nat
  BY <1>1 DEF Capacity, Token, Stale
<1>3. /\ Unlimited <=> Count = 0
      /\ Count = 0 => Capacity = 0
  BY <1>1 DEF Unlimited, Capacity, Token
<1>4. ~ Unlimited => Capacity >= Token
  <2>1. SUFFICES ASSUME Count >= 1 PROVE Count * Per >= Per
    BY <1>1 DEF Unlimited, Capacity, Token
  <2> DEFINE m == Count - 1
  <2>2. m \in Nat /\ Count = m + 1
    BY <1>1, <2>1
  <2> HIDE DEF m
  <2>3. Count * Per = m * Per + Per /\ m * Per \in Nat
    BY <1>1, <2>2
  <2>. QED BY <1>1, <2>3
<1>5. ASSUME NEW n \in Nat
      PROVE  /\ n * Count \in Nat
             /\ (n + 1) * Count = n * Count + Count
             /\ (n + 1) * Token = n * Token + Token
             /\ n * Token \in Nat
  BY <1>1 DEF Token
<1>6. ASSUME NEW n \in Nat, n > 2 * Per
      PROVE  n * Count >= Capacity
  <2> DEFINE m == n - Per
  <2>1. m \in Nat /\ n = Per + m
    BY <1>1, <1>6
  <2> HIDE DEF m
  <2>2. n * Count = Count * Per + m * Count /\ m * Count \in Nat
    BY <1>1, <2>1
  <2>. QED BY <1>1, <2>2 DEF Capacity, Token
<1>. QED BY <1>2, <1>3, <1>4, <1>5, <1>6

LEMMA RefilledRange ==
  ASSUME NEW b \in Bucket
  PROVE  /\ Refilled(b) \in 0 .. Capacity
         /\ b.tokens \in 0 .. Capacity /\ b.age \in Nat /\ b.age * Count \in Nat
<1>1. b.tokens \in 0 .. Capacity /\ b.age \in Nat /\ Capacity \in Nat
  BY Products DEF Bucket
<1>2. b.age * Count \in Nat
  BY <1>1, Products
<1>. QED BY <1>1, <1>2 DEF Refilled, Lesser

LEMMA LevelRange ==
  ASSUME NEW bs, WellFormed(bs), NEW k
  PROVE  Level(bs, k) \in 0 .. Capacity
BY RefilledRange, Products DEF Level, WellFormed

(* Touching a bucket sets the level of its key and of no other.            *)
LEMMA TouchedLevel ==
  ASSUME NEW bs, WellFormed(bs), NEW k \in Keys, NEW n \in 0 .. Capacity
  PROVE  /\ WellFormed(Touched(bs, k, n))
         /\ \A x : Level(Touched(bs, k, n), x) = IF x = k THEN n ELSE Level(bs, x)
<1> DEFINE t == Touched(bs, k, n)
           new == [tokens |-> n, age |-> 0]
<1>1. /\ DOMAIN t = DOMAIN bs \cup {k}
      /\ t[k] = new
      /\ \A x \in DOMAIN bs : x # k => t[x] = bs[x]
  BY DEF Touched
<1>2. new \in Bucket /\ Refilled(new) = n
  <2>1. 0 \in 0 .. Stale /\ n \in Nat /\ Capacity \in Nat /\ n <= Capacity /\ Count \in Nat
    BY Products, RateAssumption
  <2>2. Refilled(new) = Lesser(Capacity, n + 0 * Count)
    BY DEF Refilled
  <2>. QED BY <2>1, <2>2 DEF Bucket, Lesser
<1>3. WellFormed(t)
  BY <1>1, <1>2 DEF WellFormed
<1>4. ASSUME NEW x PROVE Level(t, x) = IF x = k THEN n ELSE Level(bs, x)
  <2> HIDE DEF t, new
  <2>1. CASE x = k
    BY <1>1, <1>2, <2>1 DEF Level
  <2>2. CASE x # k
    BY <1>1, <2>2 DEF Level
  <2>. QED BY <2>1, <2>2
<1>. QED BY <1>3, <1>4

(* A granted allow costs the caller one token, a refused one and the calls *)
(* of other keys cost nothing.                                             *)
LEMMA AllowLevel ==
  ASSUME NEW bs, WellFormed(bs), NEW k \in Keys
  PROVE  /\ WellFormed(AfterAllow(bs, k))
         /\ Allowed(bs, k) <=> Unlimited \/ Level(bs, k) >= Token
         /\ \A x : Level(AfterAllow(bs, k), x) =
                  IF x = k /\ Allowed(bs, k) /\ ~ Unlimited
                    THEN Level(bs, k) - Token ELSE Level(bs, x)
<1>1. Allowed(bs, k) <=> Unlimited \/ Level(bs, k) >= Token
  BY Products DEF Allowed, Level
<1>2. CASE Unlimited
  <2>1. AfterAllow(bs, k) = bs
    BY <1>2 DEF AfterAllow
  <2>. QED BY <1>1, <1>2, <2>1
<1>3. CASE ~ Unlimited
  <2> DEFINE n == Level(bs, k)
             left == IF Allowed(bs, k) THEN n - Token ELSE n
  <2>1. AfterAllow(bs, k) = Touched(bs, k, left)
    BY <1>3 DEF AfterAllow
  <2>2. n \in 0 .. Capacity
    BY LevelRange
  <2>3. left \in 0 .. Capacity
    BY <1>1, <1>3, <2>2, Products
  <2> HIDE DEF n, left
  <2>4. /\ WellFormed(AfterAllow(bs, k))
        /\ \A x : Level(AfterAllow(bs, k), x) = IF x = k THEN left ELSE Level(bs, x)
    BY <2>1, <2>3, TouchedLevel
  <2>. QED BY <1>1, <1>3, <2>4 DEF n, left
<1>. QED BY <1>2, <1>3

(* Peeking changes no level, although it rewrites the bucket.              *)
LEMMA PeekLevel ==
  ASSUME NEW bs, WellFormed(bs), NEW k \in Keys
  PROVE  /\ WellFormed(AfterPeek(bs, k))
         /\ Empty(bs, k) <=> ~ Unlimited /\ Level(bs, k) < Token
         /\ \A x : Level(AfterPeek(bs, k), x) = Level(bs, x)
<1>1. CASE Unlimited \/ k \notin DOMAIN bs
  <2>1. AfterPeek(bs, k) = bs /\ ~ Empty(bs, k)
    BY <1>1 DEF AfterPeek, Empty
  <2>2. ~ Unlimited => ~ (Level(bs, k) < Token)
    BY <1>1, Products DEF Level
  <2>. QED BY <2>1, <2>2
<1>2. CASE ~ Unlimited /\ k \in DOMAIN bs
  <2> DEFINE n == Refilled(bs[k])
  <2>1. AfterPeek(bs, k) = Touched(bs, k, n)
    BY <1>2 DEF AfterPeek
  <2>2. n \in 0 .. Capacity /\ Level(bs, k) = n /\ (Empty(bs, k) <=> n < Token)
    BY <1>2, RefilledRange DEF Level, Empty, WellFormed
  <2> HIDE DEF n
  <2>. QED BY <1>2, <2>1, <2>2, TouchedLevel
<1>. QED BY <1>1, <1>2

(* A bucket idle for more than two windows is full, so deleting it changes *)
(* no level: why `sweep` may forget it.                                    *)
LEMMA SweptLevel ==
  ASSUME NEW bs, WellFormed(bs)
  PROVE  /\ WellFormed(Swept(bs))
         /\ \A x : Level(Swept(bs), x) = Level(bs, x)
<1>1. WellFormed(Swept(bs))
  BY DEF WellFormed, Swept
<1>2. ASSUME NEW x \in DOMAIN bs, ~ (bs[x].age <= 2 * Per)
      PROVE  Refilled(bs[x]) = Capacity
  <2> DEFINE n == bs[x].age
             m == bs[x].tokens
  <2>1. n \in Nat /\ m \in 0 .. Capacity /\ Capacity \in Nat
    BY RefilledRange, Products DEF WellFormed
  <2>2. n > 2 * Per
    BY <1>2, <2>1, RateAssumption
  <2>3. Refilled(bs[x]) = Lesser(Capacity, m + n * Count)
    BY DEF Refilled
  <2> HIDE DEF n, m
  <2>4. n * Count >= Capacity /\ n * Count \in Nat
    BY <2>1, <2>2, Products
  <2>. QED BY <2>1, <2>3, <2>4 DEF Lesser
<1>. QED BY <1>1, <1>2 DEF Level, Swept

(* A tick credits every level with Count, up to the capacity; that `age`   *)
(* stops counting at Stale loses nothing.                                  *)
LEMMA AgedLevel ==
  ASSUME NEW bs, WellFormed(bs)
  PROVE  /\ WellFormed(Aged(bs))
         /\ \A x : Level(Aged(bs), x) = Lesser(Capacity, Level(bs, x) + Count)
<1>0. Count \in Nat /\ Per \in Nat /\ Capacity \in Nat /\ Stale \in Nat
  BY Products, RateAssumption
<1>1. ASSUME NEW x \in DOMAIN bs
      PROVE  /\ Aged(bs)[x] \in Bucket
             /\ Refilled(Aged(bs)[x]) = Lesser(Capacity, Refilled(bs[x]) + Count)
  <2> DEFINE b == bs[x]
             a == Lesser(Stale, b.age + 1)
             c == Aged(bs)[x]
  <2>1. b \in Bucket /\ c = [b EXCEPT !.age = a]
    BY DEF WellFormed, Aged
  <2>2. b.tokens \in 0 .. Capacity /\ b.age \in 0 .. Stale /\ b.age * Count \in Nat
    BY <2>1, RefilledRange DEF Bucket
  <2>3. c.tokens = b.tokens /\ c.age = a /\ a \in 0 .. Stale /\ c \in Bucket
    BY <1>0, <2>1, <2>2 DEF Bucket, Lesser
  <2> HIDE DEF b, c
  <2>4. CASE b.age < Stale
    <3>1. a = b.age + 1
      BY <1>0, <2>2, <2>4 DEF Lesser
    <3>2. a * Count = b.age * Count + Count
      BY <2>2, <3>1, Products
    <3>. QED BY <1>0, <2>2, <2>3, <3>2 DEF Refilled, Lesser, b, c
  <2>5. CASE b.age = Stale
    <3>1. a = Stale /\ Stale > 2 * Per
      BY <1>0, <2>5 DEF Lesser, Stale
    <3>2. Stale * Count >= Capacity /\ Stale * Count \in Nat
      BY <1>0, <3>1, Products
    <3>. QED BY <1>0, <2>2, <2>3, <2>5, <3>1, <3>2 DEF Refilled, Lesser, b, c
  <2>. QED BY <1>0, <2>2, <2>4, <2>5
<1>2. DOMAIN Aged(bs) = DOMAIN bs
  BY DEF Aged
<1>3. WellFormed(Aged(bs))
  BY <1>1, <1>2 DEF WellFormed
<1>4. Capacity = Lesser(Capacity, Capacity + Count)
  BY <1>0 DEF Lesser
<1>. QED BY <1>1, <1>2, <1>3, <1>4 DEF Level
-----------------------------------------------------------------------------
(* Every step of the limiter keeps its map well formed and its answer an   *)
(* answer.                                                                 *)
LEMMA TypeInductive == TypeOK /\ [Next]_vars => TypeOK'
<1> SUFFICES ASSUME TypeOK, [Next]_vars PROVE TypeOK'
  OBVIOUS
<1>0. WellFormed(buckets)
  BY DEF TypeOK, WellFormed
<1>1. CASE Sweep
  BY <1>0, <1>1, SweptLevel DEF Sweep, TypeOK, WellFormed
<1>2. CASE Tick
  BY <1>0, <1>2, AgedLevel DEF Tick, TypeOK, WellFormed
<1>3. ASSUME NEW k \in Keys, Allow(k) PROVE TypeOK'
  <2>1. WellFormed(buckets')
    BY <1>0, <1>3, AllowLevel DEF Allow
  <2>2. Allowed(buckets, k) \in BOOLEAN
    BY DEF Allowed
  <2>. QED BY <1>3, <2>1, <2>2 DEF Allow, TypeOK, WellFormed
<1>4. ASSUME NEW k \in Keys, Blocked(k) PROVE TypeOK'
  <2>1. WellFormed(buckets')
    BY <1>0, <1>4, PeekLevel DEF Blocked
  <2>2. Empty(buckets, k) \in BOOLEAN
    BY DEF Empty
  <2>. QED BY <1>4, <2>1, <2>2 DEF Blocked, TypeOK, WellFormed
<1>5. CASE UNCHANGED vars
  BY <1>5 DEF vars, TypeOK
<1>. QED BY <1>1, <1>2, <1>3, <1>4, <1>5 DEF Next

(* Type correctness of the limiter: no bucket ever holds less than nothing *)
(* or more than its burst, and only keys that called have one.             *)
THEOREM LimiterTypeOK == Spec => []TypeOK
<1>1. Init => TypeOK
  BY DEF Init, TypeOK
<1>. QED BY <1>1, TypeInductive, PTL DEF Spec
-----------------------------------------------------------------------------
(* Every step of the limiter is a step, or a stutter, of the ideal one.    *)
LEMMA StepRefines == TypeOK /\ [Next]_vars => [Ideal!Next]_Ideal!vars
<1> SUFFICES ASSUME TypeOK, [Next]_vars PROVE [Ideal!Next]_Ideal!vars
  OBVIOUS
<1> DEFINE lv == [k \in Keys |-> Level(buckets, k)]
<1>0. /\ WellFormed(buckets) /\ Capacity = Ideal!Full /\ Token = Per
      /\ Unlimited <=> Ideal!Free
  BY Products DEF TypeOK, WellFormed, Capacity, Token, Ideal!Full, Ideal!Free
<1>1. CASE Sweep
  <2>1. lv' = lv /\ answer' = answer
    BY <1>0, <1>1, SweptLevel DEF Sweep
  <2>. QED BY <2>1 DEF Ideal!vars
<1>2. CASE Tick
  <2>1. answer' = answer
        /\ \A k \in Keys : lv'[k] = Lesser(Capacity, lv[k] + Count)
    BY <1>0, <1>2, AgedLevel DEF Tick
  <2>2. \A k \in Keys : lv[k] \in Nat /\ Count \in Nat /\ Capacity \in Nat
    BY <1>0, LevelRange, Products, RateAssumption
  <2>3. lv' = [k \in Keys |-> IF lv[k] + Count <= Ideal!Full
                                 THEN lv[k] + Count ELSE Ideal!Full]
    <3>1. ASSUME NEW k \in Keys
          PROVE  lv'[k] = IF lv[k] + Count <= Ideal!Full
                            THEN lv[k] + Count ELSE Ideal!Full
      <4> HIDE DEF lv
      <4>. QED BY <1>0, <2>1, <2>2 DEF Lesser
    <3>. QED BY <3>1
  <2>. QED BY <2>1, <2>3 DEF Ideal!Next, Ideal!Tick
<1>3. ASSUME NEW k \in Keys, Allow(k) PROVE Ideal!Allow(k)
  <2>1. \A x \in Keys : lv'[x] = IF x = k /\ Allowed(buckets, k) /\ ~ Unlimited
                                   THEN lv[k] - Token ELSE lv[x]
    BY <1>0, <1>3, AllowLevel DEF Allow
  <2>2. Allowed(buckets, k) = (Ideal!Free \/ lv[k] >= Per)
    BY <1>0, AllowLevel DEF Allowed
  <2>3. lv' = [lv EXCEPT ![k] = IF (Ideal!Free \/ lv[k] >= Per) /\ ~ Ideal!Free
                                  THEN @ - Per ELSE @]
    BY <1>0, <2>1, <2>2
  <2>. QED BY <1>3, <2>2, <2>3 DEF Allow, Ideal!Allow
<1>4. ASSUME NEW k \in Keys, Blocked(k) PROVE Ideal!Blocked(k)
  <2>1. lv' = lv
    BY <1>0, <1>4, PeekLevel DEF Blocked
  <2>2. Empty(buckets, k) = (~ Ideal!Free /\ lv[k] < Per)
    BY <1>0, PeekLevel DEF Empty
  <2>. QED BY <1>4, <2>1, <2>2 DEF Blocked, Ideal!Blocked
<1>5. CASE UNCHANGED vars
  BY <1>5 DEF vars, Ideal!vars
<1>. QED BY <1>1, <1>2, <1>3, <1>4, <1>5 DEF Next, Ideal!Next

(* Lazy refill, peeking, and sweeping are invisible: the limiter gives the *)
(* answers of a limiter that credits every key on every tick and forgets   *)
(* none.                                                                   *)
THEOREM LimiterImplementsIdeal == Spec => ImplementsIdeal
<1>1. Init => Ideal!Init
  BY DEF Init, Ideal!Init, Ideal!Full, Level, Capacity, Token
<1>. QED BY <1>1, StepRefines, LimiterTypeOK, PTL DEF Spec, ImplementsIdeal
-----------------------------------------------------------------------------
(* The inductive invariant of the observer.  WithinRate alone is not       *)
(* inductive: a grant is safe only because the level it is taken from is   *)
(* part of the account.                                                    *)
WInv == TypeOK /\ WTypeOK /\ Accounted

LEMMA WInit_Inv == WInit => WInv
<1> SUFFICES ASSUME WInit PROVE WInv
  OBVIOUS
<1>1. TypeOK /\ WTypeOK
  BY DEF WInit, Init, TypeOK, WTypeOK
<1>2. ASSUME NEW k \in Keys
      PROVE  Level(buckets, k) + granted[k] * Token <= Capacity + ticks * Count
  <2>1. Level(buckets, k) = Capacity /\ granted[k] = 0 /\ ticks = 0
    BY DEF WInit, Init, Level
  <2>. QED BY <2>1, Products, RateAssumption
<1>. QED BY <1>1, <1>2 DEF WInv, Accounted

LEMMA WNext_Inv == WInv /\ [WNext]_wvars => WInv'
<1> SUFFICES ASSUME WInv, [WNext]_wvars PROVE WInv'
  OBVIOUS
<1>0. /\ TypeOK /\ WTypeOK /\ Accounted
      /\ WellFormed(buckets)
  BY DEF WInv, TypeOK, WellFormed
<1>1. \A k \in Keys : /\ Level(buckets, k) \in 0 .. Capacity
                      /\ granted[k] \in Nat /\ granted[k] * Token \in Nat
  BY <1>0, LevelRange, Products DEF WTypeOK
<1>2. ticks \in Nat /\ ticks * Count \in Nat /\ Capacity \in Nat /\ Count \in Nat
  BY <1>0, Products, RateAssumption DEF WTypeOK
<1>3. TypeOK'
  <2>1. [Next]_vars
    BY DEF WNext, wvars, Open, WTick, WSweep, WBlocked, WAllow, Next, vars
  <2>. QED BY <1>0, <2>1, TypeInductive
<1> DEFINE Fits(k) == Level(buckets, k) + granted[k] * Token <= Capacity + ticks * Count
<1>4. CASE Open
  <2>1. WTypeOK'
    BY <1>4 DEF Open, WTypeOK
  <2>2. ASSUME NEW k \in Keys, ~ Unlimited PROVE Fits(k)'
    <3>1. buckets' = buckets /\ granted'[k] = 0 /\ ticks' = 0
      BY <1>4 DEF Open, vars
    <3>. QED BY <1>1, <1>2, <3>1, Products
  <2>. QED BY <1>3, <2>1, <2>2 DEF WInv, Accounted
<1>5. CASE WTick
  <2>1. WTypeOK'
    BY <1>0, <1>5 DEF WTick, WTypeOK
  <2>2. ASSUME NEW k \in Keys, ~ Unlimited PROVE Fits(k)'
    <3>1. Level(buckets', k) = Lesser(Capacity, Level(buckets, k) + Count)
      BY <1>0, <1>5, AgedLevel DEF WTick, Tick
    <3>2. /\ Level(buckets', k) <= Level(buckets, k) + Count
          /\ Level(buckets', k) <= Capacity
          /\ Level(buckets', k) \in Nat
      BY <1>1, <1>2, <3>1 DEF Lesser
    <3>3. CASE granted' = granted /\ ticks' = ticks + 1
      <4>1. (ticks + 1) * Count = ticks * Count + Count
        BY <1>2, Products
      <4>2. Fits(k)
        BY <1>0, <2>2 DEF Accounted
      <4>. QED BY <1>1, <1>2, <3>2, <3>3, <4>1, <4>2
    <3>4. CASE granted'[k] = 0 /\ ticks' = 0
      BY <1>1, <1>2, <3>2, <3>4, Products
    <3>. QED BY <1>5, <3>3, <3>4 DEF WTick
  <2>. QED BY <1>3, <2>1, <2>2 DEF WInv, Accounted
<1>6. ASSUME NEW a \in Keys, WAllow(a) PROVE WInv'
  <2>1. WTypeOK'
    BY <1>0, <1>6 DEF WAllow, WTypeOK
  <2>2. ASSUME NEW k \in Keys, ~ Unlimited PROVE Fits(k)'
    <3> DEFINE paid == k = a /\ Allowed(buckets, a)
    <3>1. ticks' = ticks /\ granted'[k] = IF paid THEN granted[k] + 1 ELSE granted[k]
      BY <1>0, <1>6 DEF WAllow, WTypeOK
    <3>2. Level(buckets', k) = IF paid /\ ~ Unlimited THEN Level(buckets, k) - Token
                               ELSE Level(buckets, k)
      BY <1>0, <1>6, AllowLevel DEF WAllow, Allow
    <3>3. Fits(k)
      BY <1>0, <2>2 DEF Accounted
    <3>4. (granted[k] + 1) * Token = granted[k] * Token + Token /\ Token \in Nat
      BY <1>1, Products
    <3>. QED BY <1>1, <1>2, <2>2, <3>1, <3>2, <3>3, <3>4
  <2>. QED BY <1>3, <2>1, <2>2 DEF WInv, Accounted
<1>7. CASE WSweep \/ \E k \in Keys : WBlocked(k)
  <2>1. WTypeOK' /\ UNCHANGED <<ticks, granted>>
    BY <1>0, <1>7 DEF WSweep, WBlocked, WTypeOK
  <2>2. \A k \in Keys : Level(buckets', k) = Level(buckets, k)
    BY <1>0, <1>7, SweptLevel, PeekLevel DEF WSweep, WBlocked, Sweep, Blocked
  <2>. QED BY <1>0, <1>3, <2>1, <2>2 DEF WInv, Accounted
<1>8. CASE UNCHANGED wvars
  BY <1>0, <1>3, <1>8 DEF WInv, WTypeOK, Accounted, wvars
<1>. QED BY <1>4, <1>5, <1>6, <1>7, <1>8 DEF WNext

(* In every interval of every run, for every rate, a key is granted at     *)
(* most its burst and what the rate adds in that time, whatever the        *)
(* sweeper deletes meanwhile.                                              *)
THEOREM GrantedWithinRate == WSpec => []WithinRate
<1>1. WInv => WithinRate
  <2> SUFFICES ASSUME WInv, ~ Unlimited, NEW k \in Keys
               PROVE  granted[k] * Token <= Capacity + ticks * Count
    BY DEF WithinRate
  <2>1. /\ Level(buckets, k) + granted[k] * Token <= Capacity + ticks * Count
        /\ Level(buckets, k) \in 0 .. Capacity
        /\ granted[k] * Token \in Nat
    BY LevelRange, Products DEF WInv, Accounted, TypeOK, WTypeOK, WellFormed
  <2>2. Capacity \in Nat /\ ticks * Count \in Nat
    BY Products DEF WInv, WTypeOK
  <2> DEFINE l == Level(buckets, k)
             g == granted[k] * Token
             t == ticks * Count
  <2> HIDE DEF l, g, t
  <2>3. l + g <= Capacity + t /\ l \in 0 .. Capacity /\ g \in Nat /\ t \in Nat
    BY <2>1, <2>2 DEF l, g, t
  <2>4. g <= Capacity + t
    BY <2>2, <2>3
  <2>. QED BY <2>4 DEF g, t
<1>. QED BY <1>1, WInit_Inv, WNext_Inv, PTL DEF WSpec
-----------------------------------------------------------------------------
(***************************************************************************)
(* The renders of the process (module RenderBudget).                       *)
(***************************************************************************)

(* The requests past the semaphore.                                        *)
Holders == {r \in Requests : stage[r] = "slot"}

(* The counter counts the holders: acquire adds the request it lets in,    *)
(* and the deferred release takes away the one that is answered.           *)
Counted == IsFiniteSet(Holders) /\ Cardinality(Holders) = slots

(* A render in flight keeps its request in its slot.                       *)
Attached == \A r \in Requests : running[r] > 0 => stage[r] = "slot"

BudgetInv == BudgetTypeOK /\ Counted /\ Attached

LEMMA StepKeepsBudget ==
  ASSUME BudgetInv, NEW r \in Requests, Cancel(r) \/ Step(r)
  PROVE  BudgetInv'
<1>. USE BudgetAssumption
<1>1. CASE Cancel(r)
  BY <1>1 DEF Cancel, BudgetInv, BudgetTypeOK, Counted, Holders, Attached
<1>2. CASE Acquire(r)
  <2>1. Holders' = Holders \cup {r} /\ r \notin Holders
    BY <1>2 DEF Acquire, BudgetInv, BudgetTypeOK, Holders
  <2>2. IsFiniteSet(Holders') /\ Cardinality(Holders') = Cardinality(Holders) + 1
    BY <2>1, FS_AddElement DEF BudgetInv, Counted
  <2>3. Counted'
    BY <1>2, <2>2 DEF Acquire, BudgetInv, Counted
  <2>4. BudgetTypeOK' /\ Attached'
    BY <1>2 DEF Acquire, BudgetInv, BudgetTypeOK, Attached
  <2>. QED BY <2>3, <2>4 DEF BudgetInv
<1>3. CASE Shed(r)
  <2>1. Holders' = Holders
    BY <1>3 DEF Shed, BudgetInv, BudgetTypeOK, Holders
  <2>2. BudgetTypeOK' /\ Attached'
    BY <1>3 DEF Shed, BudgetInv, BudgetTypeOK, Attached
  <2>. QED BY <1>3, <2>1, <2>2 DEF Shed, BudgetInv, Counted
<1>4. CASE Begin(r) \/ Skip(r) \/ End(r)
  <2>1. Holders' = Holders /\ slots' = slots
    BY <1>4 DEF Begin, Skip, End, Holders
  <2>2. BudgetTypeOK' /\ Attached'
    BY <1>4 DEF Begin, Skip, End, BudgetInv, BudgetTypeOK, Attached
  <2>. QED BY <2>1, <2>2 DEF BudgetInv, Counted
<1>5. CASE Answer(r)
  <2>1. Holders' = Holders \ {r} /\ r \in Holders
    BY <1>5 DEF Answer, BudgetInv, BudgetTypeOK, Holders
  <2>2. IsFiniteSet(Holders') /\ Cardinality(Holders') = Cardinality(Holders) - 1
    BY <2>1, FS_RemoveElement DEF BudgetInv, Counted
  <2>3. slots > 0
    <3>1. Cardinality(Holders) # 0
      BY <2>1, FS_EmptySet DEF BudgetInv, Counted
    <3>. QED BY <3>1 DEF BudgetInv, Counted, BudgetTypeOK
  <2>4. Counted'
    BY <1>5, <2>2 DEF Answer, BudgetInv, Counted
  <2>5. BudgetTypeOK' /\ Attached'
    BY <1>5, <2>3 DEF Answer, BudgetInv, BudgetTypeOK, Attached
  <2>. QED BY <2>4, <2>5 DEF BudgetInv
<1>. QED BY <1>1, <1>2, <1>3, <1>4, <1>5 DEF Step

(* The semaphore of withConcurrency counts the requests that hold a slot,  *)
(* and a request leaves its slot with no render behind it (batch.Run waits *)
(* for its workers), whatever is cancelled.                                *)
THEOREM BudgetInvariant == BudgetSpec => []BudgetInv
<1>1. BudgetInit => BudgetInv
  <2> SUFFICES ASSUME BudgetInit PROVE BudgetInv
    OBVIOUS
  <2>1. Holders = {}
    BY DEF BudgetInit, Holders
  <2>2. Counted
    BY <2>1, FS_EmptySet DEF BudgetInit, Counted
  <2>3. BudgetTypeOK /\ Attached
    BY BudgetAssumption DEF BudgetInit, BudgetTypeOK, Attached
  <2>. QED BY <2>2, <2>3 DEF BudgetInv
<1>2. BudgetInv /\ [BudgetNext]_budgetVars => BudgetInv'
  <2> SUFFICES ASSUME BudgetInv, [BudgetNext]_budgetVars PROVE BudgetInv'
    OBVIOUS
  <2>1. CASE BudgetNext
    BY <2>1, StepKeepsBudget DEF BudgetNext
  <2>2. CASE UNCHANGED budgetVars
    BY <2>2 DEF budgetVars, BudgetInv, BudgetTypeOK, Counted, Holders, Attached
  <2>. QED BY <2>1, <2>2
<1>. QED BY <1>1, <1>2, PTL DEF BudgetSpec

LEMMA ProductGrows ==
  ASSUME NEW a \in Nat, NEW b \in Nat, a <= b
  PROVE  a * b <= b * b
<1>1. PICK d \in Nat : b = a + d
  BY b - a \in Nat, b = a + (b - a)
<1>2. b * b = a * b + d * b /\ d * b \in Nat /\ a * b \in Nat
  BY <1>1
<1>. QED BY <1>2

(* The renders of the whole process stay within the square of the setting, *)
(* one setting for the slots and one for each slot's tickets, and each of  *)
(* them belongs to a request that holds its slot.                          *)
THEOREM RendersStayBounded == BudgetSpec => []RendersBounded
<1>1. BudgetInv => RendersBounded
  <2> SUFFICES ASSUME BudgetInv PROVE Renders <= Concurrency * Concurrency
    BY DEF BudgetInv, Attached, RendersBounded
  <2>1. Concurrency \in Nat
    BY BudgetAssumption
  <2>2. IsFiniteSet(1 .. Concurrency) /\ Cardinality(1 .. Concurrency) = Concurrency
    BY <2>1, BudgetAssumption, FS_Interval
  <2>3. IsFiniteSet(Holders) /\ Cardinality(Holders) \in Nat /\ Cardinality(Holders) <= Concurrency
    BY BudgetAssumption DEF BudgetInv, Counted, BudgetTypeOK
  <2> DEFINE Tickets == Holders \X (1 .. Concurrency)
  <2>4. IsFiniteSet(Tickets) /\ Cardinality(Tickets) = Cardinality(Holders) * Concurrency
    BY <2>2, <2>3, FS_Product
  <2>5. InFlight \subseteq Tickets
    <3> SUFFICES ASSUME NEW t \in InFlight PROVE t \in Tickets
      OBVIOUS
    <3>1. t \in Requests \X (1 .. MaxItems) /\ t[2] <= running[t[1]]
      BY DEF InFlight
    <3>2. t[1] \in Requests /\ t[2] \in 1 .. MaxItems /\ t = <<t[1], t[2]>>
      BY <3>1
    <3>3. running[t[1]] \in 0 .. Concurrency
      BY <3>2 DEF BudgetInv, BudgetTypeOK
    <3>4. t[2] \in 1 .. Concurrency /\ running[t[1]] > 0
      BY <2>1, <3>1, <3>2, <3>3, BudgetAssumption
    <3>5. t[1] \in Holders
      BY <3>2, <3>4 DEF BudgetInv, Attached, Holders
    <3>. QED BY <3>2, <3>4, <3>5
  <2>6. Renders <= Cardinality(Tickets)
    BY <2>4, <2>5, FS_Subset DEF Renders
  <2>7. Cardinality(Holders) * Concurrency <= Concurrency * Concurrency
    BY <2>1, <2>3, ProductGrows
  <2>8. Renders \in Nat
    BY <2>4, <2>5, FS_Subset, FS_CardinalityType DEF Renders
  <2>9. Cardinality(Holders) * Concurrency \in Nat /\ Concurrency * Concurrency \in Nat
    BY <2>1, <2>3
  <2> HIDE DEF Tickets
  <2>. QED BY <2>4, <2>6, <2>7, <2>8, <2>9
<1>. QED BY <1>1, BudgetInvariant, PTL
=============================================================================
