--------------------------- MODULE LimiterWindow ---------------------------
(***************************************************************************)
(* An observer beside Limiter: from a moment of its own choosing it counts *)
(* the ticks that pass and the requests each key is granted.  Because the  *)
(* window may be opened in any state, what it shows holds for every        *)
(* interval of a run.                                                      *)
(***************************************************************************)
EXTENDS Limiter

CONSTANT MaxWindow \* bound: the longest interval observed, in ticks
ASSUME WindowAssumption == MaxWindow \in Nat

VARIABLES ticks,   \* ticks since the window was opened
          granted  \* requests granted to each key since then

wvars == <<buckets, answer, ticks, granted>>

WInit == /\ Init
         /\ ticks = 0
         /\ granted = [k \in Keys |-> 0]

Open == /\ ticks' = 0
        /\ granted' = [k \in Keys |-> 0]
        /\ UNCHANGED vars

WAllow(k) ==
  /\ Allow(k)
  /\ granted' = [granted EXCEPT ![k] = IF Allowed(buckets, k) THEN @ + 1 ELSE @]
  /\ UNCHANGED ticks

(* A window that has grown to MaxWindow is opened anew.                    *)
WTick ==
  /\ Tick
  /\ \/ /\ ticks < MaxWindow
        /\ ticks' = ticks + 1
        /\ UNCHANGED granted
     \/ /\ ticks >= MaxWindow
        /\ ticks' = 0
        /\ granted' = [k \in Keys |-> 0]

WBlocked(k) == Blocked(k) /\ UNCHANGED <<ticks, granted>>

WSweep == Sweep /\ UNCHANGED <<ticks, granted>>

WNext == \/ Open \/ WTick \/ WSweep
         \/ \E k \in Keys : WAllow(k) \/ WBlocked(k)

(* Limiter's fairness: the observer stops neither sweeper nor clock.       *)
WFairness == WF_wvars(WSweep) /\ WF_wvars(WTick)

WSpec == WInit /\ [][WNext]_wvars /\ WFairness
-----------------------------------------------------------------------------
(* In no interval is a key granted more than its burst and what the rate   *)
(* adds meanwhile: Count + elapsed * Count / Per requests.  Sweeping a     *)
(* bucket, which hands its key a full one, does not open a way round it.   *)
WithinRate ==
  Unlimited \/ \A k \in Keys : granted[k] * Token <= Capacity + ticks * Count

(* Why: what a key has left and what it was granted never exceed what it   *)
(* could have had.                                                         *)
Accounted ==
  \/ Unlimited
  \/ \A k \in Keys : Level(buckets, k) + granted[k] * Token <= Capacity + ticks * Count

WTypeOK == /\ ticks \in Nat
           /\ granted \in [Keys -> Nat]
=============================================================================
