------------------------------ MODULE Admission ------------------------------
(***************************************************************************)
(* How internal/httpapi admits a request: the middleware chains of         *)
(* router.go around one handler, for the three families of routes that     *)
(* check a key.                                                            *)
(*                                                                         *)
(*   api      peek, key, rate limit, deadline, semaphore, handler          *)
(*   docs     peek, deadline, semaphore, then the handler checks the key   *)
(*   metrics  peek, key, handler                                           *)
(*                                                                         *)
(* Requests run concurrently and every middleware is a step, so anything   *)
(* may happen to the limiters and to the semaphore between two of them.    *)
(* The two limiters are the ideal ones Limiter is proved to implement,     *)
(* counted in whole tokens; tokens come back at any time.                  *)
(***************************************************************************)
EXTENDS Naturals, FiniteSets

CONSTANTS Requests,    \* the requests of a run
          Addrs,       \* client addresses
          Keys,        \* API keys that are configured
          Invalid,     \* stands for a key that is not, and for none at all
          AuthOpen,    \* BARQR_AUTH_MODE is open
          Concurrency, \* BARQR_CONCURRENCY: capacity of the semaphore
          Budget,      \* failed attempts an address may make at once
          Burst        \* BARQR_RATE_LIMIT: requests a key may make at once; 0 is unlimited

ASSUME AdmissionAssumption ==
  /\ IsFiniteSet(Requests)
  /\ AuthOpen \in BOOLEAN
  /\ Invalid \notin Keys
  /\ Concurrency \in Nat \ {0}
  /\ Budget \in Nat \ {0}
  /\ Burst \in Nat

Routes  == {"api", "docs", "metrics"}
Callers == [route : Routes, addr : Addrs, key : Keys \cup {Invalid}]
Buckets == IF AuthOpen THEN Addrs ELSE Keys \* what the rate limit is kept by

VARIABLES who,      \* the request's route, address and key
          pc,       \* the middleware the request is at
          done,     \* requests whose context is done
          answer,   \* the answer that was written
          attempts, \* tokens left in the attempt limiter, by address
          rate,     \* tokens left in the rate limiter
          slots,    \* requests in the semaphore
          inFlight, \* the in-flight gauge
          recorded  \* requests that were logged and counted

vars == <<who, pc, done, answer, attempts, rate, slots, inFlight, recorded>>

Stages  == {"idle", "peek", "auth", "rate", "queue", "docs", "handle",
            "unwind", "observe", "gone"}
Answers == {"none", "throttled", "unauthorized", "limited", "overloaded",
            "ok", "fault", "timeout", "panicked"}

Authorised(r) == AuthOpen \/ who[r].key \in Keys
BucketOf(r)   == IF AuthOpen THEN who[r].addr ELSE who[r].key

Init ==
  /\ who \in [Requests -> Callers]
  /\ pc = [r \in Requests |-> "idle"]
  /\ done = {}
  /\ answer = [r \in Requests |-> "none"]
  /\ attempts = [a \in Addrs |-> Budget]
  /\ rate = [b \in Buckets |-> Burst]
  /\ slots = 0
  /\ inFlight = 0
  /\ recorded = {}

Go(r, stage) == pc' = [pc EXCEPT ![r] = stage]
Say(r, what) == answer' = [answer EXCEPT ![r] = what]
Reject(r, what) == Say(r, what) /\ Go(r, "observe")

(* penaliseAttempt: an empty bucket stays empty.                           *)
Penalise(r) ==
  attempts' = [attempts EXCEPT ![who[r].addr] = IF @ > 0 /\ ~ AuthOpen THEN @ - 1 ELSE @]
-----------------------------------------------------------------------------
(* withMetrics enters the request in the gauge.                            *)
Arrive(r) ==
  /\ pc[r] = "idle"
  /\ inFlight' = inFlight + 1
  /\ Go(r, "peek")
  /\ UNCHANGED <<who, done, answer, attempts, rate, slots, recorded>>

(* withAttemptLimit looks at the bucket and takes nothing from it.         *)
Peek(r) ==
  /\ pc[r] = "peek"
  /\ \/ /\ ~ AuthOpen /\ attempts[who[r].addr] = 0
        /\ Reject(r, "throttled")
     \/ /\ AuthOpen \/ attempts[who[r].addr] > 0
        /\ Go(r, IF who[r].route = "docs" THEN "queue" ELSE "auth")
        /\ UNCHANGED answer
  /\ UNCHANGED <<who, done, attempts, rate, slots, inFlight, recorded>>

(* Mutant: the scrape endpoint needs no key.                               *)
BugAuth(r) ==
  /\ pc[r] = "auth"
  /\ \/ /\ Authorised(r) \/ who[r].route = "metrics"
        /\ Go(r, IF who[r].route = "api" THEN "rate" ELSE "handle")
        /\ UNCHANGED <<answer, attempts>>
     \/ /\ ~ Authorised(r) /\ who[r].route # "metrics"
        /\ Penalise(r)
        /\ Reject(r, "unauthorized")
  /\ UNCHANGED <<who, done, rate, slots, inFlight, recorded>>

Auth(r) ==
  /\ pc[r] = "auth"
  /\ \/ /\ Authorised(r)
        /\ Go(r, IF who[r].route = "api" THEN "rate" ELSE "handle")
        /\ UNCHANGED <<answer, attempts>>
     \/ /\ ~ Authorised(r)
        /\ Penalise(r)
        /\ Reject(r, "unauthorized")
  /\ UNCHANGED <<who, done, rate, slots, inFlight, recorded>>

RateLimit(r) ==
  /\ pc[r] = "rate"
  /\ \/ /\ Burst = 0 \/ rate[BucketOf(r)] > 0
        /\ rate' = [rate EXCEPT ![BucketOf(r)] = IF Burst = 0 THEN @ ELSE @ - 1]
        /\ Go(r, "queue")
        /\ UNCHANGED answer
     \/ /\ Burst > 0 /\ rate[BucketOf(r)] = 0
        /\ Reject(r, "limited")
        /\ UNCHANGED rate
  /\ UNCHANGED <<who, done, attempts, slots, inFlight, recorded>>

(* Mutant: withConcurrency outside withTimeout, so that the deadline only  *)
(* starts once a slot is held.                                             *)
BugExpire(r) ==
  /\ pc[r] \in {"docs", "handle"} /\ who[r].route # "metrics"
  /\ r \notin done
  /\ done' = done \cup {r}
  /\ UNCHANGED <<who, pc, answer, attempts, rate, slots, inFlight, recorded>>

(* From withTimeout on, the deadline may pass, and the client may leave.   *)
Expire(r) ==
  /\ pc[r] \in {"queue", "docs", "handle"} /\ who[r].route # "metrics"
  /\ r \notin done
  /\ done' = done \cup {r}
  /\ UNCHANGED <<who, pc, answer, attempts, rate, slots, inFlight, recorded>>
-----------------------------------------------------------------------------
(* withConcurrency selects between a free slot and the end of the context; *)
(* when both are there it takes either.                                    *)

Enter(r) ==
  /\ pc[r] = "queue"
  /\ slots < Concurrency
  /\ slots' = slots + 1
  /\ Go(r, IF who[r].route = "docs" THEN "docs" ELSE "handle")
  /\ UNCHANGED <<who, done, answer, attempts, rate, inFlight, recorded>>

Shed(r) ==
  /\ pc[r] = "queue"
  /\ r \in done
  /\ Reject(r, "overloaded")
  /\ UNCHANGED <<who, done, attempts, rate, slots, inFlight, recorded>>

(* Mutant: the unlock page does not charge the attempt.                    *)
BugDocsAuthorize(r) ==
  /\ pc[r] = "docs"
  /\ \/ /\ Authorised(r)
        /\ Go(r, "handle")
        /\ UNCHANGED answer
     \/ /\ ~ Authorised(r)
        /\ Say(r, "unauthorized")
        /\ Go(r, "unwind")
  /\ UNCHANGED <<who, done, attempts, rate, slots, inFlight, recorded>>

(* handleDocs checks the key itself, in its slot.                          *)
DocsAuthorize(r) ==
  /\ pc[r] = "docs"
  /\ \/ /\ Authorised(r)
        /\ Go(r, "handle")
        /\ UNCHANGED <<answer, attempts>>
     \/ /\ ~ Authorised(r)
        /\ Penalise(r)
        /\ Say(r, "unauthorized")
        /\ Go(r, "unwind")
  /\ UNCHANGED <<who, done, rate, slots, inFlight, recorded>>

Unwind(r) == Go(r, IF who[r].route = "metrics" THEN "observe" ELSE "unwind")

(* The handler answers; only the pipeline behind the API looks at the      *)
(* context between its stages.                                             *)
Handle(r) ==
  /\ pc[r] = "handle"
  /\ \E v \in {"ok", "fault", "timeout"} :
       /\ v = "timeout" => r \in done /\ who[r].route = "api"
       /\ Say(r, v)
  /\ Unwind(r)
  /\ UNCHANGED <<who, done, attempts, rate, slots, inFlight, recorded>>

(* Mutant: the slot is freed after the handler and not by a deferred call. *)
BugPanic(r) ==
  /\ pc[r] = "handle"
  /\ Go(r, "observe")
  /\ UNCHANGED <<who, done, answer, attempts, rate, slots, inFlight, recorded>>

(* The handler panics: nothing is written, and the deferred calls run.     *)
Panic(r) ==
  /\ pc[r] = "handle"
  /\ Unwind(r)
  /\ UNCHANGED <<who, done, answer, attempts, rate, slots, inFlight, recorded>>

Release(r) ==
  /\ pc[r] = "unwind"
  /\ slots' = slots - 1
  /\ Go(r, "observe")
  /\ UNCHANGED <<who, done, answer, attempts, rate, inFlight, recorded>>

(* withLogging and withMetrics record the request on the way out, but a    *)
(* panic passes them by: only the gauge, which is deferred, is put back,   *)
(* and chi's Recoverer answers.                                            *)
Observe(r) ==
  /\ pc[r] = "observe"
  /\ \/ /\ answer[r] = "none"
        /\ Say(r, "panicked")
        /\ UNCHANGED recorded
     \/ /\ answer[r] # "none"
        /\ recorded' = recorded \cup {r}
        /\ UNCHANGED answer
  /\ inFlight' = inFlight - 1
  /\ Go(r, "gone")
  /\ UNCHANGED <<who, done, attempts, rate, slots>>

(* Time passes: a bucket that is not full gets a token back.               *)
Refill ==
  /\ \/ /\ \E a \in Addrs : attempts[a] < Budget /\ attempts' = [attempts EXCEPT ![a] = @ + 1]
        /\ UNCHANGED rate
     \/ /\ \E b \in Buckets : rate[b] < Burst /\ rate' = [rate EXCEPT ![b] = @ + 1]
        /\ UNCHANGED attempts
  /\ UNCHANGED <<who, pc, done, answer, slots, inFlight, recorded>>

Middleware(r) == \/ Peek(r) \/ Auth(r) \/ RateLimit(r) \/ Enter(r) \/ Shed(r)
                 \/ DocsAuthorize(r) \/ Release(r) \/ Observe(r)

Next == \/ Refill
        \/ \E r \in Requests : Arrive(r) \/ Middleware(r) \/ Expire(r) \/ Handle(r) \/ Panic(r)

(* Goroutines that can run do, and timers fire.  A handler may take for    *)
(* ever: nothing here relies on its ending.                                *)
Fairness == \A r \in Requests : WF_vars(Middleware(r)) /\ WF_vars(Expire(r))

Spec == Init /\ [][Next]_vars /\ Fairness
-----------------------------------------------------------------------------
(* Type invariant: no limiter or semaphore goes past its bounds.           *)
TypeOK ==
  /\ who \in [Requests -> Callers]
  /\ pc \in [Requests -> Stages]
  /\ done \subseteq Requests
  /\ answer \in [Requests -> Answers]
  /\ attempts \in [Addrs -> 0 .. Budget]
  /\ rate \in [Buckets -> 0 .. Burst]
  /\ slots \in 0 .. Concurrency
  /\ inFlight \in Nat
  /\ recorded \subseteq Requests

At(S)  == {r \in Requests : pc[r] \in S}
Holders == {r \in At({"docs", "handle", "unwind"}) : who[r].route # "metrics"}

Logged == recorded = {r \in At({"gone"}) : answer[r] # "panicked"}

(* No path through the chains, the panicking one included, loses or        *)
(* duplicates a slot of the semaphore or a count of the gauge; and exactly *)
(* the requests that went without a panic have been logged and counted.    *)
NoLeak ==
  /\ slots = Cardinality(Holders)
  /\ inFlight = Cardinality(At(Stages \ {"idle", "gone"}))
  /\ Logged

(* On every route, whatever the order of its middlewares, work is done and *)
(* answered only for a caller whose key is good.                           *)
OnlyAuthorisedWork ==
  \A r \in Requests :
    pc[r] \in {"rate", "handle"} \/ answer[r] \in {"ok", "fault", "timeout", "panicked"}
      => Authorised(r)

(* The attempt budget of an address pays for rejected keys, all of them,   *)
(* and for nothing else: a caller with a good key spends none of it.       *)
ChargesExactlyFailures ==
  [][\A a \in Addrs :
       attempts'[a] < attempts[a] <=>
         /\ attempts[a] > 0
         /\ \E r \in Requests : /\ who[r].addr = a
                                /\ answer[r] = "none" /\ answer'[r] = "unauthorized"]_vars

(* A queued request leaves the queue, though every holder of a slot hangs. *)
NeverStuckInQueue == \A r \in Requests : pc[r] = "queue" ~> pc[r] # "queue"
=============================================================================
