--------------------------- MODULE AdmissionProofs ---------------------------
(***************************************************************************)
(* Proofs about Admission, for any number of requests, addresses and keys, *)
(* in both authentication modes and at every setting of the limits.        *)
(***************************************************************************)
EXTENDS Admission, FiniteSetTheorems, TLAPS

(* The parts of the invariant that the properties need and do not state.   *)

(* Which routes pass through which middlewares.                            *)
Routed ==
  \A r \in Requests :
    /\ pc[r] \in {"auth", "rate"} => who[r].route # "docs"
    /\ pc[r] \in {"rate", "queue", "docs", "unwind"} => who[r].route # "metrics"
    /\ pc[r] = "docs" => who[r].route = "docs"

(* Nothing is written before the handler, save by a middleware that stops. *)
Silent ==
  \A r \in Requests :
    pc[r] \in {"idle", "peek", "auth", "rate", "queue", "docs", "handle"} => answer[r] = "none"

(* A request without a good key waits only in the documentation's queue,   *)
(* and ends with an answer that is a refusal.                              *)
Refused ==
  \A r \in Requests :
    ~ Authorised(r) =>
      /\ pc[r] \notin {"rate", "handle"}
      /\ pc[r] = "queue" => who[r].route = "docs"
      /\ pc[r] \in {"unwind", "observe", "gone"} => answer[r] # "none"
      /\ answer[r] \notin {"ok", "fault", "timeout", "panicked"}

(* The answer to a panic is written outside all the chains.                *)
LastWord == \A r \in Requests : answer[r] = "panicked" => pc[r] = "gone"

IInv == TypeOK /\ NoLeak /\ LastWord /\ Routed /\ Silent /\ Refused

Inside == At(Stages \ {"idle", "gone"})
Holds  == {"docs", "handle", "unwind"}
-----------------------------------------------------------------------------
(* How the size of a finite set changes when one element moves.            *)
LEMMA CountStep ==
  ASSUME NEW A, NEW B, NEW r, IsFiniteSet(A),
         \A x : x # r => (x \in A <=> x \in B)
  PROVE  /\ (r \in A <=> r \in B) => Cardinality(B) = Cardinality(A)
         /\ r \in A /\ r \notin B => Cardinality(B) = Cardinality(A) - 1
         /\ r \notin A /\ r \in B => Cardinality(B) = Cardinality(A) + 1
<1>1. ASSUME r \in A <=> r \in B PROVE Cardinality(B) = Cardinality(A)
  <2>1. A = B
    BY <1>1
  <2>. QED BY <2>1
<1>2. ASSUME r \in A, r \notin B PROVE Cardinality(B) = Cardinality(A) - 1
  <2>1. B = A \ {r}
    BY <1>2
  <2>. QED BY <1>2, <2>1, FS_RemoveElement
<1>3. ASSUME r \notin A, r \in B PROVE Cardinality(B) = Cardinality(A) + 1
  <2>1. B = A \cup {r}
    BY <1>3
  <2>. QED BY <1>3, <2>1, FS_AddElement
<1>. QED BY <1>1, <1>2, <1>3

LEMMA Finite ==
  /\ IsFiniteSet(Holders) /\ Cardinality(Holders) \in Nat
  /\ IsFiniteSet(Inside)  /\ Cardinality(Inside) \in Nat
<1>1. Holders \subseteq Requests /\ Inside \subseteq Requests
  BY DEF Holders, Inside, At
<1>2. IsFiniteSet(Holders) /\ IsFiniteSet(Inside)
  BY <1>1, FS_Subset, AdmissionAssumption
<1>. QED BY <1>2, FS_CardinalityType

(* A step of request r from one stage to another, for the semaphore.       *)
LEMMA HolderStep ==
  ASSUME TypeOK, NEW r \in Requests, NEW s \in Stages, Go(r, s), who' = who
  PROVE  LET was == pc[r] \in Holds /\ who[r].route # "metrics"
             is  == s \in Holds /\ who[r].route # "metrics"
         IN  /\ (was <=> is) => Cardinality(Holders') = Cardinality(Holders)
             /\ was /\ ~ is => Cardinality(Holders') = Cardinality(Holders) - 1
             /\ ~ was /\ is => Cardinality(Holders') = Cardinality(Holders) + 1
<1> DEFINE A == Holders
           B == Holders'
<1>1. \A x : x # r => (x \in A <=> x \in B)
  BY DEF Holders, At, Go, TypeOK
<1>2. r \in A <=> pc[r] \in Holds /\ who[r].route # "metrics"
  BY DEF Holders, At, Holds
<1>3. r \in B <=> s \in Holds /\ who[r].route # "metrics"
  BY DEF Holders, At, Holds, Go, TypeOK
<1>4. IsFiniteSet(A)
  BY Finite
<1> HIDE DEF A, B
<1>5. /\ (r \in A <=> r \in B) => Cardinality(B) = Cardinality(A)
      /\ r \in A /\ r \notin B => Cardinality(B) = Cardinality(A) - 1
      /\ r \notin A /\ r \in B => Cardinality(B) = Cardinality(A) + 1
  BY <1>1, <1>4, CountStep
<1>. QED BY <1>2, <1>3, <1>5 DEF A, B

(* The same for the gauge.                                                 *)
LEMMA InsideStep ==
  ASSUME TypeOK, NEW r \in Requests, NEW s \in Stages, Go(r, s)
  PROVE  LET was == pc[r] \notin {"idle", "gone"}
             is  == s \notin {"idle", "gone"}
         IN  /\ (was <=> is) => Cardinality(Inside') = Cardinality(Inside)
             /\ was /\ ~ is => Cardinality(Inside') = Cardinality(Inside) - 1
             /\ ~ was /\ is => Cardinality(Inside') = Cardinality(Inside) + 1
<1> DEFINE A == Inside
           B == Inside'
<1>1. \A x : x # r => (x \in A <=> x \in B)
  BY DEF Inside, At, Go, TypeOK
<1>2. r \in A <=> pc[r] \notin {"idle", "gone"}
  BY DEF Inside, At, TypeOK
<1>3. r \in B <=> s \notin {"idle", "gone"}
  BY DEF Inside, At, Go, TypeOK
<1>4. IsFiniteSet(A)
  BY Finite
<1> HIDE DEF A, B
<1>5. /\ (r \in A <=> r \in B) => Cardinality(B) = Cardinality(A)
      /\ r \in A /\ r \notin B => Cardinality(B) = Cardinality(A) - 1
      /\ r \notin A /\ r \in B => Cardinality(B) = Cardinality(A) + 1
  BY <1>1, <1>4, CountStep
<1>. QED BY <1>2, <1>3, <1>5 DEF A, B
-----------------------------------------------------------------------------
LEMMA InitInv == Init => IInv
<1> SUFFICES ASSUME Init PROVE IInv
  OBVIOUS
<1>1. TypeOK
  BY AdmissionAssumption DEF Init, TypeOK, Stages, Answers
<1>2. NoLeak
  <2>1. Holders = {} /\ Inside = {}
    BY DEF Init, Holders, Inside, At
  <2>2. Logged
    BY DEF Init, Logged, At
  <2>. QED BY <2>1, <2>2, FS_EmptySet DEF Init, NoLeak, Inside
<1>3. LastWord /\ Routed /\ Silent /\ Refused
  BY DEF Init, LastWord, Routed, Silent, Refused
<1>. QED BY <1>1, <1>2, <1>3 DEF IInv

(* Every step of a request moves it from one stage to one that follows.    *)
Moves(r) == Arrive(r) \/ Middleware(r) \/ Handle(r) \/ Panic(r)

(* A request is entered in the records as it goes, if it did not panic.    *)
LEMMA StepLogged ==
  ASSUME IInv, NEW r \in Requests, Moves(r)
  PROVE  Logged' /\ LastWord'
<1>0. /\ Logged /\ LastWord /\ recorded \subseteq Requests
      /\ pc \in [Requests -> Stages] /\ answer \in [Requests -> Answers]
  BY DEF IInv, TypeOK, NoLeak
<1>1. \A q \in Requests \ {r} : pc'[q] = pc[q] /\ answer'[q] = answer[q]
  BY <1>0 DEF Moves, Arrive, Middleware, Peek, Auth, RateLimit, Enter, Shed,
              DocsAuthorize, Release, Observe, Handle, Panic, Unwind, Reject, Go, Say
<1>2. CASE Observe(r)
  <2>1. pc[r] = "observe" /\ pc'[r] = "gone"
    BY <1>0, <1>2 DEF Observe, Go
  <2>2. CASE answer[r] = "none"
    <3>1. answer'[r] = "panicked" /\ recorded' = recorded
      BY <1>0, <1>2, <2>2 DEF Observe, Say
    <3>. QED BY <1>0, <1>1, <2>1, <3>1 DEF Logged, LastWord, At
  <2>3. CASE answer[r] # "none"
    <3>1. answer' = answer /\ recorded' = recorded \cup {r}
      BY <1>2, <2>3 DEF Observe
    <3>. QED BY <1>0, <1>1, <2>1, <3>1 DEF Logged, LastWord, At
  <2>. QED BY <2>2, <2>3
<1>3. CASE ~ Observe(r)
  <2>1. recorded' = recorded /\ pc[r] # "gone" /\ pc'[r] # "gone" /\ answer'[r] # "panicked"
    <3>1. answer[r] # "panicked"
      BY <1>0, <1>3 DEF LastWord, Moves, Arrive, Middleware, Peek, Auth, RateLimit, Enter, Shed,
                        DocsAuthorize, Release, Handle, Panic
    <3>. QED BY <1>0, <1>3, <3>1 DEF Moves, Arrive, Middleware, Peek, Auth, RateLimit, Enter, Shed,
                DocsAuthorize, Release, Handle, Panic, Unwind, Reject, Go, Say
  <2>. QED BY <1>0, <1>1, <2>1 DEF Logged, LastWord, At
<1>. QED BY <1>2, <1>3

LEMMA StepNoLeak ==
  ASSUME IInv, NEW r \in Requests, Moves(r)
  PROVE  NoLeak' /\ slots' \in 0 .. Concurrency /\ inFlight' \in Nat
<1>0. /\ slots = Cardinality(Holders) /\ inFlight = Cardinality(Inside)
      /\ slots \in 0 .. Concurrency /\ inFlight \in Nat /\ Concurrency \in Nat
  BY AdmissionAssumption DEF IInv, TypeOK, NoLeak, Inside
<1>1. PICK s \in Stages : Go(r, s) /\ who' = who
  BY Zenon DEF Moves, Arrive, Middleware, Peek, Auth, RateLimit, Enter, Shed, DocsAuthorize,
               Release, Observe, Handle, Panic, Unwind, Reject, Stages, Go
<1>2. pc'[r] = s /\ pc[r] \in Stages
  BY <1>1 DEF Go, IInv, TypeOK
<1> DEFINE h  == Cardinality(Holders)
           h2 == Cardinality(Holders')
           n  == Cardinality(Inside)
           n2 == Cardinality(Inside')
           held  == pc[r] \in Holds /\ who[r].route # "metrics"
           holds == pc'[r] \in Holds /\ who[r].route # "metrics"
           was   == pc[r] \notin {"idle", "gone"}
           is    == pc'[r] \notin {"idle", "gone"}
<1>3. /\ (held <=> holds) => h2 = h
      /\ held /\ ~ holds => h2 = h - 1
      /\ ~ held /\ holds => h2 = h + 1
  BY <1>1, <1>2, HolderStep DEF IInv
<1>4. /\ (was <=> is) => n2 = n
      /\ was /\ ~ is => n2 = n - 1
      /\ ~ was /\ is => n2 = n + 1
  BY <1>1, <1>2, InsideStep DEF IInv
<1>5. h2 \in Nat /\ n2 \in Nat
  <2>1. Holders' \subseteq Requests /\ Inside' \subseteq Requests
    BY DEF Holders, Inside, At
  <2>2. IsFiniteSet(Holders') /\ IsFiniteSet(Inside')
    BY <2>1, FS_Subset, AdmissionAssumption
  <2>. QED BY <2>2, FS_CardinalityType
<1>6. \/ (held <=> holds) /\ slots' = slots
      \/ held /\ ~ holds /\ slots' = slots - 1
      \/ ~ held /\ holds /\ slots' = slots + 1 /\ slots < Concurrency
  <2>0. who[r].route \in Routes
    BY DEF IInv, TypeOK, Callers
  <2>1. CASE Arrive(r) \/ Peek(r) \/ Auth(r) \/ RateLimit(r) \/ Shed(r)
    BY <2>0, <2>1 DEF Routes, IInv, TypeOK, Routed, Holds, Go, Reject,
                Arrive, Peek, Auth, RateLimit, Shed
  <2>2. CASE Enter(r)
    BY <2>2 DEF IInv, TypeOK, Routed, Holds, Go, Enter
  <2>3. CASE DocsAuthorize(r) \/ Handle(r) \/ Panic(r)
    BY <2>3 DEF IInv, TypeOK, Routed, Holds, Go, DocsAuthorize, Handle, Panic, Unwind
  <2>4. CASE Release(r)
    BY <2>4 DEF IInv, TypeOK, Routed, Holds, Go, Release
  <2>5. CASE Observe(r)
    BY <2>5 DEF IInv, TypeOK, Holds, Go, Observe
  <2>. QED BY <2>1, <2>2, <2>3, <2>4, <2>5 DEF Moves, Middleware
<1>7. \/ (was <=> is) /\ inFlight' = inFlight
      \/ was /\ ~ is /\ inFlight' = inFlight - 1
      \/ ~ was /\ is /\ inFlight' = inFlight + 1
  <2>1. CASE Arrive(r) \/ Observe(r)
    BY <2>1 DEF IInv, TypeOK, Go, Arrive, Observe
  <2>2. CASE Peek(r) \/ Auth(r) \/ RateLimit(r) \/ Enter(r) \/ Shed(r)
    BY <2>2 DEF IInv, TypeOK, Go, Reject, Peek, Auth, RateLimit, Enter, Shed
  <2>3. CASE DocsAuthorize(r) \/ Handle(r) \/ Panic(r) \/ Release(r)
    BY <2>3 DEF IInv, TypeOK, Go, DocsAuthorize, Handle, Panic, Unwind, Release
  <2>. QED BY <2>1, <2>2, <2>3 DEF Moves, Middleware
<1>8. h2 = slots' /\ slots' \in 0 .. Concurrency
  <2> HIDE DEF h, h2, held, holds
  <2>1. h = slots
    BY <1>0 DEF h
  <2>. QED BY <1>0, <1>3, <1>5, <1>6, <2>1
<1>9. n2 = inFlight' /\ inFlight' \in Nat
  <2> HIDE DEF n, n2, was, is
  <2>1. n = inFlight
    BY <1>0 DEF n
  <2>. QED BY <1>0, <1>4, <1>5, <1>7, <2>1
<1>. QED BY <1>8, <1>9, StepLogged DEF NoLeak, Inside

LEMMA StepTypeOK ==
  ASSUME IInv, NEW r \in Requests, Moves(r)
  PROVE  TypeOK'
<1>1. slots' \in 0 .. Concurrency /\ inFlight' \in Nat
  BY StepNoLeak
<1>2. /\ who' \in [Requests -> Callers] /\ done' \subseteq Requests
      /\ recorded' \subseteq Requests
  BY DEF IInv, TypeOK, Moves, Arrive, Middleware, Peek, Auth, RateLimit, Enter, Shed,
         DocsAuthorize, Release, Observe, Handle, Panic
<1>3. pc' \in [Requests -> Stages]
  BY DEF IInv, TypeOK, Stages, Moves, Arrive, Middleware, Peek, Auth, RateLimit, Enter, Shed,
         DocsAuthorize, Release, Observe, Handle, Panic, Unwind, Reject, Go
<1>4. answer' \in [Requests -> Answers]
  BY DEF IInv, TypeOK, Answers, Moves, Arrive, Middleware, Peek, Auth, RateLimit, Enter, Shed,
         DocsAuthorize, Release, Observe, Handle, Panic, Reject, Say
<1>5. attempts' \in [Addrs -> 0 .. Budget]
  <2>1. CASE attempts' = attempts
    BY <2>1 DEF IInv, TypeOK
  <2>2. CASE Penalise(r)
    <3>1. who[r].addr \in Addrs /\ Budget \in Nat
      BY AdmissionAssumption DEF IInv, TypeOK, Callers
    <3>2. \A x \in 0 .. Budget : (IF x > 0 /\ ~ AuthOpen THEN x - 1 ELSE x) \in 0 .. Budget
      BY <3>1
    <3>. QED BY <2>2, <3>1, <3>2 DEF IInv, TypeOK, Penalise
  <2>. QED BY <2>1, <2>2 DEF Moves, Arrive, Middleware, Peek, Auth, RateLimit, Enter, Shed,
                             DocsAuthorize, Release, Observe, Handle, Panic
<1>6. rate' \in [Buckets -> 0 .. Burst]
  <2>1. CASE rate' = rate
    BY <2>1 DEF IInv, TypeOK
  <2>2. CASE RateLimit(r) /\ rate' # rate
    <3>1. Authorised(r) /\ Burst \in Nat
      BY <2>2, AdmissionAssumption DEF IInv, Refused, RateLimit
    <3>2. BucketOf(r) \in Buckets
      BY <3>1 DEF IInv, TypeOK, Callers, Authorised, BucketOf, Buckets
    <3>. QED BY <2>2, <3>1, <3>2 DEF IInv, TypeOK, RateLimit
  <2>. QED BY <2>1, <2>2 DEF Moves, Arrive, Middleware, Peek, Auth, RateLimit, Enter, Shed,
                             DocsAuthorize, Release, Observe, Handle, Panic
<1>. QED BY <1>1, <1>2, <1>3, <1>4, <1>5, <1>6 DEF TypeOK

(* A step of request r leaves what the invariant says of the others alone. *)
LEMMA StepAnswers ==
  ASSUME IInv, NEW r \in Requests, Moves(r)
  PROVE  Routed' /\ Silent' /\ Refused'
<1>1. /\ who' = who
      /\ \A q \in Requests \ {r} : pc'[q] = pc[q] /\ answer'[q] = answer[q]
  BY DEF IInv, TypeOK, Moves, Arrive, Middleware, Peek, Auth, RateLimit, Enter, Shed,
         DocsAuthorize, Release, Observe, Handle, Panic, Unwind, Reject, Go, Say
<1> DEFINE Mine == /\ pc'[r] \in {"auth", "rate"} => who[r].route # "docs"
                   /\ pc'[r] \in {"rate", "queue", "docs", "unwind"} => who[r].route # "metrics"
                   /\ pc'[r] = "docs" => who[r].route = "docs"
                   /\ pc'[r] \in {"idle", "peek", "auth", "rate", "queue", "docs", "handle"}
                        => answer'[r] = "none"
                   /\ ~ Authorised(r) =>
                        /\ pc'[r] \notin {"rate", "handle"}
                        /\ pc'[r] = "queue" => who[r].route = "docs"
                        /\ pc'[r] \in {"unwind", "observe", "gone"} => answer'[r] # "none"
                        /\ answer'[r] \notin {"ok", "fault", "timeout", "panicked"}
<1>2. Mine
  <2>0. /\ who[r].route \in Routes
        /\ pc \in [Requests -> Stages] /\ answer \in [Requests -> Answers]
    BY DEF IInv, TypeOK, Callers
  <2>1. CASE Arrive(r) \/ Peek(r) \/ Shed(r) \/ Enter(r)
    BY <2>0, <2>1 DEF IInv, Routed, Silent, Refused, Routes, Go, Say, Reject,
                      Arrive, Peek, Shed, Enter, Authorised
  <2>2. CASE Auth(r) \/ RateLimit(r)
    BY <2>0, <2>2 DEF IInv, Routed, Silent, Refused, Routes, Go, Say, Reject, Auth, RateLimit
  <2>3. CASE DocsAuthorize(r)
    BY <2>0, <2>3 DEF IInv, Routed, Silent, Refused, Routes, Go, Say, DocsAuthorize
  <2>4. CASE Handle(r) \/ Panic(r)
    BY <2>0, <2>4 DEF IInv, Routed, Silent, Refused, Routes, Go, Say, Handle, Panic, Unwind
  <2>5. CASE Release(r) \/ Observe(r)
    BY <2>0, <2>5 DEF IInv, Routed, Silent, Refused, Go, Say, Release, Observe
  <2>. QED BY <2>1, <2>2, <2>3, <2>4, <2>5 DEF Moves, Middleware
<1>3. \A q \in Requests : Authorised(q)' = Authorised(q)
  BY <1>1 DEF Authorised
<1>4. Routed'
  BY <1>1, <1>2 DEF IInv, Routed
<1>5. Silent'
  BY <1>1, <1>2 DEF IInv, Silent
<1>6. Refused'
  BY <1>1, <1>2, <1>3 DEF IInv, Refused
<1>. QED BY <1>4, <1>5, <1>6

(* Time touches neither the stages nor the answers.                        *)
LEMMA ClockInv ==
  ASSUME IInv, Refill \/ \E r \in Requests : Expire(r)
  PROVE  IInv'
<1>1. /\ who' = who /\ pc' = pc /\ answer' = answer /\ slots' = slots
      /\ inFlight' = inFlight /\ recorded' = recorded
  BY DEF Refill, Expire
<1>2. /\ done' \subseteq Requests
      /\ attempts' \in [Addrs -> 0 .. Budget]
      /\ rate' \in [Buckets -> 0 .. Burst]
  <2>1. CASE Refill
    BY <2>1, AdmissionAssumption DEF IInv, TypeOK, Refill
  <2>2. CASE \E r \in Requests : Expire(r)
    BY <2>2 DEF IInv, TypeOK, Expire
  <2>. QED BY <2>1, <2>2
<1>3. TypeOK'
  BY <1>1, <1>2 DEF IInv, TypeOK
<1>4. NoLeak' /\ LastWord' /\ Routed' /\ Silent' /\ Refused'
  BY <1>1 DEF IInv, NoLeak, Logged, LastWord, Holders, At, Routed, Silent, Refused, Authorised
<1>. QED BY <1>3, <1>4 DEF IInv

LEMMA NextInv == IInv /\ [Next]_vars => IInv'
<1> SUFFICES ASSUME IInv, [Next]_vars PROVE IInv'
  OBVIOUS
<1>1. ASSUME NEW r \in Requests, Moves(r) PROVE IInv'
  BY <1>1, StepTypeOK, StepNoLeak, StepLogged, StepAnswers DEF IInv
<1>2. CASE Refill \/ \E r \in Requests : Expire(r)
  BY <1>2, ClockInv
<1>3. CASE UNCHANGED vars
  BY <1>3 DEF vars, IInv, TypeOK, NoLeak, Logged, LastWord, Holders, At, Routed,
               Silent, Refused, Authorised
<1>. QED BY <1>1, <1>2, <1>3 DEF Next, Moves

(* The invariant holds of every behaviour of the admission chains.         *)
THEOREM AdmissionInvariant == Spec => []IInv
BY InitInv, NextInv, PTL DEF Spec

(* No path through the chains leaks a slot of the semaphore or a count of  *)
(* the gauge, and so at most Concurrency requests hold a slot.             *)
THEOREM NoSlotLeaks == Spec => []NoLeak
<1>1. IInv => NoLeak
  BY DEF IInv
<1>. QED BY <1>1, AdmissionInvariant, PTL

(* Whatever the interleaving, only a caller with a good key is worked for. *)
THEOREM WorkIsAuthorised == Spec => []OnlyAuthorisedWork
<1>1. IInv => OnlyAuthorisedWork
  BY DEF IInv, Refused, OnlyAuthorisedWork
<1>. QED BY <1>1, AdmissionInvariant, PTL

(* The budget of failed attempts is charged by every rejected key and by   *)
(* nothing else.                                                           *)
THEOREM OnlyFailuresCharge == Spec => ChargesExactlyFailures
<1> DEFINE Step(a) ==
      attempts'[a] < attempts[a] <=>
        /\ attempts[a] > 0
        /\ \E r \in Requests : /\ who[r].addr = a
                               /\ answer[r] = "none" /\ answer'[r] = "unauthorized"
<1>1. IInv /\ [Next]_vars => [\A a \in Addrs : Step(a)]_vars
  <2> SUFFICES ASSUME IInv, Next, NEW a \in Addrs PROVE Step(a)
    BY DEF vars
  <2>0. /\ attempts[a] \in Nat /\ answer \in [Requests -> Answers] /\ Budget \in Nat
        /\ \A r \in Requests : who[r].addr \in Addrs
        /\ attempts \in [Addrs -> 0 .. Budget]
    BY AdmissionAssumption DEF IInv, TypeOK, Callers
  <2>1. CASE Refill \/ \E r \in Requests : Expire(r)
    <3>1. answer' = answer /\ attempts'[a] \in {attempts[a], attempts[a] + 1}
      BY <2>0, <2>1 DEF Refill, Expire
    <3>. QED BY <2>0, <3>1
  <2>2. ASSUME NEW r \in Requests, Moves(r), attempts' = attempts,
               answer' = answer \/ \E v : v # "unauthorized" /\ Say(r, v)
        PROVE  Step(a)
    BY <2>0, <2>2 DEF Say
  <2>3. ASSUME NEW r \in Requests, Penalise(r), Say(r, "unauthorized"),
               ~ Authorised(r), answer[r] = "none"
        PROVE  Step(a)
    <3>1. ~ AuthOpen
      BY <2>3 DEF Authorised
    <3>2. \A q \in Requests : answer'[q] = IF q = r THEN "unauthorized" ELSE answer[q]
      BY <2>0, <2>3 DEF Say
    <3>3. attempts'[a] = IF who[r].addr = a /\ attempts[a] > 0 THEN attempts[a] - 1
                                                              ELSE attempts[a]
      BY <2>0, <2>3, <3>1 DEF Penalise
    <3>. QED BY <2>0, <2>3, <3>2, <3>3
  <2>4. ASSUME NEW r \in Requests, Auth(r) \/ DocsAuthorize(r) PROVE Step(a)
    <3>1. answer[r] = "none"
      BY <2>4 DEF IInv, Silent, Auth, DocsAuthorize
    <3>2. CASE Authorised(r)
      BY <2>2, <2>4, <3>2 DEF Auth, DocsAuthorize, Moves, Middleware
    <3>3. CASE ~ Authorised(r)
      BY <2>3, <2>4, <3>1, <3>3 DEF Auth, DocsAuthorize, Reject
    <3>. QED BY <3>2, <3>3
  <2>5. ASSUME NEW r \in Requests, Moves(r), ~ Auth(r), ~ DocsAuthorize(r) PROVE Step(a)
    <3>1. attempts' = attempts
      BY <2>5 DEF Moves, Arrive, Middleware, Peek, RateLimit, Enter, Shed, Release, Observe,
                  Handle, Panic
    <3>2. answer' = answer \/ \E v : v # "unauthorized" /\ Say(r, v)
      BY <2>5 DEF Moves, Arrive, Middleware, Peek, RateLimit, Enter, Shed, Release, Observe,
                  Handle, Panic, Reject
    <3>. QED BY <2>2, <2>5, <3>1, <3>2
  <2>. QED BY <2>1, <2>4, <2>5 DEF Next, Moves
<1>. QED BY <1>1, AdmissionInvariant, PTL DEF Spec, ChargesExactlyFailures

(* The types of the chains: no bucket or semaphore leaves its range.       *)
THEOREM AdmissionTypes == Spec => []TypeOK
<1>1. IInv => TypeOK
  BY DEF IInv
<1>. QED BY <1>1, AdmissionInvariant, PTL

=============================================================================
