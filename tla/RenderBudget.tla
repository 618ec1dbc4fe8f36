---------------------------- MODULE RenderBudget ----------------------------
(***************************************************************************)
(* The two bounds on renders, one inside the other: withConcurrency lets   *)
(* Concurrency requests past the semaphore, and handleBatch and            *)
(* handleSheet give batch.Run the same number as the width of its own      *)
(* channel of tickets.  A request that renders one code is a batch of one. *)
(* Inside a request only what ParallelMap promises of Batch is kept.       *)
(***************************************************************************)
EXTENDS Naturals, FiniteSets

CONSTANTS Requests,    \* the requests of a run
          Concurrency, \* BARQR_CONCURRENCY
          MaxItems     \* BARQR_MAX_BATCH_ITEMS

ASSUME BudgetAssumption == /\ Concurrency \in Nat \ {0}
                           /\ MaxItems \in Nat \ {0}

VARIABLES stage,   \* "queue", "slot" or "gone"
          todo,    \* items a request has not handed out yet
          running, \* renders a request has in flight
          done,    \* requests whose context is done
          slots    \* the server's semaphore

budgetVars == <<stage, todo, running, done, slots>>

BudgetInit ==
  /\ stage = [r \in Requests |-> "queue"]
  /\ todo \in [Requests -> 1 .. MaxItems]
  /\ running = [r \in Requests |-> 0]
  /\ done = {}
  /\ slots = 0

Cancel(r) ==
  /\ stage[r] # "gone" /\ r \notin done
  /\ done' = done \cup {r}
  /\ UNCHANGED <<stage, todo, running, slots>>

Acquire(r) ==
  /\ stage[r] = "queue"
  /\ slots < Concurrency
  /\ slots' = slots + 1
  /\ stage' = [stage EXCEPT ![r] = "slot"]
  /\ UNCHANGED <<todo, running, done>>

Shed(r) ==
  /\ stage[r] = "queue"
  /\ r \in done
  /\ stage' = [stage EXCEPT ![r] = "gone"]
  /\ UNCHANGED <<todo, running, done, slots>>

Begin(r) ==
  /\ stage[r] = "slot"
  /\ todo[r] > 0 /\ r \notin done
  /\ running[r] < Concurrency
  /\ todo' = [todo EXCEPT ![r] = @ - 1]
  /\ running' = [running EXCEPT ![r] = @ + 1]
  /\ UNCHANGED <<stage, done, slots>>

(* An item whose worker finds the context done is not rendered.            *)
Skip(r) ==
  /\ stage[r] = "slot"
  /\ todo[r] > 0 /\ r \in done
  /\ todo' = [todo EXCEPT ![r] = @ - 1]
  /\ UNCHANGED <<stage, running, done, slots>>

End(r) ==
  /\ running[r] > 0
  /\ running' = [running EXCEPT ![r] = @ - 1]
  /\ UNCHANGED <<stage, todo, done, slots>>

(* Mutants: a cancelled batch is answered at once, with its workers still  *)
(* rendering; and the slot is not given back.                              *)
BugAnswer(r) ==
  /\ stage[r] = "slot"
  /\ r \in done \/ (todo[r] = 0 /\ running[r] = 0)
  /\ slots' = slots - 1
  /\ stage' = [stage EXCEPT ![r] = "gone"]
  /\ UNCHANGED <<todo, running, done>>

BugAnswerKeeps(r) ==
  /\ stage[r] = "slot"
  /\ running[r] = 0
  /\ r \in done \/ todo[r] = 0
  /\ stage' = [stage EXCEPT ![r] = "gone"]
  /\ UNCHANGED <<todo, running, done, slots>>

Answer(r) ==
  /\ stage[r] = "slot"
  /\ running[r] = 0
  /\ r \in done \/ todo[r] = 0
  /\ slots' = slots - 1
  /\ stage' = [stage EXCEPT ![r] = "gone"]
  /\ UNCHANGED <<todo, running, done>>

Step(r) == Acquire(r) \/ Shed(r) \/ Begin(r) \/ Skip(r) \/ End(r) \/ Answer(r)

BudgetNext == \E r \in Requests : Cancel(r) \/ Step(r)

(* Runnable goroutines run and a render ends.  No deadline is relied upon. *)
BudgetFairness == \A r \in Requests : WF_budgetVars(Step(r))

BudgetSpec == BudgetInit /\ [][BudgetNext]_budgetVars /\ BudgetFairness
-----------------------------------------------------------------------------
(* The renders of the process in flight, numbered within their request.    *)
InFlight == {t \in Requests \X (1 .. MaxItems) : t[2] <= running[t[1]]}

Renders == Cardinality(InFlight)

(* Type invariant: no request has more renders in flight than tickets.     *)
BudgetTypeOK ==
  /\ stage \in [Requests -> {"queue", "slot", "gone"}]
  /\ todo \in [Requests -> 0 .. MaxItems]
  /\ running \in [Requests -> 0 .. Concurrency]
  /\ done \subseteq Requests
  /\ slots \in 0 .. Concurrency

(* The renders of the whole process, batches and single codes together,    *)
(* are bounded, by the square of the setting; and each of them belongs to  *)
(* a request that still holds its slot.                                    *)
RendersBounded ==
  /\ Renders <= Concurrency * Concurrency
  /\ \A r \in Requests : running[r] > 0 => stage[r] = "slot"

(* However many batches are ahead of it, a request is answered.            *)
EveryoneAnswered == <>(\A r \in Requests : stage[r] = "gone")

(* handleBatch: a batch "renders inside the same concurrency budget every  *)
(* other request shares"; docs/DEPLOY.md sizes memory by BARQR_CONCURRENCY *)
(* renders in flight.                                                      *)
RendersWithinBudget == Renders <= Concurrency
=============================================================================
