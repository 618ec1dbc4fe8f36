------------------------------- MODULE Batch -------------------------------
(***************************************************************************)
(* renderAll and renderOne of internal/batch/batch.go: one goroutine walks *)
(* the items in order and starts a worker for each, a buffered channel of  *)
(* tickets bounds the workers in flight, a wait group tells when they are  *)
(* done, and every worker writes its own slot of the result.               *)
(*                                                                         *)
(* The dispatcher's `select` takes either ready branch, so a done context  *)
(* does not stop it while tickets are free.  A worker's deferred calls run *)
(* in reverse order: it frees its ticket, then leaves the wait group.      *)
(***************************************************************************)
EXTENDS Naturals, FiniteSets

CONSTANTS N,          \* number of items of the batch
          Concurrency \* RunOptions.Concurrency (BARQR_CONCURRENCY)

ASSUME BatchAssumption == /\ N \in Nat \ {0}
                          /\ Concurrency \in Nat \ {0}

Items   == 1 .. N
Tickets == IF Concurrency <= N THEN Concurrency ELSE N \* capacity of the channel

VARIABLES ctxDone, \* the request's deadline passed, or its client left
          main,    \* the dispatcher: "dispatch", "drain" or "returned"
          next,    \* the loop variable of the dispatcher
          tickets, \* tickets taken from the channel
          wg,      \* counter of the wait group
          worker,  \* where the goroutine of each item is
          out,     \* the slots
          files,   \* items that were given an archive entry
          ret      \* what renderAll returned

vars == <<ctxDone, main, next, tickets, wg, worker, out, files, ret>>

Stages   == {"none", "ready", "rendering", "wrote", "released", "done"}
Verdicts == {"none", "ok", "failed", "skipped", "interrupted"}
Holding  == {"ready", "rendering", "wrote"} \* stages that hold a ticket
Present  == Holding \cup {"released"}       \* stages the wait group counts
In(S)    == {i \in Items : worker[i] \in S}

Init ==
  /\ ctxDone = FALSE
  /\ main = "dispatch"
  /\ next = 1
  /\ tickets = 0
  /\ wg = 0
  /\ worker = [i \in Items |-> "none"]
  /\ out = [i \in Items |-> "none"]
  /\ files = {}
  /\ ret = "none"

Cancel ==
  /\ main # "returned" /\ ~ ctxDone
  /\ ctxDone' = TRUE
  /\ UNCHANGED <<main, next, tickets, wg, worker, out, files, ret>>
-----------------------------------------------------------------------------
(* The dispatcher.                                                         *)

Dispatch ==
  /\ main = "dispatch" /\ next <= N
  /\ tickets < Tickets
  /\ tickets' = tickets + 1
  /\ wg' = wg + 1
  /\ worker' = [worker EXCEPT ![next] = "ready"]
  /\ next' = next + 1
  /\ UNCHANGED <<ctxDone, main, out, files, ret>>

StopDispatch ==
  /\ main = "dispatch" /\ next <= N
  /\ ctxDone
  /\ main' = "drain"
  /\ UNCHANGED <<ctxDone, next, tickets, wg, worker, out, files, ret>>

ReturnCancelled ==
  /\ main = "drain"
  /\ wg = 0
  /\ main' = "returned"
  /\ ret' = "cancelled"
  /\ UNCHANGED <<ctxDone, next, tickets, wg, worker, out, files>>

(* Mutant: the context is not looked at again after the wait.              *)
BugReturn ==
  /\ main = "dispatch" /\ next > N
  /\ wg = 0
  /\ main' = "returned"
  /\ ret' = "results"
  /\ files' = {i \in Items : out[i] = "ok"}
  /\ UNCHANGED <<ctxDone, next, tickets, wg, worker, out>>

Return ==
  /\ main = "dispatch" /\ next > N
  /\ wg = 0
  /\ main' = "returned"
  /\ ret' = IF ctxDone THEN "cancelled" ELSE "results"
  /\ files' = IF ctxDone THEN files ELSE {i \in Items : out[i] = "ok"}
  /\ UNCHANGED <<ctxDone, next, tickets, wg, worker, out>>
-----------------------------------------------------------------------------
(* The worker of item i.                                                   *)

(* Mutants: a skipped item never reaches the deferred release, and a       *)
(* worker renders without looking at the context.                          *)
BugStartLeaks(i) ==
  /\ worker[i] = "ready"
  /\ \/ /\ ctxDone
        /\ worker' = [worker EXCEPT ![i] = "released"]
        /\ out' = [out EXCEPT ![i] = "skipped"]
     \/ /\ ~ ctxDone
        /\ worker' = [worker EXCEPT ![i] = "rendering"]
        /\ UNCHANGED out
  /\ UNCHANGED <<ctxDone, main, next, tickets, wg, files, ret>>

BugStartBlind(i) ==
  /\ worker[i] = "ready"
  /\ worker' = [worker EXCEPT ![i] = "rendering"]
  /\ UNCHANGED <<ctxDone, main, next, tickets, wg, out, files, ret>>

(* renderOne looks at the context once, before it calls the renderer.      *)
Start(i) ==
  /\ worker[i] = "ready"
  /\ \/ /\ ctxDone
        /\ worker' = [worker EXCEPT ![i] = "wrote"]
        /\ out' = [out EXCEPT ![i] = "skipped"]
     \/ /\ ~ ctxDone
        /\ worker' = [worker EXCEPT ![i] = "rendering"]
        /\ UNCHANGED out
  /\ UNCHANGED <<ctxDone, main, next, tickets, wg, files, ret>>

(* The renderer returns bytes; or an error, nothing at all, or a panic,    *)
(* all of which fail the item alone; or, the context being done, the       *)
(* error with which the pipeline gives up between two stages.              *)
Finish(i) ==
  /\ worker[i] = "rendering"
  /\ \E v \in {"ok", "failed", "interrupted"} :
       /\ v = "interrupted" => ctxDone
       /\ out' = [out EXCEPT ![i] = v]
  /\ worker' = [worker EXCEPT ![i] = "wrote"]
  /\ UNCHANGED <<ctxDone, main, next, tickets, wg, files, ret>>

(* Mutant: the ticket is not given back.                                   *)
BugRelease(i) ==
  /\ worker[i] = "wrote"
  /\ worker' = [worker EXCEPT ![i] = "released"]
  /\ UNCHANGED <<ctxDone, main, next, tickets, wg, out, files, ret>>

Release(i) ==
  /\ worker[i] = "wrote"
  /\ tickets' = tickets - 1
  /\ worker' = [worker EXCEPT ![i] = "released"]
  /\ UNCHANGED <<ctxDone, main, next, wg, out, files, ret>>

Leave(i) ==
  /\ worker[i] = "released"
  /\ wg' = wg - 1
  /\ worker' = [worker EXCEPT ![i] = "done"]
  /\ UNCHANGED <<ctxDone, main, next, tickets, out, files, ret>>

Work(i) == Start(i) \/ Finish(i) \/ Release(i) \/ Leave(i)
Main    == Dispatch \/ StopDispatch \/ ReturnCancelled \/ Return

Next == Cancel \/ Main \/ \E i \in Items : Work(i)

(* The Go scheduler runs every runnable goroutine, and a render, bounded   *)
(* by the canvas cap, ends.  Nothing makes the context be cancelled.       *)
Fairness == WF_vars(Main) /\ \A i \in Items : WF_vars(Work(i))

Spec == Init /\ [][Next]_vars /\ Fairness
-----------------------------------------------------------------------------
(* Type invariant: the channel holds at most its capacity.                 *)
TypeOK ==
  /\ ctxDone \in BOOLEAN
  /\ main \in {"dispatch", "drain", "returned"}
  /\ next \in 1 .. N + 1
  /\ tickets \in 0 .. Tickets
  /\ wg \in 0 .. N
  /\ worker \in [Items -> Stages]
  /\ out \in [Items -> Verdicts]
  /\ files \subseteq Items
  /\ ret \in {"none", "results", "cancelled"}

(* Neither the channel nor the wait group drifts from the workers it       *)
(* counts: a ticket is held from dispatch until the slot is written, on    *)
(* every path out of a render.                                             *)
Counted ==
  /\ tickets = Cardinality(In(Holding))
  /\ wg = Cardinality(In(Present))

(* Once renderAll has returned no goroutine of the batch is left to render *)
(* or to write a slot the packagers are reading.                           *)
NoWriterAfterReturn ==
  main = "returned" => \A i \in Items : worker[i] \in {"none", "done"}

(* A batch that is answered is whole: every item was rendered or failed of *)
(* itself, none was cut short by the deadline, and the archive has an      *)
(* entry for exactly the items that rendered.                              *)
AnswerIsWhole ==
  ret = "results" => /\ \A i \in Items : out[i] \in {"ok", "failed"}
                     /\ files = {i \in Items : out[i] = "ok"}

(* renderAll keeps the promise of ParallelMap: every step of its dispatcher *)
(* and its workers is a step, or none, of a parallel map.                   *)
Promise == INSTANCE ParallelMap WITH
             Width   <- Tickets,
             gone    <- ctxDone,
             busy    <- In({"rendering"}),
             verdict <- out,
             answer  <- ret
KeepsPromise == Promise!Init /\ [][Promise!Next]_Promise!vars

(* Whatever fails, panics or is cancelled, the batch returns.              *)
Returns == <>(main = "returned")

(* The channel and the wait group stay in their bounds and count exactly    *)
(* the workers that will give back what they hold (renderAll).              *)
Balanced == TypeOK /\ Counted

(* What Run hands to the packagers is whole and final: no goroutine is left *)
(* to write a slot, and no item of an answer was cut short.                 *)
AnswerStands == NoWriterAfterReturn /\ AnswerIsWhole
=============================================================================
