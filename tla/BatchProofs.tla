---------------------------- MODULE BatchProofs ----------------------------
(***************************************************************************)
(* Proofs about Batch, for every batch size and every concurrency.         *)
(***************************************************************************)
EXTENDS Batch, FiniteSetTheorems, TLAPS

(* The parts of the invariant that the properties need and do not state.   *)

(* Exactly the items before the loop variable have been handed out.        *)
HandedOut == \A i \in Items : worker[i] = "none" <=> i >= next

(* A slot is filled when its worker has passed the render, not before.     *)
SlotFilled ==
  \A i \in Items : out[i] = "none" <=> worker[i] \in {"none", "ready", "rendering"}

(* Verdicts about the deadline exist only once the context is done.        *)
CutMeansDone == \A i \in Items : out[i] \in {"skipped", "interrupted"} => ctxDone

(* The dispatcher returns when the wait group is empty, and with results   *)
(* only if it handed out every item under a live context.                  *)
ReturnedClean ==
  /\ ret = "none" <=> main # "returned"
  /\ main = "returned" => wg = 0
  /\ main = "drain" => ctxDone
  /\ ret = "cancelled" => ctxDone
  /\ ret = "results" => next > N /\ ~ ctxDone /\ files = {i \in Items : out[i] = "ok"}

IInv == TypeOK /\ Counted /\ HandedOut /\ SlotFilled /\ CutMeansDone /\ ReturnedClean
-----------------------------------------------------------------------------
LEMMA Sizes == N \in Nat /\ N > 0 /\ Tickets \in Nat /\ Tickets > 0 /\ Tickets <= N
BY BatchAssumption DEF Tickets

LEMMA InFinite ==
  ASSUME NEW S
  PROVE  IsFiniteSet(In(S)) /\ Cardinality(In(S)) \in Nat
<1>1. IsFiniteSet(Items)
  BY Sizes, FS_Interval DEF Items
<1>. QED BY <1>1, FS_Subset, FS_CardinalityType DEF In

(* How moving one worker to another stage changes the number of workers in *)
(* a set of stages.                                                        *)
LEMMA CountMove ==
  ASSUME worker \in [Items -> Stages], NEW i \in Items, NEW to, NEW S,
         worker' = [worker EXCEPT ![i] = to]
  PROVE  /\ (worker[i] \in S <=> to \in S) => Cardinality(In(S)') = Cardinality(In(S))
         /\ worker[i] \in S /\ to \notin S => Cardinality(In(S)') = Cardinality(In(S)) - 1
         /\ worker[i] \notin S /\ to \in S => Cardinality(In(S)') = Cardinality(In(S)) + 1
<1> DEFINE A == In(S)
           B == In(S)'
<1>0. \A j \in Items : worker'[j] = IF j = i THEN to ELSE worker[j]
  OBVIOUS
<1>1. ASSUME worker[i] \in S <=> to \in S PROVE Cardinality(B) = Cardinality(A)
  <2>1. B = A
    BY <1>0, <1>1 DEF In
  <2>. QED BY <2>1
<1>2. ASSUME worker[i] \in S, to \notin S PROVE Cardinality(B) = Cardinality(A) - 1
  <2>1. B = A \ {i} /\ i \in A
    BY <1>0, <1>2 DEF In
  <2>2. IsFiniteSet(A)
    BY InFinite
  <2> HIDE DEF A, B
  <2>3. Cardinality(A \ {i}) = Cardinality(A) - 1
    BY <2>1, <2>2, FS_RemoveElement
  <2>. QED BY <2>1, <2>3
<1>3. ASSUME worker[i] \notin S, to \in S PROVE Cardinality(B) = Cardinality(A) + 1
  <2>1. B = A \cup {i} /\ i \notin A
    BY <1>0, <1>3 DEF In
  <2>2. IsFiniteSet(A)
    BY InFinite
  <2> HIDE DEF A, B
  <2>3. Cardinality(A \cup {i}) = Cardinality(A) + 1
    BY <2>1, <2>2, FS_AddElement
  <2>. QED BY <2>1, <2>3
<1>. QED BY <1>1, <1>2, <1>3

LEMMA InitInv == Init => IInv
<1> SUFFICES ASSUME Init PROVE IInv
  OBVIOUS
<1>1. TypeOK
  <2>1. 0 \in 0 .. Tickets /\ 0 \in 0 .. N /\ 1 \in 1 .. N + 1
    BY Sizes
  <2>. QED BY <2>1 DEF Init, TypeOK, Stages, Verdicts
<1>2. Counted
  <2>1. In(Holding) = {} /\ In(Present) = {}
    BY DEF Init, In, Holding, Present
  <2>. QED BY <2>1, FS_EmptySet DEF Init, Counted
<1>3. HandedOut /\ SlotFilled /\ CutMeansDone /\ ReturnedClean
  BY DEF Init, HandedOut, SlotFilled, CutMeansDone, ReturnedClean, Items
<1>. QED BY <1>1, <1>2, <1>3 DEF IInv
-----------------------------------------------------------------------------
(* The invariant step: first the actions of the dispatcher.                *)

LEMMA CancelInv == IInv /\ Cancel => IInv'
BY DEF IInv, Cancel, TypeOK, Counted, In, HandedOut, SlotFilled, CutMeansDone, ReturnedClean

LEMMA DispatchInv == IInv /\ Dispatch => IInv'
<1> SUFFICES ASSUME IInv, Dispatch PROVE IInv'
  OBVIOUS
<1>1. /\ next \in Items /\ worker \in [Items -> Stages] /\ worker[next] = "none"
      /\ tickets \in Nat /\ wg \in Nat /\ tickets < Tickets
  BY Sizes DEF IInv, Dispatch, TypeOK, HandedOut, Items
<1>2. worker' = [worker EXCEPT ![next] = "ready"]
  BY DEF Dispatch
<1>3. "none" \notin Present /\ "ready" \in Holding /\ "ready" \in Present /\ "none" \notin Holding
  BY DEF Present, Holding
<1>4. /\ Cardinality(In(Holding)') = tickets + 1
      /\ Cardinality(In(Present)') = wg + 1
  BY <1>1, <1>2, <1>3, CountMove DEF IInv, Counted
<1>5. wg + 1 <= N
  <2>1. In(Present)' \subseteq Items /\ IsFiniteSet(Items) /\ Cardinality(Items) = N
    BY Sizes, FS_Interval DEF In, Items
  <2>. QED BY <1>4, <2>1, FS_Subset
<1>6. TypeOK'
  BY <1>1, <1>2, <1>5, Sizes DEF IInv, Dispatch, TypeOK, Stages, Items
<1>7. Counted'
  BY <1>4 DEF Dispatch, Counted, Holding, Present
<1>8. HandedOut' /\ SlotFilled' /\ CutMeansDone' /\ ReturnedClean'
  BY <1>1, <1>2 DEF IInv, Dispatch, HandedOut, SlotFilled, CutMeansDone, ReturnedClean, Items
<1>. QED BY <1>6, <1>7, <1>8 DEF IInv

LEMMA StopDispatchInv == IInv /\ StopDispatch => IInv'
BY DEF IInv, StopDispatch, TypeOK, Counted, In, HandedOut, SlotFilled, CutMeansDone, ReturnedClean

LEMMA ReturnCancelledInv == IInv /\ ReturnCancelled => IInv'
BY DEF IInv, ReturnCancelled, TypeOK, Counted, In, HandedOut, SlotFilled, CutMeansDone, ReturnedClean

LEMMA ReturnInv == IInv /\ Return => IInv'
<1> SUFFICES ASSUME IInv, Return PROVE IInv'
  OBVIOUS
<1>1. TypeOK' /\ Counted' /\ HandedOut' /\ SlotFilled' /\ CutMeansDone'
  BY DEF IInv, Return, TypeOK, Counted, In, HandedOut, SlotFilled, CutMeansDone
<1>2. ReturnedClean'
  BY DEF IInv, Return, TypeOK, ReturnedClean
<1>. QED BY <1>1, <1>2 DEF IInv

(* Then those of a worker.  While one is present nothing was returned.     *)

LEMMA PresentMeansRunning ==
  ASSUME IInv, NEW i \in Items, worker[i] \in Present
  PROVE  main # "returned" /\ wg > 0
<1>1. i \in In(Present) /\ IsFiniteSet(In(Present)) /\ Cardinality(In(Present)) \in Nat
  BY InFinite DEF In
<1>2. wg \in Nat /\ wg # 0
  BY <1>1, FS_EmptySet DEF IInv, Counted
<1>. QED BY <1>2 DEF IInv, ReturnedClean

LEMMA StartInv == ASSUME NEW i \in Items PROVE IInv /\ Start(i) => IInv'
<1> SUFFICES ASSUME IInv, Start(i) PROVE IInv'
  OBVIOUS
<1>1. PICK to \in {"rendering", "wrote"} : worker' = [worker EXCEPT ![i] = to]
  BY DEF Start
<1>2. /\ worker \in [Items -> Stages] /\ worker[i] = "ready"
      /\ UNCHANGED <<tickets, wg>>
  BY DEF IInv, Start, TypeOK
<1>3. Counted'
  <2>1. "ready" \in Holding /\ "ready" \in Present /\ to \in Holding /\ to \in Present
    BY DEF Holding, Present
  <2>2. /\ Cardinality(In(Holding)') = Cardinality(In(Holding))
        /\ Cardinality(In(Present)') = Cardinality(In(Present))
    BY <1>1, <1>2, <2>1, CountMove
  <2>. QED BY <1>2, <2>2 DEF IInv, Counted, Holding, Present
<1>4. TypeOK' /\ HandedOut' /\ SlotFilled' /\ CutMeansDone'
  BY <1>2 DEF IInv, Start, TypeOK, Stages, Verdicts, HandedOut, SlotFilled, CutMeansDone
<1>5. ReturnedClean'
  BY <1>2, PresentMeansRunning DEF IInv, Start, ReturnedClean, Present, Holding
<1>. QED BY <1>3, <1>4, <1>5 DEF IInv
LEMMA FinishInv == ASSUME NEW i \in Items PROVE IInv /\ Finish(i) => IInv'
<1> SUFFICES ASSUME IInv, Finish(i) PROVE IInv'
  OBVIOUS
<1>1. worker' = [worker EXCEPT ![i] = "wrote"]
  BY DEF Finish
<1>2. /\ worker \in [Items -> Stages] /\ worker[i] = "rendering"
      /\ UNCHANGED <<tickets, wg>>
  BY DEF IInv, Finish, TypeOK
<1>3. Counted'
  <2>1. /\ "rendering" \in Holding /\ "rendering" \in Present
        /\ "wrote" \in Holding /\ "wrote" \in Present
    BY DEF Holding, Present
  <2>2. /\ Cardinality(In(Holding)') = Cardinality(In(Holding))
        /\ Cardinality(In(Present)') = Cardinality(In(Present))
    BY <1>1, <1>2, <2>1, CountMove
  <2>. QED BY <1>2, <2>2 DEF IInv, Counted, Holding, Present
<1>4. TypeOK' /\ HandedOut' /\ SlotFilled' /\ CutMeansDone'
  BY <1>2 DEF IInv, Finish, TypeOK, Stages, Verdicts, HandedOut, SlotFilled, CutMeansDone
<1>5. ReturnedClean'
  BY <1>2, PresentMeansRunning DEF IInv, Finish, ReturnedClean, Present, Holding
<1>. QED BY <1>3, <1>4, <1>5 DEF IInv

LEMMA ReleaseInv == ASSUME NEW i \in Items PROVE IInv /\ Release(i) => IInv'
<1> SUFFICES ASSUME IInv, Release(i) PROVE IInv'
  OBVIOUS
<1>1. worker' = [worker EXCEPT ![i] = "released"]
  BY DEF Release
<1>2. /\ worker \in [Items -> Stages] /\ worker[i] = "wrote"
      /\ tickets' = tickets - 1 /\ wg' = wg /\ tickets \in 0 .. Tickets
  BY DEF IInv, Release, TypeOK
<1>3. /\ "wrote" \in Holding /\ "wrote" \in Present
      /\ "released" \notin Holding /\ "released" \in Present
  BY DEF Holding, Present
<1>4. /\ Cardinality(In(Holding)') = Cardinality(In(Holding)) - 1
      /\ Cardinality(In(Present)') = Cardinality(In(Present))
  BY <1>1, <1>2, <1>3, CountMove
<1>5. Counted'
  BY <1>2, <1>4 DEF IInv, Counted, Holding, Present
<1>6. tickets' \in 0 .. Tickets
  <2>1. i \in In(Holding) /\ IsFiniteSet(In(Holding))
    BY <1>2, <1>3, InFinite DEF In
  <2>2. tickets # 0
    BY <2>1, FS_EmptySet DEF IInv, Counted
  <2>. QED BY <1>2, <2>2, Sizes
<1>7. TypeOK' /\ HandedOut' /\ SlotFilled' /\ CutMeansDone'
  BY <1>2, <1>6 DEF IInv, Release, TypeOK, Stages, HandedOut, SlotFilled, CutMeansDone
<1>8. ReturnedClean'
  BY DEF IInv, Release, ReturnedClean
<1>. QED BY <1>5, <1>7, <1>8 DEF IInv

LEMMA LeaveInv == ASSUME NEW i \in Items PROVE IInv /\ Leave(i) => IInv'
<1> SUFFICES ASSUME IInv, Leave(i) PROVE IInv'
  OBVIOUS
<1>1. worker' = [worker EXCEPT ![i] = "done"]
  BY DEF Leave
<1>2. /\ worker \in [Items -> Stages] /\ worker[i] = "released"
      /\ tickets' = tickets /\ wg' = wg - 1 /\ wg \in 0 .. N
  BY DEF IInv, Leave, TypeOK
<1>3. /\ "released" \notin Holding /\ "released" \in Present
      /\ "done" \notin Holding /\ "done" \notin Present
  BY DEF Holding, Present
<1>4. /\ Cardinality(In(Holding)') = Cardinality(In(Holding))
      /\ Cardinality(In(Present)') = Cardinality(In(Present)) - 1
  BY <1>1, <1>2, <1>3, CountMove
<1>5. Counted'
  BY <1>2, <1>4 DEF IInv, Counted, Holding, Present
<1>6. main # "returned" /\ wg > 0
  BY <1>2, <1>3, PresentMeansRunning
<1>7. TypeOK' /\ HandedOut' /\ SlotFilled' /\ CutMeansDone'
  BY <1>2, <1>6, Sizes DEF IInv, Leave, TypeOK, Stages, HandedOut, SlotFilled, CutMeansDone
<1>8. ReturnedClean'
  BY <1>6 DEF IInv, Leave, ReturnedClean
<1>. QED BY <1>5, <1>7, <1>8 DEF IInv

(* IInv is an invariant.                                                   *)
THEOREM BatchInvariant == Spec => []IInv
<1>1. IInv /\ [Next]_vars => IInv'
  <2>1. IInv /\ UNCHANGED vars => IInv'
    BY DEF IInv, vars, TypeOK, Counted, In, HandedOut, SlotFilled, CutMeansDone, ReturnedClean
  <2>. QED BY <2>1, CancelInv, DispatchInv, StopDispatchInv, ReturnCancelledInv, ReturnInv,
              StartInv, FinishInv, ReleaseInv, LeaveInv DEF Next, Main, Work
<1>. QED BY <1>1, InitInv, PTL DEF Spec

(* No goroutine of a batch outlives the call, for any number of items and  *)
(* tickets: the dispatcher returns on an empty wait group, and the group   *)
(* counts every worker that could still write.                             *)
THEOREM NoneOutlives == Spec => []NoWriterAfterReturn
<1>1. IInv => NoWriterAfterReturn
  <2> SUFFICES ASSUME IInv, main = "returned", NEW i \in Items
               PROVE  worker[i] \in {"none", "done"}
    BY DEF NoWriterAfterReturn
  <2>1. worker[i] \notin Present
    BY PresentMeansRunning
  <2>. QED BY <2>1 DEF IInv, TypeOK, Stages, Present, Holding
<1>. QED BY <1>1, BatchInvariant, PTL

(* An answered batch carries a verdict of its own for every item.          *)
THEOREM AnswersAreWhole == Spec => []AnswerIsWhole
<1>1. IInv => AnswerIsWhole
  <2> SUFFICES ASSUME IInv, ret = "results"
               PROVE  /\ \A i \in Items : out[i] \in {"ok", "failed"}
                      /\ files = {i \in Items : out[i] = "ok"}
    BY DEF AnswerIsWhole
  <2>1. next > N /\ ~ ctxDone /\ main = "returned" /\ files = {i \in Items : out[i] = "ok"}
    BY DEF IInv, ReturnedClean
  <2>2. ASSUME NEW i \in Items PROVE out[i] \in {"ok", "failed"}
    <3>1. worker[i] # "none"
      BY <2>1, Sizes DEF IInv, HandedOut, TypeOK, Items
    <3>2. worker[i] \notin Present
      BY <2>1, PresentMeansRunning
    <3>3. out[i] # "none"
      BY <3>1, <3>2 DEF IInv, SlotFilled, Present, Holding
    <3>. QED BY <2>1, <3>3 DEF IInv, TypeOK, Verdicts, CutMeansDone
  <2>. QED BY <2>1, <2>2
<1>. QED BY <1>1, BatchInvariant, PTL

(* The types of the batch, and its counters: a ticket and a place in the   *)
(* wait group for each worker that has not given them back, so that no     *)
(* path through a render loses one, for every size and concurrency.        *)
THEOREM TicketsBalance == Spec => []Balanced
<1>1. IInv => Balanced
  BY DEF IInv, Balanced
<1>. QED BY <1>1, BatchInvariant, PTL

(* The answer of Run is whole and final, for every number of items and of   *)
(* tickets: both of the above, of every state.                              *)
THEOREM AnswerIsFinal == Spec => []AnswerStands
<1>1. NoWriterAfterReturn /\ AnswerIsWhole => AnswerStands
  BY DEF AnswerStands
<1>. QED BY <1>1, NoneOutlives, AnswersAreWhole, PTL
-----------------------------------------------------------------------------
(* Refinement: a step of renderAll is a step of ParallelMap, or none.      *)
LEMMA RenderingBound ==
  ASSUME IInv
  PROVE  Cardinality(In({"rendering"})) <= Cardinality(In(Holding))
<1>1. In({"rendering"}) \subseteq In(Holding)
  BY DEF In, Holding
<1>. QED BY <1>1, InFinite, FS_Subset

(* A worker that looks at a live context begins its render: it holds a     *)
(* ticket and does not render yet, so less than Tickets do.                *)
LEMMA StartRefines ==
  ASSUME IInv, NEW i \in Items, Start(i)
  PROVE  [Promise!Next]_Promise!vars
<1> DEFINE busy == In({"rendering"})
<1>1. worker[i] = "ready" /\ worker \in [Items -> Stages] /\ ret = "none"
  BY PresentMeansRunning DEF Start, IInv, TypeOK, Present, Holding, ReturnedClean
<1>2. CASE ctxDone
  <2>1. In({"rendering"})' = busy
    BY <1>1, <1>2 DEF Start, In, Stages
  <2>2. Promise!Skip(i)
    BY <1>1, <1>2, <2>1 DEF Start, Promise!Skip, IInv, SlotFilled, In
  <2>. QED BY <2>2 DEF Promise!Next
<1>3. CASE ~ ctxDone
  <2>1. In({"rendering"})' = busy \cup {i} /\ i \notin busy
    BY <1>1, <1>3 DEF Start, In, Stages
  <2>2. busy \subseteq In(Holding) \ {i} /\ i \in In(Holding)
    BY <1>1 DEF In, Holding
  <2>3. Cardinality(busy) <= Cardinality(In(Holding) \ {i})
    BY <2>2, InFinite, FS_Subset, FS_RemoveElement
  <2>4. Cardinality(In(Holding) \ {i}) = Cardinality(In(Holding)) - 1
    BY <2>2, InFinite, FS_RemoveElement
  <2>5. tickets = Cardinality(In(Holding)) /\ tickets <= Tickets
    BY Sizes DEF IInv, Counted, TypeOK
  <2>6. Cardinality(busy) < Tickets
    BY <2>3, <2>4, <2>5, InFinite, Sizes
  <2>7. Promise!Cardinality(busy) < Tickets
    BY <2>6 DEF Promise!Cardinality, Cardinality
  <2>8. Promise!Begin(i)
    BY <1>1, <1>3, <2>1, <2>7 DEF Start, Promise!Begin, IInv, SlotFilled
  <2>. QED BY <2>8 DEF Promise!Next
<1>. QED BY <1>2, <1>3

LEMMA FinishRefines ==
  ASSUME IInv, NEW i \in Items, Finish(i)
  PROVE  [Promise!Next]_Promise!vars
<1>1. worker[i] = "rendering" /\ worker \in [Items -> Stages]
  BY DEF Finish, IInv, TypeOK
<1>2. In({"rendering"})' = In({"rendering"}) \ {i} /\ i \in In({"rendering"})
  BY <1>1 DEF Finish, In, Stages
<1>3. Promise!End(i)
  BY <1>2 DEF Finish, Promise!End, Promise!Own
<1>. QED BY <1>3 DEF Promise!Next

(* The dispatcher answers when the wait group is empty; then nobody        *)
(* renders, and under a live context every slot has a verdict of its own.  *)
LEMMA ReturnRefines ==
  ASSUME IInv, Return \/ ReturnCancelled
  PROVE  [Promise!Next]_Promise!vars
<1>1. wg = 0 /\ ret = "none"
  BY DEF Return, ReturnCancelled, IInv, ReturnedClean
<1>2. \A i \in Items : worker[i] \notin Present
  BY <1>1, PresentMeansRunning
<1>3. In({"rendering"}) = {}
  BY <1>2 DEF In, Present, Holding
<1>4. In({"rendering"})' = In({"rendering"})
  BY DEF Return, ReturnCancelled, In
<1>5. CASE ctxDone \/ ReturnCancelled
  <2>1. ctxDone
    BY <1>5 DEF ReturnCancelled, IInv, ReturnedClean
  <2>2. Promise!Answer
    BY <1>1, <1>3, <1>4, <2>1 DEF Return, ReturnCancelled, Promise!Answer
  <2>. QED BY <2>2 DEF Promise!Next
<1>6. CASE ~ ctxDone /\ Return
  <2>1. ASSUME NEW i \in Items PROVE out[i] \in {"ok", "failed"}
    <3>1. worker[i] # "none"
      BY <1>6, Sizes DEF Return, IInv, HandedOut, TypeOK, Items
    <3>2. out[i] # "none"
      BY <3>1, <1>2 DEF IInv, SlotFilled, Present, Holding
    <3>. QED BY <1>6, <3>2 DEF IInv, TypeOK, Verdicts, CutMeansDone
  <2>2. Promise!Answer
    BY <1>1, <1>3, <1>4, <1>6, <2>1 DEF Return, Promise!Answer, Promise!Own
  <2>. QED BY <2>2 DEF Promise!Next
<1>. QED BY <1>5, <1>6

(* renderAll implements the parallel map, for every number of items and of *)
(* tickets and every interleaving of its goroutines: at most Tickets       *)
(* renders, one verdict an item, one answer after the last of them.        *)
THEOREM BatchImplementsMap == Spec => KeepsPromise
<1>1. Init => Promise!Init
  BY DEF Init, Promise!Init, In
<1>2. IInv /\ [Next]_vars => [Promise!Next]_Promise!vars
  <2> SUFFICES ASSUME IInv, [Next]_vars PROVE [Promise!Next]_Promise!vars
    OBVIOUS
  <2>1. CASE Cancel
    BY <2>1 DEF Cancel, Promise!Next, Promise!Leave, In
  <2>2. CASE Dispatch
    <3>1. worker \in [Items -> Stages] /\ next \in Items /\ worker[next] = "none"
      BY <2>2, Sizes DEF Dispatch, IInv, TypeOK, HandedOut, Items
    <3>2. In({"rendering"})' = In({"rendering"})
      BY <2>2, <3>1 DEF Dispatch, In, Stages
    <3>. QED BY <2>2, <3>2 DEF Dispatch, Promise!vars
  <2>3. CASE StopDispatch
    BY <2>3 DEF StopDispatch, Promise!vars, In
  <2>4. CASE Return \/ ReturnCancelled
    BY <2>4, ReturnRefines
  <2>5. ASSUME NEW i \in Items, Release(i) \/ Leave(i)
        PROVE  [Promise!Next]_Promise!vars
    <3>1. worker \in [Items -> Stages] /\ worker[i] \in {"wrote", "released"}
      BY <2>5 DEF Release, Leave, IInv, TypeOK
    <3>2. In({"rendering"})' = In({"rendering"})
      BY <2>5, <3>1 DEF Release, Leave, In, Stages
    <3>. QED BY <2>5, <3>2 DEF Release, Leave, Promise!vars
  <2>6. CASE UNCHANGED vars
    BY <2>6 DEF vars, Promise!vars, In
  <2>. QED BY <2>1, <2>2, <2>3, <2>4, <2>5, <2>6, StartRefines, FinishRefines DEF Next, Main, Work
<1>. QED BY <1>1, <1>2, BatchInvariant, PTL DEF Spec, KeepsPromise
=============================================================================
