------------------------------ MODULE Lifecycle ------------------------------
(***************************************************************************)
(* Server.Run and Server.Serve of internal/httpapi/server.go, from binding *)
(* the port to the return that ends `barqr serve`: the goroutine of Serve, *)
(* the one it starts for the sweeper, the one it starts for net/http, and  *)
(* the connections net/http holds.                                         *)
(*                                                                         *)
(* net/http is external.  Of its Server this module keeps: Serve closes    *)
(* its listener when it returns; Shutdown closes the listener, waits for   *)
(* Serve, and then closes idle connections until none is left or its       *)
(* context is done; Close cuts every connection; after either, a handler   *)
(* that ends takes its connection with it.                                 *)
(***************************************************************************)
EXTENDS Naturals

CONSTANT Conns \* the connections clients open during a run

VARIABLES ctxDone,  \* SIGINT or SIGTERM came
          ready,    \* Server.ready
          main,     \* where Serve is
          ret,      \* what Run returned: "nil" or "error"
          sweeper,  \* the sweeper's goroutine
          accept,   \* the goroutine of http.Server.Serve
          outcome,  \* what http.Server.Serve returned, ErrServerClosed being "nil"
          serveErr, \* the channel, of capacity one
          listener, \* "none", "open" or "closed"
          shut,     \* http.Server.inShutdown
          graceOver, \* drainCtx is done
          conn      \* the connections

vars == <<ctxDone, ready, main, ret, sweeper, accept, outcome, serveErr,
          listener, shut, graceOver, conn>>

Results == {"none", "nil", "error"}

Init ==
  /\ ctxDone = FALSE /\ ready = FALSE
  /\ main = "bind" /\ ret = "none"
  /\ sweeper = "none"
  /\ accept = "none" /\ outcome = "none" /\ serveErr = "none"
  /\ listener = "none" /\ shut = FALSE /\ graceOver = FALSE
  /\ conn = [c \in Conns |-> "none"]

Signal ==
  /\ ~ ctxDone
  /\ ctxDone' = TRUE
  /\ UNCHANGED <<ready, main, ret, sweeper, accept, outcome, serveErr, listener, shut,
                 graceOver, conn>>
-----------------------------------------------------------------------------
(* The goroutine of Serve.                                                 *)

Bind ==
  /\ main = "bind"
  /\ main' = "serving"
  /\ ready' = TRUE
  /\ listener' = "open"
  /\ sweeper' = "running"
  /\ accept' = "starting"
  /\ UNCHANGED <<ctxDone, ret, outcome, serveErr, shut, graceOver, conn>>

BindFails ==
  /\ main = "bind"
  /\ main' = "returned" /\ ret' = "error"
  /\ UNCHANGED <<ctxDone, ready, sweeper, accept, outcome, serveErr, listener, shut,
                 graceOver, conn>>

(* The select: either branch when both are ready.                          *)
ServeStopped ==
  /\ main = "serving" /\ serveErr # "none"
  /\ ready' = FALSE
  /\ main' = "returned" /\ ret' = serveErr
  /\ serveErr' = "none"
  /\ UNCHANGED <<ctxDone, sweeper, accept, outcome, listener, shut, graceOver, conn>>

ContextDone ==
  /\ main = "serving" /\ ctxDone
  /\ ready' = FALSE
  /\ main' = "drain"
  /\ UNCHANGED <<ctxDone, ret, sweeper, accept, outcome, serveErr, listener, shut,
                 graceOver, conn>>

BeginShutdown ==
  /\ main = "drain"
  /\ shut' = TRUE
  /\ listener' = "closed"
  /\ main' = "shutdown"
  /\ UNCHANGED <<ctxDone, ready, ret, sweeper, accept, outcome, serveErr, graceOver, conn>>

GraceOver ==
  /\ main \in {"drain", "shutdown"} /\ ~ graceOver
  /\ graceOver' = TRUE
  /\ UNCHANGED <<ctxDone, ready, main, ret, sweeper, accept, outcome, serveErr, listener,
                 shut, conn>>

ShutdownTimesOut ==
  /\ main = "shutdown" /\ accept # "accepting"
  /\ graceOver
  /\ main' = "close"
  /\ UNCHANGED <<ctxDone, ready, ret, sweeper, accept, outcome, serveErr, listener, shut,
                 graceOver, conn>>

ShutdownDrained ==
  /\ main = "shutdown" /\ accept # "accepting"
  /\ \A c \in Conns : conn[c] \notin {"idle", "active"}
  /\ main' = "await"
  /\ UNCHANGED <<ctxDone, ready, ret, sweeper, accept, outcome, serveErr, listener, shut,
                 graceOver, conn>>

(* Mutant: when the grace is over Serve goes on without cutting anyone.    *)
BugClose ==
  /\ main = "close"
  /\ main' = "await"
  /\ UNCHANGED <<ctxDone, ready, ret, sweeper, accept, outcome, serveErr, listener, shut,
                 graceOver, conn>>

Close ==
  /\ main = "close"
  /\ conn' = [c \in Conns |-> IF conn[c] = "active" THEN "cut"
                              ELSE IF conn[c] = "idle" THEN "closed" ELSE conn[c]]
  /\ main' = "await"
  /\ UNCHANGED <<ctxDone, ready, ret, sweeper, accept, outcome, serveErr, listener, shut,
                 graceOver>>

Return ==
  /\ main = "await" /\ serveErr # "none"
  /\ main' = "returned" /\ ret' = serveErr
  /\ serveErr' = "none"
  /\ UNCHANGED <<ctxDone, ready, sweeper, accept, outcome, listener, shut, graceOver, conn>>
-----------------------------------------------------------------------------
(* The other goroutines.                                                   *)

SweeperStops ==
  /\ sweeper = "running" /\ ctxDone
  /\ sweeper' = "stopped"
  /\ UNCHANGED <<ctxDone, ready, main, ret, accept, outcome, serveErr, listener, shut,
                 graceOver, conn>>

(* Serve finds the server shut, before it starts or when its listener is   *)
(* closed; or Accept fails.                                                *)
AcceptLoop ==
  /\ accept \in {"starting", "accepting"}
  /\ \/ /\ ~ shut /\ accept = "starting"
        /\ accept' = "accepting"
        /\ UNCHANGED <<outcome, listener>>
     \/ /\ shut
        /\ accept' = "ended" /\ outcome' = "nil" /\ listener' = "closed"
  /\ UNCHANGED <<ctxDone, ready, main, ret, sweeper, serveErr, shut, graceOver, conn>>

AcceptFails ==
  /\ accept = "accepting" /\ ~ shut
  /\ accept' = "ended" /\ outcome' = "error" /\ listener' = "closed"
  /\ UNCHANGED <<ctxDone, ready, main, ret, sweeper, serveErr, shut, graceOver, conn>>

(* Mutant: the shutdown's own ErrServerClosed is not filtered out, and is  *)
(* not sent either.                                                        *)
BugSend ==
  /\ accept = "ended" /\ serveErr = "none"
  /\ serveErr' = IF outcome = "nil" THEN "none" ELSE outcome
  /\ accept' = "sent"
  /\ UNCHANGED <<ctxDone, ready, main, ret, sweeper, outcome, listener, shut, graceOver, conn>>

Send ==
  /\ accept = "ended" /\ serveErr = "none"
  /\ serveErr' = outcome
  /\ accept' = "sent"
  /\ UNCHANGED <<ctxDone, ready, main, ret, sweeper, outcome, listener, shut, graceOver, conn>>
-----------------------------------------------------------------------------
(* Connections.                                                            *)

Others == <<ctxDone, ready, main, ret, sweeper, accept, outcome, serveErr, listener, shut,
            graceOver>>

Connect(c) ==
  /\ accept = "accepting" /\ listener = "open"
  /\ conn[c] = "none"
  /\ conn' = [conn EXCEPT ![c] = "idle"]
  /\ UNCHANGED Others

Request(c) ==
  /\ main # "returned" /\ conn[c] = "idle"
  /\ conn' = [conn EXCEPT ![c] = "active"]
  /\ UNCHANGED Others

Finish(c) ==
  /\ main # "returned" /\ conn[c] = "active"
  /\ conn' = [conn EXCEPT ![c] = IF shut THEN "closed" ELSE "idle"]
  /\ UNCHANGED Others

(* The client hangs up, or Shutdown's poll finds the connection idle.      *)
Hangup(c) ==
  /\ conn[c] = "idle"
  /\ conn' = [conn EXCEPT ![c] = "closed"]
  /\ UNCHANGED Others

Main == \/ Bind \/ BindFails \/ ServeStopped \/ ContextDone \/ BeginShutdown
        \/ ShutdownTimesOut \/ ShutdownDrained \/ Close \/ Return
Http == AcceptLoop \/ Send

Next == \/ Signal \/ Main \/ GraceOver \/ SweeperStops \/ Http \/ AcceptFails
        \/ \E c \in Conns : Connect(c) \/ Request(c) \/ Finish(c) \/ Hangup(c)

(* Goroutines run and the timer of drainCtx fires.  No handler need end,   *)
(* no client need hang up, and nothing makes the signal come.              *)
Fairness == WF_vars(Main) /\ WF_vars(Http) /\ WF_vars(GraceOver) /\ WF_vars(SweeperStops)

Spec == Init /\ [][Next]_vars /\ Fairness
-----------------------------------------------------------------------------
(* Type invariant; Run has a result exactly when it has returned.          *)
TypeOK ==
  /\ ctxDone \in BOOLEAN /\ ready \in BOOLEAN
  /\ shut \in BOOLEAN /\ graceOver \in BOOLEAN
  /\ main \in {"bind", "serving", "drain", "shutdown", "close", "await", "returned"}
  /\ sweeper \in {"none", "running", "stopped"}
  /\ accept \in {"none", "starting", "accepting", "ended", "sent"}
  /\ ret \in Results /\ outcome \in Results /\ serveErr \in Results
  /\ ret = "none" <=> main # "returned"
  /\ listener \in {"none", "open", "closed"}
  /\ conn \in [Conns -> {"none", "idle", "active", "closed", "cut"}]

(* The retreat is in order: readiness is withdrawn before the port is      *)
(* closed, and a request is cut off only when the grace is over.           *)
RetreatsInOrder ==
  /\ shut => ~ ready
  /\ (\E c \in Conns : conn[c] = "cut") => graceOver

(* A return of nil leaves no connection behind: each was drained, or cut.  *)
NilMeansDrained ==
  ret = "nil" => \A c \in Conns : conn[c] \in {"none", "closed", "cut"}

(* The signal ends the process, though no handler ever ends.               *)
SignalStops == ctxDone ~> main = "returned"

(* The server leaves in order, from the first step of a shutdown to its     *)
(* return: readiness before the port, the grace before any cut, and nobody  *)
(* left behind (Serve).                                                     *)
OrderlyEnd == RetreatsInOrder /\ NilMeansDrained
=============================================================================
