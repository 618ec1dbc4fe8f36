------------------------------ MODULE Process ------------------------------
(***************************************************************************)
(* One run of the binary (cmd/barqr/main.go): its command line, its        *)
(* configuration (module Config), and, for `serve`, the presets it boots   *)
(* with (module PresetLoad) and the server's life (module Lifecycle) up to *)
(* the exit status.  Until signal.NotifyContext a signal kills the process *)
(* and from then on it is the context that ends.                           *)
(***************************************************************************)
EXTENDS Config, PresetLoad, Lifecycle

CONSTANTS Commands,   \* command lines: [cmd, flag]
          Environs    \* environments

\* os.Environ is a list of key=value, and a value is a word (module Config).
ASSUME EnvironsAssumption == \A e \in Environs : e \in Seq([key : STRING, value : Seq(Tokens)])

VARIABLES args, environ,
          proc,      \* "args", "config", "presets", "serve" or "exited"
          code,      \* the exit status; 143 when a signal killed it
          shown,     \* <<key, value>> pairs that were printed
          errs,      \* what a refused configuration was refused for
          warned     \* the warnings that were given

ownVars     == <<args, environ, proc, code, shown, errs, warned>>
processVars == <<ownVars, presetVars>>

exitOK == 0
exitFailure == 1
exitUsage == 2
Running == 255
Killed == 143

ProcessInit ==
  /\ args \in Commands /\ environ \in Environs
  /\ proc = "args" /\ code = Running /\ shown = {} /\ errs = {} /\ warned = {}
  /\ PresetInit /\ Init

BugLeave(status) == proc' = "exited" /\ UNCHANGED code
Leave(status) == proc' = "exited" /\ code' = status

\* run, and parseFlags for the two commands that take flags; what follows the
\* flags is not looked at.
Command ==
  /\ proc = "args"
  /\ CASE args.cmd \in {"version", "help"} -> Leave(exitOK)
       [] args.cmd \in {"serve", "check-config"} ->
            CASE args.flag = "help"      -> Leave(exitOK)
              [] args.flag = "none"      -> proc' = "config" /\ UNCHANGED code
              [] args.flag = "print" /\ args.cmd = "serve" -> proc' = "config" /\ UNCHANGED code
              [] OTHER                   -> Leave(exitUsage)
       [] OTHER -> Leave(exitUsage)
  /\ UNCHANGED <<args, environ, shown, errs, warned, presetVars, vars>>

\* cmdServe and cmdCheckConfig: a configuration is refused whole, printed with
\* its secrets out, or served; `serve --print-config` drops the warnings.
Configure ==
  /\ proc = "config"
  /\ \E e \in {Errors(environ)} :
       /\ errs' = e
       /\ warned' = IF e = {} /\ args.flag = "print" /\ args.cmd = "serve" THEN {}
                    ELSE Warnings(environ)
       /\ IF e # {} THEN Leave(exitFailure) /\ shown' = Quoted(environ, e)
          ELSE IF args.cmd = "check-config" \/ args.flag = "print"
          THEN Leave(exitOK) /\ shown' = Redacted(environ)
          ELSE proc' = "presets" /\ UNCHANGED <<code, shown>>
  /\ UNCHANGED <<args, environ, presetVars, vars>>

\* New: the presets are loaded before the port is bound.  A directory that
\* cannot be used costs its presets and not the boot.
LoadPresets == proc = "presets" /\ Load /\ UNCHANGED <<ownVars, vars>>

Ready ==
  /\ proc = "presets" /\ pc \in {"loaded", "failed"}
  /\ proc' = "serve"
  /\ UNCHANGED <<args, environ, code, shown, errs, warned, presetVars, vars>>

Serve == proc = "serve" /\ (Main \/ Http \/ GraceOver \/ SweeperStops) /\ UNCHANGED processVars

BugExit ==
  /\ proc = "serve" /\ main = "returned"
  /\ Leave(exitOK)
  /\ UNCHANGED <<args, environ, shown, errs, warned, presetVars, vars>>
\* The error of Run is the exit status; the sweeper goes with the process.
Exit ==
  /\ proc = "serve" /\ main = "returned"
  /\ Leave(IF ret = "error" THEN exitFailure ELSE exitOK)
  /\ UNCHANGED <<args, environ, shown, errs, warned, presetVars, vars>>

Kill ==
  /\ proc \in {"args", "config"} /\ Leave(Killed)
  /\ UNCHANGED <<args, environ, shown, errs, warned, presetVars, vars>>

World ==
  \/ /\ proc \in {"presets", "serve"} /\ Signal
     /\ UNCHANGED processVars
  \/ /\ proc = "presets" /\ Change
     /\ UNCHANGED <<ownVars, vars>>
  \/ /\ proc = "serve"
     /\ AcceptFails \/ \E c \in Conns : Connect(c) \/ Request(c) \/ Finish(c) \/ Hangup(c)
     /\ UNCHANGED processVars

ProcessNext == Command \/ Configure \/ LoadPresets \/ Ready \/ Serve \/ Exit \/ Kill \/ World

\* The goroutines of one process run, as in Lifecycle; nobody need signal.
ProcessSpec ==
  /\ ProcessInit /\ [][ProcessNext]_<<processVars, vars>>
  /\ WF_<<processVars, vars>>(Command \/ Configure \/ LoadPresets \/ Ready \/ Exit)
  /\ WF_<<processVars, vars>>(proc = "serve" /\ Main /\ UNCHANGED processVars)
  /\ WF_<<processVars, vars>>(proc = "serve" /\ Http /\ UNCHANGED processVars)
  /\ WF_<<processVars, vars>>(proc = "serve" /\ GraceOver /\ UNCHANGED processVars)

-----------------------------------------------------------------------------
Says(key) == Effective(environ, key)

\* The types; the server's own state moves only while it serves.
ProcessTypeOK ==
  /\ proc \in {"args", "config", "presets", "serve", "exited"}
  /\ code \in {exitOK, exitFailure, exitUsage, Killed, Running}
  /\ code = Running <=> proc # "exited"
  /\ proc \in {"args", "config", "presets"} => main = "bind"
  /\ proc \in {"args", "config"} => pc = "boot"

\* "barqr would rather fail to boot": whatever the environment says, in any
\* order and with any blanks, a port that others can reach opens only behind
\* keys or behind the operator's acknowledgement (checkSecurity).
DenyByDefault ==
  listener = "open" =>
    \/ TrimSpace(Says("BIND")) \in LoopbackHosts
    \/ /\ TrimSpace(Says("AUTH_MODE")) = <<"required">>
       /\ \E i \in DOMAIN Says("API_KEYS") : Says("API_KEYS")[i] \notin {Blank, Comma}
    \/ TrimSpace(Says("I_UNDERSTAND_OPEN_BIND")) \in {<<"true">>, <<"1">>}

\* "The operator sees the whole list at once": a refusal names every variable
\* that would be refused if it stood alone, and no other (Load).
WholeListReported ==
  (errs # {} /\ \E k \in Known : k \in errs) =>
    errs = {k \in Known : ~Value(Restrict(environ, Sets(environ, k)), k).ok}

\* A size that is accepted is the one that was written: the number times its
\* unit, never what is left of it after the word overflows (bytes).
ExactSizes ==
  proc = "serve" => \A k \in Kinds.bytes :
    LET w   == Says(k)
        ink == {i \in DOMAIN w : w[i] # Blank}
    IN  \E i, j \in ink :
          /\ i <= j /\ ink = {i, j}
          /\ Value(environ, k).value = NumberOf[w[i]] * (IF i = j THEN 1 ELSE Units[w[j]])

\* Nothing the process prints holds an API key, whatever the key is: where a
\* secret is shown it is always the same word (Redacted, fail).
SecretsKept ==
  \A p \in shown : p[1] \in Secret => p[2] = <<"redacted">>

\* The exit status tells what happened: a server that ends with 0 was told to
\* and drained or cut every connection; with 1 it never bound, or its listener
\* failed (cmdServe).
ExitTells ==
  (proc = "exited" /\ main = "returned") =>
    /\ code = exitOK      => ctxDone /\ \A c \in Conns : conn[c] \in {"none", "closed", "cut"}
    /\ code = exitFailure => outcome = "error" \/ listener = "none"

\* Every command but a server left alone ends, and a signal ends that one too,
\* whatever its clients do (run, Serve).
CommandEnds ==
  /\ <>(proc \in {"serve", "exited"})
  /\ (ctxDone ~> proc = "exited")

\* What the process says of its settings is true: a refusal names all that is
\* wrong, a size is the one written, and no key is shown (Load, Redacted).
SettingsTold == WholeListReported /\ ExactSizes /\ SecretsKept

\* Nothing hangs: a command ends, a listing is gone through, and a signal ends a
\* server whose handlers never do (run, Load, Serve).
AllEnds == CommandEnds /\ Boots /\ SignalStops

\* The types of the process and of the two parts it runs.
TypesOK == ProcessTypeOK /\ PresetTypeOK /\ TypeOK
=============================================================================
