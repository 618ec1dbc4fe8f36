----------------------------- MODULE MCProcess -----------------------------
(* Command lines of every kind; environments that set one, two or three    *)
(* variables to good, bad, padded and repeated values.  Sizes are on a     *)
(* scale of 16 bits, with units of 16 and 256.                             *)
EXTENDS Process
CONSTANTS print, shop, door, noSlug
CONSTANTS c1, c2
MCConns == {c1, c2}

MCTokens == STRING
MCNumberOf == [t \in {"0", "1", "2", "7", "64", "129", "16385", "-1"} |->
  CASE t = "0" -> 0 [] t = "1" -> 1 [] t = "2" -> 2 [] t = "7" -> 7 [] t = "64" -> 64
    [] t = "129" -> 129 [] t = "16385" -> 16385 [] OTHER -> -1]
MCUnits == [u \in {"B", "K", "M"} |-> CASE u = "B" -> 1 [] u = "K" -> 16 [] OTHER -> 256]
MCLoopback == {<<"127.0.0.1">>, <<"localhost">>}

\* One built-in, two slugs of the operator's own and a name that is no slug,
\* under a cap of two presets: three files overrun it, with or without an
\* override among them.
MCFiles ==
  {[stem |-> n, ext |-> "json", type |-> "regular"] : n \in {print, shop, door, noSlug}}
  \cup {[stem |-> print, ext |-> "JSON", type |-> "regular"],
        [stem |-> door, ext |-> "JSON", type |-> "special"],
        [stem |-> shop, ext |-> "other", type |-> "regular"]}

E(k, v) == [key |-> k, value |-> v]
Binds == {<<>>, <<E("BIND", <<" ", "127.0.0.1">>)>>, <<E("BIND", <<"0.0.0.0">>)>>,
          <<E("BIND", <<"lan", " ">>)>>, <<E("BIND", <<>>)>>,
          <<E("BIND", <<"lan">>), E("BIND", <<"localhost">>)>>,
          <<E("BIND", <<"localhost">>), E("BIND", <<"lan">>)>>}
Auths == {<<>>, <<E("AUTH_MODE", <<"open", " ">>)>>, <<E("AUTH_MODE", <<"none">>)>>}
Keys  == {<<>>, <<E("API_KEYS", <<" ", ",">>)>>, <<E("API_KEYS", <<" ", "k", ",", "l">>)>>,
          <<E("I_UNDERSTAND_OPEN_BIND", <<"1">>)>>, <<E("I_UNDERSTAND_OPEN_BIND", <<"yes">>)>>}
Others1 == {<<E(k, v)>> : k \in {"MAX_BODY"},
              v \in {<<n>> : n \in {"0", "7", "16385", "-1"}}
                    \cup {<<n, " ", u>> : n \in {"0", "1", "64", "129", "16385"}, u \in {"K", "M"}}
                    \cup {<<"7", "K", "K">>, <<"x">>, <<>>}}
  \cup {<<E("RATE_LIMIT", v)>> : v \in {<<"0", "/", "min">>, <<"7">>, <<"-1", "/", "min">>,
                                        <<"7", " ", "/", " ", "s">>, <<"7", "/", "day">>}}
  \cup {<<E("REQUEST_TIMEOUT", v)>> : v \in {<<"0">>, <<"7">>, <<"7", "ms">>}}
  \cup {<<E("SHUTDOWN_GRACE", v), E("PORT", <<"0">>)>> : v \in {<<"0">>, <<"-1", "ms">>}}
  \cup {<<E("TYPO", <<"x">>), E("ALLOW_REMOTE_FETCH", <<"true">>), E("DYNAMIC", <<"true">>)>>}
MCEnvirons == {b \o a \o k : b \in Binds, a \in Auths, k \in Keys}
              \cup {b \o o : b \in {<<>>, <<E("BIND", <<"lan">>)>>}, o \in Others1}

C(cmd, flag) == [cmd |-> cmd, flag |-> flag]
MCCommands == {C("", "none"), C("version", "none"), C("help", "none"), C("nope", "none"),
               C("serve", "none"), C("serve", "print"), C("serve", "help"), C("serve", "bad"),
               C("check-config", "none"), C("check-config", "print")}

\* A directory of presets is listed, and connections are opened, only where the
\* environment is empty; and where files were listed the port is taken: what is
\* loaded does not look at the environment, and what is served not at the files.
\* A signal comes at any time, but not under more than one file; three files start
\* within the size limit, and any of them may grow past it.
MCInit == /\ args \in Commands /\ environ \in Environs /\ dir \in {"none", "broken", "ok"}
          /\ args # C("serve", "none") => environ \in Binds \cup Keys
          /\ environ # <<>> \/ args # C("serve", "none") => dir = "none"
          /\ ProcessInit
          /\ Len(listing) = 3 => \A i \in DOMAIN cond : cond[i] # "large"
MCNext == /\ ProcessNext
          /\ environ # <<>> => \A c \in Conns : conn'[c] = "none"
          /\ listing # <<>> => listener' = "none"
          /\ Len(listing) > 1 => ~ctxDone' /\ code' # Killed
MCSpec ==
  /\ MCInit /\ [][MCNext]_<<processVars, vars>>
  /\ WF_<<processVars, vars>>(Command \/ Configure \/ LoadPresets \/ Ready \/ Exit)
  /\ WF_<<processVars, vars>>(proc = "serve" /\ Main /\ MCNext /\ UNCHANGED processVars)
  /\ WF_<<processVars, vars>>(proc = "serve" /\ Http /\ UNCHANGED processVars)
  /\ WF_<<processVars, vars>>(proc = "serve" /\ GraceOver /\ UNCHANGED processVars)
=============================================================================
