----------------------------- MODULE MCAdmission -----------------------------
(* Three requests from one address, with the one good key or without it,   *)
(* contend for one slot, a budget of one failed attempt and one token of   *)
(* rate: each limit is reached while other requests are past it.  Callers  *)
(* are dealt out in order, which loses nothing: requests differ only in    *)
(* their callers.                                                          *)
EXTENDS Admission
CONSTANTS r1, r2, r3, addr, key, bad
MCThree  == {r1, r2, r3}
MCAddrs  == {addr}
MCKeys   == {key}

Rank(c) == (CASE c.route = "api" -> 0 [] c.route = "docs" -> 2 [] OTHER -> 4)
           + (IF c.key = key THEN 1 ELSE 0)
MCInit == Init /\ Rank(who[r1]) <= Rank(who[r2]) /\ Rank(who[r2]) <= Rank(who[r3])
MCSpec == MCInit /\ [][Next]_vars /\ Fairness
=============================================================================
