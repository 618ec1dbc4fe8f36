----------------------------- MODULE MCLimiter -----------------------------
(* Two callers, two requests per three ticks: a tick brings two thirds of  *)
(* a token, so refills land on, below and above whole tokens.  A window of *)
(* seven ticks outlasts the six after which the sweeper takes a bucket.    *)
EXTENDS LimiterWindow
CONSTANTS a, b
MCKeys == {a, b}
=============================================================================
