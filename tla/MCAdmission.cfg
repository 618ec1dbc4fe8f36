CONSTANTS
  r1 = r1
  r2 = r2
  r3 = r3
  addr = addr
  key = key
  bad = bad
  Requests <- MCThree
  Addrs <- MCAddrs
  Keys <- MCKeys
  Invalid = bad
  AuthOpen = FALSE
  Concurrency = 1
  Budget = 1
  Burst = 1
SPECIFICATION MCSpec
CHECK_DEADLOCK FALSE
INVARIANT NoLeak
INVARIANT OnlyAuthorisedWork
PROPERTY NeverStuckInQueue
PROPERTY ChargesExactlyFailures
