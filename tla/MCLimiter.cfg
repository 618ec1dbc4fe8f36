CONSTANTS
  a = a
  b = b
  Keys <- MCKeys
  Count = 2
  Per = 3
  MaxWindow = 7
SPECIFICATION WSpec
INVARIANT WithinRate
PROPERTY ImplementsIdeal
PROPERTY KeptOnlyIfCalled
