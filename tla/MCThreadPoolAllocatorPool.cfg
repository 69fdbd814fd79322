SPECIFICATION Spec
CONSTANTS
  c1 = c1
  c2 = c2
  Clients = {c1, c2}
  Eager = {c1}
  SizeOf <- TwoSizes
  Buffers = {b1, b2, b3}
  DURATION = 1
  PeriodMS = 1
  PeriodFrequency = 1
  MaxTime = 3
  NoBuffer = none
  NoClient = none
SYMMETRY BufferSymmetry
CHECK_DEADLOCK TRUE
INVARIANTS ExclusiveUse BuffersListed
