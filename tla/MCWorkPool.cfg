SPECIFICATION LiveSpec
CONSTANTS
  i1 = i1
  i2 = i2
  i3 = i3
  i4 = i4
  w1 = w1
  w2 = w2
  w3 = w3
  Items = {i1, i2, i3, i4}
  Workers = {w1, w2, w3}
  Limit = 2
  Slots = 8
  LatePush = FALSE
  FreshFault = FALSE
INVARIANTS TypeOK HeldOnce WorkerLimit
PROPERTIES ClosedStartsNothing PoolDrains KeepsPromise
CHECK_DEADLOCK FALSE
