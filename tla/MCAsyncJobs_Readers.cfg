SPECIFICATION LoopSpec
CONSTANTS
  ida = ida
  j1 = j1
  j2 = j2
  NoJob = NoJob
  Id = {ida}
  Job = {j1}
  IdOf <- OneId
  Waiter = {w1, w2}
INVARIANTS
  OneDelivery
  ConsumedWasSeen
  ResultIsOnItsWay
  ForegroundIsNotDelivered
PROPERTIES
  NoReplay
  RowsAreEvicted
CHECK_DEADLOCK FALSE
