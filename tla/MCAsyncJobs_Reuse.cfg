SPECIFICATION Spec
CONSTANTS
  ida = ida
  j1 = j1
  j2 = j2
  NoJob = NoJob
  Id = {ida}
  Job = {j1, j2}
  IdOf <- SameId
  Waiter = {w1}
INVARIANTS
  TypeOK
  RunningRowIsKept
  InjectedOnce
CHECK_DEADLOCK FALSE
