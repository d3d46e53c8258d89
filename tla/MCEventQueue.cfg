SPECIFICATION LiveSpec
CONSTANTS
  d1 = d1
  d2 = d2
  i1 = i1
  Delivery = {d1, d2}
  Issue = {i1}
  IssueOf <- OneOfNone
  NoIssue = NoIssue
  Slot = {s1}
  NoSlot = NoSlot
  MaxRetries = 1
  MaxRequests = 1
  MaxBoots = 2
INVARIANTS
  TypeOK
  SlotIsClean
  NothingIsStuck
PROPERTIES
  CancelSticks
  EventSettles
CHECK_DEADLOCK FALSE
