SPECIFICATION Spec
CONSTANTS
  d1 = d1
  d2 = d2
  i1 = i1
  Delivery = {d1, d2}
  Issue = {i1}
  IssueOf <- OneOfNone
  NoIssue = NoIssue
  Slot = {s1}
  NoSlot = NoSlot
  MaxRetries = 1
  MaxRequests = 0
  MaxBoots = 2
INVARIANTS
  CancelReachesAgent
CHECK_DEADLOCK FALSE
