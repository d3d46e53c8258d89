SPECIFICATION RobompSpec
CONSTANTS
  d1 = d1
  d2 = d2
  i1 = i1
  Delivery = {d1, d2}
  Issue = {i1}
  IssueOf <- OneIssue
  NoIssue = NoIssue
  Slot = {s1}
  NoSlot = NoSlot
  MaxRetries = 0
  MaxRequests = 1
  MaxBoots = 2
  MaxAnswers = 2
INVARIANTS
  RobompTypeOK
  OneRunPerIssue
PROPERTIES
  RunOwnsItsRow
  ClaimsQuietIssues
  OnlyCloserFinishesClaims
CHECK_DEADLOCK FALSE
