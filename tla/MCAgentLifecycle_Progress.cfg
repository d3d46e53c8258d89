SPECIFICATION FairSpec
CONSTANTS
  Ref = {r1}
  Session = {s1, s2}
  Caller = {c1, c2}
  Releaser = {x1}
  NoRef = NoRef
  NoSession = NoSession
INVARIANTS
  IdleAgentIsArmed
PROPERTIES
  EnsureLiveReturns
  ReleaseReturns
