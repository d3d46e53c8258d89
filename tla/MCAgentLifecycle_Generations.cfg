SPECIFICATION Spec
CONSTANTS
  Ref = {r1, r2}
  Session = {s1, s2}
  Caller = {c1, c2}
  Releaser = {x1}
  NoRef = NoRef
  NoSession = NoSession
SYMMETRY Symmetry
INVARIANTS
  TypeOK
  DetachedWhenStopped
  SingleWriter
  AttachedIsOpen
  OneRevivalRegistered
PROPERTIES
  TombstoneIsFinal
  StaleWorkIsHarmless
  HandsOutOpenSession
