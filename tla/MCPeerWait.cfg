SPECIFICATION LiveSpec
CONSTANTS
  a = a
  b = b
  c = c
  m1 = m1
  Main = Main
  None = None
  Agents = {Main, a, b}
  Msgs = {m1}
  MaxPermits = 2
  QueueInline = FALSE
  MaxWaits = 2
  MaxKills = 1
INVARIANTS TypeOK
PROPERTIES ToldForAReason NobodyIsStuck HandedOverIsRead
CHECK_DEADLOCK FALSE
