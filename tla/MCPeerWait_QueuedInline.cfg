SPECIFICATION LiveSpec
CONSTANTS
  a = a
  b = b
  c = c
  m1 = m1
  Main = Main
  None = None
  Agents = {Main, a, b}
  Msgs = {}
  MaxPermits = 1
  QueueInline = TRUE
  MaxWaits = 1
  MaxKills = 0
PROPERTY NobodyIsStuck
CHECK_DEADLOCK FALSE
