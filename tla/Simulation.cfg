CONSTANTS
  m1 = m1
  m2 = m2
  l1 = l1
  Node = {1, 2}
  Msg = {m1, m2}
  Delays = {0, 1}
  Lossy = FALSE
  Alarms <- MCAlarms
  Durations = {1}
  MaxTime = 1
  MaxToken = 2
  Local = {l1}
  Sink = 2
  Links <- MCLinks
  Horizons = {0}
  Controls <- MCControls
  Source = 1
  MaxControls = 2
SPECIFICATION SimFair
INVARIANTS
  CutsAreMutual
  MessagesBeforeTimers
  ClosedLinksCarryNothingNew
PROPERTIES
  KeepsOrder
  EveryMessageSettles
CHECK_DEADLOCK FALSE
