CONSTANTS
  MaxTime = 2
  MaxKey = 1
  MaxSize = 6
  MaxSent = 2
SPECIFICATION Spec
INVARIANTS
  HeapOrdered
PROPERTIES
  KeepsAgenda
  TimeMovesOn
CHECK_DEADLOCK FALSE
