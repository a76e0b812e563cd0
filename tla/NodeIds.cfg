CONSTANTS
  MaxIndex = 3
  MaxGeneration = 3
SPECIFICATION Spec
INVARIANTS
  ValidIffHeld
PROPERTIES
  HandedOutOnce
CHECK_DEADLOCK FALSE
