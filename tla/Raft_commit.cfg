CONSTANTS
  n1 = n1
  n2 = n2
  n3 = n3
  w1 = w1
  w2 = w2
  Server = {n1, n2, n3}
  Writes = {w1, w2}
  Reads = {}
  Key <- OneKey
  Value <- OwnValue
  Nobody = Nobody
  Absent = Absent
  FirstLeader = n1
  NextLeader = Nobody
  Hybrid = FALSE
  MaxElections = 1
  MaxHeartbeats = 0
  MaxLosses = 0
  MaxInTransit = 4
SPECIFICATION SpecLed
SYMMETRY Symmetry
INVARIANTS
  CompletedWritesOnMajority
CHECK_DEADLOCK FALSE
