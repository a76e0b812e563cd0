CONSTANTS
  n1 = n1
  n2 = n2
  n3 = n3
  w1 = w1
  r1 = r1
  Server = {n1, n2, n3}
  Writes = {w1}
  Reads = {r1}
  Key <- OneKey
  Value <- OwnValue
  Nobody = Nobody
  Absent = Absent
  FirstLeader = n1
  NextLeader = Nobody
  Hybrid = FALSE
  MaxElections = 1
  MaxHeartbeats = 0
  MaxLosses = 0
  MaxInTransit = 0
SPECIFICATION SpecReads
INVARIANTS
  ReadsSeeCompletedWrites
CHECK_DEADLOCK FALSE
