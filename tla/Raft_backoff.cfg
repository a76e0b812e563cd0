CONSTANTS
  n1 = n1
  n2 = n2
  n3 = n3
  w1 = w1
  w2 = w2
  Server = {n1, n2, n3}
  Writes = {w1, w2}
  Reads = {}
  Key <- OneKey
  Value <- OwnValue
  Nobody = Nobody
  Absent = Absent
  FirstLeader = n1
  NextLeader = n2
  Hybrid = TRUE
  MaxElections = 1
  MaxHeartbeats = 1
  MaxLosses = 1
  MaxInTransit = 0
SPECIFICATION FairSplit
PROPERTIES
  Quiesces
CHECK_DEADLOCK FALSE
