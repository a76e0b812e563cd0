CONSTANTS
  n1 = n1
  n2 = n2
  n3 = n3
  w1 = w1
  r1 = r1
  r2 = r2
  Server = {n1, n2, n3}
  Writes = {w1}
  Reads = {r1, r2}
  Key <- OneKey
  Value <- OwnValue
  Nobody = Nobody
  Absent = Absent
  FirstLeader = Nobody
  NextLeader = Nobody
  Hybrid = FALSE
  MaxElections = 3
  MaxHeartbeats = 0
  MaxLosses = 1
  MaxInTransit = 0
SPECIFICATION Spec
SYMMETRY Symmetry
INVARIANTS
  TypeOK
  ClientConservation
  RedirectsFollowLeader
  SettledClientsAnswered
CHECK_DEADLOCK FALSE
