CONSTANTS
  n1 = n1
  n2 = n2
  n3 = n3
  w1 = w1
  w2 = w2
  w3 = w3
  Server = {n1, n2, n3}
  Writes = {w1, w2, w3}
  Reads = {}
  Key <- OwnKey
  Value <- OwnValue
  Nobody = Nobody
  Absent = Absent
  FirstLeader = n1
  NextLeader = n2
  Hybrid = FALSE
  MaxElections = 1
  MaxHeartbeats = 1
  MaxLosses = 1
  MaxInTransit = 0
SPECIFICATION SpecSplit
SYMMETRY Symmetry
INVARIANTS
  LogMatching
  ResponsesMatchLog
  CommitsWithinLog
PROPERTIES
  LeaderAppendOnly
  CommitAnswers
CHECK_DEADLOCK FALSE
