CONSTANTS
  n1 = n1
  n2 = n2
  n3 = n3
  Server = {n1, n2, n3}
  Writes = {}
  Reads = {}
  Key <- OneKey
  Value <- OwnValue
  Nobody = Nobody
  Absent = Absent
  FirstLeader = Nobody
  NextLeader = Nobody
  Hybrid = FALSE
  MaxElections = 3
  MaxHeartbeats = 1
  MaxLosses = 1
  MaxInTransit = 2
SPECIFICATION Spec
SYMMETRY Symmetry
INVARIANTS
  ElectionSafety
  OneVotePerTerm
  KnownLeaderLed
  TimersFollowRole
PROPERTIES
  VotesAreFinal
CHECK_DEADLOCK FALSE
