CONSTANTS
  election = election
  heartbeat = heartbeat
  Name = {election, heartbeat}
  Durations = {0, 1, 2}
  MaxTime = 4
  MaxToken = 3
SPECIFICATION FairSpec
INVARIANTS
  LiveEventAtDeadline
PROPERTIES
  RingsOnTime
  DeadlinesPass
CHECK_DEADLOCK FALSE
