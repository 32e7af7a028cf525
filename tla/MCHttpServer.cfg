SPECIFICATION FairSpec
CONSTANTS
  c1 = c1
  c2 = c2
  Connections = {c1, c2}
  IdleTimeout = 2
  ResponseTimeout = 3
  Second = 1
  MaxCloses = 2
INVARIANTS TypeOK WatchedOnce EntryIsDeadline TimerWatches
PROPERTIES NeverEarly TimerEnds NothingLeft
CHECK_DEADLOCK FALSE
