SPECIFICATION WFairSpec
CONSTANTS
  MaxFutures = 4
  HandlerKinds = {"then", "error"}
  PoolSize = 1
INVARIANTS WorkTypeOK WorkerOutcome FuturesHold
PROPERTIES WorkersFinish
CHECK_DEADLOCK FALSE
