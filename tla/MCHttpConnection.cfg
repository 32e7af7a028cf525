SPECIFICATION Spec
CONSTANTS
  Callbacks = 2
  MaxRequests = 2
  Events = {"reset", "bad"}
  Handlers = {"sync", "later", "throws"}
INVARIANTS TypeOK ResponseStays
CHECK_DEADLOCK FALSE
