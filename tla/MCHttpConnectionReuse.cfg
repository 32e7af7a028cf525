SPECIFICATION Spec
CONSTANTS
  Callbacks = 1
  MaxRequests = 2
  Events = {}
  Handlers = {"sync"}
INVARIANTS AssertionsHold
CHECK_DEADLOCK FALSE
