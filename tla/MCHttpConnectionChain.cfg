SPECIFICATION Spec
CONSTANTS
  Callbacks = 2
  MaxRequests = 1
  Events = {}
  Handlers = {"sync"}
INVARIANTS AnsweredOnce
CHECK_DEADLOCK FALSE
