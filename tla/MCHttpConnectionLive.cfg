SPECIFICATION FairSpec
CONSTANTS
  Callbacks = 2
  MaxRequests = 1
  Events = {"split", "eof", "reset", "error", "bad", "url"}
  Handlers = {"sync", "later", "early", "throws"}
PROPERTIES EveryRequestAnswered
CHECK_DEADLOCK FALSE
