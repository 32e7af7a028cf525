SPECIFICATION FairSpec
CONSTANTS
  MaxFutures = 4
  HandlerKinds = {"then", "error", "finally"}
INVARIANTS TypeOK NeverFails HandlesReady DeliveredIffSettled AttachmentOrder SkippedIsTransparent AdoptsReturned
PROPERTIES SettledForever ImplementsPromises HandlersRun HandlesClose
CHECK_DEADLOCK FALSE
