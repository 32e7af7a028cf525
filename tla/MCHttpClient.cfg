SPECIFICATION FairSpec
CONSTANTS
  r1 = r1
  r2 = r2
  Requests = {r1, r2}
  Events = {"refused", "split", "bad", "empty", "eof", "error"}
INVARIANTS TypeOK KeptAlive OneContinuation Released
PROPERTIES Told
CHECK_DEADLOCK FALSE
