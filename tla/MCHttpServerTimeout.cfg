SPECIFICATION FairSpec
CONSTANTS
  c1 = c1
  Connections = {c1}
  IdleTimeout = 2
  ResponseTimeout = 3
  Second = 1
  MaxCloses = 2
PROPERTIES TimeoutCloses
CHECK_DEADLOCK FALSE
