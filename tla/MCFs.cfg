SPECIFICATION FairSpec
CONSTANTS
  Calls = {c1}
  BlockSize = 2
  MaxLength = 4
  MaxChanges = 3
INVARIANTS ReadIsSnapshot
PROPERTIES CallsEnd
CHECK_DEADLOCK FALSE
