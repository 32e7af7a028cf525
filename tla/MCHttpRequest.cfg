SPECIFICATION Spec
CONSTANTS
  Messages <- MCMessages
  MaxPlugin = 1
  Params = {"p", "q"}
  Registrations <- MCRegistrations
  MaxData = 3
INVARIANTS MessageExact  
CHECK_DEADLOCK FALSE
