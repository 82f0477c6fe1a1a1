CONSTANTS
  InumsDim = 62
  StackLimit = 12
  TkBufferN = 300
  GetsN = 4
  Seeds = {1}
  Orders = {FALSE}
  Copying = {FALSE}
  Offered <- TraceSessions
SPECIFICATION Spec
INVARIANTS TracedSurvives
CHECK_DEADLOCK FALSE
